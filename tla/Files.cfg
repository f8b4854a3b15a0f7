\* Four directories deep, every line of up to three words for ls, five descriptors.
CONSTANTS
  MaxFree = 5
  Chunk = 3
  MaxStr = 2
  Trees <- MCTrees
  Value <- MCValue
  Number <- MCNumber
  strstr <- MCstrstr
  PathOf <- MCPathOf
  Paths <- MCPaths
  LsArgs <- MCLsArgs
SPECIFICATION Spec
INVARIANTS TypeOK CdArrives ListingExact OutputExact
