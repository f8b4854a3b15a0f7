\* Expected to fail: a sender removed by its own broadcast.
CONSTANTS
  Clients = {c1, c2}
  NULL = NULL
  Sends = {"part", "chat", "connected"}
  MaxSegments = 2
  BufCap = 2
  SockCap = 1
  Sigint = FALSE
SPECIFICATION Spec
SYMMETRY ClientSymmetry
INVARIANT NoUseAfterFree
CHECK_DEADLOCK FALSE
