\* Tokens of up to five characters, values up to the size of the array.
CONSTANTS
  Chars = {"$", "a", "b"}
  MaxStr = 5
  Word = 16
  Inputs <- MCInputs
  Envs <- MCEnvs
SPECIFICATION Spec
INVARIANTS TypeOK ReturnsExpansion SecondPassHarmless
