\* Four valid names, two of them separate, and two invalid ones; three values.
CONSTANTS
  Tokens <- MCTokens
  Letters <- MCLetters
  Digits <- MCDigits
SPECIFICATION Spec
INVARIANTS TypeOK UniqueKeys
PROPERTY EnvironmentSpec
\* The shell exits.
CHECK_DEADLOCK FALSE
