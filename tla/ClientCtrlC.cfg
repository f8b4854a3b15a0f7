\* Expected to fail: Ctrl-C while the client is busy.
CONSTANTS
  MaxStr = 2
  MaxMsg = 3
  Block = 2
  Lengths = {1, 2}
  MaxLines = 1
SPECIFICATION Spec
INVARIANT CtrlCReturns
CHECK_DEADLOCK FALSE
