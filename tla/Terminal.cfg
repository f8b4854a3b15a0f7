\* Lines of every length around MAX_STR_LEN, MAX_USER_MSG and their multiples,
\* Ctrl-D (length 0), two of them typed ahead.
CONSTANTS
  MaxStr = 2
  MaxMsg = 3
  Block = 2
  Lengths = {0, 1, 2, 3, 4, 5, 6, 7, 8}
  MaxLines = 2
SPECIFICATION FairSpec
INVARIANTS TypeOK NothingHidden LinesKeptApart SplitExact
PROPERTIES CtrlCEndsClient LinesAreRead
\* The shell may exit.
CHECK_DEADLOCK FALSE
