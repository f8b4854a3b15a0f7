\* Every line of up to five words with up to two pipes, which hold two units.
CONSTANTS
  Lines <- MCLines
  MaxTokens = 5
  MaxCommands = 3
  Cap = 2
  CatCap = 1
  MaxTyped = 1
SPECIFICATION FairSpec
INVARIANTS TypeOK CountsAgree OnlyNeighbours NoLeak ExitCodesDecide
PROPERTY PipelineReturns
\* The shell may exit.
CHECK_DEADLOCK FALSE
