SPECIFICATION FairSpec
CONSTANTS
  TNs <- MCTNs
  Blocks = 3
  MaxStart = 3
  MaxLoss = 2
  Prompt = TRUE
CHECK_DEADLOCK FALSE
INVARIANTS   InStep
 
