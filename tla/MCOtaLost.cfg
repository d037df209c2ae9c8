SPECIFICATION Spec
CONSTANTS
  TNs <- MCTNs
  Blocks = 2
  MaxStart = 1
  MaxLoss = 1
  Prompt = TRUE
CHECK_DEADLOCK FALSE
INVARIANTS RebootsComplete
