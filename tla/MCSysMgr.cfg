SPECIFICATION FairSpec
CONSTANTS
  MaxThis = 2
  MaxOther = 1
  MaxFault = 1
INVARIANTS TimerPerRequest AnswersApart StartInOrder
PROPERTIES CalledBack NodeStarts
CHECK_DEADLOCK FALSE
