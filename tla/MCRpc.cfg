SPECIFICATION FairSpec
CONSTANTS
  b = b
  c = c
  d = d
  e = e
  data = data
  res = res
  none = none
  Nodes <- MCNodes
  Reqs <- MCReqs
  From <- MCFrom
  To <- MCTo
  Thread <- MCThread
  Earlier <- MCEarlier
  Srv <- MCSrv
  Serves <- MCServes
  Patient <- MCPatient
  Retry <- MCRetry
  MaxFault = 1
  None = none
CHECK_DEADLOCK FALSE
INVARIANTS AnswerIsOwn AnswerHasCause RunAgainAfterAnother
PROPERTIES CalledBack
