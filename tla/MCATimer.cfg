SPECIFICATION FairSpec
CONSTANTS
  t1 = t1
  t2 = t2
  t3 = t3
  None = None
  Timers <- MCTimers
  Itvs <- MCItvs
  Irts <- MCIrts
  MaxTime = 3
  MaxTick = 3
CHECK_DEADLOCK FALSE
INVARIANTS NoneOvertakes NothingDangles NoLostWakeUp
PROPERTY StartedFires
