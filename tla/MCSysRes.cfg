SPECIFICATION FairSpec
CONSTANTS
  ra = ra
  rb = rb
  rc = rc
  rd = rd
  Nodes <- MCTwo
  Res <- MCCrowd
  Trs <- MCTrsCrowd
  Rcv <- MCRcvCrowd
  Places <- MCPlaces
  Retry = 1
  MaxJoin = 2
  Hasty = FALSE
  MaxFault = 1
CHECK_DEADLOCK FALSE
INVARIANTS SendersApart OwnInactive CnReceivesActive  
  
