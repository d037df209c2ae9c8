SPECIFICATION FairSpec
CONSTANTS
  ra = ra
  rb = rb
  rc = rc
  rd = rd
  Nodes <- MCOne
  Res <- MCRes
  Trs <- MCTrsOne
  Rcv <- MCRcvAlone
  Places <- MCPlaces
  Retry = 1
  MaxJoin = 2
  Hasty = TRUE
  MaxFault = 0
CHECK_DEADLOCK FALSE
PROPERTIES OnlineIsServed
