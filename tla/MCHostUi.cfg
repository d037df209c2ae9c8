SPECIFICATION Spec
CONSTANTS
  l1 = l1
  a1 = a1
  a2 = a2
  b1 = b1
  b2 = b2
  none = none
  TNs <- MCTNs
  Msgs <- MCMsgs
  Host <- MCHost
  Kind <- MCKind
  Node <- MCNode
  Packets <- MCPackets
  Script <- MCScript
  MaxFault = 1
  MaxReport = 1
  None = none
INVARIANTS  AloneIsHeard PerformedOnce  BlockIsHosts
