SPECIFICATION Spec
CONSTANTS
  r1 = r1
  r2 = r2
  Res <- MCRes
  Freqs <- MCFreqs
  Lens <- MCOne
  NumSym = 3
  CnSym = 1
  IntBits = 32
CHECK_DEADLOCK FALSE
INVARIANT NothingLost
