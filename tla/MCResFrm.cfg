SPECIFICATION Spec
CONSTANTS
  r1 = r1
  r2 = r2
  Res <- MCRes
  Freqs <- MCFreqs
  Lens <- MCLens
  NumSym = 4
  CnSym = 1
  IntBits = 2
SYMMETRY MCSymmetry
CHECK_DEADLOCK FALSE
INVARIANTS HeldDisjoint InUseNotFree FirstFit
