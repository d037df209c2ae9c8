SPECIFICATION Spec
CONSTANTS
  m1 = m1
  m2 = m2
  m3 = m3
  NoMac = NoMac
  Macs <- MCMacs
  NumRes = 3
  NumSlots = 2
  MaxTrs = 2
  MaxRcv = 2
SYMMETRY MCSymmetry
INVARIANTS OneSender NoSelfReceive ListedConfigured RcvListFits
