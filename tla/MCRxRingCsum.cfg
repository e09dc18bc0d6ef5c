SPECIFICATION Spec
CONSTANTS
  kNumRxDesc = 3
  Mbufs = {m1, m2, m3, m4, m5, m6}
  NoMbuf = NoMbuf
  NumFrames = 2
  MaxFrags = 3
  AllocFails = FALSE
  LinkFlaps = FALSE
SYMMETRY Symm
INVARIANTS ChecksumOfLivePacket
