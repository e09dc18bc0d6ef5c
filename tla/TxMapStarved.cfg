SPECIFICATION MapSpec
CONSTANTS
  kNumTxDesc = 6
  kMaxSegs = 2
  kMinFreeDescs = 4
  kTxQueueWakeTreshhold = 5
  TxMemDescCounts = {2}
  TxPtrMod = 12
  UIntMod = 64
  Packets = {p1, p2}
  NoMbuf = NoMbuf
  LinkFlaps = FALSE
INVARIANTS ReadsMappedMemory
