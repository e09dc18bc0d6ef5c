SPECIFICATION Spec
CONSTANTS
  kNumRxDesc = 6
  kRxMemBatchSize = 2
  LinkFlaps = FALSE
INVARIANTS NicAddressMapped AwaitingIsWindow UnmapsOnlyDone
