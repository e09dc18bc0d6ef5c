SPECIFICATION FairSpec
CONSTANTS
  kTxCheckTreshhold = 5
  kTxDeadlockTreshhold = 6
  MaxInUse = 3
  DoneMod = 6
  IrqLost = TRUE
PROPERTIES RestartAfterQuietTicks HangEnds LostInterruptMadeUp
