SPECIFICATION SystemSpec
CONSTANTS
  HardwareIds <- MCHardwareIds
  RcbaWords <- MCRcbaWords
  GcsWords <- MCGcsWords
  FlashBlocks = 2
  FlushEvery = 2
  BufferBlocks = 1
  MaxDiskFaults = 1
  TornBytes = {32}
  ClearOn = "zero"
  MaxForeign = 0
INVARIANTS SuccessMeansSaved
CHECK_DEADLOCK FALSE
