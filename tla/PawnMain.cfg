SPECIFICATION Spec
CONSTANTS
  HardwareIds <- MCHardwareIds
  RcbaWords <- MCRcbaWords
  GcsWords <- MCGcsWords
  FlashBlocks = 5
  FlushEvery = 3
  BufferBlocks = 2
  MaxDiskFaults = 2
  TornBytes = {32}
INVARIANTS TypeOK SavedImage DumpIsPrefix OldDumpKept AbortsOnWriteErrors BlocksAscend WindowFromRcba ClassUnambiguous
CHECK_DEADLOCK FALSE
