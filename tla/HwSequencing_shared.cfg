CONSTANTS
  Addresses <- SharedAddresses
  Sizes <- SharedSizes
  BlockSizes <- SharedBlockSizes
  FlaSpan = 24
  NumFdata = 2
  ClearOn = "zero"
  MaxForeign = 2
SPECIFICATION Spec
CHECK_DEADLOCK FALSE
INVARIANTS
  BlocksInOrder
  FlashIntact
  WaitsForCycle
PROPERTIES
  LockdownKept
  SmiEnableKept
  BoundedWork
