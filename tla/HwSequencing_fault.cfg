CONSTANTS
  Addresses <- MCAddresses
  Sizes <- MCSizes
  BlockSizes <- MCBlockSizes
  FlaSpan = 24
  NumFdata = 2
  ClearOn = "zero"
  MaxForeign = 0
SPECIFICATION Spec
CHECK_DEADLOCK FALSE
INVARIANTS
  OnlySuccessfulBlocks
