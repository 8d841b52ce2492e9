CONSTANTS
  Addresses <- MCAddresses
  Sizes <- MCSizes
  BlockSizes <- MCBlockSizes
  FlaSpan = 24
  NumFdata = 2
  ClearOn = "zero"
  MaxForeign = 0
SPECIFICATION FairSpec
CHECK_DEADLOCK FALSE
INVARIANTS
  TypeOK
  BlocksExact
  ErrorsAttributed
PROPERTIES
  NoOverlap
  ImplementsReader
  Returns
