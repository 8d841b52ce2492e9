CONSTANTS
  SpiBar <- MCSpiBar
  Words <- MCWords
  Contents <- MCContents
SPECIFICATION Spec
CHECK_DEADLOCK FALSE
INVARIANTS
  TypeOK
  ReadBack
  LosslessReads
PROPERTY NoSpill
