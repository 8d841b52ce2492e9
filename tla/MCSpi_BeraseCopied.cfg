CONSTANTS
  SpiBar <- MCSpiBar
  Words <- MCWords
  Contents <- MCContents
SPECIFICATION Spec
CHECK_DEADLOCK FALSE
INVARIANT BeraseCopied
