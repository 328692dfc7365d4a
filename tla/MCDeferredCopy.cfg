SPECIFICATION FairSpec
CONSTANTS
  Blocks = 1
  BlockPages = 2
  Cuts <- MCCuts
  Stores = {"file", "mem"}
INVARIANTS
  TypeOK
  SuccessIsHonest
  FreedAlone
  NoLostWakeup
PROPERTIES
  CopyEnds
CHECK_DEADLOCK FALSE
