SPECIFICATION FairSpec
CONSTANTS
  Devices <- MCDevices
  EmptyLimit = 2
  Needs <- MCNeeds
  Portions = {2}
  MaxPortions = 2
  MaxDropped = 1
INVARIANTS
  TypeOK
  NoticesAreRight
  TerminateIsLast
PROPERTIES
  OverflowIsHeard
CHECK_DEADLOCK FALSE
