SPECIFICATION FairSpec
CONSTANTS
  Parts <- MCParts
  Users <- MCUsers
  PartOf <- MCPartOf
  Fs <- MCFs
  MaxDisks = 2
INVARIANTS
  TypeOK
  SerialOneHook
  TrackedRequestsAreServed
  RefsAreExact
PROPERTIES
  ControlEnds
CHECK_DEADLOCK FALSE
