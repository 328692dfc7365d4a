SPECIFICATION Spec
CONSTANTS
  NoDevice = "none"
  Devices <- MCDevices
  Sets <- MCSets
  StoreSets <- MCStoreSets
  Overlapping <- MCOverlap
  Snapshots <- MCSnapshots
  Stores <- MCStores
  MaxImages = 3
  Defers <- MCDefers
  p1 = p1
  p2 = p2
  Processes = {p1, p2}
  FaultSets <- MCFaultSets
  Avoided = {"recapture", "readd", "race"}
INVARIANTS
  TypeOK
  SnapshotIsComplete
  OwnershipIsExact
SYMMETRY Interchange
CHECK_DEADLOCK FALSE
