SPECIFICATION Spec
CONSTANTS
  LastBlock = 1
  MaxIo = 3
  PoolBlocks = 1
  PortionBlocks = 1
  MaxPortions = 1
  EmptyLimit = 1
  MaxDios = 2
  MaxDioBlocks = 2
  OrigRequests <- MCOrigRequests
  ImageRequests <- MCImageRequests
INVARIANTS
  TypeOK
  PointInTime
  ReadsSnapshot
  NothingLost
  DirtyCoversWrites
PROPERTIES
  CopyBeforeWrite
  ImplementsImage
CHECK_DEADLOCK FALSE
