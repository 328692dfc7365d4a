SPECIFICATION FairSpec
CONSTANTS
  b1 = b1
  w1 = w1
  w2 = w2
  Blocks <- MCBlocks
  Writers <- MCWriters
  Raw <- MCRaw
  Requests <- MCRequests
  MaxNumber = 2
  MaxWrites = 2
  MaxSnapshots = 3
  MaxResizes = 1
INVARIANTS
  TypeOK
  IncrementalIsExact
  NoStaleDeferIo
PROPERTIES
  AdminFinishes
CHECK_DEADLOCK FALSE
