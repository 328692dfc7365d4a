SPECIFICATION CollectSpec
CONSTANTS
  Degree = 1
  BLOCK_EMPTY = BLOCK_EMPTY
  BLOCK_FULL = BLOCK_FULL
  Maps <- MCMaps
  Room <- MCRoom
  Bits <- IndexesOf
  NewMap <- MCNewMap
  LacksIn <- MCLacks
  NothingLacks <- NoLack
  SetBit <- SetIndex
  Ranges <- Convert2Rangelist
  Writers = {w1, w2}
  Writes <- MCWrites
  Lengths = {8}
  MapBits = 4
  MaxCollectors = 2
  MaxWrites = 2
  MaxRanges = 3
SYMMETRY Symmetry
INVARIANTS
  CollectTypeOK
  LocationIsExact
  CollectorsAreKept
CHECK_DEADLOCK FALSE
