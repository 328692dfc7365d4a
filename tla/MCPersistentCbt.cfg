SPECIFICATION Spec
CONSTANTS
  Devices <- MCDevices
  Storage = "sdb1"
  Room = 2
  MaxNumber = 2
  MaxDraws = 4
  MaxMounts = 1
INVARIANTS
  TypeOK
  IncrementalIsSound
CHECK_DEADLOCK FALSE
