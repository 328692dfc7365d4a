SPECIFICATION FileSpec
CONSTANTS
  DeviceIds <- MCDevices
  NoDevice = "none"
  LastPage = 4
  PageCells = 3
  MapCells = 4
  Nanoseconds = {1, 2}
  MaxStores = 1
INVARIANTS
  ReadsWhole
CHECK_DEADLOCK FALSE
