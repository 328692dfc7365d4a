SPECIFICATION FileSpec
CONSTANTS
  DeviceIds <- MCDevices
  NoDevice = "none"
  LastPage = 4
  PageCells = 3
  MapCells = 4
  Nanoseconds = {1}
  MaxStores = 2
INVARIANTS
  FileTypeOK
  LoadedOnce
  FinishedStoreIsRead
CHECK_DEADLOCK FALSE
