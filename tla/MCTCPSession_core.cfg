SPECIFICATION Spec
CONSTANTS
  Cells = {1, 2, 3, 4, 5, 6, 7}
  HeaderSize = 1
  SessionBuffer = 4
  MaxSendWindow = 8
  RemoteBytes = 2
  AppBytes = 1
  MaxRead = 2
  Windows = {2, 8}
  TunRoom = 1
  Env = {"appClose", "appWindow"}
INVARIANTS
  TypeOK
  BackQueueNumbered
  PausedWhenFull
PROPERTIES
  DownIsPipe
CHECK_DEADLOCK FALSE
