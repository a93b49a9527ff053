SPECIFICATION Spec
CONSTANTS
  Cells = {1, 2, 3, 4, 5, 6, 7}
  HeaderSize = 1
  SessionBuffer = 4
  MaxSendWindow = 8
  RemoteBytes = 2
  AppBytes = 1
  MaxRead = 2
  Windows = {8}
  TunRoom = 2
  Env = {"appClose", "finData", "tunLoss", "appReset", "connectFail", "tunWriteFail", "tunnelError", "sendError", "idle"}
INVARIANTS
  NoDangling
  NoLeak
  FlagsExact
  DownstreamIntact
PROPERTY
  ClosedForGood
CHECK_DEADLOCK FALSE
