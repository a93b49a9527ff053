SPECIFICATION FairSpec
CONSTANTS
  Cells = {1, 2, 3, 4, 5, 6, 7, 8, 9}
  HeaderSize = 1
  SessionBuffer = 4
  MaxSendWindow = 8
  RemoteBytes = 3
  AppBytes = 2
  MaxRead = 1
  Windows = {8}
  TunRoom = 2
  Env = {"appClose"}
INVARIANTS
  UpstreamIntact
PROPERTIES
  UpIsPipe
  DownloadCompletes
  UploadForwarded
CHECK_DEADLOCK FALSE
