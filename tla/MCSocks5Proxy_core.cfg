SPECIFICATION FairSpec
CONSTANTS
  MaxSendBuffer = 3
  PerCall = 2
  Clients = {"TCP", "UDP"}
  MaxAccept = 3
  MaxBack = 2
  Env = {"refuse", "proxyCloses", "reset", "clientCloses"}
INVARIANTS
  BufferedExact
  StreamKept
  HandshakeOrder
  PayloadReachesClient
PROPERTIES
  EndsForGood
  HandshakeEnds
  TCPForwarded
CHECK_DEADLOCK FALSE
