SPECIFICATION Spec
CONSTANTS
  MaxSendBuffer = 3
  PerCall = 2
  Clients = {"UDP"}
  MaxAccept = 3
  MaxBack = 1
  Env = {}
INVARIANT WritableReturns
CHECK_DEADLOCK FALSE
