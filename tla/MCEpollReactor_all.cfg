SPECIFICATION FairSpec
CONSTANTS
  h1 = h1
  h2 = h2
  Handlers = {h1, h2}
  Sockets = {2}
  Stubs = {1, 2, 3, 4}
  MAX_EVENTS = 2
  Stops = 1
CHECK_DEADLOCK FALSE
INVARIANTS
  NoFreedStub
  CallsOwner
  InterestAgrees
  StubsAccounted
PROPERTIES
  StopHonoured
  Served
