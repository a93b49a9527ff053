SPECIFICATION Spec
CONSTANTS
  W = 3
  M = 6
  PadBytes = {2}
  Talks <- MCTalks
INVARIANTS
  GotWhatWasSent
  NothingStuck
CHECK_DEADLOCK FALSE
