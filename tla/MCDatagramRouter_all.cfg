SPECIFICATION FairSpec
CONSTANTS
  Flows = {1, 2}
  Limit = 1
  MaxAccept = 3
  MaxAnswers = 2
  MaxFails = 1
INVARIANTS
  FlowsInOrder
PROPERTIES
  SessionsEnd
CHECK_DEADLOCK FALSE
