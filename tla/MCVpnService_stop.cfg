SPECIFICATION FairSpec
CONSTANTS
  KeyOf <- MCKeyOf
  NumOf <- MCNumOf
  Values = {"a"}
  Targets = {"app"}
  Colons = {}
  Ctrls = {3}
  Threads = {1}
  Budgets <- TwoRequests
CHECK_DEADLOCK FALSE
PROPERTIES
  TerminateUnblocks
