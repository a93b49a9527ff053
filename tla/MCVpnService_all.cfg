SPECIFICATION FairSpec
CONSTANTS
  KeyOf <- MCKeyOf
  NumOf <- MCNumOf
  Values = {"a", "b"}
  Targets = {"app", "addr", "addr:port", "v6"}
  Colons = {"addr:port", "v6"}
  Ctrls = {3}
  Threads = {1, 2}
  Budgets <- Each
CHECK_DEADLOCK FALSE
INVARIANTS
  NoticesAlternate
  StopFindsRouter
  EnabledMeansUp
  SettingsAgree
PROPERTIES
  StopEndsRun
