SPECIFICATION FairSpec
CONSTANTS
  Cancellers = {c1}
  Reconcilers = {r1}
  Calls = 1
  SlowBoot = FALSE
PROPERTIES
  SignaledRunnerExits
CHECK_DEADLOCK FALSE
