SPECIFICATION Spec
CONSTANTS
  Cancellers = {c1}
  Reconcilers = {}
  Calls = 1
  SlowBoot = FALSE
PROPERTIES
  CancelSticks
CHECK_DEADLOCK FALSE
