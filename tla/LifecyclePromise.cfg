SPECIFICATION FairSpec
CONSTANTS
  Cancellers = {}
  Reconcilers = {r1, r2}
  Calls = 2
  SlowBoot = FALSE
INVARIANTS
  SlotCoversQuery
PROPERTIES
  KeepsPromise
  JobSettles
CHECK_DEADLOCK FALSE
