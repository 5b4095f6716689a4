SPECIFICATION Spec
CONSTANTS
  Cancellers = {c1, c2}
  Reconcilers = {r1}
  Calls = 2
  SlowBoot = TRUE
INVARIANTS
  TypeOK
  SucceededMeansAllCalls
  HandlerLeavesNoCall
PROPERTIES
  ReconcileSparesLiveRunner
CHECK_DEADLOCK FALSE
