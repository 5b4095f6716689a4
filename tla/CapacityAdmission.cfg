SPECIFICATION Spec
CONSTANTS
  o1 = o1
  o2 = o2
  o3 = o3
  Ops = {o1, o2, o3}
  Procs = {o1, o2}
  ProcOf <- SharedProcess
  AsyncOps = {o2, o3}
  Jobs = {j1, j2, j3}
  LateJobs = {}
  NoOp = NoOp
  NoJob = NoJob
  Limit = 2
  Timeouts = {0, 1}
  Horizon = 1
  SaveMayFail = FALSE
  PidReuse = FALSE
SYMMETRY Symmetry
INVARIANTS
  TypeOK
  PlaceKept
  NoLeaseLeaks
  OutcomeMatchesJob
PROPERTIES
  NoOvertaking
CHECK_DEADLOCK FALSE
