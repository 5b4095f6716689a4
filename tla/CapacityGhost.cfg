SPECIFICATION Spec
CONSTANTS
  o1 = o1
  o2 = o2
  o3 = o3
  Ops = {o1, o2}
  Procs = {o1, o2}
  ProcOf <- OwnProcess
  AsyncOps = {}
  Jobs = {j1, j2}
  LateJobs = {}
  NoOp = NoOp
  NoJob = NoJob
  Limit = 1
  Timeouts = {0, 1}
  Horizon = 1
  SaveMayFail = FALSE
  PidReuse = FALSE
SYMMETRY Symmetry
INVARIANTS
  NoGhostIntent
CHECK_DEADLOCK FALSE
