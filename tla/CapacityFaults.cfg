SPECIFICATION FairSpec
CONSTANTS
  o1 = o1
  o2 = o2
  o3 = o3
  Ops = {o1, o2}
  Procs = {o1, o2}
  ProcOf <- OwnProcess
  AsyncOps = {o2}
  Jobs = {j1, j2}
  LateJobs = {j1}
  NoOp = NoOp
  NoJob = NoJob
  Limit = 1
  Timeouts = {1}
  Horizon = 1
  SaveMayFail = TRUE
  PidReuse = TRUE
INVARIANTS
  CapHolds
PROPERTIES
  ImplementsPool
  EveryCallSettles
CHECK_DEADLOCK FALSE
