------------------------------- MODULE Capacity -------------------------------
(***************************************************************************)
(* dispatch/capacity.py: cross-process admission to the shared Impala      *)
(* slots.  Callers ("operations", one thread of one process each) either   *)
(* take a metadata lease or launch a Job.  All of them share a ledger      *)
(* file, rewritten under an flock; a Job's slot is its manifest being      *)
(* Pending or Running.                                                     *)
(*                                                                         *)
(* A critical section is Load (take the lock, read the ledger, reconcile   *)
(* it) followed by one step that decides, saves and unlocks.  Between the  *)
(* two, manifests change, the clock moves and the process may die.  A      *)
(* commit has three more boundaries: begin_commit, the Pending manifest    *)
(* becoming visible, and the save.                                         *)
(*                                                                         *)
(* A Job's runner looks at the manifest once, and writes Running later     *)
(* whatever the manifest says by then.  A Job that was cancelled, or       *)
(* failed by the grace period, in between comes back without being         *)
(* admitted again: it is "revived", and the cap is about all others.       *)
(***************************************************************************)
EXTENDS Naturals, FiniteSets

CONSTANTS
    Procs,        \* process ids
    Ops,          \* operations; each is one call, made at most once
    ProcOf,       \* the process an operation runs in
    AsyncOps,     \* the operations that launch with admit_launch_async
    Jobs,         \* ids of Jobs that may be created
    LateJobs,     \* bound: those whose runner may be overtaken before it writes Running
    NoOp, NoJob,  \* "nobody" and "nothing"
    Limit,        \* CAPACITY_LIMIT
    Timeouts,     \* launch timeouts callers ask for, 0 = admit immediately
    Horizon,      \* bound: the last instant of the clock
    SaveMayFail,  \* whether _save_ledger may raise
    PidReuse      \* whether the system may hand a dead process's pid out again

ASSUME CapacityAssumption ==
    /\ ProcOf \in [Ops -> Procs]
    /\ AsyncOps \subseteq Ops
    /\ NoOp \notin Ops
    /\ NoJob \notin Jobs
    /\ Ops \cap Jobs = {}
    /\ LateJobs \subseteq Jobs
    /\ IsFiniteSet(Ops) /\ IsFiniteSet(Jobs)
    /\ Limit \in Nat \ {0}
    /\ Timeouts \subseteq Nat
    /\ Horizon \in Nat
    /\ SaveMayFail \in BOOLEAN
    /\ PidReuse \in BOOLEAN

VARIABLES
    ledger,   \* capacity.json
    lock,     \* the operation holding capacity.lock, or NoOp
    mem,      \* the reconciled ledger in the lock holder's memory
    job,      \* what each Job's manifest says, as far as slots go
    runner,   \* how far each Job's runner has come, and what it wrote over
    clock,    \* time.monotonic() and time.time(), which advance together
    pids,     \* pids that pid_is_alive reports alive
    pc,       \* where each operation is
    stats,    \* operations whose lease request is a "stat" operation
    due,      \* each launch's deadline
    seq,      \* each launch's sequence number, 0 until it has one
    cancelled,\* launches cancelled while a worker-thread call was in flight
    outcome,  \* what a launch returned or raised
    made      \* the Job a launch created

vars == <<ledger, lock, mem, job, runner, clock, pids, pc, stats, due, seq,
          cancelled, outcome, made>>
launchVars == <<stats, due, seq, cancelled, outcome, made>>
worldVars == <<job, runner, clock, pids>>

-------------------------------------------------------------------------------
(* Types *)

Intent == [op : Ops, seq : Nat, due : Nat]
Ledger == [owners : SUBSET Ops, intents : SUBSET Intent,
           resv : SUBSET Jobs, next : Nat]

\* A manifest on disk that is Pending or Running is "active" while its runner
\* lives (or its startup grace lasts) and "stale" once it does not.
JobStates == {"absent", "active", "stale", "done"}

\* A runner has not looked yet, has seen Pending, or has written Running: over
\* the Pending manifest, or over a terminal state.
RunnerStates == {"none", "checked", "started", "revived"}

\* Polling for the lock, or waiting outside it.
Outside == {"new", "acquire", "holding", "release", "register", "asleep",
            "queued", "immediate", "discard", "ended", "dead"}
\* Inside the critical section.
Inside == {"acquiring", "releasing", "registering", "deciding", "decidingNow",
           "commit", "creating", "created", "discarding"}

Outcomes == {"none", "admitted", "busy", "timeout", "cancelled", "error"}

\* What the ledger on disk, the copy of the lock's holder and the calls can be.
TypeOK ==
    /\ ledger \in Ledger
    /\ lock \in Ops \cup {NoOp}
    /\ mem \in Ledger
    /\ job \in [Jobs -> JobStates]
    /\ runner \in [Jobs -> RunnerStates]
    /\ clock \in Nat
    /\ pids \subseteq Procs
    /\ pc \in [Ops -> Outside \cup Inside]
    /\ stats \subseteq Ops
    /\ due \in [Ops -> Nat]
    /\ seq \in [Ops -> Nat]
    /\ cancelled \subseteq Ops
    /\ outcome \in [Ops -> Outcomes]
    /\ made \in [Ops -> Jobs \cup {NoJob}]

-------------------------------------------------------------------------------
(* What the state means *)

\* Operations entitled to run an Impala metadata statement.
Holders == {o \in Ops : pc[o] \in {"holding", "release", "releasing"}}

\* Jobs whose manifest is Pending or Running.
SlotJobs == {j \in Jobs : job[j] \in {"active", "stale"}}

\* Jobs that came back after their slot was given up, and all the others.
Revived == {j \in Jobs : runner[j] = "revived"}
AdmittedJobs == SlotJobs \ Revived

\* Launches that hold a place in the queue and have not given up.
Waiting == {o \in Ops : /\ pc[o] \in {"asleep", "queued", "deciding", "commit"}
                        /\ seq[o] # 0
                        /\ o \notin cancelled}

MyIntent(o) == [op |-> o, seq |-> seq[o], due |-> due[o]]

-------------------------------------------------------------------------------
(* The ledger *)

NewLedger == [owners |-> {}, intents |-> {}, resv |-> {}, next |-> 1]

\* _reconcile: owners and intents of dead processes go, expired intents go,
\* reservations are rebuilt from the manifests; stale Jobs become Failed first.
LiveOwners(l) == {o \in l.owners : ProcOf[o] \in pids}
LiveIntents(l) == {i \in l.intents : ProcOf[i.op] \in pids /\ i.due > clock}
ActiveJobs == {j \in Jobs : job[j] = "active"}
Reconciled(l) == [owners |-> LiveOwners(l), intents |-> LiveIntents(l),
                  resv |-> ActiveJobs, next |-> l.next]
Swept == [j \in Jobs |-> IF job[j] = "stale" THEN "done" ELSE job[j]]

\* (Mutant: forgets the metadata owners.)
OccupiedByJobs(l) == Cardinality(l.resv)
Occupied(l) == Cardinality(l.owners) + Cardinality(l.resv)

\* (Mutant: drops everything up to the launch's own number.)
RemoveIntentsUpTo(l, o) ==
    [l EXCEPT !.intents = {i \in l.intents : i.seq > seq[o]}]
RemoveIntent(l, o) ==
    [l EXCEPT !.intents = {i \in l.intents : i.seq # seq[o]}]

\* A launch's place in the queue carries the next sequence number.
AppendIntent(l, o) ==
    [l EXCEPT !.next = l.next + 1,
              !.intents = l.intents \cup {[op |-> o, seq |-> l.next, due |-> due[o]]}]

\* Take the lock, then _load_reconciled.
Load(o, from, to) ==
    /\ pc[o] = from
    /\ lock = NoOp
    /\ lock' = o
    /\ mem' = Reconciled(ledger)
    /\ job' = Swept
    /\ pc' = [pc EXCEPT ![o] = to]
    /\ UNCHANGED <<ledger, runner, clock, pids, launchVars>>

\* Leave the critical section for next with the file holding l.
Leave(o, l, next) ==
    /\ ledger' = l
    /\ lock' = NoOp
    /\ mem' = NewLedger
    /\ pc' = [pc EXCEPT ![o] = next]

\* _save_ledger raises: before the os.replace, or after it (chmod, directory
\* fsync), in which case the file already holds l.
SaveFails(o, l, next) ==
    /\ SaveMayFail
    /\ \E onDisk \in {ledger, l} : Leave(o, onDisk, next)
-------------------------------------------------------------------------------
(* Metadata leases: try_acquire_metadata and MetadataLease.release *)

RequestLease(o) ==
    /\ pc[o] = "new"
    /\ pc' = [pc EXCEPT ![o] = "acquire"]
    /\ stats' \in {stats \cup {o}, stats \ {o}}
    /\ UNCHANGED <<ledger, lock, mem, worldVars, due, seq, cancelled, outcome, made>>

LoadForLease(o) == Load(o, "acquire", "acquiring")

\* The 0.25 s lock budget runs out: CapacityBusy, nothing was read.
LeaseLockTimeout(o) ==
    /\ pc[o] = "acquire"
    /\ lock # NoOp
    /\ pc' = [pc EXCEPT ![o] = "ended"]
    /\ UNCHANGED <<ledger, lock, mem, worldVars, launchVars>>

LeaseRefusable(o) ==
    \/ o \in stats /\ mem.intents # {}
    \/ Occupied(mem) >= Limit

RefuseLease(o) ==
    /\ pc[o] = "acquiring"
    /\ LeaseRefusable(o)
    /\ Leave(o, mem, "ended") \/ SaveFails(o, mem, "ended")
    /\ UNCHANGED <<worldVars, launchVars>>

\* (Mutant: the lease is handed out although the save failed.)
GrantUnsavedLease(o) ==
    LET granted == [mem EXCEPT !.owners = mem.owners \cup {o}] IN
    /\ pc[o] = "acquiring"
    /\ ~LeaseRefusable(o)
    /\ Leave(o, granted, "holding") \/ SaveFails(o, granted, "holding")
    /\ UNCHANGED <<worldVars, launchVars>>

\* A failed save leaves nobody to release the token, which may be on file.
GrantLease(o) ==
    LET granted == [mem EXCEPT !.owners = mem.owners \cup {o}] IN
    /\ pc[o] = "acquiring"
    /\ ~LeaseRefusable(o)
    /\ Leave(o, granted, "holding") \/ SaveFails(o, granted, "ended")
    /\ UNCHANGED <<worldVars, launchVars>>

\* The caller's finally clause: the lock is awaited without a deadline.
BeginRelease(o) ==
    /\ pc[o] = "holding"
    /\ pc' = [pc EXCEPT ![o] = "release"]
    /\ UNCHANGED <<ledger, lock, mem, worldVars, launchVars>>

LoadForRelease(o) == Load(o, "release", "releasing")

\* (Mutant: the shortened ledger is not saved.)
ReleaseUnsaved(o) ==
    /\ pc[o] = "releasing"
    /\ Leave(o, ledger, "ended")
    /\ UNCHANGED <<worldVars, launchVars>>

ReleaseLease(o) ==
    LET freed == [mem EXCEPT !.owners = mem.owners \ {o}] IN
    /\ pc[o] = "releasing"
    /\ Leave(o, freed, "ended") \/ SaveFails(o, freed, "ended")
    /\ UNCHANGED <<worldVars, launchVars>>

-------------------------------------------------------------------------------
(* Launches: admit_launch and admit_launch_async *)

\* How a call that fails now ends: a cancellation seen by the coroutine wins
\* over the refusal, never over a ledger error.
Fate(o, refusal) == IF o \in cancelled THEN "cancelled" ELSE refusal

\* (Mutant: the deadline is relative to the wrong instant.)
RequestEarlierLaunch(o, t) ==
    /\ pc[o] = "new"
    /\ pc' = [pc EXCEPT ![o] = IF t = 0 THEN "immediate" ELSE "register"]
    /\ due' = [due EXCEPT ![o] = t - clock]
    /\ UNCHANGED <<ledger, lock, mem, worldVars, stats, seq, cancelled, outcome, made>>

RequestLaunch(o, t) ==
    /\ pc[o] = "new"
    /\ clock + t <= Horizon
    /\ pc' = [pc EXCEPT ![o] = IF t = 0 THEN "immediate" ELSE "register"]
    /\ due' = [due EXCEPT ![o] = clock + t]
    /\ UNCHANGED <<ledger, lock, mem, worldVars, stats, seq, cancelled, outcome, made>>

\* The call ends in the critical section without a Job, the reconciled ledger
\* saved; a registered launch still has to discard its intent.
Refuse(o, refusal) ==
    LET after == IF seq[o] = 0 THEN "ended" ELSE "discard" IN
    /\ \/ /\ Leave(o, mem, after)
          /\ outcome' = [outcome EXCEPT ![o] = Fate(o, refusal)]
       \/ /\ SaveFails(o, mem, after)
          /\ outcome' = [outcome EXCEPT ![o] = IF pc[o] = "registering"
                                               THEN Fate(o, "error") ELSE "error"]
    /\ UNCHANGED <<worldVars, stats, due, seq, cancelled, made>>

\* The lock was still held by someone else when the deadline passed.
LockTimeout(o) ==
    /\ pc[o] \in {"register", "queued"}
    /\ lock # NoOp
    /\ clock >= due[o]
    /\ pc' = [pc EXCEPT ![o] = IF seq[o] = 0 THEN "ended" ELSE "discard"]
    /\ outcome' = [outcome EXCEPT ![o] = Fate(o, "timeout")]
    /\ UNCHANGED <<ledger, lock, mem, worldVars, stats, due, seq, cancelled, made>>

LoadForRegister(o) == Load(o, "register", "registering")

SlotsFull == Cardinality(mem.resv) >= Limit

RefuseRegister(o) ==
    /\ pc[o] = "registering"
    /\ \/ SlotsFull /\ Refuse(o, "busy")
       \/ ~SlotsFull /\ clock >= due[o] /\ Refuse(o, "timeout")

\* _register_launch_intent.  If the caller was cancelled meanwhile, the
\* coroutine goes straight to discarding the intent it just learned about.
Register(o) ==
    LET queued == AppendIntent(mem, o) IN
    /\ pc[o] = "registering"
    /\ ~SlotsFull
    /\ clock < due[o]
    /\ \/ /\ Leave(o, queued, IF o \in cancelled THEN "discard" ELSE "queued")
          /\ seq' = [seq EXCEPT ![o] = mem.next]
          /\ outcome' = [outcome EXCEPT ![o] = Fate(o, "none")]
       \/ /\ SaveFails(o, queued, "ended")
          /\ outcome' = [outcome EXCEPT ![o] = Fate(o, "error")]
          /\ UNCHANGED seq
    /\ UNCHANGED <<worldVars, stats, due, cancelled, made>>

LoadForAttempt(o) == Load(o, "queued", "deciding")

Queued(o) == \E i \in mem.intents : i.seq = seq[o]
\* (Mutant: anybody but the last may go.)
IsNotLast(o) == \E i \in mem.intents : seq[o] <= i.seq
IsFirst(o) == \A i \in mem.intents : seq[o] <= i.seq

RefuseAttempt(o) ==
    /\ pc[o] = "deciding"
    /\ \/ SlotsFull /\ Refuse(o, "busy")
       \/ ~SlotsFull /\ (clock >= due[o] \/ ~Queued(o)) /\ Refuse(o, "timeout")

\* Not first, or no free slot: save and sleep until the next poll.
Postpone(o) ==
    /\ pc[o] = "deciding"
    /\ ~SlotsFull /\ clock < due[o] /\ Queued(o)
    /\ ~IsFirst(o) \/ Occupied(mem) >= Limit
    /\ \/ /\ Leave(o, mem, IF o \in cancelled THEN "discard" ELSE "asleep")
          /\ outcome' = [outcome EXCEPT ![o] = Fate(o, "none")]
       \/ /\ SaveFails(o, mem, "discard")
          /\ outcome' = [outcome EXCEPT ![o] = "error"]
    /\ UNCHANGED <<worldVars, stats, due, seq, cancelled, made>>

Wake(o) ==
    /\ pc[o] = "asleep"
    /\ pc' = [pc EXCEPT ![o] = "queued"]
    /\ UNCHANGED <<ledger, lock, mem, worldVars, launchVars>>

Admissible(o) ==
    /\ pc[o] = "deciding"
    /\ ~SlotsFull /\ clock < due[o] /\ Queued(o)
    /\ IsFirst(o) /\ Occupied(mem) < Limit
    /\ pc' = [pc EXCEPT ![o] = "commit"]
    /\ UNCHANGED <<ledger, lock, mem, worldVars, launchVars>>

LoadForImmediate(o) == Load(o, "immediate", "decidingNow")

\* _try_admit_immediately finds the lock taken on its only try.
ImmediateLockTaken(o) ==
    /\ pc[o] = "immediate"
    /\ lock # NoOp
    /\ pc' = [pc EXCEPT ![o] = "ended"]
    /\ outcome' = [outcome EXCEPT ![o] = Fate(o, "timeout")]
    /\ UNCHANGED <<ledger, lock, mem, worldVars, stats, due, seq, cancelled, made>>

RefuseImmediate(o) ==
    /\ pc[o] = "decidingNow"
    /\ \/ SlotsFull /\ Refuse(o, "busy")
       \/ /\ ~SlotsFull
          /\ mem.intents # {} \/ Occupied(mem) >= Limit
          /\ Refuse(o, "timeout")

AdmissibleNow(o) ==
    /\ pc[o] = "decidingNow"
    /\ ~SlotsFull /\ mem.intents = {} /\ Occupied(mem) < Limit
    /\ pc' = [pc EXCEPT ![o] = "commit"]
    /\ UNCHANGED <<ledger, lock, mem, worldVars, launchVars>>
-------------------------------------------------------------------------------
(* The commit boundary and what follows it *)

AfterFailure(o) == IF seq[o] = 0 THEN "ended" ELSE "discard"

\* _LaunchControl.begin_commit: from here on a cancellation is suppressed.
BeginCommit(o) ==
    /\ pc[o] = "commit"
    /\ o \notin cancelled
    /\ seq[o] = 0 \/ clock < due[o]
    /\ pc' = [pc EXCEPT ![o] = "creating"]
    /\ UNCHANGED <<ledger, lock, mem, worldVars, launchVars>>

\* (Mutant: an expired deadline is not handled.)
CommitCancelled(o) ==
    /\ pc[o] = "commit"
    /\ o \in cancelled
    /\ Leave(o, ledger, AfterFailure(o))
    /\ outcome' = [outcome EXCEPT ![o] = "cancelled"]
    /\ UNCHANGED <<worldVars, stats, due, seq, cancelled, made>>

\* begin_commit refuses: the section is left without saving.
CommitRefused(o) ==
    /\ pc[o] = "commit"
    /\ o \in cancelled \/ (seq[o] # 0 /\ clock >= due[o])
    /\ Leave(o, ledger, AfterFailure(o))
    /\ outcome' = [outcome EXCEPT ![o] = Fate(o, "timeout")]
    /\ UNCHANGED <<worldVars, stats, due, seq, cancelled, made>>

\* create_pending: the manifest appears while only the lock says so.
Create(o) ==
    /\ pc[o] = "creating"
    /\ \E j \in Jobs : /\ job[j] = "absent"
                       /\ job' = [job EXCEPT ![j] = "active"]
                       /\ made' = [made EXCEPT ![o] = j]
    /\ pc' = [pc EXCEPT ![o] = "created"]
    /\ UNCHANGED <<ledger, lock, mem, runner, clock, pids, stats, due, seq, cancelled,
                   outcome>>

CreateFails(o) ==
    /\ pc[o] = "creating"
    /\ Leave(o, ledger, AfterFailure(o))
    /\ outcome' = [outcome EXCEPT ![o] = "error"]
    /\ UNCHANGED <<worldVars, stats, due, seq, cancelled, made>>

FinishCommit(o) ==
    LET settled == RemoveIntent(Reconciled(mem), o) IN
    /\ pc[o] = "created"
    /\ job' = Swept
    /\ \/ /\ Leave(o, settled, "ended")
          /\ outcome' = [outcome EXCEPT ![o] = Fate(o, "admitted")]
       \/ /\ SaveFails(o, settled, AfterFailure(o))
          /\ outcome' = [outcome EXCEPT ![o] = "error"]
    /\ UNCHANGED <<runner, clock, pids, stats, due, seq, cancelled, made>>

-------------------------------------------------------------------------------
(* Giving up the place in the queue: _discard_launch_intent *)

LoadForDiscard(o) == Load(o, "discard", "discarding")

Discard(o) ==
    LET without == RemoveIntent(mem, o) IN
    /\ pc[o] = "discarding"
    /\ \/ Leave(o, without, "ended") /\ UNCHANGED outcome
       \/ /\ SaveFails(o, without, "ended")
          /\ outcome' = [outcome EXCEPT ![o] = "error"]
    /\ UNCHANGED <<worldVars, stats, due, seq, cancelled, made>>

\* admit_launch tries the lock once; admit_launch_async keeps trying until the
\* launch's deadline, or forever when a call in flight was cancelled.
DiscardGivesUp(o) ==
    /\ pc[o] = "discard"
    /\ lock # NoOp
    /\ \/ o \notin AsyncOps
       \/ clock >= due[o] /\ ~(o \in cancelled /\ outcome[o] = "cancelled")
    /\ pc' = [pc EXCEPT ![o] = "ended"]
    /\ UNCHANGED <<ledger, lock, mem, worldVars, launchVars>>

-------------------------------------------------------------------------------
(* Cancelling the task that awaits admit_launch_async, or interrupting a sleep *)

\* (Mutant: a cancellation is not suppressed once the commit has begun.)
CancelAnytime(o) ==
    /\ o \in AsyncOps \ cancelled
    /\ pc[o] \in {"registering", "queued", "deciding", "decidingNow", "commit",
                  "creating", "created"}
    /\ cancelled' = cancelled \cup {o}
    /\ UNCHANGED <<ledger, lock, mem, worldVars, pc, stats, due, seq, outcome, made>>

CancelInFlight(o) ==
    /\ o \in AsyncOps \ cancelled
    /\ pc[o] \in {"register", "registering", "queued", "deciding",
                  "immediate", "decidingNow", "commit"}
    /\ cancelled' = cancelled \cup {o}
    /\ UNCHANGED <<ledger, lock, mem, worldVars, pc, stats, due, seq, outcome, made>>

\* asyncio.sleep is cancelled, or a KeyboardInterrupt ends time.sleep.
CancelAsleep(o) ==
    /\ pc[o] = "asleep"
    /\ pc' = [pc EXCEPT ![o] = "discard"]
    /\ outcome' = [outcome EXCEPT ![o] = "cancelled"]
    /\ UNCHANGED <<ledger, lock, mem, worldVars, stats, due, seq, cancelled, made>>

\* The clean-up still runs to its own end, on the deadline it started with.
CancelDiscard(o) ==
    /\ o \in AsyncOps
    /\ pc[o] \in {"discard", "discarding"}
    /\ outcome[o] # "cancelled"
    /\ outcome' = [outcome EXCEPT ![o] = "cancelled"]
    /\ cancelled' = cancelled \ {o}
    /\ UNCHANGED <<ledger, lock, mem, worldVars, pc, stats, due, seq, made>>

-------------------------------------------------------------------------------
(* The world around the ledger *)

Tick ==
    /\ clock < Horizon
    /\ clock' = clock + 1
    /\ UNCHANGED <<ledger, lock, mem, job, runner, pids, pc, launchVars>>

\* A process dies; the kernel drops its flock with its file descriptors.
Crash(p) ==
    /\ p \in pids
    /\ pids' = pids \ {p}
    /\ pc' = [o \in Ops |-> IF ProcOf[o] = p THEN "dead" ELSE pc[o]]
    /\ IF lock # NoOp /\ ProcOf[lock] = p
       THEN lock' = NoOp /\ mem' = NewLedger
       ELSE UNCHANGED <<lock, mem>>
    /\ UNCHANGED <<ledger, job, runner, clock, launchVars>>

ReusePid(p) ==
    /\ PidReuse
    /\ p \in Procs \ pids
    /\ pids' = pids \cup {p}
    /\ UNCHANGED <<ledger, lock, mem, job, runner, clock, pc, launchVars>>

\* The runner of an admitted launch finds the manifest Pending.
RunnerChecks(j) ==
    /\ j \in LateJobs /\ runner[j] = "none" /\ job[j] \in {"active", "stale"}
    /\ \E o \in Ops : made[o] = j /\ outcome[o] = "admitted"
    /\ runner' = [runner EXCEPT ![j] = "checked"]
    /\ UNCHANGED <<ledger, lock, mem, job, clock, pids, pc, launchVars>>

\* It writes Running, over whatever the manifest says by now.
RunnerStarts(j) ==
    /\ runner[j] = "checked"
    /\ runner' = [runner EXCEPT ![j] = IF j \in SlotJobs THEN "started" ELSE "revived"]
    /\ job' = [job EXCEPT ![j] = "active"]
    /\ UNCHANGED <<ledger, lock, mem, clock, pids, pc, launchVars>>

JobMoves(j, from, to) ==
    /\ job[j] = from
    /\ job' = [job EXCEPT ![j] = to]
    /\ UNCHANGED <<ledger, lock, mem, runner, clock, pids, pc, launchVars>>

\* A terminal state is written without the capacity lock: by the runner, by
\* cancel_job, or by a launcher whose handoff failed.
JobEnds(j) == JobMoves(j, "active", "done")

\* The runner dies, or has not written Running when the Pending grace runs out.
JobGoesStale(j) == JobMoves(j, "active", "stale")

\* jobs.reconcile_manifest fails a stale Job, again without the capacity lock.
JobReconciled(j) == JobMoves(j, "stale", "done")

-------------------------------------------------------------------------------
(* The specification *)

Init ==
    /\ ledger = NewLedger
    /\ lock = NoOp
    /\ mem = NewLedger
    /\ job = [j \in Jobs |-> "absent"]
    /\ runner = [j \in Jobs |-> "none"]
    /\ clock = 0
    /\ pids = Procs
    /\ pc = [o \in Ops |-> "new"]
    /\ stats = {}
    /\ due = [o \in Ops |-> 0]
    /\ seq = [o \in Ops |-> 0]
    /\ cancelled = {}
    /\ outcome = [o \in Ops |-> "none"]
    /\ made = [o \in Ops |-> NoJob]

LeaseStep(o) ==
    \/ LoadForLease(o) \/ LeaseLockTimeout(o) \/ RefuseLease(o)
    \/ GrantLease(o) \/ BeginRelease(o) \/ LoadForRelease(o) \/ ReleaseLease(o)

QueueStep(o) ==
    \/ LoadForRegister(o) \/ LockTimeout(o) \/ RefuseRegister(o) \/ Register(o)
    \/ LoadForAttempt(o) \/ RefuseAttempt(o) \/ Postpone(o) \/ Wake(o)
    \/ Admissible(o)
    \/ LoadForImmediate(o) \/ ImmediateLockTaken(o) \/ RefuseImmediate(o)
    \/ AdmissibleNow(o)

CommitStep(o) ==
    \/ BeginCommit(o) \/ CommitRefused(o) \/ Create(o) \/ CreateFails(o)
    \/ FinishCommit(o)

DiscardStep(o) == LoadForDiscard(o) \/ Discard(o) \/ DiscardGivesUp(o)

Cancel(o) == CancelInFlight(o) \/ CancelAsleep(o) \/ CancelDiscard(o)

Request(o) == RequestLease(o) \/ \E t \in Timeouts : RequestLaunch(o, t)

Run(o) == LeaseStep(o) \/ QueueStep(o) \/ CommitStep(o) \/ DiscardStep(o)

JobStep(j) == \/ RunnerChecks(j) \/ RunnerStarts(j)
              \/ JobEnds(j) \/ JobGoesStale(j) \/ JobReconciled(j)

Next ==
    \/ \E o \in Ops : Request(o) \/ Run(o) \/ Cancel(o)
    \/ Tick
    \/ \E p \in Procs : Crash(p) \/ ReusePid(p)
    \/ \E j \in Jobs : JobStep(j)

Spec == Init /\ [][Next]_vars
-------------------------------------------------------------------------------
(* Properties *)

\* The two-slot cap, as far as admission can keep it: statements running under a
\* lease and Jobs whose manifest is Pending or Running never exceed
\* CAPACITY_LIMIT together, whatever dies, expires, fails to save or is cancelled
\* in between, but for the Jobs whose runner wrote Running over a terminal state.
\* A revived Job is one too many, and its own end makes no room for another.
CapHolds == Cardinality(Holders) + Cardinality(AdmittedJobs) <= Limit

\* Refinement: with the ledger, the lock and the queue hidden, admission is an
\* abstract pool of Limit slots, which a revived Job has left for good.
Pool == INSTANCE SlotPool WITH Occupants <- Ops \cup Jobs,
                               held <- Holders \cup AdmittedJobs
ImplementsPool == Pool!Spec

\* A waiting launch keeps its place: until its deadline its intent is on file,
\* and in the lock holder's copy, no matter who reconciles the ledger.
PlaceKept ==
    \A o \in Waiting : clock < due[o] =>
        /\ MyIntent(o) \in ledger.intents
        /\ lock # NoOp => MyIntent(o) \in mem.intents

\* FIFO: a Pending manifest is created only by the launch that has waited
\* longest among those whose deadline has not passed; an immediate launch and
\* a stats lease are granted only when nobody waits.
Admits(o) == pc[o] = "creating" /\ pc'[o] = "created"
LeasesStats(o) == o \in stats /\ pc[o] = "acquiring" /\ pc'[o] = "holding"
NoOvertaking ==
    [][\A o \in Ops : \A w \in Waiting \ {o} :
         clock < due[w] =>
            /\ Admits(o) => seq[o] # 0 /\ seq[o] < seq[w]
            /\ ~LeasesStats(o)]_vars

\* No lease leaks: with the lock free, the owners the next reconciliation keeps
\* are exactly the operations still holding a lease.  A save that fails or a
\* reused pid can strand an owner, so the claim excludes both.
NoLeaseLeaks ==
    lock = NoOp /\ ~SaveMayFail /\ ~PidReuse => LiveOwners(ledger) = Holders

\* What a launch reports agrees with what it left on disk: no Job after a
\* refusal or a timeout, a Job after an admission.  Only a save that fails after
\* creation may leave a Job to a caller that saw an error (or was cancelled
\* while cleaning up after it).
OutcomeMatchesJob ==
    \A o \in Ops : pc[o] = "ended" =>
        /\ outcome[o] \in {"busy", "timeout"} => made[o] = NoJob
        /\ outcome[o] = "admitted" => made[o] # NoJob
        /\ ~SaveMayFail /\ outcome[o] \in {"cancelled", "error"} => made[o] = NoJob

\* A launch that has returned or raised has taken its intent out of the ledger
\* (or the intent has expired).
NoGhostIntent ==
    lock = NoOp =>
        \A i \in LiveIntents(ledger) :
            pc[i.op] \in {"asleep", "queued", "discard"} /\ seq[i.op] = i.seq

-------------------------------------------------------------------------------
(* Why the cap and the queue hold: the inductive invariant *)

\* The critical section excludes, and only live processes are in it.
Exclusive == \A o \in Ops : pc[o] \in Inside <=> lock = o
Alive == \A o \in Ops : pc[o] # "dead" => ProcOf[o] \in pids

\* The ledger may count too much, never too little: every lease is on file, and
\* the lock holder's copy accounts for every slot but the Job just created and
\* the Jobs revived since.
HoldersOnFile ==
    /\ Holders \subseteq ledger.owners
    /\ lock # NoOp => Holders \subseteq mem.owners
JustCreated == IF pc[lock] = "created" THEN {made[lock]} ELSE {}
JobsCounted == lock # NoOp => AdmittedJobs \subseteq mem.resv \cup JustCreated
RoomToCommit ==
    lock # NoOp /\ pc[lock] \in {"commit", "creating"} => Occupied(mem) < Limit

CapInv == /\ TypeOK /\ Exclusive /\ Alive
          /\ HoldersOnFile /\ JobsCounted /\ RoomToCommit /\ CapHolds

\* Sequence numbers are never handed out twice, and a commit is first in line.
SeqUnique ==
    /\ ledger.next > 0
    /\ lock # NoOp => mem.next = ledger.next
    /\ \A o \in Ops : seq[o] < ledger.next
    /\ \A o, x \in Ops : seq[o] # 0 /\ seq[o] = seq[x] => o = x
    /\ \A o \in Ops : pc[o] \in {"asleep", "queued", "deciding"} => seq[o] # 0
    /\ \A o \in Ops : pc[o] \in {"new", "register", "registering", "immediate",
                               "decidingNow"} => seq[o] = 0
CommitsFirst ==
    lock # NoOp /\ pc[lock] \in {"commit", "creating"} =>
        \/ mem.intents = {}
        \/ seq[lock] # 0 /\ IsFirst(lock)

QueueInv == /\ TypeOK /\ Exclusive /\ Alive
            /\ SeqUnique /\ CommitsFirst /\ PlaceKept

-------------------------------------------------------------------------------
(* Why leases do not leak and answers are true: the inductive invariants *)

\* An owner that a reconciliation would keep has its lease: nobody is left on
\* file, nor in the lock holder's copy, once it has let go of it.
NoStrays ==
    ~SaveMayFail /\ ~PidReuse =>
        /\ LiveOwners(ledger) \subseteq Holders
        /\ lock # NoOp => LiveOwners(mem) \subseteq Holders

LeaseInv == CapInv /\ NoStrays

\* A call learns its outcome when it leaves for good, a Job exists for it only
\* from Create on, and a call past begin_commit is not cancelled any more.
Answered == {"discard", "discarding", "ended", "dead"}
OutcomeKnown ==
    \A o \in Ops :
        /\ pc[o] \in {"creating", "created"} => o \notin cancelled
        /\ pc[o] \notin Answered => outcome[o] = "none"
        /\ pc[o] \in {"discard", "discarding"} => outcome[o] # "admitted"
        /\ pc[o] \notin Answered => (made[o] # NoJob <=> pc[o] = "created")
        /\ pc[o] \in Answered \ {"dead"} =>
              /\ outcome[o] \in {"busy", "timeout"} => made[o] = NoJob
              /\ outcome[o] = "admitted" => made[o] # NoJob
              /\ ~SaveMayFail /\ outcome[o] # "admitted" => made[o] = NoJob

OutcomeInv == TypeOK /\ OutcomeKnown

-------------------------------------------------------------------------------
(* Liveness *)

\* Every caller keeps running, statements end (impala.query bounds them at 30 s)
\* and time passes.  Only the two blocking flocks need strong fairness: the
\* kernel wakes their waiters in turn.
Fairness ==
    /\ WF_vars(Tick)
    /\ \A o \in Ops : /\ WF_vars(Run(o))
                      /\ SF_vars(LoadForRelease(o))
                      /\ SF_vars(LoadForDiscard(o))

FairSpec == Spec /\ Fairness

\* Every launch is answered, and every lease that is held is given back.
Settled(o) == pc[o] \in {"ended", "dead"}
EveryCallSettles == \A o \in Ops : pc[o] # "new" ~> Settled(o)

===============================================================================
