--------------------------- MODULE Capacity_proofs ---------------------------
(***************************************************************************)
(* Theorems about Capacity, for any number of processes, operations, Jobs  *)
(* and slots, any timeouts, with failing saves and reused pids.            *)
(***************************************************************************)
EXTENDS Capacity, FiniteSetTheorems, TLAPS

-------------------------------------------------------------------------------
(* The ledger *)

LEMMA WithIntents ==
    ASSUME NEW l \in Ledger, NEW s \in SUBSET Intent
    PROVE  /\ [l EXCEPT !.intents = s] \in Ledger
           /\ [l EXCEPT !.intents = s].owners = l.owners
           /\ [l EXCEPT !.intents = s].resv = l.resv
           /\ [l EXCEPT !.intents = s].next = l.next
           /\ [l EXCEPT !.intents = s].intents = s
BY DEF Ledger

LEMMA WithOwners ==
    ASSUME NEW l \in Ledger, NEW s \in SUBSET Ops
    PROVE  /\ [l EXCEPT !.owners = s] \in Ledger
           /\ [l EXCEPT !.owners = s].intents = l.intents
           /\ [l EXCEPT !.owners = s].resv = l.resv
           /\ [l EXCEPT !.owners = s].next = l.next
           /\ [l EXCEPT !.owners = s].owners = s
BY DEF Ledger

LEMMA AppendIntentFields ==
    ASSUME NEW l \in Ledger, NEW o \in Ops, due \in [Ops -> Nat]
    PROVE  /\ AppendIntent(l, o) \in Ledger
           /\ AppendIntent(l, o).owners = l.owners
           /\ AppendIntent(l, o).resv = l.resv
           /\ AppendIntent(l, o).next = l.next + 1
           /\ AppendIntent(l, o).intents =
                  l.intents \cup {[op |-> o, seq |-> l.next, due |-> due[o]]}
<1> DEFINE n == l.next + 1
           s == l.intents \cup {[op |-> o, seq |-> l.next, due |-> due[o]]}
<1>1. n \in Nat /\ s \in SUBSET Intent
  BY DEF Ledger, Intent
<1>2. AppendIntent(l, o) = [l EXCEPT !.next = n, !.intents = s]
  BY Zenon DEF AppendIntent
<1> HIDE DEF n, s
<1>3. /\ AppendIntent(l, o) \in Ledger
      /\ AppendIntent(l, o).owners = l.owners
      /\ AppendIntent(l, o).resv = l.resv
      /\ AppendIntent(l, o).next = n
      /\ AppendIntent(l, o).intents = s
  BY <1>1, <1>2 DEF Ledger
<1>4. QED
  BY <1>3 DEF n, s

LEMMA RemoveIntentFields ==
    ASSUME NEW l \in Ledger, NEW o \in Ops
    PROVE  /\ RemoveIntent(l, o) \in Ledger
           /\ RemoveIntent(l, o).owners = l.owners
           /\ RemoveIntent(l, o).resv = l.resv
           /\ RemoveIntent(l, o).next = l.next
           /\ RemoveIntent(l, o).intents = {i \in l.intents : i.seq # seq[o]}
<1>1. {i \in l.intents : i.seq # seq[o]} \in SUBSET Intent
  BY DEF Ledger
<1>2. QED
  BY <1>1, WithIntents DEF RemoveIntent

LEMMA ReconciledFields ==
    ASSUME NEW l \in Ledger
    PROVE  /\ Reconciled(l) \in Ledger
           /\ Reconciled(l).owners = LiveOwners(l)
           /\ Reconciled(l).intents = LiveIntents(l)
           /\ Reconciled(l).resv = ActiveJobs
           /\ Reconciled(l).next = l.next
<1>1. LiveIntents(l) \in SUBSET Intent /\ LiveOwners(l) \in SUBSET Ops
  BY DEF Ledger, LiveOwners, LiveIntents
<1>2. QED
  BY <1>1 DEF Ledger, Reconciled, ActiveJobs

LEMMA NewLedgerType == NewLedger \in Ledger
BY DEF NewLedger, Ledger

-------------------------------------------------------------------------------
(* Types *)

USE DEF Outside, Inside

\* Taking the lock preserves the types.
LEMMA LoadType ==
    ASSUME TypeOK, NEW o \in Ops, NEW from, NEW to \in Inside, Load(o, from, to)
    PROVE  TypeOK'
<1>1. mem' \in Ledger
  BY ReconciledFields DEF Load, TypeOK
<1>2. job' \in [Jobs -> JobStates]
  BY DEF Load, TypeOK, Swept, JobStates
<1>3. QED
  BY <1>1, <1>2 DEF Load, TypeOK, launchVars

\* Leaving the critical section, with or without a successful save, preserves
\* the types of what it assigns.
LEMMA LeaveType ==
    ASSUME TypeOK, NEW o \in Ops, NEW l \in Ledger, NEW next \in Outside,
           Leave(o, l, next) \/ SaveFails(o, l, next)
    PROVE  /\ ledger' \in Ledger
           /\ lock' \in Ops \cup {NoOp}
           /\ mem' \in Ledger
           /\ pc' \in [Ops -> Outside \cup Inside]
BY NewLedgerType DEF Leave, SaveFails, TypeOK

LEMMA TypeInit == Init => TypeOK
BY CapacityAssumption, NewLedgerType DEF Init, TypeOK, JobStates, RunnerStates, Outcomes

LEMMA LeaseStepType ==
    ASSUME TypeOK, NEW o \in Ops, LeaseStep(o)
    PROVE  TypeOK'
<1>1. CASE LoadForLease(o) \/ LoadForRelease(o)
  BY <1>1, LoadType DEF LoadForLease, LoadForRelease
<1>2. CASE LeaseLockTimeout(o) \/ BeginRelease(o)
  BY <1>2 DEF LeaseLockTimeout, BeginRelease, TypeOK, worldVars, launchVars
<1>3. CASE RefuseLease(o)
  BY <1>3, LeaveType DEF RefuseLease, TypeOK, worldVars, launchVars
<1>4. CASE GrantLease(o)
  <2>1. [mem EXCEPT !.owners = mem.owners \cup {o}] \in Ledger
    BY WithOwners DEF TypeOK, Ledger
  <2>2. QED
    BY <1>4, <2>1, LeaveType DEF GrantLease, TypeOK, worldVars, launchVars
<1>5. CASE ReleaseLease(o)
  <2>1. [mem EXCEPT !.owners = mem.owners \ {o}] \in Ledger
    BY WithOwners DEF TypeOK, Ledger
  <2>2. QED
    BY <1>5, <2>1, LeaveType DEF ReleaseLease, TypeOK, worldVars, launchVars
<1>6. QED
  BY <1>1, <1>2, <1>3, <1>4, <1>5 DEF LeaseStep

LEMMA RefuseType ==
    ASSUME TypeOK, NEW o \in Ops, NEW r \in Outcomes, Refuse(o, r)
    PROVE  TypeOK'
<1>1. Fate(o, r) \in Outcomes /\ Fate(o, "error") \in Outcomes
  BY DEF Fate, Outcomes
<1>2. outcome' \in [Ops -> Outcomes]
  BY <1>1 DEF Refuse, TypeOK, Outcomes
<1>3. Leave(o, mem, IF seq[o] = 0 THEN "ended" ELSE "discard")
      \/ SaveFails(o, mem, IF seq[o] = 0 THEN "ended" ELSE "discard")
  BY DEF Refuse
<1>4. QED
  BY <1>2, <1>3, LeaveType DEF Refuse, TypeOK, worldVars

LEMMA QueueStepType ==
    ASSUME TypeOK, NEW o \in Ops, QueueStep(o)
    PROVE  TypeOK'
<1>1. CASE LoadForRegister(o) \/ LoadForAttempt(o) \/ LoadForImmediate(o)
  BY <1>1, LoadType DEF LoadForRegister, LoadForAttempt, LoadForImmediate
<1>2. CASE LockTimeout(o) \/ ImmediateLockTaken(o)
  BY <1>2 DEF LockTimeout, ImmediateLockTaken, Fate, TypeOK, Outcomes, worldVars
<1>3. CASE RefuseRegister(o) \/ RefuseAttempt(o) \/ RefuseImmediate(o)
  BY <1>3, RefuseType
  DEF RefuseRegister, RefuseAttempt, RefuseImmediate, Outcomes
<1>4. CASE Register(o)
  <2>1. AppendIntent(mem, o) \in Ledger
    BY AppendIntentFields DEF TypeOK
  <2>2. \/ Leave(o, AppendIntent(mem, o), IF o \in cancelled THEN "discard" ELSE "queued")
        \/ SaveFails(o, AppendIntent(mem, o), "ended")
    BY <1>4 DEF Register
  <2>3. seq' \in [Ops -> Nat]
    BY <1>4 DEF Register, TypeOK, Ledger
  <2>4. outcome' \in [Ops -> Outcomes]
    BY <1>4 DEF Register, TypeOK, Fate, Outcomes
  <2>5. QED
    BY <1>4, <2>1, <2>2, <2>3, <2>4, LeaveType DEF Register, TypeOK, worldVars
<1>5. CASE Postpone(o)
  <2>1. outcome' \in [Ops -> Outcomes]
    BY <1>5 DEF Postpone, TypeOK, Fate, Outcomes
  <2>2. QED
    BY <1>5, <2>1, LeaveType DEF Postpone, TypeOK, worldVars
<1>6. CASE Wake(o) \/ Admissible(o) \/ AdmissibleNow(o)
  BY <1>6 DEF Wake, Admissible, AdmissibleNow, TypeOK, worldVars, launchVars
<1>7. QED
  BY <1>1, <1>2, <1>3, <1>4, <1>5, <1>6 DEF QueueStep

LEMMA CommitStepType ==
    ASSUME TypeOK, NEW o \in Ops, CommitStep(o)
    PROVE  TypeOK'
<1>1. CASE BeginCommit(o)
  BY <1>1 DEF BeginCommit, TypeOK, worldVars, launchVars
<1>2. CASE CommitRefused(o) \/ CreateFails(o)
  <2>1. outcome' \in [Ops -> Outcomes]
    BY <1>2 DEF CommitRefused, CreateFails, TypeOK, Fate, Outcomes
  <2>2. Leave(o, ledger, IF seq[o] = 0 THEN "ended" ELSE "discard")
    BY <1>2 DEF CommitRefused, CreateFails, AfterFailure
  <2>3. QED
    BY <1>2, <2>1, <2>2, LeaveType DEF CommitRefused, CreateFails, TypeOK, worldVars
<1>3. CASE Create(o)
  BY <1>3 DEF Create, TypeOK, JobStates
<1>4. CASE FinishCommit(o)
  <2>1. RemoveIntent(Reconciled(mem), o) \in Ledger
    BY ReconciledFields, RemoveIntentFields DEF TypeOK
  <2>2. outcome' \in [Ops -> Outcomes] /\ job' \in [Jobs -> JobStates]
    BY <1>4 DEF FinishCommit, TypeOK, Outcomes, Fate, Swept, JobStates
  <2>3. QED
    BY <1>4, <2>1, <2>2, LeaveType DEF FinishCommit, TypeOK, AfterFailure
<1>5. QED
  BY <1>1, <1>2, <1>3, <1>4 DEF CommitStep

LEMMA DiscardStepType ==
    ASSUME TypeOK, NEW o \in Ops, DiscardStep(o)
    PROVE  TypeOK'
<1>1. CASE LoadForDiscard(o)
  BY <1>1, LoadType DEF LoadForDiscard
<1>2. CASE Discard(o)
  <2>1. RemoveIntent(mem, o) \in Ledger
    BY RemoveIntentFields DEF TypeOK
  <2>2. outcome' \in [Ops -> Outcomes]
    BY <1>2 DEF Discard, TypeOK, Outcomes
  <2>3. QED
    BY <1>2, <2>1, <2>2, LeaveType DEF Discard, TypeOK, worldVars
<1>3. CASE DiscardGivesUp(o)
  BY <1>3 DEF DiscardGivesUp, TypeOK, worldVars, launchVars
<1>4. QED
  BY <1>1, <1>2, <1>3 DEF DiscardStep

LEMMA TypeStep == TypeOK /\ [Next]_vars => TypeOK'
<1> SUFFICES ASSUME TypeOK, [Next]_vars PROVE TypeOK'
  OBVIOUS
<1>1. ASSUME NEW o \in Ops, Request(o) PROVE TypeOK'
  <2>1. CASE RequestLease(o)
    BY <2>1 DEF RequestLease, TypeOK, worldVars
  <2>2. CASE \E t \in Timeouts : RequestLaunch(o, t)
    <3>1. PICK t \in Timeouts : RequestLaunch(o, t)
      BY <2>2
    <3>2. clock + t \in Nat
      BY CapacityAssumption DEF TypeOK
    <3>3. QED
      BY <3>1, <3>2 DEF RequestLaunch, TypeOK, worldVars
  <2>3. QED
    BY <1>1, <2>1, <2>2 DEF Request
<1>2. ASSUME NEW o \in Ops, Run(o) PROVE TypeOK'
  BY <1>2, LeaseStepType, QueueStepType, CommitStepType, DiscardStepType DEF Run
<1>3. ASSUME NEW o \in Ops, Cancel(o) PROVE TypeOK'
  <2>1. CASE CancelInFlight(o)
    BY <2>1 DEF CancelInFlight, TypeOK, worldVars
  <2>2. CASE CancelAsleep(o)
    BY <2>2 DEF CancelAsleep, TypeOK, worldVars, Outcomes
  <2>3. CASE CancelDiscard(o)
    BY <2>3 DEF CancelDiscard, TypeOK, worldVars, Outcomes
  <2>4. QED
    BY <1>3, <2>1, <2>2, <2>3 DEF Cancel
<1>4. CASE Tick
  BY <1>4 DEF Tick, TypeOK, launchVars
<1>5. ASSUME NEW p \in Procs, Crash(p) PROVE TypeOK'
  BY <1>5, NewLedgerType DEF Crash, TypeOK, launchVars
<1>6. ASSUME NEW p \in Procs, ReusePid(p) PROVE TypeOK'
  BY <1>6 DEF ReusePid, TypeOK, launchVars
<1>7. ASSUME NEW j \in Jobs, JobStep(j) PROVE TypeOK'
  BY <1>7 DEF JobStep, RunnerChecks, RunnerStarts, JobEnds, JobGoesStale,
              JobReconciled, JobMoves, TypeOK, launchVars, JobStates, RunnerStates
<1>8. CASE UNCHANGED vars
  BY <1>8 DEF vars, TypeOK
<1>9. QED
  BY <1>1, <1>2, <1>3, <1>4, <1>5, <1>6, <1>7, <1>8 DEF Next

(* Every reachable state is well typed. *)
THEOREM TypeCorrect == Spec => []TypeOK
BY TypeInit, TypeStep, PTL DEF Spec

-------------------------------------------------------------------------------
(* How a step moves an operation.  The proofs of both invariants sort the      *)
(* actions into these shapes.                                                  *)

Lease == {"holding", "release", "releasing"}

\* Outside the critical section; a lease is neither taken nor given up.
MovesOutside(o) ==
    /\ pc[o] \in Outside \ {"dead"}
    /\ \E next \in Outside : /\ pc' = [pc EXCEPT ![o] = next]
                             /\ next \in Lease => pc[o] \in Lease
                             /\ pc[o] \in Lease => next \in Lease
    /\ UNCHANGED <<ledger, lock, mem, job, runner, pids, made>>

\* Into the critical section.
MovesIn(o) ==
    \E from \in Outside \ {"dead"}, to \in Inside \ {"commit", "creating", "created"} :
        /\ Load(o, from, to)
        /\ from \in Lease <=> to \in Lease

\* Out of it, saving l or failing to; no slot is taken by Jobs, and a lease, if
\* one is kept, is on file.
MovesOut(o) ==
    \E l \in Ledger, next \in Outside :
        /\ pc[o] \in Inside
        /\ Leave(o, l, next)
        /\ UNCHANGED pids
        /\ AdmittedJobs' \subseteq AdmittedJobs
        /\ Holders' \subseteq l.owners

LEMMA RequestShape ==
    ASSUME TypeOK, NEW o \in Ops, Request(o)
    PROVE  MovesOutside(o)
BY DEF Request, RequestLease, RequestLaunch, MovesOutside, Lease, worldVars, launchVars

LEMMA OutsideShape ==
    ASSUME TypeOK, NEW o \in Ops,
           \/ LeaseLockTimeout(o) \/ BeginRelease(o) \/ LockTimeout(o) \/ Wake(o)
           \/ ImmediateLockTaken(o) \/ DiscardGivesUp(o) \/ CancelAsleep(o)
    PROVE  MovesOutside(o)
BY DEF LeaseLockTimeout, BeginRelease, LockTimeout, Wake, ImmediateLockTaken,
       DiscardGivesUp, CancelAsleep, MovesOutside, Lease, worldVars, launchVars

LEMMA InShape ==
    ASSUME NEW o \in Ops,
           \/ LoadForLease(o) \/ LoadForRelease(o) \/ LoadForRegister(o)
           \/ LoadForAttempt(o) \/ LoadForImmediate(o) \/ LoadForDiscard(o)
    PROVE  MovesIn(o)
BY DEF LoadForLease, LoadForRelease, LoadForRegister, LoadForAttempt,
       LoadForImmediate, LoadForDiscard, MovesIn, Lease

\* Leaving for a state without a lease moves nobody else in or out of Holders.
LEMMA LeaveHolders ==
    ASSUME TypeOK, NEW o \in Ops, NEW l, NEW next \in Outside \ Lease, Leave(o, l, next)
    PROVE  Holders' = Holders \ {o}
BY DEF Leave, Holders, TypeOK, Lease

LEMMA SweptAdmitted ==
    ASSUME TypeOK, job' = Swept, UNCHANGED runner
    PROVE  AdmittedJobs' \subseteq ActiveJobs /\ AdmittedJobs' \subseteq AdmittedJobs
BY DEF Swept, AdmittedJobs, SlotJobs, Revived, ActiveJobs, TypeOK, JobStates

\* A plain exit: the file or the reconciled copy, changed in its intents only.
LEMMA PlainOut ==
    ASSUME TypeOK, Exclusive, HoldersOnFile, NEW o \in Ops, pc[o] \in Inside,
           NEW l \in Ledger, NEW next \in Outside \ Lease,
           Leave(o, l, next) \/ SaveFails(o, l, next),
           Holders \ {o} \subseteq l.owners, UNCHANGED pids,
           AdmittedJobs' \subseteq AdmittedJobs
    PROVE  MovesOut(o) /\ Holders' \subseteq Holders
<1>1. lock = o /\ lock # NoOp
  BY CapacityAssumption DEF Exclusive
<1>2. PICK f \in {ledger, l} : Leave(o, f, next)
  BY DEF SaveFails
<1>3. Holders' = Holders \ {o}
  BY <1>2, LeaveHolders
<1>4. Holders' \subseteq f.owners
  BY <1>1, <1>3 DEF HoldersOnFile
<1>5. f \in Ledger
  BY DEF TypeOK
<1>6. QED
  BY <1>2, <1>3, <1>4, <1>5 DEF MovesOut

LEMMA OutShape ==
    ASSUME TypeOK, Exclusive, Alive, HoldersOnFile, NEW o \in Ops,
           \/ RefuseLease(o) \/ ReleaseLease(o) \/ RefuseRegister(o) \/ Register(o)
           \/ RefuseAttempt(o) \/ Postpone(o) \/ RefuseImmediate(o)
           \/ CommitRefused(o) \/ CreateFails(o) \/ FinishCommit(o) \/ Discard(o)
    PROVE  MovesOut(o) /\ Holders' \subseteq Holders /\ AdmittedJobs' \subseteq AdmittedJobs
<1>0. mem \in Ledger /\ ledger \in Ledger
  BY DEF TypeOK
<1>a. /\ Holders \subseteq ledger.owners
      /\ pc[o] \in Inside => Holders \subseteq mem.owners
  BY CapacityAssumption DEF HoldersOnFile, Exclusive
<1>b. UNCHANGED <<job, runner>> => AdmittedJobs' \subseteq AdmittedJobs
  BY DEF AdmittedJobs, SlotJobs, Revived
<1>1. CASE RefuseLease(o)
  BY <1>0, <1>1, <1>a, <1>b, PlainOut DEF RefuseLease, worldVars, Lease
<1>2. CASE ReleaseLease(o)
  <2>1. /\ [mem EXCEPT !.owners = mem.owners \ {o}] \in Ledger
        /\ [mem EXCEPT !.owners = mem.owners \ {o}].owners = mem.owners \ {o}
    BY <1>0, WithOwners DEF Ledger
  <2>2. QED
    BY <1>2, <1>a, <1>b, <2>1, PlainOut DEF ReleaseLease, worldVars, Lease
<1>3. CASE RefuseRegister(o) \/ RefuseAttempt(o) \/ RefuseImmediate(o)
  <2>1. PICK r : Refuse(o, r)
    BY <1>3 DEF RefuseRegister, RefuseAttempt, RefuseImmediate
  <2>2. pc[o] \in Inside
    BY <1>3 DEF RefuseRegister, RefuseAttempt, RefuseImmediate
  <2>3. QED
    BY <1>0, <1>a, <1>b, <2>1, <2>2, PlainOut DEF Refuse, worldVars, Lease
<1>4. CASE Register(o)
  <2>1. /\ AppendIntent(mem, o) \in Ledger
        /\ AppendIntent(mem, o).owners = mem.owners
    BY AppendIntentFields DEF TypeOK
  <2>2. \/ Leave(o, AppendIntent(mem, o), IF o \in cancelled THEN "discard" ELSE "queued")
        \/ SaveFails(o, AppendIntent(mem, o), "ended")
    BY <1>4 DEF Register
  <2>3. pc[o] \in Inside /\ UNCHANGED <<job, runner, pids>>
    BY <1>4 DEF Register, worldVars
  <2>4. QED
    BY <2>1, <2>2, <2>3, <1>a, <1>b, PlainOut DEF Lease
<1>5. CASE Postpone(o)
  BY <1>0, <1>5, <1>a, <1>b, PlainOut DEF Postpone, worldVars, Lease
<1>6. CASE CommitRefused(o) \/ CreateFails(o)
  <2>1. PICK next \in {"ended", "discard"} : Leave(o, ledger, next)
    BY <1>6 DEF CommitRefused, CreateFails, AfterFailure
  <2>2. lock = o /\ pc[o] \in Inside /\ UNCHANGED <<job, runner, pids>>
    BY <1>6, <1>0 DEF CommitRefused, CreateFails, worldVars, Exclusive
  <2>3. Holders' = Holders \ {o}
    BY <2>1, LeaveHolders DEF Lease
  <2>4. QED
    BY <1>0, <1>a, <1>b, <2>1, <2>2, <2>3 DEF MovesOut
<1>7. CASE FinishCommit(o)
  <2> DEFINE settled == RemoveIntent(Reconciled(mem), o)
  <2>1. settled \in Ledger /\ settled.owners = LiveOwners(mem)
    BY <1>0, ReconciledFields, RemoveIntentFields
  <2>2. pc[o] \in Inside /\ UNCHANGED pids /\ AdmittedJobs' \subseteq AdmittedJobs
    BY <1>7, SweptAdmitted DEF FinishCommit
  <2> HIDE DEF settled
  <2>3. \/ Leave(o, settled, "ended")
        \/ SaveFails(o, settled, IF seq[o] = 0 THEN "ended" ELSE "discard")
    BY <1>7 DEF FinishCommit, AfterFailure, settled
  <2>4. Holders \subseteq LiveOwners(mem)
    <3>1. \A x \in Holders : pc[x] # "dead" /\ x \in Ops
      BY DEF Holders
    <3>2. QED
      BY <2>2, <3>1, <1>a DEF LiveOwners, Alive
  <2>5. QED
    BY <2>1, <2>2, <2>3, <2>4, PlainOut DEF Lease
<1>8. CASE Discard(o)
  <2>1. RemoveIntent(mem, o) \in Ledger /\ RemoveIntent(mem, o).owners = mem.owners
    BY <1>0, RemoveIntentFields
  <2>2. QED
    BY <1>8, <1>a, <1>b, <2>1, PlainOut DEF Discard, worldVars, Lease
<1>9. QED
  BY <1>1, <1>2, <1>3, <1>4, <1>5, <1>6, <1>7, <1>8

-------------------------------------------------------------------------------
(* Counting *)

LEMMA SlotsFinite ==
    ASSUME TypeOK
    PROVE  /\ IsFiniteSet(Holders) /\ IsFiniteSet(AdmittedJobs)
           /\ Cardinality(Holders) \in Nat /\ Cardinality(AdmittedJobs) \in Nat
<1>1. Holders \subseteq Ops /\ AdmittedJobs \subseteq Jobs
  BY DEF Holders, AdmittedJobs, SlotJobs, Revived
<1>2. IsFiniteSet(Holders) /\ IsFiniteSet(AdmittedJobs)
  BY <1>1, CapacityAssumption, FS_Subset
<1>3. QED
  BY <1>2, FS_CardinalityType

\* Slots that are only given up leave the cap intact.
LEMMA CapShrinks ==
    ASSUME TypeOK, CapHolds,
           Holders' \subseteq Holders, AdmittedJobs' \subseteq AdmittedJobs
    PROVE  CapHolds'
<1>1. /\ Cardinality(Holders') <= Cardinality(Holders)
      /\ Cardinality(AdmittedJobs') <= Cardinality(AdmittedJobs)
      /\ IsFiniteSet(Holders') /\ IsFiniteSet(AdmittedJobs')
  BY SlotsFinite, FS_Subset
<1>2. Cardinality(Holders') \in Nat /\ Cardinality(AdmittedJobs') \in Nat
  BY <1>1, FS_CardinalityType
<1>3. QED
  BY <1>1, <1>2, SlotsFinite, CapacityAssumption DEF CapHolds

\* Room in a ledger that counts every slot is room in the world.
LEMMA RoomIsReal ==
    ASSUME TypeOK, NEW l \in Ledger, Occupied(l) < Limit,
           Holders \subseteq l.owners, AdmittedJobs \subseteq l.resv
    PROVE  Cardinality(Holders) + Cardinality(AdmittedJobs) < Limit
<1>1. IsFiniteSet(l.owners) /\ IsFiniteSet(l.resv)
  BY CapacityAssumption, FS_Subset DEF Ledger
<1>2. /\ Cardinality(Holders) <= Cardinality(l.owners)
      /\ Cardinality(AdmittedJobs) <= Cardinality(l.resv)
      /\ Cardinality(l.owners) \in Nat /\ Cardinality(l.resv) \in Nat
  BY <1>1, FS_Subset, FS_CardinalityType
<1>3. QED
  BY <1>2, SlotsFinite, CapacityAssumption DEF Occupied

\* The three things a step can do to the slots.
GivesUp == Holders' \subseteq Holders /\ AdmittedJobs' \subseteq AdmittedJobs
TakesLease(o) == /\ o \notin Holders
                 /\ Holders' = Holders \cup {o} /\ AdmittedJobs' = AdmittedJobs
                 /\ Cardinality(Holders) + Cardinality(AdmittedJobs) < Limit
TakesJob(j) == /\ j \notin AdmittedJobs
               /\ AdmittedJobs' = AdmittedJobs \cup {j} /\ Holders' = Holders
               /\ Cardinality(Holders) + Cardinality(AdmittedJobs) < Limit
SlotMove == \/ GivesUp
            \/ \E o \in Ops : TakesLease(o)
            \/ \E j \in Jobs : TakesJob(j)

LEMMA SlotMoveCap ==
    ASSUME TypeOK, CapHolds, SlotMove
    PROVE  CapHolds'
<1>1. CASE GivesUp
  BY <1>1, CapShrinks DEF GivesUp
<1>2. ASSUME NEW o \in Ops, TakesLease(o) PROVE CapHolds'
  <2>1. Cardinality(Holders') = Cardinality(Holders) + 1
    BY <1>2, SlotsFinite, FS_AddElement DEF TakesLease
  <2>2. QED
    BY <1>2, <2>1, SlotsFinite, CapacityAssumption DEF TakesLease, CapHolds
<1>3. ASSUME NEW j \in Jobs, TakesJob(j) PROVE CapHolds'
  <2>1. Cardinality(AdmittedJobs') = Cardinality(AdmittedJobs) + 1
    BY <1>3, SlotsFinite, FS_AddElement DEF TakesJob
  <2>2. QED
    BY <1>3, <2>1, SlotsFinite, CapacityAssumption DEF TakesJob, CapHolds
<1>4. QED
  BY <1>1, <1>2, <1>3 DEF SlotMove

-------------------------------------------------------------------------------
(* The invariant behind the cap, shape by shape *)

\* CapInv without the cap itself and without the types.
Accounts == /\ Exclusive /\ Alive
            /\ HoldersOnFile /\ JobsCounted /\ RoomToCommit

LEMMA OutsideAccounts ==
    ASSUME TypeOK, Accounts, NEW o \in Ops, MovesOutside(o)
    PROVE  Accounts' /\ GivesUp
<1>0. PICK next \in Outside : /\ pc' = [pc EXCEPT ![o] = next]
                              /\ next \in Lease <=> pc[o] \in Lease
  BY DEF MovesOutside
<1>1. lock # o
  BY DEF MovesOutside, Accounts, Exclusive
<1>2. UNCHANGED <<ledger, lock, mem, job, runner, pids, made>> /\ pc[o] \in Outside \ {"dead"}
  BY DEF MovesOutside
<1>3. Holders' = Holders /\ AdmittedJobs' = AdmittedJobs
  BY <1>0, <1>2 DEF Holders, AdmittedJobs, SlotJobs, Revived, TypeOK, Lease
<1>4. Exclusive' /\ (lock # NoOp => pc'[lock] = pc[lock])
  BY <1>0, <1>1, <1>2 DEF Accounts, Exclusive, TypeOK
<1>5. Alive'
  <2>1. pc[o] # "dead"
    BY <1>2
  <2>2. QED
    BY <1>0, <1>2, <2>1 DEF Accounts, Alive, TypeOK
<1>6. HoldersOnFile'
  BY <1>2, <1>3 DEF Accounts, HoldersOnFile
<1>7. JobsCounted'
  BY <1>2, <1>3, <1>4 DEF Accounts, JobsCounted, JustCreated
<1>8. RoomToCommit'
  BY <1>2, <1>4 DEF Accounts, RoomToCommit, Occupied
<1>9. QED
  BY <1>3, <1>4, <1>5, <1>6, <1>7, <1>8 DEF Accounts, GivesUp

LEMMA InAccounts ==
    ASSUME TypeOK, Accounts, NEW o \in Ops, MovesIn(o)
    PROVE  Accounts' /\ GivesUp
<1>0. PICK from \in Outside \ {"dead"}, to \in Inside \ {"commit", "creating", "created"} :
          Load(o, from, to) /\ (from \in Lease <=> to \in Lease)
  BY DEF MovesIn
<1>1. /\ lock = NoOp /\ lock' = o /\ pc[o] = from /\ pc' = [pc EXCEPT ![o] = to]
      /\ mem' = Reconciled(ledger) /\ job' = Swept /\ UNCHANGED <<ledger, runner, pids>>
  BY <1>0 DEF Load
<1>2. Holders' = Holders
  BY <1>0, <1>1 DEF Holders, TypeOK, Lease
<1>3. AdmittedJobs' \subseteq ActiveJobs /\ AdmittedJobs' \subseteq AdmittedJobs
  BY <1>1, SweptAdmitted
<1>4. /\ mem'.owners = LiveOwners(ledger)
      /\ mem'.resv = ActiveJobs
  BY <1>1, ReconciledFields DEF TypeOK
<1>5. Exclusive'
  BY <1>0, <1>1, CapacityAssumption DEF Accounts, Exclusive, TypeOK
<1>6. Alive'
  <2>1. pc[o] # "dead"
    BY <1>0, <1>1
  <2>2. QED
    BY <1>1, <2>1 DEF Accounts, Alive, TypeOK
<1>7. HoldersOnFile'
  <2>1. \A x \in Holders : x \in Ops /\ pc[x] # "dead" /\ x \in ledger.owners
    BY DEF Holders, Accounts, HoldersOnFile
  <2>2. Holders \subseteq LiveOwners(ledger)
    BY <2>1 DEF Accounts, Alive, LiveOwners
  <2>3. QED
    BY <1>1, <1>2, <1>4, <2>1, <2>2 DEF HoldersOnFile
<1>8. pc'[lock'] = to
  BY <1>1 DEF TypeOK
<1>9. JobsCounted' /\ RoomToCommit'
  BY <1>3, <1>4, <1>8 DEF JobsCounted, RoomToCommit
<1>10. QED
  BY <1>2, <1>3, <1>5, <1>6, <1>7, <1>9 DEF Accounts, GivesUp

LEMMA OutAccounts ==
    ASSUME TypeOK, Accounts, NEW o \in Ops, MovesOut(o)
    PROVE  Accounts'
<1>1. PICK l \in Ledger, next \in Outside :
          /\ pc[o] \in Inside /\ Leave(o, l, next) /\ UNCHANGED pids
          /\ Holders' \subseteq l.owners
  BY DEF MovesOut
<1>2. lock = o /\ lock' = NoOp /\ ledger' = l /\ pc' = [pc EXCEPT ![o] = next]
  BY <1>1 DEF Leave, Accounts, Exclusive
<1>3. Exclusive'
  BY <1>1, <1>2, CapacityAssumption DEF Accounts, Exclusive, TypeOK
<1>4. Alive'
  <2>1. pc[o] # "dead"
    BY <1>1
  <2>2. QED
    BY <1>1, <1>2, <2>1 DEF Accounts, Alive, TypeOK
<1>5. HoldersOnFile' /\ JobsCounted' /\ RoomToCommit'
  BY <1>1, <1>2 DEF HoldersOnFile, JobsCounted, RoomToCommit
<1>6. QED
  BY <1>3, <1>4, <1>5 DEF Accounts

LEMMA GrantLeaseMove ==
    ASSUME TypeOK, Accounts, NEW o \in Ops, GrantLease(o)
    PROVE  MovesOut(o) /\ (GivesUp \/ TakesLease(o))
<1> DEFINE granted == [mem EXCEPT !.owners = mem.owners \cup {o}]
<1>0. /\ pc[o] = "acquiring" /\ Occupied(mem) < Limit
      /\ Leave(o, granted, "holding") \/ SaveFails(o, granted, "ended")
      /\ UNCHANGED <<job, runner, pids>>
  <2>1. Cardinality(mem.owners) \in Nat /\ Cardinality(mem.resv) \in Nat
    BY CapacityAssumption, FS_Subset, FS_CardinalityType DEF TypeOK, Ledger
  <2>2. /\ pc[o] = "acquiring" /\ ~(Occupied(mem) >= Limit)
        /\ Leave(o, granted, "holding") \/ SaveFails(o, granted, "ended")
        /\ UNCHANGED <<job, runner, pids>>
    BY DEF GrantLease, LeaseRefusable, worldVars
  <2>3. QED
    BY <2>1, <2>2, CapacityAssumption DEF Occupied
<1>1. granted \in Ledger /\ granted.owners = mem.owners \cup {o}
  BY WithOwners DEF TypeOK, Ledger
<1>2. AdmittedJobs' = AdmittedJobs
  BY <1>0 DEF AdmittedJobs, SlotJobs, Revived
<1>3. lock = o /\ lock # NoOp /\ Holders \subseteq mem.owners
  BY <1>0, CapacityAssumption DEF Accounts, Exclusive, HoldersOnFile
<1> HIDE DEF granted
<1>4. CASE Leave(o, granted, "holding")
  <2>1. o \notin Holders /\ Holders' = Holders \cup {o}
    BY <1>0, <1>4 DEF Leave, Holders, TypeOK
  <2>2. AdmittedJobs \subseteq mem.resv
    BY <1>0, <1>3 DEF Accounts, JobsCounted, JustCreated
  <2>3. Cardinality(Holders) + Cardinality(AdmittedJobs) < Limit
    BY <1>0, <1>3, <2>2, RoomIsReal DEF TypeOK
  <2>4. MovesOut(o)
    BY <1>0, <1>1, <1>2, <1>3, <1>4, <2>1 DEF MovesOut
  <2>5. QED
    BY <1>2, <2>1, <2>3, <2>4 DEF TakesLease
<1>5. CASE SaveFails(o, granted, "ended")
  BY <1>0, <1>1, <1>2, <1>3, <1>5, PlainOut DEF Accounts, GivesUp, Lease
<1>6. QED
  BY <1>0, <1>4, <1>5

\* Steps inside the critical section, up to the creation of the manifest.
LEMMA CommitAccounts ==
    ASSUME TypeOK, Accounts, NEW o \in Ops,
           Admissible(o) \/ AdmissibleNow(o) \/ BeginCommit(o)
    PROVE  Accounts' /\ GivesUp
<1>1. PICK next \in {"commit", "creating"} : pc' = [pc EXCEPT ![o] = next]
  BY DEF Admissible, AdmissibleNow, BeginCommit
<1>2. /\ pc[o] \in {"deciding", "decidingNow", "commit"}
      /\ UNCHANGED <<ledger, lock, mem, job, runner, pids, made>>
  BY DEF Admissible, AdmissibleNow, BeginCommit, worldVars, launchVars
<1>3. lock = o /\ lock # NoOp
  BY <1>2, CapacityAssumption DEF Accounts, Exclusive
<1>4. Occupied(mem) < Limit
  BY <1>2, <1>3 DEF Admissible, AdmissibleNow, BeginCommit, Accounts, RoomToCommit
<1>5. Holders' = Holders /\ AdmittedJobs' = AdmittedJobs
  BY <1>1, <1>2 DEF Holders, AdmittedJobs, SlotJobs, Revived, TypeOK
<1>6. Exclusive' /\ Alive' /\ HoldersOnFile'
  BY <1>1, <1>2, <1>3, <1>5 DEF Accounts, Exclusive, Alive, HoldersOnFile, TypeOK
<1>7. JobsCounted'
  BY <1>1, <1>2, <1>3, <1>5 DEF Accounts, JobsCounted, JustCreated, TypeOK
<1>8. RoomToCommit'
  BY <1>2, <1>4 DEF RoomToCommit, Occupied
<1>9. QED
  BY <1>5, <1>6, <1>7, <1>8 DEF Accounts, GivesUp

LEMMA CreateMove ==
    ASSUME TypeOK, Accounts, NEW o \in Ops, Create(o)
    PROVE  Accounts' /\ SlotMove
<1>1. PICK j \in Jobs : /\ job[j] = "absent" /\ job' = [job EXCEPT ![j] = "active"]
                        /\ made' = [made EXCEPT ![o] = j]
  BY DEF Create
<1>2. /\ pc[o] = "creating" /\ pc' = [pc EXCEPT ![o] = "created"]
      /\ UNCHANGED <<ledger, lock, mem, runner, pids>>
  BY DEF Create
<1>3. lock = o /\ lock # NoOp /\ Occupied(mem) < Limit
  BY <1>2, CapacityAssumption DEF Accounts, Exclusive, RoomToCommit
<1>4. Holders' = Holders
  BY <1>2 DEF Holders, TypeOK
<1>5. /\ j \notin AdmittedJobs
      /\ AdmittedJobs' = AdmittedJobs \cup {j} \/ AdmittedJobs' = AdmittedJobs
  BY <1>1, <1>2 DEF AdmittedJobs, SlotJobs, Revived, TypeOK
<1>6. AdmittedJobs \subseteq mem.resv /\ Holders \subseteq mem.owners
  BY <1>2, <1>3 DEF Accounts, JobsCounted, JustCreated, HoldersOnFile
<1>7. Cardinality(Holders) + Cardinality(AdmittedJobs) < Limit
  BY <1>3, <1>6, RoomIsReal DEF TypeOK
<1>8. Exclusive' /\ Alive' /\ HoldersOnFile'
  BY <1>2, <1>3, <1>4 DEF Accounts, Exclusive, Alive, HoldersOnFile, TypeOK
<1>9. JobsCounted' /\ RoomToCommit'
  BY <1>1, <1>2, <1>3, <1>5, <1>6 DEF JobsCounted, JustCreated, RoomToCommit, TypeOK
<1>10. QED
  BY <1>4, <1>5, <1>7, <1>8, <1>9 DEF Accounts, TakesJob, GivesUp, SlotMove

LEMMA CrashAccounts ==
    ASSUME TypeOK, Accounts, NEW p \in Procs, Crash(p)
    PROVE  Accounts' /\ GivesUp
<1>1. /\ pids' = pids \ {p} /\ UNCHANGED <<ledger, job, runner, made>>
      /\ pc' = [x \in Ops |-> IF ProcOf[x] = p THEN "dead" ELSE pc[x]]
  BY DEF Crash, launchVars
<1>2. Holders' \subseteq Holders /\ AdmittedJobs' = AdmittedJobs
  BY <1>1 DEF Holders, AdmittedJobs, SlotJobs, Revived, TypeOK
<1>3. Alive'
  BY <1>1 DEF Accounts, Alive, TypeOK
<1>4. CASE lock # NoOp /\ ProcOf[lock] = p
  <2>1. lock' = NoOp
    BY <1>4 DEF Crash
  <2>2. Exclusive'
    BY <1>1, <1>4, <2>1, CapacityAssumption DEF Accounts, Exclusive, TypeOK
  <2>3. QED
    BY <1>1, <1>2, <1>3, <2>1, <2>2
    DEF Accounts, HoldersOnFile, JobsCounted, RoomToCommit, GivesUp
<1>5. CASE ~(lock # NoOp /\ ProcOf[lock] = p)
  <2>1. UNCHANGED <<lock, mem>>
    BY <1>5 DEF Crash
  <2>2. lock # NoOp => pc'[lock] = pc[lock]
    BY <1>1, <1>5 DEF TypeOK
  <2>3. Exclusive'
    BY <1>1, <1>5, <2>1, CapacityAssumption DEF Accounts, Exclusive, TypeOK
  <2>4. HoldersOnFile' /\ JobsCounted'
    BY <1>1, <1>2, <2>1, <2>2 DEF Accounts, HoldersOnFile, JobsCounted, JustCreated
  <2>5. RoomToCommit'
    BY <2>1, <2>2 DEF Accounts, RoomToCommit, Occupied
  <2>6. QED
    BY <1>2, <1>3, <2>3, <2>4, <2>5 DEF Accounts, GivesUp
<1>6. QED
  BY <1>4, <1>5

\* Everything else leaves the operations where they are.
LEMMA WorldAccounts ==
    ASSUME TypeOK, Accounts,
           UNCHANGED <<ledger, lock, mem, pc, made>>,
           pids \subseteq pids', AdmittedJobs' \subseteq AdmittedJobs
    PROVE  Accounts' /\ GivesUp
<1>1. Holders' = Holders
  BY DEF Holders
<1>2. Exclusive' /\ Alive' /\ HoldersOnFile'
  BY <1>1 DEF Accounts, Exclusive, Alive, HoldersOnFile
<1>3. JobsCounted' /\ RoomToCommit'
  BY DEF Accounts, JobsCounted, JustCreated, RoomToCommit, Occupied
<1>4. QED
  BY <1>1, <1>2, <1>3 DEF Accounts, GivesUp

LEMMA AccountsStep ==
    ASSUME TypeOK, Accounts, [Next]_vars
    PROVE  Accounts' /\ SlotMove
<1>0. UNCHANGED <<job, runner>> => AdmittedJobs' = AdmittedJobs
  BY DEF AdmittedJobs, SlotJobs, Revived
<1>1. ASSUME NEW o \in Ops, Request(o) PROVE Accounts' /\ GivesUp
  BY <1>1, RequestShape, OutsideAccounts
<1>2. ASSUME NEW o \in Ops, Run(o) PROVE Accounts' /\ SlotMove
  <2>1. CASE \/ LeaseLockTimeout(o) \/ BeginRelease(o) \/ LockTimeout(o) \/ Wake(o)
             \/ ImmediateLockTaken(o) \/ DiscardGivesUp(o)
    BY <2>1, OutsideShape, OutsideAccounts DEF SlotMove
  <2>2. CASE \/ LoadForLease(o) \/ LoadForRelease(o) \/ LoadForRegister(o)
             \/ LoadForAttempt(o) \/ LoadForImmediate(o) \/ LoadForDiscard(o)
    BY <2>2, InShape, InAccounts DEF SlotMove
  <2>3. CASE \/ RefuseLease(o) \/ ReleaseLease(o) \/ RefuseRegister(o) \/ Register(o)
             \/ RefuseAttempt(o) \/ Postpone(o) \/ RefuseImmediate(o)
             \/ CommitRefused(o) \/ CreateFails(o) \/ FinishCommit(o) \/ Discard(o)
    <3>1. MovesOut(o) /\ GivesUp
      BY <2>3, OutShape DEF Accounts, GivesUp
    <3>2. QED
      BY <3>1, OutAccounts DEF SlotMove
  <2>4. CASE GrantLease(o)
    BY <2>4, GrantLeaseMove, OutAccounts DEF SlotMove
  <2>5. CASE Admissible(o) \/ AdmissibleNow(o) \/ BeginCommit(o)
    BY <2>5, CommitAccounts DEF SlotMove
  <2>6. CASE Create(o)
    BY <2>6, CreateMove DEF SlotMove
  <2>7. QED
    BY <1>2, <2>1, <2>2, <2>3, <2>4, <2>5, <2>6
    DEF Run, LeaseStep, QueueStep, CommitStep, DiscardStep
<1>3. ASSUME NEW o \in Ops, Cancel(o) PROVE Accounts' /\ GivesUp
  <2>1. CASE CancelAsleep(o)
    BY <2>1, OutsideShape, OutsideAccounts
  <2>2. CASE CancelInFlight(o) \/ CancelDiscard(o)
    BY <2>2, <1>0, WorldAccounts DEF CancelInFlight, CancelDiscard, worldVars
  <2>3. QED
    BY <1>3, <2>1, <2>2 DEF Cancel
<1>4. CASE Tick \/ UNCHANGED vars
  BY <1>4, <1>0, WorldAccounts DEF Tick, vars, launchVars, SlotMove
<1>5. ASSUME NEW p \in Procs, Crash(p) PROVE Accounts' /\ GivesUp
  BY <1>5, CrashAccounts
<1>6. ASSUME NEW p \in Procs, ReusePid(p) PROVE Accounts' /\ GivesUp
  BY <1>6, <1>0, WorldAccounts DEF ReusePid, launchVars
<1>7. ASSUME NEW j \in Jobs, JobStep(j) PROVE Accounts' /\ GivesUp
  <2>1. AdmittedJobs' \subseteq AdmittedJobs
    BY <1>7 DEF JobStep, RunnerChecks, RunnerStarts, JobEnds, JobGoesStale,
                JobReconciled, JobMoves, AdmittedJobs, SlotJobs, Revived, TypeOK
  <2>2. QED
    BY <1>7, <2>1, WorldAccounts
    DEF JobStep, RunnerChecks, RunnerStarts, JobEnds, JobGoesStale, JobReconciled,
        JobMoves, launchVars
<1>8. QED
  BY <1>1, <1>2, <1>3, <1>4, <1>5, <1>6, <1>7 DEF Next, SlotMove

-------------------------------------------------------------------------------
(* The cap *)

LEMMA CapInvInit == Init => CapInv
<1> SUFFICES ASSUME Init PROVE CapInv
  OBVIOUS
<1>1. Holders = {} /\ AdmittedJobs = {}
  BY DEF Init, Holders, AdmittedJobs, SlotJobs, Revived
<1>2. CapHolds
  BY <1>1, CapacityAssumption, FS_EmptySet DEF CapHolds
<1>3. Exclusive /\ Alive
  BY CapacityAssumption DEF Init, Exclusive, Alive
<1>4. QED
  BY <1>1, <1>2, <1>3, TypeInit
  DEF Init, CapInv, HoldersOnFile, JobsCounted, RoomToCommit

LEMMA CapInvStep == CapInv /\ [Next]_vars => CapInv' /\ SlotMove
<1> SUFFICES ASSUME CapInv, [Next]_vars PROVE CapInv' /\ SlotMove
  OBVIOUS
<1>1. TypeOK /\ Accounts /\ CapHolds
  BY DEF CapInv, Accounts
<1>2. TypeOK'
  BY <1>1, TypeStep
<1>3. Accounts' /\ SlotMove
  BY <1>1, AccountsStep
<1>4. QED
  BY <1>1, <1>2, <1>3, SlotMoveCap DEF CapInv, Accounts

LEMMA CapInvAlways == Spec => []CapInv
BY CapInvInit, CapInvStep, PTL DEF Spec

(* The two-slot cap, as far as admission keeps it: statements under a lease    *)
(* and Pending or Running Jobs, those left out that a late runner wrote        *)
(* Running over a terminal state, never exceed Limit together, whatever        *)
(* crashes, expires, is cancelled, is revived or fails to save, and even when  *)
(* pids are reused.                                                            *)
THEOREM CapSafe == Spec => []CapHolds
<1>1. CapInv => CapHolds
  BY DEF CapInv
<1>2. QED
  BY <1>1, CapInvAlways, PTL

-------------------------------------------------------------------------------
(* Refinement *)

LEMMA HeldRoom ==
    ASSUME TypeOK, Cardinality(Holders) + Cardinality(AdmittedJobs) < Limit
    PROVE  Cardinality(Holders \cup AdmittedJobs) < Limit
<1>1. /\ Cardinality(Holders \cup AdmittedJobs) =
              Cardinality(Holders) + Cardinality(AdmittedJobs)
                - Cardinality(Holders \cap AdmittedJobs)
      /\ Cardinality(Holders \cap AdmittedJobs) \in Nat
  BY SlotsFinite, FS_Union, FS_Intersection, FS_CardinalityType
<1>2. QED
  BY <1>1, SlotsFinite, CapacityAssumption

LEMMA SameCardinality == \A s : Pool!Cardinality(s) = Cardinality(s)
BY Zenon DEF Pool!Cardinality, Cardinality

LEMMA PoolStep ==
    ASSUME TypeOK, SlotMove
    PROVE  [Pool!Next]_(Holders \cup AdmittedJobs)
<1>1. CASE GivesUp
  BY <1>1 DEF GivesUp, Pool!Next, Pool!Leave
<1>2. ASSUME NEW o \in Ops, TakesLease(o)
      PROVE  Pool!Next
  <2>1. o \notin Holders \cup AdmittedJobs
    BY <1>2, CapacityAssumption DEF TakesLease, AdmittedJobs, SlotJobs, Revived
  <2>2. Pool!Enter(o)
    <3>1. Cardinality(Holders \cup AdmittedJobs) < Limit
      BY <1>2, HeldRoom DEF TakesLease
    <3>2. Holders' \cup AdmittedJobs' = (Holders \cup AdmittedJobs) \cup {o}
      BY <1>2 DEF TakesLease
    <3> HIDE DEF Holders, AdmittedJobs
    <3>3. QED
      BY <2>1, <3>1, <3>2, SameCardinality DEF Pool!Enter
  <2>3. QED
    BY <2>2 DEF Pool!Next
<1>3. ASSUME NEW j \in Jobs, TakesJob(j)
      PROVE  Pool!Next
  <2>1. j \notin Holders \cup AdmittedJobs
    BY <1>3, CapacityAssumption DEF TakesJob, Holders
  <2>2. Pool!Enter(j)
    <3>1. Cardinality(Holders \cup AdmittedJobs) < Limit
      BY <1>3, HeldRoom DEF TakesJob
    <3>2. Holders' \cup AdmittedJobs' = (Holders \cup AdmittedJobs) \cup {j}
      BY <1>3 DEF TakesJob
    <3> HIDE DEF Holders, AdmittedJobs
    <3>3. QED
      BY <2>1, <3>1, <3>2, SameCardinality DEF Pool!Enter
  <2>3. QED
    BY <2>2 DEF Pool!Next
<1>4. QED
  BY <1>1, <1>2, <1>3 DEF SlotMove

(* Admission through the ledger implements the abstract pool of slots: every   *)
(* step of the protocol takes one free slot, gives some up, or leaves them be. *)
THEOREM CapacityImplementsPool == Spec => ImplementsPool
<1>1. Init => Pool!Init
  BY DEF Init, Pool!Init, Holders, AdmittedJobs, SlotJobs, Revived
<1>2. CapInv /\ [Next]_vars => [Pool!Next]_(Holders \cup AdmittedJobs)
  BY CapInvStep, PoolStep DEF CapInv
<1>3. QED
  BY <1>1, <1>2, CapInvAlways, PTL DEF Spec, ImplementsPool, Pool!Spec

-------------------------------------------------------------------------------
(* The queue *)

Queuers == {"asleep", "queued", "deciding"}
Fresh == {"new", "register", "registering", "immediate", "decidingNow"}

\* A step that hands out no sequence number and gives nobody a place.
Quiet ==
    /\ seq' = seq
    /\ clock <= clock'
    /\ Waiting' \subseteq Waiting
    /\ \A w \in Waiting : due'[w] = due[w]
    /\ \A x \in Ops : /\ pc'[x] \in Queuers => pc[x] \in Queuers
                      /\ pc'[x] \in Fresh => pc[x] \in Fresh

LEMMA RunQuiet ==
    ASSUME TypeOK, SeqUnique, NEW o \in Ops, Run(o), ~Register(o)
    PROVE  Quiet
<1>0. clock \in Nat /\ clock <= clock
  BY DEF TypeOK
<1>1. CASE LeaseStep(o)
  BY <1>0, <1>1
  DEF LeaseStep, LoadForLease, LoadForRelease, Load, LeaseLockTimeout, RefuseLease,
      GrantLease, BeginRelease, ReleaseLease, Leave, SaveFails, Quiet, Queuers, Fresh,
      Waiting, TypeOK, worldVars, launchVars
<1>2. CASE \/ LoadForRegister(o) \/ LoadForAttempt(o) \/ LoadForImmediate(o)
           \/ LoadForDiscard(o)
  BY <1>0, <1>2
  DEF LoadForRegister, LoadForAttempt, LoadForImmediate, LoadForDiscard, Load,
      Quiet, Queuers, Fresh, Waiting, TypeOK, launchVars
<1>3. CASE \/ LockTimeout(o) \/ ImmediateLockTaken(o) \/ Wake(o) \/ DiscardGivesUp(o)
  BY <1>0, <1>3
  DEF LockTimeout, ImmediateLockTaken, Wake, DiscardGivesUp, Quiet, Queuers, Fresh,
      Waiting, TypeOK, worldVars, launchVars
<1>4. CASE RefuseRegister(o) \/ RefuseAttempt(o) \/ RefuseImmediate(o)
  BY <1>0, <1>4
  DEF RefuseRegister, RefuseAttempt, RefuseImmediate, Refuse, Leave, SaveFails,
      Quiet, Queuers, Fresh, Waiting, TypeOK, worldVars
<1>5. CASE Postpone(o)
  BY <1>0, <1>5
  DEF Postpone, Leave, SaveFails, Quiet, Queuers, Fresh, Waiting, TypeOK, worldVars
<1>6. CASE Admissible(o) \/ AdmissibleNow(o) \/ BeginCommit(o)
  BY <1>0, <1>6
  DEF Admissible, AdmissibleNow, BeginCommit, SeqUnique, Quiet, Queuers, Fresh,
      Waiting, TypeOK, worldVars, launchVars
<1>7. CASE CommitRefused(o) \/ CreateFails(o) \/ Create(o) \/ FinishCommit(o)
  BY <1>0, <1>7
  DEF CommitRefused, CreateFails, Create, FinishCommit, AfterFailure, Leave, SaveFails,
      Quiet, Queuers, Fresh, Waiting, TypeOK, worldVars
<1>8. CASE Discard(o)
  BY <1>0, <1>8
  DEF Discard, Leave, SaveFails, Quiet, Queuers, Fresh, Waiting, TypeOK, worldVars
<1>9. QED
  BY <1>1, <1>2, <1>3, <1>4, <1>5, <1>6, <1>7, <1>8
  DEF Run, QueueStep, CommitStep, DiscardStep

\* What a waiting launch has on file is among the live intents.
LEMMA WaitersLive ==
    ASSUME TypeOK, Alive, NEW l \in Ledger, NEW w \in Waiting,
           clock < due[w], MyIntent(w) \in l.intents
    PROVE  MyIntent(w) \in LiveIntents(l)
<1>1. w \in Ops /\ pc[w] # "dead"
  BY DEF Waiting
<1>2. MyIntent(w).op = w /\ MyIntent(w).due = due[w]
  BY DEF MyIntent
<1>3. ProcOf[w] \in pids /\ due[w] > clock
  BY <1>1 DEF Alive, TypeOK
<1>4. QED
  BY <1>2, <1>3 DEF LiveIntents

\* A place is kept if the files that are read next still hold it.
LEMMA QuietPlaces ==
    ASSUME TypeOK, PlaceKept, Quiet, clock' \in Nat, due' \in [Ops -> Nat],
           \A w \in Waiting' : clock < due[w] =>
               /\ MyIntent(w) \in ledger'.intents
               /\ lock' # NoOp => MyIntent(w) \in mem'.intents
    PROVE  PlaceKept'
<1> SUFFICES ASSUME NEW w \in Waiting', clock' < due'[w]
             PROVE  /\ MyIntent(w)' \in ledger'.intents
                    /\ lock' # NoOp => MyIntent(w)' \in mem'.intents
  BY DEF PlaceKept
<1>1. w \in Waiting /\ w \in Ops /\ due'[w] = due[w] /\ seq' = seq
  BY DEF Quiet, Waiting
<1>2. clock < due[w]
  BY <1>1 DEF Quiet, TypeOK
<1>3. MyIntent(w)' = MyIntent(w)
  BY <1>1 DEF MyIntent
<1>4. QED
  BY <1>2, <1>3

LEMMA QuietSeq ==
    ASSUME TypeOK, TypeOK', SeqUnique, Quiet, ledger'.next = ledger.next,
           lock' # NoOp => mem'.next = ledger.next
    PROVE  SeqUnique'
<1>1. seq' = seq
  BY DEF Quiet
<1>2. \A x \in Ops : pc'[x] \in {"asleep", "queued", "deciding"} => seq'[x] # 0
  <2> SUFFICES ASSUME NEW x \in Ops, pc'[x] \in {"asleep", "queued", "deciding"}
               PROVE  seq'[x] # 0
    OBVIOUS
  <2>1. pc[x] \in {"asleep", "queued", "deciding"}
    BY DEF Quiet, Queuers, TypeOK
  <2>2. QED
    BY <1>1, <2>1 DEF SeqUnique
<1>3. \A x \in Ops : pc'[x] \in {"new", "register", "registering", "immediate",
                                 "decidingNow"} => seq'[x] = 0
  <2> SUFFICES ASSUME NEW x \in Ops, pc'[x] \in Fresh
               PROVE  seq'[x] = 0
    BY DEF Fresh
  <2>1. pc[x] \in Fresh
    BY DEF Quiet, TypeOK
  <2>2. QED
    BY <1>1, <2>1 DEF SeqUnique, Fresh
<1>4. /\ ledger'.next > 0
      /\ lock' # NoOp => mem'.next = ledger'.next
      /\ \A x \in Ops : seq'[x] < ledger'.next
  BY <1>1 DEF SeqUnique
<1>5. \A x, y \in Ops : seq'[x] # 0 /\ seq'[x] = seq'[y] => x = y
  BY <1>1 DEF SeqUnique
<1>6. QED
  BY <1>2, <1>3, <1>4, <1>5 DEF SeqUnique

\* Leaving with a ledger that kept the sequence counter and the waiting launches.
LEMMA LeaveQueue ==
    ASSUME QueueInv, Quiet, TypeOK', NEW o \in Ops, NEW l \in Ledger, NEW next,
           lock = o,
           Leave(o, l, next) \/ SaveFails(o, l, next),
           l.next = mem.next,
           \A w \in Waiting' : clock < due[w] /\ MyIntent(w) \in mem.intents
                                   => MyIntent(w) \in l.intents
    PROVE  SeqUnique' /\ CommitsFirst' /\ PlaceKept'
<1>1. PICK f \in {ledger, l} : Leave(o, f, next)
  BY DEF SaveFails
<1>2. lock' = NoOp /\ ledger' = f /\ lock # NoOp
  BY <1>1, CapacityAssumption DEF Leave
<1>3. f.next = ledger.next
  BY <1>2 DEF QueueInv, SeqUnique
<1>4. \A w \in Waiting' : clock < due[w] => MyIntent(w) \in f.intents
  BY <1>2 DEF QueueInv, PlaceKept, Quiet
<1>5. SeqUnique'
  BY <1>2, <1>3, QuietSeq DEF QueueInv
<1>6. PlaceKept'
  BY <1>2, <1>4, QuietPlaces DEF QueueInv, TypeOK
<1>7. CommitsFirst'
  BY <1>2 DEF CommitsFirst
<1>8. QED
  BY <1>5, <1>6, <1>7

LEMMA LoadQueue ==
    ASSUME QueueInv, Quiet, TypeOK', NEW o \in Ops, NEW from,
           NEW to \in Inside \ {"commit", "creating"}, Load(o, from, to)
    PROVE  SeqUnique' /\ CommitsFirst' /\ PlaceKept'
<1>1. /\ ledger' = ledger /\ lock' = o /\ clock' = clock
      /\ mem'.intents = LiveIntents(ledger) /\ mem'.next = ledger.next
      /\ pc'[o] = to
  BY ReconciledFields DEF Load, QueueInv, TypeOK
<1>2. \A w \in Waiting' : clock < due[w] =>
          MyIntent(w) \in ledger.intents /\ MyIntent(w) \in LiveIntents(ledger)
  <2> SUFFICES ASSUME NEW w \in Waiting', clock < due[w]
               PROVE  MyIntent(w) \in ledger.intents /\ MyIntent(w) \in LiveIntents(ledger)
    OBVIOUS
  <2>1. w \in Waiting /\ MyIntent(w) \in ledger.intents
    BY DEF Quiet, QueueInv, PlaceKept
  <2>2. QED
    BY <2>1, WaitersLive DEF QueueInv, TypeOK
<1>3. SeqUnique'
  BY <1>1, QuietSeq DEF QueueInv
<1>4. PlaceKept'
  BY <1>1, <1>2, QuietPlaces DEF QueueInv, TypeOK
<1>5. CommitsFirst'
  BY <1>1 DEF CommitsFirst
<1>6. QED
  BY <1>3, <1>4, <1>5

\* A step that touches neither file nor copy, nor the lock holder.
LEMMA QuietQueue ==
    ASSUME QueueInv, Quiet, TypeOK', UNCHANGED <<ledger, mem>>,
           lock' \in {lock, NoOp},
           lock' # NoOp => pc'[lock] = pc[lock]
    PROVE  SeqUnique' /\ CommitsFirst' /\ PlaceKept'
<1>1. SeqUnique'
  BY QuietSeq DEF QueueInv, SeqUnique
<1>2. PlaceKept'
  <2>1. \A w \in Waiting' : clock < due[w] =>
               /\ MyIntent(w) \in ledger'.intents
               /\ lock' # NoOp => MyIntent(w) \in mem'.intents
    BY DEF Quiet, QueueInv, PlaceKept
  <2>2. QED
    BY <2>1, QuietPlaces DEF QueueInv, TypeOK
<1>3. CommitsFirst'
  BY DEF QueueInv, CommitsFirst, Quiet, IsFirst
<1>4. QED
  BY <1>1, <1>2, <1>3

LEMMA LeaveStepQueue ==
    ASSUME QueueInv, TypeOK', NEW o \in Ops, Run(o), ~Register(o), pc[o] \in Inside,
           pc'[o] \in Outside
    PROVE  SeqUnique' /\ CommitsFirst' /\ PlaceKept'
<1>0. /\ mem \in Ledger /\ ledger \in Ledger
      /\ lock = o /\ lock # NoOp /\ Quiet /\ TypeOK
      /\ Waiting' \subseteq Waiting
  BY RunQuiet, CapacityAssumption DEF QueueInv, TypeOK, Exclusive, Quiet
<1>1. CASE RefuseLease(o)
  BY <1>0, <1>1, LeaveQueue DEF RefuseLease
<1>2. CASE GrantLease(o)
  <2>1. /\ [mem EXCEPT !.owners = mem.owners \cup {o}] \in Ledger
        /\ [mem EXCEPT !.owners = mem.owners \cup {o}].next = mem.next
        /\ [mem EXCEPT !.owners = mem.owners \cup {o}].intents = mem.intents
    BY <1>0, WithOwners DEF Ledger
  <2>2. QED
    BY <1>0, <1>2, <2>1, LeaveQueue DEF GrantLease
<1>3. CASE ReleaseLease(o)
  <2>1. /\ [mem EXCEPT !.owners = mem.owners \ {o}] \in Ledger
        /\ [mem EXCEPT !.owners = mem.owners \ {o}].next = mem.next
        /\ [mem EXCEPT !.owners = mem.owners \ {o}].intents = mem.intents
    BY <1>0, WithOwners DEF Ledger
  <2>2. QED
    BY <1>0, <1>3, <2>1, LeaveQueue DEF ReleaseLease
<1>4. CASE RefuseRegister(o) \/ RefuseAttempt(o) \/ RefuseImmediate(o)
  <2>1. PICK r : Refuse(o, r)
    BY <1>4 DEF RefuseRegister, RefuseAttempt, RefuseImmediate
  <2>2. PICK next : Leave(o, mem, next) \/ SaveFails(o, mem, next)
    BY <2>1 DEF Refuse
  <2>3. QED
    BY <1>0, <2>2, LeaveQueue
<1>5. CASE Postpone(o)
  <2>1. PICK next : Leave(o, mem, next) \/ SaveFails(o, mem, next)
    BY <1>5 DEF Postpone
  <2>2. QED
    BY <1>0, <2>1, LeaveQueue
<1>6. CASE CommitRefused(o) \/ CreateFails(o)
  <2>1. PICK next : Leave(o, ledger, next)
    BY <1>6 DEF CommitRefused, CreateFails
  <2>2. ledger.next = mem.next
    BY <1>0 DEF QueueInv, SeqUnique
  <2>3. \A w \in Waiting' : clock < due[w] => MyIntent(w) \in ledger.intents
    BY <1>0 DEF QueueInv, PlaceKept
  <2>4. QED
    BY <1>0, <2>1, <2>2, <2>3, LeaveQueue
<1>7. CASE FinishCommit(o)
  <2> DEFINE settled == RemoveIntent(Reconciled(mem), o)
  <2>1. /\ settled \in Ledger /\ settled.next = mem.next
        /\ settled.intents = {i \in LiveIntents(mem) : i.seq # seq[o]}
    BY <1>0, ReconciledFields, RemoveIntentFields
  <2>2. PICK next : Leave(o, settled, next) \/ SaveFails(o, settled, next)
    BY <1>7 DEF FinishCommit
  <2>3. \A w \in Waiting' : clock < due[w] /\ MyIntent(w) \in mem.intents
                              => MyIntent(w) \in settled.intents
    <3> SUFFICES ASSUME NEW w \in Waiting', clock < due[w], MyIntent(w) \in mem.intents
                 PROVE  MyIntent(w) \in settled.intents
      OBVIOUS
    <3>1. w \in Waiting
      BY <1>0
    <3>2. w \in Ops /\ w # o /\ seq[w] # 0
      BY <1>7, <3>1 DEF Waiting, FinishCommit
    <3>3. MyIntent(w).seq # seq[o]
      BY <3>2 DEF MyIntent, QueueInv, SeqUnique
    <3>4. MyIntent(w) \in LiveIntents(mem)
      BY <1>0, <3>1, WaitersLive DEF QueueInv
    <3>5. QED
      BY <2>1, <3>3, <3>4
  <2> HIDE DEF settled
  <2>4. QED
    BY <1>0, <2>1, <2>2, <2>3, LeaveQueue
<1>8. CASE Discard(o)
  <2> DEFINE without == RemoveIntent(mem, o)
  <2>1. /\ without \in Ledger /\ without.next = mem.next
        /\ without.intents = {i \in mem.intents : i.seq # seq[o]}
    BY <1>0, RemoveIntentFields
  <2>2. PICK next : Leave(o, without, next) \/ SaveFails(o, without, next)
    BY <1>8 DEF Discard
  <2>3. \A w \in Waiting' : MyIntent(w) \in mem.intents => MyIntent(w) \in without.intents
    <3> SUFFICES ASSUME NEW w \in Waiting', MyIntent(w) \in mem.intents
                 PROVE  MyIntent(w) \in without.intents
      OBVIOUS
    <3>1. w \in Waiting
      BY <1>0
    <3>2. w \in Ops /\ w # o /\ seq[w] # 0
      BY <1>8, <3>1 DEF Waiting, Discard
    <3>3. MyIntent(w).seq # seq[o]
      BY <3>2 DEF MyIntent, QueueInv, SeqUnique
    <3>4. QED
      BY <2>1, <3>3
  <2> HIDE DEF without
  <2>4. QED
    BY <1>0, <2>1, <2>2, <2>3, LeaveQueue
<1>9. QED
  <2>1. \/ RefuseLease(o) \/ GrantLease(o) \/ ReleaseLease(o) \/ RefuseRegister(o)
        \/ RefuseAttempt(o) \/ Postpone(o) \/ RefuseImmediate(o) \/ CommitRefused(o)
        \/ CreateFails(o) \/ FinishCommit(o) \/ Discard(o)
    BY <1>0
    DEF Run, LeaseStep, QueueStep, CommitStep, DiscardStep, LoadForLease, LoadForRelease,
        LoadForRegister, LoadForAttempt, LoadForImmediate, LoadForDiscard, Load,
        LeaseLockTimeout, BeginRelease, LockTimeout, Wake, ImmediateLockTaken,
        DiscardGivesUp, Admissible, AdmissibleNow, BeginCommit, Create, TypeOK
  <2>2. QED
    BY <1>1, <1>2, <1>3, <1>4, <1>5, <1>6, <1>7, <1>8, <2>1

\* Register hands out the next number and files the new intent.
LEMMA RegisterQueue ==
    ASSUME QueueInv, TypeOK', NEW o \in Ops, Register(o)
    PROVE  SeqUnique' /\ CommitsFirst' /\ PlaceKept'
<1> DEFINE queued == AppendIntent(mem, o)
<1>0. /\ mem \in Ledger /\ TypeOK /\ pc[o] = "registering"
      /\ lock = o /\ lock # NoOp /\ mem.next = ledger.next /\ mem.next \in Nat
      /\ mem.next > 0
  BY CapacityAssumption DEF QueueInv, TypeOK, Exclusive, Register, SeqUnique, Ledger
<1>1. /\ queued \in Ledger /\ queued.next = mem.next + 1
      /\ queued.intents = mem.intents \cup {[op |-> o, seq |-> mem.next, due |-> due[o]]}
  BY <1>0, AppendIntentFields DEF TypeOK
<1> HIDE DEF queued
<1>2. PICK f \in {ledger, queued}, next \in {"discard", "queued", "ended"} :
          /\ Leave(o, f, next)
          /\ \/ f = queued /\ next # "ended" /\ seq' = [seq EXCEPT ![o] = mem.next]
             \/ next = "ended" /\ seq' = seq
  BY DEF Register, SaveFails, queued
<1>3. /\ ledger' = f /\ lock' = NoOp /\ pc' = [pc EXCEPT ![o] = next]
      /\ UNCHANGED <<due, clock, cancelled>>
  BY <1>2 DEF Leave, Register, worldVars
<1>4. CommitsFirst'
  BY <1>3 DEF CommitsFirst
<1>5. SeqUnique'
  <2>1. \A x \in Ops : seq[x] < mem.next /\ seq[x] \in Nat
    BY <1>0 DEF QueueInv, SeqUnique, TypeOK
  <2>2. ledger'.next > 0 /\ \A x \in Ops : seq'[x] < ledger'.next
    BY <1>0, <1>1, <1>2, <1>3, <2>1 DEF TypeOK
  <2>3. \A x, y \in Ops : seq'[x] # 0 /\ seq'[x] = seq'[y] => x = y
    BY <1>0, <1>2, <2>1 DEF TypeOK, QueueInv, SeqUnique
  <2>4. \A x \in Ops : pc'[x] \in {"asleep", "queued", "deciding"} => seq'[x] # 0
    BY <1>0, <1>2, <1>3 DEF TypeOK, QueueInv, SeqUnique
  <2>5. \A x \in Ops : pc'[x] \in {"new", "register", "registering", "immediate",
                                   "decidingNow"} => seq'[x] = 0
    BY <1>0, <1>2, <1>3 DEF TypeOK, QueueInv, SeqUnique
  <2>6. QED
    BY <1>3, <2>2, <2>3, <2>4, <2>5 DEF SeqUnique
<1>6. PlaceKept'
  <2> SUFFICES ASSUME NEW w \in Waiting', clock' < due'[w]
               PROVE  MyIntent(w)' \in ledger'.intents
    BY <1>3 DEF PlaceKept
  <2>1. w \in Ops
    BY DEF Waiting
  <2>2. CASE w = o
    <3>1. next = "queued" /\ f = queued /\ seq'[o] = mem.next
      BY <1>0, <1>2, <1>3, <2>2 DEF Waiting, TypeOK
    <3>2. QED
      BY <1>1, <1>3, <2>2, <3>1 DEF MyIntent
  <2>3. CASE w # o
    <3>1. seq'[w] = seq[w] /\ pc'[w] = pc[w]
      BY <1>0, <1>2, <1>3, <2>1, <2>3 DEF TypeOK
    <3>2. w \in Waiting /\ MyIntent(w)' = MyIntent(w)
      BY <1>3, <2>1, <3>1 DEF Waiting, MyIntent
    <3>3. MyIntent(w) \in ledger.intents /\ MyIntent(w) \in mem.intents
      BY <1>0, <1>3, <3>2 DEF QueueInv, PlaceKept
    <3>4. QED
      BY <1>1, <1>2, <1>3, <3>2, <3>3
  <2>4. QED
    BY <2>2, <2>3
<1>7. QED
  BY <1>4, <1>5, <1>6

\* A launch that has been found first, or alone, may commit.
LEMMA AdmissibleQueue ==
    ASSUME QueueInv, TypeOK', NEW o \in Ops,
           Admissible(o) \/ AdmissibleNow(o) \/ BeginCommit(o)
    PROVE  SeqUnique' /\ CommitsFirst' /\ PlaceKept'
<1>1. /\ UNCHANGED <<ledger, lock, mem, seq>>
      /\ pc[o] \in {"deciding", "decidingNow", "commit"}
  BY DEF Admissible, AdmissibleNow, BeginCommit, launchVars
<1>2. lock = o /\ lock # NoOp
  BY <1>1, CapacityAssumption DEF QueueInv, Exclusive
<1>3. Quiet
  BY RunQuiet DEF QueueInv, Run, QueueStep, CommitStep, Register, Admissible,
                  AdmissibleNow, BeginCommit
<1>4. SeqUnique'
  BY <1>1, <1>3, QuietSeq DEF QueueInv, SeqUnique
<1>5. \A w \in Waiting' : clock < due[w] =>
               /\ MyIntent(w) \in ledger'.intents
               /\ lock' # NoOp => MyIntent(w) \in mem'.intents
  BY <1>1, <1>3 DEF Quiet, QueueInv, PlaceKept
<1>6. PlaceKept'
  BY <1>3, <1>5, QuietPlaces DEF QueueInv, TypeOK
<1>7. mem.intents = {} \/ (seq[o] # 0 /\ IsFirst(o))
  BY <1>2 DEF Admissible, AdmissibleNow, BeginCommit, QueueInv, SeqUnique, CommitsFirst
<1>8. CommitsFirst'
  BY <1>1, <1>2, <1>7 DEF CommitsFirst, IsFirst
<1>9. QED
  BY <1>4, <1>6, <1>8

LEMMA QueueInvStep == CapInv /\ QueueInv /\ [Next]_vars => QueueInv'
<1> SUFFICES ASSUME CapInv, QueueInv, [Next]_vars PROVE QueueInv'
  OBVIOUS
<1>0. TypeOK /\ TypeOK'
  BY TypeStep DEF QueueInv
<1> DEFINE Goal == SeqUnique' /\ CommitsFirst' /\ PlaceKept'
<1>1. ASSUME NEW o \in Ops, Request(o) PROVE Goal
  <2>1. Quiet
    <3>1. /\ pc[o] = "new" /\ pc'[o] \in {"acquire", "register", "immediate"}
          /\ \A x \in Ops \ {o} : pc'[x] = pc[x] /\ due'[x] = due[x]
          /\ UNCHANGED <<seq, clock, cancelled>>
      BY <1>0, <1>1 DEF Request, RequestLease, RequestLaunch, TypeOK, worldVars
    <3>2. Waiting' \subseteq Waiting /\ \A w \in Waiting : due'[w] = due[w]
      <4>1. o \notin Waiting /\ o \notin Waiting'
        BY <3>1 DEF Waiting
      <4>2. QED
        BY <3>1, <4>1 DEF Waiting
    <3>3. \A x \in Ops : /\ pc'[x] \in Queuers => pc[x] \in Queuers
                         /\ pc'[x] \in Fresh => pc[x] \in Fresh
      BY <3>1 DEF Queuers, Fresh
    <3>4. QED
      BY <1>0, <3>1, <3>2, <3>3 DEF Quiet, TypeOK
  <2>2. UNCHANGED <<ledger, mem, lock>> /\ (lock # NoOp => pc'[lock] = pc[lock])
    BY <1>0, <1>1 DEF Request, RequestLease, RequestLaunch, QueueInv, Exclusive, TypeOK
  <2>3. QED
    BY <1>0, <2>1, <2>2, QuietQueue
<1>2. ASSUME NEW o \in Ops, Run(o) PROVE Goal
  <2>1. CASE Register(o)
    BY <1>0, <2>1, RegisterQueue
  <2>2. CASE Admissible(o) \/ AdmissibleNow(o) \/ BeginCommit(o)
    BY <1>0, <2>2, AdmissibleQueue
  <2>3. CASE Create(o)
    <3>1. /\ UNCHANGED <<ledger, mem, lock>> /\ pc'[o] = "created"
          /\ \A x \in Ops \ {o} : pc'[x] = pc[x]
          /\ lock = o /\ Quiet
      BY <1>0, <1>2, <2>3, RunQuiet DEF Create, Register, QueueInv, Exclusive, TypeOK
    <3>2. SeqUnique'
      BY <1>0, <3>1, QuietSeq DEF QueueInv, SeqUnique
    <3>3. PlaceKept'
      <4>1. \A w \in Waiting' : clock < due[w] =>
                   /\ MyIntent(w) \in ledger'.intents
                   /\ lock' # NoOp => MyIntent(w) \in mem'.intents
        BY <3>1 DEF Quiet, QueueInv, PlaceKept
      <4>2. QED
        BY <1>0, <3>1, <4>1, QuietPlaces DEF QueueInv, TypeOK
    <3>4. CommitsFirst'
      BY <3>1 DEF CommitsFirst
    <3>5. QED
      BY <3>2, <3>3, <3>4
  <2>4. CASE \/ LoadForLease(o) \/ LoadForRelease(o) \/ LoadForRegister(o)
             \/ LoadForAttempt(o) \/ LoadForImmediate(o) \/ LoadForDiscard(o)
    <3>1. PICK from \in Outside, to \in Inside \ {"commit", "creating"} : Load(o, from, to)
      BY <2>4, InShape DEF MovesIn
    <3>2. ~Register(o)
      BY <1>0, <3>1, CapacityAssumption DEF Load, Register, Leave, SaveFails
    <3>3. Quiet
      BY <1>2, <3>2, RunQuiet DEF QueueInv
    <3>4. QED
      BY <1>0, <3>1, <3>3, LoadQueue
  <2>5. CASE \/ LeaseLockTimeout(o) \/ BeginRelease(o) \/ LockTimeout(o) \/ Wake(o)
             \/ ImmediateLockTaken(o) \/ DiscardGivesUp(o)
    <3>1. /\ pc[o] \in Outside /\ UNCHANGED <<ledger, mem, lock>>
          /\ \A x \in Ops \ {o} : pc'[x] = pc[x]
      BY <1>0, <2>5 DEF LeaseLockTimeout, BeginRelease, LockTimeout, Wake, TypeOK,
                        ImmediateLockTaken, DiscardGivesUp, worldVars, launchVars
    <3>2. Quiet
      BY <1>2, <3>1, RunQuiet DEF QueueInv, Register
    <3>3. lock # NoOp => lock \in Ops \ {o}
      BY <1>0, <3>1 DEF TypeOK, QueueInv, Exclusive
    <3>4. QED
      BY <1>0, <3>1, <3>2, <3>3, QuietQueue
  <2>6. CASE \/ RefuseLease(o) \/ GrantLease(o) \/ ReleaseLease(o) \/ RefuseRegister(o)
             \/ RefuseAttempt(o) \/ Postpone(o) \/ RefuseImmediate(o) \/ CommitRefused(o)
             \/ CreateFails(o) \/ FinishCommit(o) \/ Discard(o)
    <3>1. pc[o] \in Inside
      BY <2>6 DEF RefuseLease, GrantLease, ReleaseLease, RefuseRegister, RefuseAttempt,
                  Postpone, RefuseImmediate, CommitRefused, CreateFails, FinishCommit,
                  Discard
    <3>2. PICK l \in Ledger, next \in Outside : Leave(o, l, next)
      BY <1>0, <2>6, OutShape, GrantLeaseMove DEF CapInv, Accounts, MovesOut
    <3>3. pc'[o] \in Outside
      BY <1>0, <3>2 DEF Leave, TypeOK
    <3>4. QED
      BY <1>0, <1>2, <2>1, <3>1, <3>3, LeaveStepQueue
  <2>7. QED
    BY <1>2, <2>1, <2>2, <2>3, <2>4, <2>5, <2>6
    DEF Run, LeaseStep, QueueStep, CommitStep, DiscardStep
<1>3. ASSUME NEW o \in Ops, Cancel(o) PROVE Goal
  <2>1. /\ UNCHANGED <<ledger, lock, mem, clock, seq, due>>
        /\ \A x \in Ops \ {o} : pc'[x] = pc[x] /\ (x \in cancelled' <=> x \in cancelled)
        /\ \/ pc' = pc /\ (o \in cancelled' \/ pc[o] \in {"discard", "discarding"})
           \/ pc[o] = "asleep" /\ pc'[o] = "discard"
    BY <1>0, <1>3
    DEF Cancel, CancelInFlight, CancelAsleep, CancelDiscard, worldVars, TypeOK
  <2>2. Quiet
    BY <1>0, <2>1 DEF Quiet, Queuers, Fresh, Waiting, TypeOK
  <2>3. lock # NoOp => pc'[lock] = pc[lock]
    BY <1>0, <2>1 DEF QueueInv, Exclusive, TypeOK
  <2>4. QED
    BY <1>0, <2>1, <2>2, <2>3, QuietQueue
<1>4. ASSUME Tick \/ UNCHANGED vars PROVE Goal
  <2>1. UNCHANGED <<ledger, lock, mem, pc, seq, due, cancelled>> /\ clock <= clock'
    BY <1>0, <1>4 DEF Tick, vars, launchVars, TypeOK
  <2>2. Quiet
    BY <2>1 DEF Quiet, Queuers, Fresh, Waiting
  <2>3. QED
    BY <1>0, <2>1, <2>2, QuietQueue
<1>5. ASSUME NEW p \in Procs, Crash(p) PROVE Goal
  <2>1. /\ UNCHANGED <<ledger, clock, seq, due, cancelled>>
        /\ \A x \in Ops : pc'[x] = "dead" \/ pc'[x] = pc[x]
    BY <1>5 DEF Crash, launchVars
  <2>2. Quiet
    BY <1>0, <2>1 DEF Quiet, Queuers, Fresh, Waiting, TypeOK
  <2>3. CASE lock # NoOp /\ ProcOf[lock] = p
    <3>1. lock' = NoOp
      BY <1>5, <2>3 DEF Crash
    <3>2. SeqUnique'
      BY <1>0, <2>1, <2>2, <3>1, QuietSeq DEF QueueInv
    <3>3. \A w \in Waiting' : clock < due[w] => MyIntent(w) \in ledger'.intents
      BY <2>1, <2>2 DEF Quiet, QueueInv, PlaceKept
    <3>4. PlaceKept'
      BY <1>0, <2>2, <3>1, <3>3, QuietPlaces DEF QueueInv, TypeOK
    <3>5. QED
      BY <3>1, <3>2, <3>4 DEF CommitsFirst
  <2>4. CASE ~(lock # NoOp /\ ProcOf[lock] = p)
    <3>1. UNCHANGED <<ledger, mem, lock>> /\ (lock # NoOp => pc'[lock] = pc[lock])
      BY <1>0, <1>5, <2>4 DEF Crash, TypeOK
    <3>2. QED
      BY <1>0, <2>2, <3>1, QuietQueue
  <2>5. QED
    BY <2>3, <2>4
<1>6. ASSUME \/ \E p \in Procs : ReusePid(p)
             \/ \E j \in Jobs : JobStep(j)
      PROVE  Goal
  <2>1. UNCHANGED <<ledger, lock, mem, pc, clock, seq, due, cancelled>>
    BY <1>6 DEF ReusePid, JobStep, RunnerChecks, RunnerStarts, JobEnds,
                JobGoesStale, JobReconciled, JobMoves, launchVars
  <2>2. Quiet
    BY <1>0, <2>1 DEF Quiet, Queuers, Fresh, Waiting, TypeOK
  <2>3. QED
    BY <1>0, <2>1, <2>2, QuietQueue
<1>7. Goal
  BY <1>1, <1>2, <1>3, <1>4, <1>5, <1>6 DEF Next
<1>8. Exclusive' /\ Alive'
  BY AccountsStep DEF CapInv, Accounts
<1>9. QED
  BY <1>0, <1>7, <1>8 DEF QueueInv

LEMMA QueueInvInit == Init => QueueInv
<1> SUFFICES ASSUME Init PROVE QueueInv
  OBVIOUS
<1>1. Waiting = {}
  BY DEF Init, Waiting
<1>2. SeqUnique
  BY DEF Init, SeqUnique, NewLedger
<1>3. QED
  BY <1>1, <1>2, CapInvInit DEF Init, QueueInv, CapInv, CommitsFirst, PlaceKept

LEMMA QueueInvAlways == Spec => []QueueInv
BY CapInvAlways, QueueInvInit, QueueInvStep, PTL DEF Spec

(* A waiting launch never loses its place before its deadline, whoever         *)
(* reconciles or rewrites the ledger meanwhile.                                *)
THEOREM PlaceSafe == Spec => []PlaceKept
<1>1. QueueInv => PlaceKept
  BY DEF QueueInv
<1>2. QED
  BY <1>1, QueueInvAlways, PTL

LEMMA OnlyGrant ==
    ASSUME TypeOK, Next, NEW o \in Ops, pc[o] = "acquiring", pc'[o] = "holding"
    PROVE  GrantLease(o)
<1>1. ASSUME NEW x \in Ops, Run(x) PROVE GrantLease(o)
  <2>1. CASE LeaseStep(x)
    BY <2>1 DEF LeaseStep, LoadForLease, LoadForRelease, Load, LeaseLockTimeout,
                RefuseLease, GrantLease, BeginRelease, ReleaseLease, Leave, SaveFails, TypeOK
  <2>2. CASE QueueStep(x)
    BY <2>2 DEF QueueStep, LoadForRegister, LoadForAttempt, LoadForImmediate, Load,
                LockTimeout, RefuseRegister, Register, RefuseAttempt, Postpone, Wake,
                Admissible, ImmediateLockTaken, RefuseImmediate, AdmissibleNow, Refuse,
                Leave, SaveFails, TypeOK
  <2>3. CASE CommitStep(x) \/ DiscardStep(x)
    BY <2>3 DEF CommitStep, BeginCommit, CommitRefused, Create, CreateFails, FinishCommit,
                DiscardStep, LoadForDiscard, Load, Discard, DiscardGivesUp, AfterFailure,
                Leave, SaveFails, TypeOK
  <2>4. QED
    BY <1>1, <2>1, <2>2, <2>3 DEF Run
<1>2. ASSUME NEW x \in Ops, Request(x) \/ Cancel(x) PROVE FALSE
  BY <1>2 DEF Request, RequestLease, RequestLaunch, Cancel, CancelInFlight, CancelAsleep,
              CancelDiscard, TypeOK
<1>3. QED
  BY <1>1, <1>2
  DEF Next, Tick, Crash, ReusePid, JobStep, RunnerChecks, RunnerStarts, JobEnds,
      JobGoesStale, JobReconciled, JobMoves, TypeOK

(* Admission is first come, first served among unexpired waiters, and a stats  *)
(* lease never overtakes them.                                                 *)
THEOREM FifoSafe == Spec => NoOvertaking
<1> DEFINE Fair == \A o \in Ops : \A w \in Waiting \ {o} :
                      clock < due[w] =>
                         /\ Admits(o) => seq[o] # 0 /\ seq[o] < seq[w]
                         /\ ~LeasesStats(o)
<1>1. QueueInv /\ [Next]_vars => [Fair]_vars
  <2> SUFFICES ASSUME QueueInv, Next, NEW o \in Ops, NEW w \in Waiting \ {o}, clock < due[w]
               PROVE  /\ Admits(o) => seq[o] # 0 /\ seq[o] < seq[w]
                      /\ ~LeasesStats(o)
    OBVIOUS
  <2>0. TypeOK /\ w \in Ops /\ w # o /\ seq[w] # 0
    BY DEF QueueInv, Waiting
  <2>1. ASSUME Admits(o) PROVE seq[o] # 0 /\ seq[o] < seq[w]
    <3>1. pc[o] = "creating" /\ lock = o /\ lock # NoOp
      BY <2>1, CapacityAssumption DEF Admits, QueueInv, Exclusive
    <3>2. MyIntent(w) \in mem.intents /\ MyIntent(w).seq = seq[w]
      BY <3>1 DEF QueueInv, PlaceKept, MyIntent
    <3>3. seq[o] # 0 /\ seq[o] <= seq[w]
      BY <3>1, <3>2 DEF QueueInv, CommitsFirst, IsFirst
    <3>4. seq[o] # seq[w]
      BY <2>0, <3>3 DEF QueueInv, SeqUnique
    <3>5. QED
      BY <2>0, <3>3, <3>4 DEF TypeOK
  <2>2. ASSUME LeasesStats(o) PROVE FALSE
    <3>1. pc[o] = "acquiring" /\ pc'[o] = "holding" /\ o \in stats /\ lock = o /\ lock # NoOp
      BY <2>2, CapacityAssumption DEF LeasesStats, QueueInv, Exclusive
    <3>2. GrantLease(o)
      BY <2>0, <3>1, OnlyGrant
    <3>3. mem.intents = {}
      BY <3>1, <3>2 DEF GrantLease, LeaseRefusable
    <3>4. MyIntent(w) \in mem.intents
      BY <3>1 DEF QueueInv, PlaceKept
    <3>5. QED
      BY <3>3, <3>4
  <2>3. QED
    BY <2>1, <2>2
<1>2. QED
  BY <1>1, QueueInvAlways, PTL DEF Spec, NoOvertaking

-------------------------------------------------------------------------------
(* Leases do not leak *)

\* Leaving the section with a ledger that keeps nobody new and, of the caller,
\* only a lease it goes on holding.
LEMMA LeaveStrays ==
    ASSUME TypeOK, Exclusive, NoStrays, ~SaveMayFail, ~PidReuse,
           NEW o \in Ops, pc[o] \in Inside, NEW l \in Ledger, NEW next \in Outside,
           Leave(o, l, next), UNCHANGED pids,
           l.owners \ {o} \subseteq mem.owners \cup ledger.owners,
           o \in l.owners => \/ next \in Lease
                             \/ pc[o] # "releasing" /\ o \in mem.owners \cup ledger.owners
    PROVE  NoStrays'
<1>1. lock = o /\ lock # NoOp
  BY CapacityAssumption DEF Exclusive
<1>2. LiveOwners(mem) \subseteq Holders /\ LiveOwners(ledger) \subseteq Holders
  BY <1>1 DEF NoStrays
<1>3. pc' = [pc EXCEPT ![o] = next] /\ ledger' = l /\ lock' = NoOp
  BY DEF Leave
<1>4. ASSUME NEW x \in LiveOwners(l) PROVE x \in Holders'
  <2>1. x \in Ops /\ x \in l.owners /\ ProcOf[x] \in pids
    BY DEF LiveOwners, Ledger
  <2>2. CASE x # o
    <3>1. x \in Holders
      BY <1>2, <2>1, <2>2 DEF LiveOwners
    <3>2. QED
      BY <1>3, <2>1, <2>2, <3>1 DEF Holders, TypeOK
  <2>3. CASE x = o /\ next \in Lease
    BY <1>3, <2>1, <2>3 DEF Holders, Lease, TypeOK
  <2>4. CASE x = o /\ next \notin Lease
    <3>1. o \in Holders /\ pc[o] # "releasing"
      BY <1>2, <2>1, <2>4 DEF LiveOwners
    <3>2. QED
      BY <3>1 DEF Holders
  <2>5. QED
    BY <2>2, <2>3, <2>4
<1>5. LiveOwners(ledger)' \subseteq Holders'
  BY <1>3, <1>4 DEF LiveOwners
<1>6. QED
  BY <1>3, <1>5 DEF NoStrays

\* Whatever a call does in the critical section strands no owner.
LEMMA RunStrays ==
    ASSUME TypeOK, Exclusive, NoStrays, ~SaveMayFail, ~PidReuse, NEW o \in Ops, Run(o)
    PROVE  NoStrays'
<1>0. mem \in Ledger /\ ledger \in Ledger
  BY DEF TypeOK
<1>1. CASE \/ LeaseLockTimeout(o) \/ BeginRelease(o) \/ LockTimeout(o) \/ Wake(o)
           \/ ImmediateLockTaken(o) \/ DiscardGivesUp(o)
           \/ Admissible(o) \/ AdmissibleNow(o) \/ BeginCommit(o) \/ Create(o)
  <2>1. UNCHANGED <<ledger, lock, mem, pids>>
    BY <1>1 DEF LeaseLockTimeout, BeginRelease, LockTimeout, Wake, ImmediateLockTaken,
                DiscardGivesUp, Admissible, AdmissibleNow, BeginCommit, Create, worldVars
  <2>2. Holders' = Holders
    BY <1>1 DEF LeaseLockTimeout, BeginRelease, LockTimeout, Wake, ImmediateLockTaken,
                DiscardGivesUp, Admissible, AdmissibleNow, BeginCommit, Create, Holders, TypeOK
  <2>3. QED
    BY <2>1, <2>2 DEF NoStrays, LiveOwners
<1>2. CASE \/ LoadForLease(o) \/ LoadForRelease(o) \/ LoadForRegister(o)
           \/ LoadForAttempt(o) \/ LoadForImmediate(o) \/ LoadForDiscard(o)
  <2>1. PICK from \in Outside \ {"dead"}, to \in Inside \ {"commit", "creating", "created"} :
            Load(o, from, to) /\ (from \in Lease <=> to \in Lease)
    BY <1>2, InShape DEF MovesIn
  <2>2. /\ pc[o] = from /\ pc' = [pc EXCEPT ![o] = to]
        /\ mem' = Reconciled(ledger) /\ UNCHANGED <<ledger, pids>>
    BY <2>1 DEF Load
  <2>3. Holders' = Holders
    BY <2>1, <2>2 DEF Holders, Lease, TypeOK
  <2>4. mem'.owners = LiveOwners(ledger)
    BY <1>0, <2>2, ReconciledFields
  <2>5. QED
    BY <2>2, <2>3, <2>4 DEF NoStrays, LiveOwners
<1>3. CASE RefuseLease(o)
  BY <1>0, <1>3, LeaveStrays DEF RefuseLease, SaveFails, worldVars
<1>4. CASE GrantLease(o)
  <2> DEFINE granted == [mem EXCEPT !.owners = mem.owners \cup {o}]
  <2>1. granted \in Ledger /\ granted.owners = mem.owners \cup {o}
    BY <1>0, WithOwners DEF Ledger
  <2>2. Leave(o, granted, "holding") /\ pc[o] = "acquiring" /\ UNCHANGED pids
    BY <1>4 DEF GrantLease, SaveFails, worldVars
  <2> HIDE DEF granted
  <2>3. QED
    BY <2>1, <2>2, LeaveStrays DEF Lease
<1>5. CASE ReleaseLease(o)
  <2> DEFINE freed == [mem EXCEPT !.owners = mem.owners \ {o}]
  <2>1. freed \in Ledger /\ freed.owners = mem.owners \ {o}
    BY <1>0, WithOwners DEF Ledger
  <2>2. Leave(o, freed, "ended") /\ pc[o] = "releasing" /\ UNCHANGED pids
    BY <1>5 DEF ReleaseLease, SaveFails, worldVars
  <2> HIDE DEF freed
  <2>3. QED
    BY <2>1, <2>2, LeaveStrays
<1>6. CASE RefuseRegister(o) \/ RefuseAttempt(o) \/ RefuseImmediate(o)
  <2>1. PICK r : Refuse(o, r)
    BY <1>6 DEF RefuseRegister, RefuseAttempt, RefuseImmediate
  <2>2. pc[o] \in {"registering", "deciding", "decidingNow"}
    BY <1>6 DEF RefuseRegister, RefuseAttempt, RefuseImmediate
  <2>3. \E next \in Outside : Leave(o, mem, next) /\ UNCHANGED pids
    BY <2>1 DEF Refuse, SaveFails, worldVars
  <2>4. QED
    BY <1>0, <2>2, <2>3, LeaveStrays
<1>7. CASE Register(o)
  <2>1. /\ AppendIntent(mem, o) \in Ledger
        /\ AppendIntent(mem, o).owners = mem.owners
    BY AppendIntentFields DEF TypeOK
  <2>2. /\ pc[o] = "registering" /\ UNCHANGED pids
        /\ \E next \in Outside : Leave(o, AppendIntent(mem, o), next)
    BY <1>7 DEF Register, SaveFails, worldVars
  <2>3. QED
    BY <2>1, <2>2, LeaveStrays
<1>8. CASE Postpone(o)
  <2>1. /\ pc[o] = "deciding" /\ UNCHANGED pids
        /\ \E next \in Outside : Leave(o, mem, next)
    BY <1>8 DEF Postpone, SaveFails, worldVars
  <2>2. QED
    BY <1>0, <2>1, LeaveStrays
<1>9. CASE CommitRefused(o) \/ CreateFails(o)
  <2>1. /\ pc[o] \in {"commit", "creating"} /\ UNCHANGED pids
        /\ \E next \in Outside : Leave(o, ledger, next)
    BY <1>9 DEF CommitRefused, CreateFails, AfterFailure, worldVars
  <2>2. QED
    BY <1>0, <2>1, LeaveStrays
<1>10. CASE FinishCommit(o)
  <2> DEFINE settled == RemoveIntent(Reconciled(mem), o)
  <2>1. settled \in Ledger /\ settled.owners = LiveOwners(mem)
    BY <1>0, ReconciledFields, RemoveIntentFields
  <2>2. Leave(o, settled, "ended") /\ pc[o] = "created" /\ UNCHANGED pids
    BY <1>10 DEF FinishCommit, SaveFails
  <2> HIDE DEF settled
  <2>3. settled.owners \subseteq mem.owners
    BY <2>1 DEF LiveOwners
  <2>4. QED
    BY <2>1, <2>2, <2>3, LeaveStrays
<1>11. CASE Discard(o)
  <2>1. RemoveIntent(mem, o) \in Ledger /\ RemoveIntent(mem, o).owners = mem.owners
    BY <1>0, RemoveIntentFields
  <2>2. Leave(o, RemoveIntent(mem, o), "ended") /\ pc[o] = "discarding" /\ UNCHANGED pids
    BY <1>11 DEF Discard, SaveFails, worldVars
  <2>3. QED
    BY <2>1, <2>2, LeaveStrays
<1>12. QED
  BY <1>1, <1>2, <1>3, <1>4, <1>5, <1>6, <1>7, <1>8, <1>9, <1>10, <1>11
  DEF Run, LeaseStep, QueueStep, CommitStep, DiscardStep

LEMMA NoStraysStep ==
    ASSUME TypeOK, Exclusive, NoStrays, [Next]_vars
    PROVE  NoStrays'
<1> SUFFICES ASSUME ~SaveMayFail, ~PidReuse PROVE NoStrays'
  BY DEF NoStrays
<1>1. ASSUME NEW o \in Ops, Run(o) PROVE NoStrays'
  BY <1>1, RunStrays
<1>2. ASSUME NEW o \in Ops, Request(o) \/ Cancel(o) PROVE NoStrays'
  <2>1. UNCHANGED <<ledger, lock, mem, pids>>
    BY <1>2 DEF Request, RequestLease, RequestLaunch, Cancel, CancelInFlight, CancelAsleep,
                CancelDiscard, worldVars
  <2>2. Holders' = Holders
    BY <1>2 DEF Request, RequestLease, RequestLaunch, Cancel, CancelInFlight, CancelAsleep,
                CancelDiscard, Holders, TypeOK
  <2>3. QED
    BY <2>1, <2>2 DEF NoStrays, LiveOwners
<1>3. ASSUME NEW p \in Procs, Crash(p) PROVE NoStrays'
  <2>1. /\ pids' = pids \ {p} /\ ledger' = ledger
        /\ pc' = [x \in Ops |-> IF ProcOf[x] = p THEN "dead" ELSE pc[x]]
        /\ lock' # NoOp => lock' = lock /\ mem' = mem
    BY <1>3 DEF Crash
  <2>2. \A x \in Holders : ProcOf[x] \in pids' => x \in Holders'
    BY <2>1 DEF Holders
  <2>3. QED
    BY <2>1, <2>2 DEF NoStrays, LiveOwners
<1>4. CASE \/ Tick \/ UNCHANGED vars \/ \E p \in Procs : ReusePid(p)
           \/ \E j \in Jobs : JobStep(j)
  <2>1. UNCHANGED <<ledger, lock, mem, pids, pc>>
    BY <1>4 DEF Tick, vars, ReusePid, JobStep, RunnerChecks, RunnerStarts,
                JobEnds, JobGoesStale, JobReconciled, JobMoves
  <2>2. QED
    BY <2>1 DEF NoStrays, LiveOwners, Holders
<1>5. QED
  BY <1>1, <1>2, <1>3, <1>4 DEF Next

\* With the lock free, the two inclusions together.
LEMMA NoLeaseLeaksInv == CapInv /\ NoStrays => NoLeaseLeaks
<1> SUFFICES ASSUME CapInv, NoStrays, lock = NoOp, ~SaveMayFail, ~PidReuse
             PROVE  LiveOwners(ledger) = Holders
  BY DEF NoLeaseLeaks
<1>1. LiveOwners(ledger) \subseteq Holders
  BY DEF NoStrays
<1>2. Holders \subseteq LiveOwners(ledger)
  BY DEF CapInv, HoldersOnFile, Alive, Holders, LiveOwners
<1>3. QED
  BY <1>1, <1>2

(* No lease leaks: while saves succeed and pids are not reused, whenever the    *)
(* lock is free the owners that the next reconciliation will keep are exactly   *)
(* the operations still holding a lease.                                        *)
THEOREM LeasesSafe == Spec => []NoLeaseLeaks
<1>1. Init => NoStrays
  BY CapacityAssumption DEF Init, NoStrays, LiveOwners, NewLedger
<1>2. CapInv /\ NoStrays /\ [Next]_vars => NoStrays'
  BY NoStraysStep DEF CapInv
<1>3. QED
  BY <1>1, <1>2, CapInvAlways, NoLeaseLeaksInv, PTL DEF Spec

-------------------------------------------------------------------------------
(* Answers are true *)

\* What OutcomeKnown says of one call.
Known(o) ==
    /\ pc[o] \in {"creating", "created"} => o \notin cancelled
    /\ pc[o] \notin Answered => outcome[o] = "none"
    /\ pc[o] \in {"discard", "discarding"} => outcome[o] # "admitted"
    /\ pc[o] \notin Answered => (made[o] # NoJob <=> pc[o] = "created")
    /\ pc[o] \in Answered \ {"dead"} =>
          /\ outcome[o] \in {"busy", "timeout"} => made[o] = NoJob
          /\ outcome[o] = "admitted" => made[o] # NoJob
          /\ ~SaveMayFail /\ outcome[o] # "admitted" => made[o] = NoJob

\* A call in the middle of its work leaves without a Job, whatever it reports.
LEMMA AnswerKnown ==
    ASSUME TypeOK, NEW o \in Ops, Known(o), pc[o] \notin Answered \cup {"created"},
           NEW next \in Outside, NEW r \in Outcomes \ {"admitted"},
           pc' = [pc EXCEPT ![o] = next], outcome' = [outcome EXCEPT ![o] = r],
           next \notin Answered => r = "none",
           UNCHANGED made
    PROVE  Known(o)'
BY DEF Known, Answered, TypeOK

\* The steps of o itself.
LEMMA RunKnown ==
    ASSUME TypeOK, NEW o \in Ops, Known(o), Request(o) \/ Run(o) \/ Cancel(o)
    PROVE  Known(o)'
<1>0. \A r \in {"busy", "timeout", "error", "none", "cancelled"} : Fate(o, r) \in Outcomes \ {"admitted"}
  BY DEF Fate, Outcomes
<1>1. CASE LeaseStep(o) \/ Request(o)
  BY <1>1
  DEF LeaseStep, LoadForLease, LoadForRelease, Load, LeaseLockTimeout, RefuseLease,
      GrantLease, BeginRelease, ReleaseLease, Leave, SaveFails, Request, RequestLease,
      RequestLaunch, Known, Answered, TypeOK, launchVars
<1>2. CASE \/ LoadForRegister(o) \/ LoadForAttempt(o) \/ LoadForImmediate(o)
           \/ LoadForDiscard(o) \/ Wake(o) \/ DiscardGivesUp(o)
           \/ Admissible(o) \/ AdmissibleNow(o) \/ BeginCommit(o)
  BY <1>2
  DEF LoadForRegister, LoadForAttempt, LoadForImmediate, LoadForDiscard, Load, Wake,
      DiscardGivesUp, Admissible, AdmissibleNow, BeginCommit, Known, Answered, TypeOK,
      launchVars
<1>3. CASE LockTimeout(o) \/ ImmediateLockTaken(o)
  BY <1>0, <1>3, AnswerKnown DEF LockTimeout, ImmediateLockTaken, Answered
<1>4. CASE RefuseRegister(o) \/ RefuseAttempt(o) \/ RefuseImmediate(o)
  <2>1. PICK r \in {"busy", "timeout"} : Refuse(o, r)
    BY <1>4 DEF RefuseRegister, RefuseAttempt, RefuseImmediate
  <2>2. pc[o] \in {"registering", "deciding", "decidingNow"}
    BY <1>4 DEF RefuseRegister, RefuseAttempt, RefuseImmediate
  <2>3. /\ pc' = [pc EXCEPT ![o] = IF seq[o] = 0 THEN "ended" ELSE "discard"]
        /\ UNCHANGED made
        /\ \E a \in Outcomes \ {"admitted"} : outcome' = [outcome EXCEPT ![o] = a]
    BY <2>1, <1>0 DEF Refuse, Leave, SaveFails, Outcomes
  <2>4. QED
    BY <2>2, <2>3, AnswerKnown DEF Answered
<1>5. CASE Register(o)
  <2>1. \E next \in Outside, a \in Outcomes \ {"admitted"} :
           /\ pc' = [pc EXCEPT ![o] = next] /\ outcome' = [outcome EXCEPT ![o] = a]
           /\ next \notin Answered => a = "none"
    BY <1>5, <1>0 DEF Register, Leave, SaveFails, Answered, Fate
  <2>2. QED
    BY <1>5, <2>1, AnswerKnown DEF Register, Answered
<1>6. CASE Postpone(o)
  <2>1. \E next \in Outside, a \in Outcomes \ {"admitted"} :
           /\ pc' = [pc EXCEPT ![o] = next] /\ outcome' = [outcome EXCEPT ![o] = a]
           /\ next \notin Answered => a = "none"
    BY <1>6, <1>0 DEF Postpone, Leave, SaveFails, Answered, Fate, Outcomes
  <2>2. QED
    BY <1>6, <2>1, AnswerKnown DEF Postpone, Answered
<1>7. CASE CommitRefused(o) \/ CreateFails(o)
  <2>1. \E next \in {"ended", "discard"}, a \in Outcomes \ {"admitted"} :
           pc' = [pc EXCEPT ![o] = next] /\ outcome' = [outcome EXCEPT ![o] = a]
    BY <1>7, <1>0 DEF CommitRefused, CreateFails, Leave, AfterFailure, Outcomes
  <2>2. pc[o] \in {"commit", "creating"} /\ UNCHANGED made
    BY <1>7 DEF CommitRefused, CreateFails
  <2>3. QED
    BY <2>1, <2>2, AnswerKnown DEF Answered
<1>8. CASE Create(o)
  BY <1>8, CapacityAssumption DEF Create, Known, Answered, TypeOK
<1>9. CASE FinishCommit(o)
  BY <1>9 DEF FinishCommit, Fate, Leave, SaveFails, AfterFailure, Known, Answered, TypeOK
<1>10. CASE Discard(o)
  BY <1>10 DEF Discard, Leave, SaveFails, Known, Answered, TypeOK
<1>11. CASE Cancel(o)
  BY <1>11 DEF Cancel, CancelInFlight, CancelAsleep, CancelDiscard, Known, Answered, TypeOK
<1>12. QED
  BY <1>1, <1>2, <1>3, <1>4, <1>5, <1>6, <1>7, <1>8, <1>9, <1>10, <1>11
  DEF Run, QueueStep, CommitStep, DiscardStep

\* A step of one call leaves the other calls' state alone.
LEMMA OthersUntouched ==
    ASSUME TypeOK, NEW o \in Ops, NEW x \in Ops, x # o, Request(x) \/ Run(x) \/ Cancel(x)
    PROVE  /\ pc'[o] = pc[o] /\ outcome'[o] = outcome[o] /\ made'[o] = made[o]
           /\ o \in cancelled' <=> o \in cancelled
<1>1. CASE LeaseStep(x) \/ Request(x) \/ Cancel(x)
  BY <1>1
  DEF LeaseStep, LoadForLease, LoadForRelease, Load, LeaseLockTimeout, RefuseLease,
      GrantLease, BeginRelease, ReleaseLease, Leave, SaveFails, Request, RequestLease,
      RequestLaunch, Cancel, CancelInFlight, CancelAsleep, CancelDiscard, TypeOK, launchVars
<1>2. CASE QueueStep(x)
  BY <1>2 DEF QueueStep, LoadForRegister, LoadForAttempt, LoadForImmediate, Load,
              LockTimeout, RefuseRegister, Register, RefuseAttempt, Postpone, Wake,
              Admissible, ImmediateLockTaken, RefuseImmediate, AdmissibleNow, Refuse,
              Leave, SaveFails, TypeOK, launchVars
<1>3. CASE CommitStep(x) \/ DiscardStep(x)
  BY <1>3 DEF CommitStep, BeginCommit, CommitRefused, Create, CreateFails, FinishCommit,
              DiscardStep, LoadForDiscard, Load, Discard, DiscardGivesUp, AfterFailure,
              Leave, SaveFails, TypeOK, launchVars
<1>4. QED
  BY <1>1, <1>2, <1>3 DEF Run

LEMMA OutcomeKnownStep ==
    ASSUME TypeOK, OutcomeKnown, [Next]_vars
    PROVE  OutcomeKnown'
<1> SUFFICES ASSUME NEW o \in Ops PROVE Known(o)'
  BY DEF OutcomeKnown, Known
<1>0. Known(o)
  BY DEF OutcomeKnown, Known
<1>1. CASE Request(o) \/ Run(o) \/ Cancel(o)
  BY <1>0, <1>1, RunKnown
<1>2. ASSUME NEW x \in Ops, x # o, Request(x) \/ Run(x) \/ Cancel(x) PROVE Known(o)'
  BY <1>0, <1>2, OthersUntouched DEF Known
<1>3. ASSUME NEW p \in Procs, Crash(p) PROVE Known(o)'
  BY <1>0, <1>3 DEF Crash, Known, Answered, TypeOK, launchVars
<1>4. CASE \/ Tick \/ UNCHANGED vars \/ \E p \in Procs : ReusePid(p)
           \/ \E j \in Jobs : JobStep(j)
  BY <1>0, <1>4
  DEF Tick, vars, ReusePid, JobStep, RunnerChecks, RunnerStarts, JobEnds,
      JobGoesStale, JobReconciled, JobMoves, Known, launchVars
<1>5. QED
  BY <1>1, <1>2, <1>3, <1>4 DEF Next

LEMMA OutcomeInvAlways == Spec => []OutcomeInv
<1>1. Init => OutcomeInv
  BY TypeInit DEF Init, OutcomeInv, OutcomeKnown, Answered
<1>2. OutcomeInv /\ [Next]_vars => OutcomeInv'
  BY TypeStep, OutcomeKnownStep DEF OutcomeInv
<1>3. QED
  BY <1>1, <1>2, PTL DEF Spec

(* What a finished launch reports agrees with the Job it left on disk, for      *)
(* every interleaving of refusals, deadlines, cancellations and failed saves.   *)
THEOREM OutcomesTrue == Spec => []OutcomeMatchesJob
<1>1. OutcomeInv => OutcomeMatchesJob
  BY DEF OutcomeInv, OutcomeKnown, OutcomeMatchesJob, Answered
<1>2. QED
  BY <1>1, OutcomeInvAlways, PTL

===============================================================================
