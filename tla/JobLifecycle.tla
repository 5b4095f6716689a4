----------------------------- MODULE JobLifecycle -----------------------------
(***************************************************************************)
(* The life of one Job: dispatch/runner.py, launched detached and owning   *)
(* the manifest, against everybody else who writes it: the launcher        *)
(* (job_ops.execute_launch), cancel_job, and the reconcilers of stale Jobs *)
(* (jobs.reconcile_manifest in every TUI, CLI call and launch).            *)
(*                                                                         *)
(* All of them write the manifest under .manifest.lock, but only the       *)
(* reconcilers compare it with what they had loaded.  A client's locked    *)
(* load-and-replace is one step; the runner's is three, because the        *)
(* SIGTERM handler runs between two bytecodes of the very thread that      *)
(* holds the lock.                                                         *)
(***************************************************************************)
EXTENDS Naturals

CONSTANTS
    Cancellers,   \* calls of cancel_job, each made at most once
    Reconcilers,  \* processes that reconcile stale Jobs again and again
    Calls,        \* number of orchestrator calls in the manifest
    SlowBoot      \* whether a live runner may take longer to start than the grace

ASSUME LifecycleAssumption ==
    /\ Cancellers \cap Reconcilers = {}
    /\ Calls \in Nat \ {0}
    /\ SlowBoot \in BOOLEAN

Clients == Cancellers \cup Reconcilers

VARIABLES
    file,     \* manifest.json: its state, and whether a pid is recorded
    lock,     \* .manifest.lock: "free", or held by the runner's "main" thread
    age,      \* "old" once the manifest has been Pending for PENDING_ORPHAN_GRACE
    launcher, \* how far the launching process has come
    proc,     \* the runner process
    pc,       \* where its main thread is
    done,     \* orchestrator calls that have succeeded
    verdict,  \* the terminal state the main thread is about to write
    sig,      \* SIGTERM at the runner
    handler,  \* where _handle_sigterm is
    child,    \* the orchestrator process, in the runner's process group
    cpc,      \* where each client is
    snap      \* the manifest each client loaded

runnerVars == <<lock, proc, pc, done, verdict>>
signalVars == <<sig, handler>>
clientVars == <<cpc, snap>>
vars == <<file, age, launcher, runnerVars, signalVars, child, clientVars>>

Terminal == {"Succeeded", "Failed", "Cancelled"}
States == {"absent", "Pending", "Running"} \cup Terminal
Manifest == [state : States, pid : {"none", "runner"}]

MainPcs == {"unborn", "boot", "armed", "runLocked", "runWritten", "next", "forked",
            "waiting", "end", "endLocked", "endWritten", "leaving"}

\* What the manifest, the runner and its clients can be.
TypeOK ==
    /\ file \in Manifest
    /\ lock \in {"free", "main"}
    /\ age \in {"young", "old"}
    /\ launcher \in {"new", "created", "failing", "finished"}
    /\ proc \in {"none", "alive", "zombie", "gone"}
    /\ pc \in MainPcs
    /\ done \in 0..Calls
    /\ verdict \in {"none", "Succeeded", "Failed"}
    /\ sig \in {"none", "pending", "ignored"}
    /\ handler \in {"idle", "lock", "kill", "reap", "wait", "exit"}
    /\ child \in {"none", "forked", "alive", "termed", "killed", "ok", "bad"}
    /\ cpc \in [Clients -> {"idle", "cancelPending", "signal", "reload", "probe",
                            "apply", "cancelled", "done"}]
    /\ snap \in [Clients -> Manifest]

ChildLives == child \in {"forked", "alive", "termed", "killed"}

\* pid_is_alive: an exited runner its parent has not reaped still answers.
PidIsAlive == proc \in {"alive", "zombie"}
GroupExists == PidIsAlive \/ child # "none"

-------------------------------------------------------------------------------
(* The launcher *)

CreatePending ==
    /\ launcher = "new"
    /\ launcher' = "created"
    /\ file' = [state |-> "Pending", pid |-> "none"]
    /\ UNCHANGED <<age, runnerVars, signalVars, child, clientVars>>

\* nohup setsid python -m dispatch.runner
LaunchRunner ==
    /\ launcher = "created"
    /\ launcher' = "finished"
    /\ proc' = "alive"
    /\ pc' = "boot"
    /\ UNCHANGED <<file, age, lock, done, verdict, signalVars, child, clientVars>>

LaunchFails ==
    /\ launcher = "created"
    /\ launcher' = "failing"
    /\ UNCHANGED <<file, age, runnerVars, signalVars, child, clientVars>>

\* mark_runner_handoff_failed writes whatever the manifest says by now.
MarkHandoffFailed ==
    /\ launcher = "failing"
    /\ launcher' = "finished"
    /\ file' = [file EXCEPT !.state = "Failed"]
    /\ UNCHANGED <<age, runnerVars, signalVars, child, clientVars>>

\* Between the commit and the handoff nobody but the grace period looks after
\* the Job.
LauncherDies ==
    /\ launcher \in {"created", "failing"}
    /\ launcher' = "finished"
    /\ UNCHANGED <<file, age, runnerVars, signalVars, child, clientVars>>

\* Five minutes are ample for a runner to start, unless SlowBoot.
GraceExpires ==
    /\ file.state = "Pending"
    /\ SlowBoot \/ (launcher = "finished" /\ proc # "alive")
    /\ age' = "old"
    /\ UNCHANGED <<file, launcher, runnerVars, signalVars, child, clientVars>>

-------------------------------------------------------------------------------
(* runner.run, in the main thread *)

\* The main thread runs unless a signal is about to be, or is being, handled.
MainRuns == proc = "alive" /\ sig # "pending" /\ handler = "idle"

Boot ==
    /\ MainRuns /\ pc = "boot"
    /\ IF file.state = "Pending"
       THEN pc' = "armed" /\ UNCHANGED proc
       ELSE proc' = "zombie" /\ UNCHANGED pc
    /\ UNCHANGED <<file, age, launcher, lock, done, verdict, signalVars, child,
                   clientVars>>

\* manifest.update: take the lock, write, let go.
LockManifest(from, to) ==
    /\ MainRuns /\ pc = from
    /\ lock' = "main"
    /\ pc' = to
    /\ UNCHANGED <<file, age, launcher, proc, done, verdict, signalVars, child,
                   clientVars>>

WriteManifest(from, to, item) ==
    /\ MainRuns /\ pc = from
    /\ file' = item
    /\ pc' = to
    /\ UNCHANGED <<age, launcher, lock, proc, done, verdict, signalVars, child,
                   clientVars>>

UnlockManifest(from, to) ==
    /\ MainRuns /\ pc = from
    /\ lock' = "free"
    /\ pc' = to
    /\ UNCHANGED <<file, age, launcher, proc, done, verdict, signalVars, child,
                   clientVars>>

\* The state loaded at boot is not looked at again.
UpdateRunning ==
    \/ LockManifest("armed", "runLocked")
    \/ WriteManifest("runLocked", "runWritten", [state |-> "Running", pid |-> "runner"])
    \/ UnlockManifest("runWritten", "next")

\* (Mutant: one call too many.)
SpawnOneMore ==
    /\ proc = "alive" /\ handler = "idle" /\ pc = "next"
    /\ done <= Calls
    /\ pc' = "forked"
    /\ child' = "forked"
    /\ UNCHANGED <<file, age, launcher, lock, proc, done, verdict, signalVars,
                   clientVars>>

\* A SIGTERM that arrives while Popen forks is handled once Popen is back in
\* Python: the fork happens all the same.
Spawn ==
    /\ proc = "alive" /\ handler = "idle" /\ pc = "next"
    /\ done < Calls
    /\ pc' = "forked"
    /\ child' = "forked"
    /\ UNCHANGED <<file, age, launcher, lock, proc, done, verdict, signalVars,
                   clientVars>>

SpawnFails ==
    /\ MainRuns /\ pc = "next"
    /\ done < Calls
    /\ pc' = "end"
    /\ verdict' = "Failed"
    /\ UNCHANGED <<file, age, launcher, lock, proc, done, signalVars, child,
                   clientVars>>

\* Popen has returned: CURRENT_PROC is set.
Track ==
    /\ MainRuns /\ pc = "forked"
    /\ child # "forked"
    /\ pc' = "waiting"
    /\ UNCHANGED <<file, age, launcher, lock, proc, done, verdict, signalVars,
                   child, clientVars>>

CallSucceeds ==
    /\ MainRuns /\ pc = "waiting" /\ child = "ok"
    /\ pc' = "next"
    /\ done' = done + 1
    /\ child' = "none"
    /\ UNCHANGED <<file, age, launcher, lock, proc, verdict, signalVars,
                   clientVars>>

\* (Mutant: a failed call ends the loop and falls through to Succeeded.)
CallFailureForgotten ==
    /\ MainRuns /\ pc = "waiting" /\ child = "bad"
    /\ pc' = "end"
    /\ verdict' = "Succeeded"
    /\ child' = "none"
    /\ UNCHANGED <<file, age, launcher, lock, proc, done, signalVars, clientVars>>

CallFails ==
    /\ MainRuns /\ pc = "waiting" /\ child = "bad"
    /\ pc' = "end"
    /\ verdict' = "Failed"
    /\ child' = "none"
    /\ UNCHANGED <<file, age, launcher, lock, proc, done, signalVars, clientVars>>

AllCallsDone ==
    /\ MainRuns /\ pc = "next"
    /\ done = Calls
    /\ pc' = "end"
    /\ verdict' = "Succeeded"
    /\ UNCHANGED <<file, age, launcher, lock, proc, done, signalVars, child,
                   clientVars>>

UpdateTerminal ==
    \/ LockManifest("end", "endLocked")
    \/ WriteManifest("endLocked", "endWritten", [file EXCEPT !.state = verdict])
    \/ UnlockManifest("endWritten", "leaving")

Exit ==
    /\ MainRuns /\ pc = "leaving"
    /\ proc' = "zombie"
    /\ UNCHANGED <<file, age, launcher, lock, pc, done, verdict, signalVars, child,
                   clientVars>>

-------------------------------------------------------------------------------
(* _handle_sigterm, on top of the main thread *)

HandlerStarts ==
    /\ proc = "alive" /\ sig = "pending"
    /\ sig' = "ignored"
    /\ handler' = "lock"
    /\ UNCHANGED <<file, age, launcher, runnerVars, child, clientVars>>

\* A second descriptor of the same lock file: if the main thread holds the lock,
\* this waits for a thread that will not run again.
HandlerCancels ==
    /\ proc = "alive" /\ handler = "lock"
    /\ lock = "free"
    /\ file' = [file EXCEPT !.state = "Cancelled"]
    /\ handler' = "kill"
    /\ UNCHANGED <<age, launcher, runnerVars, sig, child, clientVars>>

\* CURRENT_PROC is known from Track on.
HandlerTerminates ==
    /\ proc = "alive" /\ handler = "kill"
    /\ handler' = IF pc = "waiting" THEN "reap" ELSE "exit"
    /\ child' = IF pc = "waiting" /\ child = "alive" THEN "termed" ELSE child
    /\ UNCHANGED <<file, age, launcher, runnerVars, sig, clientVars>>

\* waitpid(WNOHANG), every 0.1 s.
HandlerPolls ==
    /\ proc = "alive" /\ handler = "reap"
    /\ ~ChildLives
    /\ handler' = "exit"
    /\ child' = "none"
    /\ UNCHANGED <<file, age, launcher, runnerVars, sig, clientVars>>

\* (Mutant: after ten seconds the handler gives up waiting.)
HandlerGivesUp ==
    /\ proc = "alive" /\ handler = "reap"
    /\ handler' = "exit"
    /\ UNCHANGED <<file, age, launcher, runnerVars, sig, child, clientVars>>

\* The ten seconds are over: SIGKILL, whether or not it has exited by now.
HandlerKills ==
    /\ proc = "alive" /\ handler = "reap"
    /\ handler' = "wait"
    /\ child' = IF ChildLives THEN "killed" ELSE child
    /\ UNCHANGED <<file, age, launcher, runnerVars, sig, clientVars>>

\* waitpid, for as long as it takes.
HandlerWaits ==
    /\ proc = "alive" /\ handler = "wait"
    /\ ~ChildLives
    /\ handler' = "exit"
    /\ child' = "none"
    /\ UNCHANGED <<file, age, launcher, runnerVars, sig, clientVars>>

HandlerExits ==
    /\ proc = "alive" /\ handler = "exit"
    /\ proc' = "zombie"
    /\ UNCHANGED <<file, age, launcher, lock, pc, done, verdict, signalVars, child,
                   clientVars>>

-------------------------------------------------------------------------------
(* Processes *)

Exec ==
    /\ child = "forked"
    /\ child' = "alive"
    /\ UNCHANGED <<file, age, launcher, runnerVars, signalVars, clientVars>>

\* An orphan is reaped by init.
ChildExits ==
    /\ child \in {"alive", "termed", "killed"}
    /\ child' \in IF proc # "alive" THEN {"none"}
                  ELSE IF child = "alive" THEN {"ok", "bad"} ELSE {"bad"}
    /\ UNCHANGED <<file, age, launcher, runnerVars, signalVars, clientVars>>

\* SIGKILL, the OOM killer, a node reboot.
RunnerCrashes ==
    /\ proc = "alive"
    /\ proc' = "zombie"
    /\ lock' = "free"
    /\ child' = IF child \in {"ok", "bad"} THEN "none" ELSE child
    /\ UNCHANGED <<file, age, launcher, pc, done, verdict, signalVars, clientVars>>

Reaped ==
    /\ proc = "zombie"
    /\ proc' = "gone"
    /\ UNCHANGED <<file, age, launcher, lock, pc, done, verdict, signalVars, child,
                   clientVars>>

-------------------------------------------------------------------------------
(* cancel_job *)

CancelLoads(c) ==
    /\ cpc[c] = "idle"
    /\ file.state # "absent"
    /\ snap' = [snap EXCEPT ![c] = file]
    /\ cpc' = [cpc EXCEPT ![c] =
           IF file.state = "Pending" /\ file.pid = "none" THEN "cancelPending"
           ELSE IF file.state \in {"Pending", "Running"} /\ file.pid = "runner" THEN "signal"
           ELSE "done"]
    /\ UNCHANGED <<file, age, launcher, runnerVars, signalVars, child>>

\* manifest.update, whatever the manifest says by now.
CancelsPending(c) ==
    /\ cpc[c] = "cancelPending"
    /\ lock = "free"
    /\ file' = [file EXCEPT !.state = "Cancelled"]
    /\ cpc' = [cpc EXCEPT ![c] = "cancelled"]
    /\ UNCHANGED <<age, launcher, runnerVars, signalVars, child, snap>>

\* killpg reaches the runner and its orchestrator; a child that has not
\* exec'd yet swallows the signal with the handler it inherited.
Signals(c) ==
    /\ cpc[c] = "signal"
    /\ GroupExists
    /\ sig' = IF proc = "alive" /\ sig = "none" THEN "pending" ELSE sig
    /\ child' = IF child = "alive" THEN "termed" ELSE child
    /\ cpc' = [cpc EXCEPT ![c] = "done"]
    /\ UNCHANGED <<file, age, launcher, runnerVars, handler, snap>>

SignalMissing(c) ==
    /\ cpc[c] = "signal"
    /\ ~GroupExists
    /\ cpc' = [cpc EXCEPT ![c] = "reload"]
    /\ UNCHANGED <<file, age, launcher, runnerVars, signalVars, child, snap>>

-------------------------------------------------------------------------------
(* reconcile_manifest *)

Rest(c) == IF c \in Reconcilers THEN "idle" ELSE "done"

\* The snapshot may be as old as the cache entry; nothing below trusts it.
ReconcileLoads(c) ==
    /\ cpc[c] = "reload" \/ (c \in Reconcilers /\ cpc[c] = "idle")
    /\ file.state # "absent"
    /\ snap' = [snap EXCEPT ![c] = file]
    /\ cpc' = [cpc EXCEPT ![c] = "probe"]
    /\ UNCHANGED <<file, age, launcher, runnerVars, signalVars, child>>

\* (Mutants: a Running Job is not probed; a Pending one has no grace; a Pending
\* one is left alone.)
StaleUnprobed(item) ==
    \/ item.state = "Running"
    \/ item.state = "Pending" /\ item.pid = "none" /\ age = "old"
StaleWithoutGrace(item) ==
    \/ item.state = "Running" /\ item.pid = "runner" /\ ~PidIsAlive
    \/ item.state = "Pending" /\ item.pid = "none"
StaleRunningOnly(item) ==
    item.state = "Running" /\ item.pid = "runner" /\ ~PidIsAlive
\* job_lifecycle.reconcile
Stale(item) ==
    \/ item.state = "Running" /\ item.pid = "runner" /\ ~PidIsAlive
    \/ item.state = "Pending" /\ item.pid = "none" /\ age = "old"

Probes(c) ==
    /\ cpc[c] = "probe"
    /\ cpc' = [cpc EXCEPT ![c] = IF Stale(snap[c]) THEN "apply" ELSE Rest(c)]
    /\ UNCHANGED <<file, age, launcher, runnerVars, signalVars, child, snap>>

\* (Mutant: the manifest is overwritten without a comparison.)
AppliesAnyway(c) ==
    /\ cpc[c] = "apply"
    /\ lock = "free"
    /\ file' = [file EXCEPT !.state = "Failed"]
    /\ cpc' = [cpc EXCEPT ![c] = Rest(c)]
    /\ UNCHANGED <<age, launcher, runnerVars, signalVars, child, snap>>

\* update_if_current, and write_if_unchanged in capacity.py.
Applies(c) ==
    /\ cpc[c] = "apply"
    /\ lock = "free"
    /\ file' = IF file = snap[c] THEN [file EXCEPT !.state = "Failed"] ELSE file
    /\ cpc' = [cpc EXCEPT ![c] = Rest(c)]
    /\ UNCHANGED <<age, launcher, runnerVars, signalVars, child, snap>>

-------------------------------------------------------------------------------
(* The specification *)

Init ==
    /\ file = [state |-> "absent", pid |-> "none"]
    /\ lock = "free"
    /\ age = "young"
    /\ launcher = "new"
    /\ proc = "none"
    /\ pc = "unborn"
    /\ done = 0
    /\ verdict = "none"
    /\ sig = "none"
    /\ handler = "idle"
    /\ child = "none"
    /\ cpc = [c \in Clients |-> "idle"]
    /\ snap = [c \in Clients |-> [state |-> "absent", pid |-> "none"]]

Launch == CreatePending \/ LaunchRunner \/ LaunchFails \/ MarkHandoffFailed \/ LauncherDies

Main == \/ Boot \/ UpdateRunning \/ Spawn \/ SpawnFails \/ Track \/ CallSucceeds
        \/ CallFails \/ AllCallsDone \/ UpdateTerminal \/ Exit

Handler == \/ HandlerStarts \/ HandlerCancels \/ HandlerTerminates \/ HandlerPolls
           \/ HandlerKills \/ HandlerWaits \/ HandlerExits

Cancel(c) == CancelLoads(c) \/ CancelsPending(c) \/ Signals(c) \/ SignalMissing(c)

Reconcile(c) == ReconcileLoads(c) \/ Probes(c) \/ Applies(c)

Next ==
    \/ Launch \/ GraceExpires
    \/ Main \/ Handler
    \/ Exec \/ ChildExits \/ RunnerCrashes \/ Reaped
    \/ \E c \in Cancellers : Cancel(c)
    \/ \E c \in Clients : Reconcile(c)

Spec == Init /\ [][Next]_vars

\* Processes run, orchestrators end, exited runners are reaped, time passes and
\* the reconcilers poll.  Nothing makes a runner crash or anyone cancel.
Fairness ==
    /\ WF_vars(Launch) /\ WF_vars(GraceExpires)
    /\ WF_vars(Main) /\ WF_vars(Handler)
    /\ WF_vars(Exec) /\ WF_vars(ChildExits) /\ WF_vars(Reaped)
    /\ \A c \in Reconcilers : WF_vars(Reconcile(c))

FairSpec == Spec /\ Fairness

-------------------------------------------------------------------------------
(* Properties *)

\* A reconciler never fails a Job whose runner lives and has started, however
\* old the snapshot it decided on.
ReconcileSparesLiveRunner ==
    [][\A c \in Clients : cpc[c] = "apply" /\ cpc'[c] # "apply" /\ file' # file
         => file.state = "Pending" \/ proc # "alive"]_vars

\* A Job reads Succeeded only when every orchestrator call has returned 0 and none
\* runs, whoever else wrote the manifest, signalled or crashed before.
SucceededMeansAllCalls == file.state = "Succeeded" => done = Calls /\ ~ChildLives

\* Once the SIGTERM handler is through, the Job is Cancelled for good, whatever
\* the main thread had written and the reconcilers had decided, and no
\* orchestrator of it runs any more, not even after the runner has exited.  The
\* only one that can is a child whose Popen the signal overtook, so that the
\* handler did not know it.
HandlerLeavesNoCall ==
    handler = "exit" => /\ file.state = "Cancelled"
                        /\ ChildLives => pc = "forked"

\* As long as its runner lives, a Job gives up its slot only when no
\* orchestrator runs: the query and the slot end in this order.  (Stated for a
\* Job that nobody cancels.)
SlotCoversQuery ==
    file.state \in Terminal /\ proc = "alive" => ~ChildLives

\* The manifest keeps the promise the capacity ledger is built on.
Promise == INSTANCE JobPromise WITH state <- file.state
KeepsPromise == Promise!Spec

\* Whatever crashes, a Job that was created ends, and gives its slot back.
JobSettles == file.state \in {"Pending", "Running"} ~> file.state \in Terminal

\* Once cancel_job has reported a Pending Job cancelled, its SQL is not started.
CancelSticks ==
    [][(\E c \in Cancellers : cpc[c] = "cancelled") => ~(child = "none" /\ child' = "forked")]_vars

\* A runner that is sent SIGTERM exits.
SignaledRunnerExits == sig = "pending" ~> proc # "alive"

-------------------------------------------------------------------------------
(* Why they hold: inductive invariants *)

\* The main thread's program: what each of its places knows.
Ending == {"end", "endLocked", "endWritten", "leaving"}
MainInv ==
    /\ TypeOK
    /\ launcher # "finished" => pc = "unborn" /\ proc # "alive" /\ handler = "idle"
    /\ handler \in {"kill", "reap", "wait", "exit"} => file.state = "Cancelled"
    /\ \A c \in Clients : cpc[c] = "apply" => snap[c].state \in {"Pending", "Running"}
    /\ handler \in {"reap", "wait"} => pc = "waiting"
    /\ pc \in {"forked", "waiting"} => done < Calls
    /\ child # "none" => pc \in {"forked", "waiting"}
    /\ pc \in Ending => verdict # "none"
    /\ verdict = "Succeeded" => pc \in Ending /\ done = Calls
    /\ file.state = "Succeeded" => verdict = "Succeeded"
    /\ handler = "exit" /\ ChildLives => pc = "forked"

\* A reconciler about to fail a Running Job has outlived its runner, and no
\* other runner will come.
SparesInv ==
    /\ TypeOK
    /\ proc = "alive" \/ file.state = "Running" => launcher = "finished"
    /\ \A c \in Clients :
         /\ snap[c].state = "Running" => launcher = "finished"
         /\ cpc[c] = "apply" => \/ snap[c].state = "Pending"
                                \/ snap[c].state = "Running" /\ proc # "alive"

\* With no cancel and no slow start, the manifest follows the runner as long as
\* it lives, and the reconcilers afterwards.
PromiseInv ==
    /\ MainInv
    /\ sig = "none" /\ handler = "idle"
    /\ launcher = "new" <=> file.state = "absent"
    /\ launcher # "finished" => proc = "none" /\ age = "young" /\ pc = "unborn"
    /\ launcher \in {"created", "failing"} => file.state = "Pending"
    /\ age = "old" => proc # "alive"
    /\ proc = "alive" => /\ pc # "unborn"
                         /\ pc \in {"boot", "armed", "runLocked"} => file.state = "Pending"
                         /\ pc \in {"runWritten", "next", "forked", "waiting", "end",
                                    "endLocked"} => file.state = "Running"
    /\ \A c \in Clients :
         /\ snap[c].state = "Running" => launcher = "finished"
         /\ cpc[c] = "apply" => /\ launcher = "finished" /\ proc # "alive"
                                /\ snap[c].state \in {"Pending", "Running"}

===============================================================================
