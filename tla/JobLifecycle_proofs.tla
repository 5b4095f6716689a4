------------------------- MODULE JobLifecycle_proofs -------------------------
(***************************************************************************)
(* Theorems about JobLifecycle, for any number of cancellers, reconcilers  *)
(* and orchestrator calls.                                                 *)
(***************************************************************************)
EXTENDS JobLifecycle, TLAPS

(* A manifest as create_job writes it, and one whose state is replaced. *)
LEMMA NewManifest ==
    ASSUME NEW s \in States, NEW p \in {"none", "runner"}
    PROVE  /\ [state |-> s, pid |-> p] \in Manifest
           /\ [state |-> s, pid |-> p].state = s
BY DEF Manifest

LEMMA WithState ==
    ASSUME NEW m \in Manifest, NEW s \in States
    PROVE  /\ [m EXCEPT !.state = s] \in Manifest
           /\ [m EXCEPT !.state = s].state = s
BY DEF Manifest

(* A client that takes a step: every other client stays where it is. *)
LEMMA ClientSteps ==
    ASSUME NEW S, NEW f \in [Clients -> S], NEW c \in Clients, NEW v \in S
    PROVE  /\ [f EXCEPT ![c] = v] \in [Clients -> S]
           /\ [f EXCEPT ![c] = v][c] = v
           /\ \A d \in Clients \ {c} : [f EXCEPT ![c] = v][d] = f[d]
OBVIOUS

USE DEF runnerVars, signalVars, clientVars

-------------------------------------------------------------------------------
(* Every place of the main thread keeps what MainInv says of it. *)

\* Before the launch there is nothing to know.
LEMMA MainInvInit == Init => MainInv
<1> SUFFICES ASSUME Init PROVE MainInv
  OBVIOUS
<1>1. file \in Manifest /\ file.state = "absent"
  BY NewManifest DEF Init, States
<1>2. snap \in [Clients -> Manifest]
  BY NewManifest DEF Init, States
<1>3. TypeOK
  BY <1>1, <1>2, LifecycleAssumption DEF Init, TypeOK, MainPcs
<1> QED
  BY <1>1, <1>3 DEF Init, MainInv, Ending, ChildLives

\* The launcher and the clock never touch the main thread once it runs.
LEMMA LaunchMain == MainInv /\ (Launch \/ GraceExpires) => MainInv'
<1> USE DEF MainInv, TypeOK, MainPcs, Ending, ChildLives
<1> SUFFICES ASSUME MainInv, Launch \/ GraceExpires PROVE MainInv'
  OBVIOUS
<1>1. CASE CreatePending
  <2>1. file' \in Manifest /\ file'.state = "Pending"
    BY <1>1, NewManifest DEF CreatePending, States
  <2> QED
    BY <1>1, <2>1 DEF CreatePending
<1>2. CASE LaunchRunner
  BY <1>2 DEF LaunchRunner
<1>3. CASE LaunchFails
  BY <1>3 DEF LaunchFails
<1>4. CASE MarkHandoffFailed
  <2>1. file' \in Manifest /\ file'.state = "Failed"
    BY <1>4, WithState DEF MarkHandoffFailed, States, Terminal
  <2> QED
    BY <1>4, <2>1 DEF MarkHandoffFailed
<1>5. CASE LauncherDies
  BY <1>5 DEF LauncherDies
<1>6. CASE GraceExpires
  BY <1>6 DEF GraceExpires
<1> QED
  BY <1>1, <1>2, <1>3, <1>4, <1>5, <1>6 DEF Launch

\* runner.run: each of its steps leaves the next place what it needs.
LEMMA MainMain == MainInv /\ Main => MainInv'
<1> USE DEF MainInv, TypeOK, MainPcs, Ending, ChildLives
<1> SUFFICES ASSUME MainInv, Main PROVE MainInv'
  OBVIOUS
<1>1. CASE Boot
  BY <1>1 DEF Boot
<1>2. CASE LockManifest("armed", "runLocked")
  BY <1>2 DEF LockManifest
<1>3. CASE WriteManifest("runLocked", "runWritten", [state |-> "Running", pid |-> "runner"])
  <2>1. file' \in Manifest /\ file'.state = "Running"
    BY <1>3, NewManifest DEF WriteManifest, States
  <2> QED
    BY <1>3, <2>1 DEF WriteManifest, MainRuns
<1>4. CASE UnlockManifest("runWritten", "next")
  BY <1>4 DEF UnlockManifest
<1>5. CASE Spawn
  BY <1>5 DEF Spawn
<1>6. CASE SpawnFails
  BY <1>6 DEF SpawnFails
<1>7. CASE Track
  BY <1>7 DEF Track, MainRuns
<1>8. CASE CallSucceeds
  <2>1. done + 1 \in 0..Calls
    BY <1>8, LifecycleAssumption DEF CallSucceeds
  <2> QED
    BY <1>8, <2>1 DEF CallSucceeds, MainRuns
<1>9. CASE CallFails
  BY <1>9 DEF CallFails, MainRuns
<1>10. CASE AllCallsDone
  BY <1>10 DEF AllCallsDone
<1>11. CASE LockManifest("end", "endLocked")
  BY <1>11 DEF LockManifest
<1>12. CASE WriteManifest("endLocked", "endWritten", [file EXCEPT !.state = verdict])
  <2>1. file' \in Manifest /\ file'.state = verdict
    BY <1>12, WithState DEF WriteManifest, States, Terminal
  <2> QED
    BY <1>12, <2>1 DEF WriteManifest, MainRuns
<1>13. CASE UnlockManifest("endWritten", "leaving")
  BY <1>13 DEF UnlockManifest
<1>14. CASE Exit
  BY <1>14 DEF Exit
<1> QED
  BY <1>1, <1>2, <1>3, <1>4, <1>5, <1>6, <1>7, <1>8, <1>9, <1>10, <1>11, <1>12, <1>13, <1>14 DEF Main, UpdateRunning, UpdateTerminal

\* _handle_sigterm writes Cancelled, and polls, kills and waits before it exits.
LEMMA HandlerMain == MainInv /\ Handler => MainInv'
<1> USE DEF MainInv, TypeOK, MainPcs, Ending, ChildLives
<1> SUFFICES ASSUME MainInv, Handler PROVE MainInv'
  OBVIOUS
<1>1. CASE HandlerStarts
  BY <1>1 DEF HandlerStarts
<1>2. CASE HandlerCancels
  <2>1. file' \in Manifest /\ file'.state = "Cancelled"
    BY <1>2, WithState DEF HandlerCancels, States, Terminal
  <2> QED
    BY <1>2, <2>1 DEF HandlerCancels
<1>3. CASE HandlerTerminates
  BY <1>3 DEF HandlerTerminates
<1>4. CASE HandlerPolls
  BY <1>4 DEF HandlerPolls
<1>5. CASE HandlerKills
  BY <1>5 DEF HandlerKills
<1>6. CASE HandlerWaits
  BY <1>6 DEF HandlerWaits
<1>7. CASE HandlerExits
  BY <1>7 DEF HandlerExits
<1> QED
  BY <1>1, <1>2, <1>3, <1>4, <1>5, <1>6, <1>7 DEF Handler

\* Processes that exec, exit, crash or are reaped.
LEMMA ProcessMain ==
    MainInv /\ (Exec \/ ChildExits \/ RunnerCrashes \/ Reaped \/ UNCHANGED vars)
      => MainInv'
<1> USE DEF MainInv, TypeOK, MainPcs, Ending, ChildLives
<1> SUFFICES ASSUME MainInv, Exec \/ ChildExits \/ RunnerCrashes \/ Reaped \/ UNCHANGED vars PROVE MainInv'
  OBVIOUS
<1>1. CASE Exec
  BY <1>1 DEF Exec
<1>2. CASE ChildExits
  BY <1>2 DEF ChildExits
<1>3. CASE RunnerCrashes
  BY <1>3 DEF RunnerCrashes
<1>4. CASE Reaped
  BY <1>4 DEF Reaped
<1>5. CASE UNCHANGED vars
  BY <1>5 DEF vars
<1> QED
  BY <1>1, <1>2, <1>3, <1>4, <1>5

\* cancel_job and reconcile_manifest write Cancelled or Failed, never Succeeded.
LEMMA ClientMain ==
    ASSUME NEW c \in Clients, MainInv, Cancel(c) \/ Reconcile(c)
    PROVE  MainInv'
<1> USE DEF MainInv, TypeOK, MainPcs, Ending, ChildLives
<1>1. CASE CancelLoads(c)
  BY <1>1, ClientSteps DEF CancelLoads
<1>2. CASE CancelsPending(c)
  <2>1. file' \in Manifest /\ file'.state = "Cancelled"
    BY <1>2, WithState DEF CancelsPending, States, Terminal
  <2> QED
    BY <1>2, <2>1 DEF CancelsPending
<1>3. CASE Signals(c)
  BY <1>3 DEF Signals
<1>4. CASE SignalMissing(c)
  BY <1>4 DEF SignalMissing
<1>5. CASE ReconcileLoads(c)
  BY <1>5 DEF ReconcileLoads
<1>6. CASE Probes(c)
  BY <1>6 DEF Probes, Rest, Stale
<1>7. CASE Applies(c)
  <2>1. /\ file' \in Manifest
        /\ file'.state = "Failed" \/ file' = file
    BY <1>7, WithState DEF Applies, States, Terminal
  <2> QED
    BY <1>7, <2>1 DEF Applies, Rest
<1> QED
  BY <1>1, <1>2, <1>3, <1>4, <1>5, <1>6, <1>7 DEF Cancel, Reconcile

\* Whoever steps.
LEMMA MainInvStep == MainInv /\ [Next]_vars => MainInv'
<1> SUFFICES ASSUME MainInv, [Next]_vars PROVE MainInv'
  OBVIOUS
<1>1. CASE \E c \in Cancellers : Cancel(c)
  BY <1>1, ClientMain DEF Clients
<1>2. CASE \E c \in Clients : Reconcile(c)
  BY <1>2, ClientMain
<1> QED
  BY <1>1, <1>2, LaunchMain, MainMain, HandlerMain, ProcessMain DEF Next

\* Every variable of a Job keeps its type.
THEOREM TypeCorrect == Spec => []TypeOK
<1>1. MainInv => TypeOK
  BY DEF MainInv
<1> QED
  BY <1>1, MainInvInit, MainInvStep, PTL DEF Spec

\* The runner, job_ops and the reconcilers between them: a manifest reads
\* Succeeded only when runner.run has seen every orchestrator call return 0.
THEOREM HonestSuccess == Spec => []SucceededMeansAllCalls
<1>1. MainInv => SucceededMeansAllCalls
  BY DEF MainInv, SucceededMeansAllCalls, ChildLives, Ending
<1> QED
  BY <1>1, MainInvInit, MainInvStep, PTL DEF Spec

\* _handle_sigterm: once it is through, the Job stays Cancelled against late
\* reconcilers, and no orchestrator the runner knew of survives it.
THEOREM NoCallLeft == Spec => []HandlerLeavesNoCall
<1>1. MainInv => HandlerLeavesNoCall
  BY DEF MainInv, HandlerLeavesNoCall
<1> QED
  BY <1>1, MainInvInit, MainInvStep, PTL DEF Spec

-------------------------------------------------------------------------------
(* What a reconciler decided on stays true until it writes. *)

\* All that SparesInv has to know of the steps that no client takes.
Own == \/ Launch \/ GraceExpires \/ Main \/ Handler
       \/ Exec \/ ChildExits \/ RunnerCrashes \/ Reaped \/ UNCHANGED vars

\* They leave the clients alone, start a runner at most once, and only a living
\* runner writes Running.
LEMMA OwnSteps ==
    ASSUME TypeOK, Own
    PROVE  /\ UNCHANGED clientVars
           /\ launcher = "finished" => launcher' = "finished"
           /\ proc' = "alive" => \/ proc = "alive"
                                 \/ launcher = "created" /\ launcher' = "finished"
           /\ file'.state = "Running" => file.state = "Running" \/ proc = "alive"
<1> USE WithState, NewManifest DEF TypeOK
<1>1. CASE Launch \/ GraceExpires
  <2>1. CASE CreatePending
    BY <2>1 DEF CreatePending, States
  <2>2. CASE MarkHandoffFailed
    <3>1. file'.state = "Failed"
      BY <2>2 DEF MarkHandoffFailed, States, Terminal
    <3> QED
      BY <2>2, <3>1 DEF MarkHandoffFailed
  <2>3. CASE LaunchRunner
    BY <2>3 DEF LaunchRunner
  <2>4. CASE LaunchFails \/ LauncherDies \/ GraceExpires
    BY <2>4 DEF LaunchFails, LauncherDies, GraceExpires
  <2> QED
    BY <1>1, <2>1, <2>2, <2>3, <2>4 DEF Launch
<1>2. CASE Main
  BY <1>2 DEF Main, Boot, UpdateRunning, LockManifest, WriteManifest, UnlockManifest,
              Spawn, SpawnFails, Track, CallSucceeds, CallFails, AllCallsDone,
              UpdateTerminal, Exit, MainRuns
<1>3. CASE Handler
  BY <1>3 DEF Handler, HandlerStarts, HandlerCancels, HandlerTerminates, HandlerPolls,
              HandlerKills, HandlerWaits, HandlerExits
<1>4. CASE Exec \/ ChildExits \/ RunnerCrashes \/ Reaped \/ UNCHANGED vars
  BY <1>4 DEF Exec, ChildExits, RunnerCrashes, Reaped, vars
<1> QED
  BY <1>1, <1>2, <1>3, <1>4 DEF Own

\* At first no client has loaded anything.
LEMMA SparesInvInit == Init => SparesInv
<1> SUFFICES ASSUME Init PROVE SparesInv
  OBVIOUS
<1>1. file.state = "absent"
  BY NewManifest DEF Init, States
<1>2. \A c \in Clients : snap[c].state = "absent" /\ cpc[c] = "idle"
  BY NewManifest DEF Init, States
<1> QED
  BY <1>1, <1>2, MainInvInit DEF Init, MainInv, SparesInv

\* So what a reconciler has decided on still holds.
LEMMA OwnSpares == SparesInv /\ TypeOK' /\ Own => SparesInv'
BY OwnSteps DEF SparesInv

\* A client that loads the manifest, one that probes, and one that does neither.
LEMMA ClientSpares ==
    ASSUME NEW c \in Clients, SparesInv, TypeOK', Cancel(c) \/ Reconcile(c)
    PROVE  SparesInv'
<1> USE DEF SparesInv
<1>t. TypeOK
  OBVIOUS
<1>0. cpc \in [Clients -> {"idle", "cancelPending", "signal", "reload", "probe",
                              "apply", "cancelled", "done"}]
      /\ snap \in [Clients -> Manifest]
  BY <1>t DEF TypeOK
<1>1. CASE CancelLoads(c)
  BY <1>1, <1>0 DEF CancelLoads
<1>2. CASE CancelsPending(c)
  <2>1. file'.state = "Cancelled"
    BY <1>2, <1>t, WithState DEF CancelsPending, States, Terminal, TypeOK
  <2> QED
    BY <1>2, <1>0, <2>1 DEF CancelsPending
<1>3. CASE Signals(c)
  BY <1>3, <1>0 DEF Signals
<1>4. CASE SignalMissing(c)
  BY <1>4, <1>0 DEF SignalMissing
<1>5. CASE ReconcileLoads(c)
  BY <1>5, <1>0 DEF ReconcileLoads
<1>6. CASE Probes(c)
  BY <1>6, <1>0 DEF Probes, Rest, Stale, PidIsAlive
<1>7. CASE Applies(c)
  <2>1. file'.state = "Failed" \/ file' = file
    BY <1>7, <1>t, WithState DEF Applies, States, Terminal, TypeOK
  <2> QED
    BY <1>7, <1>0, <2>1 DEF Applies, Rest
<1> QED
  BY <1>1, <1>2, <1>3, <1>4, <1>5, <1>6, <1>7 DEF Cancel, Reconcile

\* Whoever steps.
LEMMA SparesInvStep == SparesInv /\ TypeOK' /\ [Next]_vars => SparesInv'
<1> SUFFICES ASSUME SparesInv, TypeOK', [Next]_vars PROVE SparesInv'
  OBVIOUS
<1>1. CASE \E c \in Cancellers : Cancel(c)
  BY <1>1, ClientSpares DEF Clients
<1>2. CASE \E c \in Clients : Reconcile(c)
  BY <1>2, ClientSpares
<1> QED
  BY <1>1, <1>2, OwnSpares DEF Next, Own

\* The step that reconcile_manifest takes last: whoever else moves, a client
\* leaves "apply" only by its own write, and it writes on what it compared.
LEMMA SparedStep ==
    ASSUME TypeOK, SparesInv, [Next]_vars, NEW c \in Clients,
           cpc[c] = "apply", cpc'[c] # "apply", file' # file
    PROVE  file.state = "Pending" \/ proc # "alive"
<1>0. cpc \in [Clients -> {"idle", "cancelPending", "signal", "reload", "probe",
                              "apply", "cancelled", "done"}]
  BY DEF TypeOK
<1>1. ASSUME NEW d \in Cancellers, Cancel(d)
      PROVE  cpc'[c] = "apply"
  BY <1>0, <1>1 DEF Cancel, CancelLoads, CancelsPending, Signals, SignalMissing, Clients
<1>2. ASSUME NEW d \in Clients, Reconcile(d)
      PROVE  d = c /\ Applies(c)
  BY <1>0, <1>2 DEF Reconcile, ReconcileLoads, Probes, Applies
<1>3. ~Own
  BY OwnSteps
<1>4. Applies(c)
  BY <1>1, <1>2, <1>3 DEF Next, Own
<1>5. file = snap[c]
  BY <1>4 DEF Applies
<1> QED
  BY <1>5 DEF SparesInv

\* reconcile_manifest, in any number of processes, on snapshots of any age.
THEOREM LiveRunnerSpared == Spec => ReconcileSparesLiveRunner
<1>1. TypeOK /\ SparesInv /\ [Next]_vars =>
        [\A c \in Clients : cpc[c] = "apply" /\ cpc'[c] # "apply" /\ file' # file
           => file.state = "Pending" \/ proc # "alive"]_vars
  BY SparedStep
<1> QED
  BY <1>1, SparesInvInit, SparesInvStep, TypeCorrect, PTL
     DEF Spec, ReconcileSparesLiveRunner

-------------------------------------------------------------------------------
(* With nobody cancelling and no slow start, the manifest of every Job     *)
(* follows JobPromise: this is what the Capacity module takes for granted. *)

\* At first there is no Job.
LEMMA PromiseInvInit == Init => PromiseInv
<1> SUFFICES ASSUME Init PROVE PromiseInv
  OBVIOUS
<1>1. file.state = "absent"
  BY NewManifest DEF Init, States
<1>2. \A c \in Clients : snap[c].state = "absent" /\ cpc[c] = "idle"
  BY NewManifest DEF Init, States
<1> QED
  BY <1>1, <1>2, MainInvInit DEF Init, PromiseInv

\* The launcher: the manifest is Pending until it has handed over or given up.
LEMMA LaunchPromise ==
    ASSUME SlowBoot = FALSE, PromiseInv, MainInv', Launch \/ GraceExpires
    PROVE  PromiseInv'
<1> USE DEF PromiseInv
<1>t. TypeOK
  BY DEF MainInv
<1>1. CASE CreatePending
  <2>1. file'.state = "Pending"
    BY <1>1, <1>t, NewManifest DEF CreatePending, States
  <2> QED
    BY <1>1, <2>1 DEF CreatePending
<1>2. CASE LaunchRunner
  BY <1>2 DEF LaunchRunner
<1>3. CASE LaunchFails
  BY <1>3 DEF LaunchFails
<1>4. CASE MarkHandoffFailed
  <2>1. file'.state = "Failed"
    BY <1>4, <1>t, WithState DEF MarkHandoffFailed, States, Terminal, TypeOK
  <2> QED
    BY <1>4, <2>1 DEF MarkHandoffFailed
<1>5. CASE LauncherDies
  BY <1>5 DEF LauncherDies
<1>6. CASE GraceExpires
  BY <1>6 DEF GraceExpires
<1> QED
  BY <1>1, <1>2, <1>3, <1>4, <1>5, <1>6 DEF Launch

\* runner.run: the manifest follows the main thread.
LEMMA MainPromise ==
    ASSUME PromiseInv, MainInv', Main
    PROVE  PromiseInv'
<1> USE DEF PromiseInv
<1>t. TypeOK
  BY DEF MainInv
<1>1. CASE Boot
  BY <1>1 DEF Boot
<1>2. CASE LockManifest("armed", "runLocked")
  BY <1>2 DEF LockManifest, MainRuns
<1>3. CASE WriteManifest("runLocked", "runWritten", [state |-> "Running", pid |-> "runner"])
  <2>1. file'.state = "Running"
    BY <1>3, <1>t, NewManifest DEF WriteManifest, States
  <2> QED
    BY <1>3, <2>1 DEF WriteManifest, MainRuns
<1>4. CASE UnlockManifest("runWritten", "next")
  BY <1>4 DEF UnlockManifest, MainRuns
<1>5. CASE Spawn
  BY <1>5 DEF Spawn
<1>6. CASE SpawnFails
  BY <1>6 DEF SpawnFails, MainRuns
<1>7. CASE Track
  BY <1>7 DEF Track, MainRuns
<1>8. CASE CallSucceeds
  BY <1>8 DEF CallSucceeds, MainRuns
<1>9. CASE CallFails
  BY <1>9 DEF CallFails, MainRuns
<1>10. CASE AllCallsDone
  BY <1>10 DEF AllCallsDone, MainRuns
<1>11. CASE LockManifest("end", "endLocked")
  BY <1>11 DEF LockManifest, MainRuns
<1>12. CASE WriteManifest("endLocked", "endWritten", [file EXCEPT !.state = verdict])
  <2>1. file'.state \in {"Succeeded", "Failed"}
    BY <1>12, <1>t, WithState DEF WriteManifest, States, Terminal, TypeOK, MainInv, Ending
  <2> QED
    BY <1>12, <2>1 DEF WriteManifest, MainRuns
<1>13. CASE UnlockManifest("endWritten", "leaving")
  BY <1>13 DEF UnlockManifest, MainRuns
<1>14. CASE Exit
  BY <1>14 DEF Exit
<1> QED
  BY <1>1, <1>2, <1>3, <1>4, <1>5, <1>6, <1>7, <1>8, <1>9, <1>10, <1>11, <1>12, <1>13, <1>14 DEF Main, UpdateRunning, UpdateTerminal

\* Without SIGTERM the handler never runs.
LEMMA NoHandler == PromiseInv => ~Handler
BY DEF PromiseInv, Handler, HandlerStarts, HandlerCancels, HandlerTerminates,
       HandlerPolls, HandlerKills, HandlerWaits, HandlerExits

\* Processes: none of these steps touches the manifest.
LEMMA ProcessPromise ==
    ASSUME PromiseInv, MainInv', Exec \/ ChildExits \/ RunnerCrashes \/ Reaped \/ UNCHANGED vars
    PROVE  PromiseInv'
<1> USE DEF PromiseInv
<1>t. TypeOK
  BY DEF MainInv
<1>1. CASE Exec
  BY <1>1 DEF Exec
<1>2. CASE ChildExits
  BY <1>2 DEF ChildExits
<1>3. CASE RunnerCrashes
  BY <1>3 DEF RunnerCrashes
<1>4. CASE Reaped
  BY <1>4 DEF Reaped
<1>5. CASE UNCHANGED vars
  BY <1>5 DEF vars
<1> QED
  BY <1>1, <1>2, <1>3, <1>4, <1>5

\* reconcile_manifest: it writes only after the runner is dead for good.
LEMMA ReconcilePromise ==
    ASSUME NEW c \in Clients, PromiseInv, MainInv', Reconcile(c)
    PROVE  PromiseInv'
<1> USE DEF PromiseInv
<1>t. TypeOK
  BY DEF MainInv
<1>0. /\ cpc \in [Clients -> {"idle", "cancelPending", "signal", "reload", "probe",
                              "apply", "cancelled", "done"}]
      /\ snap \in [Clients -> Manifest]
  BY <1>t DEF TypeOK
<1>1. CASE ReconcileLoads(c)
  BY <1>1, <1>0, <1>t DEF ReconcileLoads, TypeOK
<1>2. CASE Probes(c)
  BY <1>2, <1>0, <1>t DEF Probes, Rest, Stale, PidIsAlive, TypeOK
<1>3. CASE Applies(c)
  <2>1. /\ launcher = "finished" /\ proc # "alive" /\ file.state # "absent"
        /\ file'.state = "Failed" \/ file' = file
    BY <1>3, <1>t, WithState DEF Applies, States, Terminal, TypeOK
  <2> QED
    BY <1>3, <1>0, <2>1 DEF Applies, Rest
<1> QED
  BY <1>1, <1>2, <1>3 DEF Reconcile

\* Whoever steps.
LEMMA PromiseInvStep ==
    ASSUME Cancellers = {}, SlowBoot = FALSE
    PROVE  PromiseInv /\ [Next]_vars => PromiseInv'
<1> SUFFICES ASSUME PromiseInv, [Next]_vars PROVE PromiseInv'
  OBVIOUS
<1>1. MainInv'
  BY MainInvStep DEF PromiseInv
<1>2. CASE \E c \in Clients : Reconcile(c)
  BY <1>1, <1>2, ReconcilePromise
<1> QED
  BY <1>1, <1>2, LaunchPromise, MainPromise, NoHandler, ProcessPromise DEF Next

\* Who may change the manifest's state, and when.
LEMMA WritersKeepPromise ==
    ASSUME Cancellers = {}, PromiseInv, [Next]_vars, file'.state # file.state
    PROVE  Promise!Next
<1> USE DEF PromiseInv
<1>t. TypeOK
  BY DEF MainInv
<1>1. CASE CreatePending
  <2>1. file'.state = "Pending"
    BY <1>1, NewManifest DEF CreatePending, States
  <2> QED
    BY <1>1, <2>1 DEF CreatePending, Promise!Next, Promise!Create
<1>2. CASE MarkHandoffFailed
  <2>1. file'.state = "Failed"
    BY <1>2, <1>t, WithState DEF MarkHandoffFailed, States, Terminal, TypeOK
  <2> QED
    BY <1>2, <2>1 DEF MarkHandoffFailed, Promise!Next, Promise!End, Promise!Terminal
<1>3. CASE WriteManifest("runLocked", "runWritten",
                         [state |-> "Running", pid |-> "runner"])
  <2>1. file'.state = "Running"
    BY <1>3, NewManifest DEF WriteManifest, States
  <2> QED
    BY <1>3, <2>1 DEF WriteManifest, MainRuns, Promise!Next, Promise!Start
<1>4. CASE WriteManifest("endLocked", "endWritten", [file EXCEPT !.state = verdict])
  <2>1. file'.state \in {"Succeeded", "Failed"}
    BY <1>4, <1>t, WithState
       DEF WriteManifest, States, Terminal, TypeOK, MainInv, Ending
  <2> QED
    BY <1>4, <2>1 DEF WriteManifest, MainRuns, Promise!Next, Promise!End,
                      Promise!Terminal
<1>5. ASSUME NEW c \in Clients, Reconcile(c)
      PROVE  Promise!Next
  <2>1. Applies(c)
    BY <1>5 DEF Reconcile, ReconcileLoads, Probes
  <2>2. file = snap[c] /\ file'.state = "Failed"
    BY <2>1, <1>t, WithState DEF Applies, States, Terminal, TypeOK
  <2> QED
    BY <2>1, <2>2 DEF Applies, Promise!Next, Promise!End, Promise!Terminal
<1>6. \/ CreatePending \/ MarkHandoffFailed
      \/ WriteManifest("runLocked", "runWritten", [state |-> "Running", pid |-> "runner"])
      \/ WriteManifest("endLocked", "endWritten", [file EXCEPT !.state = verdict])
      \/ \E c \in Clients : Reconcile(c)
  <2> SUFFICES ASSUME file' # file, ~\E c \in Clients : Reconcile(c)
               PROVE  \/ CreatePending \/ MarkHandoffFailed
                      \/ WriteManifest("runLocked", "runWritten",
                                       [state |-> "Running", pid |-> "runner"])
                      \/ WriteManifest("endLocked", "endWritten",
                                       [file EXCEPT !.state = verdict])
    OBVIOUS
  <2>1. Launch \/ GraceExpires \/ Main \/ Exec \/ ChildExits \/ RunnerCrashes \/ Reaped
    BY NoHandler DEF Next, vars
  <2>2. ~(Exec \/ ChildExits \/ RunnerCrashes \/ Reaped \/ GraceExpires)
    BY DEF Exec, ChildExits, RunnerCrashes, Reaped, GraceExpires
  <2>3. CASE Launch
    BY <2>3 DEF Launch, LaunchRunner, LaunchFails, LauncherDies
  <2>4. CASE Main
    BY <2>4 DEF Main, Boot, UpdateRunning, LockManifest, UnlockManifest, Spawn,
                SpawnFails, Track, CallSucceeds, CallFails, AllCallsDone,
                UpdateTerminal, Exit
  <2> QED
    BY <2>1, <2>2, <2>3, <2>4
<1> QED
  BY <1>1, <1>2, <1>3, <1>4, <1>5, <1>6

\* The manifest of a Job that nobody cancels, and whose runner starts within the
\* grace: Pending, Running at most once, then one terminal state for good,
\* whatever crashes and however many reconcilers race.
THEOREM ManifestKeepsPromise ==
    ASSUME Cancellers = {}, SlowBoot = FALSE
    PROVE  Spec => KeepsPromise
<1>1. Init => Promise!Init
  BY NewManifest DEF Init, Promise!Init, States
<1>2. PromiseInv /\ [Next]_vars => [Promise!Next]_(file.state)
  BY WritersKeepPromise
<1> QED
  BY <1>1, <1>2, PromiseInvInit, PromiseInvStep, PTL DEF Spec, KeepsPromise, Promise!Spec

\* The slot of such a Job outlasts its queries, as long as its runner lives.
THEOREM SlotCovers ==
    ASSUME Cancellers = {}, SlowBoot = FALSE
    PROVE  Spec => []SlotCoversQuery
<1>1. PromiseInv => SlotCoversQuery
  BY DEF PromiseInv, MainInv, SlotCoversQuery, ChildLives, Terminal
<1> QED
  BY <1>1, PromiseInvInit, PromiseInvStep, PTL DEF Spec

===============================================================================
