# Dispatch: TLA+ models of the job launcher

Dispatch launches long-running Impala queries as detached *Jobs* and shares two
slots of Impala capacity among all TUIs, CLI calls and notebooks of a user.  There
is no server: the parts coordinate through files under `~/.dispatch`, advisory
locks and signals.  These modules model those protocols, and the programs around
them, from the code in `src/`, check them with TLC on small instances and prove the
main results with TLAPS for instances of every size.

## The system

| Part | State it keeps | Operations | Talks to |
|---|---|---|---|
| capacity ledger (`dispatch/capacity.py`) | `capacity.json`: metadata owners, launch intents, Job reservations, `next_sequence`; `capacity.lock` (flock) | `try_acquire_metadata`, `MetadataLease.release`, `admit_launch`, `admit_launch_async` | reads and fails Job manifests, probes pids |
| runner (`dispatch/runner.py`) | `CURRENT_PROC`, the manifest it owns, its signal handler | `run`, `_handle_sigterm` | orchestrator processes, the manifest |
| manifest store (`dispatch/manifest.py`) | `manifest.json`, `.manifest.lock` (flock) per Job | `create_job`, `write`, `update`, `update_if_current`, `write_if_unchanged` | everybody below |
| Job operations (`dispatch/job_ops.py`) | none of its own | `execute_launch(_async)`, `mark_runner_handoff_failed`, `cancel_job`, `follow_logs`, `wait_job` | ledger, manifest, `killpg` |
| reconciliation (`dispatch/job_lifecycle.py`, `dispatch/jobs.py`) | an mtime cache of manifests | `reconcile`, `reconcile_manifest`, list views | manifest, pid probe |
| metadata queries (`dispatch/impala.py`, `dispatch/process.py`) | one lease per statement | `query` and the statements built on it, `run_exec` | ledger, `impala-shell` |
| monitor service (`dispatch/monitor_service.py`) | per Job: subscribers, event tail, hierarchy; per query: a poller; one thread | `subscribe`, `unsubscribe`, `register_job`, `sync_background_jobs`, `recover_identity`, `_tick`, `stop` | `monitor.events.jsonl`, Impala's debug pages |
| orchestrators (`scr/`) | event sequence, temporary output file | pool cycling with retries, CSV export, monthly queries | `impala-shell`, event file |
| notebook API (`dispatch/notebook.py`) | query directories, results | `sql`, `table`, `launch` with `wait_for_slot`, `cleanup` | the CLI, with a timeout |
| telemetry (`dispatch/telemetry.py`) | a bounded queue, one writer thread | `note_*`, `flush` | event files |
| runtime installer (`shared_runtime.py`) | releases, completion marker, `current` link, `install.lock` | `install` | pip, file system |
| TUI screens (`dispatch/screens/`) | selections, generations, subscriptions, in-flight flags | Dashboard refresh, browser drop flow, Job Detail monitor and log, New Job launch flow | all of the above |
| controlled smoke runs (`tools/prod_tui/`) | one tmux pane, the runs of a batch, an exit code | Levels 3 to 6: launch through the interface, wait, verify, clean up | the TUI on a production host |
| advisor, SQL helpers, Kerberos, CLI, deployment scripts | none that persists | pure functions, parsing, straight-line commands | |

What is hard in it: several processes and threads rewriting one ledger; deadlines
that race locks; an `asyncio` cancellation that races the commit of a launch; a
save that fails on either side of its rename; processes that die with a lease, a
lock or a half-launched Job; pids that are reused; a signal handler that
interrupts the owner of a lock it needs; writers of a manifest that do not compare
it with what they had read; a reader of a file that grows, tears and stops growing;
a polling thread whose answers arrive after the question went stale; coroutines
that read a form, wait for a dialog and act on what they had read; and a harness
whose every step may raise with a Job already launched.  `PROJECT.json` lists these
hazards at their lines with the properties that guard them.

What makes each part correct:

- *ledger*: never more than `CAPACITY_LIMIT` statements and Jobs together, as far as
  admission decides it; first come, first served; nothing leaks; a caller's outcome
  agrees with the disk; every call ends;
- *Job*: terminal states are final; `Succeeded` is earned; a live Job is never
  failed; a dead one always is; its slot covers its queries; a cancel sticks;
- *orchestrators*: the CSV at its final place is only ever replaced by a whole
  export; no temporary file outlives a script that ends by itself; the monthly
  rounds end;
- *event file and monitor*: the tree is the replay of what was read, whatever was
  torn or cut; each live query is polled and a superseded one polled once more; an
  outcome shown is Impala's and its poller keeps it; subscriptions balance; nobody's Job is
  watched for ever; the exit code the runner goes by and the outcomes the monitor polls
  do not contradict each other;
- *Impala client*: the half-open probe of a breaker always belongs to a request on
  its way; an open breaker stays quiet;
- *screens*: what is launched or dropped is what was confirmed; an end is announced
  once; what a log reader shows is the log;
- *notebook*: a launch is run at most once; a Result is its own Job's output;
- *telemetry*: a flush that answers true has waited for what came before it;
- *installer*: no installer makes the active release unusable;
- *smoke runs*: exit code 0 is earned.

## Modules

| Module | What it is |
|---|---|
| `SlotPool` | the abstract promise of the ledger: a pool of `Limit` slots |
| `Capacity` | `capacity.py` in full, with the processes, Jobs and clock around it |
| `MC_Capacity` | which process each call runs in, and symmetry, for TLC |
| `Capacity_proofs` | theorems about `Capacity` |
| `JobPromise` | the abstract promise of a manifest: created Pending, Running at most once, terminal states final |
| `JobLifecycle` | one Job: launcher, runner, signal handler, orchestrators, cancellers, reconcilers |
| `JobLifecycle_proofs` | theorems about `JobLifecycle` |
| `Monitor_proofs`, `LogFollow_proofs` | theorems about `MonitorService`, `LogFollow` |
| `Orchestrator_proofs` | theorems about `ImpalaShell` and `Orchestrator` |
| `Tui_proofs` | theorems about `NewJobScreen`, `BrowserScreen`, `Dashboard`, `Telemetry` and the interface `MC_Tui` composes |
| `Tools_proofs` | theorems about `ImpalaClient`, `SmokeRun`, `SharedRuntime`, `Notebook` and the host `MC_Host` composes |
| `Pipeline_proofs` | theorems about `Pipeline` |
| `EventFile` | the abstract promise of `monitor.events.jsonl`: what a reader may rely on |
| `ImpalaShell` | `run_impala_shell`: child, drain thread, event writer; implements `EventFile` |
| `Orchestrator` | the scripts of `scr/` over `ImpalaShell`: pools, retries, export |
| `MonitorService` | the monitor service over `EventFile`, with Job Detail, the Dashboard's registration and identity recovery |
| `Pipeline` | one Job from its scripts to the screen: `Orchestrator` and `MonitorService` over one file and one Impala |
| `ImpalaClient` | the HTTP client of Impala's debug pages: breaker, retries, discovery |
| `Dashboard`, `BrowserScreen`, `NewJobScreen` | the three screens whose flows await something |
| `LogFollow` | the log pane of Job Detail and `follow_logs` of the CLI |
| `Telemetry` | queue, writer thread, flush |
| `Notebook` | the notebook API over the CLI and its timeout |
| `SharedRuntime` | the runtime installer |
| `SmokeRun` | the controlled smoke runs of `tools/prod_tui` |
| `MC_Tui`, `MC_Host` | instances for TLC: the parts that interact through nothing these models share, one per behavior |

### Capacity

A *call* (`Ops`) is one thread of one process that either takes a metadata lease
or launches a Job.  `pc[o]` is where it stands; the other variables are the
ledger file, the lock, the lock holder's copy (`mem`), what the Jobs' manifests
say, a clock, the live pids, and per launch its deadline, sequence number,
cancellation and outcome.

A critical section of the code is two steps: `Load` (take the lock, read,
`_reconcile`) and a deciding step that saves and unlocks.  Only the lock holder
touches the ledger, so nothing finer is visible to other calls, but manifests
change, time passes and processes die between the two, because those do not ask
for the lock.  A commit is finer still, following `_commit_pending`: `Admissible`
decides, `BeginCommit` is `_LaunchControl.begin_commit`, `Create` makes the
manifest visible, `FinishCommit` reconciles again and saves.  A failing save
(`SaveFails`) leaves the old or the new ledger on file, since `os.replace` is
followed by calls that may raise.  The asynchronous flavour differs from the
synchronous one in what a cancellation may interrupt (`CancelInFlight`,
`CancelAsleep`, `CancelDiscard`) and how long the clean-up tries
(`DiscardGivesUp`).

A Job's manifest is `job[j]`: absent, active (Pending or Running), stale, or done.  Nobody
who writes it holds the capacity lock, and one writer does not look: a runner checks for
Pending (`RunnerChecks`) and later writes Running over whatever the manifest says
(`RunnerStarts`), a Cancelled or a grace-Failed included.  `runner[j]` remembers which it
was: a Job that still had its slot has `started`, one that had lost it is `revived`.  The
code does let a revived Job run beyond the cap (disagreement 2), so `CapHolds` and the
refinement speak of the admitted Jobs: leases and Jobs that are not revived never exceed
the limit, and a revived Job neither drives another out nor makes room by its end.  The
ledger itself counts revived Jobs like any other, which can only make it admit less.

Left out: validation of paths and of the ledger's format (it refuses to go on and
changes nothing), the migration of version-1 ledgers, Windows locking.  `JobGoesStale`
stands for a runner that died and for a Pending manifest past its grace;
`JobLifecycle` looks inside.

### JobLifecycle

`file` is the manifest (its state, and whether a pid is recorded).  A client's
locked load-and-replace is one step.  The runner's is three (`LockManifest`,
`WriteManifest`, `UnlockManifest`), because Python runs the signal handler
between two bytecodes of the main thread, which may hold the lock.  `Spawn` and
`Track` split `Popen` the same way: a signal in between finds a child that
`CURRENT_PROC` does not name.  `killpg` reaches the runner and the child; a child
that has not yet exec'd has inherited the runner's handler and loses the signal.
An exited runner is a zombie, which `pid_is_alive` still reports, until it is
reaped.  Past SIGTERM the handler waits in three steps: it polls (`HandlerPolls`), after
ten seconds it kills (`HandlerKills`), whether or not the child has exited by then, and it
waits for what it killed (`HandlerWaits`); the child exits, or goes on, between any two.
`HandlerLeavesNoCall` is about all orchestrators, known to the handler or not: the one
that can outlive the runner is the one whose `Popen` the signal overtook.

`ReconcileLoads`, `Probes` and `Applies` are `reconcile_manifest`'s load, decision
and compare-and-write; `write_if_unchanged` in the ledger's reconciliation has the
same shape.  `age = "old"` says the Pending manifest is five minutes old; with
`SlowBoot` a living runner may be that slow.

Left out: a failing manifest write (it raises, and the runner's end is then one
of `RunnerCrashes` or `SpawnFails`), reuse of the runner's pid, the exit code and
the timestamps.

### EventFile, ImpalaShell, Orchestrator

`ImpalaShell` is `run_impala_shell`: the event `shell_started`, `Popen`, a child
whose stderr a thread drains (`Drains`) while the caller waits, both joins, and
`shell_finished`.  Every event is one `_EventWriter._write`: appended, or the
writer falls silent for good because the file is full or the write failed, perhaps
half-way (a torn tail, to which the next writer's line is glued).  `Killed` is
SIGTERM to the process group at any of these steps.  `Orchestrator` extends it with
what the three scripts do around a shell: pool after pool, the class of an error
(`Categoria`, first rule that matches, over every single phrase and every phrase
beside a lost query handle), the rounds of the monthly script, and the export that
is written beside its place and moved.

`EventFile` says what a reader may rely on, without writers or children; `host`
checks that the scripts implement it (`KeepsEventFile`), and `MonitorService` is
built on it.  The monitor is thus checked against every file the abstract
specification allows, which is more than the scripts produce.

Left out: texts of SQL and mails, which month comes next, encodings (a text that
does not decode ends the script like a fatal error).

### MonitorService

`job` is `_JobState`, `tree` the hierarchy, `seen` the size at the last read,
`poller` one `_Poller` per query, `thread` the background thread.  A critical section
of the service's lock is one action; `Observes` (the HTTP call) and `Attaches` (its
answer under the lock) are two, so a query may be superseded, retried or dropped in
between.  `Refreshes` is `_refresh_job_locked` with its four outcomes; `Synced` is
`_sync_pollers_locked`; `Prunes` is `_prune_job_if_finished_locked`.  Job Detail's
worker is `WorkerStarts`, `ThreadSubscribes` (in a thread), then `WorkerHolds` or
`WorkerGivesBack`, with `Closes` anywhere between; a dialog on top of the screen is
any step not taken.  `DashReads` and `DashSyncs` leave room for the Job to end in
between.  Recovery checks, searches without the lock, and checks again.

A poller is due or not due, whatever its cadence: `TickStarts` picks any set.  One
Job stands for all, as the service shares only its lock and its thread among them.
Left out: `stop` and a second `start` (the app starts the service once), and the
screens' drawing of the tree.

### Pipeline

The two sides of the event file together.  The scripts and the monitor take their steps
in any order and share only the file and what Impala knows of the queries, as in the
code, where they are processes of two programs.  `Life` tells the monitor's side that the
Job has ended: the runner settles the manifest once the loop over its calls is left, with
success or not.  `FeedsMonitor` is the monitor's own specification, so the theorems and
runs about a monitor over any event file are about this one.

### ImpalaClient

One record per thread for its request: `Asks` (the breaker), `Claims` (the
half-open probe, a step apart, because nothing locks it), `Sends`, and its outcome:
answered, failed and retried, redirected, refused.  Around it, the capability probe
and its fallback for the monitor's thread, and the discovery of coordinators and the
sweep for a matching query for the recovery's.  The content of a page is "good" or
"other".

### Screens

`Dashboard` splits `_refresh_jobs_async` at its awaits (`RefreshStarts`,
`RefreshLists`, `RefreshApplies`); the detail worker and the filter run in between.
`BrowserScreen` does the same for `action_show_tables` and `_drop_flow`, with the
confirmation dialog, a Schema field that may be edited meanwhile, and a second `D`
that cancels the flow with a DROP perhaps under way.  `NewJobScreen` is the form with
the timers that move its radio sets, and the launch flow: validate (`Launches`), validate again in
`prepare_launch` (`Prepares`), plan (`Plans`), dialog, ticket, validate the form once
more, execute.  Each of the first three reads the SQL file on its own, in one turn of the
event loop (`Busy`) that the file's other writers do not wait for: the text that is planned,
shown and launched may be one that no validation saw, so `LaunchesWhatWasConfirmed` does not
claim that it is well-formed, only that it is the approved one and gated by its own content.  A `klist` that never answers ends nothing in these
properties and is a flow that stays where it is.  `agreed` and `approved` record what
the operator said yes to; no action reads them.

`LogFollow` counts bytes: the pane reads a chunk per refresh and holds a started line
back; the CLI prints a tail, then reads to the end of the file until the Job is
terminal.  The log grows, may be truncated, and goes on growing for a while after a
cancelled Job reads terminal.

### Telemetry, Notebook, SharedRuntime

`Telemetry`: `_enqueue` into a bounded queue, the writer thread at each file, flush
as put, wait, deadline, and the flush at exit.  An append that is skipped (the file
is locked by another process) is an append that did not happen.

`Notebook`: one call at a time, each a CLI process that the session's timeout may
kill before or after it committed the Job; the retry of `wait_for_slot`; the
workspace directory of an inline query; and the runner's export as far as the kernel
can tell.  Queries in `Named` share the working directory.  `_launch_payload` retries on
any operational error that mentions capacity, not only on full slots, and the ledger
raises one of these after it has committed a Pending Job when it cannot be saved
(`Strands`).  Such a Job has no runner, counts for the cap and ends by its grace
(`StrayEnds`); the next round may commit another.  So a launch may commit several Jobs, and
`OneRunPerLaunch` says what holds all the same: one of them at most is given to a runner.

`SharedRuntime`: `install` step by step under `install.lock`, with a failing command
or a death at each, stale temporary links, and damage done to a release from outside
while nobody installs.  A failed construction is removed with `ignore_errors`, so it may
leave nothing, a part, or all of the release (`Aborts`).  A release counts as complete by
its marker and its interpreter, as in `_complete_metadata`: a removal that spared these
two and took libraries is not told apart from one that took nothing.

### SmokeRun

One tmux pane, seen as nothing, a PASSCODE prompt, a shell, a busy shell, or the
interface, and one run of the batch after the other.  A step of a run either succeeds or raises
(`CallFails`), and leaves the pane wherever the lost key or the slow command left it;
`RaisedWith` is what each level makes of an exception.  Level 3 is
`controlled_job.main`; Levels 4 to 6 are `levels.main`.  A launched Job ends by
itself, with or without what it should have written, because the harness exists to
notice that.  The checks of Levels 1 and 2, which read a freshly started screen, are
one outcome of `Connects`; reports are left out.

## Runs

| Run | Instance | What it shows |
|---|---|---|
| `capacity_admission` | 3 calls, 2 processes (two calls share one), 2 of them asynchronous, limit 2, 3 Jobs, timeouts 0 and 1, clock to 1 | the queue's places and order, no leaked lease, honest outcomes |
| `capacity_faults` | 2 calls in 2 processes, limit 1, 2 Jobs, one of which may be revived, timeout 1, clock to 1, failing saves, reused pids, fair | the cap; the refinement of `SlotPool`; every call is answered and every lease given back |
| `capacity_ghost` | 2 synchronous calls | **violated**: a launch that raised may leave its intent behind |
| `lifecycle_promise` | 2 reconcilers, 2 calls, no cancel, fair | the manifest keeps `JobPromise`, the slot covers the query, the Job settles |
| `lifecycle_cancel` | 2 cancellers, 1 reconciler, 2 calls, slow start | what survives cancels: honest `Succeeded`, no call left behind but an unknown one, live runners spared |
| `lifecycle_cancel_sticks` | 1 canceller | **violated**: a Pending Job reported cancelled runs |
| `lifecycle_sigterm` | 1 canceller, fair | **violated**: the handler waits for the lock of the thread it interrupted |
| `tui` | 2 queries, 4 lines, 1 shell, 1 fault; 2 Jobs on the Dashboard; 2 schemas with 1 table; log of 3 bytes; queue of 2 | the safety of the monitor, the three screens, the log readers and telemetry |
| `monitor_liveness` | 1 query, 1 visit of Job Detail, 1 fault or recovery, fair | subscriptions balance and come back, an unwatched Job is let go of, a stat error does not last |
| `host` | 2 calls, 2 pools, 2 rounds, 3 lines; with the monitor 1 call, 1 shell that shows, 2 queries; 2 hosts; 2 queries; 3 installers, 2 bundles; Levels 3 to 6 | the safety of scripts, client, notebook, installer and smoke runs; the monthly rounds are bounded and end; a Job that ended well shows no failure |
| `log_follow` | a follower, 2 bytes | **violated**: bytes written after the follower returned |
| `smoke_csv` | Level 4 | **violated**: a CSV is verified that is not there |

Every property of a passing run has a mutant in `PROJECT.json`: a plausible bug in one
definition under which TLC finds the property violated.

*Bounds.*  Three calls are enough for a holder, a first and a second in the
queue; two Jobs beyond the limit for one that ends while another is admitted.
With limit 1 two calls already contend for everything, and one late runner
(`LateJobs`) already holds a Job of which the slot is given to the other; the runner's two
steps are left to that run, and timeout 0 (an immediate launch) to the other two: the
theorems cover both together.  `Horizon` bounds the
clock, and `RequestLaunch` only admits deadlines within it, so that every
deadline passes.  Each call and each Job is used once: a process that calls again
is another call of the same process (`ProcOf` maps several calls to one process).
Two orchestrator calls make one that follows a success and one that does not;
three clients make two that interfere with each other and one with the runner.

`tui` and `host` hold several parts that share no variable (`host` also the scripts
twice, alone and with their monitor).  `part` picks the one
that moves, so a run explores the sum of their states and not the product; nothing
is lost, since a step of one part cannot change what another's property reads, and
`HostComposes` and `TuiComposes` prove that it is a step of that part or a stutter.  Two
queries make one that supersedes the other; a retry needs two as well.  Four lines
hold a start, two queries and an end; one more is cut by the limit, and the one
fault (`MaxOdd`) is a torn line, a failing stat, a failing poll, or a query that
Impala forgot.  `tui` leaves Job Detail closed and `monitor_liveness` opens it, with
one query, because both together only multiply.  Three bytes make a whole line and a started
one, and one more than a chunk.  Two pools and two rounds show both ends of each
loop; a shell whose writer may fail (`FaultyShells`) and one whose writer may not
show a silent writer followed by one that writes.  Three installers are one that
dies, one that finds what it left, and one that waits.  A threshold of two failures
and one retry let a retry open the breaker.  Scripts with their
monitor (`Pipeline`) are a part of their own in `host`: one shell with two queries is
enough for a retry, a statement after another, and an exit between two polls; torn lines,
faults and the operator are left to `tui` and to the theorems, which bound nothing.

*Deadlock* is not checked: calls end, Jobs end, screens close, and then nothing
happens.  That nobody waits forever is `EveryCallSettles`, `JobSettles`,
`MonthlyEnds` and the liveness of the monitor.

*Fairness.*  In `Capacity` weak fairness of each call's own steps says that live
threads run, that statements end (`impala.query` bounds them by 30 s), and that
sleeps end; of `Tick`, that time passes.  Release and the asynchronous clean-up
wait for the lock (`flock` without a deadline, or a loop): strong fairness for
these two says the kernel and the poll eventually get it when it is free again
and again.  Nothing is assumed of crashes, failures, cancellations, or of the
order in which others get the lock.  In `JobLifecycle` processes run,
orchestrators end, exited processes are reaped, the grace passes and reconcilers
poll; nothing makes a runner crash, or anyone cancel.  In
`MonitorService` (`MonFairness`) the thread's loop goes on, a worker that was started
runs on, and every poller falls due in some tick again and again (strong fairness:
its time comes, but only ticks look).  The operator, the Job, Impala and the
Dashboard owe nothing.  In `Orchestrator` (`OrchFairness`) the script and its drain
thread run and a child ends; Impala may answer anything.

## Proofs

No theorem bounds a constant: what a run shows for two queries, three calls or one
fault is proved for any number.  Each proof assumes only the `ASSUME` of its modules,
which TLC evaluates in the runs, and each proof module also proves the type
invariants of the modules it is about.

`Capacity_proofs` proves, for any calls, processes, Jobs, limit, timeouts and
horizon, from `CapacityAssumption`:

- `CapSafe`: `Spec => []CapHolds`, the cap on leases and admitted Jobs, any set of Jobs
  having late runners;
- `CapacityImplementsPool`: `Spec => ImplementsPool`, the refinement;
- `PlaceSafe` and `FifoSafe`: the queue's places and order;
- `LeasesSafe`: `Spec => []NoLeaseLeaks`, and `OutcomesTrue`: `Spec =>
  []OutcomeMatchesJob`.

The cap is not inductive.  `CapInv` adds that the critical section excludes
(`Exclusive`), that only live processes are in it (`Alive`), that every holder is
on file and in the copy (`HoldersOnFile`), that the copy accounts for every admitted Job
except the one just created (`JobsCounted`), and that a commit has room
(`RoomToCommit`).  The ledger may count too much (a stranded owner, a Job that
has just ended), never too little.  The proof does not go action by action
through the cap: lemmas classify each step by how holders and slots move
(`SlotMove`: they shrink, or exactly one enters while there is room), and both
the cap and the refinement follow from that.  A runner's late write is no such move: the
Job it brings back had left the admitted ones for good.  The queue's argument is `QueueInv`:
sequence numbers are unique and below `next_sequence`, places are kept, and a
commit is first in line among the intents in the copy.  Leases rest on `NoStrays`:
every owner a reconciliation would keep still holds its lease, on file and in the
copy, because a release takes the owner off in the critical section it lets go in.
Outcomes rest on `OutcomeKnown`: a call past `begin_commit` cannot be cancelled any
more, and a Job exists for it from `Create` on.

`JobLifecycle_proofs` proves, for any cancellers, reconcilers and number of
orchestrator calls, from `LifecycleAssumption`:

- `HonestSuccess` (`Spec => []SucceededMeansAllCalls`) and
  `NoCallLeft` (`Spec => []HandlerLeavesNoCall`);
- `LiveRunnerSpared`: `Spec => ReconcileSparesLiveRunner`;
- under `Cancellers = {}` and `SlowBoot = FALSE`, `ManifestKeepsPromise`: `Spec =>
  KeepsPromise`, the refinement of `JobPromise`, and `SlotCovers`: `Spec =>
  []SlotCoversQuery`.

`MainInv` says what each place of the main thread knows: a child exists only
while a call is being made, a verdict exists once the loop is over, and the
manifest can only read Succeeded after the main thread has decided so.  It stands
under every interleaving with the handler, cancels and crashes because none of
those writes Succeeded or moves the main thread.  `SparesInv` is about the gap
between a reconciler's decision and its write: having decided to fail a *Running*
Job, its runner is dead and the launcher has finished, so no other runner can
appear; a comparison with the snapshot does the rest.  `PromiseInv` ties the
manifest to the runner's place while it lives.  Both conditions of the last two
theorems are needed: `lifecycle_cancel_sticks` shows what a cancel does to a
Pending Job, and a runner slower than the grace finds its Job failed at boot, or
fails to notice it between its check and its first write.

`Tools_proofs` proves of the Impala client `ProbeSafe` (`ClientSpec => []ProbeIsInFlight`) and
`OpenHostIsQuiet` (`ClientSpec => []OpenIsQuiet`) from `ClientAssumption`, for any
hosts, threshold and number of retries.  The second is not inductive: `HostInv` adds
that, while a breaker is open, the requests already sent and those of the threads that
have passed it and not sent yet are two at most (`PassedTo`), and `UrlInv` that an
observation asks for a detail endpoint.  The look of `allow` and the taking of the
probe are two steps in the model, and the theorems hold for every interleaving.

`Orchestrator_proofs` proves, from `ShellAssumption`, `OrchestratorAssumption` and
`CellsAssumption`, for any calls, pools, rounds, lines and queries and whichever
shells fail to write:

- `ShellKeepsEventFile`: `ShellSpec => KeepsEventFile`, and `ScriptsKeepEventFile`:
  `OrchSpec => KeepsEventFile`, the refinement of `EventFile`, step by step;
- `NoOrphanSafe`: `OrchSpec => []NoOrphanExport`, and `CsvSafe`: `OrchSpec =>
  CsvIsWhole`;
- `RoundsSafe`: `OrchSpec => []RoundsBoundShells`, and `MonthlyShells`: a monthly Job never
  shows more than `MaxCycles * Pools` shells.  This is the safety half of `MonthlyEnds`,
  whose liveness stays with TLC.

The refinement needs to know what the shell at hand may still write: shell identities
grow (`IdsGrow`), only its own queries are open (`ShellOwnsFile`), and a line that waits
in the pipe is of a query that is already on its way (`PipeInOrder`).  `CsvIsWhole` needs two facts
more: a child that exits with zero has left no query of its own in an exception
(`ZeroIsClean`), and an export that is judged after a zero is whole (`ExportIsWhole`).
The rounds need `MonthlyInv`: the shell of the moment is the last attempt's, and an attempt
that is still to be made has not shown in the file or to Impala yet, so that a fresh
identity never runs ahead of the count.

`Monitor_proofs` proves, from `EventFileAssumption` and `MonitorAssumption`, for any
shells, lines, queries, visits and faults:

- `ReplaySafe`: `MonSpec => []TreeIsReplay`, the tree is the replay of the lines read;
- `LeavesSafe`: `MonSpec => []LeavesArePolled`, a query is polled on exactly while it
  is a leaf;
- `OutcomesSafe`: `MonSpec => []OutcomeIsImpalas`, and `OutcomesStay`: `MonSpec =>
  OutcomeIsKept`, an outcome shown is Impala's, and the poller that saw it keeps it;
- `SubscriptionsSafe`: `MonSpec => []SubscriptionsBalance`.

The tree is a fold over the lines, so the proof starts with induction: the library's
induction theorems take an operator as a parameter and cannot be used here, but a set
of numbers has a least member (`Least`, from `<` being well-founded), which gives
induction over a set of numbers.  With it, the function the library's fold chooses is
shown to exist and lines may be fed in two parts (`FeedsConcat`): a read that
continues where the last one stopped yields the tree that one read of everything would have.
The second part says what each operator of the tree keeps, and that it treats
trees alike that hold the same queries in the same places (`Mirrors`).  The third finds
five ways a step may move tree and pollers (`Moves`: it holds them, drops them, reads
the file, hears from a poller, or recovers an identity) and shows that each keeps
`MonInv`.  `MonInv` is needed because the properties lean on each other: a terminal
outcome is in the poller before it is in the tree, so that `Reattached` finds it when the tree is
built anew; an answer on its way agrees with what was seen before it left
(`ThreadInv`); and a query in the tree is one the file names.

`Tui_proofs` is about flows that await something while what they read goes on
changing.  `LaunchesTheConfirmed` (`NewJobSpec =>
LaunchesWhatWasConfirmed`, any prefills) holds because the worker carries the plan
it made before the dialog, not the form (`FlowCarries`): that plan is in a legal cell and
gated by its own text, whatever the file said at the two reads before, and past the dialog
it is the approved one.  `DropsTheConfirmed` (`BrowserSpec =>
DropsWhatWasConfirmed`, any schemas and tables, from `SchemasExist`) holds because
what is left to drop is within what was agreed to at every step, and so is what is
asked once it has been answered with yes (`Agreed`).
`AnnouncedOnce` (`DashSpec => []NotifiesOnce`, any Jobs) rests on `EndsStay`: a Job
that was announced reads as ended on disk, in both listings the screen keeps and in the
one it has just read, so no later comparison sees it end again.  `FlushIsHonest`
(`TelSpec => []FlushMeansHandled`, any callers, capacity and number of events, from
`TelemetryBounds`) rests on one order through queue, writer and files (`OneOrder`), and
on no event older than a flush being queued behind its request (`RequestsBehind`).

`Tools_proofs` proves `ActiveStays` (`RtSpec => ActiveStaysUsable`) from
`RuntimeAssumption`, for any installers and bundles.  `HolderKnows` says what the
holder of `install.lock` may rely on: it builds only a release that is not active, and
the release it links is usable.  It is claimed of the holder only, so a death that frees
the lock keeps it, and so does damage, which is assumed to happen only while nobody
holds the lock.  It also proves `PassEarned` (`SmokeSpec => PassIsEarned`) from `SmokeCells`,
for any levels and any cells of Level 4.  `SmokeInv` follows the batch: as long as no
step failed, what is over was earned, what comes has not begun, and the step at hand
says how much of its run is done (`AtHand`).

For the notebook API it proves `LaunchesOnce` (`NbSpec => []OneRunPerLaunch`) and `RowsSafe`
(`NbSpec => []RowsAreTheJobs`) from `NotebookBounds`, for any queries, slots and tries.
`NotebookInv` says, for each place of the CLI a launch may have been killed or refused at,
what it has handed over (`LaunchKnown`): a round that is tried again has given its runner
nothing, whatever it stranded; and that the directory of an inline query holds its
own export or none (`ResultKnown`).

`LogFollow_proofs` proves `LogSafe` (`LogSpec => []LogIsWhole`) from `LogBounds`, for any
bytes, chunk, view, tail and number of truncations.  `LogIsWhole` compares two ways to
cut a log into lines: the reader's, which splits chunk after chunk and carries the rest
(`Split`, a fold), and the log's own (`LinesOf`, which also ends a line where a reader
gave an unfinished one away).  Both are shown to be runs over the bytes, one byte at a
time, and `ReadsOn` says that to split the next chunk after what is held back and glue it
to the lines so far is to cut the longer log.  `LogInv` is needed around it.  Between
`Sizes` and the read the reader may hold lines of a file that shrank, so it is true to the
log only if its offset is within the size it saw (`TrueToTheLog`); a reader that saw the
Job end has seen a size that covers what was written then, so a follower
returns with all of it; and every line took a byte of the file at least
(`LinesTookBytes`), so the offset bounds what is counted as out of view.

Two compositions are proved from their parts.  `HostComposes` and `TuiComposes` say that a
step of `MC_Host` or `MC_Tui` is, for each part, a step of its own specification or
a stutter.  With them `HostTypes` and `TuiTypes` give the type invariant of the whole, and
`HostSafe` and `TuiSafe` every safety property the two runs check.

`Pipeline_proofs` proves, from the assumptions of `Orchestrator` and
`PipelineAssumption`, for any calls, pools, rounds, lines, queries, visits and faults:

- `ScriptsFeedMonitor`: `PipelineSpec => FeedsMonitor`.  The scripts implement
  `EventFile` with a life that ends at SIGTERM, and the monitor reads one that ends with
  the Job.  A step that ends the Job writes nothing (`EndWritesNothing`), after it Impala
  alone moves (`OverIsFinal`), and any other step is the same step of both files
  (`SameFile`).
- `SuccessIsShown`: `PipelineSpec => []SuccessShowsNoFailure`.  It brings two theorems
  together: a shell that exited with zero left no query in an exception (`ZeroIsClean`,
  from the scripts' side), and an outcome shown is Impala's (`OutcomesSafe`, from the
  monitor's, which `ScriptsFeedMonitor` makes available).  `EndedWell` adds that a script
  ends well only on a zero.  `Proved` is a second instance of the monitor through
  `Monitor_proofs`, and `SameSpec` says that the two instances are one specification.

Only model-checked: liveness (`EveryCallSettles`, `JobSettles`, `MonthlyEnds`,
`LeftMeansReturned`, `FinallyPruned`, `AvailableAgain`; fairness and `ENABLED` are outside
the prover) and the violated properties.  Every other property a run checks is a theorem.
The inductive invariants are proved; those no run names were checked with TLC before they
were proved.

## Disagreements found

1. `capacity_ghost`: `admit_launch` cleans up with a single try of the lock
   (`capacity.py:902`) and ignores the failure, where the tests and the plan say
   the intent is removed.
2. `lifecycle_cancel_sticks`: `cancel_job` and `runner.run` write the manifest
   blindly; a cancelled Pending Job can run, and a Job that runs can read
   Cancelled.  Either holds no slot while it does, so the two-Job cap over all Jobs that
   run ("Only two Jobs may be Pending or Running at once", `docs/notebook-api.md:166`) does not hold: `Capacity` keeps it for the
   others (`CapHolds`).
3. `lifecycle_sigterm`: SIGTERM during the runner's own `manifest.update` blocks
   the runner for good.
4. `log_follow`: `follow_logs` takes the terminal state for the end of the log, but a
   cancelled Job reads Cancelled up to ten seconds before its orchestrator is dead
   (`runner.py:84`); `cli_job.py:151` promises the remaining bytes.
5. `smoke_csv`: `evaluate_csv_probe` looks for `CSV_OK` and `magic=` on the whole pane,
   where its own echoed command holds both, so a missing or compressed CSV passes;
   the docstring (`controlled_job.py:452`) and `test_levels_logic.py:152-160` say it raises.

One more, which no run of its own shows: `notebook.py:385` says that `wait_for_slot` retries
"while the two-Job cap is full", but `_is_capacity_refusal` (852) goes by the words
"capacity" and "concurrency cap", which every ledger error has.  A launch whose ledger save fails
after the commit is thus launched again, and two Jobs exist for it (`Strands`, then
`RetriesFull`); the first has no runner and holds a slot until its grace ends.

## Not modelled

The advisor's rules, SQL helpers, result formats and Kerberos parsing: pure functions
over data.  Deployment scripts (`install.sh`, `update.sh`, `onboard.sh`, `deploy.py`,
`preflight.py`, `drift.py`): straight lines of commands that stop at the first failure.
Layout, help, history and the sidebar.  `stop` and a second `start` of the monitor
service.  The mtime cache of `jobs.py`, whose granularity is the file system's, and
which a reader can only be told to distrust.

## Plan

1. `Dispatch`: several Jobs of `JobLifecycle` under the admission of `Capacity`, for
   the cap on *running queries* rather than on manifests (what a resurrected Job does
   to it).
2. Several Jobs under one monitor thread, where a slow poll of one delays another.
