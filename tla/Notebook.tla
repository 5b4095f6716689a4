------------------------------ MODULE Notebook ------------------------------
(***************************************************************************)
(* dispatch/notebook.py over the `dispatch job` CLI (cli_job.py, job_ops). *)
(* A kernel runs one call at a time and each call runs one CLI process at  *)
(* a time, which commits the Job and hands it to a detached runner; the    *)
(* timeout of the session may kill that process at any point.  Inline SQL  *)
(* gets a workspace directory of its own, a launch with a table name       *)
(* shares the working directory.  Anyone may clean the workspace up.       *)
(***************************************************************************)
EXTENDS Naturals, FiniteSets

CONSTANTS
    Queries,       \* launches, each by sql() or launch()
    Named,         \* those launched with launch(table=...) in the working directory
    Slots,         \* the Jobs that may be Pending or Running at once
    MaxTries       \* bound: rounds of one launch, and polls of one wait

\* No directory of a query is the working directory, and no query is nothing.
ASSUME NotebookBounds ==
    /\ Named \subseteq Queries /\ {Slots, MaxTries} \subseteq Nat \ {0}
    /\ {"cwd", "nothing"} \cap Queries = {}

VARIABLES
    call,     \* what the kernel is doing, and for which query
    tries,    \* rounds of the loop that the call runs
    cli,      \* the CLI process: how far it came
    outcome,  \* per query: how its launch ended for the kernel
    view,     \* per query: the state in the kernel's Job object
    rows,     \* per query: whose output the kernel read as its Result
    dirs,     \* the workspace directory of each query
    exported,      \* per directory: whose export is in it
    jobs,     \* per query: the Job its CLI holds, and those it committed and lost
    runner    \* per query: how many of its Jobs a runner was given

nbVars == <<call, tries, cli, outcome, view, rows, dirs, exported, jobs, runner>>
kernelVars == <<outcome, view, rows>>
hostVars == <<dirs, exported, jobs, runner>>

Nothing == "nothing"
States == {"Pending", "Running", "Succeeded", "Failed", "Cancelled"}
TERMINAL_STATES == {"Succeeded", "Failed", "Cancelled"}
NoCall == [pc |-> "idle", of |-> Nothing]

\* Mutant: every query works in the directory of the kernel.
SharedPlace(q) == "cwd"

Place(q) == IF q \in Named THEN "cwd" ELSE q

NbTypeOK ==
    /\ call \in [pc : {"idle", "launch", "poll", "read", "cancel"},
                 of : Queries \cup {Nothing}]
    /\ tries \in 0 .. MaxTries
    /\ cli \in {"none", "checks", "committed", "ok", "usage", "capacity", "failed"}
    /\ outcome \in [Queries -> {"none", "returned", "refused", "lost"}]
    /\ view \in [Queries -> States \cup {"none"}]
    /\ rows \in [Queries -> Queries \cup {Nothing}]
    /\ dirs \in [Queries -> {"none", "made", "gone"}]
    /\ exported \in [{Place(q) : q \in Queries} -> Queries \cup {Nothing}]
    /\ jobs \in [Queries -> [state : States \cup {"none"}, strays : SUBSET (1 .. MaxTries)]]
    /\ runner \in [Queries -> 0 .. MaxTries]

JobTo(q, state) == jobs' = [jobs EXCEPT ![q].state = state]
Back(q) == call' = NoCall /\ tries' = 0 /\ cli' = "none"

\* The Jobs that hold a slot, each by its query and the round that committed it, 0 for the
\* Job the CLI holds.  A stray Job is Pending for as long as it counts.
Active ==
    {<<q, 0>> : q \in {x \in Queries : jobs[x].state \in {"Pending", "Running"}}}
      \cup UNION {{q} \X jobs[q].strays : q \in Queries}

----------------------------------------------------------------------------
(* Dispatch.sql, table and launch *)

\* _new_query_dir and the Inline SQL, then _launch_payload starts the CLI.
Launch(q) ==
    /\ call = NoCall /\ outcome[q] = "none"
    /\ call' = [pc |-> "launch", of |-> q] /\ cli' = "checks" /\ tries' = 1
    /\ dirs' = IF q \in Named THEN dirs ELSE [dirs EXCEPT ![q] = "made"]
    /\ UNCHANGED <<kernelVars, exported, jobs, runner>>

\* _commit_pending reconciles and saves the ledger after create_pending: when either fails,
\* a Pending Job stays behind, and the error of the save reads "capacity".
Strands(q) ==
    /\ cli' \in {"failed", "capacity"}
    /\ jobs' = [jobs EXCEPT ![q].strays = @ \cup {tries}]

\* cli_job launch: validation and the Advisor, the ticket, the capacity ledger.  No slot, a
\* deadline and a ledger that cannot be used read "capacity" all three.
CliChecks(q) ==
    /\ call = [pc |-> "launch", of |-> q] /\ cli = "checks"
    /\ \/ cli' \in {"usage", "failed", "capacity"} /\ UNCHANGED jobs
       \/ /\ Cardinality(Active) < Slots
          /\ (cli' = "committed" /\ JobTo(q, "Pending")) \/ Strands(q)
    /\ UNCHANGED <<call, tries, kernelVars, dirs, exported, runner>>

\* launch_runner_after_commit: a handoff that fails ends the Job.
CliHandsOff(q) ==
    /\ call = [pc |-> "launch", of |-> q] /\ cli = "committed"
    /\ \/ cli' = "ok" /\ runner' = [runner EXCEPT ![q] = @ + 1] /\ UNCHANGED jobs
       \/ cli' = "failed" /\ JobTo(q, "Failed") /\ UNCHANGED runner
    /\ UNCHANGED <<call, tries, kernelVars, dirs, exported>>

\* A refused launch raises, and the directory of an inline query goes.
Raises(q, how) ==
    /\ Back(q) /\ outcome' = [outcome EXCEPT ![q] = how]
    /\ dirs' = IF q \in Named THEN dirs ELSE [dirs EXCEPT ![q] = "gone"]
    /\ exported' = IF q \in Named THEN exported ELSE [exported EXCEPT ![q] = Nothing]

\* Mutant: every operational error is tried again, the timeout of the command too.
RetriesTimedOut(q) ==
    /\ call = [pc |-> "launch", of |-> q] /\ cli # "usage" /\ tries < MaxTries
    /\ cli' = "checks" /\ tries' = tries + 1
    /\ UNCHANGED <<call, kernelVars, hostVars>>

\* With wait_for_slot a launch is tried again when its error reads like capacity, and no
\* other: the time between two rounds is when slots come free.
RetriesFull(q) ==
    /\ call = [pc |-> "launch", of |-> q] /\ cli = "capacity" /\ tries < MaxTries
    /\ cli' = "checks" /\ tries' = tries + 1
    /\ UNCHANGED <<call, kernelVars, hostVars>>

RaisesRefused(q) ==
    /\ call = [pc |-> "launch", of |-> q] /\ cli \in {"usage", "failed", "capacity"}
    /\ Raises(q, "refused") /\ UNCHANGED <<view, rows, jobs, runner>>

\* Launched: Job(...).refresh() asks for its manifest.
ShowsLaunched(q) ==
    /\ call = [pc |-> "launch", of |-> q] /\ cli = "ok"
    /\ \/ /\ Back(q) /\ outcome' = [outcome EXCEPT ![q] = "returned"]
          /\ view' = [view EXCEPT ![q] = jobs[q].state] /\ UNCHANGED <<dirs, exported>>
       \/ Raises(q, "lost") /\ UNCHANGED view
    /\ UNCHANGED <<rows, jobs, runner>>

\* The command timeout kills the CLI, wherever it is.
LaunchTimesOut(q) ==
    /\ call = [pc |-> "launch", of |-> q] /\ cli \in {"checks", "committed", "ok"}
    /\ Raises(q, "lost") /\ UNCHANGED <<view, rows, jobs, runner>>

----------------------------------------------------------------------------
(* Job.wait, cancel, and the Result *)

Starts(q, pc) ==
    /\ call = NoCall /\ outcome[q] = "returned"
    /\ call' = [pc |-> pc, of |-> q] /\ tries' = 0
    /\ UNCHANGED <<cli, kernelVars, hostVars>>

Waits(q) == Starts(q, "poll")
Cancels(q) == Starts(q, "cancel")

\* to_df and rows wait unless the kernel knows the Job to be terminal.
Reads(q) == rows[q] = Nothing /\ Starts(q, IF view[q] \in TERMINAL_STATES THEN "read" ELSE "poll")

Polls(q) ==
    /\ call = [pc |-> "poll", of |-> q] /\ tries < MaxTries
    /\ view' = [view EXCEPT ![q] = jobs[q].state]
    /\ IF jobs[q].state \in TERMINAL_STATES THEN Back(q)
       ELSE tries' = tries + 1 /\ UNCHANGED <<call, cli>>
    /\ UNCHANGED <<outcome, rows, hostVars>>

\* WaitTimeout, or a poll that fails: the Job goes on.
WaitGivesUp(q) ==
    /\ call = [pc |-> "poll", of |-> q]
    /\ Back(q) /\ UNCHANGED <<kernelVars, hostVars>>

\* job_ops.cancel_job, then refresh; a Job without runner is cancelled in its manifest, a
\* runner is signalled and may be over first.
CancelActs(q) ==
    /\ call = [pc |-> "cancel", of |-> q]
    /\ \/ jobs[q].state \in {"Pending", "Running"} /\ JobTo(q, "Cancelled")
       \/ UNCHANGED jobs
    /\ view' = [view EXCEPT ![q] = jobs'[q].state]
    /\ Back(q) /\ UNCHANGED <<outcome, rows, dirs, exported, runner>>

\* _result_path_when_successful, resolve_result_path and the strict reads of results.py.
ReadsResult(q) ==
    /\ call = [pc |-> "read", of |-> q]
    /\ rows' = IF view[q] = "Succeeded" THEN [rows EXCEPT ![q] = exported[Place(q)]] ELSE rows
    /\ Back(q) /\ UNCHANGED <<outcome, view, hostVars>>

\* Dispatch.cleanup, of this kernel or of another one.
CleansUp(q) ==
    /\ dirs[q] = "made" /\ call # [pc |-> "launch", of |-> q]
    /\ dirs' = [dirs EXCEPT ![q] = "gone"] /\ exported' = [exported EXCEPT ![q] = Nothing]
    /\ UNCHANGED <<call, tries, cli, kernelVars, jobs, runner>>

----------------------------------------------------------------------------
(* The runner and its export, as the kernel can tell them apart *)

JobStarts(q) ==
    /\ runner[q] > 0 /\ jobs[q].state = "Pending" /\ JobTo(q, "Running")
    /\ UNCHANGED <<call, tries, cli, kernelVars, dirs, exported, runner>>

\* download_to_csv replaces the file; without the directory it fails.
JobExports(q) ==
    /\ jobs[q].state = "Running" /\ exported[Place(q)] # q
    /\ IF dirs[q] = "gone" THEN JobTo(q, "Failed") /\ UNCHANGED exported
       ELSE exported' = [exported EXCEPT ![Place(q)] = q] /\ UNCHANGED jobs
    /\ UNCHANGED <<call, tries, cli, kernelVars, dirs, runner>>

\* The runner ends; a Job that nobody runs is reconciled.
JobEnds(q) ==
    /\ \/ jobs[q].state = "Running" /\ exported[Place(q)] = q /\ JobTo(q, "Succeeded")
       \/ jobs[q].state = "Running" /\ JobTo(q, "Failed")
       \/ jobs[q].state = "Pending" /\ runner[q] = 0 /\ cli # "committed" /\ JobTo(q, "Failed")
    /\ UNCHANGED <<call, tries, cli, kernelVars, dirs, exported, runner>>

\* The grace of a stray Job runs out at somebody's reconciliation, or somebody cancels it.
StrayEnds(q) ==
    /\ \E t \in jobs[q].strays : jobs' = [jobs EXCEPT ![q].strays = @ \ {t}]
    /\ UNCHANGED <<call, tries, cli, kernelVars, dirs, exported, runner>>

NbInit ==
    /\ call = NoCall /\ tries = 0 /\ cli = "none"
    /\ outcome = [q \in Queries |-> "none"] /\ view = [q \in Queries |-> "none"]
    /\ rows = [q \in Queries |-> Nothing] /\ dirs = [q \in Queries |-> "none"]
    /\ exported = [p \in {Place(q) : q \in Queries} |-> Nothing]
    /\ jobs = [q \in Queries |-> [state |-> "none", strays |-> {}]]
    /\ runner = [q \in Queries |-> 0]

NbNext == \E q \in Queries :
    \/ Launch(q) \/ CliChecks(q) \/ CliHandsOff(q) \/ RetriesFull(q) \/ RaisesRefused(q)
    \/ ShowsLaunched(q) \/ LaunchTimesOut(q)
    \/ Waits(q) \/ Cancels(q) \/ Reads(q) \/ Polls(q) \/ WaitGivesUp(q)
    \/ CancelActs(q) \/ ReadsResult(q) \/ CleansUp(q)
    \/ JobStarts(q) \/ JobExports(q) \/ JobEnds(q) \/ StrayEnds(q)

NbSpec == NbInit /\ [][NbNext]_nbVars

----------------------------------------------------------------------------

\* The Result an analyst reads for an inline query is the output of that query and of a Job
\* that succeeded, or is missing: never what another Job exported to the same name.
RowsAreTheJobs ==
    \A q \in Queries \ Named :
        rows[q] # Nothing => rows[q] = q /\ jobs[q].state = "Succeeded"

\* The SQL of a launch is run by one runner at most, however often the launch is tried again
\* and whatever Jobs the earlier rounds committed before they failed; a launch that was
\* refused leaves nothing that could run, and one that returned has its runner.
OneRunPerLaunch ==
    \A q \in Queries :
        /\ runner[q] <= 1
        /\ outcome[q] = "refused" => jobs[q].state \in {"none", "Failed"} /\ runner[q] = 0
        /\ outcome[q] = "returned" => runner[q] = 1

----------------------------------------------------------------------------
(* Why they hold: the inductive invariant *)

Launching(q) == call = [pc |-> "launch", of |-> q]
Untouched(q) == jobs[q].state = "none" /\ runner[q] = 0

\* How far a launch came says what it has committed and handed over.
LaunchKnown(q) ==
    /\ runner[q] <= 1
    /\ Launching(q) => outcome[q] = "none" /\ tries > 0
    /\ outcome[q] = "none" /\ ~Launching(q) => Untouched(q)
    /\ Launching(q) =>
          \/ cli \in {"checks", "usage", "capacity"} /\ Untouched(q)
          \/ cli = "committed" /\ jobs[q].state = "Pending" /\ runner[q] = 0
          \/ cli = "failed" /\ jobs[q].state \in {"none", "Failed"} /\ runner[q] = 0
          \/ cli = "ok" /\ runner[q] = 1
    /\ outcome[q] = "refused" => jobs[q].state \in {"none", "Failed"} /\ runner[q] = 0
    /\ outcome[q] = "returned" => runner[q] = 1

\* A query's directory holds its own export or none, and the kernel takes a Job
\* for Succeeded only when it is.
ResultKnown(q) ==
    /\ view[q] = "Succeeded" => jobs[q].state = "Succeeded"
    /\ q \notin Named => exported[q] \in {Nothing, q}
    /\ q \notin Named /\ rows[q] # Nothing => rows[q] = q /\ jobs[q].state = "Succeeded"

NotebookInv == NbTypeOK /\ \A q \in Queries : LaunchKnown(q) /\ ResultKnown(q)
=============================================================================
