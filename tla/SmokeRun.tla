------------------------------ MODULE SmokeRun ------------------------------
(***************************************************************************)
(* tools/prod_tui: a controlled smoke run launches Jobs through the        *)
(* interface of a production host and judges them.  All of it happens in   *)
(* one tmux pane: the commands of the harness, the interface, and what it  *)
(* reads back.  Any call of the driver may raise and leave the pane where  *)
(* it was; a Job, once launched, goes on by itself.  Level 3 is            *)
(* controlled_job.main, with one table.  Levels 4 to 6 are levels.main:    *)
(* the other cells in turn, the checks of supervision, and fidelity.       *)
(***************************************************************************)
EXTENDS Naturals, Sequences

CONSTANTS
    Levels,           \* the levels of this instance
    Level4Cells       \* the cells of Level 4 in this instance

ASSUME SmokeCells ==
    /\ Levels \subseteq 3 .. 6
    /\ Level4Cells \subseteq
          {"sqlfile_csv", "sqlfile_table_csv", "sqltemplate_table", "existingtable_csv"}
    /\ 4 \in Levels => Level4Cells # {}

VARIABLES
    invocation,    \* the level and the flags
    pane,          \* what the pane shows; "none" without a session
    step,          \* where the invocation is
    at,            \* the run of the batch it is at
    runs,          \* per run: its Job, what the Job has made, the scratch files, the steps
    exitCode

smokeVars == <<invocation, pane, step, at, runs, exitCode>>

Panes == {"none", "auth", "shell", "busy", "tui"}

\* JobSpec: what a cell writes, and so what verify_artifact looks for.
WritesTable(cell) ==
    cell \in {"sqlfile_table", "sqlfile_table_csv", "sqltemplate_table",
              "detached_survival", "data_correctness", "soak"}
WritesCsv(cell) == cell \in {"sqlfile_csv", "sqlfile_table_csv", "existingtable_csv"}

Launches(cell) == WritesTable(cell) \/ WritesCsv(cell)

\* The batch of Level 4: a dry run seeds no table for the cell that exports one.
Batch4 ==
    LET Kept(cell) == IF cell \in Level4Cells THEN <<cell>> ELSE <<>>
    IN  Kept("sqlfile_csv") \o Kept("sqlfile_table_csv") \o Kept("sqltemplate_table")
          \o (IF "existingtable_csv" \in Level4Cells /\ ~invocation.dry
              THEN <<"sqlfile_table">> ELSE <<>>)
          \o Kept("existingtable_csv")

Batch ==
    CASE invocation.level = 3 -> <<"sqlfile_table">>
      [] invocation.level = 4 -> Batch4
      [] invocation.level = 5 -> <<"concurrency_cap", "illegal_destination", "detached_survival">>
      [] invocation.level = 6 -> <<"data_correctness", "soak", "upgrade_in_place">>

Cell == Batch[at]
Seeds == invocation.level = 4 /\ Cell = "sqlfile_table"

\* A run: its Job, what that has made, its scratch files, whether its steps passed and
\* whether the cleanup knows of it.
NoRun == [job |-> "none", table |-> FALSE, csv |-> "none", files |-> FALSE,
          ok |-> TRUE, known |-> TRUE]

SmokeSteps == {"session", "file", "preconditions", "open", "form", "preview", "launch", "quit",
               "wait", "verify", "read", "check", "cleanup", "done"}

\* The step a run begins with: it launches a Job, or it is a check without one.
FirstStep(cell) == IF Launches(cell) THEN "file" ELSE "check"

SmokeTypeOK ==
    /\ invocation \in [level : Levels, dry : BOOLEAN, reuse : BOOLEAN, failFast : BOOLEAN]
    /\ pane \in Panes /\ step \in SmokeSteps /\ exitCode \in 0 .. 2
    /\ at \in 1 .. Len(Batch)
    /\ runs \in [1 .. Len(Batch) -> [job : {"none", "Running", "Succeeded", "Failed"},
                                     table : BOOLEAN, csv : {"none", "plain", "gzip"},
                                     files : BOOLEAN, ok : BOOLEAN, known : BOOLEAN]]

----------------------------------------------------------------------------

\* The end of a batch: a failed step of any run is exit code 1.
Judged(rs) == IF \E i \in DOMAIN rs : ~rs[i].ok THEN 1 ELSE 0

\* The run at hand is over, with the runs as rs.  Level 4 goes on after a failure, past the
\* export too when its seed failed, unless it is to fail fast.
Over(rs) ==
    LET next == IF Seeds /\ ~rs[at].ok THEN at + 2 ELSE at + 1
        stops == next > Len(Batch) \/ (invocation.failFast /\ ~rs[at].ok)
    IN  /\ runs' = rs
        /\ IF stops THEN step' = "cleanup" /\ exitCode' = Judged(rs) /\ at' = at
                    ELSE step' = FirstStep(Batch[next]) /\ at' = next /\ UNCHANGED exitCode

\* An exception ends the run.  Level 4 and a soak record it with the run; Level 5 records it
\* with a placeholder, and the run itself is forgotten; Level 3 exits 1 and records no step
\* of it; anywhere else in Level 6 it is the end, and every run is forgotten.
RaisedWith(rs) ==
    CASE invocation.level = 4 \/ Cell = "soak" -> Over([rs EXCEPT ![at].ok = FALSE])
      [] invocation.level = 5 -> Over([rs EXCEPT ![at].ok = FALSE, ![at].known = FALSE])
      [] OTHER -> /\ exitCode' = 1 /\ step' = "cleanup" /\ UNCHANGED at
                  /\ runs' = [i \in DOMAIN rs |->
                                [rs[i] EXCEPT !.known = invocation.level = 3]]

Raised == RaisedWith(runs)

\* A step is recorded as failed.  That is an exception, but for the check of Level 5.
FailedStep == [runs EXCEPT ![at].ok = FALSE]
Refused == IF Cell = "detached_survival" THEN Over(FailedStep) ELSE RaisedWith(FailedStep)

GoesTo(s) == step' = s /\ UNCHANGED <<at, runs, exitCode>>

\* What a call of the driver leaves on the pane when it raises: a key was lost, the command
\* was too slow, or the session is gone.  Nothing gets past a PASSCODE prompt.
LeftBehind == IF pane \in {"none", "auth"} THEN {pane} ELSE {pane, "busy", "none"}

CallFails == pane' \in LeftBehind /\ Raised

\* run_remote: return_to_shell quits the interface first, or waits a command out.
ReachesShell == pane \in {"shell", "busy", "tui"}

RunsRemote == ReachesShell /\ pane' = "shell"

----------------------------------------------------------------------------

\* The session: an existing one is taken as it is; start_session returns at a shell or,
\* without a passcode, at the prompt for one.  The checks of Levels 1 and 2 may fail first.
Connects ==
    /\ step = "session"
    /\ \/ pane # "none" /\ GoesTo(FirstStep(Cell)) /\ UNCHANGED pane
       \/ /\ pane = "none" /\ ~invocation.reuse /\ pane' \in {"shell", "auth"}
          /\ GoesTo(FirstStep(Cell))
       \/ /\ IF invocation.level = 3 THEN pane' \in Panes
             ELSE pane = "none" /\ pane' \in (IF invocation.reuse THEN {"none"} ELSE {"none", "auth"})
          /\ step' = "cleanup" /\ exitCode' = 1 /\ UNCHANGED <<at, runs>>

\* create_smoke_sql_file.
WritesFile ==
    /\ step = "file"
    /\ \/ /\ RunsRemote /\ step' = "preconditions"
          /\ runs' = [runs EXCEPT ![at].files = TRUE]
          /\ UNCHANGED <<at, exitCode>>
       \/ CallFails

\* collect_preconditions, with the interface open for the count of running Jobs: the ticket,
\* the names, and fewer than two Jobs running.
FewJobs == \A i, j \in DOMAIN runs : runs[i].job = "Running" /\ runs[j].job = "Running" => i = j

ChecksFirst ==
    /\ step = "preconditions"
    /\ \/ FewJobs /\ ReachesShell /\ pane' = "tui" /\ GoesTo("open")
       \/ ReachesShell /\ pane' = "tui" /\ Refused
       \/ CallFails

\* open_prefilled_new_job, verify_prefilled_form and preview_and_verify: the interface is
\* left, started again on the prefilled form, read, and led through the preview and back.
OpensForm ==
    /\ step = "open"
    /\ \/ ReachesShell /\ pane' = "tui" /\ GoesTo("form")
       \/ CallFails

\* The form of an ExistingTable cell must show the seeded table: a dry run has none, and
\* reading its name raises.
FormCanPass == ~(Cell = "existingtable_csv" /\ invocation.dry)

ReadsForm ==
    /\ step = "form"
    /\ \/ /\ pane = "tui" /\ FormCanPass /\ UNCHANGED pane
          /\ GoesTo(IF Cell = "detached_survival" THEN "launch" ELSE "preview")
       \/ CallFails

\* A dry run is for Levels 3 and 4.
DryRun == invocation.dry /\ invocation.level \in {3, 4}

\* The preview, and then the end of a dry run: "q", and the pane may not be back at the
\* shell when the run is over.
Previews ==
    /\ step = "preview"
    /\ \/ pane = "tui" /\ ~DryRun /\ UNCHANGED pane /\ GoesTo("launch")
       \/ pane = "tui" /\ DryRun /\ pane' \in {"tui", "shell"} /\ Over(runs)
       \/ CallFails

\* launch_and_confirm: once "y" went in, the Job is launched whether or not the toast is seen.
Launched == [runs EXCEPT ![at].job = "Running"]

ConfirmsLaunch ==
    /\ step = "launch"
    /\ \/ /\ pane = "tui" /\ runs' = Launched
          /\ step' = IF Cell = "detached_survival" THEN "quit" ELSE "wait"
          /\ UNCHANGED <<pane, at, exitCode>>
       \/ pane = "tui" /\ pane' \in LeftBehind /\ RaisedWith(Launched)
       \/ CallFails

\* check_detached_survival: the interface is left to the shell before the Job is waited for.
QuitsInterface ==
    /\ step = "quit"
    /\ \/ RunsRemote /\ GoesTo("wait")
       \/ CallFails

\* Mutant: any end of the Job will do.
AwaitsAnyEnd ==
    /\ step = "wait"
    /\ \/ RunsRemote /\ runs[at].job \in {"Succeeded", "Failed"} /\ GoesTo("verify")
       \/ CallFails

\* wait_for_job_completion: the manifest is polled from the shell until the Job has ended, or
\* for max_smoke_job_wait_seconds.
AwaitsJob ==
    /\ step = "wait"
    /\ \/ RunsRemote /\ runs[at].job = "Succeeded" /\ GoesTo("verify")
       \/ RunsRemote /\ runs[at].job = "Failed" /\ Refused
       \/ CallFails

\* verify_table_exists trusts a result row only; it may never see the table.
TableSeen == runs[at].table

\* evaluate_csv_probe looks for CSV_OK and for the first magic= on the whole pane, where the
\* command itself is echoed with both; CSV_OK of the echo may be cut by the end of a line.
ProbePasses == \E cut \in BOOLEAN : cut => runs[at].csv # "none"

\* verify_artifact; Level 3 asks for its table, and data_correctness goes on to read it back.
ReadsArtifact ==
    /\ step = "verify"
    /\ \/ /\ RunsRemote /\ (WritesTable(Cell) => TableSeen) /\ (WritesCsv(Cell) => ProbePasses)
          /\ IF Cell = "data_correctness" THEN GoesTo("read") ELSE Over(runs)
       \/ CallFails

ReadsBack ==
    /\ step = "read"
    /\ \/ RunsRemote /\ Over(runs)
       \/ RunsRemote /\ Over(FailedStep)
       \/ CallFails

\* The checks without a Job: the count of running Jobs on the dashboard, the form given an
\* illegal destination, whose own wait is all that can fail, and install.sh run again.
ChecksNoJob ==
    /\ step = "check"
    /\ \/ RunsRemote /\ Over(runs)
       \/ RunsRemote /\ Cell # "illegal_destination" /\ Over(FailedStep)
       \/ CallFails

----------------------------------------------------------------------------

Clean(i, rs) == [rs EXCEPT ![i].files = FALSE, ![i].table = FALSE,
                           ![i].csv = IF invocation.level = 3 THEN rs[i].csv ELSE "none"]

\* The end: remote cleanup is for a pane seen at a prompt, which may be late even for a pane
\* back at the shell.  Level 3 leaves the table in a dry run and exits 2 when cleaning fails;
\* the others leave all of a dry run and the runs they do not know of, and go on past a run
\* they cannot clean.  The session is stopped unless it was the operator's.
CleansRemote ==
    /\ step = "cleanup" /\ step' = "done"
    /\ pane' = IF invocation.reuse THEN pane ELSE "none"
    /\ \/ UNCHANGED <<runs, exitCode>>
       \/ /\ pane = "shell" /\ invocation.level = 3
          /\ \/ /\ runs' = IF invocation.dry THEN [runs EXCEPT ![1].files = FALSE] ELSE Clean(1, runs)
                /\ UNCHANGED exitCode
             \/ exitCode' = 2 /\ runs' \in {runs, [runs EXCEPT ![1].files = FALSE]}
       \/ /\ pane = "shell" /\ invocation.level # 3 /\ ~invocation.dry
          /\ \E cleaned \in SUBSET {i \in 1 .. at : runs[i].known} :
                runs' = [i \in DOMAIN runs |-> IF i \in cleaned THEN Clean(i, runs)[i] ELSE runs[i]]
          /\ UNCHANGED exitCode
    /\ UNCHANGED at

\* The product: a launched Job ends by itself.  A smoke run is there to find a product at
\* fault, so a Job may end either way with what it should have written or without it.
SmokeJobEnds(i) ==
    /\ runs[i].job = "Running"
    /\ \E state \in {"Succeeded", "Failed"}, table \in BOOLEAN, csv \in {"none", "plain", "gzip"} :
          /\ table => WritesTable(Batch[i])
          /\ csv # "none" => WritesCsv(Batch[i])
          /\ runs' = [runs EXCEPT ![i].job = state, ![i].table = table, ![i].csv = csv]
    /\ UNCHANGED <<invocation, pane, step, at, exitCode>>

\* A command that was too slow ends, and the shell is back.
CommandEnds ==
    /\ pane = "busy" /\ pane' = "shell"
    /\ UNCHANGED <<invocation, step, at, runs, exitCode>>

SmokeInit ==
    /\ invocation \in [level : Levels, dry : BOOLEAN, reuse : BOOLEAN, failFast : BOOLEAN]
    /\ invocation.level # 4 => ~invocation.failFast
    /\ pane \in Panes
    /\ step = "session" /\ at = 1 /\ exitCode = 0
    /\ runs = [i \in 1 .. Len(Batch) |-> NoRun]

Harness ==
    \/ Connects \/ WritesFile \/ ChecksFirst \/ OpensForm \/ ReadsForm \/ Previews
    \/ ConfirmsLaunch \/ QuitsInterface \/ AwaitsJob \/ ReadsArtifact \/ ReadsBack \/ ChecksNoJob
    \/ CleansRemote

SmokeNext ==
    \/ Harness /\ UNCHANGED invocation
    \/ CommandEnds
    \/ \E i \in DOMAIN runs : SmokeJobEnds(i)

SmokeSpec == SmokeInit /\ [][SmokeNext]_smokeVars

----------------------------------------------------------------------------

\* An invocation that goes to its cleanup with exit code 0 has earned it: every Job of its
\* batch was launched and Succeeded and every table it writes is there; a dry run of Levels 3
\* and 4 launched none.
PassIsEarned ==
    [][step # "cleanup" /\ step' = "cleanup" /\ exitCode' = 0
         => \A i \in DOMAIN runs' :
               IF DryRun THEN runs'[i].job = "none"
               ELSE /\ Launches(Batch[i]) => runs'[i].job = "Succeeded"
                    /\ WritesTable(Batch[i]) => runs'[i].table]_smokeVars

\* A run whose artifact is verified has written its CSV, uncompressed: evaluate_csv_probe is to
\* "raise on missing/empty/compressed".
VerifiedCsvIsThere ==
    [][step = "verify" /\ step' # "verify" /\ runs'[at].ok /\ WritesCsv(Cell)
         => runs[at].csv = "plain"]_smokeVars

----------------------------------------------------------------------------
(* Why a pass is earned: the inductive invariant *)

Earned(rs, i) ==
    IF DryRun THEN rs[i].job = "none"
    ELSE /\ Launches(Batch[i]) => rs[i].job = "Succeeded"
         /\ WritesTable(Batch[i]) => rs[i].table

\* What is known of the run at hand, step by step.
AtHand ==
    /\ step = "session" => at = 1
    /\ step \notin {"quit", "wait", "verify", "read"} => runs[at].job = "none"
    /\ step \in {"launch", "quit", "wait", "verify", "read"} => ~DryRun
    /\ step = "check" => ~Launches(Cell)
    /\ step \in {"verify", "read"} => runs[at].job = "Succeeded"
    /\ step = "read" /\ WritesTable(Cell) => runs[at].table

\* As long as no step failed, what is over was earned; what comes has not begun.
SmokeInv ==
    /\ SmokeTypeOK
    /\ step \notin {"cleanup", "done"} =>
          /\ AtHand
          /\ \A i \in at + 1 .. Len(Batch) : runs[i].job = "none"
          /\ (\A i \in DOMAIN runs : runs[i].ok) => \A i \in 1 .. at - 1 : Earned(runs, i)
=============================================================================
