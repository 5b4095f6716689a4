---------------------------- MODULE Orchestrator ----------------------------
(***************************************************************************)
(* The scripts of scr/ as the runner calls them, in order, for one Job:    *)
(* Query_Impala_Parametrized ("table"), download_to_csv ("csv") and        *)
(* monthly_query_processor ("monthly").  Each tries its statement on one   *)
(* request pool after another until impala-shell returns zero or stderr    *)
(* carries an error it classifies as fatal; the monthly script gives up    *)
(* after MaxCycles rounds (10 in the code), the others never do.  The CSV  *)
(* is written beside its place and moved there when it is whole.           *)
(***************************************************************************)
EXTENDS ImpalaShell, FiniteSets, SequencesExt

CONSTANTS
    Pools,        \* request pools in the list, resolve_pools
    MaxCycles,    \* rounds the monthly script makes
    Cells         \* Source/Destination pairs of the Jobs considered

ASSUME OrchestratorAssumption == Pools \in Nat \ {0} /\ MaxCycles \in Nat \ {0}

VARIABLES
    script,    \* the script of the moment: which Job, call, pool and round
    csv,       \* the CSV at its final place
    temp       \* the file the export writes: .name.<uuid>.tmp

orchVars == <<log, tail, shell, pipe, query, script, csv, temp>>

----------------------------------------------------------------------------
(* manifest.build_orchestrator_calls *)

LegalCells == {"SqlFile/Table", "SqlFile/Csv", "SqlFile/Table+Csv", "SqlTemplate/Table",
               "ExistingTable/Csv"}


CallsOf(cell) == CASE cell = "SqlFile/Table" -> <<"table">>
                   [] cell = "SqlFile/Csv" -> <<"csv">>
                   [] cell = "SqlFile/Table+Csv" -> <<"table", "csv">>
                   [] cell = "SqlTemplate/Table" -> <<"monthly">>
                   [] cell = "ExistingTable/Csv" -> <<"csv">>

ASSUME CellsAssumption ==
    /\ Cells \subseteq LegalCells
    /\ \A cell \in Cells : Len(CallsOf(cell)) <= CallCount

(* classificar_erro_impala: the first rule whose phrase the text contains *)

Rules == << <<"memory limit exceeded", "MEMORY_EXCEEDED">>,
            <<"not enough memory available", "MEMORY_EXCEEDED">>,
            <<"syntax error", "SYNTAX_ERROR">>, <<"parseexception", "SYNTAX_ERROR">>,
            <<"authenticationexception", "AUTH_ERROR">>,
            <<"table not found", "TABLE_NOT_FOUND">>, <<"could not resolve", "TABLE_NOT_FOUND">>,
            <<"timed out", "TIMEOUT">>, <<"deadline exceeded", "TIMEOUT">>,
            <<"queue is full", "QUEUE_FULL">>, <<"no resources available", "QUEUE_FULL">>,
            <<"could not connect", "CONNECTION_ERROR">>,
            <<"connection refused", "CONNECTION_ERROR">>,
            <<"dropped due to backpressure", "BACKPRESSURE">>,
            <<"could not resolve host", "HOST_RESOLUTION_ERROR">>,
            <<"name or service not known", "HOST_RESOLUTION_ERROR">>,
            <<"invalid credentials", "AUTH_ERROR">>, <<"authentication failed", "AUTH_ERROR">>,
            <<"invalid or unknown query handle", "TIMEOUT">>, <<"time limit", "TIMEOUT">>,
            <<"duplicate column name", "DUPLICATE_COLUMN">>,
            <<"unreachable", "HOST_UNREACHABLE">>,
            <<"diskspace", "DISK_FULL">>, <<"disk full", "DISK_FULL">>,
            <<"memory available", "MEMORY_AVAILABLE">>, <<"space limit", "SPACE_LIMIT">>,
            <<"timeout", "TIMEOUT">> >>

Phrases == {Rules[i][1] : i \in 1 .. Len(Rules)}

\* A phrase that contains another brings it along.
Contained(phrase) == CASE phrase = "not enough memory available" -> {phrase, "memory available"}
                       [] phrase = "could not resolve host" -> {phrase, "could not resolve"}
                       [] OTHER -> {phrase}

\* The texts: one phrase, one of them together with a query handle that went
\* away, or none that is known.
Texts == {Contained(p) : p \in Phrases} \cup {{}}
         \cup {Contained(p) \cup {"invalid or unknown query handle"} : p \in Phrases}

Categoria(text) ==
    LET matched == {i \in 1 .. Len(Rules) : Rules[i][1] \in text}
    IN IF matched = {} THEN "GENERIC_ERROR"
       ELSE Rules[CHOOSE i \in matched : \A j \in matched : i <= j][2]

FatalErrors == {"TABLE_NOT_FOUND", "SYNTAX_ERROR", "DUPLICATE_COLUMN", "AUTH_ERROR",
                "GENERIC_ERROR"}

----------------------------------------------------------------------------

Name == CallsOf(script.cell)[script.call]
Goes(pc) == script' = [script EXCEPT !.pc = pc]

OrchTypeOK ==
    /\ ShellTypeOK
    /\ script \in [cell : Cells, call : 1 .. CallCount, pool : 1 .. Pools,
                   cycle : 1 .. MaxCycles,
                   pc : {"main", "try", "judge", "next", "failed", "ended"}]
    /\ csv \in {"old", "new"} /\ temp \in {"none", "partial", "whole"}

\* main: arguments, the SQL file and the folder; each may end the script at once.
Prepares ==
    /\ script.pc = "main"
    /\ script' \in {[script EXCEPT !.pc = "failed"],
                    [script EXCEPT !.pc = "try", !.pool = 1, !.cycle = 1]}
    /\ UNCHANGED <<shellVars, csv, temp>>

\* operation(pool): impala-shell is started on the next pool.
TriesPool ==
    /\ script.pc = "try"
    /\ StartShell(script.call)
    /\ Goes("judge")
    /\ UNCHANGED <<csv, temp>>

ShellMoves ==
    /\ script.pc = "judge"
    /\ Popens \/ PopenFails \/ Drains \/ Returns \/ Submits
       \/ \E q \in OwnRunning : Retries(q)
    /\ UNCHANGED <<script, csv, temp>>

\* impala-shell writes the export through -o, and has written it all at a clean exit.
WritesExport ==
    /\ script.pc = "judge" /\ shell.pc = "running" /\ Name = "csv" /\ temp = "none"
    /\ temp' = "partial"
    /\ UNCHANGED <<shellVars, script, csv>>

ShellExits(rc) ==
    /\ script.pc = "judge" /\ Exits(rc)
    /\ temp' = IF Name = "csv" /\ rc = "zero" THEN "whole" ELSE temp
    /\ UNCHANGED <<script, csv>>

ShellEnded == script.pc = "judge" /\ shell.pc = "returned"

\* Popen raised: no script catches it short of its exit, the export removes its file.
ShellRaised ==
    /\ script.pc = "judge" /\ shell.pc = "raised"
    /\ temp' = "none"
    /\ Goes("failed")
    /\ UNCHANGED <<shellVars, csv>>

\* Mutant: the exit code is not looked at.
SucceedsAnyway ==
    /\ ShellEnded
    /\ temp' = "none" /\ csv' = IF Name = "csv" THEN "new" ELSE csv
    /\ script' = IF script.call < Len(CallsOf(script.cell))
                 THEN [script EXCEPT !.pc = "main", !.call = script.call + 1]
                 ELSE [script EXCEPT !.pc = "ended"]
    /\ UNCHANGED shellVars

\* The call succeeded: the export is moved to its place, and the script exits 0
\* unless stdout does not decode.
Succeeds ==
    /\ ShellEnded /\ shell.rc = "zero"
    /\ temp' = "none"
    /\ csv' = IF Name = "csv" THEN "new" ELSE csv
    /\ script' \in {[script EXCEPT !.pc = "failed"],
                    IF script.call < Len(CallsOf(script.cell))
                    THEN [script EXCEPT !.pc = "main", !.call = script.call + 1]
                    ELSE [script EXCEPT !.pc = "ended"]}
    /\ UNCHANGED shellVars

\* os.replace fails: the file is removed and the exception ends the script.
ReplaceFails ==
    /\ ShellEnded /\ shell.rc = "zero" /\ Name = "csv"
    /\ temp' = "none"
    /\ Goes("failed")
    /\ UNCHANGED <<shellVars, csv>>

\* A nonzero exit ends the script when the error is fatal, or does not decode.
FailsForGood ==
    /\ ShellEnded /\ shell.rc = "nonzero"
    /\ temp' = "none"
    /\ Goes("failed")
    /\ UNCHANGED <<shellVars, csv>>

\* Mutant: the file of a failed attempt stays.
FailsLeavingFile ==
    /\ ShellEnded /\ shell.rc = "nonzero"
    /\ \E text \in Texts : Categoria(text) \notin FatalErrors
    /\ Goes("next")
    /\ UNCHANGED <<shellVars, csv, temp>>

\* Any other error is worth the next pool.
FailsRetriably ==
    /\ ShellEnded /\ shell.rc = "nonzero"
    /\ \E text \in Texts : Categoria(text) \notin FatalErrors
    /\ temp' = "none"
    /\ Goes("next")
    /\ UNCHANGED <<shellVars, csv>>

\* cycle_through_pools: the next pool, or the next round after a pause of 30 s.
NextPool ==
    /\ script.pc = "next" /\ script.pool < Pools
    /\ script' = [script EXCEPT !.pc = "try", !.pool = script.pool + 1]
    /\ UNCHANGED <<shellVars, csv, temp>>

\* Mutant: the monthly script does not count its rounds.
NextCycleForEver ==
    /\ script.pc = "next" /\ script.pool = Pools
    /\ script' = [script EXCEPT !.pc = "try", !.pool = 1]
    /\ UNCHANGED <<shellVars, csv, temp>>

NextCycle ==
    /\ script.pc = "next" /\ script.pool = Pools
    /\ Name # "monthly" \/ script.cycle < MaxCycles
    /\ script' = [script EXCEPT !.pc = "try", !.pool = 1,
                                !.cycle = IF Name = "monthly" THEN script.cycle + 1 ELSE 1]
    /\ UNCHANGED <<shellVars, csv, temp>>

\* max_cycles reached: TimeoutError, and the monthly main exits 1.
GivesUp ==
    /\ script.pc = "next" /\ script.pool = Pools
    /\ Name = "monthly" /\ script.cycle = MaxCycles
    /\ Goes("failed")
    /\ UNCHANGED <<shellVars, csv, temp>>

\* SIGTERM to the group of the Job, at any step of a script that runs.
Terminated ==
    /\ script.pc \notin {"failed", "ended"}
    /\ Killed
    /\ Goes("failed")
    /\ UNCHANGED <<csv, temp>>

\* Impala ends a query; when it forgets it does not matter here.
ImpalaMoves ==
    /\ UNCHANGED <<shell, pipe>>
    /\ \E q \in 1 .. Len(query), state \in {"finished", "exception"} : File!QueryEnds(q, state)
    /\ UNCHANGED <<script, csv, temp>>

OrchInit ==
    /\ ShellInit
    /\ script \in [cell : Cells, call : {1}, pool : {1}, cycle : {1}, pc : {"main"}]
    /\ csv = "old" /\ temp = "none"

Script == \/ Prepares \/ TriesPool \/ WritesExport \/ ShellRaised
          \/ Succeeds \/ ReplaceFails \/ FailsForGood \/ FailsRetriably
          \/ NextPool \/ NextCycle \/ GivesUp

OrchNext == \/ Script \/ ShellMoves \/ \E rc \in {"zero", "nonzero"} : ShellExits(rc)
            \/ Terminated \/ ImpalaMoves

OrchSpec == OrchInit /\ [][OrchNext]_orchVars

\* The script and the drain thread run, the child exits, and Impala ends its queries.
OrchFairness ==
    /\ WF_orchVars(Script)
    /\ WF_orchVars((Popens \/ Drains \/ Returns) /\ UNCHANGED <<script, csv, temp>>)
    /\ WF_orchVars(\E rc \in {"zero", "nonzero"} : ShellExits(rc))

OrchFairSpec == OrchSpec /\ OrchFairness

----------------------------------------------------------------------------
(* Properties *)

\* Whatever ends a call (success, a failed move, a fatal or retriable error, an
\* exception of Popen), its temporary file is gone once the script has moved on;
\* only a script killed by SIGTERM leaves one.
NoOrphanExport == temp # "none" => script.pc = "judge" \/ shell.pc = "dead"

\* The file at the CSV's final place is only ever replaced by a whole export, of a
\* shell none of whose statements failed: never by what a failed attempt, of this
\* pool or an earlier one, left behind.
CsvIsWhole ==
    [][csv' # csv => /\ temp = "whole" /\ shell.rc = "zero"
                     /\ \A q \in OwnQueries : query[q].state # "exception"]_orchVars

\* Why: what a script waiting for its shell knows of the export.
ExportIsWhole ==
    /\ script.call <= Len(CallsOf(script.cell))
    /\ script.pc = "judge" /\ Name = "csv" /\ shell.rc = "zero" => temp = "whole"

OrchInv == OrchTypeOK /\ ShellInv /\ ExportIsWhole

\* Attempts the script has come to, of the Pools * MaxCycles a monthly one may make.
Attempts == (script.cycle - 1) * Pools + script.pool

\* The rounds bound what the cluster sees of a monthly Job: the shells that its event
\* file or Impala knows are never more than the pools tried so far, whatever becomes of
\* the shells and of the events they write.
RoundsBoundShells == script.cell = "SqlTemplate/Table" => File!LastShell <= Attempts

\* Why: the shell of the moment is the last attempt's, and an attempt still to be made
\* has not shown yet.
MonthlyInv ==
    script.cell = "SqlTemplate/Table" =>
        /\ shell.id <= Attempts /\ File!LastShell <= Attempts
        /\ script.pc \in {"main", "try"} => File!LastShell < Attempts
        /\ script.pc = "main" => script.cycle = 1 /\ script.pool = 1

\* The monthly script comes to an end whatever Impala answers: it retries at most
\* MaxCycles rounds.
MonthlyEnds == script.cell = "SqlTemplate/Table" ~> script.pc \in {"failed", "ended"}
=============================================================================
