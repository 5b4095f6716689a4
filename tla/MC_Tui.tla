------------------------------- MODULE MC_Tui -------------------------------
(***************************************************************************)
(* The parts of the terminal interface, one behavior each: the monitor     *)
(* service with Job Detail, the Dashboard, the table browser, the New Job  *)
(* screen, the readers of a log, and telemetry.  They share no variable,   *)
(* so a behavior lets one part move and the states of the parts add up     *)
(* instead of multiplying.                                                 *)
(***************************************************************************)
EXTENDS MonitorService, Dashboard, BrowserScreen, NewJobScreen, LogFollow, Telemetry

VARIABLE part    \* the part that moves in this behavior

tuiVars == <<vars, dashVars, browserVars, newJobVars, logVars, telVars, part>>

Parts == {"monitor", "dashboard", "browser", "new_job", "log", "telemetry"}

\* A screen opened by a clone of an ExistingTable Job
CloneOfExport == {<<"ExistingTable", "Csv">>}

\* The parts that rest start from one state.
Rests(p) == part # p

TuiInit ==
    /\ part \in Parts
    /\ MonInit /\ DashInit /\ BrowserInit /\ NewJobInit /\ LogInit /\ TelInit
    /\ Rests("dashboard") => onDisk = [j \in Jobs |-> "Pending"]
    /\ Rests("browser") => warehouse = FullNames
    /\ Rests("new_job") => sqlFile = "query" /\ ticket = "ok" /\ form.force = NoForce
    /\ Rests("log") => reader.kind = "follow"

TuiNext ==
    \/ /\ part = "monitor" /\ MonNext
       /\ UNCHANGED <<dashVars, browserVars, newJobVars, logVars, telVars, part>>
    \/ /\ part = "dashboard" /\ DashNext
       /\ UNCHANGED <<vars, browserVars, newJobVars, logVars, telVars, part>>
    \/ /\ part = "browser" /\ BrowserNext
       /\ UNCHANGED <<vars, dashVars, newJobVars, logVars, telVars, part>>
    \/ /\ part = "new_job" /\ NewJobNext
       /\ UNCHANGED <<vars, dashVars, browserVars, logVars, telVars, part>>
    \/ /\ part = "log" /\ LogNext
       /\ UNCHANGED <<vars, dashVars, browserVars, newJobVars, telVars, part>>
    \/ /\ part = "telemetry" /\ TelNext
       /\ UNCHANGED <<vars, dashVars, browserVars, newJobVars, logVars, part>>

TuiSpec == TuiInit /\ [][TuiNext]_tuiVars

----------------------------------------------------------------------------

\* Every part keeps its types.
TuiTypeOK ==
    MonTypeOK /\ DashTypeOK /\ BrowserTypeOK /\ NewJobTypeOK /\ LogTypeOK /\ TelTypeOK
=============================================================================
