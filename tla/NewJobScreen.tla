---------------------------- MODULE NewJobScreen ----------------------------
(***************************************************************************)
(* dispatch/screens/new_job.py with job_ops.prepare_launch and the ticket  *)
(* snapshot of app.py: the form, whose radio sets timers move as well,     *)
(* and the launch worker, which validates twice and makes a plan, waits    *)
(* for the dialog, refreshes the ticket, validates the form again and      *)
(* launches the plan.  Each of the first three reads the SQL file anew:    *)
(* the screen is blocked while they run, whoever writes the file is not.   *)
(* The worker shares its exclusive group with the scan that fills the file *)
(* picker.  Fields that only travel with the plan are left out.            *)
(***************************************************************************)

CONSTANT Prefills    \* cells the screen may be opened with by a clone or a notebook

VARIABLES
    sqlFile,     \* what the file named in the form contains
    ticket,      \* the app's snapshot of the Kerberos ticket
    form,        \* the radio sets, and what timers will still do to them
    picker,      \* _populate_sql_picker: its worker, or _picker_ready
    flow,        \* the launch worker and its plan
    approved,      \* the plan the operator last said yes to, until it is handed over
    handed       \* the plan the last step handed to the runner, or NoPlan

newJobVars == <<sqlFile, ticket, form, picker, flow, approved, handed>>

Sources == {"SqlFile", "SqlTemplate", "ExistingTable"}
Destinations == {"Table", "Csv", "Table+Csv"}
LEGAL_CELLS == {<<"SqlFile", d>> : d \in Destinations}
                 \cup {<<"SqlTemplate", "Table">>, <<"ExistingTable", "Csv">>}

\* The texts told apart: with an error of the advisor, with both dates, with one of them.
Texts == {"query", "risky", "template", "malformed"}
Plan == [cell : Sources \X Destinations, sql : Texts \cup {"none"}, gate : {"advisor", "confirm"}]
NoPlan == [cell |-> <<"SqlFile", "Csv">>, sql |-> "none", gate |-> "confirm"]
NoForce == <<"", "">>

ASSUME PrefillsAreLegal == Prefills \subseteq LEGAL_CELLS

NewJobTypeOK ==
    /\ sqlFile \in Texts
    /\ ticket \in {"ok", "short"}
    /\ form \in [source : Sources, destination : Destinations, later : SUBSET Destinations,
                 force : Prefills \cup {NoForce}]
    /\ picker \in {"scanning", "ready", "hidden"}
    /\ flow \in [pc : {"idle", "prepares", "plans", "asks", "refreshes", "executes"},
                 plan : Plan]
    /\ approved \in Plan /\ handed \in Plan

Asking == flow.pc = "asks"

\* The event loop is in _validate and prepare_launch.
Busy == flow.pc \in {"prepares", "plans"}

----------------------------------------------------------------------------
(* The form *)

FirstLegal(source) == IF source = "ExistingTable" THEN "Csv" ELSE "Table"

\* _update_field_visibility: an illegal destination is corrected by a timer, later.
Updated(f) ==
    IF <<f.source, f.destination>> \in LEGAL_CELLS THEN f
    ELSE [f EXCEPT !.later = @ \cup {FirstLegal(f.source)}]

Forms(f) ==
    /\ ~Busy
    /\ form' = Updated(f) /\ handed' = NoPlan /\ UNCHANGED <<ticket, picker, flow, approved>>

ChoosesSource(s) ==
    /\ ~Asking /\ s # form.source
    /\ Forms([form EXCEPT !.source = s]) /\ UNCHANGED sqlFile

\* A destination that is illegal for the source is disabled.
ChoosesDestination(d) ==
    /\ ~Asking /\ <<form.source, d>> \in LEGAL_CELLS /\ d # form.destination
    /\ Forms([form EXCEPT !.destination = d]) /\ UNCHANGED sqlFile

LegalTimer(d) ==
    /\ d \in form.later
    /\ Forms([form EXCEPT !.destination = d, !.later = @ \ {d}]) /\ UNCHANGED sqlFile

\* _force_radio re-asserts the prefill on each of its timers, over any choice made meanwhile.
ForcesRadio ==
    /\ form.force # NoForce
    /\ \E force \in {form.force, NoForce} :
         Forms([form EXCEPT !.source = form.force[1], !.destination = form.force[2],
                            !.force = force])
    /\ UNCHANGED sqlFile

\* Another path is typed, or somebody writes the file.
SqlChanges(text) ==
    /\ sqlFile' = text /\ handed' = NoPlan
    /\ UNCHANGED <<ticket, form, picker, flow, approved>>

\* The editor returns, or the picker names a file: _detect_sql moves the source radio.
DetectsSql(text) ==
    /\ ~Asking /\ sqlFile' = text
    /\ Forms([form EXCEPT !.source = IF text = "template" THEN "SqlTemplate" ELSE @])

PicksFile(text) == picker = "ready" /\ DetectsSql(text)

PickerFills ==
    /\ ~Busy /\ picker = "scanning" /\ picker' = "ready" /\ handed' = NoPlan
    /\ UNCHANGED <<sqlFile, ticket, form, flow, approved>>

----------------------------------------------------------------------------
\* app.refresh_kerberos: what klist answers depends on kinit and the clock.
RefreshesKerberos ==
    /\ ~Busy /\ ticket' \in {"ok", "short"} /\ handed' = NoPlan
    /\ UNCHANGED <<sqlFile, form, picker, flow, approved>>

----------------------------------------------------------------------------
(* job_ops.validation_issues and prepare_launch *)

Cell == <<form.source, form.destination>>

ShallowIssues == Cell \notin LEGAL_CELLS \/ ticket # "ok"
SqlIssues == /\ form.source # "ExistingTable"
             /\ \/ sqlFile = "malformed"
                \/ form.source = "SqlTemplate" /\ sqlFile # "template"

Prepared ==
    LET text == IF form.source = "ExistingTable" THEN "none" ELSE sqlFile
    IN [cell |-> Cell, sql |-> text, gate |-> IF text = "risky" THEN "advisor" ELSE "confirm"]

FlowTo(pc, plan) == flow' = [pc |-> pc, plan |-> plan]

\* A plan that is executed is refused by the capacity ledger, or committed and handed over.
Executes ==
    \/ handed' = NoPlan /\ UNCHANGED approved
    \/ handed' = flow.plan /\ approved' = NoPlan

\* L: the flow that runs and the scan of the picker are cancelled, and the notification of
\* a launch that was being executed with them; the new flow validates the form.
Launches ==
    /\ ~Asking /\ ~Busy
    /\ FlowTo(IF ShallowIssues \/ SqlIssues THEN "idle" ELSE "prepares", NoPlan)
    /\ IF flow.pc = "executes" THEN Executes ELSE handed' = NoPlan /\ UNCHANGED approved
    /\ picker' = IF picker = "scanning" THEN "hidden" ELSE picker
    /\ UNCHANGED <<sqlFile, ticket, form>>

\* prepare_launch validates on its own, and reads the file again for the plan: what it
\* finds there is analyzed, but not validated.
Prepares ==
    /\ flow.pc = "prepares"
    /\ FlowTo(IF ShallowIssues \/ SqlIssues THEN "idle" ELSE "plans", NoPlan)
    /\ handed' = NoPlan
    /\ UNCHANGED <<sqlFile, ticket, form, picker, approved>>

Plans ==
    /\ flow.pc = "plans"
    /\ FlowTo("asks", Prepared) \/ (form.source # "ExistingTable" /\ FlowTo("idle", NoPlan))
    /\ handed' = NoPlan
    /\ UNCHANGED <<sqlFile, ticket, form, picker, approved>>

Answers ==
    /\ Asking
    /\ \/ flow' = [flow EXCEPT !.pc = "refreshes"] /\ approved' = flow.plan
       \/ FlowTo("idle", NoPlan) /\ UNCHANGED approved
    /\ handed' = NoPlan
    /\ UNCHANGED <<sqlFile, ticket, form, picker>>

\* Mutant: the plan is made again after the dialog.
FlowPlansAgain ==
    /\ flow.pc = "refreshes"
    /\ ticket' \in {"ok", "short"} /\ handed' = NoPlan
    /\ UNCHANGED <<sqlFile, form, picker, approved>>
    /\ \/ ~ShallowIssues' /\ flow' = [pc |-> "executes", plan |-> Prepared]
       \/ FlowTo("idle", NoPlan)

\* refresh_kerberos was awaited (klist may hang, which ends the worker), the form of now
\* is validated, and the plan of then is executed.
FlowRechecks ==
    /\ flow.pc = "refreshes"
    /\ ticket' \in {"ok", "short"} /\ handed' = NoPlan
    /\ UNCHANGED <<sqlFile, form, picker, approved>>
    /\ \/ ~ShallowIssues' /\ flow' = [flow EXCEPT !.pc = "executes"]
       \/ FlowTo("idle", NoPlan)

FlowExecutes ==
    /\ flow.pc = "executes"
    /\ Executes /\ FlowTo("idle", NoPlan)
    /\ UNCHANGED <<sqlFile, ticket, form, picker>>

----------------------------------------------------------------------------

Opened(cell, force) == Updated([source |-> cell[1], destination |-> cell[2], later |-> {},
                                force |-> force])

NewJobInit ==
    /\ sqlFile \in Texts /\ ticket \in {"ok", "short"}
    /\ form \in {Opened(<<"SqlFile", "Table">>, NoForce)} \cup {Opened(c, c) : c \in Prefills}
    /\ picker = "scanning" /\ flow = [pc |-> "idle", plan |-> NoPlan]
    /\ approved = NoPlan /\ handed = NoPlan

NewJobNext ==
    \/ \E s \in Sources : ChoosesSource(s)
    \/ \E d \in Destinations : ChoosesDestination(d) \/ LegalTimer(d)
    \/ \E text \in Texts : SqlChanges(text) \/ DetectsSql(text) \/ PicksFile(text)
    \/ ForcesRadio \/ PickerFills \/ RefreshesKerberos
    \/ Launches \/ Prepares \/ Plans \/ Answers \/ FlowRechecks \/ FlowExecutes

NewJobSpec == NewJobInit /\ [][NewJobNext]_newJobVars

----------------------------------------------------------------------------

\* What is launched is what a dialog showed and the operator said yes to, in a legal cell
\* and with the advisor's gate if its text needs one, each yes at most once; although
\* the form and the file may change, and L be pressed again, at any time before.  It is
\* not always a text that was validated: the file may change after the last validation
\* and before the plan is made.
LaunchIsAgreed ==
    handed' # NoPlan =>
        /\ handed' = approved /\ approved' # approved
        /\ handed'.cell \in LEGAL_CELLS
        /\ handed'.sql = "risky" => handed'.gate = "advisor"
LaunchesWhatWasConfirmed == [][LaunchIsAgreed]_newJobVars
=============================================================================
