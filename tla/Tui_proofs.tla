----------------------------- MODULE Tui_proofs -----------------------------
(***************************************************************************)
(* Theorems about the parts of the terminal interface that keep no file:   *)
(* the New Job screen for any prefills, the table browser for any schemas  *)
(* and tables, the Dashboard for any Jobs, telemetry for any callers,      *)
(* capacity and number of events; and about the interface that MC_Tui puts *)
(* together from these parts, the monitor service and the log readers.     *)
(***************************************************************************)
EXTENDS MC_Tui, Monitor_proofs, LogFollow_proofs, TLAPS

(* New Job *)

(* A plan that a dialog may be asked about. *)
Sound(p) ==
    /\ p # NoPlan
    /\ p.cell \in LEGAL_CELLS
    /\ p.sql = "risky" => p.gate = "advisor"

(* What the launch worker carries: the form it validated until it has made a plan, then a *)
(* sound plan, and past its dialog the approved one.                                       *)
FlowCarries ==
    /\ Busy => Cell \in LEGAL_CELLS
    /\ flow.pc \in {"asks", "refreshes", "executes"} => Sound(flow.plan)
    /\ flow.pc \in {"refreshes", "executes"} => approved = flow.plan

NewJobInv == NewJobTypeOK /\ FlowCarries

FormRecord == [source : Sources, destination : Destinations, later : SUBSET Destinations,
               force : Prefills \cup {NoForce}]
FlowPcs == {"idle", "prepares", "plans", "asks", "refreshes", "executes"}
FlowRecord == [pc : FlowPcs, plan : Plan]

(* A plan made of a legal form is sound, whatever the file says by then. *)
LEMMA PreparedIsSound ==
    ASSUME NewJobTypeOK, Cell \in LEGAL_CELLS
    PROVE  Prepared \in Plan /\ Sound(Prepared)
<1>1. form.source \in Sources /\ form.destination \in Destinations /\ sqlFile \in Texts
  BY DEF NewJobTypeOK
<1>2. Cell \in Sources \X Destinations /\ Cell \in LEGAL_CELLS
  BY <1>1 DEF Cell
<1>3. Prepared \in Plan
  BY <1>1, <1>2 DEF Prepared, Plan, Texts
<1>4. Prepared.cell = Cell /\ Cell[1] = form.source
  BY DEF Prepared, Cell
<1>5. Prepared.sql = "risky" => Prepared.gate = "advisor"
  BY <1>1 DEF Prepared, Texts
<1>6. Prepared # NoPlan
  <2>1. CASE form.source = "ExistingTable"
    BY <2>1, <1>4 DEF NoPlan
  <2>2. CASE form.source # "ExistingTable"
    <3>1. Prepared.sql = sqlFile /\ sqlFile # "none"
      BY <2>2, <1>1 DEF Prepared, Texts
    <3> QED
      BY <3>1 DEF NoPlan
  <2> QED
    BY <2>1, <2>2
<1> QED
  BY <1>2, <1>3, <1>4, <1>5, <1>6 DEF Sound

(* The plan that stands for none. *)
LEMMA NoPlanIsTyped == NoPlan \in Plan
BY DEF NoPlan, Plan, Sources, Destinations

(* The worker's place is one of the record. *)
LEMMA FlowMoves ==
    ASSUME NEW pc \in FlowPcs, NEW p \in Plan, FlowTo(pc, p)
    PROVE  flow' \in FlowRecord /\ flow'.pc = pc /\ flow'.plan = p
BY DEF FlowTo, FlowRecord, FlowPcs

(* Moving the form keeps its type. *)
LEMMA UpdatedIsTyped ==
    ASSUME NEW f \in FormRecord
    PROVE  Updated(f) \in FormRecord
<1>1. FirstLegal(f.source) \in Destinations
  BY DEF FirstLegal, Destinations
<1> QED
  BY <1>1 DEF Updated, FormRecord

(* Steps that leave the worker alone hand nothing over. *)
LEMMA WorkerRests ==
    ASSUME NewJobInv, NewJobTypeOK', UNCHANGED <<flow, approved>>, handed' = NoPlan,
           ~Busy \/ UNCHANGED form
    PROVE  NewJobInv' /\ LaunchIsAgreed
BY DEF NewJobInv, FlowCarries, LaunchIsAgreed, Busy, Cell

(* A plan that is executed was approved, once. *)
LEMMA ExecutesApproved ==
    ASSUME NewJobInv, flow.pc = "executes", Executes
    PROVE  LaunchIsAgreed /\ handed' \in Plan /\ approved' \in Plan
<1>1. Sound(flow.plan) /\ approved = flow.plan /\ flow.plan \in Plan /\ approved \in Plan
  BY DEF NewJobInv, FlowCarries, NewJobTypeOK
<1> QED
  BY <1>1, NoPlanIsTyped DEF Executes, LaunchIsAgreed, Sound

(* The form moves. *)
LEMMA FormMoves ==
    ASSUME NewJobInv, sqlFile' \in Texts,
           NEW f \in FormRecord,
           Forms(f)
    PROVE  NewJobInv' /\ LaunchIsAgreed
<1>1. NewJobTypeOK'
  BY UpdatedIsTyped, NoPlanIsTyped DEF NewJobInv, NewJobTypeOK, Forms, FormRecord
<1> QED
  BY <1>1, WorkerRests DEF Forms

(* Every step keeps what the worker carries, and launches what was agreed. *)
LEMMA NewJobStep == NewJobInv /\ [NewJobNext]_newJobVars => NewJobInv' /\ [LaunchIsAgreed]_newJobVars
<1> SUFFICES ASSUME NewJobInv, [NewJobNext]_newJobVars
             PROVE  NewJobInv' /\ [LaunchIsAgreed]_newJobVars
  OBVIOUS
<1> USE DEF FlowRecord, FlowPcs, FormRecord
<1>typed. /\ sqlFile \in Texts /\ ticket \in {"ok", "short"}
          /\ form \in FormRecord
          /\ picker \in {"scanning", "ready", "hidden"}
          /\ flow \in FlowRecord /\ approved \in Plan /\ handed \in Plan
  BY DEF NewJobInv, NewJobTypeOK
<1>1. ASSUME NEW s \in Sources, ChoosesSource(s) PROVE NewJobInv' /\ LaunchIsAgreed
  <2> DEFINE f == [form EXCEPT !.source = s]
  <2>1. /\ f \in FormRecord
        /\ Forms(f) /\ sqlFile' \in Texts
    BY <1>1, <1>typed DEF ChoosesSource
  <2> QED
    BY <2>1, FormMoves
<1>2. ASSUME NEW d \in Destinations, ChoosesDestination(d) \/ LegalTimer(d)
      PROVE NewJobInv' /\ LaunchIsAgreed
  <2>1. PICK f \in FormRecord : Forms(f) /\ sqlFile' \in Texts
    BY <1>2, <1>typed DEF ChoosesDestination, LegalTimer
  <2> QED
    BY <2>1, FormMoves
<1>3. ASSUME NEW text \in Texts, DetectsSql(text) \/ PicksFile(text)
      PROVE NewJobInv' /\ LaunchIsAgreed
  <2> DEFINE f == [form EXCEPT !.source = IF text = "template" THEN "SqlTemplate" ELSE @]
  <2>1. /\ f \in FormRecord
        /\ Forms(f) /\ sqlFile' \in Texts
    BY <1>3, <1>typed DEF DetectsSql, PicksFile, Sources
  <2> QED
    BY <2>1, FormMoves
<1>4. ASSUME ForcesRadio PROVE NewJobInv' /\ LaunchIsAgreed
  <2>1. form.force \in Prefills /\ form.force[1] \in Sources /\ form.force[2] \in Destinations
    BY <1>4, <1>typed, PrefillsAreLegal DEF ForcesRadio, LEGAL_CELLS, Sources, Destinations
  <2>2. PICK force \in {form.force, NoForce} :
           Forms([form EXCEPT !.source = form.force[1], !.destination = form.force[2],
                              !.force = force])
    BY <1>4 DEF ForcesRadio
  <2> DEFINE f == [form EXCEPT !.source = form.force[1], !.destination = form.force[2],
                               !.force = force]
  <2>3. /\ f \in FormRecord
        /\ Forms(f) /\ sqlFile' \in Texts
    BY <1>4, <1>typed, <2>1, <2>2 DEF ForcesRadio
  <2> QED
    BY <2>3, FormMoves
<1>5. ASSUME NEW text \in Texts, SqlChanges(text) PROVE NewJobInv' /\ LaunchIsAgreed
  <2>1. NewJobTypeOK'
    BY <1>5, <1>typed, NoPlanIsTyped DEF SqlChanges, NewJobTypeOK
  <2> QED
    BY <1>5, <2>1, WorkerRests DEF SqlChanges
<1>6. ASSUME PickerFills \/ RefreshesKerberos PROVE NewJobInv' /\ LaunchIsAgreed
  <2>1. NewJobTypeOK'
    BY <1>6, <1>typed, NoPlanIsTyped DEF PickerFills, RefreshesKerberos, NewJobTypeOK
  <2> QED
    BY <1>6, <2>1, WorkerRests DEF PickerFills, RefreshesKerberos
<1>7. ASSUME Launches PROVE NewJobInv' /\ LaunchIsAgreed
  <2>1. /\ flow' \in FlowRecord /\ flow'.pc \in {"idle", "prepares"}
        /\ flow'.pc = "prepares" => Cell \in LEGAL_CELLS
    <3>1. CASE ShallowIssues \/ SqlIssues
      <4>1. FlowTo("idle", NoPlan)
        BY <1>7, <3>1 DEF Launches
      <4> QED
        BY <4>1, NoPlanIsTyped, FlowMoves
    <3>2. CASE ~(ShallowIssues \/ SqlIssues)
      <4>1. FlowTo("prepares", NoPlan) /\ Cell \in LEGAL_CELLS
        BY <1>7, <3>2 DEF Launches, ShallowIssues
      <4> QED
        BY <4>1, NoPlanIsTyped, FlowMoves
    <3> QED
      BY <3>1, <3>2
  <2>2. LaunchIsAgreed /\ handed' \in Plan /\ approved' \in Plan
    <3>1. CASE flow.pc = "executes"
      BY <1>7, <3>1, ExecutesApproved DEF Launches
    <3>2. CASE flow.pc # "executes"
      BY <1>7, <3>2, <1>typed, NoPlanIsTyped DEF Launches, LaunchIsAgreed
    <3> QED
      BY <3>1, <3>2
  <2>3. NewJobTypeOK'
    BY <1>7, <1>typed, <2>1, <2>2 DEF Launches, NewJobTypeOK
  <2>4. Cell' = Cell
    BY <1>7 DEF Launches, Cell
  <2> QED
    BY <2>1, <2>2, <2>3, <2>4 DEF NewJobInv, FlowCarries, Busy
<1>8. ASSUME Answers PROVE NewJobInv' /\ LaunchIsAgreed
  <2>1. flow.pc = "asks" /\ Sound(flow.plan) /\ flow.plan \in Plan
    BY <1>8, <1>typed DEF Answers, Asking, NewJobInv, FlowCarries
  <2>2. CASE flow' = [flow EXCEPT !.pc = "refreshes"] /\ approved' = flow.plan
    <3>1. flow' \in FlowRecord /\ flow'.pc = "refreshes" /\ flow'.plan = flow.plan
      BY <1>typed, <2>2
    <3>2. NewJobTypeOK'
      BY <1>8, <1>typed, <2>1, <2>2, <3>1, NoPlanIsTyped DEF Answers, NewJobTypeOK
    <3> QED
      BY <1>8, <2>1, <2>2, <3>1, <3>2 DEF Answers, NewJobInv, FlowCarries, Busy, LaunchIsAgreed
  <2>3. CASE FlowTo("idle", NoPlan) /\ UNCHANGED approved
    <3>1. flow' \in FlowRecord /\ flow'.pc = "idle"
      BY <2>3, NoPlanIsTyped, FlowMoves
    <3>2. NewJobTypeOK'
      BY <1>8, <1>typed, <2>3, <3>1, NoPlanIsTyped DEF Answers, NewJobTypeOK
    <3> QED
      BY <1>8, <3>1, <3>2 DEF Answers, NewJobInv, FlowCarries, Busy, LaunchIsAgreed
  <2> QED
    BY <1>8, <2>2, <2>3 DEF Answers
<1>9. ASSUME FlowRechecks PROVE NewJobInv' /\ LaunchIsAgreed
  <2>1. /\ flow.pc = "refreshes" /\ Sound(flow.plan) /\ approved = flow.plan
    BY <1>9, <1>typed DEF FlowRechecks, NewJobInv, FlowCarries
  <2>2. /\ flow' \in FlowRecord
        /\ flow'.pc = "idle" \/ (flow'.pc = "executes" /\ flow'.plan = flow.plan)
    <3>1. CASE flow' = [flow EXCEPT !.pc = "executes"]
      BY <1>typed, <3>1
    <3>2. CASE FlowTo("idle", NoPlan)
      BY <3>2, NoPlanIsTyped, FlowMoves
    <3> QED
      BY <1>9, <3>1, <3>2 DEF FlowRechecks
  <2>3. NewJobTypeOK'
    BY <1>9, <1>typed, <2>2, NoPlanIsTyped DEF FlowRechecks, NewJobTypeOK
  <2> QED
    BY <1>9, <2>1, <2>2, <2>3 DEF FlowRechecks, NewJobInv, FlowCarries, Busy, LaunchIsAgreed
<1>10. ASSUME FlowExecutes PROVE NewJobInv' /\ LaunchIsAgreed
  <2>1. flow' \in FlowRecord /\ flow'.pc = "idle"
    BY <1>10, NoPlanIsTyped, FlowMoves DEF FlowExecutes
  <2>2. LaunchIsAgreed /\ handed' \in Plan /\ approved' \in Plan
    BY <1>10, ExecutesApproved DEF FlowExecutes
  <2>3. NewJobTypeOK'
    BY <1>10, <1>typed, <2>1, <2>2 DEF FlowExecutes, NewJobTypeOK
  <2> QED
    BY <2>1, <2>2, <2>3 DEF NewJobInv, FlowCarries, Busy
<1>11. CASE UNCHANGED newJobVars
  BY <1>11 DEF newJobVars, NewJobInv, NewJobTypeOK, FlowCarries, Busy, Cell
<1>12. ASSUME Prepares \/ Plans PROVE NewJobInv' /\ LaunchIsAgreed
  <2>1. Cell \in LEGAL_CELLS /\ Cell' = Cell /\ handed' = NoPlan /\ UNCHANGED approved
    BY <1>12 DEF Prepares, Plans, NewJobInv, FlowCarries, Busy, Cell
  <2>2. Prepared \in Plan /\ Sound(Prepared)
    BY <2>1, PreparedIsSound DEF NewJobInv
  <2>3. \/ \E pc \in {"idle", "plans"} : FlowTo(pc, NoPlan)
        \/ FlowTo("asks", Prepared)
    BY <1>12 DEF Prepares, Plans
  <2>4. /\ flow' \in FlowRecord /\ flow'.pc \in {"idle", "plans", "asks"}
        /\ flow'.pc = "asks" => Sound(flow'.plan)
    BY <2>2, <2>3, NoPlanIsTyped, FlowMoves
  <2>5. NewJobTypeOK'
    BY <1>12, <1>typed, <2>1, <2>4, NoPlanIsTyped DEF Prepares, Plans, NewJobTypeOK
  <2> QED
    BY <2>1, <2>4, <2>5 DEF NewJobInv, FlowCarries, Busy, LaunchIsAgreed
<1> QED
  BY <1>1, <1>2, <1>3, <1>4, <1>5, <1>6, <1>7, <1>8, <1>9, <1>10, <1>11, <1>12 DEF NewJobNext

(* The screen opens with an idle worker. *)
LEMMA NewJobInvInit == NewJobInit => NewJobInv
<1> SUFFICES ASSUME NewJobInit PROVE NewJobInv
  OBVIOUS
<1> USE DEF FormRecord
<1>1. form \in FormRecord
  <2>1. CASE form = Opened(<<"SqlFile", "Table">>, NoForce)
    <3> DEFINE f == [source |-> "SqlFile", destination |-> "Table", later |-> {}, force |-> NoForce]
    <3>1. f \in FormRecord
      BY DEF Sources, Destinations
    <3>2. form = Updated(f)
      BY <2>1 DEF Opened
    <3> QED
      BY <3>1, <3>2, UpdatedIsTyped
  <2>2. ASSUME NEW c \in Prefills, form = Opened(c, c) PROVE form \in FormRecord
    <3> DEFINE f == [source |-> c[1], destination |-> c[2], later |-> {}, force |-> c]
    <3>1. f \in FormRecord
      BY PrefillsAreLegal DEF LEGAL_CELLS, Sources, Destinations
    <3>2. form = Updated(f)
      BY <2>2 DEF Opened
    <3> QED
      BY <3>1, <3>2, UpdatedIsTyped
  <2> QED
    BY <2>1, <2>2 DEF NewJobInit
<1>2. flow.pc = "idle" /\ flow \in FlowRecord
  BY NoPlanIsTyped DEF NewJobInit, FlowRecord, FlowPcs
<1> QED
  BY <1>1, <1>2, NoPlanIsTyped
     DEF NewJobInit, NewJobInv, NewJobTypeOK, FlowCarries, Busy, FlowRecord, FlowPcs

-------------------------------------------------------------------------------

(* Type correctness, for any prefills. *)
THEOREM NewJobTypeCorrect == NewJobSpec => []NewJobTypeOK
<1>1. NewJobInv => NewJobTypeOK
  BY DEF NewJobInv
<1> QED
  BY <1>1, NewJobInvInit, NewJobStep, PTL DEF NewJobSpec

(* What is launched is what a dialog showed and the operator said yes to. *)
THEOREM LaunchesTheConfirmed == NewJobSpec => LaunchesWhatWasConfirmed
BY NewJobInvInit, NewJobStep, PTL DEF NewJobSpec, LaunchesWhatWasConfirmed

-------------------------------------------------------------------------------
(* Table browser *)

LoadRecord == [pc : {"idle", "asked", "answered"}, schema : Schemas, found : SUBSET Tables]
DropRecord == [pc : {"idle", "asks", "drops", "reloads"}, asked : SUBSET FullNames,
               left : SUBSET FullNames, gone : SUBSET FullNames, listed : SUBSET FullNames]
DialogRecord == [typed : SUBSET {"I AM SURE", "DROP"}, answer : {"none", "yes", "no"}]
Screen == [schema : Schemas, listed : SUBSET Tables, checked : SUBSET Tables,
           load : [Loaders -> LoadRecord], flow : DropRecord, dialog : DialogRecord]

(* What the drop flow has left to do, and what it asks, once it is answered, was agreed. *)
Agreed(b, a) ==
    /\ b.flow.pc = "drops" => b.flow.left \subseteq a
    /\ b.flow.pc = "asks" /\ b.dialog.answer = "yes" => b.flow.asked \subseteq a

BrowserInv ==
    /\ warehouse \subseteq FullNames /\ agreed \subseteq FullNames
    /\ browser \in Screen
    /\ Agreed(browser, agreed)

(* The type invariant with named sets. *)
LEMMA BrowserUnfolds ==
    BrowserTypeOK <=> /\ warehouse \subseteq FullNames /\ agreed \subseteq FullNames
                      /\ browser \in Screen
BY DEF BrowserTypeOK, Screen, LoadRecord, DropRecord, DialogRecord

(* A step of the screen alone that keeps the drop flow and its dialog. *)
LEMMA ScreenMoves ==
    ASSUME BrowserInv, NEW b \in Screen, Becomes(b), b.flow = browser.flow,
           b.dialog = browser.dialog
    PROVE  BrowserInv' /\ warehouse' = warehouse
BY DEF BrowserInv, Becomes, Agreed

(* A step of the screen alone that moves the flow, and agrees to nothing. *)
LEMMA DropMoves ==
    ASSUME BrowserInv, NEW b \in Screen, Becomes(b), Agreed(b, agreed)
    PROVE  BrowserInv' /\ warehouse' = warehouse
BY DEF BrowserInv, Becomes, Agreed

(* The values screens start from. *)
LEMMA BrowserStarts ==
    ASSUME NEW s \in Schemas
    PROVE  /\ NotLoading \in LoadRecord /\ NoFlow \in DropRecord /\ Dialog \in DialogRecord
           /\ NotLoading.schema \in Schemas
BY DEF NotLoading, NoFlow, Dialog, LoadRecord, DropRecord, DialogRecord

(* A load that is asked for. *)
LEMMA AskedIsTyped ==
    ASSUME NEW b \in Screen, NEW who \in Loaders
    PROVE  Asked(b, who) \in Screen /\ Asked(b, who).flow = b.flow /\ Asked(b, who).dialog = b.dialog
<1>1. [pc |-> "asked", schema |-> b.schema, found |-> {}] \in LoadRecord
  BY DEF Screen, LoadRecord
<1>2. [b.load EXCEPT ![who] = [pc |-> "asked", schema |-> b.schema, found |-> {}]]
         \in [Loaders -> LoadRecord]
  BY <1>1 DEF Screen
<1> QED
  BY <1>2 DEF Screen, Asked

(* A load that is over, and the flow with it if it was its reload. *)
LEMMA DoneIsTyped ==
    ASSUME NEW b \in Screen, NEW who \in Loaders, NEW a, Agreed(b, a)
    PROVE  /\ Done(b, who) \in Screen /\ Agreed(Done(b, who), a)
           /\ Done(b, who).dialog = b.dialog
           /\ Done(b, who).flow \in {NoFlow, b.flow}
<1>1. b.schema \in Schemas
  BY DEF Screen
<1>2. /\ NotLoading \in LoadRecord /\ NoFlow \in DropRecord /\ NoFlow.pc = "idle"
  BY <1>1, BrowserStarts DEF NoFlow
<1> DEFINE l == [b.load EXCEPT ![who] = NotLoading]
           f == IF who = "drop" THEN NoFlow ELSE b.flow
<1>3. l \in [Loaders -> LoadRecord] /\ f \in DropRecord
  BY <1>2 DEF Screen
<1>4. Done(b, who) = [b EXCEPT !.load = l, !.flow = f]
  BY DEF Done
<1> HIDE DEF l
<1>5. /\ Done(b, who) \in Screen /\ Done(b, who).flow = f /\ Done(b, who).dialog = b.dialog
  BY <1>3, <1>4 DEF Screen
<1> QED
  BY <1>2, <1>5 DEF Agreed

BrowserKeeps == BrowserInv' /\ warehouse \ warehouse' \subseteq agreed

(* Every step keeps the invariant, and drops only what was agreed. *)
LEMMA BrowserStep == BrowserInv /\ [BrowserNext]_browserVars => BrowserKeeps
<1> SUFFICES ASSUME BrowserInv, [BrowserNext]_browserVars PROVE BrowserKeeps
  OBVIOUS
<1>typed. /\ browser \in Screen /\ Agreed(browser, agreed)
          /\ warehouse \subseteq FullNames /\ agreed \subseteq FullNames
          /\ browser.schema \in Schemas /\ browser.flow \in DropRecord
          /\ browser.dialog \in DialogRecord /\ browser.listed \subseteq Tables
          /\ browser.checked \subseteq Tables /\ browser.load \in [Loaders -> LoadRecord]
  BY DEF BrowserInv, Screen
<1>moves. ASSUME NEW b \in Screen, Becomes(b), b.flow = browser.flow, b.dialog = browser.dialog
          PROVE BrowserKeeps
  BY <1>moves, ScreenMoves DEF BrowserKeeps
<1>flows. ASSUME NEW b \in Screen, Becomes(b), Agreed(b, agreed) PROVE BrowserKeeps
  BY <1>flows, DropMoves DEF BrowserKeeps
<1>1. ASSUME NEW s \in Schemas, EditsSchema(s) PROVE BrowserKeeps
  <2>1. /\ [browser EXCEPT !.schema = s] \in Screen
        /\ [browser EXCEPT !.schema = s].flow = browser.flow
        /\ [browser EXCEPT !.schema = s].dialog = browser.dialog
    BY <1>typed DEF Screen
  <2> QED
    BY <1>1, <1>moves, <2>1 DEF EditsSchema
<1>2. ASSUME Loads PROVE BrowserKeeps
  <2>1. "operator" \in Loaders
    BY DEF Loaders
  <2> QED
    BY <1>2, <1>typed, <1>moves, <2>1, AskedIsTyped DEF Loads
<1>3. ASSUME NEW who \in Loaders, LoadAnswers(who) PROVE BrowserKeeps
  <2> DEFINE found == {t \in Tables : <<browser.load[who].schema, t>> \in warehouse}
             l == [browser.load EXCEPT ![who].pc = "answered", ![who].found = found]
             b == [browser EXCEPT !.load[who].pc = "answered", !.load[who].found = found]
  <2>1. browser.load[who] \in LoadRecord /\ found \subseteq Tables
    BY <1>typed
  <2> HIDE DEF found
  <2>2. l \in [Loaders -> LoadRecord]
    BY <1>typed, <2>1 DEF LoadRecord
  <2>3. b = [browser EXCEPT !.load = l]
    BY <1>typed DEF Screen
  <2>4. b \in Screen /\ b.flow = browser.flow /\ b.dialog = browser.dialog
    <3> HIDE DEF l
    <3> QED
      BY <1>typed, <2>2, <2>3 DEF Screen
  <2>5. Becomes(b)
    BY <1>3 DEF LoadAnswers, found
  <2> HIDE DEF b
  <2> QED
    BY <1>moves, <2>4, <2>5
<1>4. ASSUME NEW who \in Loaders, LoadApplies(who) PROVE BrowserKeeps
  <2> DEFINE found == browser.load[who].found
             d == Done(browser, who)
             b == [d EXCEPT !.listed = found, !.checked = @ \cap found]
  <2>1. found \subseteq Tables /\ d \in Screen /\ Agreed(d, agreed)
    BY <1>typed, DoneIsTyped DEF LoadRecord
  <2>2. Becomes(b)
    BY <1>4 DEF LoadApplies
  <2> HIDE DEF found, d
  <2>3. b \in Screen /\ b.flow = d.flow /\ b.dialog = d.dialog
    BY <2>1 DEF Screen
  <2>4. Agreed(b, agreed)
    BY <2>1, <2>3 DEF Agreed
  <2> HIDE DEF b
  <2> QED
    BY <1>flows, <2>2, <2>3, <2>4
<1>5. ASSUME NEW who \in Loaders, LoadFails(who) PROVE BrowserKeeps
  BY <1>5, <1>typed, <1>flows, DoneIsTyped DEF LoadFails
<1>6. ASSUME NEW t \in Tables, Toggles(t) PROVE BrowserKeeps
  <2> DEFINE b == [browser EXCEPT !.checked = IF t \in @ THEN @ \ {t} ELSE @ \cup {t}]
  <2>1. b \in Screen /\ b.flow = browser.flow /\ b.dialog = browser.dialog
    BY <1>typed DEF Screen
  <2>2. Becomes(b)
    BY <1>6 DEF Toggles
  <2> HIDE DEF b
  <2> QED
    BY <1>moves, <2>1, <2>2
<1>7. ASSUME SelectsAll PROVE BrowserKeeps
  <2> DEFINE b == [browser EXCEPT !.checked = IF @ = browser.listed THEN {} ELSE browser.listed]
  <2>1. b \in Screen /\ b.flow = browser.flow /\ b.dialog = browser.dialog
    BY <1>typed DEF Screen
  <2>2. Becomes(b)
    BY <1>7 DEF SelectsAll
  <2> HIDE DEF b
  <2> QED
    BY <1>moves, <2>1, <2>2
<1>8. ASSUME Drops PROVE BrowserKeeps
  <2> DEFINE l == [browser.load EXCEPT !["drop"] = NotLoading]
             f == [NoFlow EXCEPT !.asked = CheckedFull(browser),
                       !.pc = IF CheckedFull(browser) = {} THEN "idle" ELSE "asks"]
             b == [browser EXCEPT !.load = l, !.dialog = Dialog, !.flow = f]
  <2>1. CheckedFull(browser) \subseteq FullNames
    BY <1>typed DEF CheckedFull, FullNames
  <2>2. l \in [Loaders -> LoadRecord] /\ f \in DropRecord /\ f.pc # "drops"
    BY <1>typed, <2>1, BrowserStarts DEF Loaders, NoFlow, DropRecord
  <2>3. Dialog \in DialogRecord /\ Dialog.answer = "none"
    BY <1>typed, BrowserStarts DEF Dialog
  <2>4. browser' = b /\ UNCHANGED agreed
    BY <1>8 DEF Drops
  <2>5. warehouse' \subseteq warehouse /\ warehouse \ warehouse' \subseteq agreed
    BY <1>8, <1>typed DEF Drops, Agreed
  <2> HIDE DEF l, f
  <2>6. b \in Screen /\ b.flow = f /\ b.dialog = Dialog
    BY <1>typed, <2>2, <2>3 DEF Screen
  <2> HIDE DEF b
  <2> QED
    BY <1>typed, <2>2, <2>3, <2>4, <2>5, <2>6 DEF BrowserKeeps, BrowserInv, Agreed
<1>9. ASSUME NEW text \in {"I AM SURE", "DROP"}, Types(text) PROVE BrowserKeeps
  <2> DEFINE d == [browser.dialog EXCEPT !.typed = @ \cup {text}]
             b == [browser EXCEPT !.dialog = d]
  <2>1. d \in DialogRecord /\ d.answer = browser.dialog.answer
    BY <1>typed DEF DialogRecord
  <2>2. Becomes(b)
    BY <1>9 DEF Types
  <2> HIDE DEF d
  <2>3. b \in Screen /\ b.flow = browser.flow /\ b.dialog = d
    BY <1>typed, <2>1 DEF Screen
  <2> HIDE DEF b
  <2>4. Agreed(b, agreed)
    BY <1>typed, <2>1, <2>3 DEF Agreed
  <2> QED
    BY <1>flows, <2>2, <2>3, <2>4
<1>10. ASSUME Confirms PROVE BrowserKeeps
  <2> DEFINE d == [browser.dialog EXCEPT !.answer = "yes"]
             b == [browser EXCEPT !.dialog = d]
  <2>1. d \in DialogRecord
    BY <1>typed DEF DialogRecord
  <2>2. browser' = b /\ agreed' = agreed \cup browser.flow.asked /\ UNCHANGED warehouse
    BY <1>10 DEF Confirms
  <2>3. browser.flow.pc = "asks" /\ browser.flow.asked \subseteq FullNames
    BY <1>10, <1>typed DEF Confirms, InDialog, DropRecord
  <2> HIDE DEF d
  <2>4. b \in Screen /\ b.flow = browser.flow
    BY <1>typed, <2>1 DEF Screen
  <2> HIDE DEF b
  <2> QED
    BY <1>typed, <2>2, <2>3, <2>4 DEF BrowserKeeps, BrowserInv, Agreed
<1>11. ASSUME Declines PROVE BrowserKeeps
  <2> DEFINE d == [browser.dialog EXCEPT !.answer = "no"]
             b == [browser EXCEPT !.dialog = d]
  <2>1. d \in DialogRecord /\ d.answer = "no"
    BY <1>typed DEF DialogRecord
  <2>2. Becomes(b)
    BY <1>11 DEF Declines
  <2> HIDE DEF d
  <2>3. b \in Screen /\ b.flow = browser.flow /\ b.dialog = d
    BY <1>typed, <2>1 DEF Screen
  <2> HIDE DEF b
  <2>4. Agreed(b, agreed)
    BY <1>typed, <2>1, <2>3 DEF Agreed
  <2> QED
    BY <1>flows, <2>2, <2>3, <2>4
<1>12. ASSUME FlowResumes PROVE BrowserKeeps
  <2> DEFINE f == IF browser.dialog.answer = "no" THEN NoFlow
                  ELSE [browser.flow EXCEPT !.pc = "drops", !.left = browser.flow.asked,
                                            !.listed = {browser.schema} \X browser.listed]
             b == [browser EXCEPT !.dialog = Dialog, !.flow = f]
  <2>1. /\ f \in DropRecord /\ f.pc \in {"idle", "drops"}
        /\ f.pc = "drops" => f.left \subseteq agreed
    <3>1. {browser.schema} \X browser.listed \subseteq FullNames
      BY <1>typed DEF FullNames
    <3>2. CASE browser.dialog.answer = "no"
      BY <1>typed, <3>2, BrowserStarts DEF NoFlow
    <3>3. CASE browser.dialog.answer # "no"
      <4>1. browser.flow.asked \subseteq agreed
        BY <1>12, <1>typed, <3>3 DEF FlowResumes, Agreed, DialogRecord
      <4> QED
        BY <1>typed, <3>1, <3>3, <4>1 DEF DropRecord
    <3> QED
      BY <3>2, <3>3
  <2>2. Dialog \in DialogRecord
    BY <1>typed, BrowserStarts
  <2>3. Becomes(b)
    BY <1>12 DEF FlowResumes
  <2> HIDE DEF f
  <2>4. b \in Screen /\ b.flow = f
    BY <1>typed, <2>1, <2>2 DEF Screen
  <2> HIDE DEF b
  <2>5. Agreed(b, agreed)
    BY <2>1, <2>4 DEF Agreed
  <2> QED
    BY <1>flows, <2>3, <2>4, <2>5
<1>13. ASSUME NEW t \in FullNames, DropsTable(t) PROVE BrowserKeeps
  <2>1. browser.flow.pc = "drops" /\ t \in agreed
    BY <1>13, <1>typed DEF DropsTable, Agreed
  <2>2. warehouse' \subseteq warehouse /\ warehouse \ warehouse' \subseteq {t} /\ UNCHANGED agreed
    BY <1>13 DEF DropsTable
  <2>3. PICK f, c : /\ f \in DropRecord /\ f.pc = "drops" /\ f.left \subseteq browser.flow.left
                    /\ c \subseteq Tables
                    /\ browser' = [browser EXCEPT !.flow = f, !.checked = c]
    <3> DEFINE f1 == [browser.flow EXCEPT !.left = @ \ {t}, !.gone = @ \cup {t}]
               c1 == IF t \in browser.flow.listed THEN browser.checked \ {t[2]} ELSE browser.checked
               f2 == [browser.flow EXCEPT !.left = @ \ {t}]
    <3>1. /\ f1 \in DropRecord /\ f1.pc = "drops" /\ f1.left \subseteq browser.flow.left
          /\ f2 \in DropRecord /\ f2.pc = "drops" /\ f2.left \subseteq browser.flow.left
      BY <1>typed, <2>1 DEF DropRecord
    <3>2. c1 \subseteq Tables
      BY <1>typed
    <3>3. \/ browser' = [browser EXCEPT !.flow = f1, !.checked = c1]
          \/ browser' = [browser EXCEPT !.flow = f2, !.checked = browser.checked]
      BY <1>13, <1>typed DEF DropsTable, Screen
    <3> HIDE DEF f1, f2, c1
    <3> QED
      BY <1>typed, <3>1, <3>2, <3>3
  <2>4. browser' \in Screen /\ browser'.flow = f
    BY <1>typed, <2>3 DEF Screen
  <2> QED
    BY <1>typed, <2>1, <2>2, <2>3, <2>4 DEF BrowserKeeps, BrowserInv, Agreed
<1>14. ASSUME FlowReloads PROVE BrowserKeeps
  <2> DEFINE a == Asked(browser, "drop")
             f == [browser.flow EXCEPT !.pc = "reloads"]
             names == {t[2] : t \in browser.flow.gone}
             b == [a EXCEPT !.listed = @ \ names, !.flow = f]
  <2>1. a \in Screen /\ a.flow = browser.flow /\ a.dialog = browser.dialog
    BY <1>typed, AskedIsTyped DEF Loaders
  <2>2. f \in DropRecord /\ f.pc = "reloads"
    BY <1>typed DEF DropRecord
  <2>3. Becomes(b)
    BY <1>14, <2>1 DEF FlowReloads
  <2> HIDE DEF a, f, names
  <2>4. b \in Screen /\ b.flow = f
    BY <2>1, <2>2 DEF Screen
  <2> HIDE DEF b
  <2>5. Agreed(b, agreed)
    BY <2>2, <2>4 DEF Agreed
  <2> QED
    BY <1>flows, <2>3, <2>4, <2>5
<1>15. CASE UNCHANGED browserVars
  BY <1>15 DEF browserVars, BrowserKeeps, BrowserInv
<1> QED
  BY <1>1, <1>2, <1>3, <1>4, <1>5, <1>6, <1>7, <1>8, <1>9, <1>10, <1>11, <1>12, <1>13, <1>14,
     <1>15 DEF BrowserNext

(* The screen starts with nothing asked and nothing agreed. *)
LEMMA BrowserInvInit == BrowserInit => BrowserInv
<1> SUFFICES ASSUME BrowserInit PROVE BrowserInv
  OBVIOUS
<1>1. (CHOOSE s \in Schemas : TRUE) \in Schemas
  BY SchemasExist
<1>2. /\ NotLoading \in LoadRecord /\ NoFlow \in DropRecord /\ NoFlow.pc = "idle"
      /\ Dialog \in DialogRecord
  BY <1>1, BrowserStarts DEF NoFlow
<1>3. browser \in Screen /\ browser.flow = NoFlow
  BY <1>1, <1>2 DEF BrowserInit, Screen
<1> QED
  BY <1>2, <1>3 DEF BrowserInit, BrowserInv, Agreed

-------------------------------------------------------------------------------

(* Type correctness, for any schemas, at least one, and tables. *)
THEOREM BrowserTypeCorrect == BrowserSpec => []BrowserTypeOK
<1>1. BrowserInv => BrowserTypeOK
  BY BrowserUnfolds DEF BrowserInv
<1> QED
  BY <1>1, BrowserInvInit, BrowserStep, PTL DEF BrowserSpec, BrowserKeeps

(* No table is dropped whose full name the operator did not confirm. *)
THEOREM DropsTheConfirmed == BrowserSpec => DropsWhatWasConfirmed
<1>1. BrowserInv /\ [BrowserNext]_browserVars
        => BrowserInv' /\ [warehouse \ warehouse' \subseteq agreed]_browserVars
  BY BrowserStep DEF BrowserKeeps
<1> QED
  BY <1>1, BrowserInvInit, PTL DEF BrowserSpec, DropsWhatWasConfirmed

-------------------------------------------------------------------------------
(* Dashboard *)

Board == [onTop : {"yes", "no"}, refresh : {"idle", "reading", "listed"}, snap : Listing,
          target : Jobs \cup {NoJob}, cache : Listing, last : Listing, needle : SUBSET Jobs,
          highlighted : Jobs \cup {NoJob}, reading : Jobs \cup {NoJob},
          pane : Jobs \cup {NoJob}, notified : [Jobs -> 0 .. 2]]

(* What has been announced has ended, wherever the screen looks: on disk, in both of its   *)
(* listings, and in the one it has just read; a listing never runs ahead of the disk.      *)
EndsStay ==
    \A j \in Jobs :
        /\ board.notified[j] <= 1
        /\ board.refresh = "listed" /\ board.snap[j] = "Ended" => onDisk[j] = "Ended"
        /\ board.notified[j] = 1 =>
              /\ board.cache[j] = "Ended" /\ board.last[j] = "Ended" /\ onDisk[j] = "Ended"
              /\ board.refresh = "listed" => board.snap[j] = "Ended"

DashInv == onDisk \in [Jobs -> JobStates] /\ board \in Board /\ EndsStay

(* A view of the listings: only what the pane shows, the filter and the highlight change. *)
LEMMA ViewMoves ==
    ASSUME DashInv, NEW b \in Board, Repainted(b), b.cache = board.cache, b.last = board.last,
           b.notified = board.notified,
           \/ b.refresh = board.refresh /\ b.snap = board.snap
           \/ b.refresh # "listed"
    PROVE  DashInv'
BY DEF DashInv, Repainted, EndsStay

(* What the pane shows is a Job or none, and repainting the table keeps the rest. *)
LEMMA ShownIsTyped ==
    ASSUME NEW d \in Board
    PROVE  /\ Visible(d) \subseteq Jobs
           /\ \A j : Shown(d, j) \in Jobs \cup {NoJob}
           /\ Rendered(d) \in Board
           /\ Rendered(d) \in {d, [d EXCEPT !.pane = NoJob]}
<1>1. Visible(d) \subseteq Jobs
  BY DEF Visible, Board
<1>2. [d EXCEPT !.pane = NoJob] \in Board
  BY DEF Board
<1> QED
  BY <1>1, <1>2 DEF Shown, Rendered

(* A refresh that applies announces only what it just saw end. *)
LEMMA AppliesKeeps == DashInv /\ RefreshApplies => DashInv'
<1> SUFFICES ASSUME DashInv, RefreshApplies PROVE DashInv'
  OBVIOUS
<1> DEFINE said == [j \in Jobs |-> IF /\ board.last[j] = "Running" /\ board.snap[j] = "Ended"
                                      /\ board.notified[j] < 2
                                   THEN board.notified[j] + 1 ELSE board.notified[j]]
           known == [board EXCEPT !.cache = board.snap]
           told == [known EXCEPT !.notified = said, !.last = board.snap]
           d == Rendered(told)
           b == [d EXCEPT !.pane = Shown(d, board.target), !.refresh = "idle",
                          !.snap = Nothing, !.target = NoJob]
<1>1. board \in Board /\ board.snap \in Listing /\ board.refresh = "listed"
  BY DEF DashInv, Board, RefreshApplies
<1>2. said \in [Jobs -> 0 .. 2]
  BY <1>1 DEF Board
<1>3. Nothing \in Listing
  BY DEF Nothing, Listing
<1>4. /\ known \in Board /\ known.last = board.last /\ known.snap = board.snap
      /\ known.notified = board.notified
  BY <1>1 DEF Board
<1>5. Remembered(known) = told
  BY <1>4 DEF Remembered, Announced
<1>6. Repainted(b)
  BY <1>5 DEF RefreshApplies
<1> HIDE DEF said, known
<1>7. told \in Board /\ told.notified = said /\ told.last = board.snap /\ told.cache = known.cache
  BY <1>1, <1>2, <1>4 DEF Board
<1>8. known.cache = board.snap
  BY <1>1 DEF known, Board
<1> HIDE DEF told
<1>9. /\ d \in Board /\ d.notified = said /\ d.last = board.snap /\ d.cache = board.snap
      /\ \A j : Shown(d, j) \in Jobs \cup {NoJob}
  <2>1. d \in Board /\ d \in {told, [told EXCEPT !.pane = NoJob]}
    BY <1>7, ShownIsTyped
  <2>2. /\ [told EXCEPT !.pane = NoJob].notified = told.notified
        /\ [told EXCEPT !.pane = NoJob].last = told.last
        /\ [told EXCEPT !.pane = NoJob].cache = told.cache
    BY <1>7 DEF Board
  <2>3. \A j : Shown(d, j) \in Jobs \cup {NoJob}
    BY <2>1, ShownIsTyped
  <2> HIDE DEF d
  <2> QED
    BY <1>7, <1>8, <2>1, <2>2, <2>3
<1> HIDE DEF d
<1>10. /\ b \in Board /\ b.notified = said /\ b.last = board.snap /\ b.cache = board.snap
       /\ b.refresh = "idle"
  BY <1>3, <1>9 DEF Board
<1> HIDE DEF b
<1>11. board' = b /\ onDisk' = onDisk
  BY <1>6 DEF Repainted
<1>12. ASSUME NEW j \in Jobs
       PROVE  /\ said[j] <= 1
              /\ said[j] = 1 => board.snap[j] = "Ended" /\ onDisk[j] = "Ended"
  <2>1. board.notified[j] \in 0 .. 2
    BY <1>1 DEF Board
  <2> QED
    BY <1>1, <2>1 DEF DashInv, EndsStay, said
<1> QED
  BY <1>10, <1>11, <1>12 DEF DashInv, EndsStay

LEMMA DashStep == DashInv /\ [DashNext]_dashVars => DashInv'
<1> SUFFICES ASSUME DashInv, [DashNext]_dashVars PROVE DashInv'
  OBVIOUS
<1>typed. /\ board \in Board /\ onDisk \in [Jobs -> JobStates]
          /\ board.highlighted \in Jobs \cup {NoJob} /\ board.reading \in Jobs \cup {NoJob}
  BY DEF DashInv, Board
<1>1. ASSUME NEW j \in Jobs, JobMoves(j) PROVE DashInv'
  <2>1. /\ onDisk' \in [Jobs -> JobStates] /\ board' = board
        /\ \A i \in Jobs : onDisk[i] = "Ended" => onDisk'[i] = "Ended"
    BY <1>1, <1>typed DEF JobMoves, JobStates
  <2> QED
    BY <2>1 DEF DashInv, EndsStay
<1>2. ASSUME NEW j \in Jobs, Highlights(j) PROVE DashInv'
  <2> DEFINE b == [board EXCEPT !.highlighted = j, !.reading = j]
  <2>1. /\ b \in Board /\ b.cache = board.cache /\ b.last = board.last
        /\ b.notified = board.notified /\ b.refresh = board.refresh /\ b.snap = board.snap
    BY <1>typed DEF Board
  <2>2. Repainted(b)
    BY <1>2 DEF Highlights
  <2> HIDE DEF b
  <2> QED
    BY <2>1, <2>2, ViewMoves
<1>3. CASE RefreshStarts
  <2> DEFINE b == [board EXCEPT !.refresh = "reading", !.target = board.highlighted]
  <2>1. /\ b \in Board /\ b.cache = board.cache /\ b.last = board.last
        /\ b.notified = board.notified /\ b.refresh = "reading"
    BY <1>typed DEF Board
  <2>2. Repainted(b)
    BY <1>3 DEF RefreshStarts
  <2> HIDE DEF b
  <2> QED
    BY <2>1, <2>2, ViewMoves
<1>4. CASE RefreshLists
  <2>1. PICK t \in Jobs, g \in Jobs \cup {NoJob}, h \in Jobs \cup {NoJob} :
            /\ onDisk' = onDisk
            /\ board' = [board EXCEPT !.refresh = "listed", !.snap = onDisk, !.target = g,
                                      !.highlighted = h]
    <3>1. PICK t \in Jobs :
              Repainted([board EXCEPT !.refresh = "listed", !.snap = onDisk,
                            !.target = IF board.target = NoJob THEN t ELSE board.target,
                            !.highlighted = IF board.target = NoJob THEN t ELSE @])
      BY <1>4 DEF RefreshLists
    <3>2. board.target \in Jobs \cup {NoJob}
      BY <1>typed DEF Board
    <3> DEFINE g == IF board.target = NoJob THEN t ELSE board.target
               h == IF board.target = NoJob THEN t ELSE board.highlighted
    <3>3. g \in Jobs \cup {NoJob} /\ h \in Jobs \cup {NoJob}
      BY <1>typed, <3>2
    <3>4. /\ onDisk' = onDisk
          /\ board' = [board EXCEPT !.refresh = "listed", !.snap = onDisk, !.target = g,
                                    !.highlighted = h]
      BY <3>1, <1>typed DEF Repainted, Board
    <3> HIDE DEF g, h
    <3> QED
      BY <3>3, <3>4
  <2>2. onDisk \in Listing
    BY <1>typed DEF Listing
  <2>3. /\ board' \in Board /\ board'.cache = board.cache /\ board'.last = board.last
        /\ board'.notified = board.notified /\ board'.snap = onDisk
    BY <1>typed, <2>1, <2>2 DEF Board
  <2> QED
    BY <2>1, <2>3 DEF DashInv, EndsStay
<1>5. CASE RefreshApplies
  BY <1>5, AppliesKeeps
<1>6. CASE RefreshFails
  <2> DEFINE b == [board EXCEPT !.refresh = "idle", !.snap = Nothing, !.target = NoJob]
  <2>1. Nothing \in Listing
    BY DEF Nothing, Listing
  <2>2. /\ b \in Board /\ b.cache = board.cache /\ b.last = board.last
        /\ b.notified = board.notified /\ b.refresh = "idle"
    BY <1>typed, <2>1 DEF Board
  <2>3. Repainted(b)
    BY <1>6 DEF RefreshFails
  <2> HIDE DEF b
  <2> QED
    BY <2>2, <2>3, ViewMoves
<1>7. CASE DetailApplies
  <2> DEFINE p == IF board.highlighted = board.reading
                  THEN Shown(board, board.reading) ELSE board.pane
             b == [board EXCEPT !.reading = NoJob, !.pane = p]
  <2>1. p \in Jobs \cup {NoJob}
    BY <1>typed, ShownIsTyped DEF Board
  <2>2. Repainted(b)
    BY <1>7, <1>typed DEF DetailApplies, Board
  <2> HIDE DEF p
  <2>3. /\ b \in Board /\ b.cache = board.cache /\ b.last = board.last
        /\ b.notified = board.notified /\ b.refresh = board.refresh /\ b.snap = board.snap
    BY <1>typed, <2>1 DEF Board
  <2> HIDE DEF b
  <2> QED
    BY <2>2, <2>3, ViewMoves
<1>8. CASE Covers
  <2> DEFINE b == [board EXCEPT !.onTop = IF @ = "yes" THEN "no" ELSE "yes"]
  <2>1. /\ b \in Board /\ b.cache = board.cache /\ b.last = board.last
        /\ b.notified = board.notified /\ b.refresh = board.refresh /\ b.snap = board.snap
    BY <1>typed DEF Board
  <2>2. Repainted(b)
    BY <1>8 DEF Covers
  <2> HIDE DEF b
  <2> QED
    BY <2>1, <2>2, ViewMoves
<1>9. ASSUME NEW matching \in SUBSET Jobs, Filters(matching) PROVE DashInv'
  <2> DEFINE n == [board EXCEPT !.needle = matching]
             b == Rendered(n)
  <2>1. /\ n \in Board /\ n.cache = board.cache /\ n.last = board.last
        /\ n.notified = board.notified /\ n.refresh = board.refresh /\ n.snap = board.snap
    BY <1>typed DEF Board
  <2>2. Repainted(b)
    BY <1>9 DEF Filters
  <2> HIDE DEF n
  <2>3. b \in Board /\ b \in {n, [n EXCEPT !.pane = NoJob]}
    BY <2>1, ShownIsTyped
  <2> HIDE DEF b
  <2>4. /\ b.cache = n.cache /\ b.last = n.last /\ b.notified = n.notified
        /\ b.refresh = n.refresh /\ b.snap = n.snap
    BY <2>1, <2>3 DEF Board
  <2> QED
    BY <2>1, <2>2, <2>3, <2>4, ViewMoves
<1>10. CASE UNCHANGED dashVars
  BY <1>10 DEF dashVars, DashInv, EndsStay
<1> QED
  BY <1>1, <1>2, <1>3, <1>4, <1>5, <1>6, <1>7, <1>8, <1>9, <1>10 DEF DashNext

LEMMA DashInvInit == DashInit => DashInv
<1> SUFFICES ASSUME DashInit PROVE DashInv
  OBVIOUS
<1>1. Nothing \in Listing
  BY DEF Nothing, Listing
<1>2. /\ board \in Board /\ \A j \in Jobs : board.notified[j] = 0
      /\ board.refresh = "idle" /\ onDisk \in [Jobs -> JobStates]
  BY <1>1 DEF DashInit, Board, JobStates
<1> QED
  BY <1>2 DEF DashInv, EndsStay

LEMMA DashInvAlways == DashSpec => []DashInv
BY DashInvInit, DashStep, PTL DEF DashSpec

(* Type correctness, for any Jobs. *)
THEOREM DashTypeCorrect == DashSpec => []DashTypeOK
<1>1. DashInv => DashTypeOK
  BY DEF DashInv, DashTypeOK, Board
<1> QED
  BY <1>1, DashInvAlways, PTL

(* The end of a Job is announced at most once, and the Dashboard shows it as ended from   *)
(* then on, whatever refreshes fail, are skipped, or are overtaken by the Job.            *)
THEOREM AnnouncedOnce == DashSpec => []NotifiesOnce
<1>1. DashInv => NotifiesOnce
  BY DEF DashInv, EndsStay, NotifiesOnce
<1> QED
  BY <1>1, DashInvAlways, PTL

-------------------------------------------------------------------------------
(* Telemetry *)

Flush == [pc : {"out", "puts", "waits", "true", "false"}, before : 0 .. MaxEvents, set : BOOLEAN]
Items == Events \cup Callers

LEMMA AppendFacts ==
    ASSUME NEW S, NEW s \in Seq(S), NEW e \in S
    PROVE  /\ Append(s, e) \in Seq(S)
           /\ Len(Append(s, e)) = Len(s) + 1 /\ Len(s) \in Nat
           /\ Append(s, e)[Len(s) + 1] = e
           /\ \A n \in 1 .. Len(s) : Append(s, e)[n] = s[n] /\ s[n] \in S
OBVIOUS

LEMMA TailFacts ==
    ASSUME NEW S, NEW s \in Seq(S), s # <<>>
    PROVE  /\ Tail(s) \in Seq(S) /\ Len(s) \in Nat \ {0} /\ Len(Tail(s)) = Len(s) - 1
           /\ Head(s) = s[1] /\ Head(s) \in S
           /\ \A n \in 1 .. Len(s) : s[n] \in S
           /\ \A n \in 1 .. Len(s) - 1 : Tail(s)[n] = s[n + 1]
OBVIOUS

(* The types, one fact each. *)
LEMMA TelTypes ==
    ASSUME TelInv
    PROVE  /\ noted \in 0 .. MaxEvents /\ MaxEvents \in Nat /\ Capacity \in Nat
           /\ queue \in Seq(Items) /\ Len(queue) <= Capacity /\ Len(queue) \in Nat
           /\ \A n \in 1 .. Len(queue) : queue[n] \in Items
           /\ files \in [Files -> Seq(Events)]
           /\ \A f \in Files : Len(files[f]) \in Nat /\ \A i \in 1 .. Len(files[f]) : files[f][i] \in Events
           /\ flushes \in [Callers -> Flush]
           /\ \A c \in Callers : flushes[c] \in Flush
           /\ writer.event \in 0 .. MaxEvents
           /\ writer.file \in Files => writer.event \in Events
           /\ writer.file \notin Files => writer.event = 0
           /\ Events \cap Callers = {}
<1>1. /\ queue \in Seq(Items) /\ Len(queue) <= Capacity /\ files \in [Files -> Seq(Events)]
      /\ flushes \in [Callers -> Flush] /\ noted \in 0 .. MaxEvents
  BY DEF TelInv, TelTypeOK, Items, Flush
<1>2. /\ writer.event \in 0 .. MaxEvents
      /\ writer.file \in Files => writer.event \in Events
      /\ writer.file \notin Files => writer.event = 0
  BY TelemetryBounds DEF TelInv, TelTypeOK, NoEvent, Events, Files
<1>3. Len(queue) \in Nat /\ \A n \in 1 .. Len(queue) : queue[n] \in Items
  BY <1>1
<1>4. ASSUME NEW f \in Files
      PROVE  Len(files[f]) \in Nat /\ \A i \in 1 .. Len(files[f]) : files[f][i] \in Events
  <2>1. files[f] \in Seq(Events)
    BY <1>1
  <2> QED
    BY <2>1
<1> QED
  BY <1>1, <1>2, <1>3, <1>4, TelemetryBounds DEF Events

(* A step of one caller's flush, with the queue and the writer at rest. *)
LEMMA CallerMoves ==
    ASSUME TelInv, NEW c \in Callers, NEW r \in Flush, flushes' = [flushes EXCEPT ![c] = r],
           UNCHANGED <<noted, queue, writer, files, exiting>>,
           r.before <= noted,
           writer = NoEvent => r.pc \notin {"puts", "waits"},
           r.pc = "puts" => ~r.set /\ \A n \in 1 .. Len(queue) : queue[n] # c,
           r.pc # "waits",
           r.pc = "true" => \A e \in Unwritten : e > r.before
    PROVE  TelInv'
<1>1. /\ flushes \in [Callers -> Flush] /\ flushes' \in [Callers -> Flush]
      /\ \A d \in Callers : flushes'[d] = IF d = c THEN r ELSE flushes[d]
  BY TelTypes
<1>2. TelTypeOK'
  BY <1>1 DEF TelInv, TelTypeOK, Flush
<1>3. OneOrder'
  BY DEF TelInv, OneOrder
<1>4. Unwritten' = Unwritten
  BY DEF Unwritten
<1>5. RequestsBehind'
  BY <1>1, <1>4 DEF TelInv, RequestsBehind
<1>6. FlushMeansHandled'
  BY <1>1, <1>4 DEF TelInv, FlushMeansHandled
<1> QED
  BY <1>2, <1>3, <1>5, <1>6 DEF TelInv

(* A new event is later than all others. *)
LEMMA NotesKeeps == TelInv /\ Notes => TelInv'
<1> SUFFICES ASSUME TelInv, Notes PROVE TelInv'
  OBVIOUS
<1>1. /\ noted' = noted + 1 /\ noted' \in Events /\ noted' \in Items
      /\ writer'.event = writer.event /\ writer' # NoEvent
      /\ writer'.file \in Files => writer' = writer
      /\ UNCHANGED <<files, flushes, exiting>>
      /\ \/ queue' = queue
         \/ queue' = Append(queue, noted + 1) /\ Len(queue) < Capacity
  BY TelTypes DEF Notes, TelInv, TelTypeOK, NoEvent, Events, Items, Files
<1>2. /\ queue' \in Seq(Items) /\ Len(queue) \in Nat /\ Len(queue') \in Nat
      /\ Len(queue') <= Capacity /\ Len(queue) <= Len(queue')
      /\ \A n \in 1 .. Len(queue) : queue'[n] = queue[n]
      /\ \A n \in 1 .. Len(queue') : n \in 1 .. Len(queue) \/ (queue'[n] = noted + 1 /\ n = Len(queue'))
  <2>1. queue \in Seq(Items) /\ Len(queue) \in Nat /\ Len(queue) <= Capacity /\ Capacity \in Nat
    BY TelTypes
  <2>2. CASE queue' = queue
    <3>1. queue' \in Seq(Items) /\ Len(queue') = Len(queue)
      BY <2>1, <2>2
    <3>2. \A n \in 1 .. Len(queue) : queue'[n] = queue[n]
      BY <2>2
    <3> QED
      BY <2>1, <3>1, <3>2
  <2>3. CASE queue' = Append(queue, noted + 1) /\ Len(queue) < Capacity
    <3>1. /\ queue' \in Seq(Items) /\ Len(queue') = Len(queue) + 1
          /\ queue'[Len(queue) + 1] = noted + 1
          /\ \A n \in 1 .. Len(queue) : queue'[n] = queue[n]
      BY <1>1, <2>1, <2>3, AppendFacts
    <3>2. ASSUME NEW n \in 1 .. Len(queue'), n \notin 1 .. Len(queue)
          PROVE  queue'[n] = noted + 1 /\ n = Len(queue')
      <4>1. n = Len(queue) + 1
        BY <2>1, <3>1, <3>2
      <4> QED
        BY <3>1, <4>1
    <3> QED
      BY <2>1, <2>3, <3>1, <3>2
  <2> QED
    BY <1>1, <2>2, <2>3
<1>3. TelTypeOK'
  BY <1>1, <1>2, TelTypes DEF TelInv, TelTypeOK, Items, Notes, NoEvent, Events
<1>4. OneOrder'
  <2>1. ASSUME NEW i \in 1 .. Len(queue'), NEW j \in 1 .. Len(queue'), i < j,
               queue'[i] \in Events, queue'[j] \in Events
        PROVE  queue'[i] < queue'[j]
    <3>1. i \in 1 .. Len(queue) /\ queue'[i] = queue[i]
      BY <1>2, <2>1
    <3>2. CASE j \in 1 .. Len(queue) /\ queue'[j] = queue[j]
      BY <2>1, <3>1, <3>2 DEF TelInv, OneOrder
    <3>3. CASE queue'[j] = noted + 1
      <4>1. queue[i] \in Nat /\ queue[i] <= noted /\ noted \in Nat
        BY <2>1, <3>1, TelTypes DEF TelInv, OneOrder, Events
      <4> QED
        BY <3>1, <3>3, <4>1
    <3> QED
      BY <1>2, <3>2, <3>3
  <2>2. ASSUME NEW n \in 1 .. Len(queue'), queue'[n] \in Events
        PROVE  queue'[n] <= noted' /\ writer'.event < queue'[n]
    <3>1. noted \in Nat /\ writer.event \in Nat /\ writer.event <= noted
      BY TelTypes DEF TelInv, OneOrder
    <3>2. CASE n \in 1 .. Len(queue) /\ queue'[n] = queue[n]
      <4>1. queue[n] \in Nat /\ queue[n] <= noted /\ writer.event < queue[n]
        BY <2>2, <3>2 DEF TelInv, OneOrder, Events
      <4> QED
        BY <1>1, <3>1, <3>2, <4>1
    <3>3. CASE queue'[n] = noted + 1
      BY <1>1, <3>1, <3>3
    <3> QED
      BY <1>2, <3>2, <3>3
  <2>3. ASSUME NEW f \in Files, NEW i \in 1 .. Len(files'[f])
        PROVE  /\ files'[f][i] <= noted'
               /\ \A n \in 1 .. Len(queue') : queue'[n] \in Events => files'[f][i] < queue'[n]
               /\ writer'.file = "private" \/ writer'.file = f => files'[f][i] < writer'.event
               /\ writer'.file = "shared" => files'[f][i] <= writer'.event
    <3>1. noted \in Nat /\ files'[f][i] \in Nat /\ i \in 1 .. Len(files[f]) /\ files' = files
      BY <1>1, TelTypes DEF Events
    <3>2. /\ files[f][i] <= noted
          /\ \A n \in 1 .. Len(queue) : queue[n] \in Events => files[f][i] < queue[n]
          /\ writer.file = "private" \/ writer.file = f => files[f][i] < writer.event
          /\ writer.file = "shared" => files[f][i] <= writer.event
      BY <3>1 DEF TelInv, OneOrder
    <3>3. ASSUME NEW n \in 1 .. Len(queue'), queue'[n] \in Events PROVE files[f][i] < queue'[n]
      BY <1>2, <3>1, <3>2, <3>3
    <3>4. writer'.file \in Files => writer'.file = writer.file
      BY <1>1
    <3> QED
      BY <1>1, <3>1, <3>2, <3>3, <3>4 DEF Files
  <2> QED
    BY <1>1, <2>1, <2>2, <2>3, TelTypes DEF OneOrder, TelInv
<1>5. \A e \in Unwritten' : e \in Unwritten \/ e = noted + 1
  BY <1>1, <1>2 DEF Unwritten
<1>6. RequestsBehind'
  <2>1. noted \in Nat /\ \A c \in Callers : flushes[c].before \in Nat /\ flushes[c].before <= noted
    BY TelTypes DEF TelInv, RequestsBehind, Flush
  <2>2. ASSUME NEW c \in Callers, NEW n \in 1 .. Len(queue'), queue'[n] = c
        PROVE  n \in 1 .. Len(queue) /\ queue[n] = c
    BY <1>1, <1>2, <2>2, TelTypes
  <2>3. ASSUME NEW c \in Callers, flushes[c].pc = "waits", NEW n \in 1 .. Len(queue'),
               NEW m \in 1 .. Len(queue'), queue'[n] = c, n < m, queue'[m] \in Events
        PROVE  queue'[m] > flushes[c].before
    <3>1. n \in 1 .. Len(queue) /\ queue[n] = c
      BY <2>2, <2>3
    <3>2. CASE m \in 1 .. Len(queue) /\ queue'[m] = queue[m]
      BY <2>3, <3>1, <3>2 DEF TelInv, RequestsBehind
    <3>3. CASE queue'[m] = noted + 1
      BY <2>1, <3>3
    <3> QED
      BY <1>2, <3>2, <3>3
  <2>4. ASSUME NEW c \in Callers, flushes[c].pc = "puts"
        PROVE  ~flushes[c].set /\ \A n \in 1 .. Len(queue') : queue'[n] # c
    BY <2>2, <2>4 DEF TelInv, RequestsBehind
  <2>5. ASSUME NEW c \in Callers, flushes[c].pc = "waits", flushes[c].set, NEW e \in Unwritten'
        PROVE  e > flushes[c].before
    <3>1. CASE e \in Unwritten
      BY <2>5, <3>1 DEF TelInv, RequestsBehind
    <3>2. CASE e = noted + 1
      BY <2>1, <3>2
    <3> QED
      BY <1>5, <3>1, <3>2
  <2>6. \A c \in Callers : flushes[c].before <= noted + 1
    BY <2>1
  <2> QED
    BY <1>1, <2>3, <2>4, <2>5, <2>6 DEF RequestsBehind
<1>7. FlushMeansHandled'
  BY <1>1, <1>5, TelTypes DEF TelInv, FlushMeansHandled, RequestsBehind, Flush
<1> QED
  BY <1>3, <1>4, <1>6, <1>7 DEF TelInv

(* The request of a flush goes behind all that was noted. *)
LEMMA PutsKeeps == ASSUME TelInv, NEW c \in Callers, Puts(c) PROVE TelInv'
<1>1. /\ c \in Items /\ c \notin Events /\ Len(queue) < Capacity
      /\ queue' = Append(queue, c) /\ UNCHANGED <<noted, writer, files, exiting>>
      /\ flushes[c].pc = "puts" /\ flushes[c] \in Flush
  BY TelTypes DEF Puts, Items
<1>2. /\ queue' \in Seq(Items) /\ Len(queue) \in Nat /\ Len(queue') = Len(queue) + 1
      /\ queue'[Len(queue')] = c
      /\ \A n \in 1 .. Len(queue) : queue'[n] = queue[n]
      /\ \A n \in 1 .. Len(queue') : n \in 1 .. Len(queue) \/ n = Len(queue')
  BY <1>1, TelTypes, AppendFacts
<1>3. /\ flushes' \in [Callers -> Flush]
      /\ \A d \in Callers : d # c => flushes'[d] = flushes[d]
      /\ flushes'[c].pc = "waits" /\ flushes'[c].before = flushes[c].before
      /\ flushes'[c].set = flushes[c].set
  <2>1. flushes' = [flushes EXCEPT ![c] = [flushes[c] EXCEPT !.pc = "waits"]]
    BY TelTypes DEF Puts, FlushTo
  <2>2. [flushes[c] EXCEPT !.pc = "waits"] \in Flush
    BY <1>1 DEF Flush
  <2> QED
    BY <1>1, <2>1, <2>2, TelTypes DEF Flush
<1>4. TelTypeOK'
  BY <1>1, <1>2, <1>3, TelTypes DEF TelInv, TelTypeOK, Items, Flush
<1>5. OneOrder'
  BY <1>1, <1>2, TelTypes DEF TelInv, OneOrder
<1>6. Unwritten' = Unwritten
  BY <1>1, <1>2 DEF Unwritten
<1>7. RequestsBehind'
  <2>1. writer # NoEvent /\ ~flushes[c].set /\ \A n \in 1 .. Len(queue) : queue[n] # c
    BY <1>1 DEF TelInv, RequestsBehind
  <2>2. ASSUME NEW d \in Callers, flushes'[d].pc = "puts"
        PROVE  ~flushes'[d].set /\ \A n \in 1 .. Len(queue') : queue'[n] # d
    BY <1>1, <1>2, <1>3, <2>2 DEF TelInv, RequestsBehind
  <2>3. ASSUME NEW d \in Callers, flushes'[d].pc = "waits", NEW n \in 1 .. Len(queue'),
               NEW m \in 1 .. Len(queue'), queue'[n] = d, n < m, queue'[m] \in Events
        PROVE  queue'[m] > flushes'[d].before
    BY <1>1, <1>2, <1>3, <2>1, <2>3 DEF TelInv, RequestsBehind
  <2>4. ASSUME NEW d \in Callers PROVE flushes'[d].before <= noted'
    BY <1>1, <1>3 DEF TelInv, RequestsBehind
  <2>5. ASSUME NEW d \in Callers, flushes'[d].pc = "waits", flushes'[d].set, NEW e \in Unwritten'
        PROVE  e > flushes'[d].before
    BY <1>3, <1>6, <2>1, <2>5 DEF TelInv, RequestsBehind
  <2> QED
    BY <1>1, <2>1, <2>2, <2>3, <2>4, <2>5 DEF RequestsBehind
<1>8. FlushMeansHandled'
  BY <1>1, <1>3, <1>6 DEF TelInv, FlushMeansHandled
<1> QED
  BY <1>4, <1>5, <1>7, <1>8 DEF TelInv

(* What the writer takes was the oldest, and a request it takes has nothing older left. *)
LEMMA WriterGetsKeeps == TelInv /\ WriterGets => TelInv'
<1> SUFFICES ASSUME TelInv, WriterGets PROVE TelInv'
  OBVIOUS
<1>1. /\ writer.file = "idle" /\ writer.event = 0 /\ writer # NoEvent
      /\ UNCHANGED <<noted, files, exiting>>
      /\ queue' = Tail(queue) /\ queue # <<>>
  BY TelTypes DEF WriterGets, Files, NoEvent
<1>2. /\ queue' \in Seq(Items) /\ Len(queue) \in Nat \ {0} /\ Len(queue') = Len(queue) - 1
      /\ Head(queue) = queue[1] /\ Head(queue) \in Items /\ 1 \in 1 .. Len(queue)
      /\ \A n \in 1 .. Len(queue') : queue'[n] = queue[n + 1] /\ n + 1 \in 1 .. Len(queue) /\ 1 < n + 1
      /\ \A n, m \in 1 .. Len(queue') : n < m => n + 1 < m + 1
  BY <1>1, TelTypes, TailFacts
<1>3. CASE Head(queue) \in Callers
  <2> DEFINE c == Head(queue)
  <2>1. writer' = writer /\ flushes' = [flushes EXCEPT ![c].set = TRUE] /\ flushes[c] \in Flush
    BY <1>3, TelTypes DEF WriterGets
  <2>2. c \notin Events /\ c = queue[1]
    BY <1>2, <1>3, TelTypes
  <2> HIDE DEF c
  <2>3. c \in Callers
    BY <1>3 DEF c
  <2>4. /\ flushes' \in [Callers -> Flush]
        /\ \A d \in Callers : d # c => flushes'[d] = flushes[d]
        /\ \A d \in Callers : flushes'[d].pc = flushes[d].pc /\ flushes'[d].before = flushes[d].before
        /\ flushes'[c].pc = flushes[c].pc /\ flushes'[c].before = flushes[c].before
    <3>1. flushes' = [flushes EXCEPT ![c] = [flushes[c] EXCEPT !.set = TRUE]]
      BY <2>1, <2>3, TelTypes
    <3>2. [flushes[c] EXCEPT !.set = TRUE] \in Flush
      BY <2>1 DEF Flush
    <3> QED
      BY <2>1, <2>3, <3>1, <3>2, TelTypes DEF Flush
  <2>5. TelTypeOK'
    BY <1>1, <1>2, <2>1, <2>4, TelTypes DEF TelInv, TelTypeOK, Items, Flush
  <2>6. OneOrder'
    BY <1>1, <1>2, <2>1, TelTypes DEF TelInv, OneOrder
  <2>7. \A e \in Unwritten' : e \in Unwritten
                              /\ \E n \in 1 .. Len(queue) : 1 < n /\ queue[n] = e /\ e \in Events
    BY <1>1, <1>2, <2>1 DEF Unwritten, Events
  <2>8. RequestsBehind'
    <3>1. flushes[c].pc # "puts"
      BY <1>2, <2>2, <2>3 DEF TelInv, RequestsBehind
    <3>2. ASSUME NEW d \in Callers, flushes'[d].pc = "puts"
          PROVE  ~flushes'[d].set /\ \A n \in 1 .. Len(queue') : queue'[n] # d
      BY <1>2, <2>4, <3>1, <3>2 DEF TelInv, RequestsBehind
    <3>3. ASSUME NEW d \in Callers, flushes'[d].pc = "waits", NEW n \in 1 .. Len(queue'),
                 NEW m \in 1 .. Len(queue'), queue'[n] = d, n < m, queue'[m] \in Events
          PROVE  queue'[m] > flushes'[d].before
      <4>1. /\ n + 1 \in 1 .. Len(queue) /\ m + 1 \in 1 .. Len(queue) /\ n + 1 < m + 1
            /\ queue[n + 1] = d /\ queue[m + 1] = queue'[m] /\ flushes[d].pc = "waits"
            /\ flushes'[d].before = flushes[d].before
        BY <1>2, <2>4, <3>3
      <4> QED
        BY <3>3, <4>1 DEF TelInv, RequestsBehind
    <3>4. ASSUME NEW d \in Callers PROVE flushes'[d].before <= noted'
      BY <1>1, <2>4 DEF TelInv, RequestsBehind
    <3>5. ASSUME NEW d \in Callers, flushes'[d].pc = "waits", flushes'[d].set, NEW e \in Unwritten'
          PROVE  e > flushes'[d].before
      <4>1. CASE d = c
        BY <1>2, <2>2, <2>4, <2>7, <3>5, <4>1 DEF TelInv, RequestsBehind
      <4>2. CASE d # c
        BY <2>4, <2>7, <3>5, <4>2 DEF TelInv, RequestsBehind
      <4> QED
        BY <4>1, <4>2
    <3> QED
      BY <1>1, <2>1, <3>2, <3>3, <3>4, <3>5 DEF RequestsBehind
  <2>9. FlushMeansHandled'
    BY <1>1, <2>3, <2>4, <2>7 DEF TelInv, FlushMeansHandled
  <2> QED
    BY <2>5, <2>6, <2>8, <2>9 DEF TelInv
<1>4. CASE Head(queue) \notin Callers
  <2>1. /\ writer' = [file |-> "private", event |-> queue[1]] /\ UNCHANGED flushes
        /\ queue[1] \in Events
    BY <1>2, <1>4 DEF WriterGets, Items
  <2>2. /\ writer' # NoEvent /\ writer'.file = "private" /\ writer'.event = queue[1]
        /\ writer' \in [file : Files, event : Events]
    BY <2>1 DEF NoEvent, Files
  <2>3. TelTypeOK'
    BY <1>1, <1>2, <2>1, <2>2, TelTypes DEF TelInv, TelTypeOK, Items, Flush
  <2>4. OneOrder'
    BY <1>1, <1>2, <2>1, <2>2, TelTypes DEF TelInv, OneOrder
  <2>5. \A e \in Unwritten' : e \in Unwritten
    BY <1>2, <2>1, <2>2 DEF Unwritten
  <2>6. RequestsBehind'
    BY <1>1, <1>2, <2>1, <2>2, <2>5 DEF TelInv, RequestsBehind
  <2>7. FlushMeansHandled'
    BY <1>1, <2>1, <2>5 DEF TelInv, FlushMeansHandled
  <2> QED
    BY <2>3, <2>4, <2>6, <2>7 DEF TelInv
<1> QED
  BY <1>3, <1>4

(* An event that is appended is later than all in that file. *)
LEMMA WriterAppendsKeeps == TelInv /\ WriterAppends => TelInv'
<1> SUFFICES ASSUME TelInv, WriterAppends PROVE TelInv'
  OBVIOUS
<1> DEFINE g == writer.file
           w == writer.event
<1>1. /\ g \in Files /\ w \in Events /\ UNCHANGED <<noted, queue, flushes, exiting>>
      /\ files' = files \/ files' = [files EXCEPT ![g] = Append(files[g], w)]
      /\ writer' # NoEvent
      /\ \/ writer' = [file |-> "shared", event |-> w] /\ g = "private"
         \/ writer' = [file |-> "idle", event |-> 0] /\ g = "shared"
  BY TelTypes DEF WriterAppends, TelInv, TelTypeOK, NoEvent, Files
<1>2. /\ files' \in [Files -> Seq(Events)]
      /\ \A f \in Files : Len(files'[f]) \in Nat /\ Len(files[f]) \in Nat
      /\ \A f \in Files : \A i \in 1 .. Len(files'[f]) :
            \/ i \in 1 .. Len(files[f]) /\ files'[f][i] = files[f][i]
            \/ f = g /\ files'[f][i] = w /\ i = Len(files'[f])
  <2>1. CASE files' = files
    BY <2>1, TelTypes
  <2>2. CASE files' = [files EXCEPT ![g] = Append(files[g], w)]
    <3>1. /\ Append(files[g], w) \in Seq(Events) /\ Len(files[g]) \in Nat
          /\ Len(Append(files[g], w)) = Len(files[g]) + 1
          /\ Append(files[g], w)[Len(files[g]) + 1] = w
          /\ \A n \in 1 .. Len(files[g]) : Append(files[g], w)[n] = files[g][n]
      BY <1>1, TelTypes, AppendFacts
    <3> HIDE DEF g, w
    <3>2. /\ files' \in [Files -> Seq(Events)] /\ files'[g] = Append(files[g], w)
          /\ \A f \in Files : f # g => files'[f] = files[f]
      BY <1>1, <2>2, <3>1, TelTypes
    <3>3. ASSUME NEW f \in Files, f # g
          PROVE  /\ Len(files'[f]) \in Nat /\ Len(files[f]) \in Nat
                 /\ \A i \in 1 .. Len(files'[f]) :
                        i \in 1 .. Len(files[f]) /\ files'[f][i] = files[f][i]
      BY <3>2, <3>3, TelTypes
    <3>4. ASSUME NEW f \in Files, f = g
          PROVE  /\ Len(files'[f]) \in Nat /\ Len(files[f]) \in Nat
                 /\ \A i \in 1 .. Len(files'[f]) :
                        \/ i \in 1 .. Len(files[f]) /\ files'[f][i] = files[f][i]
                        \/ files'[f][i] = w /\ i = Len(files'[f])
      BY <3>1, <3>2, <3>4
    <3> QED
      BY <3>2, <3>3, <3>4
  <2> QED
    BY <1>1, <2>1, <2>2
<1>3. /\ writer.event = w /\ writer.file = g
      /\ \A f \in Files : \A i \in 1 .. Len(files[f]) : files[f][i] \in Events
      /\ noted \in Nat /\ w \in Nat
  BY <1>1, TelTypes DEF Events
<1> HIDE DEF g, w
<1>4. TelTypeOK'
  BY <1>1, <1>2, TelTypes DEF TelInv, TelTypeOK, Items, Flush, Files
<1>5. OneOrder'
  <2>1. w <= noted /\ \A n \in 1 .. Len(queue) : queue[n] \in Events => w < queue[n] /\ 0 < queue[n]
    BY <1>3 DEF TelInv, OneOrder, Events
  <2>2. writer'.event <= noted /\ \A n \in 1 .. Len(queue) : queue[n] \in Events => writer'.event < queue[n]
    BY <1>1, <1>3, <2>1
  <2>3. ASSUME NEW f \in Files, NEW i \in 1 .. Len(files'[f])
        PROVE  /\ files'[f][i] <= noted
               /\ \A n \in 1 .. Len(queue) : queue[n] \in Events => files'[f][i] < queue[n]
               /\ writer'.file = "private" \/ writer'.file = f => files'[f][i] < writer'.event
               /\ writer'.file = "shared" => files'[f][i] <= writer'.event
    <3>1. CASE i \in 1 .. Len(files[f]) /\ files'[f][i] = files[f][i]
      BY <1>1, <1>3, <3>1 DEF TelInv, OneOrder, Events, Files
    <3>2. CASE f = g /\ files'[f][i] = w
      BY <1>1, <1>3, <2>1, <3>2 DEF Files, Events
    <3> QED
      BY <1>2, <3>1, <3>2
  <2> QED
    BY <1>1, <2>2, <2>3 DEF OneOrder, TelInv
<1>6. \A e \in Unwritten' : e \in Unwritten
  BY <1>1, <1>3 DEF Unwritten, Events
<1>7. RequestsBehind'
  BY <1>1, <1>6 DEF TelInv, RequestsBehind
<1>8. FlushMeansHandled'
  <2>1. ASSUME NEW c \in Callers, flushes'[c].pc = "true", NEW e \in Unwritten'
        PROVE  e > flushes'[c].before
    BY <1>1, <1>6, <2>1 DEF TelInv, FlushMeansHandled
  <2>2. ASSUME NEW f \in Files, NEW i \in 1 .. Len(files'[f]), NEW j \in 1 .. Len(files'[f]), i < j
        PROVE  files'[f][i] < files'[f][j]
    <3>1. i \in 1 .. Len(files[f]) /\ files'[f][i] = files[f][i]
      BY <1>2, <2>2
    <3>2. CASE j \in 1 .. Len(files[f]) /\ files'[f][j] = files[f][j]
      BY <2>2, <3>1, <3>2 DEF TelInv, FlushMeansHandled
    <3>3. CASE f = g /\ files'[f][j] = w
      BY <1>3, <3>1, <3>3 DEF TelInv, OneOrder
    <3> QED
      BY <1>2, <3>2, <3>3
  <2> QED
    BY <2>1, <2>2 DEF FlushMeansHandled
<1> QED
  BY <1>4, <1>5, <1>7, <1>8 DEF TelInv

LEMMA TelStep == TelInv /\ [TelNext]_telVars => TelInv'
<1> SUFFICES ASSUME TelInv, [TelNext]_telVars PROVE TelInv'
  OBVIOUS
<1>1. ASSUME NEW c \in Callers, Flushes(c) PROVE TelInv'
  <2> DEFINE r == [pc |-> IF writer = NoEvent THEN "true" ELSE "puts", before |-> noted, set |-> FALSE]
  <2>1. r \in Flush /\ r.before = noted
    BY TelTypes DEF Flush
  <2>2. writer = NoEvent => Unwritten = {}
    BY DEF TelInv, RequestsBehind, Unwritten, NoEvent, Events
  <2>3. /\ r.pc = "puts" => ~r.set /\ \A n \in 1 .. Len(queue) : queue[n] # c
        /\ r.pc = "true" => \A e \in Unwritten : e > r.before
        /\ writer = NoEvent => r.pc = "true"
        /\ r.pc \in {"puts", "true"} /\ noted \in Nat
    BY <1>1, <2>2, TelTypes DEF Flushes
  <2>5. /\ r.before <= noted /\ r.pc # "waits"
        /\ writer = NoEvent => r.pc \notin {"puts", "waits"}
    BY <2>1, <2>3
  <2>4. flushes' = [flushes EXCEPT ![c] = r] /\ UNCHANGED <<noted, queue, writer, files, exiting>>
    BY <1>1 DEF Flushes
  <2> HIDE DEF r
  <2> QED
    BY <2>1, <2>3, <2>4, <2>5, CallerMoves
<1>2. ASSUME NEW c \in Callers, TimesOut(c) \/ Returns(c) PROVE TelInv'
  <2>1. PICK p \in {"false", "true"} :
            /\ flushes' = [flushes EXCEPT ![c].pc = p]
            /\ UNCHANGED <<noted, queue, writer, files, exiting>>
            /\ p = "true" => flushes[c].pc = "waits" /\ flushes[c].set
    BY <1>2 DEF TimesOut, Returns, FlushTo
  <2> DEFINE r == [flushes[c] EXCEPT !.pc = p]
  <2>2. flushes[c] \in Flush /\ flushes' = [flushes EXCEPT ![c] = r]
    BY <2>1, TelTypes
  <2>3. r \in Flush /\ r.pc = p /\ r.before = flushes[c].before
    BY <2>1, <2>2 DEF Flush
  <2> HIDE DEF r
  <2>4. /\ r.before <= noted
        /\ r.pc = "true" => \A e \in Unwritten : e > r.before
    BY <2>1, <2>3 DEF TelInv, RequestsBehind
  <2>5. writer = NoEvent => flushes[c].pc # "waits"
    BY DEF TelInv, RequestsBehind
  <2> QED
    BY <2>1, <2>2, <2>3, <2>4, <2>5, CallerMoves
<1>3. CASE Exits
  BY <1>3 DEF Exits, TelInv, TelTypeOK, OneOrder, RequestsBehind, FlushMeansHandled, Unwritten
<1>4. CASE UNCHANGED telVars
  BY <1>4 DEF telVars, TelInv, TelTypeOK, OneOrder, RequestsBehind, FlushMeansHandled, Unwritten
<1> QED
  BY <1>1, <1>2, <1>3, <1>4, NotesKeeps, PutsKeeps, WriterGetsKeeps, WriterAppendsKeeps DEF TelNext

LEMMA TelInvInit == TelInit => TelInv
<1> SUFFICES ASSUME TelInit PROVE TelInv
  OBVIOUS
<1>1. TelTypeOK
  BY TelemetryBounds DEF TelInit, TelTypeOK, NoEvent
<1>2. OneOrder
  BY DEF TelInit, OneOrder, NoEvent, Files
<1>3. RequestsBehind
  BY DEF TelInit, RequestsBehind, NoEvent
<1>4. FlushMeansHandled
  BY DEF TelInit, FlushMeansHandled
<1> QED
  BY <1>1, <1>2, <1>3, <1>4 DEF TelInv

LEMMA TelInvAlways == TelSpec => []TelInv
BY TelInvInit, TelStep, PTL DEF TelSpec

(* Type correctness, for any callers, capacity and number of events. *)
THEOREM TelTypeCorrect == TelSpec => []TelTypeOK
BY TelInvAlways, PTL DEF TelInv

(* A flush that answers true has nothing noted before it left to write, however its        *)
(* deadline races the writer and the queue overflows, and both files are in order.         *)
THEOREM FlushIsHonest == TelSpec => []FlushMeansHandled
BY TelInvAlways, PTL DEF TelInv

-------------------------------------------------------------------------------
(* The terminal interface *)

(* A step of the interface is a step of one part, and leaves every other part as it was. *)
LEMMA TuiStep ==
    ASSUME [TuiNext]_tuiVars
    PROVE  /\ [MonNext]_vars /\ [DashNext]_dashVars /\ [BrowserNext]_browserVars
           /\ [NewJobNext]_newJobVars /\ [LogNext]_logVars /\ [TelNext]_telVars
<1>1. CASE UNCHANGED tuiVars
  BY <1>1 DEF tuiVars
<1>2. CASE TuiNext
  BY <1>2 DEF TuiNext
<1> QED
  BY <1>1, <1>2

(* What TuiSpec lets happen to a part is what the part's own specification lets happen, *)
(* so every theorem about a part holds of the composition the runs check.               *)
THEOREM TuiComposes ==
    TuiSpec => MonSpec /\ DashSpec /\ BrowserSpec /\ NewJobSpec /\ LogSpec /\ TelSpec
<1>1. TuiInit => MonInit /\ DashInit /\ BrowserInit /\ NewJobInit /\ LogInit /\ TelInit
  BY DEF TuiInit
<1>2. [TuiNext]_tuiVars => /\ [MonNext]_vars /\ [DashNext]_dashVars /\ [BrowserNext]_browserVars
                           /\ [NewJobNext]_newJobVars /\ [LogNext]_logVars /\ [TelNext]_telVars
  BY TuiStep
<1> QED
  BY <1>1, <1>2, PTL DEF TuiSpec, MonSpec, DashSpec, BrowserSpec, NewJobSpec, LogSpec, TelSpec

(* Monitor, Dashboard, browser, New Job, log reader and telemetry keep their types. *)
THEOREM TuiTypes == TuiSpec => []TuiTypeOK
<1>1. MonTypeOK /\ DashTypeOK /\ BrowserTypeOK /\ NewJobTypeOK /\ LogTypeOK /\ TelTypeOK => TuiTypeOK
  BY DEF TuiTypeOK
<1> QED
  BY <1>1, TuiComposes, MonTypeCorrect, DashTypeCorrect, BrowserTypeCorrect, NewJobTypeCorrect,
     LogTypeCorrect, TelTypeCorrect, PTL

(* Every safety property the run "tui" checks, for every value of the constants. *)
THEOREM TuiSafe ==
    TuiSpec => /\ [](TreeIsReplay /\ LeavesArePolled /\ OutcomeIsImpalas)
               /\ [](NotifiesOnce /\ LogIsWhole /\ FlushMeansHandled)
               /\ OutcomeIsKept /\ DropsWhatWasConfirmed /\ LaunchesWhatWasConfirmed
  BY TuiComposes, ReplaySafe, LeavesSafe, OutcomesSafe, AnnouncedOnce, LogSafe, FlushIsHonest,
     OutcomesStay, DropsTheConfirmed, LaunchesTheConfirmed, PTL
===============================================================================
