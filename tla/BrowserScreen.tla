--------------------------- MODULE BrowserScreen ---------------------------
(***************************************************************************)
(* dispatch/screens/browser.py with its confirm.py dialog: tables of a     *)
(* schema are listed, checked and dropped.  The operator's load and the    *)
(* reload that follows a drop are coroutines that may overlap, each with   *)
(* the schema it read before its await; the drop runs in an exclusive      *)
(* worker, which a second D cancels wherever it is.  Sizes, sorting and    *)
(* DESCRIBE only paint and are left out.                                   *)
(***************************************************************************)
EXTENDS Naturals

CONSTANTS Schemas, Tables

ASSUME SchemasExist == Schemas # {}

VARIABLES
    warehouse,   \* the tables Impala has: <<schema, table>>
    agreed,      \* the tables whose DROP the operator typed both confirmations for
    browser      \* the screen's attributes, its loads, its worker and its dialog

browserVars == <<warehouse, agreed, browser>>

Loaders == {"operator", "drop"}
FullNames == Schemas \X Tables
NotLoading == [pc |-> "idle", schema |-> CHOOSE s \in Schemas : TRUE, found |-> {}]
NoFlow == [pc |-> "idle", asked |-> {}, left |-> {}, gone |-> {}, listed |-> {}]
Dialog == [typed |-> {}, answer |-> "none"]

BrowserTypeOK ==
    /\ warehouse \subseteq FullNames /\ agreed \subseteq FullNames
    /\ browser \in [schema : Schemas,              \* what the Schema field holds
                    listed : SUBSET Tables,        \* _tables
                    checked : SUBSET Tables,       \* _checked
                    load : [Loaders -> [pc : {"idle", "asked", "answered"}, schema : Schemas,
                                        found : SUBSET Tables]],
                    flow : [pc : {"idle", "asks", "drops", "reloads"}, asked : SUBSET FullNames,
                            left : SUBSET FullNames, gone : SUBSET FullNames,
                            listed : SUBSET FullNames],
                    dialog : [typed : SUBSET {"I AM SURE", "DROP"},
                              answer : {"none", "yes", "no"}]]

Becomes(b) == browser' = b /\ UNCHANGED <<warehouse, agreed>>

\* A dialog takes every key while it is on top.
InDialog == browser.flow.pc = "asks" /\ browser.dialog.answer = "none"

EditsSchema(s) ==
    /\ ~InDialog /\ s # browser.schema
    /\ Becomes([browser EXCEPT !.schema = s])

----------------------------------------------------------------------------
(* action_show_tables *)

Asked(b, who) == [b EXCEPT !.load[who] = [pc |-> "asked", schema |-> b.schema, found |-> {}]]

Loads == /\ ~InDialog /\ browser.load["operator"].pc = "idle"
         /\ Becomes(Asked(browser, "operator"))

\* SHOW TABLES runs for the schema that was asked for.
LoadAnswers(who) ==
    LET l == browser.load[who]
    IN /\ l.pc = "asked"
       /\ Becomes([browser EXCEPT
            !.load[who].pc = "answered",
            !.load[who].found = {t \in Tables : <<l.schema, t>> \in warehouse}])

Done(b, who) ==
    [b EXCEPT !.load[who] = NotLoading, !.flow = IF who = "drop" THEN NoFlow ELSE @]

\* The list is replaced, whoever changed it meanwhile; checks of other names go.
LoadApplies(who) ==
    LET found == browser.load[who].found
    IN /\ browser.load[who].pc = "answered"
       /\ Becomes([Done(browser, who) EXCEPT !.listed = found, !.checked = @ \cap found])

LoadFails(who) ==
    /\ browser.load[who].pc = "asked"
    /\ Becomes(Done(browser, who))

----------------------------------------------------------------------------
(* Selection *)

Toggles(t) ==
    /\ ~InDialog /\ t \in browser.listed
    /\ Becomes([browser EXCEPT !.checked = IF t \in @ THEN @ \ {t} ELSE @ \cup {t}])

SelectsAll ==
    /\ ~InDialog /\ browser.listed # {}
    /\ Becomes([browser EXCEPT !.checked = IF @ = browser.listed THEN {} ELSE browser.listed])

\* _checked_full_tables: names are qualified by the Schema field as it is now.
CheckedFull(b) == {<<b.schema, t>> : t \in b.checked \cap b.listed}

----------------------------------------------------------------------------
(* action_drop and _drop_flow *)

\* D: the running flow, if any, is cancelled; its DROP may have reached Impala.
Drops ==
    LET b == [browser EXCEPT !.load["drop"] = NotLoading, !.dialog = Dialog,
                   !.flow = [NoFlow EXCEPT
                       !.asked = CheckedFull(browser),
                       !.pc = IF CheckedFull(browser) = {} THEN "idle" ELSE "asks"]]
    IN /\ ~InDialog
       /\ browser' = b
       /\ \E t \in SUBSET (IF browser.flow.pc = "drops" THEN browser.flow.left ELSE {}) :
            (\A a, c \in t : a = c) /\ warehouse' = warehouse \ t
       /\ UNCHANGED agreed

\* ConfirmScreen: both texts have to be typed before Drop is taken.
Types(text) ==
    /\ InDialog /\ text \notin browser.dialog.typed
    /\ Becomes([browser EXCEPT !.dialog.typed = @ \cup {text}])

Confirms ==
    /\ InDialog /\ browser.dialog.typed = {"I AM SURE", "DROP"}
    /\ browser' = [browser EXCEPT !.dialog.answer = "yes"]
    /\ agreed' = agreed \cup browser.flow.asked
    /\ UNCHANGED warehouse

Declines == InDialog /\ Becomes([browser EXCEPT !.dialog.answer = "no"])

\* Mutant: what is dropped is read from the screen after the dialog.
FlowResumesWithChecked ==
    /\ browser.flow.pc = "asks" /\ browser.dialog.answer # "none"
    /\ Becomes([browser EXCEPT !.dialog = Dialog,
          !.flow = IF browser.dialog.answer = "no" THEN NoFlow
                   ELSE [browser.flow EXCEPT !.pc = "drops", !.left = CheckedFull(browser),
                                             !.listed = {browser.schema} \X browser.listed]])

\* _drop_tables begins, with the short names that are listed by then.
FlowResumes ==
    /\ browser.flow.pc = "asks" /\ browser.dialog.answer # "none"
    /\ Becomes([browser EXCEPT !.dialog = Dialog,
          !.flow = IF browser.dialog.answer = "no" THEN NoFlow
                   ELSE [browser.flow EXCEPT !.pc = "drops", !.left = browser.flow.asked,
                                             !.listed = {browser.schema} \X browser.listed]])

\* One DROP TABLE IF EXISTS: done, or failed, and a failed one may have been executed.
DropsTable(t) ==
    /\ browser.flow.pc = "drops" /\ t \in browser.flow.left
    /\ \/ /\ warehouse' = warehouse \ {t}
          /\ browser' = [browser EXCEPT !.flow.left = @ \ {t}, !.flow.gone = @ \cup {t},
                            !.checked = IF t \in browser.flow.listed THEN @ \ {t[2]} ELSE @]
       \/ /\ warehouse' \in {warehouse, warehouse \ {t}}
          /\ browser' = [browser EXCEPT !.flow.left = @ \ {t}]
    /\ UNCHANGED agreed

\* The dropped names leave the list at once, and the list is loaded again.
FlowReloads ==
    /\ browser.flow.pc = "drops" /\ browser.flow.left = {}
    /\ Becomes([Asked(browser, "drop") EXCEPT
                  !.listed = @ \ {t[2] : t \in browser.flow.gone}, !.flow.pc = "reloads"])

----------------------------------------------------------------------------

BrowserInit ==
    /\ warehouse \in {w \in SUBSET FullNames : w # {}} /\ agreed = {}
    /\ browser = [schema |-> CHOOSE s \in Schemas : TRUE, listed |-> {}, checked |-> {},
                  load |-> [who \in Loaders |-> NotLoading], flow |-> NoFlow, dialog |-> Dialog]

BrowserNext ==
    \/ \E s \in Schemas : EditsSchema(s)
    \/ Loads \/ \E who \in Loaders : LoadAnswers(who) \/ LoadApplies(who) \/ LoadFails(who)
    \/ \E t \in Tables : Toggles(t)
    \/ SelectsAll \/ Drops \/ Confirms \/ Declines \/ FlowResumes \/ FlowReloads
    \/ \E text \in {"I AM SURE", "DROP"} : Types(text)
    \/ \E t \in FullNames : DropsTable(t)

BrowserSpec == BrowserInit /\ [][BrowserNext]_browserVars

----------------------------------------------------------------------------

\* A table is dropped only if its full name was in a dialog that the operator confirmed,
\* although the schema field, the list and the checks may change, and the flow be
\* cancelled and started again, between the check, the dialog and the DROP.
DropsWhatWasConfirmed == [][warehouse \ warehouse' \subseteq agreed]_browserVars
=============================================================================
