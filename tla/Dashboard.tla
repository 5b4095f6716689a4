----------------------------- MODULE Dashboard -----------------------------
(***************************************************************************)
(* dispatch/screens/dashboard.py: the list of Jobs, refreshed every two    *)
(* seconds by a coroutine that leaves the event loop for each disk read;   *)
(* the pane with the log of one Job, repainted by the refresh and, when    *)
(* the highlight moves, by a worker of its own; and the notification of a  *)
(* Job that ended.  What happens between two awaits is one action.         *)
(***************************************************************************)
EXTENDS Naturals

CONSTANT Jobs

VARIABLES
    onDisk,    \* the state of each Job in its manifest
    board      \* the screen's attributes

dashVars == <<onDisk, board>>

JobStates == {"Pending", "Running", "Ended"}
NoJob == "none"
Listing == [Jobs -> JobStates \cup {NoJob}]
Nothing == [j \in Jobs |-> NoJob]

DashTypeOK ==
    /\ onDisk \in [Jobs -> JobStates]
    /\ board \in [onTop : {"yes", "no"},
                 refresh : {"idle", "reading", "listed"},    \* _refresh_in_flight
                 snap : Listing,                       \* what the refresh read
                 target : Jobs \cup {NoJob},           \* the Job whose tail it reads
                 cache : Listing,                      \* _active_cache
                 last : Listing,                       \* _last_states
                 needle : SUBSET Jobs,                 \* the Jobs that match the filter
                 highlighted : Jobs \cup {NoJob},      \* _detail_job_id
                 reading : Jobs \cup {NoJob},          \* the detail worker's Job
                 pane : Jobs \cup {NoJob},             \* whose log the pane shows
                 notified : [Jobs -> 0 .. 2]]          \* notifications of its end, capped

Visible(d) == {j \in d.needle : d.cache[j] # NoJob}

\* _update_detail_pane: only a Job of the table, and of the list, is shown.
Shown(d, j) == IF j \in Visible(d) THEN j ELSE NoJob

\* _render_jobs_view: the pane is cleared if the previewed Job left the table.
Rendered(d) == IF d.highlighted \in Visible(d) THEN d ELSE [d EXCEPT !.pane = NoJob]

Repainted(d) == board' = d /\ UNCHANGED onDisk

JobMoves(j) ==
    /\ \/ onDisk[j] = "Pending" /\ onDisk' = [onDisk EXCEPT ![j] = "Running"]
       \/ onDisk[j] # "Ended" /\ onDisk' = [onDisk EXCEPT ![j] = "Ended"]
    /\ UNCHANGED board

----------------------------------------------------------------------------
(* _refresh_jobs_async *)

\* Nothing starts while another screen is on top or a refresh is under way.
RefreshStarts ==
    /\ board.onTop = "yes" /\ board.refresh = "idle"
    /\ Repainted([board EXCEPT !.refresh = "reading", !.target = board.highlighted])

\* active_jobs() returns; without a target the first running Job becomes it, and the
\* pane's Job, before the log is read.
RefreshLists ==
    /\ board.refresh = "reading"
    /\ \E t \in Jobs :
         LET running == {j \in Jobs : onDisk[j] = "Running"}
             target == IF board.target = NoJob THEN t ELSE board.target
         IN /\ running = {} \/ t \in running
            /\ Repainted([board EXCEPT !.refresh = "listed", !.snap = onDisk, !.target = target,
                                    !.highlighted = IF board.target = NoJob THEN t ELSE @])

\* _detect_state_transitions: an end is announced if the Job was seen running last.
Announced(d) ==
    [j \in Jobs |-> IF d.last[j] = "Running" /\ d.snap[j] = "Ended" /\ d.notified[j] < 2
                    THEN d.notified[j] + 1 ELSE d.notified[j]]

\* Mutant: the states of the last refresh are not remembered.
RememberedLate(d) == [d EXCEPT !.notified = Announced(d),
                               !.last = [j \in Jobs |-> IF d.snap[j] = "Ended" THEN d.last[j]
                                                        ELSE d.snap[j]]]

Remembered(d) == [d EXCEPT !.notified = Announced(d), !.last = d.snap]

\* _apply_jobs_snapshot: the pane gets the refresh's own target.
RefreshApplies ==
    /\ board.refresh = "listed"
    /\ LET d == Rendered(Remembered([board EXCEPT !.cache = board.snap]))
       IN Repainted([d EXCEPT !.pane = Shown(d, board.target), !.refresh = "idle",
                            !.snap = Nothing, !.target = NoJob])

\* Any exception ends the refresh with a notification, and the guard is released.
RefreshFails ==
    /\ board.refresh # "idle"
    /\ Repainted([board EXCEPT !.refresh = "idle", !.snap = Nothing, !.target = NoJob])

----------------------------------------------------------------------------

\* The cursor reaches another row: its log is read by a worker, the last one wins.
Highlights(j) ==
    /\ j \in Visible(board) /\ j # board.highlighted
    /\ Repainted([board EXCEPT !.highlighted = j, !.reading = j])

\* _refresh_detail_only paints only if the highlight is still there.
DetailApplies ==
    /\ board.reading # NoJob
    /\ Repainted([board EXCEPT !.reading = NoJob,
                            !.pane = IF board.highlighted = board.reading
                                     THEN Shown(board, board.reading) ELSE @])

\* A key in the filter: a view change over the cached list.
Filters(matching) ==
    /\ matching # board.needle
    /\ Repainted(Rendered([board EXCEPT !.needle = matching]))

\* Another screen is pushed, or popped.
Covers == Repainted([board EXCEPT !.onTop = IF @ = "yes" THEN "no" ELSE "yes"])

DashInit ==
    /\ onDisk \in [Jobs -> {"Pending", "Running"}]
    /\ board = [onTop |-> "yes", refresh |-> "idle", snap |-> Nothing, target |-> NoJob,
               cache |-> Nothing, last |-> Nothing, needle |-> Jobs, highlighted |-> NoJob,
               reading |-> NoJob, pane |-> NoJob, notified |-> [j \in Jobs |-> 0]]

DashNext ==
    \/ \E j \in Jobs : JobMoves(j) \/ Highlights(j)
    \/ RefreshStarts \/ RefreshLists \/ RefreshApplies \/ RefreshFails
    \/ DetailApplies \/ Covers
    \/ \E matching \in SUBSET Jobs : Filters(matching)

DashSpec == DashInit /\ [][DashNext]_dashVars

----------------------------------------------------------------------------

\* The end of a Job is announced once at most, and only of a Job the list shows as
\* ended, whatever refreshes fail, are skipped or overlap a state change.
NotifiesOnce ==
    \A j \in Jobs : /\ board.notified[j] <= 1
                    /\ board.notified[j] = 1 => board.cache[j] = "Ended"
=============================================================================
