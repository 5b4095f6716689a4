--------------------------- MODULE MonitorService ---------------------------
(***************************************************************************)
(* dispatch/monitor_service.py for one Job, with the screens that use it:  *)
(* the service tails the Job's event file (EventFile), keeps the tree of   *)
(* shells, queries and retries, and polls each live query through the      *)
(* Impala client from one background thread.  Job Detail subscribes in a   *)
(* worker thread, the Dashboard registers the active Jobs, and an operator *)
(* may attach a query whose identity the file lacks.  Jobs are independent *)
(* of one another in the service, so one stands for all.                   *)
(*                                                                         *)
(* A critical section of the service's lock is one action; what happens    *)
(* outside it (an HTTP call, a manifest read) separates two actions.       *)
(* Clocks are abstracted: any poller may be due when a tick starts.        *)
(***************************************************************************)
EXTENDS EventFile, FiniteSets, SequencesExt

CONSTANTS
    MaxVisits,      \* bound: times Job Detail is opened
    MaxShells,      \* bound: shells of the Job
    MaxOdd          \* bound: faults, torn lines and recoveries, all together

ASSUME MonitorAssumption == {MaxVisits, MaxShells, MaxOdd} \subseteq Nat

VARIABLES
    job,       \* the service's _JobState: tracked or not, and who asked for it
    tree,      \* the hierarchy: shells, each with chains of a query and its retries
    seen,      \* the size of the file at the last read, 0 before the first
    poller,    \* the poller of each query
    thread,    \* the background thread
    visit,     \* Job Detail screens: which is open, what each holds
    dash,      \* whether the Job was active when the Dashboard last read it
    recovery,  \* the operator's recovery
    evicted,   \* ended queries that Impala's web server no longer knows
    faults     \* stat errors, failing answers and evictions so far

monVars == <<job, tree, seen, poller, thread, visit, dash, recovery, evicted, faults>>
vars == <<fileVars, monVars>>

Terminal == {"succeeded", "failed"}
Phases == {"running", "retrying", "unknown"} \cup Terminal
NoPoller == [phase |-> "absent", last |-> "none"]
Visits == 1 .. MaxVisits

Node == [q : QueryIds, obs : Phases \cup {"none"}, from : {"log", "operator"}]

MonTypeOK ==
    /\ FileTypeOK
    /\ job \in [tracked : {"yes", "no"}, registered : {"yes", "no"}, subs : 0 .. MaxVisits,
                available : {"yes", "no"}]
    /\ tree \in Seq([shell : Nat \ {0}, call : 1 .. CallCount, chains : Seq(Seq(Node) \ {<<>>})])
    /\ seen \in Nat
    /\ poller \in [QueryIds -> [phase : {"absent", "live", "extra", "final", "stopped"},
                                last : Phases \cup {"none"}]]
    /\ thread \in [pc : {"idle", "poll", "attach"}, due : SUBSET QueryIds,
                   at : 0 .. MaxQueries, answer : Phases \cup {"none", "unavailable"}]
    /\ visit \in [open : 0 .. MaxVisits, last : 0 .. MaxVisits,
                  sub : [Visits -> {"none", "asked", "granted", "held", "skipped", "returned"}]]
    /\ dash \in {"active", "inactive"}
    /\ recovery \in [pc : {"idle", "criteria", "found"}, shell : Nat, q : 0 .. MaxQueries,
                     tries : 0 .. MaxOdd]
    /\ evicted \subseteq QueryIds
    /\ faults \in 0 .. MaxOdd

----------------------------------------------------------------------------
(* The hierarchy *)

\* Sizes only need an order: two for a whole line, one for a torn one.
FileSize == 2 * Len(log) + (IF tail = "torn" THEN 1 ELSE 0)

\* The reader stops at the size limit, which the last line that fits crosses.
Readable(size) == IF size \div 2 < MaxLines THEN size \div 2 ELSE MaxLines - 1

\* A node's place: its shell, its chain there, and its position in the chain.
Places(t) == UNION {UNION {{<<i, c, n>> : n \in 1 .. Len(t[i].chains[c])} :
                             c \in 1 .. Len(t[i].chains)} : i \in 1 .. Len(t)}
NodeAt(t, s) == t[s[1]].chains[s[2]][s[3]]
LeafPlaces(t) == {s \in Places(t) : s[3] = Len(t[s[1]].chains[s[2]])}

Nodes(t) == {NodeAt(t, s) : s \in Places(t)}
Leaves(t) == {NodeAt(t, s) : s \in LeafPlaces(t)}
QueriesOf(nodes) == {n.q : n \in nodes}

InOrder(a, b) == \/ a[1] < b[1]
                 \/ a[1] = b[1] /\ (a[2] < b[2] \/ (a[2] = b[2] /\ a[3] <= b[3]))

ShellIndex(t, s) == {i \in 1 .. Len(t) : t[i].shell = s}

Observed(q, from) == [q |-> q, obs |-> "none", from |-> from]

WithQuery(t, i, q, from) == [t EXCEPT ![i].chains = Append(@, <<Observed(q, from)>>)]

WithRetry(t, i, q) ==
    [t EXCEPT ![i].chains[Len(t[i].chains)] = Append(@, Observed(q, "log"))]

\* feed_line: events of unknown shells and retries without a query are dropped.
Fed(t, line) ==
    LET at == ShellIndex(t, line.shell)
    IN IF line.type = "shell_started" /\ at = {}
       THEN Append(t, [shell |-> line.shell, call |-> line.call, chains |-> <<>>])
       ELSE IF at = {} THEN t
       ELSE LET i == CHOOSE i \in at : TRUE
            IN CASE line.type = "query_discovered" -> WithQuery(t, i, line.query, "log")
                 [] line.type = "query_retried" /\ t[i].chains # <<>> ->
                        WithRetry(t, i, line.query)
                 [] OTHER -> t

\* Replay of the lines after the first n of the first m.
Replay(t, n, m) == FoldLeft(Fed, t, SubSeq(log, n + 1, m))

\* The last observation the tree holds of q, in the order of its nodes.
Previous(t, q) ==
    LET known == {s \in Places(t) : NodeAt(t, s).q = q /\ NodeAt(t, s).obs # "none"}
    IN IF known = {} THEN "none"
       ELSE NodeAt(t, CHOOSE s \in known : \A o \in known : InOrder(o, s)).obs

\* Every node is given back the observation held of its query before the read,
\* a leaf without one that of its poller.
Reattached(old, new) ==
    LET held == [q \in QueryIds |-> Previous(old, q)]
        leaves == Leaves(new)
        Op(n) == [n EXCEPT !.obs = IF held[n.q] # "none" THEN held[n.q]
                                   ELSE IF n.obs = "none" /\ n \in leaves THEN poller[n.q].last
                                   ELSE n.obs]
    IN [i \in 1 .. Len(new) |->
          [new[i] EXCEPT !.chains =
              [c \in 1 .. Len(@) |-> [n \in 1 .. Len(@[c]) |-> Op(@[c][n])]]]]

\* The node of q that an observation goes to: the first in the tree's order.
Attached(t, q, obs) ==
    LET spots == {s \in Places(t) : NodeAt(t, s).q = q}
    IN IF spots = {} THEN t
       ELSE LET s == CHOOSE s \in spots : \A o \in spots : InOrder(s, o)
            IN [t EXCEPT ![s[1]].chains[s[2]][s[3]].obs = obs]

----------------------------------------------------------------------------
(* Critical sections *)

\* Mutant: a superseded poller goes on as before.
SyncedKeepingAll(p, t) ==
    [q \in QueryIds |->
        IF q \in QueriesOf(Leaves(t)) /\ p[q].phase = "absent"
        THEN [phase |-> "live", last |-> (CHOOSE n \in Leaves(t) : n.q = q).obs]
        ELSE p[q]]

\* Mutant: a poller that stopped counts as missing.
SyncedAgain(p, t) ==
    [q \in QueryIds |->
        IF q \in QueriesOf(Leaves(t))
        THEN IF p[q].phase \in {"absent", "stopped"} THEN [phase |-> "live", last |-> "none"]
             ELSE p[q]
        ELSE IF p[q].phase \in {"live", "extra"} THEN [p[q] EXCEPT !.phase = "final"]
        ELSE p[q]]

\* _sync_pollers_locked: a poller for each new leaf, one last poll for the rest.
Synced(p, t) ==
    LET leaves == Leaves(t)
    IN [q \in QueryIds |->
          IF q \in QueriesOf(leaves)
          THEN IF p[q].phase = "absent"
               THEN [phase |-> "live", last |-> (CHOOSE n \in leaves : n.q = q).obs]
               ELSE p[q]
          ELSE IF p[q].phase \in {"live", "extra"}
               THEN [p[q] EXCEPT !.phase = "final"]
               ELSE p[q]]

Fresh == [tracked |-> "yes", registered |-> "no", subs |-> 0, available |-> "no"]

\* The Job's state when a caller asks for it, from nothing if it is not tracked.
Known == IF job.tracked = "yes" THEN job ELSE Fresh
KnownTree == IF job.tracked = "yes" THEN tree ELSE <<>>
\* Mutant: a read does not start where the last one ended.
ReadsFromStart == 0

KnownSeen == IF job.tracked = "yes" THEN seen ELSE 0

\* _refresh_job_locked on Job state j: the stat fails, the file is not there, it
\* has not changed, or its new lines are read.
Refreshes(j) ==
    \/ /\ faults' = faults + 1
       /\ job' = [j EXCEPT !.available = "no"]
       /\ tree' = KnownTree /\ seen' = KnownSeen
       /\ UNCHANGED poller
    \/ /\ FileSize = 0
       /\ job' = [j EXCEPT !.available = "no"]
       /\ tree' = KnownTree /\ seen' = KnownSeen
       /\ UNCHANGED <<poller, faults>>
    \/ /\ FileSize # 0 /\ FileSize = KnownSeen
       /\ job' = j /\ tree' = KnownTree /\ seen' = KnownSeen
       /\ UNCHANGED <<poller, faults>>
    \/ /\ FileSize # 0 /\ FileSize # KnownSeen
       /\ \E t \in {Replay(KnownTree, Readable(KnownSeen), Readable(FileSize))} :
            tree' = Reattached(KnownTree, t)
       /\ poller' = Synced(poller, tree')
       /\ seen' = FileSize
       /\ job' = [j EXCEPT !.available = "yes"]
       /\ UNCHANGED faults

Active(p, q) == p[q].phase \in {"live", "extra", "final"}

\* _prune_job_if_finished_locked, on Job state j
Prunes(j) ==
    IF /\ j.tracked = "yes" /\ j.registered = "no" /\ j.subs = 0
       /\ \A q \in QueryIds : poller[q].phase \in {"absent", "stopped"}
    THEN /\ job' = [Fresh EXCEPT !.tracked = "no"]
         /\ poller' = [q \in QueryIds |-> NoPoller]
         /\ tree' = <<>> /\ seen' = 0
    ELSE job' = j /\ UNCHANGED <<poller, tree, seen>>

Subscribes ==
    /\ Refreshes([Known EXCEPT !.subs = @ + 1])
    /\ UNCHANGED <<thread, dash, recovery, evicted>>

\* unsubscribe: never below zero; the last one out may be the end of the Job.
Unsubscribes ==
    LET j == [job EXCEPT !.subs = @ - 1]
    IN /\ IF job.tracked = "no" \/ job.subs = 0
          THEN UNCHANGED <<job, poller, tree, seen>>
          ELSE Prunes(j)
       /\ UNCHANGED <<thread, dash, recovery, evicted, faults>>

----------------------------------------------------------------------------
(* The background thread: _tick and _poll_one *)

\* The due pollers are read under the lock again, right after the refresh.
TickStarts ==
    /\ thread.pc = "idle" /\ job.tracked = "yes"
    /\ Refreshes(job)
    /\ \E d \in SUBSET QueryIds :
         /\ \A q \in d : Active(poller', q)
         /\ thread' = [thread EXCEPT !.pc = "poll", !.due = d]
    /\ UNCHANGED <<visit, dash, recovery, evicted>>

\* Mutant: a query that Impala retries counts as failed.
AnswersRetriedAsFailed(q) ==
    IF q \in evicted THEN "unavailable"
    ELSE CASE query[q].state = "running" -> "running"
           [] query[q].state = "finished" -> "succeeded"
           [] OTHER -> "failed"

\* What the web server says of q: its state, or that it does not know it.
Answer(q) == IF q \in evicted THEN "unavailable"
             ELSE CASE query[q].state = "running" -> "running"
                    [] query[q].state = "finished" -> "succeeded"
                    [] query[q].state = "exception" -> "failed"
                    [] query[q].state = "retried" -> "retrying"

\* observe() is called without the lock, one poller after the other; it never raises.
Observes ==
    LET q == CHOOSE q \in thread.due : \A o \in thread.due : q <= o
        Answers(a) == thread' = [thread EXCEPT !.pc = "attach", !.due = @ \ {q}, !.at = q,
                                               !.answer = a]
    IN /\ thread.pc = "poll" /\ thread.due # {}
       /\ \/ Answers(Answer(q)) /\ UNCHANGED faults
          \/ faults' = faults + 1 /\ Answers("unavailable")
       /\ UNCHANGED <<job, tree, seen, poller, visit, dash, recovery, evicted>>

\* Mutant: an answer reaches the tree and does not clear the availability error.
AttachesQuietly ==
    /\ thread.pc = "attach"
    /\ thread' = [thread EXCEPT !.pc = "poll", !.at = 0, !.answer = "none"]
    /\ poller' = IF Active(poller, thread.at) /\ thread.answer \in Terminal
                 THEN [poller EXCEPT ![thread.at] = [phase |-> "stopped", last |-> thread.answer]]
                 ELSE poller
    /\ UNCHANGED <<tree, job, seen, visit, dash, recovery, evicted, faults>>

\* An answer without an observation keeps the last one, or is "unknown".
Attaches ==
    LET q == thread.at
        p == poller[q]
        obs == IF thread.answer # "unavailable" THEN thread.answer
               ELSE IF p.last # "none" THEN p.last ELSE "unknown"
        phase == IF p.phase = "final" THEN "stopped"
                 ELSE IF obs \notin Terminal THEN p.phase
                 ELSE IF p.phase = "extra" THEN "stopped" ELSE "extra"
    IN /\ thread.pc = "attach"
       /\ IF Active(poller, q)
          THEN /\ poller' = [poller EXCEPT ![q] = [phase |-> phase, last |-> obs]]
               /\ IF job.tracked = "yes"
                  THEN /\ tree' = Attached(tree, q, obs)
                       /\ job' = [job EXCEPT !.available = "yes"]
                  ELSE UNCHANGED <<tree, job>>
          ELSE UNCHANGED <<poller, tree, job>>
       /\ thread' = [thread EXCEPT !.pc = "poll", !.at = 0, !.answer = "none"]
       /\ UNCHANGED <<seen, visit, dash, recovery, evicted, faults>>

\* Mutant: a tick never drops the Job.
TickEndsKeeping ==
    /\ thread.pc = "poll" /\ thread.due = {}
    /\ thread' = [thread EXCEPT !.pc = "idle"]
    /\ UNCHANGED <<job, poller, tree, seen, visit, dash, recovery, evicted, faults>>

TickEnds ==
    /\ thread.pc = "poll" /\ thread.due = {}
    /\ Prunes(job)
    /\ thread' = [thread EXCEPT !.pc = "idle"]
    /\ UNCHANGED <<visit, dash, recovery, evicted, faults>>

\* Impala forgets a query that ended.
Evicts(q) ==
    /\ query[q].state # "running" /\ q \notin evicted
    /\ evicted' = evicted \cup {q} /\ faults' = faults + 1
    /\ UNCHANGED <<job, tree, seen, poller, thread, visit, dash, recovery>>

----------------------------------------------------------------------------
(* Job Detail *)

\* Cancel, recovery and clone put a dialog on top of the open screen, for as long as
\* the operator likes: the screen on top is the open one, or a dialog.
Opens ==
    /\ visit.open = 0 /\ visit.last < MaxVisits
    /\ visit' = [visit EXCEPT !.open = visit.last + 1, !.last = visit.last + 1]
    /\ UNCHANGED <<job, tree, seen, poller, thread, dash, recovery, evicted, faults>>

\* The worker of on_mount asks only for the screen that is on top by then.
WorkerStarts(v) ==
    /\ visit.sub[v] = "none" /\ v <= visit.last
    /\ \E to \in {"asked", "skipped"} :
         /\ to = "asked" => visit.open = v
         /\ visit' = [visit EXCEPT !.sub[v] = to]
    /\ UNCHANGED <<job, tree, seen, poller, thread, dash, recovery, evicted, faults>>

ThreadSubscribes(v) ==
    /\ visit.sub[v] = "asked"
    /\ visit' = [visit EXCEPT !.sub[v] = "granted"]
    /\ Subscribes

\* Back in the event loop: the screen holds it if it is on top, or it is given back.
WorkerHolds(v) ==
    /\ visit.sub[v] = "granted" /\ visit.open = v
    /\ visit' = [visit EXCEPT !.sub[v] = "held"]
    /\ UNCHANGED <<job, tree, seen, poller, thread, dash, recovery, evicted, faults>>

\* Mutant: the screen is gone, and the worker ends without unsubscribe.
WorkerForgets(v) ==
    /\ visit.sub[v] = "granted"
    /\ visit' = [visit EXCEPT !.sub[v] = "returned"]
    /\ UNCHANGED <<job, tree, seen, poller, thread, dash, recovery, evicted, faults>>

WorkerGivesBack(v) ==
    /\ visit.sub[v] = "granted"
    /\ visit' = [visit EXCEPT !.sub[v] = "returned"]
    /\ Unsubscribes

\* Mutant: on_unmount does not unsubscribe.
ClosesOnly ==
    /\ visit.open # 0
    /\ visit' = [visit EXCEPT !.open = 0]
    /\ UNCHANGED <<job, tree, seen, poller, thread, dash, recovery, evicted, faults>>

\* on_unmount: the popped screen drops what it holds.
Closes ==
    LET v == visit.open
        gone == [visit EXCEPT !.open = 0]
    IN /\ v # 0
       /\ IF visit.sub[v] = "held"
          THEN visit' = [gone EXCEPT !.sub[v] = "returned"] /\ Unsubscribes
          ELSE /\ visit' = gone
               /\ UNCHANGED <<job, tree, seen, poller, thread, dash, recovery, evicted, faults>>

----------------------------------------------------------------------------
(* The Dashboard: reads the active Jobs, then registers them; the Job may end, or
   another screen open, in between. *)

DashReads ==
    /\ visit.open = 0 /\ life = "over" /\ dash' = "inactive"
    /\ UNCHANGED <<job, tree, seen, poller, thread, visit, recovery, evicted, faults>>

DashSyncs ==
    /\ IF dash = "active"
       THEN Refreshes([Known EXCEPT !.registered = "yes"])
       ELSE Prunes([job EXCEPT !.registered = "no"]) /\ UNCHANGED faults
    /\ UNCHANGED <<thread, visit, dash, recovery, evicted>>

----------------------------------------------------------------------------
(* Identity recovery *)

Missing == {i \in 1 .. Len(tree) : tree[i].chains = <<>>}

\* recovery_criteria: one call, the CSV export, with exactly one shell that has
\* no query.
RecoveryStarts ==
    /\ recovery.pc = "idle"
    /\ visit.open # 0 /\ visit.sub[visit.open] = "held"
    /\ \E i \in Missing :
         /\ {k \in Missing : tree[k].call = tree[i].call} = {i}
         /\ recovery' = [pc |-> "criteria", shell |-> tree[i].shell, q |-> 0,
                         tries |-> recovery.tries + 1]
    /\ UNCHANGED <<job, tree, seen, poller, thread, visit, dash, evicted, faults>>

\* discover: exactly one query matches in what the coordinators that answered list;
\* any other number ends the recovery.
RecoveryDiscovers ==
    LET calls == {tree[i].call : i \in ShellIndex(tree, recovery.shell)}
        matching == {q \in 1 .. Len(query) : q \notin evicted /\ query[q].call \in calls}
    IN /\ recovery.pc = "criteria"
       /\ \/ \E q \in matching :
               /\ faults' = IF matching = {q} THEN faults ELSE faults + 1
               /\ recovery' = [recovery EXCEPT !.pc = "found", !.q = q]
          \/ recovery' = [recovery EXCEPT !.pc = "idle", !.shell = 0] /\ UNCHANGED faults
       /\ UNCHANGED <<job, tree, seen, poller, thread, visit, dash, evicted>>

\* The second critical section checks again, and attaches.
RecoveryAttaches ==
    LET q == recovery.q
        at == ShellIndex(tree, recovery.shell)
        sane == /\ at # {} /\ at \subseteq Missing
                /\ \A i \in at : {k \in Missing : tree[k].call = tree[i].call} = at
                /\ q \notin QueriesOf(Nodes(tree))
    IN /\ recovery.pc = "found"
       /\ IF sane
          THEN /\ tree' = WithQuery(tree, CHOOSE i \in at : TRUE, q, "operator")
               /\ poller' = Synced(poller, tree')
               /\ job' = [job EXCEPT !.available = "yes"]
          ELSE UNCHANGED <<tree, poller, job>>
       /\ recovery' = [recovery EXCEPT !.pc = "idle", !.shell = 0, !.q = 0]
       /\ UNCHANGED <<seen, thread, visit, dash, evicted, faults>>

----------------------------------------------------------------------------

MonInit ==
    /\ FileInit
    /\ job = [Fresh EXCEPT !.tracked = "no"] /\ tree = <<>> /\ seen = 0
    /\ poller = [q \in QueryIds |-> NoPoller]
    /\ thread = [pc |-> "idle", due |-> {}, at |-> 0, answer |-> "none"]
    /\ visit = [open |-> 0, last |-> 0, sub |-> [v \in Visits |-> "none"]]
    /\ dash = "active" /\ evicted = {} /\ faults = 0
    /\ recovery = [pc |-> "idle", shell |-> 0, q |-> 0, tries |-> 0]

Tick == TickStarts \/ Observes \/ Attaches \/ TickEnds

Detail(v) == WorkerStarts(v) \/ ThreadSubscribes(v) \/ WorkerHolds(v) \/ WorkerGivesBack(v)

Dashboard == DashReads \/ DashSyncs
Recovery == RecoveryStarts \/ RecoveryDiscovers \/ RecoveryAttaches

Service == \/ Tick
           \/ Opens \/ Closes \/ (\E v \in Visits : Detail(v))
           \/ Dashboard \/ Recovery
           \/ \E q \in 1 .. Len(query) : Evicts(q)

Torn == Cardinality({i \in 1 .. Len(log) : log[i].type = "garbage"})
          + (IF tail = "torn" THEN 1 ELSE 0)

MonNext ==
    /\ \/ Service /\ UNCHANGED fileVars
       \/ FileNext /\ UNCHANGED monVars
    /\ LastShell' <= MaxShells
    /\ Torn' + faults' + recovery'.tries <= MaxOdd

MonSpec == MonInit /\ [][MonNext]_vars

\* The thread ticks for ever and every poller's time comes; workers run on.
MonFairness ==
    /\ WF_vars(Tick /\ UNCHANGED fileVars)
    /\ \A q \in QueryIds : SF_vars(TickStarts /\ q \in thread'.due /\ UNCHANGED fileVars)
    /\ \A v \in Visits : WF_vars(Detail(v) /\ UNCHANGED fileVars)

MonFairSpec == MonSpec /\ MonFairness

----------------------------------------------------------------------------
(* Properties *)

\* However the reads of a growing file are cut (a torn line, a line that crosses the
\* size limit, a stat that fails), the tree is the replay of what was read: no event
\* is lost, applied twice or out of order.  Shells the operator touched are apart.
TreeIsReplay ==
    LET whole == Replay(<<>>, 0, Readable(seen))
        Names(t, i) == [c \in 1 .. Len(t[i].chains) |-> [n \in 1 .. Len(t[i].chains[c]) |->
                                                           t[i].chains[c][n].q]]
    IN /\ Len(tree) = Len(whole)
       /\ \A i \in 1 .. Len(tree) :
            /\ tree[i].shell = whole[i].shell
            /\ (\A n \in Nodes(<<tree[i]>>) : n.from = "log") => Names(tree, i) = Names(whole, i)

\* The subscriptions the service counts are those that screens hold or are about to
\* hold or give back: none is lost when a screen closes while its thread subscribes.
\* A subscribed Job is never dropped, and only the screen that is open holds one.
SubscriptionsBalance ==
    /\ job.subs = Cardinality({v \in Visits : visit.sub[v] \in {"granted", "held"}})
    /\ job.subs > 0 => job.tracked = "yes"
    /\ \A v \in Visits : visit.sub[v] = "held" => visit.open = v

\* Between critical sections exactly the leaves of the tree are polled on: each has
\* a poller, and any other live identity has at most its last poll to come.
LeavesArePolled ==
    \A q \in QueryIds :
        /\ q \in QueriesOf(Leaves(tree)) => poller[q].phase # "absent"
        /\ poller[q].phase \in {"live", "extra"} => q \in QueriesOf(Leaves(tree))

\* The service never invents an outcome: what a poller or the tree calls succeeded
\* or failed is what Impala said of that query, however many polls failed since.
Truth(q, obs) == /\ obs = "succeeded" => query[q].state = "finished"
                 /\ obs = "failed" => query[q].state = "exception"

OutcomeIsImpalas ==
    /\ \A q \in QueryIds : poller[q].last \in Terminal => Truth(q, poller[q].last)
    /\ \A n \in Nodes(tree) : n.obs \in Terminal => Truth(n.q, n.obs)

\* A poller that saw the outcome of its query keeps it as long as the Job is tracked,
\* whatever the reader and later polls, retries and prunes do to the pollers.  (The nodes
\* of the tree are written anew by the reader and are not part of this.)
OutcomeIsKept ==
    [][\A q \in QueryIds : poller[q].last \in Terminal /\ job'.tracked = "yes"
            => poller'[q].last = poller[q].last]_vars

\* A screen that was left gives its subscription back.
LeftMeansReturned ==
    \A v \in Visits : visit.last >= v /\ visit.open # v ~>
                        visit.sub[v] \in {"skipped", "returned"}

\* Once nobody looks at the Job and the Dashboard no longer registers it, the service
\* lets go of it, with every poller, provided Impala still told how its queries ended.
FinallyPruned ==
    <>[](job.subs = 0 /\ job.registered = "no"
         /\ \A q \in 1 .. Len(query) : query[q].state # "running" /\ q \notin evicted)
        => []<>(job.tracked = "no" \/ \E q \in QueryIds : poller[q].last = "retrying")

\* A stat error does not leave the Job unavailable as long as a query of it is polled.
AvailableAgain ==
    job.available = "no" /\ (\E q \in QueryIds : poller[q].phase = "live") ~>
        job.available = "yes" \/ job.tracked = "no"
=============================================================================
