--------------------------- MODULE Pipeline_proofs ---------------------------
(***************************************************************************)
(* The scripts keep what the monitor service was written against, so what  *)
(* Monitor_proofs proves of any event file holds of theirs; and a Job that *)
(* ended well shows no failure, for any calls, pools, rounds, lines,       *)
(* queries, visits and faults.                                             *)
(***************************************************************************)
EXTENDS Pipeline, Orchestrator_proofs, TLAPS

-------------------------------------------------------------------------------
(* What the scripts do to the file *)

\* The step that ends a Job writes nothing: at most SIGTERM tears a line.
LEMMA EndWritesNothing ==
    ASSUME OrchInv, OrchNext, Life = "on", Life' = "over"
    PROVE  UNCHANGED <<log, query>> /\ tail' \in {tail, "torn"}
<1>1. CASE Terminated
  BY <1>1 DEF Terminated, Killed
<1>2. CASE Prepares \/ ShellRaised \/ Succeeds \/ ReplaceFails \/ FailsForGood \/ FailsRetriably
           \/ NextPool \/ NextCycle \/ GivesUp
  BY <1>2 DEF Prepares, ShellRaised, Succeeds, ReplaceFails, FailsForGood, FailsRetriably,
              NextPool, NextCycle, GivesUp, shellVars
<1>3. CASE TriesPool
  <2>1. script'.pc = "judge"
    BY <1>3 DEF OrchInv, OrchTypeOK, TriesPool, Goes
  <2> QED
    BY <2>1 DEF Life
<1>4. CASE \/ WritesExport \/ ShellMoves \/ ImpalaMoves
          \/ \E rc \in {"zero", "nonzero"} : ShellExits(rc)
  BY <1>4 DEF WritesExport, ShellMoves, ImpalaMoves, ShellExits, Life
<1> QED
  BY <1>1, <1>2, <1>3, <1>4 DEF OrchNext, Script

\* Once it is over, Impala alone moves on.
LEMMA OverIsFinal ==
    ASSUME OrchInv, OrchNext, Life = "over"
    PROVE  ImpalaMoves
BY DEF OrchNext, Script, Prepares, TriesPool, WritesExport, ShellRaised, Succeeds, ReplaceFails,
       FailsForGood, FailsRetriably, NextPool, NextCycle, GivesUp, ShellMoves, ShellExits,
       Terminated, ShellEnded, Life

\* A step that does not end the Job is a step of the file the scripts keep, and the
\* same step of the file the monitor reads.
LEMMA SameFile ==
    ASSUME [File!FileNext]_(File!fileVars), Life = "on", Life' = "on"
    PROVE  [Monitor!FileNext]_(Monitor!fileVars)
<1>1. CASE UNCHANGED File!fileVars
  BY <1>1 DEF File!fileVars, Monitor!fileVars
<1>2. ASSUME NEW c \in 1 .. CallCount, NEW s \in File!Ids \ {0}, File!Owns(c, s),
             File!Writes(c, s) \/ File!Submits(c, s)
      PROVE  Monitor!FileNext
  <2>1. s \in Monitor!Ids \ {0} /\ Monitor!Owns(c, s)
    BY <1>2 DEF File!Ids, Monitor!Ids, File!LastShell, Monitor!LastShell, File!Newest,
                Monitor!Newest, File!Owns, Monitor!Owns, File!OwnQueries, Monitor!OwnQueries
  <2>2. CASE File!Writes(c, s)
    <3>1. Monitor!Writes(c, s)
      BY <2>2
      DEF File!Writes, Monitor!Writes, File!Follows, Monitor!Follows, File!Line, Monitor!Line,
          File!Appended, Monitor!Appended, File!Logged, Monitor!Logged, File!Newest,
          Monitor!Newest, File!OwnQueries, Monitor!OwnQueries, File!EventTypes, Monitor!EventTypes
    <3> QED
      BY <2>1, <3>1 DEF Monitor!FileNext
  <2>3. CASE File!Submits(c, s)
    <3>1. Monitor!Submits(c, s)
      BY <2>3
      DEF File!Submits, Monitor!Submits, File!Submit, Monitor!Submit, File!LastShell,
          Monitor!LastShell, File!Newest, Monitor!Newest, File!Finished, Monitor!Finished,
          File!OwnQueries, Monitor!OwnQueries
    <3> QED
      BY <2>1, <3>1 DEF Monitor!FileNext
  <2> QED
    BY <1>2, <2>2, <2>3
<1>3. CASE File!Tears
  BY <1>3 DEF File!Tears, Monitor!Tears, Monitor!FileNext
<1>4. CASE File!Ends
  <2>1. UNCHANGED <<log, query>> /\ tail' \in {tail, "torn"}
    BY <1>4 DEF File!Ends
  <2>2. Monitor!Tears \/ UNCHANGED Monitor!fileVars
    BY <2>1 DEF Monitor!Tears, Monitor!fileVars
  <2> QED
    BY <2>2 DEF Monitor!FileNext
<1>5. CASE File!Impala
  <2>1. Monitor!Impala
    BY <1>5 DEF File!Impala, Monitor!Impala, File!QueryEnds, Monitor!QueryEnds
  <2> QED
    BY <2>1 DEF Monitor!FileNext
<1> QED
  BY <1>1, <1>2, <1>3, <1>4, <1>5 DEF File!FileNext

(* Every step of the scripts is one that the monitor expects of an event file. *)
LEMMA ScriptsFeed ==
    ASSUME OrchInv, [OrchNext]_orchVars
    PROVE  [Monitor!FileNext]_(Monitor!fileVars)
<1>1. CASE UNCHANGED orchVars
  BY <1>1 DEF orchVars, Monitor!fileVars, Life
<1>2. CASE OrchNext /\ Life = "over"
  <2>1. ImpalaMoves
    BY <1>2, OverIsFinal
  <2>2. PICK q \in 1 .. Len(query), state \in {"finished", "exception"} : File!QueryEnds(q, state)
    BY <2>1 DEF ImpalaMoves
  <2>3. Monitor!QueryEnds(q, state)
    BY <2>1, <2>2 DEF ImpalaMoves, File!QueryEnds, Monitor!QueryEnds, Life
  <2> QED
    BY <2>2, <2>3 DEF Monitor!Impala, Monitor!FileNext
<1>3. CASE OrchNext /\ Life = "on" /\ Life' = "over"
  <2>1. Monitor!Ends
    BY <1>3, EndWritesNothing DEF Monitor!Ends
  <2> QED
    BY <2>1 DEF Monitor!FileNext
<1>4. CASE OrchNext /\ Life = "on" /\ Life' = "on"
  <2>1. [File!FileNext]_(File!fileVars)
    BY OrchIsShell, ShellInvStep DEF OrchInv
  <2> QED
    BY <1>4, <2>1, SameFile
<1> QED
  BY <1>1, <1>2, <1>3, <1>4 DEF Life

(* For any Job, what its scripts leave in the event file at any moment is a file that    *)
(* MonitorService was written for: the composition implements the monitor's own          *)
(* specification.                                                                        *)
THEOREM ScriptsFeedMonitor == PipelineSpec => FeedsMonitor
<1>1. PipelineInit => OrchInit /\ Monitor!MonInit
  BY DEF PipelineInit
<1>2. [PipelineNext]_pipelineVars => [OrchNext]_orchVars
  BY DEF PipelineNext, pipelineVars
<1>3. OrchInv /\ [PipelineNext]_pipelineVars => [Monitor!MonNext]_(Monitor!vars)
  <2> SUFFICES ASSUME OrchInv, [PipelineNext]_pipelineVars PROVE [Monitor!MonNext]_(Monitor!vars)
    OBVIOUS
  <2>1. CASE UNCHANGED pipelineVars
    BY <2>1 DEF pipelineVars, monitorVars, orchVars, Monitor!vars, Monitor!monVars,
                Monitor!fileVars, Life
  <2>2. CASE PipelineNext /\ OrchNext /\ UNCHANGED monitorVars
    <3>1. [Monitor!FileNext]_(Monitor!fileVars) /\ UNCHANGED Monitor!monVars
      BY <2>2, ScriptsFeed DEF monitorVars, Monitor!monVars
    <3> QED
      BY <2>2, <3>1 DEF PipelineNext, Monitor!MonNext, Monitor!vars
  <2>3. CASE PipelineNext /\ Monitor!Service /\ UNCHANGED orchVars
    <3>1. UNCHANGED Monitor!fileVars
      BY <2>3 DEF orchVars, Monitor!fileVars, Life
    <3> QED
      BY <2>3, <3>1 DEF PipelineNext, Monitor!MonNext
  <2> QED
    BY <2>1, <2>2, <2>3 DEF PipelineNext
<1> QED
  BY <1>1, <1>2, <1>3, OrchInvAlways, PTL DEF PipelineSpec, OrchSpec, FeedsMonitor, Monitor!MonSpec
-------------------------------------------------------------------------------
(* The monitor once more, so that the theorems about it can be cited: Monitor and Proved *)
(* are the same module with the same parameters, and each definition of one is that of   *)
(* the other, word for word.                                                             *)

Proved == INSTANCE Monitor_proofs WITH life <- Life

\* Both read the lines of the file in the same way.
LEMMA SameRead ==
    ASSUME NEW t, NEW u, NEW n, NEW m, NEW p
    PROVE  /\ Monitor!Replay(t, n, m) = Proved!Replay(t, n, m)
           /\ Monitor!Reattached(t, u) = Proved!Reattached(t, u)
           /\ Monitor!Synced(p, t) = Proved!Synced(p, t)
<1>1. Monitor!Replay(t, n, m) = Proved!Replay(t, n, m)
  BY Zenon DEF Monitor!Replay, Proved!Replay, Monitor!Fed, Proved!Fed, Monitor!ShellIndex,
               Proved!ShellIndex, Monitor!WithQuery, Proved!WithQuery, Monitor!WithRetry,
               Proved!WithRetry, Monitor!Observed, Proved!Observed, Monitor!FoldLeft,
               Proved!FoldLeft, Monitor!MapThenFoldSet, Proved!MapThenFoldSet, Monitor!Max,
               Proved!Max
<1>2. Monitor!Reattached(t, u) = Proved!Reattached(t, u)
  BY Zenon DEF Monitor!Reattached, Proved!Reattached, Monitor!Previous, Proved!Previous,
               Monitor!QueryIds, Proved!QueryIds, Monitor!Places, Proved!Places,
               Monitor!LeafPlaces, Proved!LeafPlaces, Monitor!NodeAt, Proved!NodeAt,
               Monitor!Nodes, Proved!Nodes, Monitor!Leaves, Proved!Leaves, Monitor!InOrder,
               Proved!InOrder
<1>3. Monitor!Synced(p, t) = Proved!Synced(p, t)
  BY Zenon DEF Monitor!Synced, Proved!Synced, Monitor!QueryIds, Proved!QueryIds, Monitor!QueriesOf,
               Proved!QueriesOf, Monitor!Leaves, Proved!Leaves, Monitor!LeafPlaces,
               Proved!LeafPlaces, Monitor!Places, Proved!Places, Monitor!NodeAt, Proved!NodeAt
<1> QED
  BY <1>1, <1>2, <1>3

\* Both refresh the Job in the same way.
LEMMA SameRefresh ==
    ASSUME NEW j
    PROVE  Monitor!Refreshes(j) <=> Proved!Refreshes(j)
<1>1. /\ Monitor!FileSize = Proved!FileSize
      /\ Monitor!KnownTree = Proved!KnownTree
      /\ Monitor!KnownSeen = Proved!KnownSeen
  BY DEF Monitor!FileSize, Proved!FileSize, Monitor!KnownTree, Proved!KnownTree,
         Monitor!KnownSeen, Proved!KnownSeen
<1>2. \A n : Monitor!Readable(n) = Proved!Readable(n)
  BY DEF Monitor!Readable, Proved!Readable
<1>3. (\E t \in {Monitor!Replay(Monitor!KnownTree, Monitor!Readable(Monitor!KnownSeen),
                                Monitor!Readable(Monitor!FileSize))} :
          tree' = Monitor!Reattached(Monitor!KnownTree, t))
      <=> (\E t \in {Proved!Replay(Proved!KnownTree, Proved!Readable(Proved!KnownSeen),
                                   Proved!Readable(Proved!FileSize))} :
              tree' = Proved!Reattached(Proved!KnownTree, t))
  BY Zenon, <1>1, <1>2, SameRead
<1> QED
  BY Zenon, <1>1, <1>3, SameRead DEF Monitor!Refreshes, Proved!Refreshes

\* Both tick in the same way.
LEMMA SameTick == Monitor!Tick => Proved!Tick
<1>1. Monitor!TickStarts => Proved!TickStarts
  BY Zenon, SameRefresh DEF Monitor!TickStarts, Proved!TickStarts, Monitor!Active, Proved!Active,
                            Monitor!QueryIds, Proved!QueryIds
<1>2. Monitor!Observes => Proved!Observes
  BY Zenon DEF Monitor!Observes, Proved!Observes, Monitor!Answer, Proved!Answer
<1>3. Monitor!Attaches => Proved!Attaches
  BY Zenon DEF Monitor!Attaches, Proved!Attaches, Monitor!Attached, Proved!Attached,
               Monitor!Active, Proved!Active, Monitor!Terminal, Proved!Terminal, Monitor!Places,
               Proved!Places, Monitor!NodeAt, Proved!NodeAt, Monitor!InOrder, Proved!InOrder
<1>4. Monitor!TickEnds => Proved!TickEnds
  BY Zenon DEF Monitor!TickEnds, Proved!TickEnds, Monitor!Prunes, Proved!Prunes, Monitor!QueryIds,
               Proved!QueryIds, Monitor!NoPoller, Proved!NoPoller, Monitor!Fresh, Proved!Fresh
<1> QED
  BY <1>1, <1>2, <1>3, <1>4 DEF Monitor!Tick, Proved!Tick

\* Both serve Job Detail in the same way.
LEMMA SameDetail ==
    Monitor!Opens \/ Monitor!Closes \/ (\E v \in Monitor!Visits : Monitor!Detail(v))
        => Proved!Opens \/ Proved!Closes \/ (\E v \in Proved!Visits : Proved!Detail(v))
<1>1. Monitor!Unsubscribes => Proved!Unsubscribes
  BY Zenon DEF Monitor!Unsubscribes, Proved!Unsubscribes, Monitor!Prunes, Proved!Prunes,
               Monitor!QueryIds, Proved!QueryIds, Monitor!NoPoller, Proved!NoPoller,
               Monitor!Fresh, Proved!Fresh
<1>2. Monitor!Subscribes => Proved!Subscribes
  BY Zenon, SameRefresh DEF Monitor!Subscribes, Proved!Subscribes, Monitor!Known, Proved!Known,
                            Monitor!Fresh, Proved!Fresh
<1>3. Monitor!Opens => Proved!Opens
  BY Zenon DEF Monitor!Opens, Proved!Opens
<1>4. Monitor!Closes => Proved!Closes
  BY <1>1 DEF Monitor!Closes, Proved!Closes
<1>5. ASSUME NEW v, Monitor!Detail(v) PROVE Proved!Detail(v)
  BY <1>1, <1>2, <1>5 DEF Monitor!Detail, Proved!Detail, Monitor!WorkerStarts,
                          Proved!WorkerStarts, Monitor!ThreadSubscribes, Proved!ThreadSubscribes,
                          Monitor!WorkerHolds, Proved!WorkerHolds, Monitor!WorkerGivesBack,
                          Proved!WorkerGivesBack
<1> QED
  BY <1>3, <1>4, <1>5 DEF Monitor!Visits, Proved!Visits

\* Both serve the Dashboard and the recovery in the same way.
LEMMA SameOthers == Monitor!Dashboard \/ Monitor!Recovery => Proved!Dashboard \/ Proved!Recovery
<1>1. Monitor!Prunes([job EXCEPT !.registered = "no"])
          => Proved!Prunes([job EXCEPT !.registered = "no"])
  BY Zenon DEF Monitor!Prunes, Proved!Prunes, Monitor!QueryIds, Proved!QueryIds, Monitor!NoPoller,
               Proved!NoPoller, Monitor!Fresh, Proved!Fresh
<1>2. Monitor!DashReads => Proved!DashReads
  BY Zenon DEF Monitor!DashReads, Proved!DashReads
<1>3. Monitor!DashSyncs => Proved!DashSyncs
  BY Zenon, <1>1, SameRefresh DEF Monitor!DashSyncs, Proved!DashSyncs, Monitor!Known,
                                  Proved!Known, Monitor!Fresh, Proved!Fresh
<1>4. Monitor!RecoveryStarts => Proved!RecoveryStarts
  BY Zenon DEF Monitor!RecoveryStarts, Proved!RecoveryStarts, Monitor!Missing, Proved!Missing
<1>5. Monitor!RecoveryDiscovers => Proved!RecoveryDiscovers
  BY Zenon DEF Monitor!RecoveryDiscovers, Proved!RecoveryDiscovers, Monitor!ShellIndex,
               Proved!ShellIndex
<1>6. Monitor!RecoveryAttaches => Proved!RecoveryAttaches
  BY Zenon DEF Monitor!RecoveryAttaches, Proved!RecoveryAttaches, Monitor!ShellIndex,
               Proved!ShellIndex, Monitor!Missing, Proved!Missing, Monitor!QueriesOf,
               Proved!QueriesOf, Monitor!Nodes, Proved!Nodes, Monitor!Places, Proved!Places,
               Monitor!NodeAt, Proved!NodeAt, Monitor!WithQuery, Proved!WithQuery,
               Monitor!Observed, Proved!Observed, Monitor!Synced, Proved!Synced, Monitor!QueryIds,
               Proved!QueryIds, Monitor!Leaves, Proved!Leaves, Monitor!LeafPlaces,
               Proved!LeafPlaces
<1> QED
  BY <1>2, <1>3, <1>4, <1>5, <1>6 DEF Monitor!Dashboard, Proved!Dashboard, Monitor!Recovery,
                                      Proved!Recovery

\* Both are the same service of the same file.
LEMMA SameSpec == FeedsMonitor => Proved!MonSpec
<1>1. Monitor!FileInit => Proved!FileInit
  BY Zenon DEF Monitor!FileInit, Proved!FileInit
<1>2. Monitor!MonInit => Proved!MonInit
  BY Zenon, <1>1 DEF Monitor!MonInit, Proved!MonInit, Monitor!QueryIds, Proved!QueryIds,
                     Monitor!NoPoller, Proved!NoPoller, Monitor!Fresh, Proved!Fresh,
                     Monitor!Visits, Proved!Visits
<1>4. Monitor!Service => Proved!Service
  <2>1. ASSUME NEW q \in 1 .. Len(query), Monitor!Evicts(q) PROVE Proved!Evicts(q)
    BY <2>1 DEF Monitor!Evicts, Proved!Evicts
  <2> QED
    BY <2>1, SameTick, SameDetail, SameOthers DEF Monitor!Service, Proved!Service
<1>5. Monitor!FileNext => Proved!FileNext
  BY Zenon DEF Monitor!FileNext, Proved!FileNext, Monitor!Ids, Proved!Ids, Monitor!LastShell,
               Proved!LastShell, Monitor!Newest, Proved!Newest, Monitor!Owns, Proved!Owns,
               Monitor!OwnQueries, Proved!OwnQueries, Monitor!Writes, Proved!Writes,
               Monitor!EventTypes, Proved!EventTypes, Monitor!Follows, Proved!Follows,
               Monitor!Line, Proved!Line, Monitor!Appended, Proved!Appended, Monitor!Logged,
               Proved!Logged, Monitor!Submits, Proved!Submits, Monitor!Submit, Proved!Submit,
               Monitor!Finished, Proved!Finished, Monitor!Tears, Proved!Tears, Monitor!Ends,
               Proved!Ends, Monitor!Impala, Proved!Impala, Monitor!QueryEnds, Proved!QueryEnds
<1>6. Monitor!MonNext => Proved!MonNext
  <2>1. Monitor!LastShell' = Proved!LastShell' /\ Monitor!Torn' = Proved!Torn'
    BY Zenon DEF Monitor!LastShell, Proved!LastShell, Monitor!Newest, Proved!Newest, Monitor!Torn,
                 Proved!Torn, Monitor!Cardinality, Proved!Cardinality
  <2> QED
    BY <1>4, <1>5, <2>1 DEF Monitor!MonNext, Proved!MonNext, Monitor!monVars, Proved!monVars,
                            Monitor!fileVars, Proved!fileVars
<1>7. [Monitor!MonNext]_(Monitor!vars) => [Proved!MonNext]_(Proved!vars)
  BY <1>6 DEF Monitor!vars, Proved!vars, Monitor!monVars, Proved!monVars, Monitor!fileVars,
              Proved!fileVars
<1> QED
  BY <1>2, <1>7, PTL DEF FeedsMonitor, Monitor!MonSpec, Proved!MonSpec

-------------------------------------------------------------------------------
(* What a Job that ended well shows *)

\* The script ends well only on a shell that exited with zero.
EndedWell == script.pc = "ended" => shell.rc = "zero"

\* Nothing but Impala moves once it has.
LEMMA EndedWellStep ==
    ASSUME OrchInv, EndedWell, [OrchNext]_orchVars
    PROVE  EndedWell'
<1>1. CASE UNCHANGED orchVars
  BY <1>1 DEF orchVars, EndedWell
<1>2. CASE OrchNext /\ Life = "over"
  BY <1>2, OverIsFinal DEF ImpalaMoves, EndedWell
<1>3. CASE OrchNext /\ Life = "on" /\ Succeeds
  BY <1>3 DEF Succeeds, shellVars, ShellEnded, EndedWell
<1>4. CASE OrchNext /\ Life = "on" /\ ~Succeeds
  <2>1. script' = script \/ script'.pc \in {"failed", "judge", "next", "try"}
    BY <1>4
    DEF OrchInv, OrchTypeOK, OrchNext, Script, Prepares, TriesPool, WritesExport, ShellRaised,
        ReplaceFails, FailsForGood, FailsRetriably, NextPool, NextCycle, GivesUp, ShellMoves,
        ShellExits, Terminated, ImpalaMoves, Goes
  <2>2. script.pc # "ended" /\ script'.pc # "ended"
    BY <1>4, <2>1 DEF Life, OrchInv, OrchTypeOK
  <2> QED
    BY <2>2 DEF EndedWell
<1> QED
  BY <1>1, <1>2, <1>3, <1>4 DEF Life

\* The shell's own queries are among those the monitor knows.
LEMMA OwnAreIds ==
    ASSUME OrchInv
    PROVE  OwnQueries \subseteq 1 .. MaxQueries
<1>1. Len(query) \in Nat /\ Len(query) <= MaxQueries /\ MaxQueries \in Nat
  BY ShellAssumption DEF OrchInv, ShellInv, ShellTypeOK, File!FileTypeOK
<1> QED
  BY <1>1 DEF OwnQueries, File!OwnQueries

\* A query the last shell left did not fail, and neither does the monitor say so.
LEMMA ShowsNoFailure ==
    ASSUME OrchInv, EndedWell, Proved!OutcomeIsImpalas
    PROVE  SuccessShowsNoFailure
<1> SUFFICES ASSUME script.pc = "ended"
             PROVE  /\ \A q \in OwnQueries : poller[q].last # "failed"
                    /\ \A n \in Monitor!Nodes(tree) : n.q \in OwnQueries => n.obs # "failed"
  BY DEF SuccessShowsNoFailure
<1>1. \A q \in OwnQueries : query[q].state # "exception"
  BY DEF OrchInv, ShellInv, ZeroIsClean, EndedWell
<1>2. OwnQueries \subseteq Proved!QueryIds
  BY OwnAreIds DEF Proved!QueryIds
<1>3. "failed" \in Proved!Terminal
  BY DEF Proved!Terminal
<1>4. \A q : Proved!Truth(q, "failed") => query[q].state = "exception"
  BY DEF Proved!Truth
<1>5. ASSUME NEW q \in OwnQueries, poller[q].last = "failed" PROVE FALSE
  BY <1>1, <1>2, <1>3, <1>4, <1>5 DEF Proved!OutcomeIsImpalas
<1>6. Monitor!Nodes(tree) = Proved!Nodes(tree)
  BY Zenon DEF Monitor!Nodes, Proved!Nodes, Monitor!Places, Proved!Places, Monitor!NodeAt,
               Proved!NodeAt
<1>7. ASSUME NEW n \in Monitor!Nodes(tree), n.q \in OwnQueries, n.obs = "failed" PROVE FALSE
  BY <1>1, <1>3, <1>4, <1>6, <1>7 DEF Proved!OutcomeIsImpalas
<1> QED
  BY <1>5, <1>7

(* For any Job, the exit code its scripts go by and the outcomes its monitor polls never *)
(* contradict each other: a Job that ended well shows no failure of its last shell.      *)
THEOREM SuccessIsShown == PipelineSpec => []SuccessShowsNoFailure
<1>1. PipelineSpec => [][OrchNext]_orchVars /\ OrchInit
  <2>1. [PipelineNext]_pipelineVars => [OrchNext]_orchVars
    BY DEF PipelineNext, pipelineVars
  <2> QED
    BY <2>1, PTL DEF PipelineSpec, PipelineInit
<1>2. OrchInit => EndedWell
  BY DEF OrchInit, EndedWell
<1>3. OrchInv /\ EndedWell /\ [OrchNext]_orchVars => EndedWell'
  BY EndedWellStep
<1>4. OrchInv /\ EndedWell /\ Proved!OutcomeIsImpalas => SuccessShowsNoFailure
  BY ShowsNoFailure
<1>5. PipelineSpec => []OrchInv
  BY <1>1, OrchInvAlways, PTL DEF OrchSpec
<1>6. PipelineSpec => []EndedWell
  BY <1>1, <1>2, <1>3, <1>5, PTL
<1>7. PipelineSpec => []Proved!OutcomeIsImpalas
  <2>1. Proved!MonSpec => []Proved!OutcomeIsImpalas
    BY Proved!OutcomesSafe, PipelineAssumption, ShellAssumption
  <2> QED
    BY <2>1, ScriptsFeedMonitor, SameSpec, PTL
<1> QED
  BY <1>4, <1>5, <1>6, <1>7, PTL
===============================================================================
