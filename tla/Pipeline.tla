------------------------------ MODULE Pipeline ------------------------------
(***************************************************************************)
(* One Job from its scripts to the screen: the scripts write its event     *)
(* file, and the monitor service of a terminal interface tails that file   *)
(* and polls the same Impala.  The two share nothing else.  MonitorService *)
(* is written against what EventFile promises; here the file is the one    *)
(* the scripts write.                                                      *)
(***************************************************************************)
EXTENDS Orchestrator

CONSTANTS MaxVisits, MaxShells, MaxOdd    \* bounds, as in MonitorService

ASSUME PipelineAssumption == {MaxVisits, MaxShells, MaxOdd} \subseteq Nat

VARIABLES job, tree, seen, poller, thread, visit, dash, recovery, evicted, faults

\* The runner settles the manifest once the scripts have ended, in whatever way.
Life == IF script.pc \in {"failed", "ended"} THEN "over" ELSE "on"

Monitor == INSTANCE MonitorService WITH life <- Life

monitorVars == <<job, tree, seen, poller, thread, visit, dash, recovery, evicted, faults>>
pipelineVars == <<orchVars, monitorVars>>

PipelineInit == OrchInit /\ Monitor!MonInit

PipelineNext ==
    /\ \/ OrchNext /\ UNCHANGED monitorVars
       \/ Monitor!Service /\ UNCHANGED orchVars
    /\ Monitor!LastShell' <= MaxShells
    /\ Monitor!Torn' + faults' + recovery'.tries <= MaxOdd

PipelineSpec == PipelineInit /\ [][PipelineNext]_pipelineVars

----------------------------------------------------------------------------
(* Properties *)

\* The monitor may rely on the file: whatever the scripts, their shells and SIGTERM do
\* to it, and whenever the Job ends, it is a file MonitorService was written for.
FeedsMonitor == Monitor!MonSpec

\* A Job that ended well shows no failure of its last shell: the exit code the scripts
\* go by and the outcomes the monitor polls, two ways to learn of the same queries,
\* never contradict each other.
SuccessShowsNoFailure ==
    script.pc = "ended" =>
        /\ \A q \in OwnQueries : poller[q].last # "failed"
        /\ \A n \in Monitor!Nodes(tree) : n.q \in OwnQueries => n.obs # "failed"
=============================================================================
