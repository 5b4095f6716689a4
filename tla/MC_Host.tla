------------------------------ MODULE MC_Host ------------------------------
(***************************************************************************)
(* The parts of a host, one behavior each: the orchestrator scripts, the   *)
(* same scripts with the monitor that reads what they write (Pipeline),    *)
(* the Impala monitor client, the notebook API, the installer of shared    *)
(* runtimes and the smoke runs.  Scripts and Pipeline apart they share no  *)
(* variable, so a behavior lets one part move and their states add up.     *)
(***************************************************************************)
EXTENDS Pipeline, ImpalaClient, Notebook, SharedRuntime, SmokeRun

VARIABLE part    \* the part that moves in this behavior

hostVarsOf == <<pipelineVars, clientVars, nbVars, rtVars, smokeVars, part>>

Parts == {"scripts", "pipeline", "client", "notebook", "runtime", "smoke"}

\* A Job of one call, which it tries until it succeeds.
Short == "SqlFile/Table"

HostInit ==
    /\ part \in Parts
    /\ PipelineInit /\ ClientInit /\ NbInit /\ RtInit /\ SmokeInit
    /\ part = "pipeline" => script.cell = Short
    /\ part = "scripts" => script.cell # Short
    /\ part \notin {"scripts", "pipeline"} => script.cell = CHOOSE c \in Cells : TRUE
    /\ part # "runtime" => \A i, j \in Installers : install[i] = install[j]
    /\ part # "runtime" => \A i \in Installers : install[i].digest = CHOOSE d \in Digests : TRUE
    /\ part # "smoke" =>
          /\ invocation.level = (CHOOSE l \in Levels : TRUE) /\ pane = "none"
          /\ ~invocation.dry /\ ~invocation.reuse /\ ~invocation.failFast

HostNext ==
    \/ /\ part = "scripts" /\ OrchNext
       /\ UNCHANGED <<monitorVars, clientVars, nbVars, rtVars, smokeVars, part>>
    \/ /\ part = "pipeline" /\ PipelineNext
       /\ UNCHANGED <<clientVars, nbVars, rtVars, smokeVars, part>>
    \/ /\ part = "client" /\ ClientNext
       /\ UNCHANGED <<pipelineVars, nbVars, rtVars, smokeVars, part>>
    \/ /\ part = "notebook" /\ NbNext
       /\ UNCHANGED <<pipelineVars, clientVars, rtVars, smokeVars, part>>
    \/ /\ part = "runtime" /\ RtNext
       /\ UNCHANGED <<pipelineVars, clientVars, nbVars, smokeVars, part>>
    \/ /\ part = "smoke" /\ SmokeNext
       /\ UNCHANGED <<pipelineVars, clientVars, nbVars, rtVars, part>>

HostSpec == HostInit /\ [][HostNext]_hostVarsOf

----------------------------------------------------------------------------

\* The scripts run on, as in OrchFairness, when they are the part that moves.
ScriptsRun ==
    /\ WF_hostVarsOf(/\ part = "scripts" /\ Script
                     /\ UNCHANGED <<monitorVars, clientVars, nbVars, rtVars, smokeVars, part>>)
    /\ WF_hostVarsOf(/\ part = "scripts" /\ (Popens \/ Drains \/ Returns)
                     /\ UNCHANGED <<script, csv, temp, monitorVars, clientVars, nbVars, rtVars,
                                    smokeVars, part>>)
    /\ WF_hostVarsOf(/\ part = "scripts" /\ (\E rc \in {"zero", "nonzero"} : ShellExits(rc))
                     /\ UNCHANGED <<monitorVars, clientVars, nbVars, rtVars, smokeVars, part>>)

HostFairSpec == HostSpec /\ ScriptsRun

\* Every part keeps its types.
HostTypeOK == OrchTypeOK /\ ClientTypeOK /\ NbTypeOK /\ RtTypeOK /\ SmokeTypeOK
=============================================================================
