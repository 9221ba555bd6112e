---------------------------- MODULE MCCollection ----------------------------
(***************************************************************************)
(* The periodic tasks that learn about the remotes, each in a scenario of  *)
(* its own: "metrics" (MetricCollection), "ceph" (CephRegistry) and        *)
(* "updates" (UpdateSummary).  The components that are not in the scenario *)
(* stay in an initial state.                                               *)
(***************************************************************************)
EXTENDS MetricCollection, CephRegistry

CONSTANTS m1, m2, n1, Task, u1

VARIABLES
    scenario,
    uconfig, nodes, down, cache, run, changes

updateVars == <<uconfig, nodes, down, cache, run, changes>>
allVars == <<vars, scenario, cephVars, updateVars>>

Updates == INSTANCE UpdateSummary WITH
    config <- uconfig, Remotes <- {m1, m2}, Nodes <- {n1}, Users <- {u1}

AllInit ==
    /\ scenario \in {"metrics", "ceph", "updates"}
    /\ Init /\ CephInit /\ Updates!Init
    /\ scenario # "ceph" => ceph = [m \in PveRemotes |-> None]

In(name) == scenario = name /\ UNCHANGED scenario

AllNext ==
    \/ In("metrics") /\ Next /\ UNCHANGED <<cephVars, updateVars>>
    \/ In("ceph") /\ CephNext /\ UNCHANGED <<vars, updateVars>>
    \/ In("updates") /\ Updates!Next /\ UNCHANGED <<vars, cephVars>>

\* FairSpec of every component, while it is the one that runs.
Fairness ==
    /\ WF_vars(In("metrics") /\ TaskStep)
    /\ \A w \in Waiters : SF_vars(In("metrics") /\ HandleControlMessage(w))
    /\ WF_cephVars(In("ceph") /\ SweepStep) /\ WF_cephVars(In("ceph") /\ CleanUp)
    /\ \A m \in PveRemotes : WF_cephVars(In("ceph") /\ DetectStep(m))
    /\ WF_updateVars(In("updates") /\ Updates!TaskStep)
    /\ WF_updateVars(In("updates") /\ Updates!RunStep(u1))

AllSpec == AllInit /\ [][AllNext]_allVars /\ Fairness

-----------------------------------------------------------------------------
\* The summary of updates shows the configured remotes and their nodes in the end
\* (refresh_update_summary_cache).
SummaryConverges ==
    <>[](scenario = "updates" /\ Updates!AllReachable) => <>[]Updates!UpToDate
=============================================================================
