---------------------------- MODULE CephRegistry ----------------------------
(***************************************************************************)
(* The registry of Ceph clusters (ceph-clusters.cfg): the periodic sweep   *)
(* over all PVE remotes, the one-shot detection after a remote was added   *)
(* (server/src/ceph/sweep.rs), and the clean-up after one was removed      *)
(* (server/src/api/remotes/mod.rs).  Probing takes time and no lock; only  *)
(* the update of the registry is done under one.                           *)
(***************************************************************************)
EXTENDS Integers, FiniteSets, Sequences

CONSTANTS
    PveRemotes,  \* the PVE remotes that can be configured
    Clusters,    \* the Ceph clusters, by fsid
    Nodes,       \* the monitors of the clusters
    MaxChanges,  \* bound: what happens to the remotes, and what fails
    MaxAdmin,    \* bound: the remotes added and removed, the clusters forgotten
    None

\* ProbeOutcome: a status is answered by the monitors in the quorum, so there are some.
Finds == [fsid : Clusters, nodes : (SUBSET Nodes) \ {{}}]
NoFind == {[fsid |-> "reachable"], [fsid |-> "unreachable"]}

\* A cluster's section: its state, last_seen_missing and forgotten.
Sections ==
    [state : {"detected", "gone", "unreachable"}, missing : BOOLEAN, forgotten : BOOLEAN]

ASSUME CephAssumption ==
    /\ None \notin PveRemotes \cup Finds \cup NoFind \cup Sections
    /\ Nodes # {} /\ Clusters \cap {"reachable", "unreachable", "probing"} = {}

VARIABLES
    ceph,      \* ceph[m]: the cluster behind the remote, or None
    quorum,    \* quorum[f]: the monitors that are in the quorum (quorum_names)
    up,        \* the remotes that can be reached
    remotes,   \* remotes.cfg, a sequence
    cluster,   \* cluster[f]: the section of the cluster, or None
    member,    \* member[<<f, n>>]: the remote of the member section, or None
    sweep,     \* the sweep: the remotes it has read, and the outcomes of its probes
    detect,    \* detect[m]: the one-shot detection for the remote
    removing,  \* the remote that remove_remote is cleaning up after, or None
    budget

cephVars == <<ceph, quorum, up, remotes, cluster, member, sweep, detect, removing, budget>>

Configured == {remotes[i] : i \in DOMAIN remotes}

Probing == [fsid |-> "probing"]

\* The registry, the remotes and the probes have the shapes the code gives them; no
\* remote is configured twice.
CephTypeOK ==
    /\ ceph \in [PveRemotes -> Clusters \cup {None}]
    /\ quorum \in [Clusters -> (SUBSET Nodes) \ {{}}]
    /\ up \subseteq PveRemotes
    /\ Configured \subseteq PveRemotes /\ Len(remotes) = Cardinality(Configured)
    /\ cluster \in [Clusters -> Sections \cup {None}]
    /\ member \in [Clusters \X Nodes -> PveRemotes \cup {None}]
    /\ sweep.on \in BOOLEAN
    /\ sweep.outcome \in [PveRemotes -> Finds \cup NoFind \cup {None}]
    /\ detect \in [PveRemotes -> Finds \cup NoFind \cup {None, Probing}]
    /\ removing \in PveRemotes \cup {None}

Asleep == [on |-> FALSE, order |-> <<>>, outcome |-> [m \in PveRemotes |-> None]]

CephInit ==
    /\ ceph \in [PveRemotes -> Clusters \cup {None}]
    /\ quorum = [f \in Clusters |-> Nodes]
    /\ up = PveRemotes /\ remotes = <<>>
    /\ cluster = [f \in Clusters |-> None]
    /\ member = [x \in Clusters \X Nodes |-> None]
    /\ sweep = Asleep
    /\ detect = [m \in PveRemotes |-> None]
    /\ removing = None
    /\ budget = [changes |-> MaxChanges, admin |-> MaxAdmin]

-----------------------------------------------------------------------------
(***************************************************************************)
(* The remotes.                                                            *)
(***************************************************************************)
Spend(what) == budget[what] > 0 /\ budget' = [budget EXCEPT ![what] = @ - 1]

ChangeCeph(m, f) ==
    /\ ceph[m] # f /\ Spend("changes")
    /\ ceph' = [ceph EXCEPT ![m] = f]
    /\ UNCHANGED <<quorum, up, remotes, cluster, member, sweep, detect, removing>>

ChangeQuorum(f, q) ==
    /\ quorum[f] # q /\ Spend("changes")
    /\ quorum' = [quorum EXCEPT ![f] = q]
    /\ UNCHANGED <<ceph, up, remotes, cluster, member, sweep, detect, removing>>

Flip(m) ==
    /\ Spend("changes")
    /\ up' = IF m \in up THEN up \ {m} ELSE up \cup {m}
    /\ UNCHANGED <<ceph, quorum, remotes, cluster, member, sweep, detect, removing>>

\* probe_remote: a remote that is not configured (any more) cannot be connected to.
Probe(m) ==
    IF m \notin Configured \cap up THEN [fsid |-> "unreachable"]
    ELSE IF ceph[m] = None THEN [fsid |-> "reachable"]
    ELSE [fsid |-> ceph[m], nodes |-> quorum[ceph[m]]]

-----------------------------------------------------------------------------
(***************************************************************************)
(* The registry: upsert_cluster and reconcile_unfound.                     *)
(***************************************************************************)
Forgotten(f) == cluster[f] # None /\ cluster[f].forgotten

Found(f, outcome) == \E m \in PveRemotes : outcome[m] # None /\ outcome[m].fsid = f

\* Mutants: forgotten clusters are upserted as well; registered ones are left alone.
UpsertedForgotten(outcome) == {f \in Clusters : Found(f, outcome)}
UpsertedNew(outcome) == {f \in Clusters : cluster[f] = None /\ Found(f, outcome)}

\* The clusters that were found, but for the forgotten ones.
Upserted(outcome) == {f \in Clusters : ~Forgotten(f) /\ Found(f, outcome)}

\* A member that is not registered is entered with the first remote that named it.
UpsertMembers(order, outcome) ==
    [x \in DOMAIN member |->
        LET named == {i \in DOMAIN order :
                        outcome[order[i]].fsid = x[1] /\ x[2] \in outcome[order[i]].nodes}
        IN  IF member[x] # None \/ x[1] \notin Upserted(outcome) \/ named = {} THEN member[x]
            ELSE order[CHOOSE i \in named : \A j \in named : i <= j]]

Detected == [state |-> "detected", missing |-> FALSE, forgotten |-> FALSE]

\* The remotes of the cluster's members that were probed, for a cluster to be demoted.
Probed(f, members, outcome) ==
    {m \in PveRemotes : outcome[m] # None /\ \E n \in Nodes : members[<<f, n>>] = m}

Reconciled(f, members, outcome) ==
    LET probed == Probed(f, members, outcome)
    IN  IF cluster[f] = None \/ Forgotten(f) \/ probed = {} THEN cluster[f]
        ELSE IF \E m \in probed : outcome[m].fsid = "unreachable"
             THEN [cluster[f] EXCEPT !.state = "unreachable"]
             ELSE [cluster[f] EXCEPT !.state = "gone", !.missing = TRUE]

Quiet == UNCHANGED <<ceph, quorum, up, budget>>

-----------------------------------------------------------------------------
(***************************************************************************)
(* sweep(): the remotes are probed one by one, then the registry is        *)
(* brought up to date under its lock.                                      *)
(***************************************************************************)
SweepStarts ==
    /\ ~sweep.on
    /\ sweep' = [Asleep EXCEPT !.on = TRUE, !.order = remotes]
    /\ UNCHANGED <<remotes, cluster, member, detect, removing>> /\ Quiet

SweepProbes(m) ==
    /\ sweep.on
    /\ \E i \in DOMAIN sweep.order :
          /\ sweep.order[i] = m /\ sweep.outcome[m] = None
          /\ \A j \in 1 .. i - 1 : sweep.outcome[sweep.order[j]] # None
    /\ sweep' = [sweep EXCEPT !.outcome[m] = Probe(m)]
    /\ UNCHANGED <<remotes, cluster, member, detect, removing>> /\ Quiet

AllProbed == sweep.on /\ \A i \in DOMAIN sweep.order : sweep.outcome[sweep.order[i]] # None

SweepEnds ==
    /\ AllProbed
    /\ member' = UpsertMembers(sweep.order, sweep.outcome)
    /\ cluster' = [f \in Clusters |->
                     IF f \in Upserted(sweep.outcome) THEN Detected
                     ELSE IF Found(f, sweep.outcome) THEN cluster[f]
                     ELSE Reconciled(f, member', sweep.outcome)]
    /\ sweep' = Asleep
    /\ UNCHANGED <<remotes, detect, removing>> /\ Quiet

\* The lock of the registry, or the file, cannot be had: the next sweep tries again.
SweepFails ==
    /\ AllProbed /\ Spend("changes")
    /\ sweep' = Asleep
    /\ UNCHANGED <<ceph, quorum, up, remotes, cluster, member, detect, removing>>

\* detect_and_upsert, for the one remote that was added.
DetectProbes(m) ==
    /\ detect[m] = Probing
    /\ detect' = [detect EXCEPT ![m] = Probe(m)]
    /\ UNCHANGED <<remotes, cluster, member, sweep, removing>> /\ Quiet

DetectUpserts(m) ==
    LET outcome == [n \in PveRemotes |-> IF n = m THEN detect[m] ELSE None]
    IN  /\ detect[m] \notin {None, Probing}
        /\ member' = UpsertMembers(<<m>>, outcome)
        /\ cluster' = [f \in Clusters |->
                         IF f \in Upserted(outcome) THEN Detected ELSE cluster[f]]
        /\ detect' = [detect EXCEPT ![m] = None]
        /\ UNCHANGED <<remotes, sweep, removing>> /\ Quiet

DetectFails(m) ==
    /\ detect[m] \notin {None, Probing} /\ Spend("changes")
    /\ detect' = [detect EXCEPT ![m] = None]
    /\ UNCHANGED <<ceph, quorum, up, remotes, cluster, member, sweep, removing>>

-----------------------------------------------------------------------------
(***************************************************************************)
(* add_remote and remove_remote; both hold the lock of remotes.cfg.        *)
(***************************************************************************)
Rest == UNCHANGED <<ceph, quorum, up, cluster, member, sweep>>

AddRemote(m) ==
    /\ removing = None /\ m \notin Configured /\ detect[m] = None /\ Spend("admin")
    /\ remotes' = Append(remotes, m)
    /\ detect' = [detect EXCEPT ![m] = Probing]
    /\ Rest /\ UNCHANGED removing

RemoveRemote(m) ==
    /\ removing = None /\ Spend("admin")
    /\ \E i \in DOMAIN remotes :
          /\ remotes[i] = m
          /\ remotes' = SubSeq(remotes, 1, i - 1) \o SubSeq(remotes, i + 1, Len(remotes))
    /\ removing' = m
    /\ Rest /\ UNCHANGED detect

\* Mutant: only the members are dropped.
CleanUpMembers ==
    /\ removing # None
    /\ member' = [x \in DOMAIN member |-> IF member[x] = removing THEN None ELSE member[x]]
    /\ removing' = None
    /\ UNCHANGED <<remotes, sweep, detect, cluster>> /\ Quiet

\* on_remote_removed: drop_pve_members_for_remote, drop_clusters_without_members.
CleanUp ==
    /\ removing # None
    /\ member' = [x \in DOMAIN member |-> IF member[x] = removing THEN None ELSE member[x]]
    /\ cluster' = [f \in Clusters |->
                     IF \A n \in Nodes : member'[<<f, n>>] = None THEN None ELSE cluster[f]]
    /\ removing' = None
    /\ UNCHANGED <<remotes, sweep, detect>> /\ Quiet

\* The clean-up is best effort: what goes wrong is logged, and the remote is gone.
CleanUpFails ==
    /\ removing # None /\ Spend("changes")
    /\ removing' = None
    /\ Rest /\ UNCHANGED <<remotes, detect>>

\* The operator's tombstone, set in the file.
Forget(f) ==
    /\ cluster[f] # None /\ ~cluster[f].forgotten /\ Spend("admin")
    /\ cluster' = [cluster EXCEPT ![f].forgotten = TRUE]
    /\ UNCHANGED <<ceph, quorum, up, remotes, member, sweep, detect, removing>>

SweepStep == SweepStarts \/ SweepEnds \/ \E m \in PveRemotes : SweepProbes(m)

DetectStep(m) == DetectProbes(m) \/ DetectUpserts(m)

CephNext ==
    \/ SweepStep \/ SweepFails
    \/ CleanUp \/ CleanUpFails
    \/ \E m \in PveRemotes :
          \/ DetectStep(m) \/ DetectFails(m) \/ AddRemote(m) \/ RemoveRemote(m) \/ Flip(m)
          \/ \E f \in Clusters \cup {None} : ChangeCeph(m, f)
    \/ \E f \in Clusters : Forget(f) \/ \E q \in (SUBSET Nodes) \ {{}} : ChangeQuorum(f, q)

CephSpec == CephInit /\ [][CephNext]_cephVars

\* The sweep runs every five minutes, a probe ends, and the handlers run on.
FairCephSpec ==
    /\ CephSpec
    /\ WF_cephVars(SweepStep) /\ WF_cephVars(CleanUp)
    /\ \A m \in PveRemotes : WF_cephVars(DetectStep(m))

-----------------------------------------------------------------------------
(***************************************************************************)
(* Properties.                                                             *)
(***************************************************************************)

\* A cluster is registered exactly when it has a member, through every interleaving of
\* a sweep, of detections and of a clean-up (upsert_cluster, on_remote_removed).
ClustersHaveMembers ==
    \A f \in Clusters : cluster[f] # None <=> \E n \in Nodes : member[<<f, n>>] # None

\* "A tombstoned (forgotten) cluster is never touched": nothing of it changes but by the
\* removal of its last remote.
TombstoneHolds ==
    [][\A f \in Clusters :
          Forgotten(f) /\ cluster'[f] # None =>
              /\ cluster'[f] = cluster[f]
              /\ \A n \in Nodes : member'[<<f, n>>] \in {member[<<f, n>>], None}]_cephVars

Reachable(m, f) == m \in Configured /\ m \in up /\ ceph[m] = f /\ ~Forgotten(f)
IsDetected(f) == cluster[f] # None /\ cluster[f].state = "detected"

\* A cluster behind a remote that stays configured and reachable is shown as detected
\* in the end, whatever a stale sweep or a late clean-up has made of it before.
DetectedInTheEnd ==
    \A m \in PveRemotes, f \in Clusters : <>[]Reachable(m, f) => <>[]IsDetected(f)

\* The comment on drop_pve_members_for_remote: it is called when a remote is deleted "so
\* the registry does not keep dangling member rows".  A row of a remote that is not
\* configured does not stay for ever.
NoRowDangles ==
    []<>(\A x \in DOMAIN member : member[x] # None => member[x] \in Configured)

=============================================================================
