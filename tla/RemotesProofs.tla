--------------------------- MODULE RemotesProofs ----------------------------
(***************************************************************************)
(* What is kept while many remotes are asked at once: the limits of the    *)
(* ParallelFetcher, for every number of remotes and nodes and every pair   *)
(* of limits; and the registry of Ceph clusters, for any number of         *)
(* remotes, nodes and clusters.                                            *)
(***************************************************************************)
EXTENDS ParallelFetcher, CephRegistry, FiniteSetTheorems, WellFoundedInduction, TLAPS

(***************************************************************************)
(* The ParallelFetcher.  ConnectionsBounded is not inductive: a node that  *)
(* is spawned must not be running already, and the permits of a remote     *)
(* must be counted too.                                                    *)
(***************************************************************************)

RunningOf(r) == {n \in FetchNodes : node[<<r, n>>] = "running"}

(* The permits of all semaphores are accounted for.                        *)
Counted ==
    /\ permits + Cardinality(Busy) + Cardinality(Running) = MaxConnections
    /\ \A r \in FetchRemotes \ Single :
          per_remote[r] + Cardinality(RunningOf(r)) = MaxConnectionsPerRemote

(* A node that is still to be spawned has not run, and a remote that is    *)
(* one node spawns none.                                                   *)
Unspawned ==
    \A r \in FetchRemotes :
        /\ \A n \in todo[r] : node[<<r, n>>] = "none"
        /\ task[r] \in {"start", "list"} => \A n \in FetchNodes : node[<<r, n>>] = "none"
        /\ r \in Single => todo[r] = {} /\ task[r] \in {"start", "list", "join", "done"}

FetchInv == FetchTypeOK /\ Counted /\ Unspawned

-----------------------------------------------------------------------------
(* Any set of tasks, of nodes or of both is finite, so its elements count. *)
LEMMA Finite ==
    /\ IsFiniteSet(Busy) /\ Cardinality(Busy) \in Nat
    /\ IsFiniteSet(Running) /\ Cardinality(Running) \in Nat
    /\ \A r \in FetchRemotes : IsFiniteSet(RunningOf(r)) /\ Cardinality(RunningOf(r)) \in Nat
<1>1. IsFiniteSet(Busy)
  BY FS_Subset, Limits DEF Busy
<1>2. IsFiniteSet(FetchRemotes \X FetchNodes)
  BY FS_Product, Limits
<1>3. IsFiniteSet(Running)
  BY <1>2, FS_Subset DEF Running
<1>4. \A r \in FetchRemotes : IsFiniteSet(RunningOf(r))
  BY FS_Subset, Limits, Zenon DEF RunningOf
<1> QED
  BY <1>1, <1>3, <1>4, FS_CardinalityType

(* A set with one more element counts one more.                            *)
LEMMA CountUp ==
    ASSUME NEW S, NEW x, IsFiniteSet(S), x \notin S
    PROVE  Cardinality(S \cup {x}) = Cardinality(S) + 1
BY FS_AddElement

(* A set with one element fewer counts one fewer.                          *)
LEMMA CountDown ==
    ASSUME NEW S, NEW x, IsFiniteSet(S), x \in S
    PROVE  Cardinality(S \ {x}) = Cardinality(S) - 1
BY FS_RemoveElement

(* A permit goes from the semaphore to a task (AcquirePermit, TakePermit).       *)
LEMMA PermitTaken ==
    ASSUME FetchInv, NEW r \in FetchRemotes, AcquirePermit(r) \/ TakePermit(r)
    PROVE  FetchInv'
<1> USE DEF FetchInv
<1>1. FetchTypeOK' /\ Unspawned'
  BY DEF FetchTypeOK, Unspawned, AcquirePermit, TakePermit, Holding
<1>2. Busy' = Busy \cup {r} /\ r \notin Busy
  BY DEF Busy, Holding, AcquirePermit, TakePermit, FetchTypeOK
<1>3. Running' = Running /\ \A q \in FetchRemotes : RunningOf(q)' = RunningOf(q)
  BY DEF Running, RunningOf, AcquirePermit, TakePermit
<1>4. Cardinality(Busy') = Cardinality(Busy) + 1
  BY <1>2, Finite, CountUp
<1>5. permits' = permits - 1 /\ per_remote' = per_remote
  BY DEF AcquirePermit, TakePermit
<1>6. Counted'
  BY <1>3, <1>4, <1>5, Finite DEF Counted, FetchTypeOK
<1> QED
  BY <1>1, <1>6

(* A task gives its permit back (ListFails, Join).                         *)
LEMMA PermitReturned ==
    ASSUME FetchInv, NEW r \in FetchRemotes, ListFails(r) \/ (Join(r) /\ task[r] = "empty")
    PROVE  FetchInv'
<1> USE DEF FetchInv
<1>1. FetchTypeOK' /\ Unspawned'
  BY DEF FetchTypeOK, Unspawned, ListFails, Join, Holding
<1>2. Busy' = Busy \ {r} /\ r \in Busy
  BY DEF Busy, Holding, ListFails, Join, FetchTypeOK
<1>3. Running' = Running /\ \A q \in FetchRemotes : RunningOf(q)' = RunningOf(q)
  BY DEF Running, RunningOf, ListFails, Join
<1>4. Cardinality(Busy') = Cardinality(Busy) - 1
  BY <1>2, Finite, CountDown
<1>5. permits' = permits + 1 /\ per_remote' = per_remote
  BY DEF ListFails, Join
<1>6. Counted'
  BY <1>3, <1>4, <1>5, Finite DEF Counted, FetchTypeOK
<1> QED
  BY <1>1, <1>6

(* A task keeps its permit while it lists the nodes (ListNodes).           *)
LEMMA PermitKept ==
    ASSUME FetchInv, NEW r \in FetchRemotes,
           (\E ns \in SUBSET FetchNodes : ListNodes(r, ns)) \/ (Join(r) /\ task[r] = "join")
    PROVE  FetchInv'
<1> USE DEF FetchInv
<1>1. FetchTypeOK' /\ Unspawned'
  BY DEF FetchTypeOK, Unspawned, ListNodes, Join, Holding
<1>2. Busy' = Busy
  BY DEF Busy, Holding, ListNodes, Join, FetchTypeOK
<1>3. Running' = Running /\ \A q \in FetchRemotes : RunningOf(q)' = RunningOf(q)
  BY DEF Running, RunningOf, ListNodes, Join
<1>5. permits' = permits /\ per_remote' = per_remote
  BY DEF ListNodes, Join
<1>6. Counted'
  BY <1>2, <1>3, <1>5 DEF Counted
<1> QED
  BY <1>1, <1>6

(* The task of a single node hands its permit to the call (CallSingle).    *)
LEMMA CallStep ==
    ASSUME FetchInv, NEW r \in FetchRemotes, CallSingle(r)
    PROVE  FetchInv'
<1> USE DEF FetchInv
<1>1. FetchTypeOK' /\ Unspawned'
  BY Limits DEF FetchTypeOK, Unspawned, CallSingle, Holding
<1>2. Busy' = Busy \ {r} /\ r \in Busy
  BY DEF Busy, Holding, CallSingle, FetchTypeOK
<1>3. Running' = Running \cup {<<r, Localhost>>} /\ <<r, Localhost>> \notin Running
  BY Limits DEF Running, CallSingle, FetchTypeOK, Unspawned
<1>4. \A q \in FetchRemotes \ Single : RunningOf(q)' = RunningOf(q)
  BY DEF RunningOf, CallSingle, FetchTypeOK
<1>5. Cardinality(Busy') = Cardinality(Busy) - 1 /\ Cardinality(Running') = Cardinality(Running) + 1
  BY <1>2, <1>3, Finite, CountUp, CountDown
<1>6. permits' = permits /\ per_remote' = per_remote
  BY DEF CallSingle
<1>7. permits' + Cardinality(Busy') + Cardinality(Running') = MaxConnections
  BY <1>5, <1>6, Finite DEF Counted, FetchTypeOK
<1>8. Counted'
  BY <1>4, <1>6, <1>7 DEF Counted
<1> QED
  BY <1>1, <1>8

(* A task hands its permit to the node it spawns, with one of the remote's. *)
LEMMA SpawnStep ==
    ASSUME FetchInv, NEW r \in FetchRemotes, NEW n \in FetchNodes, SpawnNode(r, n)
    PROVE  FetchInv'
<1> USE DEF FetchInv
<1>0. <<r, n>> \in FetchRemotes \X FetchNodes /\ node[<<r, n>>] = "none" /\ r \notin Single
  BY DEF SpawnNode, Unspawned
<1>1. FetchTypeOK'
  BY DEF FetchTypeOK, SpawnNode, Holding
<1>2. Unspawned'
  BY DEF FetchTypeOK, Unspawned, SpawnNode, Holding
<1>3. Busy' = Busy \ {r} /\ r \in Busy
  BY DEF Busy, Holding, SpawnNode, FetchTypeOK
<1>4. Running' = Running \cup {<<r, n>>} /\ <<r, n>> \notin Running
  BY <1>0 DEF Running, SpawnNode, FetchTypeOK
<1>5. /\ RunningOf(r)' = RunningOf(r) \cup {n} /\ n \notin RunningOf(r)
      /\ \A q \in FetchRemotes \ {r} : RunningOf(q)' = RunningOf(q)
  BY <1>0 DEF RunningOf, SpawnNode, FetchTypeOK
<1>6. /\ Cardinality(Busy') = Cardinality(Busy) - 1
      /\ Cardinality(Running') = Cardinality(Running) + 1
      /\ Cardinality(RunningOf(r)') = Cardinality(RunningOf(r)) + 1
  BY <1>3, <1>4, <1>5, Finite, CountUp, CountDown
<1>7. permits' = permits /\ per_remote' = [per_remote EXCEPT ![r] = @ - 1]
  BY DEF SpawnNode
<1>8. permits' + Cardinality(Busy') + Cardinality(Running') = MaxConnections
  BY <1>6, <1>7, Finite DEF Counted, FetchTypeOK
<1>9. ASSUME NEW q \in FetchRemotes \ Single
      PROVE  per_remote'[q] + Cardinality(RunningOf(q)') = MaxConnectionsPerRemote
  <2>1. CASE q = r
    <3>1. per_remote'[r] = per_remote[r] - 1
      BY <1>7 DEF FetchTypeOK
    <3> QED
      BY <1>6, <2>1, <3>1, Finite DEF Counted, FetchTypeOK
  <2>2. CASE q # r
    <3>1. per_remote'[q] = per_remote[q]
      BY <1>7, <2>2 DEF FetchTypeOK
    <3> QED
      BY <1>5, <2>2, <3>1 DEF Counted
  <2> QED
    BY <2>1, <2>2
<1> QED
  BY <1>1, <1>2, <1>8, <1>9 DEF Counted

(* A node's task ends, and with it both its permits are free again.        *)
LEMMA NodeEndStep ==
    ASSUME FetchInv, NEW r \in FetchRemotes, NEW n \in FetchNodes, NodeStep(r, n)
    PROVE  FetchInv'
<1> USE DEF FetchInv
<1>0. PICK how \in {"ok", "error", "lost"} : NodeEnds(r, n, how)
  BY DEF NodeStep
<1>1. <<r, n>> \in FetchRemotes \X FetchNodes /\ node[<<r, n>>] = "running"
  BY <1>0 DEF NodeEnds
<1>2. FetchTypeOK'
  BY <1>0 DEF FetchTypeOK, NodeEnds
<1>3. Unspawned'
  BY <1>0, <1>1 DEF FetchTypeOK, Unspawned, NodeEnds
<1>4. Busy' = Busy
  BY <1>0 DEF Busy, NodeEnds
<1>5. Running' = Running \ {<<r, n>>} /\ <<r, n>> \in Running
  BY <1>0, <1>1 DEF Running, NodeEnds, FetchTypeOK
<1>6. /\ RunningOf(r)' = RunningOf(r) \ {n} /\ n \in RunningOf(r)
      /\ \A q \in FetchRemotes \ {r} : RunningOf(q)' = RunningOf(q)
  BY <1>0, <1>1 DEF RunningOf, NodeEnds, FetchTypeOK
<1>7. /\ Cardinality(Running') = Cardinality(Running) - 1
      /\ Cardinality(RunningOf(r)') = Cardinality(RunningOf(r)) - 1
  BY <1>5, <1>6, Finite, CountDown
<1>8. permits' + Cardinality(Busy') + Cardinality(Running') = MaxConnections
  BY <1>0, <1>4, <1>7, Finite DEF Counted, FetchTypeOK, NodeEnds
<1>9. ASSUME NEW q \in FetchRemotes \ Single
      PROVE  per_remote'[q] + Cardinality(RunningOf(q)') = MaxConnectionsPerRemote
  <2>1. CASE q = r
    <3>1. per_remote'[r] = per_remote[r] + 1
      BY <1>0, <2>1 DEF NodeEnds, FetchTypeOK
    <3> QED
      BY <1>7, <2>1, <3>1, Finite DEF Counted, FetchTypeOK
  <2>2. CASE q # r
    <3>1. per_remote'[q] = per_remote[q]
      BY <1>0, <2>2 DEF NodeEnds, FetchTypeOK
    <3> QED
      BY <1>6, <2>2, <3>1 DEF Counted
  <2> QED
    BY <2>1, <2>2
<1> QED
  BY <1>2, <1>3, <1>8, <1>9 DEF Counted

(* Before the first step all permits are free.                             *)
LEMMA FetchInvInit == FetchInit => FetchInv
<1> SUFFICES ASSUME FetchInit PROVE FetchInv
  OBVIOUS
<1>1. FetchTypeOK /\ Unspawned
  BY Limits DEF FetchInit, FetchTypeOK, Unspawned, Holding
<1>2. Busy = {} /\ Running = {} /\ \A r \in FetchRemotes : RunningOf(r) = {}
  BY DEF FetchInit, Busy, Running, RunningOf, Holding
<1>3. permits = MaxConnections /\ \A r \in FetchRemotes : per_remote[r] = MaxConnectionsPerRemote
  BY DEF FetchInit
<1>4. Cardinality(Busy) = 0 /\ Cardinality(Running) = 0
      /\ \A r \in FetchRemotes : Cardinality(RunningOf(r)) = 0
  BY <1>2, FS_EmptySet
<1>5. Counted
  BY <1>3, <1>4, Limits DEF Counted
<1> QED
  BY <1>1, <1>5 DEF FetchInv

(* Every step of a task or of a node keeps the permits accounted for.      *)
LEMMA FetchInvStep == FetchInv /\ [FetchNext]_fetchVars => FetchInv'
<1> SUFFICES ASSUME FetchInv, [FetchNext]_fetchVars PROVE FetchInv'
  OBVIOUS
<1>1. CASE UNCHANGED fetchVars
  <2>1. FetchTypeOK' /\ Unspawned' /\ Counted'
    BY <1>1 DEF FetchInv, FetchTypeOK, Unspawned, Counted, Busy, Running, RunningOf, fetchVars
  <2> QED
    BY <2>1 DEF FetchInv
<1>2. CASE FetchNext
  <2>1. PICK r \in FetchRemotes : FetchStep(r) \/ \E n \in FetchNodes : NodeStep(r, n)
    BY <1>2 DEF FetchNext
  <2>2. CASE \E n \in FetchNodes : NodeStep(r, n)
    BY <2>2, NodeEndStep
  <2>3. CASE AcquirePermit(r) \/ TakePermit(r)
    BY <2>3, PermitTaken
  <2>4. CASE ListFails(r)
    BY <2>4, PermitReturned
  <2>5. CASE CallSingle(r)
    BY <2>5, CallStep
  <2>6. CASE Join(r)
    <3>1. task[r] = "empty" \/ task[r] = "join"
      BY <2>6 DEF Join
    <3> QED
      BY <2>6, <3>1, PermitReturned, PermitKept
  <2>7. CASE \E ns \in SUBSET FetchNodes : ListNodes(r, ns)
    BY <2>7, PermitKept
  <2>8. CASE \E n \in FetchNodes : SpawnNode(r, n)
    BY <2>8, SpawnStep
  <2> QED
    BY <2>1, <2>2, <2>3, <2>4, <2>5, <2>6, <2>7, <2>8 DEF FetchStep
<1> QED
  BY <1>1, <1>2

(* For every number of remotes and nodes and every pair of limits, the     *)
(* connections of a run never exceed max_connections, those to one remote  *)
(* never max_connections_per_remote, and no permit is lost.                *)
THEOREM LimitsHold == FetchSpec => []ConnectionsBounded
<1>1. FetchInv => ConnectionsBounded
  <2> SUFFICES ASSUME FetchInv PROVE ConnectionsBounded
    OBVIOUS
  <2>1. ASSUME NEW r \in FetchRemotes \ Single
        PROVE  Cardinality({n \in FetchNodes : node[<<r, n>>] = "running"}) <= MaxConnectionsPerRemote
    <3>1. per_remote[r] + Cardinality(RunningOf(r)) = MaxConnectionsPerRemote
      BY DEF FetchInv, Counted
    <3>2. per_remote[r] \in Nat /\ Cardinality(RunningOf(r)) \in Nat
      BY Finite DEF FetchInv, FetchTypeOK
    <3>3. Cardinality(RunningOf(r)) <= MaxConnectionsPerRemote
      BY <3>1, <3>2, Limits
    <3> QED
      BY <3>3 DEF RunningOf
  <2> QED
    BY <2>1 DEF FetchInv, Counted, ConnectionsBounded
<1> QED
  BY <1>1, FetchInvInit, FetchInvStep, PTL DEF FetchSpec

-----------------------------------------------------------------------------
(***************************************************************************)
(* The registry of Ceph clusters: clusters and members stay together, and  *)
(* a cluster that an administrator forgot stays forgotten while its        *)
(* remotes are configured.                                                 *)
(***************************************************************************)

\* A set of natural numbers that is not empty has a least one.
LEMMA LeastExists ==
    ASSUME NEW D \in SUBSET Nat, D # {}
    PROVE  \E n \in D : \A k \in D : n <= k
<1>. DEFINE R == OpToRel(<, Nat)
<1>1. IsWellFoundedOn(R, Nat)
    BY NatLessThanWellFounded, Zenon
<1>2. \E n \in D : \A k \in D : <<k, n>> \notin R
    <2>. HIDE DEF R
    <2>. QED  BY <1>1, WFMin, Zenon
<1>3. PICK n \in D : \A k \in D : <<k, n>> \notin R
    BY <1>2, Zenon
<1>4. ASSUME NEW k \in D PROVE n <= k
    <2>1. n \in Nat /\ k \in Nat /\ <<k, n>> \notin R
        <3>. HIDE DEF R
        <3>. QED  BY <1>3
    <2>2. ~(k < n)
        BY <2>1 DEF OpToRel
    <2>. HIDE DEF R
    <2>. QED  BY <2>1, <2>2
<1>. QED  BY <1>4

(***************************************************************************)
(* The invariant: what a sweep has found it has found at a remote of its  *)
(* list, and a probe that found a cluster names a monitor of it, so that   *)
(* an upsert enters a member with the cluster.                             *)
(***************************************************************************)
Outcomes == Finds \cup NoFind

RegistryTypes ==
    /\ ceph \in [PveRemotes -> Clusters \cup {None}]
    /\ quorum \in [Clusters -> (SUBSET Nodes) \ {{}}]
    /\ remotes \in Seq(PveRemotes)
    /\ cluster \in [Clusters -> Sections \cup {None}]
    /\ member \in [Clusters \X Nodes -> PveRemotes \cup {None}]
    /\ sweep \in [on : BOOLEAN, order : Seq(PveRemotes),
                  outcome : [PveRemotes -> Outcomes \cup {None}]]
    /\ detect \in [PveRemotes -> Outcomes \cup {None, Probing}]

\* Every outcome is that of a remote in the list.
Listed(order, outcome) ==
    \A m \in PveRemotes : outcome[m] # None => \E i \in DOMAIN order : order[i] = m

RegistryInv ==
    /\ RegistryTypes
    /\ Listed(sweep.order, sweep.outcome)
    /\ ClustersHaveMembers

\* probe_remote returns an outcome.
LEMMA ProbeOutcome ==
    ASSUME RegistryTypes, NEW m \in PveRemotes
    PROVE  Probe(m) \in Outcomes
<1>1. CASE m \in Configured \cap up /\ ceph[m] # None
    <2>1. ceph[m] \in Clusters /\ quorum[ceph[m]] \in (SUBSET Nodes) \ {{}}
        BY <1>1, SMTT(20) DEF RegistryTypes
    <2>. QED  BY <1>1, <2>1 DEF Probe, Outcomes, Finds
<1>2. CASE ~(m \in Configured \cap up /\ ceph[m] # None)
    BY <1>2 DEF Probe, Outcomes, NoFind
<1>. QED  BY <1>1, <1>2

\* upsert_cluster enters a member with every cluster that was found, keeps the members
\* that are registered, and leaves the clusters alone that it does not upsert.
LEMMA Upserts ==
    ASSUME RegistryTypes, NEW order \in Seq(PveRemotes),
           NEW outcome \in [PveRemotes -> Outcomes \cup {None}], Listed(order, outcome)
    PROVE  /\ UpsertMembers(order, outcome) \in [Clusters \X Nodes -> PveRemotes \cup {None}]
           /\ \A f \in Clusters \ Upserted(outcome), n \in Nodes :
                  UpsertMembers(order, outcome)[<<f, n>>] = member[<<f, n>>]
           /\ \A f \in Upserted(outcome) :
                  \E n \in Nodes : UpsertMembers(order, outcome)[<<f, n>>] # None
<1>. DEFINE named(x) == {i \in DOMAIN order :
                            outcome[order[i]].fsid = x[1] /\ x[2] \in outcome[order[i]].nodes}
            new(x) == IF member[x] # None \/ x[1] \notin Upserted(outcome) \/ named(x) = {}
                      THEN member[x]
                      ELSE order[CHOOSE i \in named(x) : \A j \in named(x) : i <= j]
<1>1. /\ UpsertMembers(order, outcome) = [x \in DOMAIN member |-> new(x)]
      /\ DOMAIN member = Clusters \X Nodes
    BY DEF UpsertMembers, RegistryTypes
<1>2. ASSUME NEW x \in Clusters \X Nodes, named(x) # {}
      PROVE  order[CHOOSE i \in named(x) : \A j \in named(x) : i <= j] \in PveRemotes
    <2>1. named(x) \in SUBSET Nat /\ named(x) \subseteq DOMAIN order
        OBVIOUS
    <2>2. \E i \in named(x) : \A j \in named(x) : i <= j
        <3>. HIDE DEF named
        <3>. QED  BY <1>2, <2>1, LeastExists
    <2>. HIDE DEF named
    <2>. QED  BY <2>1, <2>2
<1>3. ASSUME NEW x \in Clusters \X Nodes PROVE new(x) \in PveRemotes \cup {None}
    <2>1. member[x] \in PveRemotes \cup {None}
        BY DEF RegistryTypes
    <2>. HIDE DEF named
    <2>. QED  BY <1>2, <2>1, Zenon
<1>. HIDE DEF named
<1>4. ASSUME NEW f \in Clusters \ Upserted(outcome), NEW n \in Nodes
      PROVE  UpsertMembers(order, outcome)[<<f, n>>] = member[<<f, n>>]
    BY <1>1, Zenon
<1>5. ASSUME NEW f \in Upserted(outcome)
      PROVE  \E n \in Nodes : UpsertMembers(order, outcome)[<<f, n>>] # None
    <2>1. f \in Clusters /\ Found(f, outcome)
        BY DEF Upserted
    <2>2. PICK m \in PveRemotes : outcome[m] # None /\ outcome[m].fsid = f
        BY <2>1 DEF Found
    <2>3. PICK i \in DOMAIN order : order[i] = m
        BY <2>2 DEF Listed
    <2>4. outcome[m] \in Finds
        BY <2>1, <2>2, CephAssumption DEF Outcomes, NoFind
    <2>. DEFINE ns == outcome[m].nodes
    <2>5. ns \subseteq Nodes /\ ns # {}
        BY <2>4 DEF Finds
    <2>6. PICK n \in Nodes : n \in ns
        <3>. HIDE DEF ns
        <3>. QED  BY <2>5
    <2>. DEFINE x == <<f, n>>
    <2>7. x \in Clusters \X Nodes /\ x[1] = f /\ x[2] = n
        BY <2>1
    <2>8. i \in named(x)
        BY <2>2, <2>3, <2>6, <2>7, Zenon DEF named
    <2>. HIDE DEF x
    <2>9. \/ new(x) = member[x] /\ member[x] # None
          \/ new(x) = order[CHOOSE k \in named(x) : \A j \in named(x) : k <= j]
        BY <2>7, <2>8
    <2>10. new(x) # None
        <3>. HIDE DEF new
        <3>. QED  BY <1>2, <2>7, <2>8, <2>9, CephAssumption, Zenon
    <2>11. UpsertMembers(order, outcome)[x] = new(x)
        <3>. HIDE DEF new
        <3>. QED  BY <1>1, <2>7
    <2>. HIDE DEF new
    <2>. QED  BY <2>10, <2>11, Zenon DEF x
<1>. QED  BY <1>1, <1>3, <1>4, <1>5, Zenon

\* An update of the registry with what was found: a cluster that is upserted has a
\* member, the others are registered as before, and a forgotten one is not touched.
LEMMA RegistryUpdate ==
    ASSUME RegistryInv, NEW order \in Seq(PveRemotes),
           NEW outcome \in [PveRemotes -> Outcomes \cup {None}], Listed(order, outcome),
           member' = UpsertMembers(order, outcome),
           NEW old, cluster' = [f \in Clusters |-> IF f \in Upserted(outcome) THEN Detected ELSE old[f]],
           \A f \in Clusters :
               /\ old[f] \in Sections \cup {None} /\ (old[f] = None <=> cluster[f] = None)
               /\ Forgotten(f) => old[f] = cluster[f]
    PROVE  /\ member' \in [Clusters \X Nodes -> PveRemotes \cup {None}]
           /\ cluster' \in [Clusters -> Sections \cup {None}]
           /\ ClustersHaveMembers'
           /\ \A f \in Clusters : Forgotten(f) =>
                  cluster'[f] = cluster[f] /\ \A n \in Nodes : member'[<<f, n>>] = member[<<f, n>>]
<1>1. /\ member' \in [Clusters \X Nodes -> PveRemotes \cup {None}]
      /\ \A f \in Clusters \ Upserted(outcome), n \in Nodes : member'[<<f, n>>] = member[<<f, n>>]
      /\ \A f \in Upserted(outcome) : \E n \in Nodes : member'[<<f, n>>] # None
    BY Upserts, ZenonT(60) DEF RegistryInv
<1>2. Detected \in Sections /\ Detected # None
    <2>1. Detected \in Sections
        BY Zenon DEF Detected, Sections
    <2>. QED  BY <2>1, CephAssumption, Zenon
<1>3. \A f \in Clusters : cluster'[f] = IF f \in Upserted(outcome) THEN Detected ELSE old[f]
    BY Zenon
<1>4. cluster' \in [Clusters -> Sections \cup {None}]
    BY <1>2
<1>5. ASSUME NEW f \in Clusters
      PROVE  cluster'[f] # None <=> \E n \in Nodes : member'[<<f, n>>] # None
    <2>1. CASE f \in Upserted(outcome)
        BY <1>1, <1>2, <1>3, <2>1
    <2>2. CASE f \notin Upserted(outcome)
        <3>1. cluster[f] # None <=> \E n \in Nodes : member[<<f, n>>] # None
            BY DEF RegistryInv, ClustersHaveMembers
        <3>2. \A n \in Nodes : member'[<<f, n>>] = member[<<f, n>>]
            BY <1>1, <2>2, Zenon
        <3>3. cluster'[f] # None <=> cluster[f] # None
            BY <1>3, <2>2
        <3>. QED  BY <3>1, <3>2, <3>3, Zenon
    <2>. QED  BY <2>1, <2>2
<1>6. ASSUME NEW f \in Clusters, Forgotten(f)
      PROVE  cluster'[f] = cluster[f] /\ \A n \in Nodes : member'[<<f, n>>] = member[<<f, n>>]
    <2>1. f \notin Upserted(outcome)
        BY <1>6 DEF Upserted
    <2>. QED  BY <1>1, <1>3, <1>6, <2>1, SMTT(20)
<1>. QED  BY <1>1, <1>4, <1>5, <1>6, Zenon DEF ClustersHaveMembers

\* The promise of TombstoneHolds for one cluster.
Untouched(f) ==
    Forgotten(f) /\ cluster'[f] # None =>
        /\ cluster'[f] = cluster[f]
        /\ \A n \in Nodes : member'[<<f, n>>] \in {member[<<f, n>>], None}

Kempt == RegistryInv' /\ \A f \in Clusters : Untouched(f)

\* The steps that do not write the registry.
LEMMA SameRegistry ==
    ASSUME RegistryInv, UNCHANGED <<cluster, member>>, RegistryTypes',
           Listed(sweep'.order, sweep'.outcome)
    PROVE  Kempt
BY DEF RegistryInv, ClustersHaveMembers, Untouched, Listed, Kempt

\* What happens to the remotes: neither the sweep nor the registry sees it yet.
LEMMA WorldSteps ==
    ASSUME RegistryInv,
           \/ UNCHANGED cephVars \/ CleanUpFails
           \/ \E m \in PveRemotes : Flip(m) \/ \E f \in Clusters \cup {None} : ChangeCeph(m, f)
           \/ \E f \in Clusters, q \in (SUBSET Nodes) \ {{}} : ChangeQuorum(f, q)
    PROVE  Kempt
<1>1. UNCHANGED <<remotes, cluster, member, sweep, detect>>
    BY Zenon DEF cephVars, CleanUpFails, Rest, Flip, ChangeCeph, ChangeQuorum
<1>2. ceph' \in [PveRemotes -> Clusters \cup {None}]
    BY DEF cephVars, CleanUpFails, Rest, Flip, ChangeCeph, ChangeQuorum, RegistryInv, RegistryTypes
<1>3. quorum' \in [Clusters -> (SUBSET Nodes) \ {{}}]
    BY Zenon DEF cephVars, CleanUpFails, Rest, Flip, ChangeCeph, ChangeQuorum, RegistryInv, RegistryTypes
<1>4. RegistryTypes'
    BY <1>1, <1>2, <1>3, Zenon DEF RegistryInv, RegistryTypes
<1>. QED  BY <1>1, <1>4, SameRegistry DEF RegistryInv

\* The probes of the sweep and of the detections take no lock and write nothing.
LEMMA ProbeSteps ==
    ASSUME RegistryInv,
           \/ SweepStarts \/ SweepFails
           \/ \E m \in PveRemotes : SweepProbes(m) \/ DetectProbes(m) \/ DetectFails(m)
    PROVE  Kempt
<1>1. UNCHANGED <<ceph, quorum, remotes, cluster, member>>
    BY Zenon DEF SweepStarts, SweepFails, SweepProbes, DetectProbes, DetectFails, Quiet
<1>2. detect' \in [PveRemotes -> Outcomes \cup {None, Probing}]
    BY ProbeOutcome DEF SweepStarts, SweepFails, SweepProbes, DetectProbes, DetectFails,
       RegistryInv, RegistryTypes
<1>3. ASSUME sweep' \in [on : BOOLEAN, order : Seq(PveRemotes),
                         outcome : [PveRemotes -> Outcomes \cup {None}]],
             Listed(sweep'.order, sweep'.outcome)
      PROVE  Kempt
    <2>1. RegistryTypes'
        BY <1>1, <1>2, <1>3 DEF RegistryInv, RegistryTypes
    <2>. QED  BY <1>1, <1>3, <2>1, SameRegistry
<1>. DEFINE nothing == [m \in PveRemotes |-> None]
<1>4. nothing \in [PveRemotes -> Outcomes \cup {None}] /\ \A m \in PveRemotes : nothing[m] = None
    OBVIOUS
<1>. HIDE DEF nothing
<1>5. Asleep = [on |-> FALSE, order |-> <<>>, outcome |-> nothing]
    BY DEF Asleep, nothing
<1>6. CASE SweepStarts
    <2>1. sweep' \in [on : {TRUE}, order : {remotes}, outcome : {nothing}]
        BY <1>5, <1>6, Zenon DEF SweepStarts
    <2>2. remotes \in Seq(PveRemotes)
        BY DEF RegistryInv, RegistryTypes
    <2>3. Listed(sweep'.order, sweep'.outcome)
        BY <1>4, <2>1 DEF Listed
    <2>. QED  BY <1>3, <1>4, <2>1, <2>2, <2>3, Zenon
<1>7. CASE SweepFails
    <2>1. sweep' = Asleep
        BY <1>7 DEF SweepFails
    <2>2. Listed(sweep'.order, sweep'.outcome)
        BY <1>4, <1>5, <2>1 DEF Listed
    <2>. QED  BY <1>3, <1>4, <1>5, <2>1, <2>2
<1>8. ASSUME NEW m \in PveRemotes, SweepProbes(m) PROVE Kempt
    <2>. DEFINE new == [sweep.outcome EXCEPT ![m] = Probe(m)]
    <2>1. /\ sweep \in [on : BOOLEAN, order : Seq(PveRemotes),
                        outcome : [PveRemotes -> Outcomes \cup {None}]]
          /\ Listed(sweep.order, sweep.outcome) /\ Probe(m) \in Outcomes
        BY ProbeOutcome, Zenon DEF RegistryInv, RegistryTypes
    <2>2. \E i \in DOMAIN sweep.order : sweep.order[i] = m
        BY <1>8 DEF SweepProbes
    <2>3. /\ new \in [PveRemotes -> Outcomes \cup {None}]
          /\ \A n \in PveRemotes \ {m} : new[n] = sweep.outcome[n]
        BY <2>1
    <2>4. Listed(sweep.order, new)
        <3>. HIDE DEF new
        <3>. QED  BY <2>1, <2>2, <2>3 DEF Listed
    <2>5. sweep' = [sweep EXCEPT !.outcome = new]
        BY <1>8 DEF SweepProbes
    <2>. HIDE DEF new
    <2>6. sweep' \in [on : BOOLEAN, order : {sweep.order}, outcome : {new}]
        BY <2>1, <2>5, Zenon
    <2>. QED  BY <1>3, <2>1, <2>3, <2>4, <2>6, SMTT(20)
<1>9. ASSUME NEW m \in PveRemotes, DetectProbes(m) \/ DetectFails(m) PROVE Kempt
    <2>1. sweep' = sweep
        BY <1>9 DEF DetectProbes, DetectFails
    <2>. QED  BY <1>3, <2>1 DEF RegistryInv, RegistryTypes
<1>. QED  BY <1>6, <1>7, <1>8, <1>9

\* add_remote and remove_remote change the list of the remotes, not the registry.
LEMMA ConfigSteps ==
    ASSUME RegistryInv, NEW m \in PveRemotes, AddRemote(m) \/ RemoveRemote(m)
    PROVE  Kempt
<1>1. UNCHANGED <<ceph, quorum, cluster, member, sweep>>
    BY DEF AddRemote, RemoveRemote, Rest
<1>2. detect' \in [PveRemotes -> Outcomes \cup {None, Probing}]
    BY SMTT(20) DEF AddRemote, RemoveRemote, RegistryInv, RegistryTypes
<1>3. remotes \in Seq(PveRemotes)
    BY DEF RegistryInv, RegistryTypes
<1>4. remotes' \in Seq(PveRemotes)
    <2>1. CASE AddRemote(m)
        BY <1>3, <2>1 DEF AddRemote
    <2>2. CASE RemoveRemote(m)
        <3>1. PICK i \in DOMAIN remotes :
                  remotes' = SubSeq(remotes, 1, i - 1) \o SubSeq(remotes, i + 1, Len(remotes))
            BY <2>2, Zenon DEF RemoveRemote
        <3>2. /\ SubSeq(remotes, 1, i - 1) \in Seq(PveRemotes)
              /\ SubSeq(remotes, i + 1, Len(remotes)) \in Seq(PveRemotes)
            BY <1>3
        <3>. QED  BY <3>1, <3>2
    <2>. QED  BY <2>1, <2>2
<1>5. RegistryTypes'
    BY <1>1, <1>2, <1>4 DEF RegistryInv, RegistryTypes
<1>. QED  BY <1>1, <1>5, SameRegistry, Zenon DEF RegistryInv

\* A cluster that was not found is demoted or left as it is, and stays registered.
LEMMA Demotion ==
    ASSUME RegistryTypes, NEW f \in Clusters, NEW members, NEW outcome
    PROVE  /\ Reconciled(f, members, outcome) \in Sections \cup {None}
           /\ Reconciled(f, members, outcome) = None <=> cluster[f] = None
           /\ Forgotten(f) => Reconciled(f, members, outcome) = cluster[f]
<1>1. CASE cluster[f] = None \/ Forgotten(f) \/ Probed(f, members, outcome) = {}
    BY <1>1 DEF Reconciled, RegistryTypes
<1>2. CASE ~(cluster[f] = None \/ Forgotten(f) \/ Probed(f, members, outcome) = {})
    <2>1. cluster[f] \in Sections
        BY <1>2 DEF RegistryTypes
    <2>2. /\ [cluster[f] EXCEPT !.state = "unreachable"] \in Sections
          /\ [cluster[f] EXCEPT !.state = "gone", !.missing = TRUE] \in Sections
        BY <2>1, Zenon DEF Sections
    <2>3. Reconciled(f, members, outcome) \in Sections
        BY <1>2, <2>2 DEF Reconciled
    <2>. QED  BY <1>2, <2>3, CephAssumption
<1>. QED  BY <1>1, <1>2

\* The steps that write the registry with what was found.
LEMMA UpsertSteps ==
    ASSUME RegistryInv, SweepEnds \/ \E m \in PveRemotes : DetectUpserts(m)
    PROVE  Kempt
<1>1. UNCHANGED <<ceph, quorum, remotes>>
    BY Zenon DEF SweepEnds, DetectUpserts, Quiet
<1>2. ASSUME sweep' \in [on : BOOLEAN, order : Seq(PveRemotes),
                         outcome : [PveRemotes -> Outcomes \cup {None}]],
             Listed(sweep'.order, sweep'.outcome),
             detect' \in [PveRemotes -> Outcomes \cup {None, Probing}],
             member' \in [Clusters \X Nodes -> PveRemotes \cup {None}],
             cluster' \in [Clusters -> Sections \cup {None}], ClustersHaveMembers',
             \A f \in Clusters : Forgotten(f) =>
                  cluster'[f] = cluster[f] /\ \A n \in Nodes : member'[<<f, n>>] = member[<<f, n>>]
      PROVE  Kempt
    <2>1. RegistryTypes'
        BY <1>1, <1>2, ZenonT(60) DEF RegistryInv, RegistryTypes
    <2>. QED  BY <1>2, <2>1 DEF RegistryInv, Kempt, Untouched
<1>3. CASE SweepEnds
    <2>. DEFINE order == sweep.order
                outcome == sweep.outcome
                old == [f \in Clusters |-> IF Found(f, outcome) THEN cluster[f]
                                           ELSE Reconciled(f, member', outcome)]
    <2>1. /\ order \in Seq(PveRemotes) /\ outcome \in [PveRemotes -> Outcomes \cup {None}]
          /\ Listed(order, outcome)
        BY DEF RegistryInv, RegistryTypes
    <2>2. /\ member' = UpsertMembers(order, outcome) /\ sweep' = Asleep /\ detect' = detect
          /\ cluster' = [f \in Clusters |-> IF f \in Upserted(outcome) THEN Detected ELSE old[f]]
        BY <1>3, SMTT(20) DEF SweepEnds
    <2>3. ASSUME NEW f \in Clusters
          PROVE  /\ old[f] \in Sections \cup {None} /\ (old[f] = None <=> cluster[f] = None)
                 /\ Forgotten(f) => old[f] = cluster[f]
        <3>1. cluster[f] \in Sections \cup {None} /\ RegistryTypes
            BY Zenon DEF RegistryInv, RegistryTypes
        <3>2. CASE Found(f, outcome)
            BY <3>1, <3>2, Zenon
        <3>3. CASE ~Found(f, outcome)
            <4>1. old[f] = Reconciled(f, member', outcome)
                BY <3>3, Zenon
            <4>. QED  BY <3>1, <4>1, Demotion, Zenon
        <3>. QED  BY <3>2, <3>3, Zenon
    <2>. HIDE DEF old, order, outcome
    <2>4. /\ member' \in [Clusters \X Nodes -> PveRemotes \cup {None}]
          /\ cluster' \in [Clusters -> Sections \cup {None}]
          /\ ClustersHaveMembers'
          /\ \A f \in Clusters : Forgotten(f) =>
                 cluster'[f] = cluster[f] /\ \A n \in Nodes : member'[<<f, n>>] = member[<<f, n>>]
        BY <2>1, <2>2, <2>3, RegistryUpdate, ZenonT(60)
    <2>5. /\ sweep' \in [on : BOOLEAN, order : Seq(PveRemotes),
                         outcome : [PveRemotes -> Outcomes \cup {None}]]
          /\ Listed(sweep'.order, sweep'.outcome)
        BY <2>2 DEF Asleep, Listed
    <2>. QED  BY <1>2, <2>2, <2>4, <2>5, Zenon DEF RegistryInv, RegistryTypes
<1>4. ASSUME NEW m \in PveRemotes, DetectUpserts(m) PROVE Kempt
    <2>. DEFINE outcome == [n \in PveRemotes |-> IF n = m THEN detect[m] ELSE None]
    <2>1. detect[m] \in Outcomes
        BY <1>4 DEF DetectUpserts, RegistryInv, RegistryTypes
    <2>2. /\ <<m>> \in Seq(PveRemotes) /\ outcome \in [PveRemotes -> Outcomes \cup {None}]
          /\ Listed(<<m>>, outcome)
        BY <2>1 DEF Listed
    <2>3. /\ member' = UpsertMembers(<<m>>, outcome) /\ sweep' = sweep
          /\ detect' = [detect EXCEPT ![m] = None]
          /\ cluster' = [f \in Clusters |-> IF f \in Upserted(outcome) THEN Detected ELSE cluster[f]]
        BY <1>4 DEF DetectUpserts
    <2>4. \A f \in Clusters : cluster[f] \in Sections \cup {None}
        BY DEF RegistryInv, RegistryTypes
    <2>. HIDE DEF outcome
    <2>5. /\ member' \in [Clusters \X Nodes -> PveRemotes \cup {None}]
          /\ cluster' \in [Clusters -> Sections \cup {None}]
          /\ ClustersHaveMembers'
          /\ \A f \in Clusters : Forgotten(f) =>
                 cluster'[f] = cluster[f] /\ \A n \in Nodes : member'[<<f, n>>] = member[<<f, n>>]
        BY <2>2, <2>3, <2>4, RegistryUpdate, Zenon
    <2>6. detect' \in [PveRemotes -> Outcomes \cup {None, Probing}]
        BY <2>3 DEF RegistryInv, RegistryTypes
    <2>. QED  BY <1>2, <2>3, <2>5, <2>6, Zenon DEF RegistryInv, RegistryTypes
<1>. QED  BY <1>3, <1>4

\* on_remote_removed drops the members of the remote, and the clusters that are left
\* without any.
LEMMA CleanUpStep ==
    ASSUME RegistryInv, CleanUp
    PROVE  Kempt
<1>1. /\ UNCHANGED <<ceph, quorum, remotes, sweep, detect>>
      /\ member' = [x \in DOMAIN member |-> IF member[x] = removing THEN None ELSE member[x]]
      /\ cluster' = [f \in Clusters |->
                       IF \A n \in Nodes : member'[<<f, n>>] = None THEN None ELSE cluster[f]]
    BY DEF CleanUp, Quiet
<1>2. member \in [Clusters \X Nodes -> PveRemotes \cup {None}]
      /\ cluster \in [Clusters -> Sections \cup {None}]
    BY DEF RegistryInv, RegistryTypes
<1>3. /\ member' \in [Clusters \X Nodes -> PveRemotes \cup {None}]
      /\ cluster' \in [Clusters -> Sections \cup {None}]
    BY <1>1, <1>2
<1>4. \A x \in Clusters \X Nodes : member'[x] \in {member[x], None}
    BY <1>1, <1>2
<1>5. \A f \in Clusters, n \in Nodes : member'[<<f, n>>] \in {member[<<f, n>>], None}
    BY <1>4
<1>6. ASSUME NEW f \in Clusters
      PROVE  cluster'[f] # None <=> \E n \in Nodes : member'[<<f, n>>] # None
    <2>1. cluster'[f] = IF \A n \in Nodes : member'[<<f, n>>] = None THEN None ELSE cluster[f]
        BY <1>1
    <2>2. cluster[f] # None <=> \E n \in Nodes : member[<<f, n>>] # None
        BY Zenon DEF RegistryInv, ClustersHaveMembers
    <2>. QED  BY <1>5, <2>1, <2>2, Zenon
<1>7. \A f \in Clusters : cluster'[f] # None => cluster'[f] = cluster[f]
    BY <1>1
<1>8. RegistryTypes'
    BY <1>1, <1>3 DEF RegistryInv, RegistryTypes
<1>9. ClustersHaveMembers'
    BY <1>6, Zenon DEF ClustersHaveMembers
<1>10. Listed(sweep.order, sweep.outcome)'
    BY <1>1 DEF RegistryInv, Listed
<1>. QED  BY <1>5, <1>7, <1>8, <1>9, <1>10, Zenon DEF Kempt, RegistryInv, Untouched

\* The operator's tombstone.
LEMMA ForgetStep ==
    ASSUME RegistryInv, NEW g \in Clusters, Forget(g)
    PROVE  Kempt
<1>1. /\ UNCHANGED <<ceph, quorum, remotes, sweep, detect, member>>
      /\ cluster[g] # None /\ ~Forgotten(g)
      /\ cluster' = [cluster EXCEPT ![g] = [cluster[g] EXCEPT !.forgotten = TRUE]]
    BY DEF Forget, Forgotten
<1>2. cluster \in [Clusters -> Sections \cup {None}] /\ cluster[g] \in Sections
    BY <1>1 DEF RegistryInv, RegistryTypes
<1>3. [cluster[g] EXCEPT !.forgotten = TRUE] \in Sections
    BY <1>2, Zenon DEF Sections
<1>4. /\ cluster' \in [Clusters -> Sections \cup {None}] /\ cluster'[g] # None
      /\ \A f \in Clusters \ {g} : cluster'[f] = cluster[f]
    BY <1>1, <1>2, <1>3, CephAssumption, Zenon
<1>5. RegistryTypes' /\ Listed(sweep.order, sweep.outcome)'
    BY <1>1, <1>4 DEF RegistryInv, RegistryTypes, Listed
<1>6. ClustersHaveMembers'
    BY <1>1, <1>4 DEF RegistryInv, ClustersHaveMembers
<1>. QED  BY <1>1, <1>4, <1>5, <1>6 DEF Kempt, RegistryInv, Untouched

\* Every step keeps the registry sound and the tombstones up.
LEMMA RegistryStep ==
    ASSUME RegistryInv, [CephNext]_cephVars
    PROVE  Kempt
<1>1. CASE SweepStep
    BY <1>1, ProbeSteps, UpsertSteps, Zenon DEF SweepStep
<1>2. ASSUME NEW m \in PveRemotes,
             \/ DetectStep(m) \/ DetectFails(m) \/ AddRemote(m) \/ RemoveRemote(m) \/ Flip(m)
             \/ \E f \in Clusters \cup {None} : ChangeCeph(m, f)
      PROVE  Kempt
    BY <1>2, ProbeSteps, UpsertSteps, ConfigSteps, WorldSteps, Zenon DEF DetectStep
<1>3. ASSUME NEW f \in Clusters,
             Forget(f) \/ \E q \in (SUBSET Nodes) \ {{}} : ChangeQuorum(f, q)
      PROVE  Kempt
    BY <1>3, ForgetStep, WorldSteps, Zenon
<1>4. CASE UNCHANGED cephVars \/ SweepFails \/ CleanUp \/ CleanUpFails
    BY <1>4, WorldSteps, ProbeSteps, CleanUpStep, Zenon
<1>. QED  BY <1>1, <1>2, <1>3, <1>4, Zenon DEF CephNext

\* At the start nothing is registered.
LEMMA RegistryInit == CephInit => RegistryInv
<1>. SUFFICES ASSUME CephInit PROVE RegistryInv
    OBVIOUS
<1>1. RegistryTypes
    <2>1. quorum \in [Clusters -> (SUBSET Nodes) \ {{}}]
        BY CephAssumption DEF CephInit
    <2>. QED  BY <2>1 DEF CephInit, RegistryTypes, Asleep
<1>. QED  BY <1>1, Zenon DEF CephInit, RegistryInv, Asleep, Listed, ClustersHaveMembers

\* A cluster is registered exactly when it has a member, through every interleaving of a
\* sweep, of detections and of a clean-up (upsert_cluster, on_remote_removed).
THEOREM RegistryConsistent == CephSpec => []ClustersHaveMembers
<1>1. RegistryInv /\ [CephNext]_cephVars => RegistryInv'
    BY RegistryStep DEF Kempt
<1>2. RegistryInv => ClustersHaveMembers
    BY DEF RegistryInv
<1>. QED  BY <1>1, <1>2, RegistryInit, PTL DEF CephSpec

\* A forgotten cluster is not touched, but by the removal of its last remote
\* (upsert_cluster, reconcile_unfound).
THEOREM TombstonesHold == CephSpec => TombstoneHolds
<1>1. RegistryInv /\ [CephNext]_cephVars => RegistryInv'
    BY RegistryStep DEF Kempt
<1>2. RegistryInv /\ [CephNext]_cephVars =>
          [\A f \in Clusters :
              Forgotten(f) /\ cluster'[f] # None =>
                  /\ cluster'[f] = cluster[f]
                  /\ \A n \in Nodes : member'[<<f, n>>] \in {member[<<f, n>>], None}]_cephVars
    BY RegistryStep DEF Kempt, Untouched
<1>. QED  BY <1>1, <1>2, RegistryInit, PTL DEF CephSpec, TombstoneHolds
=============================================================================
