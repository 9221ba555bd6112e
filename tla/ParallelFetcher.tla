--------------------------- MODULE ParallelFetcher ---------------------------
(***************************************************************************)
(* ParallelFetcher (server/src/parallel_fetcher.rs): one run of            *)
(* do_for_all_remote_nodes, or of do_for_all_remotes, over some remotes.   *)
(* One task for each remote and one for each node, a semaphore for all     *)
(* connections and one for the connections to each remote.                 *)
(***************************************************************************)
EXTENDS Integers, FiniteSets

CONSTANTS
    FetchRemotes,             \* the remotes of the run
    Single,                   \* the remotes that are one node: the PBS ones, or all
    FetchNodes,               \* the nodes a cluster can have
    MaxConnections,           \* max_connections
    MaxConnectionsPerRemote,  \* max_connections_per_remote
    Localhost                 \* the name of the node of a Single remote

ASSUME Limits ==
    /\ MaxConnections \in Nat \ {0} /\ MaxConnectionsPerRemote \in Nat \ {0}
    /\ IsFiniteSet(FetchRemotes) /\ IsFiniteSet(FetchNodes)
    /\ Single \subseteq FetchRemotes /\ Localhost \in FetchNodes

VARIABLES
    permits,     \* the permits of the semaphore for all connections
    per_remote,  \* per_remote[r]: the permits of the semaphore of the remote
    task,        \* task[r]: where fetch_remote stands
    todo,        \* todo[r]: the nodes of the remote that are not spawned yet
    node,        \* node[<<r, n>>]: where fetch_node stands
    listed       \* listed[r]: the nodes of the remote, as list_nodes named them

fetchVars == <<permits, per_remote, task, todo, node, listed>>

\* In these places the task of the remote has a permit in its hands.
Holding == {"list", "first", "ready", "empty"}

\* The semaphores and the tasks have the shapes the code gives them; no semaphore is
\* overdrawn.
FetchTypeOK ==
    /\ permits \in Nat
    /\ per_remote \in [FetchRemotes -> Nat]
    /\ task \in [FetchRemotes -> Holding \cup {"start", "next", "join", "done", "failed"}]
    /\ todo \in [FetchRemotes -> SUBSET FetchNodes] /\ listed \in [FetchRemotes -> SUBSET FetchNodes]
    /\ node \in [FetchRemotes \X FetchNodes -> {"none", "running", "ok", "error", "lost"}]

FetchInit ==
    /\ permits = MaxConnections
    /\ per_remote = [r \in FetchRemotes |-> MaxConnectionsPerRemote]
    /\ task = [r \in FetchRemotes |-> "start"]
    /\ todo = [r \in FetchRemotes |-> {}] /\ listed = [r \in FetchRemotes |-> {}]
    /\ node = [x \in FetchRemotes \X FetchNodes |-> "none"]

-----------------------------------------------------------------------------
AcquirePermit(r) ==
    /\ task[r] = "start" /\ permits > 0
    /\ permits' = permits - 1
    /\ task' = [task EXCEPT ![r] = "list"]
    /\ UNCHANGED <<per_remote, todo, node, listed>>

\* The list of a cluster's nodes has come; the permit is for the first of them.
ListNodes(r, ns) ==
    /\ task[r] = "list" /\ r \notin Single
    /\ task' = [task EXCEPT ![r] = IF ns = {} THEN "empty" ELSE "first"]
    /\ todo' = [todo EXCEPT ![r] = ns] /\ listed' = [listed EXCEPT ![r] = ns]
    /\ UNCHANGED <<permits, per_remote, node>>

\* Mutant: the way out after a failed list keeps the permit.
ListFailsKeepingPermit(r) ==
    /\ task[r] = "list" /\ r \notin Single
    /\ task' = [task EXCEPT ![r] = "failed"]
    /\ UNCHANGED <<permits, per_remote, todo, node, listed>>

ListFails(r) ==
    /\ task[r] = "list" /\ r \notin Single
    /\ task' = [task EXCEPT ![r] = "failed"]
    /\ permits' = permits + 1
    /\ UNCHANGED <<per_remote, todo, node, listed>>

\* A remote that is one node is called with the permit in hand, and no other.
CallSingle(r) ==
    /\ task[r] = "list" /\ r \in Single
    /\ task' = [task EXCEPT ![r] = "join"]
    /\ listed' = [listed EXCEPT ![r] = {Localhost}]
    /\ node' = [node EXCEPT ![<<r, Localhost>>] = "running"]
    /\ UNCHANGED <<permits, per_remote, todo>>

\* A permit for the next node: the first node has it already.
TakePermit(r) ==
    /\ task[r] = "next" /\ permits > 0
    /\ permits' = permits - 1
    /\ task' = [task EXCEPT ![r] = "ready"]
    /\ UNCHANGED <<per_remote, todo, node, listed>>

\* A permit of the remote is waited for with the other one in hand.
SpawnNode(r, n) ==
    /\ task[r] \in {"first", "ready"} /\ n \in todo[r] /\ per_remote[r] > 0
    /\ per_remote' = [per_remote EXCEPT ![r] = @ - 1]
    /\ node' = [node EXCEPT ![<<r, n>>] = "running"]
    /\ todo' = [todo EXCEPT ![r] = @ \ {n}]
    /\ task' = [task EXCEPT ![r] = IF todo[r] = {n} THEN "join" ELSE "next"]
    /\ UNCHANGED <<permits, listed>>

\* func has returned, or has panicked: then the node has no response.
NodeEnds(r, n, how) ==
    /\ node[<<r, n>>] = "running"
    /\ node' = [node EXCEPT ![<<r, n>>] = how]
    /\ permits' = permits + 1
    /\ per_remote' = IF r \in Single THEN per_remote ELSE [per_remote EXCEPT ![r] = @ + 1]
    /\ UNCHANGED <<task, todo, listed>>

Join(r) ==
    /\ task[r] \in {"join", "empty"} /\ \A n \in FetchNodes : node[<<r, n>>] # "running"
    /\ task' = [task EXCEPT ![r] = "done"]
    /\ permits' = IF task[r] = "empty" THEN permits + 1 ELSE permits
    /\ UNCHANGED <<per_remote, todo, node, listed>>

FetchStep(r) ==
    \/ AcquirePermit(r) \/ ListFails(r) \/ CallSingle(r) \/ TakePermit(r) \/ Join(r)
    \/ \E ns \in SUBSET FetchNodes : ListNodes(r, ns)
    \/ \E n \in FetchNodes : SpawnNode(r, n)

NodeStep(r, n) == \E how \in {"ok", "error", "lost"} : NodeEnds(r, n, how)

FetchNext == \E r \in FetchRemotes : FetchStep(r) \/ \E n \in FetchNodes : NodeStep(r, n)

FetchSpec == FetchInit /\ [][FetchNext]_fetchVars

\* The tasks run on, and a request to a remote ends: the client has a timeout.
FairFetchSpec ==
    /\ FetchSpec
    /\ \A r \in FetchRemotes : WF_fetchVars(FetchStep(r)) /\ \A n \in FetchNodes : WF_fetchVars(NodeStep(r, n))

-----------------------------------------------------------------------------
(***************************************************************************)
(* Properties.                                                             *)
(***************************************************************************)
Running == {x \in FetchRemotes \X FetchNodes : node[x] = "running"}
Busy == {r \in FetchRemotes : task[r] \in Holding}

\* "Set the maximum number of parallel connections", and the same "per remote": the tasks
\* that have a connection, or a permit for one, never exceed the two limits, and no permit
\* is lost or made on any way out of fetch_remote.
ConnectionsBounded ==
    /\ permits + Cardinality(Busy) + Cardinality(Running) = MaxConnections
    /\ \A r \in FetchRemotes \ Single :
          Cardinality({n \in FetchNodes : node[<<r, n>>] = "running"}) <= MaxConnectionsPerRemote

AllFetched ==
    \A r \in FetchRemotes :
        \/ task[r] = "failed"
        \/ task[r] = "done" /\ \A n \in listed[r] : node[<<r, n>>] \in {"ok", "error", "lost"}

\* The run ends, whatever the limits: tasks that wait for the permits of their remote with
\* a permit of the run in hand never block each other for good; and a node that was listed
\* has its response, unless its task has panicked.
FetchEnds == <>[]AllFetched

=============================================================================
