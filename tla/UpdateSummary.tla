---------------------------- MODULE UpdateSummary ----------------------------
(***************************************************************************)
(* The cached summary of available updates (server/src/remote_updates.rs): *)
(* refreshes by the periodic task and by users, and the lists of updates   *)
(* that users ask for node by node.  All of them change one entry of the   *)
(* global cache under its write lock.  A refresh calls the nodes through   *)
(* the ParallelFetcher, of which only the promise is used here: each node  *)
(* that was listed is called once.                                         *)
(***************************************************************************)
EXTENDS Integers, FiniteSets

CONSTANTS
    Remotes, Nodes,
    Task,        \* the refreshes of RemoteUpdateRefreshTask
    Users,       \* the refreshes and lists of users, one for each
    MaxChanges,  \* bound: what happens to the remotes and to the cache
    None

VARIABLES
    config,    \* the remotes in remotes.cfg
    nodes,     \* nodes[r]: the nodes of the remote
    down,      \* the remotes that cannot be reached
    cache,     \* cache[r]: the RemoteUpdateSummary, or None
    run,       \* run[x]: where the refresh or the list stands
    changes

world == <<config, nodes, down, changes>>
vars == <<world, cache, run>>

Results == {"updates", "error"}
Summaries == [status : {"success", "error"}, nodes : [Nodes -> Results \cup {None}]]
Calls == Remotes \X Nodes

\* listed[r] is None until the nodes are known, and {} with failed when they are not.
Runs ==
    [pc : {"idle", "over"}]
        \cup [pc : {"fetch"}, scope : SUBSET Remotes, listed : [Remotes -> (SUBSET Nodes) \cup {None}],
              failed : SUBSET Remotes, got : [Calls -> Results \cup {None}], cached : SUBSET Calls]
        \cup [pc : {"listed"}, node : Calls]

\* The cache and the refreshes have the shapes the code gives them.
TypeOK ==
    /\ config \subseteq Remotes /\ down \subseteq Remotes
    /\ nodes \in [Remotes -> SUBSET Nodes]
    /\ cache \in [Remotes -> Summaries \cup {None}]
    /\ \A x \in Users \cup {Task} : run[x] \in Runs

Init ==
    /\ config = Remotes /\ down = {} /\ changes = 0
    /\ nodes \in [Remotes -> (SUBSET Nodes) \ {{}}]
    /\ cache = [r \in Remotes |-> None]
    /\ run = [x \in Users \cup {Task} |-> [pc |-> "idle"]]

-----------------------------------------------------------------------------
Change == changes < MaxChanges /\ changes' = changes + 1 /\ UNCHANGED run

Reconfigure(rs) == Change /\ config' = rs /\ UNCHANGED <<nodes, down, cache>>

ChangeNodes(r, ns) == Change /\ nodes' = [nodes EXCEPT ![r] = ns] /\ UNCHANGED <<config, down, cache>>

Flip(r) ==
    /\ Change
    /\ down' = IF r \in down THEN down \ {r} ELSE down \cup {r}
    /\ UNCHANGED <<config, nodes, cache>>

\* summary_or_default: an entry that cannot be read counts as an empty one.
Spoil == Change /\ cache' = [r \in Remotes |-> None] /\ UNCHANGED <<config, nodes, down>>

\* fetch_available_updates: a remote that can be reached may fail all the same.
Fetched(r) == IF r \in down THEN {"error"} ELSE Results

Empty == [status |-> "success", nodes |-> [n \in Nodes |-> None]]

Entry(r) == IF cache[r] = None THEN Empty ELSE cache[r]

\* update_cached_summary_for_node.
UpdateNode(r, n, got) == [cache EXCEPT ![r] = [Entry(r) EXCEPT !.nodes[n] = got]]

Becomes(x, k) == run' = [run EXCEPT ![x] = k]

-----------------------------------------------------------------------------
(***************************************************************************)
(* refresh_update_summary_cache: for all remotes, or for the remotes the   *)
(* user may modify.                                                        *)
(***************************************************************************)
Begin(x, scope) ==
    /\ run[x].pc = "idle"
    /\ x = Task => scope = config
    /\ Becomes(x, [pc |-> "fetch", scope |-> scope, listed |-> [r \in Remotes |-> None],
                   failed |-> {}, got |-> [c \in Calls |-> None], cached |-> {}])
    /\ UNCHANGED <<world, cache>>

ListNodes(x, r) ==
    /\ run[x].pc = "fetch" /\ r \in run[x].scope /\ run[x].listed[r] = None
    /\ Becomes(x, [run[x] EXCEPT !.listed[r] = IF r \in down THEN {} ELSE nodes[r],
                                 !.failed = IF r \in down THEN @ \cup {r} ELSE @])
    /\ UNCHANGED <<world, cache>>

FetchNode(x, r, n, got) ==
    /\ run[x].pc = "fetch" /\ run[x].listed[r] # None
    /\ n \in run[x].listed[r] /\ run[x].got[r, n] = None
    /\ got \in Fetched(r)
    /\ Becomes(x, [run[x] EXCEPT !.got[r, n] = got])
    /\ UNCHANGED <<world, cache>>

CacheNode(x, r, n) ==
    /\ run[x].pc = "fetch" /\ run[x].got[r, n] # None /\ <<r, n>> \notin run[x].cached
    /\ cache' = UpdateNode(r, n, run[x].got[r, n])
    /\ Becomes(x, [run[x] EXCEPT !.cached = @ \cup {<<r, n>>}])
    /\ UNCHANGED world

\* Mutant: the entries of remotes outside the run are kept.
FinalKeepingOthers(x, r) ==
    IF r \notin run[x].scope THEN cache[r]
    ELSE IF r \in run[x].failed THEN [Empty EXCEPT !.status = "error"]
    ELSE [status |-> "success", nodes |-> [n \in Nodes |-> run[x].got[r, n]]]

\* The entry of a remote in the final pass, for the remotes of the run only.
Final(x, r) ==
    IF r \notin run[x].scope THEN None
    ELSE IF r \in run[x].failed THEN [Empty EXCEPT !.status = "error"]
    ELSE [status |-> "success", nodes |-> [n \in Nodes |-> run[x].got[r, n]]]

AllCached(x) ==
    /\ run[x].pc = "fetch"
    /\ \A r \in run[x].scope :
          /\ run[x].listed[r] # None
          /\ \A n \in run[x].listed[r] : <<r, n>> \in run[x].cached

Finish(x) ==
    /\ AllCached(x)
    /\ cache' = [r \in Remotes |-> Final(x, r)]
    /\ Becomes(x, [pc |-> IF x = Task THEN "idle" ELSE "over"])
    /\ UNCHANGED world

\* list_available_updates: the summary is stored by a task of its own, some time later.
ListUpdates(x, r, n) ==
    /\ run[x].pc = "idle" /\ x # Task /\ r \in config /\ n \in nodes[r] /\ r \notin down
    /\ Becomes(x, [pc |-> "listed", node |-> <<r, n>>])
    /\ UNCHANGED <<world, cache>>

StoreList(x) ==
    /\ run[x].pc = "listed"
    /\ cache' = UpdateNode(run[x].node[1], run[x].node[2], "updates")
    /\ Becomes(x, [pc |-> "over"])
    /\ UNCHANGED world

\* The cache cannot be locked or written: a node's result is logged and skipped, the
\* final pass fails.
CacheFails(x) ==
    /\ changes < MaxChanges /\ changes' = changes + 1
    /\ \/ \E c \in Calls : /\ run[x].pc = "fetch"
                         /\ run[x].got[c] # None /\ c \notin run[x].cached
                         /\ Becomes(x, [run[x] EXCEPT !.cached = @ \cup {c}])
       \/ AllCached(x) /\ Becomes(x, [pc |-> IF x = Task THEN "idle" ELSE "over"])
       \/ run[x].pc = "listed" /\ Becomes(x, [pc |-> "over"])
    /\ UNCHANGED <<config, nodes, down, cache>>

RunStep(x) ==
    \/ \E r \in Remotes :
          \/ ListNodes(x, r)
          \/ \E n \in Nodes : CacheNode(x, r, n) \/ \E got \in Results : FetchNode(x, r, n, got)
    \/ Finish(x) \/ StoreList(x)

TaskStep == RunStep(Task) \/ Begin(Task, config)

Next ==
    \/ Spoil
    \/ \E rs \in SUBSET Remotes : Reconfigure(rs)
    \/ \E r \in Remotes : Flip(r) \/ \E ns \in (SUBSET Nodes) \ {{}} : ChangeNodes(r, ns)
    \/ TaskStep \/ CacheFails(Task)
    \/ \E x \in Users :
          \/ RunStep(x) \/ CacheFails(x)
          \/ \E scope \in SUBSET config : Begin(x, scope)
          \/ \E r \in Remotes, n \in Nodes : ListUpdates(x, r, n)

Spec == Init /\ [][Next]_vars

\* The task refreshes every six hours, and what was begun runs on.
FairSpec == Spec /\ WF_vars(TaskStep) /\ \A x \in Users : WF_vars(RunStep(x))

-----------------------------------------------------------------------------
(***************************************************************************)
(* Properties.                                                             *)
(***************************************************************************)

AllReachable == config \cap down = {}

UpToDate ==
    \A r \in Remotes :
        /\ cache[r] # None <=> r \in config
        /\ r \in config => {n \in Nodes : cache[r].nodes[n] # None} = nodes[r]

\* Once the remotes stay as they are, the summary shows the configured remotes and their
\* nodes, and no others, for good: no refresh or list that was under way when a remote or
\* a node went, and no entry that was lost, spoils it for ever.
SummaryConverges == <>[]AllReachable => <>[]UpToDate

\* The comment on the final pass: "Clean out any remotes that might have been removed from
\* the remote config in the meanwhile."  A remote that is configured keeps its entry.
PrunesOnlyRemoved ==
    [][\A x \in Users \cup {Task}, r \in Remotes :
          Finish(x) /\ cache[r] # None /\ r \in config => cache'[r] # None]_vars

=============================================================================
