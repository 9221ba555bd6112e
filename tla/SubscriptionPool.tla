------------------------- MODULE SubscriptionPool -------------------------
(***************************************************************************)
(* The subscription key pool: server/src/api/subscriptions/mod.rs over the *)
(* section config of lib/pdm-config/src/subscriptions.rs.                  *)
(*                                                                         *)
(* The pool maps a key to its binding (a node of a remote) and to a flag   *)
(* that queues the removal of the subscription from that node.  API        *)
(* handlers read the pool without its lock, query the remote, and commit   *)
(* under the lock; the apply-pending worker pushes and deletes             *)
(* subscriptions on the remotes.  A step of the model ends where a handler *)
(* awaits the network or takes the lock; what runs under the lock is one   *)
(* step, because every writer holds the lock from read to atomic replace.  *)
(*                                                                         *)
(* A config digest is the hash of the file, so two digests are equal       *)
(* exactly when the two pools are: a snapshot of the pool stands for its   *)
(* digest.  Privileges, labels and the signed shadow blobs are left out.   *)
(***************************************************************************)
EXTENDS Naturals

CONSTANTS
    Keys,         \* subscription keys
    Remotes,      \* ids a remote may have in remotes.cfg
    Nodes,        \* node names
    KeyType,      \* product of a key (ProductType::from_key)
    RemoteType,   \* product a remote runs
    Handlers,     \* API calls that may be in flight at once
    Workers,      \* apply-pending workers that may run at once
    Ops,          \* the API calls clients make
    Digests,      \* do clients send the digest they saw: a subset of BOOLEAN
    Volatile,     \* remotes an operator may remove from and add to remotes.cfg
    Flaky,        \* remotes whose replies may fail to arrive
    Foreign,      \* nodes whose subscription is also changed on the node itself
    Unbound, NoKey

Targets == Remotes \X Nodes

ASSUME PoolAssumption ==
    /\ KeyType \in [Keys -> {"pve", "pbs"}]
    /\ RemoteType \in [Remotes -> {"pve", "pbs"}]
    /\ Unbound \notin Targets
    /\ NoKey \notin Keys
    /\ Digests \subseteq BOOLEAN
    /\ Flaky \subseteq Remotes
    /\ Foreign \subseteq Targets

VARIABLES
    pool,      \* subscriptions.cfg: key -> entry
    remotes,   \* the remotes in remotes.cfg
    live,      \* the subscription each node really has
    call,      \* API call of each handler
    work       \* state of each apply-pending worker

vars == <<pool, remotes, live, call, work>>

Entry == [target : Targets \cup {Unbound}, pending_clear : BOOLEAN]
Pools == UNION {[ks -> Entry] : ks \in SUBSET Keys}
Subs  == [key : Keys \cup {NoKey}, active : BOOLEAN]
Rows  == [row : BOOLEAN, key : Keys \cup {NoKey}, active : BOOLEAN]
PendingEntry == [key : Keys, target : Targets, op : {"Push", "Clear", "Assign"}]

NoSub == [key |-> NoKey, active |-> FALSE]
NoRow == [row |-> FALSE, key |-> NoKey, active |-> FALSE]
NoStatus == [t \in Targets |-> NoRow]

Matches(k, t) == KeyType[k] = RemoteType[t[1]]
Bound(c, k) == k \in DOMAIN c /\ c[k].target # Unbound
BoundTo(c, k, t) == k \in DOMAIN c /\ c[k].target = t
Taken(c, t) == \E k \in DOMAIN c : c[k].target = t
Free == [target |-> Unbound, pending_clear |-> FALSE]

Put(c, k, e) == [j \in DOMAIN c \cup {k} |-> IF j = k THEN e ELSE c[j]]
Without(c, k) == [j \in DOMAIN c \ {k} |-> c[j]]

(***************************************************************************)
(* What a status query returns: a row for every node of a remote that      *)
(* answered, with an empty row for a node that did not.                    *)
(***************************************************************************)
Statuses(rs, silent, blind) ==
    [t \in Targets |->
        IF t[1] \notin rs \/ t[1] \in silent THEN NoRow
        ELSE IF t \in blind THEN [NoRow EXCEPT !.row = TRUE]
        ELSE [row |-> TRUE, key |-> live[t].key, active |-> live[t].active]]

FlakyTargets == {t \in Targets : t[1] \in Flaky}

compute_pending(c, stat) ==
    {[key |-> k, target |-> c[k].target,
      op |-> IF c[k].pending_clear THEN "Clear" ELSE "Push"] :
        k \in {j \in DOMAIN c :
                  /\ c[j].target # Unbound
                  /\ c[j].pending_clear \/ stat[c[j].target].key # j}}

-----------------------------------------------------------------------------
(* Handlers that are one locked section                                    *)

add_keys(ks) ==
    /\ "add" \in Ops
    /\ ks # {} /\ ks \cap DOMAIN pool = {}
    /\ pool' = [k \in DOMAIN pool \cup ks |-> IF k \in ks THEN Free ELSE pool[k]]
    /\ UNCHANGED <<remotes, live, call, work>>

queue_clear(t) ==
    /\ "queue_clear" \in Ops
    /\ \E k \in DOMAIN pool :
          /\ pool[k].target = t /\ ~pool[k].pending_clear
          /\ pool' = [pool EXCEPT ![k].pending_clear = TRUE]
    /\ UNCHANGED <<remotes, live, call, work>>

revert_pending_clear(t) ==
    /\ "revert" \in Ops
    /\ \E k \in DOMAIN pool :
          /\ pool[k].target = t /\ pool[k].pending_clear
          /\ pool' = [pool EXCEPT ![k].pending_clear = FALSE]
    /\ UNCHANGED <<remotes, live, call, work>>

(* The node asks the shop again; the verdict on its key may change.        *)
check_subscription(t) ==
    /\ "check" \in Ops
    /\ t[1] \in remotes /\ live[t].key # NoKey
    /\ live' = [live EXCEPT ![t].active = ~@]
    /\ UNCHANGED <<pool, remotes, call, work>>

-----------------------------------------------------------------------------
(* Handlers that query the remotes before they take the lock               *)

Idle == [op |-> "none", pc |-> "idle", key |-> NoKey, target |-> Unbound,
         digest |-> FALSE, seen |-> [k \in {} |-> Free], rem |-> {},
         synced |-> FALSE, stat |-> NoStatus, asg |-> {}, plan |-> {}]

(* Receiving the request: the lock-free read of the pool and of remotes.   *)
Begin(h, op, k, t, pc) ==
    /\ op \in Ops
    /\ call[h].pc = "idle"
    /\ \E d \in Digests :
          call' = [call EXCEPT ![h] =
                      [op |-> op, pc |-> pc, key |-> k, target |-> t, digest |-> d, seen |-> pool,
                       rem |-> remotes, synced |-> FALSE, stat |-> NoStatus, asg |-> {}, plan |-> {}]]
    /\ UNCHANGED <<pool, remotes, live, work>>

Finish(h) == call' = [call EXCEPT ![h] = Idle]

At(h, op, pc) == call[h].op = op /\ call[h].pc = pc

(* detect_modification, for a client that sent the digest it read          *)
DigestOK(c) == c.digest => pool = c.seen

StillSynced(c) == c.synced /\ BoundTo(pool, c.key, c.seen[c.key].target)
Raced(c) == pool # c.seen
Appeared(c) == ~Bound(c.seen, c.key) /\ Bound(pool, c.key)

begin_delete_key(h, k) == k \in DOMAIN pool /\ Begin(h, "delete", k, Unbound, "check")

begin_clear_assignment(h, k) == Begin(h, "clear", k, Unbound, "check")

begin_set_assignment(h, k, t) ==
    LET moves == Bound(pool, k) /\ pool[k].target # t
    IN  Begin(h, "set", k, t, IF moves THEN "check" ELSE "commit")

(* The live query: it finds the key synced, or not, or fails and finds     *)
(* nothing.                                                                *)
check_synced_assignment_for_unassign(h) ==
    LET c == call[h]
        bound == Bound(c.seen, c.key)
        t == c.seen[c.key].target
    IN  /\ c.pc = "check"
        /\ \E answer \in {TRUE} \cup (IF bound /\ t[1] \in Flaky THEN {FALSE} ELSE {}) :
              call' = [call EXCEPT
                          ![h].pc = "commit",
                          ![h].synced = /\ answer /\ bound
                                        /\ t[1] \in c.rem
                                        /\ live[t] = [key |-> c.key, active |-> TRUE]]
        /\ UNCHANGED <<pool, remotes, live, work>>

UnassignAllowedIgnoringRaces(c) ==
    DigestOK(c) /\ c.key \in DOMAIN pool /\ ~StillSynced(c)

UnassignAllowed(c) ==
    /\ DigestOK(c)
    /\ c.key \in DOMAIN pool
    /\ ~StillSynced(c)
    /\ ~(Raced(c) /\ Bound(pool, c.key))
    /\ ~Appeared(c)

delete_key(h) ==
    /\ At(h, "delete", "commit")
    /\ pool' = IF UnassignAllowed(call[h]) THEN Without(pool, call[h].key) ELSE pool
    /\ Finish(h)
    /\ UNCHANGED <<remotes, live, work>>

clear_assignment(h) ==
    /\ At(h, "clear", "commit")
    /\ pool' = IF UnassignAllowed(call[h]) THEN Put(pool, call[h].key, Free) ELSE pool
    /\ Finish(h)
    /\ UNCHANGED <<remotes, live, work>>

Moves(c) == Bound(pool, c.key) /\ pool[c.key].target # c.target

AssignAllowedAnyProduct(c) ==
    /\ DigestOK(c) /\ c.key \in DOMAIN pool
    /\ Moves(c) => ~(StillSynced(c) \/ Raced(c) \/ Appeared(c))
    /\ c.target[1] \in remotes
    /\ ~Taken(Without(pool, c.key), c.target)

AssignAllowedIgnoringOthers(c) ==
    /\ DigestOK(c) /\ c.key \in DOMAIN pool
    /\ Moves(c) => ~(StillSynced(c) \/ Raced(c) \/ Appeared(c))
    /\ c.target[1] \in remotes /\ Matches(c.key, c.target)

AssignAllowed(c) ==
    /\ DigestOK(c)
    /\ c.key \in DOMAIN pool
    /\ Moves(c) => ~(StillSynced(c) \/ Raced(c) \/ Appeared(c))
    /\ c.target[1] \in remotes
    /\ Matches(c.key, c.target)
    /\ ~Taken(Without(pool, c.key), c.target)

AssignedKeepingClear(c) ==
    Put(pool, c.key, [target |-> c.target, pending_clear |-> pool[c.key].pending_clear])

Assigned(c) ==
    Put(pool, c.key, [target |-> c.target,
                      pending_clear |-> pool[c.key].pending_clear /\ ~Moves(c)])

set_assignment(h) ==
    /\ At(h, "set", "commit")
    /\ pool' = IF AssignAllowed(call[h]) THEN Assigned(call[h]) ELSE pool
    /\ Finish(h)
    /\ UNCHANGED <<remotes, live, work>>

begin_adopt_key(h, t) == t[1] \in remotes /\ Begin(h, "adopt", NoKey, t, "fetch")

fetch_adopt_key_without_key(h) ==
    /\ At(h, "adopt", "fetch")
    /\ call' = [call EXCEPT ![h].pc = "commit", ![h].key = live[call[h].target].key]
    /\ UNCHANGED <<pool, remotes, live, work>>

(* Reads the live key; the call ends when there is none or none is read.   *)
fetch_adopt_key(h) ==
    LET t == call[h].target
    IN  /\ At(h, "adopt", "fetch")
        /\ \/ /\ live[t].key # NoKey
              /\ call' = [call EXCEPT ![h].pc = "commit", ![h].key = live[t].key]
           \/ (live[t].key = NoKey \/ t[1] \in Flaky) /\ Finish(h)
        /\ UNCHANGED <<pool, remotes, live, work>>

AdoptAllowed(c) ==
    /\ DigestOK(c) /\ ~Raced(c)
    /\ ~Taken(pool, c.target)
    /\ ~Bound(pool, c.key)

AdoptedEntry(c, k, t) ==
    [target |-> t, pending_clear |-> k \in DOMAIN c /\ c[k].pending_clear]

adopt_key(h) ==
    LET c == call[h]
    IN  /\ At(h, "adopt", "commit")
        /\ pool' = IF AdoptAllowed(c)
                   THEN Put(pool, c.key, AdoptedEntry(pool, c.key, c.target))
                   ELSE pool
        /\ Finish(h)
        /\ UNCHANGED <<remotes, live, work>>

-----------------------------------------------------------------------------
(* Handlers that work on the status of every node                          *)

begin_adopt_all(h) == Begin(h, "adopt_all", NoKey, Unbound, "fetch")
begin_auto_assign(h) == Begin(h, "auto", NoKey, Unbound, "fetch")
begin_clear_pending(h) == Begin(h, "discard", NoKey, Unbound, "fetch")

collect_node_status(h) ==
    /\ call[h].op \in {"adopt_all", "auto", "discard"} /\ call[h].pc = "fetch"
    /\ \E silent \in SUBSET Flaky, blind \in SUBSET FlakyTargets :
          call' = [call EXCEPT
                      ![h].pc = IF call[h].op = "adopt_all" THEN "commit" ELSE "compute",
                      ![h].stat = Statuses(call[h].rem, silent, blind)]
    /\ UNCHANGED <<pool, remotes, live, work>>

(* The nodes a key may be adopted from: live there, unassigned both in the *)
(* snapshot and in the locked config.  Two nodes may report one key; the   *)
(* loop takes the first it meets.                                          *)
Adoptable(c, k) ==
    IF Bound(pool, k) THEN {}
    ELSE {t \in Targets : c.stat[t].key = k /\ ~Taken(c.seen, t) /\ ~Taken(pool, t)}

adopt_all(h) ==
    LET c == call[h]
        adopted == {k \in Keys : DigestOK(c) /\ Adoptable(c, k) # {}}
    IN  /\ At(h, "adopt_all", "commit")
        /\ \E pick \in [adopted -> Targets] :
              /\ \A k \in adopted : pick[k] \in Adoptable(c, k)
              /\ pool' = [k \in DOMAIN pool \cup adopted |->
                             IF k \in adopted THEN AdoptedEntry(pool, k, pick[k]) ELSE pool[k]]
        /\ Finish(h)
        /\ UNCHANGED <<remotes, live, work>>
(* What an operator is shown, and bulk_assign compares: the nodes that     *)
(* answered, their status, and whether a key is assigned to them.          *)
hash_node_status(stat, asg) ==
    {<<t, stat[t].key # NoKey, stat[t].active, t \in asg>> : t \in {u \in Targets : stat[u].row}}

(* Every plan of unbound keys for unassigned nodes without an active       *)
(* subscription, one key per node: a superset of the plans the code's      *)
(* choice by socket count can return.                                      *)
compute_proposals(c, stat, asg) ==
    {plan \in SUBSET {e \in PendingEntry :
                         /\ e.op = "Assign"
                         /\ e.key \in DOMAIN c /\ ~Bound(c, e.key)
                         /\ stat[e.target].row /\ ~stat[e.target].active
                         /\ e.target \notin asg
                         /\ Matches(e.key, e.target)} :
        \A e, f \in plan : e.key = f.key \/ e.target = f.target => e = f}

AssignedTargets(c) == {t \in Targets : Taken(c, t)}

auto_assign(h) ==
    LET c == call[h]
        asg == AssignedTargets(c.seen)
    IN  /\ At(h, "auto", "compute")
        /\ \E plan \in compute_proposals(pool, c.stat, asg) :
              call' = [call EXCEPT ![h].pc = "proposed", ![h].plan = plan,
                                   ![h].asg = asg, ![h].seen = pool]
        /\ UNCHANGED <<pool, remotes, live, work>>

(* The client submits the proposal: the node status is read once more and  *)
(* must hash as it did.                                                    *)
begin_bulk_assign(h) ==
    LET c == call[h]
    IN  /\ At(h, "auto", "proposed")
        /\ \E silent \in SUBSET Flaky, blind \in SUBSET FlakyTargets :
              IF hash_node_status(Statuses(remotes, silent, blind), AssignedTargets(pool))
                    = hash_node_status(c.stat, c.asg)
              THEN call' = [call EXCEPT ![h].pc = "commit"]
              ELSE Finish(h)
        /\ UNCHANGED <<pool, remotes, live, work>>

BulkAccepts(e) ==
    /\ e.target[1] \in remotes
    /\ e.key \in DOMAIN pool
    /\ Matches(e.key, e.target)
    /\ ~Taken(Without(pool, e.key), e.target)
    /\ ~Bound(pool, e.key)

bulk_assign(h) ==
    LET c == call[h]
        accepted == {e \in c.plan : pool = c.seen /\ BulkAccepts(e)}
    IN  /\ At(h, "auto", "commit")
        /\ pool' = [k \in DOMAIN pool |->
                       IF \E e \in accepted : e.key = k
                       THEN [target |-> (CHOOSE e \in accepted : e.key = k).target,
                             pending_clear |-> FALSE]
                       ELSE pool[k]]
        /\ Finish(h)
        /\ UNCHANGED <<remotes, live, work>>

plan_clear_pending(h) ==
    LET pending == compute_pending(pool, call[h].stat)
    IN  /\ At(h, "discard", "compute")
        /\ IF pending = {} THEN Finish(h)
           ELSE call' = [call EXCEPT ![h].pc = "commit", ![h].plan = pending]
        /\ UNCHANGED <<pool, remotes, live, work>>

clear_pending(h) ==
    LET c == call[h]
        Planned(k, op) == DigestOK(c) /\ [key |-> k, target |-> pool[k].target, op |-> op] \in c.plan
    IN  /\ At(h, "discard", "commit")
        /\ pool' = [k \in DOMAIN pool |->
                       IF Planned(k, "Push") THEN Free
                       ELSE IF Planned(k, "Clear") THEN [pool[k] EXCEPT !.pending_clear = FALSE]
                       ELSE pool[k]]
        /\ Finish(h)
        /\ UNCHANGED <<remotes, live, work>>

-----------------------------------------------------------------------------
(* The apply-pending worker                                                *)

Sleeping == [pc |-> "idle", rem |-> {}, stat |-> NoStatus, todo |-> {}, cur |-> {}]

(* A worker is spawned only when a status query finds something pending.   *)
apply_pending(w) ==
    /\ "apply" \in Ops
    /\ work[w].pc = "idle"
    /\ \E silent \in SUBSET Flaky, blind \in SUBSET FlakyTargets :
          compute_pending(pool, Statuses(remotes, silent, blind)) # {}
    /\ work' = [work EXCEPT ![w].pc = "start"]
    /\ UNCHANGED <<pool, remotes, live, call>>

collect_status_uncached(w) ==
    /\ work[w].pc = "start"
    /\ \E silent \in SUBSET Flaky, blind \in SUBSET FlakyTargets :
          work' = [work EXCEPT ![w].pc = "plan", ![w].rem = remotes,
                               ![w].stat = Statuses(remotes, silent, blind)]
    /\ UNCHANGED <<pool, remotes, live, call>>

worker_plan(w) ==
    /\ work[w].pc = "plan"
    /\ work' = [work EXCEPT ![w].pc = "next", ![w].stat = NoStatus,
                            ![w].todo = compute_pending(pool, work[w].stat)]
    /\ UNCHANGED <<pool, remotes, live, call>>

pool_assignment_still_valid(e) == BoundTo(pool, e.key, e.target)

op_consistent(e) == pool[e.key].pending_clear <=> e.op = "Clear"

worker_next_keeping_skipped(w) ==
    /\ work[w].pc = "next"
    /\ \E e \in work[w].todo :
          LET valid == pool_assignment_still_valid(e) /\ op_consistent(e)
              pc == IF ~valid \/ e.target[1] \notin work[w].rem THEN "next"
                    ELSE IF e.op = "Push" THEN "push" ELSE "delete"
          IN  work' = [work EXCEPT ![w].pc = pc,
                                   ![w].todo = IF pc = "next" THEN @ ELSE @ \ {e},
                                   ![w].cur = IF pc = "next" THEN {} ELSE {e}]
    /\ UNCHANGED <<pool, remotes, live, call>>

(* One iteration up to its first await: the pool is re-read, without the   *)
(* lock, and the operation dropped unless the entry still asks for it.     *)
worker_next(w) ==
    /\ work[w].pc = "next"
    /\ \E e \in work[w].todo :
          LET known == e.target[1] \in work[w].rem
              valid == pool_assignment_still_valid(e) /\ op_consistent(e)
              pc == CASE valid /\ e.op = "Push" /\ known -> "push"
                      [] valid /\ e.op = "Clear" /\ known -> "delete"
                      [] valid /\ e.op = "Clear" /\ ~known -> "unbind"
                      [] OTHER -> "next"
          IN  work' = [work EXCEPT ![w].pc = pc, ![w].todo = @ \ {e},
                                   ![w].cur = IF pc = "next" THEN {} ELSE {e}]
    /\ UNCHANGED <<pool, remotes, live, call>>

worker_done(w) ==
    /\ work[w].pc = "next" /\ work[w].todo = {}
    /\ work' = [work EXCEPT ![w] = Sleeping]
    /\ UNCHANGED <<pool, remotes, live, call>>

(* The remote carries the request out; its reply, or the request, may be   *)
(* lost.  A failed push and a failed delete leave the entry pending.       *)
push_key_to_remote(w) ==
    /\ work[w].pc = "push"
    /\ \E e \in work[w].cur :
          \/ live' = [live EXCEPT ![e.target] = [key |-> e.key, active |-> TRUE]]
          \/ e.target[1] \in Flaky /\ UNCHANGED live
    /\ work' = [work EXCEPT ![w].pc = "next", ![w].cur = {}]
    /\ UNCHANGED <<pool, remotes, call>>

delete_ignoring_errors(w) ==
    /\ work[w].pc = "delete"
    /\ \E e \in work[w].cur :
          \/ live' = [live EXCEPT ![e.target] = NoSub]
          \/ e.target[1] \in Flaky /\ UNCHANGED live
    /\ work' = [work EXCEPT ![w].pc = "unbind"]
    /\ UNCHANGED <<pool, remotes, call>>

delete_subscription_on_remote(w) ==
    /\ work[w].pc = "delete"
    /\ \E e \in work[w].cur :
          \/ /\ live' = [live EXCEPT ![e.target] = NoSub]
             /\ work' = [work EXCEPT ![w].pc = "unbind"]
          \/ /\ e.target[1] \in Flaky
             /\ live' \in {live, [live EXCEPT ![e.target] = NoSub]}
             /\ work' = [work EXCEPT ![w].pc = "next", ![w].cur = {}]
    /\ UNCHANGED <<pool, remotes, call>>

worker_unbind(w) ==
    /\ work[w].pc = "unbind"
    /\ \E e \in work[w].cur :
          pool' = IF BoundTo(pool, e.key, e.target) THEN Put(pool, e.key, Free) ELSE pool
    /\ work' = [work EXCEPT ![w].pc = "next", ![w].cur = {}]
    /\ UNCHANGED <<remotes, live, call>>

-----------------------------------------------------------------------------
(* The surroundings: remotes.cfg, the nodes themselves, the daemon         *)

remove_remote(r) ==
    /\ r \in Volatile \cap remotes
    /\ remotes' = remotes \ {r}
    /\ UNCHANGED <<pool, live, call, work>>

add_remote(r) ==
    /\ r \in Volatile \ remotes
    /\ remotes' = remotes \cup {r}
    /\ UNCHANGED <<pool, live, call, work>>

WellTyped(t, s) == s = NoSub \/ (s.key \in Keys /\ Matches(s.key, t))

foreign_change(t, s) ==
    /\ t \in Foreign /\ WellTyped(t, s)
    /\ live' = [live EXCEPT ![t] = s]
    /\ UNCHANGED <<pool, remotes, call, work>>

(* The daemon stops and starts again: what was in flight is gone.          *)
restart ==
    /\ call' = [h \in Handlers |-> Idle]
    /\ work' = [w \in Workers |-> Sleeping]
    /\ UNCHANGED <<pool, remotes, live>>

-----------------------------------------------------------------------------
Init ==
    /\ pool = [k \in {} |-> Free]
    /\ remotes = Remotes
    /\ live \in {f \in [Targets -> Subs] : \A t \in Targets : WellTyped(t, f[t])}
    /\ call = [h \in Handlers |-> Idle]
    /\ work = [w \in Workers |-> Sleeping]

LockedCall ==
    \/ \E ks \in SUBSET Keys : add_keys(ks)
    \/ \E t \in Targets : queue_clear(t) \/ revert_pending_clear(t) \/ check_subscription(t)

BeginCall(h) ==
    \/ \E k \in Keys : begin_delete_key(h, k) \/ begin_clear_assignment(h, k)
    \/ \E k \in Keys, t \in Targets : begin_set_assignment(h, k, t)
    \/ \E t \in Targets : begin_adopt_key(h, t)
    \/ begin_adopt_all(h) \/ begin_auto_assign(h) \/ begin_clear_pending(h)

QueryStep(h) ==
    \/ check_synced_assignment_for_unassign(h) \/ fetch_adopt_key(h)
    \/ collect_node_status(h) \/ auto_assign(h) \/ begin_bulk_assign(h)
    \/ plan_clear_pending(h)

CommitStep(h) ==
    \/ delete_key(h) \/ clear_assignment(h) \/ set_assignment(h) \/ adopt_key(h)
    \/ adopt_all(h) \/ bulk_assign(h) \/ clear_pending(h)

RunStep(w) ==
    \/ collect_status_uncached(w) \/ worker_plan(w) \/ worker_next(w) \/ worker_done(w)
    \/ push_key_to_remote(w) \/ delete_subscription_on_remote(w) \/ worker_unbind(w)

Surroundings ==
    \/ \E r \in Remotes : remove_remote(r) \/ add_remote(r)
    \/ \E t \in Targets, s \in Subs : foreign_change(t, s)
    \/ restart

Next ==
    \/ LockedCall
    \/ \E h \in Handlers : BeginCall(h) \/ QueryStep(h) \/ CommitStep(h)
    \/ \E w \in Workers : apply_pending(w) \/ RunStep(w)
    \/ Surroundings

Spec == Init /\ [][Next]_vars

(* A spawned worker is polled by the runtime until it returns, and every   *)
(* remote request ends, in a reply or in an error.                         *)
FairSpec == Spec /\ \A w \in Workers : WF_vars(RunStep(w))
-----------------------------------------------------------------------------
(* Properties                                                              *)

Call == [op : {"none", "delete", "clear", "set", "adopt", "adopt_all", "auto", "discard"},
         pc : {"idle", "check", "fetch", "compute", "proposed", "commit"},
         key : Keys \cup {NoKey}, target : Targets \cup {Unbound},
         digest : BOOLEAN, seen : Pools, rem : SUBSET Remotes, synced : BOOLEAN,
         stat : [Targets -> Rows], asg : SUBSET Targets, plan : SUBSET PendingEntry]

Work == [pc : {"idle", "start", "plan", "next", "push", "delete", "unbind"},
         rem : SUBSET Remotes, stat : [Targets -> Rows],
         todo : SUBSET PendingEntry, cur : SUBSET PendingEntry]

(* The pool, the nodes, the calls in flight and the workers have the       *)
(* shapes the handlers give them.                                          *)
TypeOK ==
    /\ pool \in Pools
    /\ remotes \in SUBSET Remotes
    /\ live \in [Targets -> Subs]
    /\ call \in [Handlers -> Call]
    /\ work \in [Workers -> Work]

(* No two keys are ever bound to one node, whichever of set_assignment,    *)
(* adopt_key, adopt_all and bulk_assign bind them and however their        *)
(* snapshots are interleaved (mod.rs:574-585, 1172-1181, 1314-1323, 1628). *)
NoDoubleBinding ==
    \A j, k \in DOMAIN pool :
        pool[j].target = pool[k].target /\ pool[j].target # Unbound => j = k

(* A key that is not bound has no clear queued (mod.rs:718-720,            *)
(* 2075-2079): otherwise adopt, which keeps the flag, would bind it with a *)
(* teardown nobody asked for.                                              *)
NoDanglingClear ==
    \A k \in DOMAIN pool : pool[k].target = Unbound => ~pool[k].pending_clear

(* A key is bound only to a remote of its product (mod.rs:566-572,         *)
(* 1616-1627), provided the nodes themselves only hold keys of their       *)
(* product: adopt takes over the key a node reports unchecked.             *)
BoundToMatchingType ==
    \A k \in DOMAIN pool : pool[k].target # Unbound => Matches(k, pool[k].target)

(* A queued clear never follows a key to another node: a flag that is set  *)
(* after a step was set for the node the key is bound to, or is set now    *)
(* without moving it (mod.rs:594-600, 1642-1644).                          *)
ClearNeverMoves ==
    [][\A k \in DOMAIN pool' :
          pool'[k].pending_clear => BoundTo(pool, k, pool'[k].target)]_vars

(* A handler never drops or moves the binding of a key that is live and    *)
(* active on the node it is bound to, in whatever order concurrent calls   *)
(* read, query and commit (the orphan guard, mod.rs:382-400, 533-559,      *)
(* 692-710).  It speaks of races between pool edits: the instance that     *)
(* checks it has no worker and no failing query.                           *)
NoOrphan ==
    [][\A k \in DOMAIN pool :
          Bound(pool, k) /\ live[pool[k].target] = [key |-> k, active |-> TRUE]
             => BoundTo(pool', k, pool[k].target)]_vars

(* When the worker releases a binding after a clear, the node no longer    *)
(* has the key, unless the remote was gone when the worker started         *)
(* (mod.rs:1907-1947); failed and half-done deletes included.              *)
ClearedNodeIsEmpty ==
    [][\A w \in Workers, e \in PendingEntry :
          /\ worker_unbind(w) /\ e \in work[w].cur
          /\ e.target[1] \in work[w].rem
          => live[e.target].key # e.key]_vars

(* An apply-pending worker ends, whatever is edited and whichever remotes  *)
(* fail while it runs (mod.rs:1837-1841: one unreachable node does not     *)
(* strand the rest).                                                       *)
WorkerTerminates == \A w \in Workers : work[w].pc # "idle" ~> work[w].pc = "idle"

(* The comment on queue_clear (mod.rs:911-913): "the worker re-validates   *)
(* against the live remote at apply time and aborts if the remote runs a   *)
(* different key".                                                         *)
ClearHitsOwnKey ==
    [][\A w \in Workers, e \in PendingEntry :
          /\ delete_subscription_on_remote(w) /\ e \in work[w].cur
          /\ live[e.target].key # NoKey /\ live'[e.target].key = NoKey
          => live[e.target].key = e.key]_vars
=============================================================================
