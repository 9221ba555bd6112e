----------------------------- MODULE CacheStore -----------------------------
(***************************************************************************)
(* What one namespace of the API cache promises to its users: a map from   *)
(* keys to entries with a time stamp, on which get, set, set_if_newer and  *)
(* remove act at one instant (server/src/namespaced_cache.rs, the contract  *)
(* in the comments of WritableCacheNamespace).  NamespacedCache is the     *)
(* implementation, with its lock file and its two-step operations.         *)
(***************************************************************************)
EXTENDS Integers

CONSTANTS
    Keys,     \* the keys of the namespace
    Values,   \* what is cached
    Times,    \* the readings of the wall clock
    MaxAges,  \* the maximum ages that callers ask for; NoAge: any age
    NoAge,
    Nothing,  \* no entry, or no answer
    Garbage,  \* a file that does not parse
    Err       \* the operation failed

VARIABLES
    now,    \* the wall clock
    entry,  \* entry[k]: the entry of the key
    answer  \* the last operation that was answered, with its result

storeVars == <<now, entry, answer>>

GetOp(k, maxAge) == [kind |-> "get", key |-> k, maxAge |-> maxAge]
SetOp(kind, k, v) == [kind |-> kind, key |-> k, value |-> v]
RemoveOp(k) == [kind |-> "remove", key |-> k]

\* The operations of a namespace.
Ops ==
    [kind : {"get"}, key : Keys, maxAge : MaxAges]
    \cup [kind : {"set", "set_if_newer"}, key : Keys, value : Values]
    \cup [kind : {"remove"}, key : Keys]

Entry(ts, v) == [timestamp |-> ts, value |-> v]

IsEntry(e) == e \notin {Nothing, Garbage}

\* Mutant: an entry of exactly max_age, or of the future, counts as recent.
IsExpiredLate(e, at, maxAge) ==
    maxAge = 0 \/ (maxAge # NoAge /\ at - e.timestamp > maxAge + 1)

\* CacheEntry::is_expired; a time stamp in the future is expired as well.
IsExpired(e, at, maxAge) ==
    \/ maxAge = 0
    \/ maxAge # NoAge /\ (at - e.timestamp >= maxAge \/ at - e.timestamp < 0)

\* What get returns for an entry of the file system: its value, Nothing, or an error.
GetResult(e, at, maxAge) ==
    IF maxAge = 0 \/ e = Nothing THEN Nothing
    ELSE IF e = Garbage THEN Err
    ELSE IF IsExpired(e, at, maxAge) THEN Nothing ELSE e.value

\* set_if_newer: the existing entry wins only with a later time stamp.
IsNewer(e, ts) == IsEntry(e) /\ e.timestamp > ts

StoreInit ==
    /\ now \in Times
    /\ entry = [k \in Keys |-> Nothing]
    /\ answer = Nothing

\* The caller is answered, or has given up waiting: what its operation did stays.
Reply(op, a) == answer' = <<op, a>> \/ UNCHANGED answer

Get(k, maxAge) ==
    /\ Reply(GetOp(k, maxAge), GetResult(entry[k], now, maxAge))
    /\ UNCHANGED <<now, entry>>

\* The entry is replaced, by a set or by a set_if_newer.
Replace(kind, k, ts, v) ==
    /\ entry' = [entry EXCEPT ![k] = Entry(ts, v)]
    /\ Reply(SetOp(kind, k, v), Nothing)
    /\ UNCHANGED now

Set(k, ts, v) == Replace("set", k, ts, v)

SetIfNewer(k, ts, v) ==
    \/ ~IsNewer(entry[k], ts) /\ Replace("set_if_newer", k, ts, v)
    \/ /\ IsNewer(entry[k], ts)
       /\ Reply(SetOp("set_if_newer", k, v), entry[k].value)
       /\ UNCHANGED <<now, entry>>

Remove(k) ==
    /\ entry' = [entry EXCEPT ![k] = Nothing]
    /\ Reply(RemoveOp(k), Nothing)
    /\ UNCHANGED now

\* The lock cannot be had in time, or the file system refuses.
Fail(op) == Reply(op, Err) /\ UNCHANGED <<now, entry>>

\* The clock runs, or is set, forward or back.
Clock == now' \in Times /\ UNCHANGED <<entry, answer>>

\* A file that this version of the program cannot read is found on disk.
Spoil(k) == entry' = [entry EXCEPT ![k] = Garbage] /\ UNCHANGED <<now, answer>>

StoreNext ==
    \/ Clock
    \/ \E k \in Keys : Spoil(k)
    \/ \E op \in Ops : Fail(op)
    \/ \E k \in Keys :
          \/ Remove(k)
          \/ \E maxAge \in MaxAges : Get(k, maxAge)
          \/ \E ts \in Times, v \in Values : Set(k, ts, v) \/ SetIfNewer(k, ts, v)

StoreSpec == StoreInit /\ [][StoreNext]_storeVars

=============================================================================
