----------------------------- MODULE RemoteInfo -----------------------------
(***************************************************************************)
(* The callers of the API cache of one remote: get_resources_for_remote,   *)
(* get_subscription_info_for_remote and its uncached form, the             *)
(* invalidation after a key was pushed or cleared                          *)
(* (server/src/api/resources.rs), and get_location_info_for_remote with its *)
(* fallback to any cached value (server/src/location_cache.rs).  The cache *)
(* is CacheStore, which NamespacedCache implements; what it answers is     *)
(* passed on in the same step, in lookup, so reply is not used here.       *)
(*                                                                         *)
(* What a remote reports under a key changes over time; a value is the     *)
(* number of the change, and replaced[k][v] the time at which v ceased to   *)
(* be what the remote reports.                                             *)
(***************************************************************************)
EXTENDS Integers

CONSTANTS
    Callers,     \* the users of the cache
    Kinds,       \* the calls that are made: see KeyOf, and "invalidate"
    InfoKeys,    \* the keys they use
    InfoAges,    \* the maximum ages they ask for
    MaxVersion,  \* bound: the changes of the remote
    MaxTime,     \* bound: the clock
    MaxDelay,    \* the longest time from the remote's answer to the caller's stamp
    Never,
    NoValue,     \* no entry, or an entry that says that there is no location
    Failed,      \* the call failed
    Unreadable,  \* a file that does not parse
    AnyAge       \* no maximum age: no caller here asks so

VARIABLES
    clock,     \* the wall clock
    cached,    \* cached[k]: the entry of the key
    reply,     \* the answer of the cache: not used
    source,    \* source[k]: what the remote reports now
    replaced,  \* replaced[k][v]: when the remote stopped reporting v, or Never
    lookup     \* lookup[u]: the call the user is in

infoVars == <<clock, cached, reply, source, replaced, lookup>>

Versions == 0 .. MaxVersion

\* The namespace of the remote.
ApiCache == INSTANCE CacheStore WITH
    Keys <- InfoKeys, Values <- Versions, Times <- 0 .. MaxTime, MaxAges <- InfoAges,
    NoAge <- AnyAge, Nothing <- NoValue, Garbage <- Unreadable, Err <- Failed,
    now <- clock, entry <- cached, answer <- reply

KeyOf(kind) ==
    CASE kind \in {"subscription", "complete", "invalidate"} -> "subscription-state"
      [] kind = "resources" -> "resources"
      [] kind = "location" -> "location-state"

NoCall == [pc |-> "idle"]

\* started: when the call was made.  value: what was fetched (NoValue: no location).
\* at: when the remote gave that value, then the time stamp for the cache.
CallStates ==
    [pc : {"look", "fetch", "fallback", "stamp", "store", "done"}, kind : Kinds,
     maxAge : InfoAges, started : 0 .. MaxTime, value : Versions \cup {NoValue, Failed},
     at : 0 .. MaxTime]

\* An answer of the remote takes some time; an age is a number; a failure is no value.
ASSUME InfoAssumption ==
    /\ MaxDelay \in Nat \ {0} /\ MaxVersion \in Nat
    /\ InfoAges \subseteq Nat /\ AnyAge \notin InfoAges
    /\ Failed \notin Versions
    /\ Kinds \subseteq {"subscription", "complete", "invalidate", "resources", "location"}
    /\ \A kind \in Kinds : KeyOf(kind) \in InfoKeys

\* The cache, the remote and the calls have the shapes the code gives them.
InfoTypeOK ==
    /\ clock \in 0 .. MaxTime
    /\ \A k \in InfoKeys :
          cached[k] \in {NoValue} \cup [timestamp : 0 .. MaxTime, value : Versions \cup {NoValue}]
    /\ source \in [InfoKeys -> Versions]
    /\ replaced \in [InfoKeys -> [Versions -> 0 .. MaxTime \cup {Never}]]
    /\ lookup \in [Callers -> CallStates \cup {NoCall}]

InfoInit ==
    /\ clock = 0
    /\ cached = [k \in InfoKeys |-> NoValue]
    /\ reply = NoValue
    /\ source = [k \in InfoKeys |-> 0]
    /\ replaced = [k \in InfoKeys |-> [v \in Versions |-> Never]]
    /\ lookup = [u \in Callers |-> NoCall]

-----------------------------------------------------------------------------
(***************************************************************************)
(* The remote and the clock.  Time passes only while no answer of the      *)
(* remote has waited MaxDelay for its time stamp.                          *)
(***************************************************************************)
Change(k) ==
    /\ source[k] < MaxVersion
    /\ source' = [source EXCEPT ![k] = @ + 1]
    /\ replaced' = [replaced EXCEPT ![k][source[k]] = clock]
    /\ UNCHANGED <<clock, cached, reply, lookup>>

Tick ==
    /\ clock < MaxTime
    /\ \A u \in Callers : lookup[u].pc = "stamp" => clock - lookup[u].at < MaxDelay
    /\ clock' = clock + 1
    /\ UNCHANGED <<cached, reply, source, replaced, lookup>>

-----------------------------------------------------------------------------
Become(u, c) == lookup' = [lookup EXCEPT ![u] = c]

Done(u, v) ==
    Become(u, [lookup[u] EXCEPT !.pc = "done", !.value = v, !.at = lookup[u].started])

Remote == UNCHANGED <<source, replaced>>

Unmoved == UNCHANGED <<clock, cached, reply>> /\ Remote

\* What the cache gives the caller: an unreadable entry is logged and counts as none.
Cached(k, maxAge) ==
    LET got == ApiCache!GetResult(cached[k], clock, maxAge)
    IN  IF got = Failed THEN NoValue ELSE got

\* The call begins: the uncached form goes to the remote at once.
Ask(u, kind, maxAge) ==
    /\ lookup[u].pc \in {"idle", "done"} /\ kind # "invalidate"
    /\ Become(u, [pc |-> IF kind = "complete" THEN "fetch" ELSE "look", kind |-> kind,
                  maxAge |-> maxAge, started |-> clock, value |-> NoValue,
                  at |-> clock])
    /\ Unmoved

\* get_cached_...: a recent entry is the answer.
Look(u) ==
    LET c == lookup[u]
        got == Cached(KeyOf(c.kind), c.maxAge)
    IN  /\ c.pc = "look"
        /\ IF got = NoValue THEN Become(u, [c EXCEPT !.pc = "fetch"]) ELSE Done(u, got)
        /\ Unmoved

\* fetch_remote_...: the remote answers.
Fetch(u) ==
    LET c == lookup[u]
    IN  /\ c.pc = "fetch"
        /\ Become(u, [c EXCEPT !.pc = "stamp", !.value = source[KeyOf(c.kind)],
                               !.at = clock])
        /\ Unmoved

\* The remote cannot be reached: an error, or the last resort of the location.
FetchFails(u) ==
    /\ lookup[u].pc = "fetch"
    /\ IF lookup[u].kind = "location" THEN Become(u, [lookup[u] EXCEPT !.pc = "fallback"])
                                      ELSE Done(u, Failed)
    /\ Unmoved

\* get_cached_location_info with u64::MAX, clamped to the largest age.
Fallback(u) ==
    LET c == lookup[u]
    IN  /\ c.pc = "fallback"
        /\ Become(u, [c EXCEPT !.pc = "stamp", !.at = clock,
                               !.value = Cached(KeyOf(c.kind), MaxTime + 1)])
        /\ Unmoved

\* let now = epoch_i64(), after the fetch.
TakeStamp(u) ==
    /\ lookup[u].pc = "stamp"
    /\ Become(u, [lookup[u] EXCEPT !.pc = "store", !.at = clock])
    /\ Unmoved

\* update_cached_...: a newer entry of somebody else is returned instead, except to
\* the uncached form, and except when that entry says that there is no location.
StoreResult(u) ==
    LET c == lookup[u]
        k == KeyOf(c.kind)
        winner == IF ApiCache!IsNewer(cached[k], c.at) /\ cached[k].value # NoValue
                     /\ c.kind # "complete"
                  THEN cached[k].value ELSE c.value
    IN  /\ c.pc = "store"
        /\ ApiCache!SetIfNewer(k, c.at, c.value)
        /\ Done(u, winner)
        /\ Remote /\ UNCHANGED reply

\* read_remote or write_remote does not get the lock in time.
CacheFails(u) ==
    /\ lookup[u].pc \in {"look", "fallback", "store"}
    /\ Done(u, Failed)
    /\ Unmoved

\* invalidate_subscription_info_for_remote; a failure to do so is only logged.
Invalidate(u) ==
    /\ "invalidate" \in Kinds /\ lookup[u].pc \in {"idle", "done"}
    /\ ApiCache!Remove(KeyOf("invalidate"))
    /\ Remote /\ UNCHANGED <<reply, lookup>>

InfoNext ==
    \/ Tick
    \/ \E k \in InfoKeys : Change(k)
    \/ \E u \in Callers :
          \/ \E kind \in Kinds, maxAge \in InfoAges : Ask(u, kind, maxAge)
          \/ Look(u) \/ Fetch(u) \/ FetchFails(u) \/ Fallback(u) \/ TakeStamp(u)
          \/ StoreResult(u) \/ CacheFails(u) \/ Invalidate(u)

InfoSpec == InfoInit /\ [][InfoNext]_infoVars

-----------------------------------------------------------------------------
(***************************************************************************)
(* Properties.                                                             *)
(***************************************************************************)

\* v was what the remote reported at some time after t.
CurrentAfter(k, v, t) == replaced[k][v] = Never \/ replaced[k][v] > t

\* Bounded staleness: the resources and the subscription state a call returns were
\* those of the remote at most max_age, and the delay between an answer and its time
\* stamp, before the call; whichever of the cache, the remote and a concurrent caller
\* they came from, and whatever was invalidated meanwhile.
FreshEnough ==
    \A u \in Callers :
        LET c == lookup[u] IN
        c.pc = "done" /\ c.kind # "location" /\ c.value \in Versions =>
            CurrentAfter(KeyOf(c.kind), c.value, c.started - c.maxAge - MaxDelay)

\* The comment on get_location_info_for_remote: the fallback is there "so we can get a
\* location even if it was not cached within the last day and the remote is e.g.
\* offline or not reachable".  A location that was cached is not lost: it gives way
\* only to another location.
LocationKept ==
    [][cached[KeyOf("location")] # NoValue /\ cached[KeyOf("location")].value # NoValue =>
          cached'[KeyOf("location")].value # NoValue]_infoVars

=============================================================================
