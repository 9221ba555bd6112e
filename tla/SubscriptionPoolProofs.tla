---------------------- MODULE SubscriptionPoolProofs ----------------------
(***************************************************************************)
(* Type correctness and the safety invariants of the subscription pool,    *)
(* for every set of keys, remotes, nodes, concurrent calls and workers.    *)
(*                                                                         *)
(* The invariants of the pool are not inductive alone: adopt_key and       *)
(* adopt_all bind the key a node reported in an earlier step, and a push   *)
(* makes a planned key live.  The inductive invariant therefore also says  *)
(* that nodes, snapshots and plans pair keys with nodes of their product.  *)
(*                                                                         *)
(* First, how old the subscription state of a remote can be that the       *)
(* cached reads return (RemoteInfo), for every set of callers, every age   *)
(* they ask for and every delay of the remote.                             *)
(***************************************************************************)
EXTENDS SubscriptionPool, RemoteInfo, TLAPS

(***************************************************************************)
(* The callers of the cache.  FreshEnough speaks of calls that are over;   *)
(* FreshInv says of every value on its way, in a call or in the cache,     *)
(* until when it was current: a value that was fetched but not yet stamped *)
(* was current at its fetch, one in the cache at most MaxDelay before its  *)
(* time stamp.  Nothing is said of locations, whose fallback returns       *)
(* values of any age.                                                      *)
(***************************************************************************)

(* v was what the remote reported under k at t or later.                   *)
Since(R, k, v, t) == v \in Versions /\ (R[k][v] = Never \/ R[k][v] >= t)

(* An entry of the cache was current MaxDelay before its time stamp.       *)
EntryFresh(R, n, k, e) ==
    e # NoValue =>
        /\ e = [timestamp |-> e.timestamp, value |-> e.value]
        /\ e.timestamp \in 0 .. n
        /\ Since(R, k, e.value, e.timestamp - MaxDelay)

(* A call: the value it holds was current when it was fetched, which was   *)
(* after the call was made, and the time stamp is not much later.          *)
CallShape(n, c) ==
    c \in [pc : {c.pc}, kind : Kinds, maxAge : InfoAges, started : 0 .. n,
           value : {c.value}, at : 0 .. n]

CallHolds(R, n, c) ==
    LET k == KeyOf(c.kind) IN
    /\ c.pc # "fallback"
    /\ c.pc = "stamp" =>
          c.started <= c.at /\ n - c.at <= MaxDelay /\ Since(R, k, c.value, c.at)
    /\ c.pc = "store" =>
          /\ c.started <= c.at
          /\ Since(R, k, c.value, c.started) /\ Since(R, k, c.value, c.at - MaxDelay)
    /\ c.pc = "done" /\ c.value \in Versions =>
          R[k][c.value] = Never \/ R[k][c.value] > c.started - c.maxAge - MaxDelay

CallFresh(R, n, c) ==
    \/ c = NoCall
    \/ CallShape(n, c) /\ (c.kind # "location" => CallHolds(R, n, c))

(* The remote: only what it no longer reports has been replaced.           *)
SourceOK(S, R) ==
    /\ S \in [InfoKeys -> Versions]
    /\ R \in [InfoKeys -> [Versions -> Nat \cup {Never}]]
    /\ \A k \in InfoKeys, v \in Versions : v >= S[k] => R[k][v] = Never

FreshInv ==
    /\ clock \in Nat
    /\ SourceOK(source, replaced)
    /\ cached = [k \in InfoKeys |-> cached[k]]
    /\ \A k \in InfoKeys : k # "location-state" => EntryFresh(replaced, clock, k, cached[k])
    /\ lookup = [u \in Callers |-> lookup[u]]
    /\ \A u \in Callers : CallFresh(replaced, clock, lookup[u])

(* The keys of the calls.                                                  *)
LEMMA KeyKinds ==
    ASSUME NEW kind \in Kinds
    PROVE  KeyOf(kind) \in InfoKeys /\ (KeyOf(kind) = "location-state" <=> kind = "location")
<1>1. KeyOf(kind) \in InfoKeys
  BY InfoAssumption
<1>2. kind \in {"subscription", "complete", "invalidate", "resources", "location"}
  BY InfoAssumption
<1>3. KeyOf(kind) = "location-state" <=> kind = "location"
  BY <1>2 DEF KeyOf
<1> QED BY <1>1, <1>3

(* What was current at some time stays so when the remote changes later.   *)
LEMMA SinceStays ==
    ASSUME NEW n \in Nat, NEW S, NEW R, SourceOK(S, R), NEW k \in InfoKeys,
           NEW j \in InfoKeys, NEW v \in Versions, NEW t \in Int, t <= n,
           Since(R, j, v, t)
    PROVE  Since([R EXCEPT ![k][S[k]] = n], j, v, t)
<1> DEFINE Q == [R EXCEPT ![k][S[k]] = n]
<1>1. Q[j][v] = R[j][v] \/ Q[j][v] = n
  BY DEF SourceOK
<1> HIDE DEF Q
<1>2. Q[j][v] = Never \/ Q[j][v] >= t
  BY <1>1 DEF Since
<1> QED
  BY <1>2 DEF Q, Since

(* A change of the remote replaces only what it no longer reports.         *)
LEMMA SourceStep ==
    ASSUME NEW n \in Nat, NEW S, NEW R, SourceOK(S, R), NEW k \in InfoKeys,
           S[k] < MaxVersion
    PROVE  SourceOK([S EXCEPT ![k] = @ + 1], [R EXCEPT ![k][S[k]] = n])
<1> DEFINE Q == [R EXCEPT ![k][S[k]] = n]
           P == [S EXCEPT ![k] = @ + 1]
<1>1. MaxVersion \in Nat /\ S[k] \in Versions
  BY InfoAssumption DEF SourceOK
<1>2. S[k] + 1 \in Versions
  BY <1>1 DEF Versions
<1>3. P \in [InfoKeys -> Versions]
  BY <1>2 DEF SourceOK
<1>4. Q \in [InfoKeys -> [Versions -> Nat \cup {Never}]]
  BY <1>1 DEF SourceOK
<1>5. ASSUME NEW j \in InfoKeys, NEW v \in Versions, v >= P[j]
      PROVE  Q[j][v] = Never
  <2>1. v \in Int /\ S[j] \in Int
    BY InfoAssumption DEF Versions, SourceOK
  <2>2. v >= S[j] /\ (j = k => v # S[k])
    BY <1>5, <2>1 DEF SourceOK
  <2>3. Q[j][v] = R[j][v]
    BY <1>1, <2>2 DEF SourceOK
  <2> QED BY <2>2, <2>3 DEF SourceOK
<1> QED BY <1>3, <1>4, <1>5 DEF SourceOK

(* An entry stays as recent as it was, through a change and through time.  *)
LEMMA EntryStays ==
    ASSUME NEW n \in Nat, NEW S, NEW R, SourceOK(S, R), NEW k \in InfoKeys,
           NEW j \in InfoKeys, NEW e, EntryFresh(R, n, j, e)
    PROVE  /\ EntryFresh([R EXCEPT ![k][S[k]] = n], n, j, e)
           /\ EntryFresh(R, n + 1, j, e)
<1> DEFINE Q == [R EXCEPT ![k][S[k]] = n]
<1> SUFFICES ASSUME e # NoValue
             PROVE  EntryFresh(Q, n, j, e) /\ EntryFresh(R, n + 1, j, e)
  BY DEF EntryFresh
<1>1. e.timestamp \in Int /\ MaxDelay \in Nat /\ e.timestamp - MaxDelay <= n
      /\ e.timestamp \in 0 .. n + 1
  BY InfoAssumption DEF EntryFresh
<1>2. Since(R, j, e.value, e.timestamp - MaxDelay) /\ e.value \in Versions
  BY DEF EntryFresh, Since
<1>3. Since(Q, j, e.value, e.timestamp - MaxDelay)
  BY <1>1, <1>2, SinceStays
<1> HIDE DEF Q
<1> QED
  BY <1>1, <1>2, <1>3 DEF EntryFresh

(* So does what a call holds, through a change of the remote.              *)
LEMMA CallStays ==
    ASSUME NEW n \in Nat, NEW S, NEW R, SourceOK(S, R), NEW k \in InfoKeys,
           NEW c, CallFresh(R, n, c)
    PROVE  CallFresh([R EXCEPT ![k][S[k]] = n], n, c)
<1> DEFINE Q == [R EXCEPT ![k][S[k]] = n]
           j == KeyOf(c.kind)
<1> SUFFICES ASSUME CallShape(n, c), c.kind # "location", CallHolds(R, n, c)
             PROVE  CallHolds(Q, n, c)
  BY DEF CallFresh
<1>1. /\ j \in InfoKeys /\ c.started \in 0 .. n /\ c.at \in 0 .. n /\ c.maxAge \in Nat
      /\ MaxDelay \in Nat \ {0}
  BY KeyKinds, InfoAssumption DEF CallShape
<1>2. \A v \in Versions, t \in Int : t <= n /\ Since(R, j, v, t) => Since(Q, j, v, t)
  BY <1>1, SinceStays
<1>3. \A v \in Versions : Q[j][v] = R[j][v] \/ Q[j][v] = n
  BY <1>1 DEF SourceOK
<1> HIDE DEF Q
<1>4. c.pc = "stamp" => Since(Q, j, c.value, c.at)
  BY <1>1, <1>2 DEF CallHolds, Since
<1>5. c.pc = "store" => Since(Q, j, c.value, c.started) /\ Since(Q, j, c.value, c.at - MaxDelay)
  <2>1. c.at - MaxDelay \in Int /\ c.at - MaxDelay <= n /\ c.started \in Int /\ c.started <= n
    BY <1>1
  <2> QED
    BY <1>2, <2>1 DEF CallHolds, Since
<1>6. ASSUME c.pc = "done", c.value \in Versions
      PROVE  Q[j][c.value] = Never \/ Q[j][c.value] > c.started - c.maxAge - MaxDelay
  <2>1. n > c.started - c.maxAge - MaxDelay
    BY <1>1
  <2> QED
    BY <1>3, <1>6, <2>1 DEF CallHolds
<1> HIDE DEF j
<1> QED
  BY <1>4, <1>5, <1>6 DEF CallHolds, j

(* And through time, as long as the time stamp is not overdue (Tick).      *)
LEMMA CallAges ==
    ASSUME NEW n \in Nat, NEW R, NEW c, CallFresh(R, n, c),
           c.pc = "stamp" => n - c.at < MaxDelay
    PROVE  CallFresh(R, n + 1, c)
<1> SUFFICES ASSUME CallShape(n, c)
             PROVE  CallShape(n + 1, c) /\ (CallHolds(R, n, c) => CallHolds(R, n + 1, c))
  BY DEF CallFresh
<1>1. MaxDelay \in Nat /\ c.at \in 0 .. n /\ c.started \in 0 .. n
  BY InfoAssumption DEF CallShape
<1>2. CallShape(n + 1, c)
  BY <1>1 DEF CallShape
<1>3. c.pc = "stamp" => (n + 1) - c.at <= MaxDelay
  BY <1>1
<1>4. CallHolds(R, n, c) => CallHolds(R, n + 1, c)
  <2> SUFFICES ASSUME CallHolds(R, n, c) PROVE CallHolds(R, n + 1, c)
    OBVIOUS
  <2>1. c.pc = "stamp" =>
           /\ c.started <= c.at /\ (n + 1) - c.at <= MaxDelay
           /\ Since(R, KeyOf(c.kind), c.value, c.at)
    BY <1>3 DEF CallHolds
  <2> QED
    BY <2>1, Zenon DEF CallHolds
<1> QED BY <1>2, <1>4

(* One call moves on, by a step that leaves the clock and the remote.      *)
LEMMA OneStep ==
    ASSUME NEW u \in Callers, NEW d, FreshInv, Become(u, d), Remote, clock' = clock,
           CallFresh(replaced, clock, d), cached' = [k \in InfoKeys |-> cached'[k]],
           \A k \in InfoKeys :
              k # "location-state" => EntryFresh(replaced, clock, k, cached'[k])
    PROVE  FreshInv'
<1>1. lookup' = [x \in Callers |-> IF x = u THEN d ELSE lookup[x]]
  BY DEF Become, FreshInv
<1>2. lookup' = [x \in Callers |-> lookup'[x]]
  BY <1>1
<1>3. \A x \in Callers : CallFresh(replaced, clock, lookup'[x])
  BY <1>1 DEF FreshInv
<1>4. replaced' = replaced /\ source' = source
  BY DEF Remote
<1> QED
  BY <1>2, <1>3, <1>4 DEF FreshInv

(* The same for a step that leaves the cache as well.                      *)
LEMMA OneCall ==
    ASSUME NEW u \in Callers, NEW d, FreshInv, Become(u, d), Unmoved,
           CallFresh(replaced, clock, d)
    PROVE  FreshInv'
<1>1. Remote /\ clock' = clock /\ cached' = cached
  BY DEF Unmoved
<1>2. /\ cached' = [k \in InfoKeys |-> cached'[k]]
      /\ \A k \in InfoKeys :
            k # "location-state" => EntryFresh(replaced, clock, k, cached'[k])
  BY <1>1 DEF FreshInv
<1> QED
  BY <1>1, <1>2, OneStep

(* What the remote reports changes.                                        *)
LEMMA ChangeStep ==
    ASSUME NEW k \in InfoKeys, FreshInv, Change(k)
    PROVE  FreshInv'
<1> DEFINE Q == [replaced EXCEPT ![k][source[k]] = clock]
<1>1. /\ clock \in Nat /\ SourceOK(source, replaced) /\ source[k] < MaxVersion
      /\ source' = [source EXCEPT ![k] = @ + 1] /\ replaced' = Q
      /\ clock' = clock /\ cached' = cached /\ lookup' = lookup
  BY DEF FreshInv, Change
<1>2. SourceOK(source', replaced')
  BY <1>1, SourceStep, Zenon
<1>3. \A j \in InfoKeys : j # "location-state" => EntryFresh(Q, clock, j, cached[j])
  BY <1>1, EntryStays, Zenon DEF FreshInv
<1>4. \A u \in Callers : CallFresh(Q, clock, lookup[u])
  BY <1>1, CallStays, Zenon DEF FreshInv
<1> HIDE DEF Q
<1> QED
  BY <1>1, <1>2, <1>3, <1>4 DEF FreshInv

(* Time passes.                                                            *)
LEMMA TickStep ==
    ASSUME FreshInv, Tick
    PROVE  FreshInv'
<1>1. /\ clock \in Nat /\ SourceOK(source, replaced) /\ clock' = clock + 1
      /\ source' = source /\ replaced' = replaced /\ cached' = cached /\ lookup' = lookup
      /\ \A u \in Callers : lookup[u].pc = "stamp" => clock - lookup[u].at < MaxDelay
  BY DEF FreshInv, Tick
<1>2. \A j \in InfoKeys : j # "location-state" => EntryFresh(replaced, clock + 1, j, cached[j])
  BY <1>1, EntryStays, Zenon DEF FreshInv
<1>3. \A u \in Callers : CallFresh(replaced, clock + 1, lookup[u])
  BY <1>1, CallAges DEF FreshInv
<1>4. clock + 1 \in Nat
  BY <1>1
<1> QED
  BY <1>1, <1>2, <1>3, <1>4 DEF FreshInv

(* The call with another place, value and time.                            *)
MovedOn(c, p, v, t) == [c EXCEPT !.pc = p, !.value = v, !.at = t]

(* A call that takes a value with a time keeps what was asked for.         *)
LEMMA Moved ==
    ASSUME NEW n, NEW c, CallShape(n, c), NEW p, NEW v, NEW t \in 0 .. n
    PROVE  /\ CallShape(n, MovedOn(c, p, v, t))
           /\ MovedOn(c, p, v, t).pc = p
           /\ MovedOn(c, p, v, t).value = v
           /\ MovedOn(c, p, v, t).at = t
           /\ MovedOn(c, p, v, t).kind = c.kind
           /\ MovedOn(c, p, v, t).maxAge = c.maxAge
           /\ MovedOn(c, p, v, t).started = c.started
<1> DEFINE d == [c EXCEPT !.pc = p, !.value = v, !.at = t]
<1>1. d \in [pc : {p}, kind : {c.kind}, maxAge : {c.maxAge}, started : {c.started},
             value : {v}, at : {t}]
  BY Zenon DEF CallShape
<1>2. c.kind \in Kinds /\ c.maxAge \in InfoAges /\ c.started \in 0 .. n
  BY DEF CallShape
<1> HIDE DEF d
<1>3. /\ d.pc = p /\ d.value = v /\ d.at = t
      /\ d.kind = c.kind /\ d.maxAge = c.maxAge /\ d.started = c.started
  BY <1>1
<1>4. CallShape(n, d)
  BY <1>1, <1>2 DEF CallShape
<1> QED BY <1>3, <1>4 DEF d, MovedOn

(* A call begins without a value.                                          *)
LEMMA AskStep ==
    ASSUME NEW u \in Callers, NEW kind \in Kinds, NEW age \in InfoAges, FreshInv,
           Ask(u, kind, age)
    PROVE  FreshInv'
<1> DEFINE d == [pc |-> IF kind = "complete" THEN "fetch" ELSE "look", kind |-> kind,
                 maxAge |-> age, started |-> clock, value |-> NoValue, at |-> clock]
<1>1. d.pc \notin {"fallback", "stamp", "store", "done"}
  OBVIOUS
<1>2. clock \in 0 .. clock
  BY DEF FreshInv
<1>3. CallShape(clock, d)
  BY <1>2 DEF CallShape
<1>4. Become(u, d) /\ Unmoved
  BY Zenon DEF Ask
<1> HIDE DEF d
<1>5. CallFresh(replaced, clock, d)
  BY <1>1, <1>3 DEF CallFresh, CallHolds
<1> QED
  BY <1>4, <1>5, OneCall

(* A call that is over with something that is no value, or is recent.      *)
LEMMA DoneFresh ==
    ASSUME NEW u \in Callers, NEW v, FreshInv, lookup[u] # NoCall,
           lookup[u].kind # "location" /\ v \in Versions =>
              CurrentAfter(KeyOf(lookup[u].kind), v,
                           lookup[u].started - lookup[u].maxAge - MaxDelay)
    PROVE  CallFresh(replaced, clock, MovedOn(lookup[u], "done", v, lookup[u].started))
<1> DEFINE c == lookup[u]
           d == MovedOn(c, "done", v, c.started)
<1>1. CallShape(clock, c)
  BY DEF FreshInv, CallFresh
<1>2. c.started \in 0 .. clock
  BY <1>1 DEF CallShape
<1>3. CallShape(clock, d) /\ d.kind = c.kind /\ d.pc = "done" /\ d.value = v
      /\ d.started = c.started /\ d.maxAge = c.maxAge
  <2> HIDE DEF c
  <2> QED BY <1>1, <1>2, Moved
<1> HIDE DEF d
<1>4. d.kind # "location" => CallHolds(replaced, clock, d)
  BY <1>3 DEF CallHolds, CurrentAfter
<1>5. CallFresh(replaced, clock, d)
  BY <1>3, <1>4 DEF CallFresh
<1> QED
  BY <1>5 DEF d

(* The step in which a call ends, with the cache as it was.                *)
LEMMA DoneStep ==
    ASSUME NEW u \in Callers, NEW v, FreshInv, Done(u, v), Unmoved, lookup[u] # NoCall,
           lookup[u].kind # "location" /\ v \in Versions =>
              CurrentAfter(KeyOf(lookup[u].kind), v,
                           lookup[u].started - lookup[u].maxAge - MaxDelay)
    PROVE  FreshInv'
<1>1. Become(u, MovedOn(lookup[u], "done", v, lookup[u].started))
  BY Zenon DEF Done, MovedOn
<1> QED
  BY <1>1, DoneFresh, OneCall

(* A step to another place of the call that holds no value yet.            *)
LEMMA GotoStep ==
    ASSUME NEW u \in Callers, NEW p, FreshInv, Become(u, [lookup[u] EXCEPT !.pc = p]),
           Unmoved, lookup[u] # NoCall,
           p = "fetch" \/ (p = "fallback" /\ lookup[u].kind = "location")
    PROVE  FreshInv'
<1> DEFINE c == lookup[u]
           d == [c EXCEPT !.pc = p]
<1>1. CallShape(clock, c)
  BY DEF FreshInv, CallFresh
<1>2. d \in [pc : {p}, kind : {c.kind}, maxAge : InfoAges, started : 0 .. clock,
             value : {c.value}, at : 0 .. clock]
  BY <1>1, Zenon DEF CallShape
<1>3. c.kind \in Kinds
  BY <1>1 DEF CallShape
<1> HIDE DEF d
<1>4. CallShape(clock, d) /\ d.pc = p /\ d.kind = c.kind
  BY <1>2, <1>3 DEF CallShape
<1>5. CallFresh(replaced, clock, d)
  BY <1>4 DEF CallFresh, CallHolds
<1> QED
  BY <1>5, OneCall DEF d

(* What the cache gives is NoValue, or an entry of the last maxAge.        *)
LEMMA CachedIsRecent ==
    ASSUME NEW k, NEW age \in InfoAges, Cached(k, age) # NoValue
    PROVE  /\ cached[k] # NoValue /\ Cached(k, age) = cached[k].value
           /\ ~(clock - cached[k].timestamp >= age)
<1>1. age # AnyAge
  BY InfoAssumption
<1> QED
  BY <1>1 DEF Cached, ApiCache!GetResult, ApiCache!IsExpired

(* A cache hit is recent enough for the age the caller asked for.          *)
LEMMA LookStep ==
    ASSUME NEW u \in Callers, FreshInv, Look(u)
    PROVE  FreshInv'
<1> DEFINE c == lookup[u]
           k == KeyOf(c.kind)
           got == Cached(k, c.maxAge)
<1>1. c.pc = "look" /\ Unmoved /\ c # NoCall
  BY DEF Look, NoCall
<1>2. CASE got = NoValue
  <2>1. Become(u, [lookup[u] EXCEPT !.pc = "fetch"])
    BY <1>2 DEF Look
  <2> QED BY <1>1, <2>1, GotoStep
<1>3. CASE got # NoValue
  <2>1. Done(u, got)
    BY <1>3 DEF Look
  <2>2. ASSUME c.kind # "location"
        PROVE  CurrentAfter(k, got, c.started - c.maxAge - MaxDelay)
    <3>1. /\ CallShape(clock, c) /\ c.kind \in Kinds /\ c.maxAge \in Nat /\ c.maxAge \in InfoAges
          /\ c.started \in 0 .. clock /\ MaxDelay \in Nat /\ clock \in Nat
      BY <1>1, InfoAssumption DEF FreshInv, CallFresh, CallShape
    <3>2. k \in InfoKeys /\ k # "location-state"
      BY <2>2, <3>1, KeyKinds
    <3>3. EntryFresh(replaced, clock, k, cached[k])
      BY <3>2 DEF FreshInv
    <3>4. /\ cached[k] # NoValue /\ got = cached[k].value
          /\ ~(clock - cached[k].timestamp >= c.maxAge)
      <4> HIDE DEF k, c
      <4> QED BY <1>3, <3>1, CachedIsRecent, ZenonT(60)
    <3> DEFINE ts == cached[k].timestamp
               w == replaced[k][got]
    <3>5. ts \in 0 .. clock /\ (w = Never \/ w >= ts - MaxDelay) /\ got \in Versions
      BY <3>3, <3>4 DEF EntryFresh, Since
    <3>6. w = Never \/ w \in Nat
      BY <3>2, <3>5 DEF FreshInv, SourceOK
    <3> HIDE DEF w, ts, got
    <3>7. w = Never \/ w > c.started - c.maxAge - MaxDelay
      BY <3>1, <3>4, <3>5, <3>6 DEF ts
    <3> QED BY <3>7 DEF CurrentAfter, w
  <2> QED BY <1>1, <2>1, <2>2, DoneStep
<1> QED BY <1>2, <1>3

(* The remote answers with what it reports now (fetch_remote_...).         *)
LEMMA AskedStep ==
    ASSUME NEW u \in Callers, FreshInv, Fetch(u)
    PROVE  FreshInv'
<1> DEFINE c == lookup[u]
           k == KeyOf(c.kind)
           d == MovedOn(c, "stamp", source[k], clock)
<1>1. c.pc = "fetch" /\ Unmoved /\ c # NoCall /\ Become(u, d)
  BY DEF Fetch, NoCall, MovedOn
<1>2. CallShape(clock, c) /\ clock \in Nat /\ MaxDelay \in Nat
  BY <1>1, InfoAssumption DEF FreshInv, CallFresh
<1>3. clock \in 0 .. clock
  BY <1>2
<1>4. /\ CallShape(clock, d) /\ d.pc = "stamp" /\ d.value = source[k] /\ d.at = clock
      /\ d.kind = c.kind /\ d.maxAge = c.maxAge /\ d.started = c.started
  <2> HIDE DEF c, k
  <2> QED BY <1>2, <1>3, Moved
<1>5. c.kind \in Kinds /\ c.started \in 0 .. clock
  BY <1>2 DEF CallShape
<1>6. k \in InfoKeys
  BY <1>5, KeyKinds
<1>7. source[k] \in Versions /\ source[k] >= source[k] /\ replaced[k][source[k]] = Never
  BY <1>6, InfoAssumption DEF FreshInv, SourceOK, Versions
<1> HIDE DEF d
<1>8. CallHolds(replaced, clock, d)
  <2>1. d.started <= d.at /\ clock - d.at <= MaxDelay
    BY <1>2, <1>4, <1>5
  <2>2. Since(replaced, KeyOf(d.kind), d.value, d.at)
    BY <1>4, <1>7 DEF Since
  <2> QED
    BY <1>4, <2>1, <2>2 DEF CallHolds
<1>9. CallFresh(replaced, clock, d)
  BY <1>4, <1>8 DEF CallFresh
<1> QED
  BY <1>1, <1>9, OneCall

(* An error is not a value.                                                *)
LEMMA FailStep ==
    ASSUME NEW u \in Callers, FreshInv, FetchFails(u) \/ CacheFails(u)
    PROVE  FreshInv'
<1>1. Unmoved /\ lookup[u].pc # "idle"
  BY DEF FetchFails, CacheFails
<1>2. lookup[u] # NoCall
  BY <1>1 DEF NoCall
<1>3. Failed \notin Versions
  BY InfoAssumption
<1>4. CASE Done(u, Failed)
  BY <1>1, <1>2, <1>3, <1>4, DoneStep
<1>5. CASE lookup[u].kind = "location" /\ Become(u, [lookup[u] EXCEPT !.pc = "fallback"])
  BY <1>1, <1>2, <1>5, GotoStep
<1> QED
  BY <1>4, <1>5 DEF FetchFails, CacheFails

(* Only a location falls back to an entry of any age.                      *)
LEMMA FallbackStep ==
    ASSUME NEW u \in Callers, FreshInv, Fallback(u)
    PROVE  FreshInv'
<1> DEFINE c == lookup[u]
           v == Cached(KeyOf(c.kind), MaxTime + 1)
           d == MovedOn(c, "stamp", v, clock)
<1>1. c.pc = "fallback" /\ Unmoved /\ c # NoCall
  BY DEF Fallback, NoCall
<1>2. Become(u, d)
  <2>1. d = [c EXCEPT !.pc = "stamp", !.at = clock, !.value = v]
    BY Zenon DEF MovedOn
  <2> QED BY <2>1, Zenon DEF Fallback
<1>3. CallShape(clock, c) /\ clock \in Nat /\ c.kind = "location"
  BY <1>1 DEF FreshInv, CallFresh, CallHolds
<1>4. clock \in 0 .. clock
  BY <1>3
<1>5. CallShape(clock, d) /\ d.kind = c.kind
  <2> HIDE DEF c, v
  <2> QED BY <1>3, <1>4, Moved
<1> HIDE DEF d
<1>6. CallFresh(replaced, clock, d)
  BY <1>3, <1>5 DEF CallFresh
<1> QED
  BY <1>1, <1>2, <1>6, OneCall

(* What was current at t or later was so at an earlier time or later.      *)
LEMMA SinceEarlier ==
    ASSUME NEW S, NEW R, SourceOK(S, R), NEW k \in InfoKeys, NEW v, NEW t \in Int,
           NEW s \in Int, s <= t, Since(R, k, v, t)
    PROVE  Since(R, k, v, s)
<1>1. v \in Versions /\ R[k][v] \in Nat \cup {Never}
  BY DEF Since, SourceOK
<1> QED
  BY <1>1 DEF Since

(* The time stamp is at most MaxDelay after the answer (epoch_i64).        *)
LEMMA StampStep ==
    ASSUME NEW u \in Callers, FreshInv, TakeStamp(u)
    PROVE  FreshInv'
<1> DEFINE c == lookup[u]
           d == [c EXCEPT !.pc = "store", !.at = clock]
           k == KeyOf(c.kind)
<1>1. c.pc = "stamp" /\ Unmoved /\ c # NoCall /\ Become(u, d)
  BY DEF TakeStamp, NoCall
<1>2. CallShape(clock, c) /\ clock \in Nat /\ MaxDelay \in Nat
  BY <1>1, InfoAssumption DEF FreshInv, CallFresh
<1>3. /\ c.started \in 0 .. clock /\ c.kind \in Kinds /\ c.maxAge \in InfoAges
      /\ c.at \in 0 .. clock /\ clock \in 0 .. clock
  BY <1>2 DEF CallShape
<1>4. d \in [pc : {"store"}, kind : {c.kind}, maxAge : {c.maxAge}, started : {c.started},
             value : {c.value}, at : {clock}]
  BY <1>2, Zenon DEF CallShape
<1> HIDE DEF d
<1>5. /\ d.pc = "store" /\ d.kind = c.kind /\ d.started = c.started /\ d.value = c.value
      /\ d.at = clock
  BY <1>4
<1>6. CallShape(clock, d)
  BY <1>3, <1>4 DEF CallShape
<1>7. ASSUME c.kind # "location"
      PROVE  CallHolds(replaced, clock, d)
  <2>1. c.started <= c.at /\ clock - c.at <= MaxDelay /\ Since(replaced, k, c.value, c.at)
    BY <1>1, <1>7 DEF FreshInv, CallFresh, CallHolds
  <2>2. /\ c.started \in Int /\ c.at \in Int /\ clock - MaxDelay \in Int
        /\ clock - MaxDelay <= c.at /\ c.started <= clock
    BY <1>2, <1>3, <2>1
  <2>3. k \in InfoKeys /\ SourceOK(source, replaced)
    BY <1>3, KeyKinds DEF FreshInv
  <2>4. Since(replaced, k, c.value, c.started) /\ Since(replaced, k, c.value, clock - MaxDelay)
    BY <2>1, <2>2, <2>3, SinceEarlier
  <2> QED
    BY <1>5, <2>2, <2>4 DEF CallHolds
<1>8. CallFresh(replaced, clock, d)
  BY <1>5, <1>6, <1>7 DEF CallFresh
<1> QED
  BY <1>1, <1>8, OneCall

(* An entry of the cache is replaced or removed.                           *)
LEMMA EntryStep ==
    ASSUME FreshInv, NEW j, NEW e, cached' = [cached EXCEPT ![j] = e],
           j # "location-state" /\ j \in InfoKeys => EntryFresh(replaced, clock, j, e)
    PROVE  /\ cached' = [k \in InfoKeys |-> cached'[k]]
           /\ \A k \in InfoKeys :
                 k # "location-state" => EntryFresh(replaced, clock, k, cached'[k])
<1>1. cached' = [k \in InfoKeys |-> IF k = j THEN e ELSE cached[k]]
  BY DEF FreshInv
<1> QED
  BY <1>1 DEF FreshInv

(* What set_if_newer leaves in the cache is recent for its time stamp, and *)
(* so is what the caller gets (update_cached_...).                         *)
LEMMA StoreStep ==
    ASSUME NEW u \in Callers, FreshInv, StoreResult(u)
    PROVE  FreshInv'
<1> DEFINE c == lookup[u]
           k == KeyOf(c.kind)
           newer == ApiCache!IsNewer(cached[k], c.at)
           v == IF newer /\ cached[k].value # NoValue /\ c.kind # "complete"
                THEN cached[k].value ELSE c.value
           e == [timestamp |-> c.at, value |-> c.value]
<1>1. c.pc = "store" /\ Done(u, v) /\ Remote /\ ApiCache!SetIfNewer(k, c.at, c.value)
  BY ZenonT(60) DEF StoreResult
<1>2. clock' = clock /\ (cached' = cached \/ cached' = [cached EXCEPT ![k] = e])
  BY <1>1 DEF ApiCache!SetIfNewer, ApiCache!Replace, ApiCache!Entry
<1>3. c # NoCall
  BY <1>1 DEF NoCall
<1>4. CallShape(clock, c) /\ SourceOK(source, replaced)
  BY <1>3 DEF FreshInv, CallFresh
<1>5. /\ c.started \in 0 .. clock /\ c.kind \in Kinds /\ c.maxAge \in Nat
      /\ c.at \in 0 .. clock /\ clock \in Nat /\ MaxDelay \in Nat \ {0}
  BY <1>4, InfoAssumption DEF CallShape, FreshInv
<1>6. k \in InfoKeys /\ (k = "location-state" <=> c.kind = "location")
  BY <1>5, KeyKinds, Zenon
<1>7. c.kind # "location" =>
         /\ c.started <= c.at /\ Since(replaced, k, c.value, c.started)
         /\ Since(replaced, k, c.value, c.at - MaxDelay)
  BY <1>1, <1>3, ZenonT(60) DEF FreshInv, CallFresh, CallHolds
<1>8. c.kind # "location" => EntryFresh(replaced, clock, k, e)
  BY <1>5, <1>7 DEF EntryFresh
<1>9. /\ cached' = [x \in InfoKeys |-> cached'[x]]
      /\ \A x \in InfoKeys :
            x # "location-state" => EntryFresh(replaced, clock, x, cached'[x])
  <2>1. CASE cached' = cached
    BY <2>1 DEF FreshInv
  <2>2. CASE cached' = [cached EXCEPT ![k] = e]
    <3> HIDE DEF k, e, c
    <3> QED BY <1>6, <1>8, <2>2, EntryStep, Zenon
  <2> QED BY <1>2, <2>1, <2>2
<1>10. ASSUME c.kind # "location", v \in Versions
       PROVE  CurrentAfter(k, v, c.started - c.maxAge - MaxDelay)
  <2>1. v = c.value \/ (newer /\ v = cached[k].value)
    BY Zenon
  <2>2. newer => cached[k] # NoValue /\ cached[k].timestamp > c.at
    BY Zenon DEF ApiCache!IsNewer, ApiCache!IsEntry
  <2>3. EntryFresh(replaced, clock, k, cached[k])
    BY <1>6, <1>10, Zenon DEF FreshInv
  <2> HIDE DEF v, newer, k, c
  <2>4. replaced[k][v] \in Nat \cup {Never}
    BY <1>4, <1>6, <1>10 DEF SourceOK
  <2>5. CASE v = c.value
    <3>1. replaced[k][v] = Never \/ replaced[k][v] >= c.started
      BY <1>7, <1>10, <2>5, Zenon DEF Since
    <3> QED BY <1>5, <2>4, <3>1 DEF CurrentAfter
  <2>6. CASE newer /\ v = cached[k].value
    <3> DEFINE ts == cached[k].timestamp
    <3>1. ts > c.at /\ c.started <= c.at
      BY <1>7, <1>10, <2>2, <2>6, Zenon
    <3>2. ts \in 0 .. clock /\ (replaced[k][v] = Never \/ replaced[k][v] >= ts - MaxDelay)
      BY <2>2, <2>3, <2>6, ZenonT(60) DEF EntryFresh, Since
    <3> HIDE DEF ts
    <3> QED BY <1>5, <2>4, <3>1, <3>2 DEF CurrentAfter
  <2> QED BY <2>1, <2>5, <2>6, Zenon
<1>11. CallFresh(replaced, clock, MovedOn(c, "done", v, c.started))
  <2> HIDE DEF v
  <2> QED BY <1>3, <1>10, DoneFresh
<1>12. Become(u, MovedOn(c, "done", v, c.started))
  BY <1>1, Zenon DEF Done, MovedOn
<1> HIDE DEF v, c
<1> QED
  BY <1>1, <1>2, <1>9, <1>11, <1>12, OneStep

(* An entry that is removed makes no claim.                                *)
LEMMA InvalidateStep ==
    ASSUME NEW u \in Callers, FreshInv, Invalidate(u)
    PROVE  FreshInv'
<1> DEFINE j == KeyOf("invalidate")
<1>1. /\ cached' = [cached EXCEPT ![j] = NoValue] /\ clock' = clock
      /\ lookup' = lookup /\ source' = source /\ replaced' = replaced
  BY DEF Invalidate, ApiCache!Remove, Remote
<1>2. EntryFresh(replaced, clock, j, NoValue)
  BY DEF EntryFresh
<1>3. /\ cached' = [k \in InfoKeys |-> cached'[k]]
      /\ \A k \in InfoKeys :
            k # "location-state" => EntryFresh(replaced, clock, k, cached'[k])
  <2> HIDE DEF j
  <2> QED BY <1>1, <1>2, EntryStep, Zenon
<1> QED
  BY <1>1, <1>3 DEF FreshInv

(* For any callers, keys and ages, any number of changes of the remote and *)
(* any delay between an answer and its time stamp: what a call returns was *)
(* what the remote reported at most max_age and that delay before the call *)
(* (get_resources_for_remote, get_subscription_info_for_remote).           *)
THEOREM AnswersAreFresh == InfoSpec => []FreshEnough
<1>1. InfoInit => FreshInv
  <2> SUFFICES ASSUME InfoInit PROVE FreshInv
    OBVIOUS
  <2>1. 0 \in Versions
    BY InfoAssumption DEF Versions
  <2>2. SourceOK(source, replaced)
    BY <2>1 DEF InfoInit, SourceOK
  <2>3. /\ cached = [k \in InfoKeys |-> cached[k]]
        /\ \A k \in InfoKeys : EntryFresh(replaced, clock, k, cached[k])
    BY DEF InfoInit, EntryFresh
  <2>4. /\ lookup = [u \in Callers |-> lookup[u]]
        /\ \A u \in Callers : CallFresh(replaced, clock, lookup[u])
    BY DEF InfoInit, CallFresh
  <2> QED
    BY <2>2, <2>3, <2>4 DEF FreshInv, InfoInit
<1>2. FreshInv /\ [InfoNext]_infoVars => FreshInv'
  <2> SUFFICES ASSUME FreshInv, [InfoNext]_infoVars PROVE FreshInv'
    OBVIOUS
  <2>1. CASE Tick
    BY <2>1, TickStep
  <2>2. ASSUME NEW k \in InfoKeys, Change(k) PROVE FreshInv'
    BY <2>2, ChangeStep
  <2>3. ASSUME NEW u \in Callers, NEW kind \in Kinds, NEW age \in InfoAges,
               Ask(u, kind, age)
        PROVE  FreshInv'
    BY <2>3, AskStep
  <2>4. ASSUME NEW u \in Callers,
               \/ Look(u) \/ Fetch(u) \/ FetchFails(u) \/ Fallback(u) \/ TakeStamp(u)
               \/ StoreResult(u) \/ CacheFails(u) \/ Invalidate(u)
        PROVE  FreshInv'
    BY <2>4, LookStep, AskedStep, FailStep, FallbackStep, StampStep, StoreStep,
       InvalidateStep
  <2>5. CASE UNCHANGED infoVars
    BY <2>5 DEF infoVars, FreshInv
  <2> QED
    BY <2>1, <2>2, <2>3, <2>4, <2>5 DEF InfoNext
<1>3. FreshInv => FreshEnough
  <2> SUFFICES ASSUME FreshInv, NEW u \in Callers, lookup[u].pc = "done",
                      lookup[u].kind # "location", lookup[u].value \in Versions
               PROVE  CurrentAfter(KeyOf(lookup[u].kind), lookup[u].value,
                                   lookup[u].started - lookup[u].maxAge - MaxDelay)
    BY DEF FreshEnough
  <2>1. lookup[u] # NoCall
    BY DEF NoCall
  <2>2. CallHolds(replaced, clock, lookup[u])
    BY <2>1 DEF FreshInv, CallFresh
  <2> QED
    BY <2>2 DEF CallHolds, CurrentAfter
<1> QED
  BY <1>1, <1>2, <1>3, PTL DEF InfoSpec

-----------------------------------------------------------------------------
(***************************************************************************)
(* The subscription pool.                                                  *)
(***************************************************************************)

(* What every writer keeps true of the pool                                *)
PoolOK(c) ==
    /\ c \in Pools
    /\ \A j, k \in DOMAIN c : c[j].target = c[k].target /\ c[j].target # Unbound => j = k
    /\ \A k \in DOMAIN c : c[k].target = Unbound => ~c[k].pending_clear
    /\ \A k \in DOMAIN c : c[k].target # Unbound => Matches(k, c[k].target)

StatOK(stat) ==
    /\ stat \in [Targets -> Rows]
    /\ \A t \in Targets : stat[t].key # NoKey => Matches(stat[t].key, t)

PlanOK(plan) ==
    /\ plan \subseteq PendingEntry
    /\ \A e \in plan : Matches(e.key, e.target)

(* A proposal has one entry for a key and one for a node.                  *)
OneEach(plan) ==
    \A e, f \in plan : e.key = f.key \/ e.target = f.target => e = f

CallOK(c) ==
    /\ c \in Call
    /\ StatOK(c.stat)
    /\ PlanOK(c.plan)
    /\ c.op = "auto" => OneEach(c.plan)
    /\ c.pc = "check" => c.op \in {"delete", "clear", "set"}
    /\ c.op = "set" => c.key \in Keys /\ c.target \in Targets
    /\ c.op = "adopt" => c.target \in Targets
    /\ c.op = "adopt" /\ c.pc = "commit" => c.key \in Keys /\ Matches(c.key, c.target)

WorkOK(v) ==
    /\ v \in Work
    /\ StatOK(v.stat)
    /\ PlanOK(v.todo)
    /\ PlanOK(v.cur)

LiveOK(f) ==
    /\ f \in [Targets -> Subs]
    /\ \A t \in Targets : WellTyped(t, f[t])

(* The inductive invariant                                                 *)
IInv ==
    /\ PoolOK(pool)
    /\ remotes \in SUBSET Remotes
    /\ LiveOK(live)
    /\ call \in [Handlers -> Call] /\ \A h \in Handlers : CallOK(call[h])
    /\ work \in [Workers -> Work] /\ \A w \in Workers : WorkOK(work[w])

-----------------------------------------------------------------------------
(* Pools as functions: a set of functions with varying domains             *)

(* A pool is a function from some of the keys to entries.                  *)
LEMMA PoolsElim ==
    ASSUME NEW c \in Pools
    PROVE  /\ DOMAIN c \subseteq Keys
           /\ c = [k \in DOMAIN c |-> c[k]]
           /\ \A k \in DOMAIN c : c[k] \in Entry
  BY DEF Pools

(* A function from some of the keys to entries is a pool.                  *)
LEMMA PoolsIntro ==
    ASSUME NEW ks \in SUBSET Keys, NEW c \in [ks -> Entry]
    PROVE  c \in Pools
  BY DEF Pools

(* Writing one entry keeps the pool sound when the entry is: what          *)
(* set_assignment, clear_assignment, adopt_key and the worker write.       *)
LEMMA PutOK ==
    ASSUME NEW c, PoolOK(c), NEW k \in Keys, NEW e \in Entry,
           e.target = Unbound => ~e.pending_clear,
           e.target # Unbound => Matches(k, e.target),
           e.target # Unbound => \A j \in DOMAIN c \ {k} : c[j].target # e.target
    PROVE  PoolOK(Put(c, k, e))
  <1> DEFINE d == Put(c, k, e)
  <1>1. /\ DOMAIN c \subseteq Keys
        /\ \A j \in DOMAIN c : c[j] \in Entry
    BY PoolsElim DEF PoolOK
  <1>2. DOMAIN d = DOMAIN c \cup {k}
    BY DEF Put
  <1>3. \A j \in DOMAIN d : d[j] = IF j = k THEN e ELSE c[j]
    BY DEF Put
  <1>4. d \in [DOMAIN c \cup {k} -> Entry]
    BY <1>1 DEF Put
  <1>5. d \in Pools
    BY <1>1, <1>4, PoolsIntro
  <1> HIDE DEF d
  <1>6. PoolOK(d)
    BY <1>2, <1>3, <1>5 DEF PoolOK
  <1> QED
    BY <1>6 DEF d

(* Removing an entry keeps the pool sound (delete_key).                    *)
LEMMA WithoutOK ==
    ASSUME NEW c, PoolOK(c), NEW k
    PROVE  PoolOK(Without(c, k))
  <1> DEFINE d == Without(c, k)
  <1>1. /\ DOMAIN c \subseteq Keys
        /\ \A j \in DOMAIN c : c[j] \in Entry
    BY PoolsElim DEF PoolOK
  <1>2. DOMAIN d = DOMAIN c \ {k} /\ \A j \in DOMAIN d : d[j] = c[j]
    BY DEF Without
  <1>3. d \in [DOMAIN c \ {k} -> Entry]
    BY <1>1 DEF Without
  <1>4. d \in Pools
    BY <1>1, <1>3, PoolsIntro
  <1> HIDE DEF d
  <1>5. PoolOK(d)
    BY <1>2, <1>4 DEF PoolOK
  <1> QED
    BY <1>5 DEF d

(* Rewriting entries in place keeps the pool sound when each is kept,      *)
(* loses its flag, or is freed (queue, revert and discard write these).    *)
LEMMA RewriteOK ==
    ASSUME NEW c, PoolOK(c), NEW d, DOMAIN d = DOMAIN c, d = [k \in DOMAIN d |-> d[k]],
           \A k \in DOMAIN c :
              /\ d[k] \in Entry
              /\ d[k].target \in {c[k].target, Unbound}
              /\ d[k].target = Unbound => ~d[k].pending_clear
    PROVE  PoolOK(d)
  <1>1. DOMAIN c \subseteq Keys
    BY PoolsElim DEF PoolOK
  <1>2. d \in [DOMAIN c -> Entry]
    OBVIOUS
  <1>3. d \in Pools
    BY <1>1, <1>2, PoolsIntro
  <1> QED
    BY <1>3 DEF PoolOK

-----------------------------------------------------------------------------
(* The pool, one action at a time                                          *)

(* add_keys inserts free entries only.                                     *)
LEMMA AddOK ==
    ASSUME IInv, NEW ks \in SUBSET Keys, add_keys(ks)
    PROVE  PoolOK(pool')
  <1>1. /\ DOMAIN pool \subseteq Keys
        /\ \A j \in DOMAIN pool : pool[j] \in Entry
    BY PoolsElim DEF PoolOK, IInv
  <1>2. /\ DOMAIN pool' = DOMAIN pool \cup ks
        /\ \A k \in DOMAIN pool' : pool'[k] = IF k \in ks THEN Free ELSE pool[k]
    BY DEF add_keys
  <1>3. Free \in Entry /\ Free.target = Unbound /\ Free.pending_clear = FALSE
    BY DEF Free, Entry
  <1>4. pool' \in [DOMAIN pool \cup ks -> Entry]
    BY <1>1, <1>3 DEF add_keys
  <1>5. pool' \in Pools
    BY <1>1, <1>4, PoolsIntro
  <1> QED
    BY <1>2, <1>3, <1>5 DEF PoolOK, IInv

(* queue_clear and revert_pending_clear change the flag of a bound entry.  *)
LEMMA FlagOK ==
    ASSUME IInv, NEW t \in Targets, queue_clear(t) \/ revert_pending_clear(t)
    PROVE  PoolOK(pool')
  <1>1. /\ DOMAIN pool \subseteq Keys
        /\ pool = [j \in DOMAIN pool |-> pool[j]]
        /\ \A j \in DOMAIN pool : pool[j] \in Entry
    BY PoolsElim DEF PoolOK, IInv
  <1>2. PICK k \in DOMAIN pool, b \in BOOLEAN :
           pool[k].target = t /\ pool' = [pool EXCEPT ![k].pending_clear = b]
    BY Zenon DEF queue_clear, revert_pending_clear
  <1>3. t # Unbound
    BY PoolAssumption
  <1>4. /\ DOMAIN pool' = DOMAIN pool
        /\ pool' = [j \in DOMAIN pool' |-> pool'[j]]
        /\ \A j \in DOMAIN pool :
              /\ pool'[j] \in Entry
              /\ pool'[j].target = pool[j].target
              /\ j # k => pool'[j] = pool[j]
    BY <1>1, <1>2, Zenon DEF Entry
  <1>5. \A j \in DOMAIN pool : pool'[j].target = Unbound => ~pool'[j].pending_clear
    BY <1>2, <1>3, <1>4 DEF PoolOK, IInv
  <1>6. PoolOK(pool)
    BY DEF IInv
  <1> QED
    BY <1>4, <1>5, <1>6, RewriteOK

(* delete_key and clear_assignment remove or free one entry.               *)
LEMMA UnassignOK ==
    ASSUME IInv, NEW h \in Handlers, delete_key(h) \/ clear_assignment(h)
    PROVE  PoolOK(pool')
  <1>1. PoolOK(pool)
    BY DEF IInv
  <1>2. CASE delete_key(h)
    BY <1>1, <1>2, WithoutOK DEF delete_key
  <1>3. CASE clear_assignment(h)
    <2>1. CASE UnassignAllowed(call[h])
      <3>1. call[h].key \in Keys
        BY <1>1, <2>1, PoolsElim DEF UnassignAllowed, PoolOK
      <3>2. Free \in Entry /\ Free.target = Unbound /\ Free.pending_clear = FALSE
        BY DEF Free, Entry
      <3> QED
        BY <1>1, <1>3, <2>1, <3>1, <3>2, PutOK DEF clear_assignment
    <2>2. CASE ~UnassignAllowed(call[h])
      BY <1>1, <1>3, <2>2 DEF clear_assignment
    <2> QED
      BY <2>1, <2>2
  <1> QED
    BY <1>2, <1>3

(* set_assignment binds a key to a node no other key is bound to.          *)
LEMMA AssignOK ==
    ASSUME IInv, NEW h \in Handlers, set_assignment(h)
    PROVE  PoolOK(pool')
  <1> DEFINE c == call[h]
             e == [target |-> c.target, pending_clear |-> pool[c.key].pending_clear /\ ~Moves(c)]
  <1>1. PoolOK(pool)
    BY DEF IInv
  <1>2. CASE AssignAllowed(c)
    <2>1. c.key \in Keys /\ c.target \in Targets /\ c.key \in DOMAIN pool
      BY <1>2, Zenon DEF IInv, CallOK, set_assignment, At, AssignAllowed
    <2>2. e \in Entry
      BY <2>1, <1>1, PoolsElim DEF Entry, PoolOK, Moves, Bound
    <2>3. c.target # Unbound
      BY <2>1, PoolAssumption
    <2>4. Matches(c.key, c.target)
      BY <1>2, Zenon DEF AssignAllowed
    <2>5. \A j \in DOMAIN pool \ {c.key} : pool[j].target # c.target
      BY <1>2, ZenonT(60) DEF AssignAllowed, Taken, Without
    <2>6. PoolOK(Put(pool, c.key, e))
      BY <1>1, <2>1, <2>2, <2>3, <2>4, <2>5, PutOK
    <2> QED
      BY <1>2, <2>6, Zenon DEF set_assignment, Assigned
  <1>3. CASE ~AssignAllowed(c)
    BY <1>1, <1>3 DEF set_assignment
  <1> QED
    BY <1>2, <1>3

(* adopt_key binds an unbound key to a free node of its product.           *)
LEMMA AdoptOK ==
    ASSUME IInv, NEW h \in Handlers, adopt_key(h)
    PROVE  PoolOK(pool')
  <1> DEFINE c == call[h]
             e == AdoptedEntry(pool, c.key, c.target)
  <1>1. PoolOK(pool)
    BY DEF IInv
  <1>2. CASE AdoptAllowed(c)
    <2>1. c.key \in Keys /\ c.target \in Targets /\ Matches(c.key, c.target)
      BY DEF IInv, CallOK, adopt_key, At
    <2>2. e \in Entry /\ e.target = c.target
      BY <2>1, <1>1, PoolsElim DEF Entry, PoolOK, AdoptedEntry
    <2>3. c.target # Unbound
      BY <2>1, PoolAssumption
    <2>4. \A j \in DOMAIN pool : pool[j].target # c.target
      BY <1>2, ZenonT(60) DEF AdoptAllowed, Taken
    <2>5. PoolOK(Put(pool, c.key, e))
      BY <1>1, <2>1, <2>2, <2>3, <2>4, PutOK
    <2> QED
      BY <1>2, <2>5 DEF adopt_key
  <1>3. CASE ~AdoptAllowed(c)
    BY <1>1, <1>3, ZenonT(60) DEF adopt_key
  <1> QED
    BY <1>2, <1>3

(* adopt_all binds each adopted key to one of the nodes that reported it;  *)
(* a node reports one key, so no node is taken twice.                      *)
LEMMA AdoptAllOK ==
    ASSUME IInv, NEW h \in Handlers, adopt_all(h)
    PROVE  PoolOK(pool')
  <1> DEFINE c == call[h]
             adopted == {k \in Keys : DigestOK(c) /\ Adoptable(c, k) # {}}
  <1>1. PoolOK(pool) /\ StatOK(c.stat)
    BY DEF IInv, CallOK
  <1>2. /\ DOMAIN pool \subseteq Keys
        /\ \A k \in DOMAIN pool : pool[k] \in Entry
    BY <1>1, PoolsElim DEF PoolOK
  <1>3. PICK pick \in [adopted -> Targets] :
           /\ \A k \in adopted : pick[k] \in Adoptable(c, k)
           /\ pool' = [k \in DOMAIN pool \cup adopted |->
                          IF k \in adopted THEN AdoptedEntry(pool, k, pick[k]) ELSE pool[k]]
    BY Zenon DEF adopt_all
  <1>4. \A k \in adopted :
           /\ pick[k] \in Targets /\ pick[k] # Unbound
           /\ c.stat[pick[k]].key = k
           /\ Matches(k, pick[k])
           /\ \A j \in DOMAIN pool : pool[j].target # pick[k]
    <2> TAKE k \in adopted
    <2>1. pick[k] \in Adoptable(c, k) /\ k \in Keys
      BY <1>3, ZenonT(60)
    <2>2. pick[k] \in Targets /\ c.stat[pick[k]].key = k /\ ~Taken(pool, pick[k])
      BY <2>1 DEF Adoptable
    <2>3. pick[k] # Unbound /\ k # NoKey
      BY <2>1, <2>2, PoolAssumption, ZenonT(60)
    <2>4. Matches(k, pick[k])
      BY <1>1, <2>2, <2>3 DEF StatOK
    <2> QED
      BY <2>2, <2>3, <2>4, ZenonT(60) DEF Taken
  <1>5. \A k \in adopted :
           /\ AdoptedEntry(pool, k, pick[k]) \in Entry
           /\ AdoptedEntry(pool, k, pick[k]).target = pick[k]
    BY <1>2, <1>4, ZenonT(60) DEF AdoptedEntry, Entry
  <1>6. /\ DOMAIN pool' = DOMAIN pool \cup adopted
        /\ \A k \in adopted : pool'[k] = AdoptedEntry(pool, k, pick[k])
        /\ \A k \in DOMAIN pool \ adopted : pool'[k] = pool[k]
    BY <1>3
  <1> HIDE DEF adopted
  <1>7. pool' \in [DOMAIN pool \cup adopted -> Entry]
    BY <1>2, <1>3, <1>5
  <1>8. adopted \subseteq Keys
    BY DEF adopted
  <1>9. pool' \in Pools
    BY <1>2, <1>7, <1>8, PoolsIntro, Zenon
  <1> HIDE DEF c
  <1> QED
    BY <1>1, <1>4, <1>5, <1>6, <1>9 DEF PoolOK

(* bulk_assign binds keys of the proposal, each to the node of its one     *)
(* entry, and the proposal has one entry for a node.                       *)
LEMMA BulkOK ==
    ASSUME IInv, NEW h \in Handlers, bulk_assign(h)
    PROVE  PoolOK(pool')
  <1> DEFINE c == call[h]
             accepted == {e \in c.plan : pool = c.seen /\ BulkAccepts(e)}
             bound == {k \in DOMAIN pool : \E e \in accepted : e.key = k}
             entry(k) == CHOOSE e \in accepted : e.key = k
  <1>1. PoolOK(pool) /\ PlanOK(c.plan) /\ OneEach(c.plan)
    BY DEF IInv, CallOK, bulk_assign, At
  <1>2. /\ DOMAIN pool \subseteq Keys
        /\ \A k \in DOMAIN pool : pool[k] \in Entry
    BY <1>1, PoolsElim DEF PoolOK
  <1>3. \A k \in bound : entry(k) \in accepted /\ entry(k).key = k
    BY Zenon
  <1>4. \A k \in bound :
           /\ entry(k) \in c.plan
           /\ entry(k).target \in Targets /\ entry(k).target # Unbound
           /\ Matches(k, entry(k).target)
           /\ \A j \in DOMAIN pool \ {k} : pool[j].target # entry(k).target
    <2> TAKE k \in bound
    <2>1. PICK e : e = entry(k)
      OBVIOUS
    <2>2. e \in c.plan /\ BulkAccepts(e) /\ e.key = k
      BY <1>3, <2>1
    <2> HIDE DEF entry, bound, accepted
    <2>3. e.target \in Targets /\ Matches(k, e.target)
      BY <1>1, <2>2 DEF PlanOK, PendingEntry
    <2>4. e.target # Unbound
      BY <2>3, PoolAssumption
    <2>5. \A j \in DOMAIN pool \ {k} : pool[j].target # e.target
      BY <2>2, Zenon DEF BulkAccepts, Taken, Without
    <2> QED
      BY <2>1, <2>2, <2>3, <2>4, <2>5, ZenonT(60)
  <1>5. \A j, k \in bound : entry(j).target = entry(k).target => j = k
    BY <1>1, <1>3, <1>4, Zenon DEF OneEach
  <1>6. pool' = [k \in DOMAIN pool |->
                    IF k \in bound THEN [target |-> entry(k).target, pending_clear |-> FALSE]
                    ELSE pool[k]]
    BY ZenonT(60) DEF bulk_assign
  <1> HIDE DEF bound, entry
  <1>7. pool' \in [DOMAIN pool -> Entry]
    BY <1>2, <1>4, <1>6 DEF Entry
  <1>8. pool' \in Pools
    BY <1>2, <1>7, PoolsIntro
  <1>9. /\ DOMAIN pool' = DOMAIN pool
        /\ \A k \in DOMAIN pool :
              IF k \in bound
              THEN pool'[k].target = entry(k).target /\ pool'[k].pending_clear = FALSE
              ELSE pool'[k] = pool[k]
    BY <1>6
  <1>10. bound \subseteq DOMAIN pool
    BY DEF bound
  <1> HIDE DEF c
  <1>11. ASSUME NEW j \in DOMAIN pool, NEW k \in DOMAIN pool,
                pool'[j].target = pool'[k].target, pool'[j].target # Unbound
         PROVE  j = k
    <2>1. CASE j \in bound /\ k \in bound
      BY <1>5, <1>9, <1>11, <2>1, ZenonT(60)
    <2>2. CASE j \in bound /\ k \notin bound
      BY <1>4, <1>9, <1>11, <2>2, ZenonT(60)
    <2>3. CASE j \notin bound /\ k \in bound
      BY <1>4, <1>9, <1>11, <2>3, ZenonT(60)
    <2>4. CASE j \notin bound /\ k \notin bound
      BY <1>1, <1>9, <1>11, <2>4, ZenonT(60) DEF PoolOK
    <2> QED BY <2>1, <2>2, <2>3, <2>4
  <1>12. ASSUME NEW k \in DOMAIN pool
         PROVE  /\ pool'[k].target = Unbound => ~pool'[k].pending_clear
                /\ pool'[k].target # Unbound => Matches(k, pool'[k].target)
    <2>1. CASE k \in bound
      BY <1>4, <1>9, <2>1, ZenonT(60)
    <2>2. CASE k \notin bound
      BY <1>1, <1>9, <2>2, ZenonT(60) DEF PoolOK
    <2> QED BY <2>1, <2>2
  <1> QED
    BY <1>8, <1>9, <1>11, <1>12, ZenonT(60) DEF PoolOK

(* clear_pending frees entries or resets their flag.                       *)
LEMMA DiscardOK ==
    ASSUME IInv, NEW h \in Handlers, clear_pending(h)
    PROVE  PoolOK(pool')
  <1>1. PoolOK(pool)
    BY DEF IInv
  <1>2. /\ DOMAIN pool \subseteq Keys
        /\ \A k \in DOMAIN pool : pool[k] \in Entry
    BY <1>1, PoolsElim DEF PoolOK
  <1>3. /\ DOMAIN pool' = DOMAIN pool
        /\ pool' = [k \in DOMAIN pool' |-> pool'[k]]
        /\ \A k \in DOMAIN pool :
              pool'[k] \in {Free, [pool[k] EXCEPT !.pending_clear = FALSE], pool[k]}
    BY DEF clear_pending
  <1>4. \A k \in DOMAIN pool :
           /\ pool'[k] \in Entry
           /\ pool'[k].target \in {pool[k].target, Unbound}
           /\ pool'[k].target = Unbound => ~pool'[k].pending_clear
    <2> TAKE k \in DOMAIN pool
    <2>1. pool[k] \in Entry /\ (pool[k].target = Unbound => ~pool[k].pending_clear)
      BY <1>1, <1>2 DEF PoolOK
    <2>2. CASE pool'[k] = Free
      BY <2>2 DEF Free, Entry
    <2>3. CASE pool'[k] = [pool[k] EXCEPT !.pending_clear = FALSE]
      BY <2>1, <2>3, Zenon DEF Entry
    <2>4. CASE pool'[k] = pool[k]
      BY <2>1, <2>4, ZenonT(60)
    <2> QED
      BY <1>3, <2>2, <2>3, <2>4
  <1> QED
    BY <1>1, <1>3, <1>4, RewriteOK

(* The worker frees the entry it cleared.                                  *)
LEMMA UnbindOK ==
    ASSUME IInv, NEW w \in Workers, worker_unbind(w)
    PROVE  PoolOK(pool')
  <1>1. PoolOK(pool)
    BY DEF IInv
  <1>2. PICK e \in work[w].cur :
           pool' = IF BoundTo(pool, e.key, e.target) THEN Put(pool, e.key, Free) ELSE pool
    BY DEF worker_unbind
  <1>3. Free \in Entry /\ Free.target = Unbound /\ Free.pending_clear = FALSE
    BY DEF Free, Entry
  <1>4. BoundTo(pool, e.key, e.target) => e.key \in Keys
    BY <1>1, PoolsElim DEF BoundTo, PoolOK
  <1> QED
    BY <1>1, <1>2, <1>3, <1>4, PutOK

(* No other action writes the pool, so every step keeps it sound.          *)
LEMMA PoolStep ==
    ASSUME IInv, [Next]_vars
    PROVE  PoolOK(pool')
  <1>1. CASE \E ks \in SUBSET Keys : add_keys(ks)
    BY <1>1, AddOK
  <1>2. CASE \E t \in Targets : queue_clear(t) \/ revert_pending_clear(t)
    BY <1>2, FlagOK
  <1>3. ASSUME NEW h \in Handlers, CommitStep(h)
        PROVE  PoolOK(pool')
    BY <1>3, UnassignOK, AssignOK, AdoptOK, AdoptAllOK, BulkOK, DiscardOK DEF CommitStep
  <1>4. CASE \E w \in Workers : worker_unbind(w)
    BY <1>4, UnbindOK
  <1>5. CASE UNCHANGED pool
    BY <1>5 DEF IInv
  <1>6. ASSUME NEW t \in Targets, check_subscription(t)
        PROVE  UNCHANGED pool
    BY <1>6 DEF check_subscription
  <1>7. ASSUME NEW h \in Handlers, BeginCall(h) \/ QueryStep(h)
        PROVE  UNCHANGED pool
    BY <1>7, Zenon DEF BeginCall, QueryStep, Begin, begin_delete_key, begin_clear_assignment,
        begin_set_assignment, begin_adopt_key, begin_adopt_all, begin_auto_assign,
        begin_clear_pending, check_synced_assignment_for_unassign, fetch_adopt_key,
        collect_node_status, auto_assign, begin_bulk_assign, plan_clear_pending
  <1>8. ASSUME NEW w \in Workers, apply_pending(w) \/ (RunStep(w) /\ ~worker_unbind(w))
        PROVE  UNCHANGED pool
    BY <1>8, Zenon DEF RunStep, apply_pending, collect_status_uncached, worker_plan, worker_next,
        worker_done, push_key_to_remote, delete_subscription_on_remote
  <1>9. Surroundings => UNCHANGED pool
    BY DEF Surroundings, remove_remote, add_remote, foreign_change, restart
  <1> QED
    BY <1>1, <1>2, <1>3, <1>4, <1>5, <1>6, <1>7, <1>8, <1>9 DEF Next, LockedCall, vars

-----------------------------------------------------------------------------
(* Nodes, snapshots of nodes, and plans                                    *)

(* A status query reports, for each node, nothing or what is live there.   *)
LEMMA StatusesOK ==
    ASSUME LiveOK(live), NEW rs, NEW silent, NEW blind
    PROVE  StatOK(Statuses(rs, silent, blind))
  <1> DEFINE st == Statuses(rs, silent, blind)
  <1>1. NoRow \in Rows /\ [NoRow EXCEPT !.row = TRUE] \in Rows
    BY Zenon DEF NoRow, Rows
  <1>2. \A t \in Targets :
           live[t].key \in Keys \cup {NoKey} /\ live[t].active \in BOOLEAN
    BY DEF LiveOK, Subs
  <1>3. \A t \in Targets : live[t].key # NoKey => Matches(live[t].key, t)
    BY DEF LiveOK, WellTyped, NoSub
  <1>4. \A t \in Targets :
           \/ st[t] = NoRow
           \/ st[t] = [NoRow EXCEPT !.row = TRUE]
           \/ st[t] = [row |-> TRUE, key |-> live[t].key, active |-> live[t].active]
    BY DEF Statuses
  <1>5. st = [t \in Targets |-> st[t]]
    BY DEF Statuses
  <1> HIDE DEF st
  <1>6. \A t \in Targets :
           st[t] \in Rows /\ (st[t].key # NoKey => Matches(st[t].key, t))
    <2> TAKE t \in Targets
    <2>1. CASE st[t] = NoRow
      BY <1>1, <2>1 DEF NoRow
    <2>2. CASE st[t] = [NoRow EXCEPT !.row = TRUE]
      BY <1>1, <2>2 DEF NoRow
    <2>3. CASE st[t] = [row |-> TRUE, key |-> live[t].key, active |-> live[t].active]
      BY <1>2, <1>3, <2>3 DEF Rows
    <2> QED
      BY <1>4, <2>1, <2>2, <2>3
  <1>7. st \in [Targets -> Rows]
    BY <1>5, <1>6
  <1>8. StatOK(st)
    BY <1>6, <1>7 DEF StatOK
  <1> QED
    BY <1>8 DEF st

(* The empty status is one no node reported to.                            *)
LEMMA NoStatusOK == StatOK(NoStatus)
  <1>1. NoRow \in Rows /\ NoRow.key = NoKey
    BY DEF NoRow, Rows
  <1> QED
    BY <1>1 DEF StatOK, NoStatus

(* What compute_pending plans pairs each key with the node it is bound to. *)
LEMMA PendingOK ==
    ASSUME NEW c, PoolOK(c), NEW stat
    PROVE  PlanOK(compute_pending(c, stat))
  <1> SUFFICES ASSUME NEW e \in compute_pending(c, stat)
               PROVE  e \in PendingEntry /\ Matches(e.key, e.target)
    BY DEF PlanOK
  <1>1. PICK k \in DOMAIN c :
           /\ c[k].target # Unbound
           /\ e = [key |-> k, target |-> c[k].target,
                   op |-> IF c[k].pending_clear THEN "Clear" ELSE "Push"]
    BY Zenon DEF compute_pending
  <1>2. k \in Keys /\ c[k] \in Entry /\ Matches(k, c[k].target)
    BY <1>1, PoolsElim, Zenon DEF PoolOK
  <1>3. c[k].target \in Targets
    BY <1>1, <1>2, ZenonT(60) DEF Entry
  <1> QED
    BY <1>1, <1>2, <1>3 DEF PendingEntry

(* What compute_proposals plans has one entry for a key and for a node.    *)
LEMMA ProposalOK ==
    ASSUME NEW c, NEW stat, NEW asg, NEW plan \in compute_proposals(c, stat, asg)
    PROVE  PlanOK(plan) /\ OneEach(plan)
  BY DEF compute_proposals, PlanOK, OneEach

(* Every step leaves on each node nothing or a key of its product.         *)
LEMMA LiveStep ==
    ASSUME IInv, [Next]_vars
    PROVE  LiveOK(live')
  <1>1. LiveOK(live)
    BY DEF IInv
  <1>2. ASSUME NEW t \in Targets, check_subscription(t)
        PROVE  LiveOK(live')
    <2>1. live[t] \in Subs /\ live[t].key # NoKey /\ WellTyped(t, live[t])
      BY <1>1, <1>2, Zenon DEF LiveOK, check_subscription
    <2>2. live[t].key \in Keys /\ Matches(live[t].key, t)
      BY <2>1 DEF WellTyped, NoSub
    <2>3. live' = [live EXCEPT ![t] = [live[t] EXCEPT !.active = ~live[t].active]]
      BY <1>1, <1>2 DEF check_subscription, LiveOK
    <2>4. /\ [live[t] EXCEPT !.active = ~live[t].active] \in Subs
          /\ [live[t] EXCEPT !.active = ~live[t].active].key = live[t].key
      BY <2>1, Zenon DEF Subs
    <2>5. WellTyped(t, [live[t] EXCEPT !.active = ~live[t].active])
      BY <2>2, <2>4 DEF WellTyped
    <2> QED
      BY <1>1, <2>3, <2>4, <2>5 DEF LiveOK
  <1>3. ASSUME NEW w \in Workers, push_key_to_remote(w)
        PROVE  LiveOK(live')
    <2>1. PICK e \in work[w].cur :
             live' \in {live, [live EXCEPT ![e.target] = [key |-> e.key, active |-> TRUE]]}
      BY <1>3, ZenonT(60) DEF push_key_to_remote
    <2>2. e \in PendingEntry /\ Matches(e.key, e.target)
      BY DEF IInv, WorkOK, PlanOK
    <2>3. /\ e.target \in Targets
          /\ [key |-> e.key, active |-> TRUE] \in Subs
          /\ WellTyped(e.target, [key |-> e.key, active |-> TRUE])
      BY <2>2, Zenon DEF PendingEntry, Subs, WellTyped
    <2> QED
      BY <1>1, <2>1, <2>3 DEF LiveOK
  <1>4. ASSUME NEW w \in Workers, delete_subscription_on_remote(w)
        PROVE  LiveOK(live')
    <2>1. PICK e \in work[w].cur : live' \in {live, [live EXCEPT ![e.target] = NoSub]}
      BY <1>4, Zenon DEF delete_subscription_on_remote
    <2>2. \A t \in Targets : NoSub \in Subs /\ WellTyped(t, NoSub)
      BY DEF NoSub, Subs, WellTyped
    <2> QED
      BY <1>1, <2>1, <2>2 DEF LiveOK
  <1>5. ASSUME NEW t \in Targets, NEW s \in Subs, foreign_change(t, s)
        PROVE  LiveOK(live')
    BY <1>1, <1>5 DEF foreign_change, LiveOK
  <1>6. CASE UNCHANGED live
    BY <1>1, <1>6
  <1>7. ASSUME NEW h \in Handlers, BeginCall(h) \/ QueryStep(h) \/ CommitStep(h)
        PROVE  UNCHANGED live
    BY <1>7, Zenon DEF BeginCall, QueryStep, CommitStep, Begin, begin_delete_key,
        begin_clear_assignment, begin_set_assignment, begin_adopt_key, begin_adopt_all,
        begin_auto_assign, begin_clear_pending, check_synced_assignment_for_unassign,
        fetch_adopt_key, collect_node_status, auto_assign, begin_bulk_assign,
        plan_clear_pending, delete_key, clear_assignment, set_assignment, adopt_key,
        adopt_all, bulk_assign, clear_pending
  <1>8. ASSUME NEW w \in Workers,
               apply_pending(w) \/ collect_status_uncached(w) \/ worker_plan(w)
                  \/ worker_next(w) \/ worker_done(w) \/ worker_unbind(w)
        PROVE  UNCHANGED live
    BY <1>8, Zenon DEF apply_pending, collect_status_uncached, worker_plan, worker_next,
        worker_done, worker_unbind
  <1>9. ASSUME (\E ks \in SUBSET Keys : add_keys(ks))
                  \/ (\E t \in Targets : queue_clear(t) \/ revert_pending_clear(t))
                  \/ (\E r \in Remotes : remove_remote(r) \/ add_remote(r)) \/ restart
        PROVE  UNCHANGED live
    BY <1>9, ZenonT(60) DEF add_keys, queue_clear, revert_pending_clear, remove_remote, add_remote, restart
  <1> QED
    BY <1>2, <1>3, <1>4, <1>5, <1>6, <1>7, <1>8, <1>9
       DEF Next, LockedCall, RunStep, Surroundings, vars

-----------------------------------------------------------------------------
(* The apply-pending workers                                               *)

(* An idle worker satisfies the invariant.                                 *)
LEMMA SleepingOK == WorkOK(Sleeping)
  <1>1. StatOK(NoStatus)
    BY NoStatusOK
  <1>2. NoStatus \in [Targets -> Rows]
    BY <1>1, Zenon DEF StatOK
  <1> QED
    BY <1>1, <1>2, Zenon DEF WorkOK, Work, Sleeping, PlanOK

(* A step of one worker keeps the invariant of all when it keeps its own.  *)
LEMMA WorkUpdate ==
    ASSUME IInv, NEW w \in Workers, NEW v, WorkOK(v), work' = [work EXCEPT ![w] = v]
    PROVE  work' \in [Workers -> Work] /\ \A u \in Workers : WorkOK(work'[u])
  BY Zenon DEF IInv, WorkOK

(* Every step keeps the snapshots and plans of the workers well typed.     *)
LEMMA WorkStep ==
    ASSUME IInv, [Next]_vars
    PROVE  work' \in [Workers -> Work] /\ \A u \in Workers : WorkOK(work'[u])
  <1> DEFINE Good == work' \in [Workers -> Work] /\ \A u \in Workers : WorkOK(work'[u])
  <1>1. PoolOK(pool) /\ LiveOK(live) /\ remotes \in SUBSET Remotes
    BY DEF IInv
  <1>2. \A w \in Workers : WorkOK(work[w]) /\ work[w] \in Work
    BY DEF IInv
  <1>3. ASSUME NEW w \in Workers, apply_pending(w)
        PROVE  Good
    <2>1. work' = [work EXCEPT ![w] = [work[w] EXCEPT !.pc = "start"]]
      BY <1>3 DEF apply_pending, IInv
    <2>2. WorkOK([work[w] EXCEPT !.pc = "start"])
      BY <1>2 DEF WorkOK, Work
    <2> QED
      BY <2>1, <2>2, WorkUpdate, Zenon
  <1>4. ASSUME NEW w \in Workers, collect_status_uncached(w)
        PROVE  Good
    <2>0. PICK silent \in SUBSET Flaky, blind \in SUBSET FlakyTargets :
             work' = [work EXCEPT ![w].pc = "plan", ![w].rem = remotes,
                                  ![w].stat = Statuses(remotes, silent, blind)]
      BY <1>4, Zenon DEF collect_status_uncached
    <2>1. work' = [work EXCEPT ![w] =
                      [work[w] EXCEPT !.pc = "plan", !.rem = remotes,
                                      !.stat = Statuses(remotes, silent, blind)]]
      BY <2>0, Zenon DEF IInv
    <2>2. StatOK(Statuses(remotes, silent, blind))
      BY <1>1, StatusesOK
    <2>3. Statuses(remotes, silent, blind) \in [Targets -> Rows]
      BY <2>2 DEF StatOK
    <2>4. WorkOK([work[w] EXCEPT !.pc = "plan", !.rem = remotes,
                                 !.stat = Statuses(remotes, silent, blind)])
      BY <1>1, <1>2, <2>2, <2>3, Zenon DEF WorkOK, Work
    <2> QED
      BY <2>1, <2>4, WorkUpdate, Zenon
  <1>5. ASSUME NEW w \in Workers, worker_plan(w)
        PROVE  Good
    <2> DEFINE todo == compute_pending(pool, work[w].stat)
    <2>1. work' = [work EXCEPT ![w] =
                      [work[w] EXCEPT !.pc = "next", !.stat = NoStatus, !.todo = todo]]
      BY <1>5, Zenon DEF worker_plan, IInv
    <2>2. PlanOK(todo) /\ StatOK(NoStatus)
      BY <1>1, PendingOK, NoStatusOK, ZenonT(60)
    <2> HIDE DEF todo
    <2>3. NoStatus \in [Targets -> Rows] /\ todo \subseteq PendingEntry
      BY <2>2 DEF StatOK, PlanOK
    <2>4. WorkOK([work[w] EXCEPT !.pc = "next", !.stat = NoStatus, !.todo = todo])
      BY <1>2, <2>2, <2>3, Zenon DEF WorkOK, Work
    <2> QED
      BY <2>1, <2>4, WorkUpdate, Zenon
  <1>6. ASSUME NEW w \in Workers, worker_next(w)
        PROVE  Good
    <2>0. PICK e \in work[w].todo, pc \in {"push", "delete", "unbind", "next"} :
             work' = [work EXCEPT ![w].pc = pc, ![w].todo = @ \ {e},
                                  ![w].cur = IF pc = "next" THEN {} ELSE {e}]
      <3>1. PICK e \in work[w].todo :
               LET known == e.target[1] \in work[w].rem
                   valid == pool_assignment_still_valid(e) /\ op_consistent(e)
                   pc == CASE valid /\ e.op = "Push" /\ known -> "push"
                           [] valid /\ e.op = "Clear" /\ known -> "delete"
                           [] valid /\ e.op = "Clear" /\ ~known -> "unbind"
                           [] OTHER -> "next"
               IN  work' = [work EXCEPT ![w].pc = pc, ![w].todo = @ \ {e},
                                        ![w].cur = IF pc = "next" THEN {} ELSE {e}]
        BY <1>6, Zenon DEF worker_next
      <3> DEFINE known == e.target[1] \in work[w].rem
                 valid == pool_assignment_still_valid(e) /\ op_consistent(e)
                 pc == CASE valid /\ e.op = "Push" /\ known -> "push"
                         [] valid /\ e.op = "Clear" /\ known -> "delete"
                         [] valid /\ e.op = "Clear" /\ ~known -> "unbind"
                         [] OTHER -> "next"
      <3>2. pc \in {"push", "delete", "unbind", "next"}
        OBVIOUS
      <3> HIDE DEF pc
      <3> QED
        BY <3>1, <3>2, Zenon DEF pc
    <2>1. work' = [work EXCEPT ![w] =
                      [work[w] EXCEPT !.pc = pc, !.todo = work[w].todo \ {e},
                                      !.cur = IF pc = "next" THEN {} ELSE {e}]]
      BY <2>0, Zenon DEF IInv
    <2> DEFINE cur == IF pc = "next" THEN {} ELSE {e}
    <2>2. PlanOK(work[w].todo \ {e}) /\ PlanOK(cur)
      BY <1>2, Zenon DEF WorkOK, PlanOK
    <2> HIDE DEF cur
    <2>3. work[w].todo \ {e} \subseteq PendingEntry /\ cur \subseteq PendingEntry
      BY <2>2 DEF PlanOK
    <2>4. WorkOK([work[w] EXCEPT !.pc = pc, !.todo = work[w].todo \ {e}, !.cur = cur])
      BY <1>2, <2>2, <2>3, Zenon DEF WorkOK, Work
    <2> QED
      BY <2>1, <2>4, WorkUpdate, Zenon DEF cur
  <1>7. ASSUME NEW w \in Workers, worker_done(w)
        PROVE  Good
    BY <1>7, SleepingOK, WorkUpdate, Zenon DEF worker_done
  <1>8. ASSUME NEW w \in Workers,
               push_key_to_remote(w) \/ delete_subscription_on_remote(w) \/ worker_unbind(w)
        PROVE  Good
    <2> DEFINE next == [work[w] EXCEPT !.pc = "next", !.cur = {}]
               unbind == [work[w] EXCEPT !.pc = "unbind"]
    <2>1. work' = [work EXCEPT ![w] = next] \/ work' = [work EXCEPT ![w] = unbind]
      BY <1>8, Zenon DEF push_key_to_remote, delete_subscription_on_remote, worker_unbind, IInv
    <2>2. WorkOK(next) /\ WorkOK(unbind)
      BY <1>2, Zenon DEF WorkOK, Work, PlanOK
    <2> HIDE DEF next, unbind
    <2> QED
      BY <2>1, <2>2, WorkUpdate, Zenon
  <1>9. CASE UNCHANGED work
    BY <1>9 DEF IInv
  <1>10. CASE restart
    BY <1>10, SleepingOK DEF restart, WorkOK
  <1>11. ASSUME NEW h \in Handlers, BeginCall(h) \/ QueryStep(h) \/ CommitStep(h)
         PROVE  UNCHANGED work
    BY <1>11, Zenon DEF BeginCall, QueryStep, CommitStep, Begin, begin_delete_key,
        begin_clear_assignment, begin_set_assignment, begin_adopt_key, begin_adopt_all,
        begin_auto_assign, begin_clear_pending, check_synced_assignment_for_unassign,
        fetch_adopt_key, collect_node_status, auto_assign, begin_bulk_assign,
        plan_clear_pending, delete_key, clear_assignment, set_assignment, adopt_key,
        adopt_all, bulk_assign, clear_pending
  <1>12. LockedCall => UNCHANGED work
    BY Zenon DEF LockedCall, add_keys, queue_clear, revert_pending_clear, check_subscription
  <1>13. Surroundings /\ ~restart => UNCHANGED work
    BY ZenonT(60) DEF Surroundings, remove_remote, add_remote, foreign_change
  <1> HIDE DEF Good
  <1>14. Good
    BY <1>3, <1>4, <1>5, <1>6, <1>7, <1>8, <1>9, <1>10, <1>11, <1>12, <1>13
       DEF Next, RunStep, vars, Good
  <1> QED
    BY <1>14 DEF Good

-----------------------------------------------------------------------------
(* The API calls in flight                                                 *)

(* A handler that serves no call satisfies the invariant.                  *)
LEMMA IdleOK == CallOK(Idle)
  <1>1. StatOK(NoStatus)
    BY NoStatusOK
  <1>2. NoStatus \in [Targets -> Rows]
    BY <1>1 DEF StatOK
  <1>3. [k \in {} |-> Free] \in Pools
    <2>1. [k \in {} |-> Free] \in [{} -> Entry]
      OBVIOUS
    <2> QED
      BY <2>1, PoolsIntro, Zenon
  <1> QED
    BY <1>1, <1>2, <1>3, Zenon DEF CallOK, Call, Idle, PlanOK

(* A step of one handler keeps the invariant of all when it keeps its own. *)
LEMMA CallUpdate ==
    ASSUME IInv, NEW h \in Handlers, NEW c, CallOK(c), call' = [call EXCEPT ![h] = c]
    PROVE  call' \in [Handlers -> Call] /\ \A g \in Handlers : CallOK(call'[g])
  BY ZenonT(60) DEF IInv, CallOK

(* A request starts from the pool and the remotes it reads.                *)
LEMMA BeginOK ==
    ASSUME IInv, NEW h \in Handlers,
           NEW op \in {"delete", "clear", "set", "adopt", "adopt_all", "auto", "discard"},
           NEW k \in Keys \cup {NoKey}, NEW t \in Targets \cup {Unbound},
           NEW pc \in {"check", "fetch", "commit"},
           op = "set" => k \in Keys /\ t \in Targets,
           op = "adopt" => t \in Targets /\ pc = "fetch",
           pc = "check" => op \in {"delete", "clear", "set"},
           Begin(h, op, k, t, pc)
    PROVE  call' \in [Handlers -> Call] /\ \A g \in Handlers : CallOK(call'[g])
  <1>1. PICK d \in Digests :
           call' = [call EXCEPT ![h] =
                       [op |-> op, pc |-> pc, key |-> k, target |-> t, digest |-> d, seen |-> pool,
                        rem |-> remotes, synced |-> FALSE, stat |-> NoStatus, asg |-> {}, plan |-> {}]]
    BY Zenon DEF Begin
  <1> DEFINE c == [op |-> op, pc |-> pc, key |-> k, target |-> t, digest |-> d, seen |-> pool,
                   rem |-> remotes, synced |-> FALSE, stat |-> NoStatus, asg |-> {}, plan |-> {}]
  <1>2. d \in BOOLEAN /\ pool \in Pools /\ remotes \in SUBSET Remotes
    BY PoolAssumption DEF IInv, PoolOK
  <1>3. CallOK(Idle) /\ Idle.plan = {}
    BY IdleOK, Zenon DEF Idle
  <1>4. /\ c \in Call
        /\ c.op = op /\ c.pc = pc /\ c.key = k /\ c.target = t
        /\ c.stat = Idle.stat /\ c.plan = Idle.plan
    <2>1. NoStatus \in [Targets -> Rows]
      BY NoStatusOK, Zenon DEF StatOK
    <2>2. Idle.stat = NoStatus /\ Idle.plan = {}
      BY Zenon DEF Idle
    <2> QED
      BY <1>2, <2>1, <2>2, ZenonT(60) DEF Call
  <1> HIDE DEF c
  <1>5. OneEach(c.plan)
    BY <1>3, <1>4, Zenon DEF OneEach
  <1>6. CallOK(c)
    BY <1>3, <1>4, <1>5, Zenon DEF CallOK
  <1> QED
    BY <1>1, <1>6, CallUpdate, Zenon DEF c

(* Every step keeps the snapshots and plans of the calls well typed.       *)
LEMMA CallStep ==
    ASSUME IInv, [Next]_vars
    PROVE  call' \in [Handlers -> Call] /\ \A g \in Handlers : CallOK(call'[g])
  <1> DEFINE Good == call' \in [Handlers -> Call] /\ \A g \in Handlers : CallOK(call'[g])
  <1>1. PoolOK(pool) /\ LiveOK(live) /\ remotes \in SUBSET Remotes
    BY DEF IInv
  <1>2. \A h \in Handlers : CallOK(call[h]) /\ call[h] \in Call
    BY Zenon DEF IInv
  <1>3. ASSUME NEW h \in Handlers, Finish(h)
        PROVE  Good
    BY <1>3, IdleOK, CallUpdate, ZenonT(60) DEF Finish
  <1>4. ASSUME NEW h \in Handlers, BeginCall(h)
        PROVE  Good
    <2>1. ASSUME NEW k \in Keys, begin_delete_key(h, k) \/ begin_clear_assignment(h, k)
          PROVE  Good
      BY <2>1, BeginOK, Zenon DEF begin_delete_key, begin_clear_assignment
    <2>2. ASSUME NEW k \in Keys, NEW t \in Targets, begin_set_assignment(h, k, t)
          PROVE  Good
      <3>1. PICK pc \in {"check", "commit"} : Begin(h, "set", k, t, pc)
        BY <2>2, Zenon DEF begin_set_assignment
      <3> QED
        BY <3>1, BeginOK, Zenon
    <2>3. ASSUME NEW t \in Targets, begin_adopt_key(h, t)
          PROVE  Good
      BY <2>3, BeginOK, ZenonT(60) DEF begin_adopt_key
    <2>4. CASE begin_adopt_all(h) \/ begin_auto_assign(h) \/ begin_clear_pending(h)
      BY <2>4, BeginOK DEF begin_adopt_all, begin_auto_assign, begin_clear_pending
    <2> QED
      BY <1>4, <2>1, <2>2, <2>3, <2>4 DEF BeginCall
  <1>5. ASSUME NEW h \in Handlers, check_synced_assignment_for_unassign(h)
        PROVE  Good
    <2>1. PICK b \in BOOLEAN :
             call' = [call EXCEPT ![h].pc = "commit", ![h].synced = b]
      BY <1>5, Zenon DEF check_synced_assignment_for_unassign, Bound
    <2> DEFINE c == [call[h] EXCEPT !.pc = "commit", !.synced = b]
    <2>2. call' = [call EXCEPT ![h] = c]
      BY <2>1, Zenon DEF IInv
    <2>3. call[h].pc = "check"
      BY <1>5, Zenon DEF check_synced_assignment_for_unassign
    <2>4. call[h].op # "adopt"
      BY <1>2, <2>3, Zenon DEF CallOK
    <2>5. CallOK(c)
      BY <1>2, <2>4, ZenonT(60) DEF CallOK, Call
    <2> QED
      BY <2>2, <2>5, CallUpdate, Zenon
  <1>6. ASSUME NEW h \in Handlers, fetch_adopt_key(h)
        PROVE  Good
    <2>1. CASE Finish(h)
      BY <1>3, <2>1
    <2>2. CASE ~Finish(h)
      <3> DEFINE t == call[h].target
                 c == [call[h] EXCEPT !.pc = "commit", !.key = live[t].key]
      <3>1. /\ live[t].key # NoKey /\ call[h].op = "adopt"
            /\ call' = [call EXCEPT ![h].pc = "commit", ![h].key = live[t].key]
        BY <1>6, <2>2, Zenon DEF fetch_adopt_key, At
      <3>2. t \in Targets
        BY <1>2, <3>1, Zenon DEF CallOK
      <3>3. live[t].key \in Keys /\ Matches(live[t].key, t)
        BY <1>1, <3>1, <3>2 DEF LiveOK, WellTyped, NoSub
      <3>4. call' = [call EXCEPT ![h] = c]
        BY <3>1, Zenon DEF IInv
      <3>5. CallOK(c)
        BY <1>2, <3>1, <3>2, <3>3, ZenonT(60) DEF CallOK, Call
      <3> QED
        BY <3>4, <3>5, CallUpdate, Zenon
    <2> QED
      BY <2>1, <2>2, Zenon
  <1>7. ASSUME NEW h \in Handlers, collect_node_status(h)
        PROVE  Good
    <2>1. PICK silent \in SUBSET Flaky, blind \in SUBSET FlakyTargets :
             call' = [call EXCEPT
                         ![h].pc = IF call[h].op = "adopt_all" THEN "commit" ELSE "compute",
                         ![h].stat = Statuses(call[h].rem, silent, blind)]
      BY <1>7, Zenon DEF collect_node_status
    <2> DEFINE st == Statuses(call[h].rem, silent, blind)
               pc == IF call[h].op = "adopt_all" THEN "commit" ELSE "compute"
               c == [call[h] EXCEPT !.pc = pc, !.stat = st]
    <2>2. call' = [call EXCEPT ![h] = c]
      BY <2>1, Zenon DEF IInv
    <2>3. call[h].op \in {"adopt_all", "auto", "discard"}
      BY <1>7 DEF collect_node_status
    <2>4. StatOK(st)
      BY <1>1, StatusesOK, Zenon
    <2>5. pc \in {"commit", "compute"}
      BY Zenon
    <2> HIDE DEF st, pc
    <2>6. st \in [Targets -> Rows]
      BY <2>4, Zenon DEF StatOK
    <2>7. CallOK(c)
      BY <1>2, <2>3, <2>4, <2>5, <2>6, ZenonT(60) DEF CallOK, Call
    <2> QED
      BY <2>2, <2>7, CallUpdate, Zenon
  <1>8. ASSUME NEW h \in Handlers, auto_assign(h)
        PROVE  Good
    <2> DEFINE asg == AssignedTargets(call[h].seen)
    <2>1. PICK plan \in compute_proposals(pool, call[h].stat, asg) :
             call' = [call EXCEPT ![h].pc = "proposed", ![h].plan = plan,
                                  ![h].asg = asg, ![h].seen = pool]
      BY <1>8, Zenon DEF auto_assign
    <2>2. PlanOK(plan) /\ OneEach(plan)
      BY ProposalOK, Zenon
    <2>3. asg \in SUBSET Targets
      BY Zenon DEF AssignedTargets
    <2> HIDE DEF asg
    <2> DEFINE c == [call[h] EXCEPT !.pc = "proposed", !.plan = plan, !.asg = asg, !.seen = pool]
    <2>4. call' = [call EXCEPT ![h] = c]
      BY <2>1, Zenon DEF IInv
    <2>5. call[h].op = "auto"
      BY <1>8 DEF auto_assign, At
    <2>6. plan \subseteq PendingEntry /\ pool \in Pools
      BY <1>1, <2>2, Zenon DEF PlanOK, PoolOK
    <2>7. CallOK(c)
      BY <1>2, <2>2, <2>3, <2>5, <2>6, ZenonT(60) DEF CallOK, Call
    <2> QED
      BY <2>4, <2>7, CallUpdate, Zenon
  <1>9. ASSUME NEW h \in Handlers, begin_bulk_assign(h)
        PROVE  Good
    <2>1. CASE Finish(h)
      BY <1>3, <2>1
    <2>2. CASE ~Finish(h)
      <3> DEFINE c == [call[h] EXCEPT !.pc = "commit"]
      <3>1. call[h].op = "auto" /\ call' = [call EXCEPT ![h].pc = "commit"]
        BY <1>9, <2>2, Zenon DEF begin_bulk_assign, At
      <3>2. call' = [call EXCEPT ![h] = c]
        BY <3>1, Zenon DEF IInv
      <3>3. CallOK(c)
        BY <1>2, <3>1 DEF CallOK, Call
      <3> QED
        BY <3>2, <3>3, CallUpdate, Zenon
    <2> QED
      BY <2>1, <2>2
  <1>10. ASSUME NEW h \in Handlers, plan_clear_pending(h)
         PROVE  Good
    <2>1. CASE Finish(h)
      BY <1>3, <2>1
    <2>2. CASE ~Finish(h)
      <3> DEFINE plan == compute_pending(pool, call[h].stat)
                 c == [call[h] EXCEPT !.pc = "commit", !.plan = plan]
      <3>1. call[h].op = "discard" /\ call' = [call EXCEPT ![h].pc = "commit", ![h].plan = plan]
        BY <1>10, <2>2 DEF plan_clear_pending, At
      <3>2. PlanOK(plan)
        BY <1>1, PendingOK
      <3> HIDE DEF plan
      <3>3. call' = [call EXCEPT ![h] = c]
        BY <3>1, Zenon DEF IInv
      <3>4. plan \subseteq PendingEntry
        BY <3>2, Zenon DEF PlanOK
      <3>5. CallOK(c)
        BY <1>2, <3>1, <3>2, <3>4, ZenonT(60) DEF CallOK, Call
      <3> QED
        BY <3>3, <3>5, CallUpdate, Zenon
    <2> QED
      BY <2>1, <2>2
  <1>11. ASSUME NEW h \in Handlers, CommitStep(h)
         PROVE  Good
    <2>1. Finish(h)
      BY <1>11, Zenon DEF CommitStep, delete_key, clear_assignment, set_assignment, adopt_key,
          adopt_all, bulk_assign, clear_pending
    <2> QED
      BY <1>3, <2>1
  <1>12. ASSUME UNCHANGED call
         PROVE  Good
    BY <1>12 DEF IInv
  <1>13. ASSUME restart
         PROVE  Good
    BY <1>13, IdleOK, Zenon DEF restart, CallOK
  <1>14. ASSUME NEW w \in Workers, apply_pending(w) \/ RunStep(w)
         PROVE  UNCHANGED call
    BY <1>14, Zenon DEF RunStep, apply_pending, collect_status_uncached, worker_plan, worker_next,
        worker_done, push_key_to_remote, delete_subscription_on_remote, worker_unbind
  <1>15. LockedCall => UNCHANGED call
    BY Zenon DEF LockedCall, add_keys, queue_clear, revert_pending_clear, check_subscription
  <1>16. Surroundings /\ ~restart => UNCHANGED call
    BY DEF Surroundings, remove_remote, add_remote, foreign_change
  <1> HIDE DEF Good
  <1>17. Good
    <2>1. ASSUME NEW h \in Handlers, QueryStep(h)
          PROVE  Good
      BY <1>5, <1>6, <1>7, <1>8, <1>9, <1>10, <2>1, Zenon DEF QueryStep
    <2>2. CASE \E h \in Handlers : BeginCall(h) \/ QueryStep(h) \/ CommitStep(h)
      BY <1>4, <1>11, <2>1, <2>2, Zenon
    <2>3. CASE \E w \in Workers : apply_pending(w) \/ RunStep(w)
      BY <1>12, <1>14, <2>3, Zenon
    <2>4. CASE LockedCall \/ Surroundings
      BY <1>12, <1>13, <1>15, <1>16, <2>4, Zenon
    <2>5. CASE UNCHANGED vars
      BY <1>12, <2>5, Zenon DEF vars
    <2> QED
      BY <2>2, <2>3, <2>4, <2>5, Zenon DEF Next
  <1> QED
    BY <1>17 DEF Good

-----------------------------------------------------------------------------
(* The theorems                                                            *)

(* The inductive invariant holds initially ...                             *)
LEMMA InitIInv == Init => IInv
  <1> SUFFICES ASSUME Init PROVE IInv
    BY Zenon
  <1>1. PoolOK(pool)
    <2>1. pool \in [{} -> Entry]
      BY Zenon DEF Init
    <2>2. pool \in Pools
      BY <2>1, PoolsIntro, Zenon
    <2> QED
      BY <2>1, <2>2, Zenon DEF PoolOK
  <1>2. LiveOK(live) /\ remotes \in SUBSET Remotes
    BY DEF Init, LiveOK
  <1>3. call \in [Handlers -> Call] /\ \A h \in Handlers : CallOK(call[h])
    BY IdleOK, Zenon DEF Init, CallOK
  <1>4. work \in [Workers -> Work] /\ \A w \in Workers : WorkOK(work[w])
    BY SleepingOK, Zenon DEF Init, WorkOK
  <1> QED
    BY <1>1, <1>2, <1>3, <1>4, Zenon DEF IInv

(* ... and every step keeps it.                                            *)
LEMMA NextIInv == IInv /\ [Next]_vars => IInv'
  <1> SUFFICES ASSUME IInv, [Next]_vars PROVE IInv'
    OBVIOUS
  <1>1. remotes' \in SUBSET Remotes
    <2>1. CASE UNCHANGED remotes
      BY <2>1, Zenon DEF IInv
    <2>2. ASSUME NEW r \in Remotes, remove_remote(r) \/ add_remote(r)
          PROVE  remotes' \in SUBSET Remotes
      BY <2>2 DEF remove_remote, add_remote, IInv
    <2>3. ASSUME NEW h \in Handlers, BeginCall(h) \/ QueryStep(h) \/ CommitStep(h)
          PROVE  UNCHANGED remotes
      BY <2>3, Zenon DEF BeginCall, QueryStep, CommitStep, Begin, begin_delete_key,
          begin_clear_assignment, begin_set_assignment, begin_adopt_key, begin_adopt_all,
          begin_auto_assign, begin_clear_pending, check_synced_assignment_for_unassign,
          fetch_adopt_key, collect_node_status, auto_assign, begin_bulk_assign,
          plan_clear_pending, delete_key, clear_assignment, set_assignment, adopt_key,
          adopt_all, bulk_assign, clear_pending
    <2>4. ASSUME NEW w \in Workers, apply_pending(w) \/ RunStep(w)
          PROVE  UNCHANGED remotes
      BY <2>4, Zenon DEF RunStep, apply_pending, collect_status_uncached, worker_plan, worker_next,
          worker_done, push_key_to_remote, delete_subscription_on_remote, worker_unbind
    <2>5. LockedCall => UNCHANGED remotes
      BY Zenon DEF LockedCall, add_keys, queue_clear, revert_pending_clear, check_subscription
    <2>6. (\E t \in Targets, s \in Subs : foreign_change(t, s)) \/ restart => UNCHANGED remotes
      BY DEF foreign_change, restart
    <2> QED
      BY <2>1, <2>2, <2>3, <2>4, <2>5, <2>6, Zenon DEF Next, Surroundings, vars
  <1> QED
    BY <1>1, PoolStep, LiveStep, CallStep, WorkStep, Zenon DEF IInv

(* Every reachable state satisfies the inductive invariant.                *)
THEOREM Invariance == Spec => []IInv
  BY InitIInv, NextIInv, PTL DEF Spec

(* The pool, the nodes, the calls in flight and the workers always have    *)
(* the shapes the handlers give them.                                      *)
THEOREM TypeCorrect == Spec => []TypeOK
  <1>1. IInv => TypeOK
    BY Zenon DEF IInv, TypeOK, PoolOK, LiveOK
  <1> QED
    BY <1>1, Invariance, PTL

(* No two keys are ever bound to one node: the check set_assignment,       *)
(* adopt_key, adopt_all and bulk_assign make under the lock suffices,      *)
(* however many calls and workers run.                                     *)
THEOREM NeverDoubleBound == Spec => []NoDoubleBinding
  <1>1. IInv => NoDoubleBinding
    BY Zenon DEF IInv, PoolOK, NoDoubleBinding
  <1> QED
    BY <1>1, Invariance, PTL

(* A key that is not bound never has a clear queued.                       *)
THEOREM NeverDanglingClear == Spec => []NoDanglingClear
  <1>1. IInv => NoDanglingClear
    BY Zenon DEF IInv, PoolOK, NoDanglingClear
  <1> QED
    BY <1>1, Invariance, PTL

(* A key is only ever bound to a remote of its product.                    *)
THEOREM AlwaysMatchingType == Spec => []BoundToMatchingType
  <1>1. IInv => BoundToMatchingType
    BY Zenon DEF IInv, PoolOK, BoundToMatchingType
  <1> QED
    BY <1>1, Invariance, PTL

-----------------------------------------------------------------------------
(* A queued clear stays with the node it was queued for                    *)

(* What ClearNeverMoves says of one step *)
KeepsClears ==
    \A k \in DOMAIN pool' : pool'[k].pending_clear => BoundTo(pool, k, pool'[k].target)

(* A key with a clear queued is bound.                                     *)
LEMMA ClearIsBound ==
    ASSUME IInv, NEW k \in DOMAIN pool, pool[k].pending_clear
    PROVE  Bound(pool, k)
  BY Zenon DEF IInv, PoolOK, Bound

(* The commits that bind a key: a move drops the flag, and a key that may  *)
(* be adopted or bulk-assigned has none.                                   *)
LEMMA BindKeepsClears ==
    ASSUME IInv, NEW h \in Handlers,
           set_assignment(h) \/ adopt_key(h) \/ adopt_all(h) \/ bulk_assign(h)
    PROVE  KeepsClears
  <1> SUFFICES ASSUME NEW k \in DOMAIN pool', pool'[k].pending_clear
               PROVE  BoundTo(pool, k, pool'[k].target)
    BY Zenon DEF KeepsClears
  <1>1. CASE UNCHANGED pool
    BY <1>1 DEF BoundTo
  <1>2. CASE set_assignment(h)
    <2>1. CASE AssignAllowed(call[h]) /\ k = call[h].key
      <3> DEFINE b == pool[k].pending_clear /\ ~Moves(call[h])
      <3>1. k \in DOMAIN pool /\ pool'[k] = [target |-> call[h].target, pending_clear |-> b]
        BY <1>2, <2>1, ZenonT(60) DEF set_assignment, Assigned, Put, AssignAllowed
      <3> HIDE DEF b
      <3>a. b /\ pool'[k].target = call[h].target
        BY <3>1
      <3>2. pool[k].pending_clear /\ ~Moves(call[h]) /\ pool'[k].target = call[h].target
        BY <3>a, Zenon DEF b
      <3>3. Bound(pool, k)
        BY <3>1, <3>2, ClearIsBound, Zenon
      <3> QED
        BY <2>1, <3>1, <3>2, <3>3, Zenon DEF Moves, BoundTo
    <2>2. CASE AssignAllowed(call[h]) /\ k # call[h].key
      BY <1>2, <2>2, Zenon DEF set_assignment, Assigned, Put, BoundTo
    <2>3. CASE ~AssignAllowed(call[h])
      BY <1>1, <1>2, <2>3, Zenon DEF set_assignment
    <2> QED
      BY <2>1, <2>2, <2>3, Zenon
  <1>3. CASE adopt_key(h)
    <2>1. CASE AdoptAllowed(call[h]) /\ k = call[h].key
      <3>1. pool'[k].pending_clear = (k \in DOMAIN pool /\ pool[k].pending_clear)
        BY <1>3, <2>1, Zenon DEF adopt_key, Put, AdoptedEntry
      <3>2. Bound(pool, k)
        BY <3>1, ClearIsBound, Zenon
      <3> QED
        BY <2>1, <3>2, Zenon DEF AdoptAllowed
    <2>2. CASE AdoptAllowed(call[h]) /\ k # call[h].key
      BY <1>3, <2>2, Zenon DEF adopt_key, Put, BoundTo
    <2>3. CASE ~AdoptAllowed(call[h])
      BY <1>1, <1>3, <2>3, Zenon DEF adopt_key
    <2> QED
      BY <2>1, <2>2, <2>3, Zenon
  <1>4. CASE adopt_all(h)
    <2> DEFINE adopted == {j \in Keys : DigestOK(call[h]) /\ Adoptable(call[h], j) # {}}
    <2>1. PICK pick :
             pool' = [j \in DOMAIN pool \cup adopted |->
                         IF j \in adopted THEN AdoptedEntry(pool, j, pick[j]) ELSE pool[j]]
      BY <1>4, Zenon DEF adopt_all
    <2>2. CASE k \in adopted
      <3>1. ~Bound(pool, k)
        BY <2>2, Zenon DEF Adoptable
      <3>2. pool'[k].pending_clear = (k \in DOMAIN pool /\ pool[k].pending_clear)
        BY <2>1, <2>2, Zenon DEF AdoptedEntry
      <3> QED
        BY <3>1, <3>2, ClearIsBound, Zenon
    <2>3. CASE k \notin adopted
      BY <2>1, <2>3, Zenon DEF BoundTo
    <2> QED
      BY <2>2, <2>3, Zenon
  <1>5. CASE bulk_assign(h)
    <2>1. PICK t :
             k \in DOMAIN pool /\ pool'[k] \in {[target |-> t, pending_clear |-> FALSE], pool[k]}
      BY <1>5, ZenonT(60) DEF bulk_assign
    <2>2. pool'[k] = pool[k]
      BY <2>1
    <2> QED
      BY <2>1, <2>2, Zenon DEF BoundTo
  <1> QED
    BY <1>2, <1>3, <1>4, <1>5, Zenon

(* The commits that free a key, and the worker's release of a binding.     *)
LEMMA FreeKeepsClears ==
    ASSUME IInv,
           \/ \E h \in Handlers : delete_key(h) \/ clear_assignment(h) \/ clear_pending(h)
           \/ \E w \in Workers : worker_unbind(w)
    PROVE  KeepsClears
  <1> SUFFICES ASSUME NEW k \in DOMAIN pool', pool'[k].pending_clear
               PROVE  BoundTo(pool, k, pool'[k].target)
    BY Zenon DEF KeepsClears
  <1>1. ASSUME k \in DOMAIN pool, pool'[k].target = pool[k].target
        PROVE  BoundTo(pool, k, pool'[k].target)
    BY <1>1 DEF BoundTo
  <1>2. ~Free.pending_clear
    BY Zenon DEF Free
  <1>3. \A c : PoolOK(c) => \A j \in DOMAIN c : c[j] \in Entry
    BY PoolsElim DEF PoolOK
  <1>4. ASSUME NEW h \in Handlers, delete_key(h)
        PROVE  k \in DOMAIN pool /\ pool'[k] = pool[k]
    BY <1>4 DEF delete_key, Without
  <1>5. ASSUME NEW h \in Handlers, clear_assignment(h)
        PROVE  k \in DOMAIN pool /\ pool'[k] = pool[k]
    BY <1>2, <1>5 DEF clear_assignment, Put
  <1>6. ASSUME NEW h \in Handlers, clear_pending(h)
        PROVE  k \in DOMAIN pool /\ pool'[k] = pool[k]
    <2>1. k \in DOMAIN pool /\ pool'[k] \in {Free, [pool[k] EXCEPT !.pending_clear = FALSE], pool[k]}
      BY <1>6 DEF clear_pending
    <2>2. ~[pool[k] EXCEPT !.pending_clear = FALSE].pending_clear
      BY <1>3, <2>1 DEF IInv, Entry
    <2> QED
      BY <1>2, <2>1, <2>2, Zenon
  <1>7. ASSUME NEW w \in Workers, worker_unbind(w)
        PROVE  k \in DOMAIN pool /\ pool'[k] = pool[k]
    BY <1>2, <1>7 DEF worker_unbind, Put
  <1> QED
    BY <1>1, <1>4, <1>5, <1>6, <1>7, Zenon

(* A queued clear never follows a key to another node, under any           *)
(* interleaving of the handlers and the workers.                           *)
THEOREM ClearsNeverMove == Spec => ClearNeverMoves
  <1>1. IInv /\ [Next]_vars => [KeepsClears]_vars
    <2> SUFFICES ASSUME IInv, Next PROVE KeepsClears
      OBVIOUS
    <2>1. CASE UNCHANGED pool
      BY <2>1 DEF KeepsClears, BoundTo
    <2>2. ASSUME NEW ks \in SUBSET Keys, add_keys(ks)
          PROVE  KeepsClears
      BY <2>2 DEF add_keys, KeepsClears, BoundTo, Free
    <2>3. ASSUME NEW t \in Targets, queue_clear(t) \/ revert_pending_clear(t)
          PROVE  KeepsClears
      <3>1. \A j \in DOMAIN pool : pool[j] \in Entry
        BY PoolsElim DEF IInv, PoolOK
      <3>2. \A j \in DOMAIN pool' : j \in DOMAIN pool /\ pool'[j].target = pool[j].target
        BY <2>3, <3>1 DEF queue_clear, revert_pending_clear, Entry
      <3> QED
        BY <3>2 DEF KeepsClears, BoundTo
    <2>4. ASSUME NEW h \in Handlers, CommitStep(h)
          PROVE  KeepsClears
      BY <2>4, BindKeepsClears, FreeKeepsClears DEF CommitStep
    <2>5. ASSUME NEW w \in Workers, worker_unbind(w)
          PROVE  KeepsClears
      BY <2>5, FreeKeepsClears
    <2>6. ASSUME NEW h \in Handlers, BeginCall(h) \/ QueryStep(h)
          PROVE  UNCHANGED pool
      BY <2>6, Zenon DEF BeginCall, QueryStep, Begin, begin_delete_key, begin_clear_assignment,
          begin_set_assignment, begin_adopt_key, begin_adopt_all, begin_auto_assign,
          begin_clear_pending, check_synced_assignment_for_unassign, fetch_adopt_key,
          collect_node_status, auto_assign, begin_bulk_assign, plan_clear_pending
    <2>7. ASSUME NEW w \in Workers, apply_pending(w) \/ (RunStep(w) /\ ~worker_unbind(w))
          PROVE  UNCHANGED pool
      BY <2>7, Zenon DEF RunStep, apply_pending, collect_status_uncached, worker_plan, worker_next,
          worker_done, push_key_to_remote, delete_subscription_on_remote
    <2>8. (\E t \in Targets : check_subscription(t)) \/ Surroundings => UNCHANGED pool
      BY DEF check_subscription, Surroundings, remove_remote, add_remote, foreign_change, restart
    <2> QED
      BY <2>1, <2>2, <2>3, <2>4, <2>5, <2>6, <2>7, <2>8 DEF Next, LockedCall
  <1>2. Spec => [][KeepsClears]_vars
    BY <1>1, Invariance, PTL DEF Spec
  <1> QED
    BY <1>2 DEF ClearNeverMoves, KeepsClears
=============================================================================
