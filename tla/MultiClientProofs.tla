------------------------- MODULE MultiClientProofs -------------------------
(***************************************************************************)
(* The cache of remote hosts and the requests that use it, for any         *)
(* remotes, hosts, names, requests and configurations: the index of node   *)
(* names is sound, a request that is not idempotent is processed at most   *)
(* once, a canary watches whenever no remote is reachable, and no host is  *)
(* left alone for longer than the longest back-off.  The inductive         *)
(* invariant of the index is its soundness for every remote with the shape *)
(* of the cache: every host entry is a record and every index a function   *)
(* on the names.                                                           *)
(***************************************************************************)
EXTENDS MultiClient, WellFoundedInduction, TLAPS

(* The back-off of a host has the fields of BackOff, whatever the times.   *)
BackShape(b) ==
    b \in [on : BOOLEAN, count : {b.count}, first : {b.first}, next : {b.next}]

(* One remote: its entries have the shape of HostInfo and the index is     *)
(* sound.                                                                  *)
Entry(e) ==
    /\ e = [off |-> e.off, name |-> e.name] /\ BackShape(e.off)
    /\ e.name \in Names \cup {NoName}

MapOK(m) ==
    /\ m = [hosts |-> m.hosts, node_to_host |-> m.node_to_host]
    /\ m.hosts = [h \in DOMAIN m.hosts |-> m.hosts[h]]
    /\ DOMAIN m.hosts \subseteq Hosts
    /\ \A h \in DOMAIN m.hosts : Entry(m.hosts[h])
    /\ m.node_to_host \in [Names -> Hosts \cup {NoHost}]
    /\ \A n \in Names : m.node_to_host[n] # NoHost =>
          m.node_to_host[n] \in DOMAIN m.hosts /\ m.hosts[m.node_to_host[n]].name = n

CacheOK(c) ==
    /\ c = [remotes |-> c.remotes, canary |-> c.canary]
    /\ c.remotes = [r \in DOMAIN c.remotes |-> c.remotes[r]]
    /\ \A r \in DOMAIN c.remotes : MapOK(c.remotes[r])

(* A host is taken for down exactly after a failure (set_reachable), be it *)
(* the first, one that is too early to count or one that counts.           *)
LEMMA BackOffStep ==
    ASSUME NEW b, BackShape(b), NEW ok \in BOOLEAN, NEW t
    PROVE  BackShape(set_reachable(b, ok, t)) /\ (set_reachable(b, ok, t).on <=> ~ok)
<1>1. CASE ok
  BY <1>1 DEF set_reachable, Reachable, BackShape
<1>2. CASE ~ok /\ ~b.on
  BY <1>2 DEF set_reachable, new, BackShape
<1>3. CASE ~ok /\ b.on
  <2> DEFINE period == Min({BaseTime * doubled[b.count], MaxBackOff})
             n == IF period < MaxBackOff THEN b.count + 1 ELSE b.count
             e == [b EXCEPT !.count = n, !.next = t + period]
  <2>1. set_reachable(b, ok, t) = retried(b, t)
    BY <1>3 DEF set_reachable
  <2>2. retried(b, t) = b \/ retried(b, t) = e
    BY DEF retried
  <2>3. BackShape(e) /\ e.on = b.on
    <3>1. ASSUME NEW x, NEW y
          PROVE  [b EXCEPT !.count = x, !.next = y]
                   \in [on : {b.on}, count : {x}, first : {b.first}, next : {y}]
      BY Zenon DEF BackShape
    <3>2. e \in [on : {b.on}, count : {n}, first : {b.first}, next : {t + period}]
      BY <3>1, Zenon
    <3> HIDE DEF period, n, e
    <3> QED
      BY <3>2 DEF BackShape
  <2>4. BackShape(retried(b, t)) /\ retried(b, t).on = b.on
    <3> HIDE DEF e
    <3> QED BY <2>2, <2>3
  <2>5. b.on = TRUE
    BY <1>3 DEF BackShape
  <2> QED
    BY <1>3, <2>1, <2>4, <2>5
<1> QED
  BY <1>1, <1>2, <1>3 DEF BackShape

(* Recording an outcome changes the back-off of one host, not its name     *)
(* (HostInfo::set_reachable).                                              *)
LEMMA MarkedMap ==
    ASSUME NEW m, MapOK(m), NEW h \in DOMAIN m.hosts, NEW b, BackShape(b)
    PROVE  /\ MapOK([m EXCEPT !.hosts[h].off = b])
           /\ [m EXCEPT !.hosts[h].off = b].hosts
                = [g \in DOMAIN m.hosts |-> IF g = h THEN [off |-> b, name |-> m.hosts[h].name]
                                                     ELSE m.hosts[g]]
<1> DEFINE e == [off |-> b, name |-> m.hosts[h].name]
           hs == [g \in DOMAIN m.hosts |-> IF g = h THEN e ELSE m.hosts[g]]
           k == [hosts |-> hs, node_to_host |-> m.node_to_host]
<1>1. Entry(m.hosts[h])
  BY DEF MapOK
<1>2. [m.hosts[h] EXCEPT !.off = b] = e
  BY <1>1 DEF Entry
<1>3. [m.hosts EXCEPT ![h] = [m.hosts[h] EXCEPT !.off = b]] = hs
  BY <1>2 DEF MapOK
<1>4. [m EXCEPT !.hosts[h].off = b] = k
  BY <1>3 DEF MapOK
<1>5. /\ k.hosts = hs /\ k.node_to_host = m.node_to_host
      /\ DOMAIN hs = DOMAIN m.hosts
      /\ \A g \in DOMAIN m.hosts : hs[g].name = m.hosts[g].name
  OBVIOUS
<1>6. \A g \in DOMAIN hs : Entry(hs[g])
  BY <1>1, Zenon DEF Entry, MapOK
<1>7. MapOK(k)
  BY <1>5, <1>6 DEF MapOK
<1> QED
  BY <1>4, <1>5, <1>7

(* A host that takes a name leaves no index entry that contradicts it      *)
(* (RemoteMapping::set_node_name).                                         *)
LEMMA NamedMap ==
    ASSUME NEW m, MapOK(m), NEW h, NEW n \in Names
    PROVE  MapOK(set_mapping_name(m, h, n))
<1>1. CASE h \notin DOMAIN m.hosts
  BY <1>1 DEF set_mapping_name
<1>2. CASE h \in DOMAIN m.hosts
  <2> DEFINE e == [off |-> m.hosts[h].off, name |-> n]
             hs == [g \in DOMAIN m.hosts |-> IF g = h THEN e ELSE m.hosts[g]]
             ix == [x \in Names |-> IF x = n THEN h ELSE IF x = m.hosts[h].name THEN NoHost
                                    ELSE m.node_to_host[x]]
             k == [hosts |-> hs, node_to_host |-> ix]
  <2>1. Entry(m.hosts[h])
    BY <1>2 DEF MapOK
  <2>2. [m.hosts EXCEPT ![h].name = n] = hs
    BY <2>1, <1>2 DEF MapOK, Entry
  <2>3. set_mapping_name(m, h, n) = k
    BY <2>2, <1>2, Zenon DEF MapOK, set_mapping_name
  <2>4. \A g \in DOMAIN hs : Entry(hs[g])
    BY <2>1 DEF Entry, MapOK
  <2>5. ix \in [Names -> Hosts \cup {NoHost}]
    BY <1>2 DEF MapOK
  <2>6. ASSUME NEW x \in Names, ix[x] # NoHost
        PROVE  ix[x] \in DOMAIN hs /\ hs[ix[x]].name = x
    BY <2>6, <1>2 DEF MapOK
  <2>7. k.hosts = hs /\ k.node_to_host = ix /\ DOMAIN hs = DOMAIN m.hosts
    BY Zenon
  <2>8. k = [hosts |-> hs, node_to_host |-> ix] /\ hs = [g \in DOMAIN hs |-> hs[g]]
    BY Zenon
  <2>9. DOMAIN hs \subseteq Hosts
    BY <2>7 DEF MapOK
  <2> HIDE DEF hs, ix, k
  <2>10. MapOK(k)
    BY <2>4, <2>5, <2>6, <2>7, <2>8, <2>9 DEF MapOK
  <2> QED
    BY <2>3, <2>10
<1> QED
  BY <1>1, <1>2

(* Hosts that leave the configuration take their names out of the index    *)
(* (prune_remote_nodes).                                                   *)
LEMMA PrunedMap ==
    ASSUME NEW m, MapOK(m), NEW hs \in SUBSET Hosts
    PROVE  MapOK(prune_remote_nodes(m, hs))
<1> DEFINE removed == {m.hosts[h].name : h \in DOMAIN m.hosts \ hs}
           new_hosts == [h \in hs |-> IF h \in DOMAIN m.hosts THEN m.hosts[h] ELSE new_host]
           ix == [n \in Names |-> IF n \in removed THEN NoHost ELSE m.node_to_host[n]]
           k == [hosts |-> new_hosts, node_to_host |-> ix]
<1>1. prune_remote_nodes(m, hs) = k
  BY DEF prune_remote_nodes
<1>2. Entry(new_host)
  BY DEF new_host, Entry, Reachable, BackShape
<1>3. \A h \in DOMAIN new_hosts : Entry(new_hosts[h])
  BY <1>2 DEF MapOK
<1>4. ix \in [Names -> Hosts \cup {NoHost}]
  BY Zenon DEF MapOK
<1>5. ASSUME NEW n \in Names, ix[n] # NoHost
      PROVE  ix[n] \in DOMAIN new_hosts /\ new_hosts[ix[n]].name = n
  BY <1>5 DEF MapOK
<1>6. k.hosts = new_hosts /\ k.node_to_host = ix /\ DOMAIN new_hosts = hs
  BY ZenonT(60)
<1>7. MapOK(k)
  BY <1>3, <1>4, <1>5, <1>6 DEF MapOK
<1> QED
  BY <1>1, <1>7

(* An entry made for a remote that was not known is sound.                 *)
LEMMA NewMap == MapOK(new_mapping)
BY DEF MapOK, new_mapping

(* Resetting the back-off of all hosts changes no name                     *)
(* (RemoteMapping::reset_back_off).                                        *)
LEMMA ResetMap ==
    ASSUME NEW m, MapOK(m)
    PROVE  MapOK([m EXCEPT !.hosts = [h \in DOMAIN @ |-> [@[h] EXCEPT !.off = Reachable]]])
<1> DEFINE hs == [g \in DOMAIN m.hosts |-> [off |-> Reachable, name |-> m.hosts[g].name]]
           k == [hosts |-> hs, node_to_host |-> m.node_to_host]
<1>1. \A h \in DOMAIN m.hosts : Entry(m.hosts[h])
  BY DEF MapOK
<1>2. ASSUME NEW h \in DOMAIN m.hosts
      PROVE  [m.hosts[h] EXCEPT !.off = Reachable] = hs[h]
  <2>1. m.hosts[h] = [off |-> m.hosts[h].off, name |-> m.hosts[h].name]
    BY <1>1 DEF Entry
  <2>2. [m.hosts[h] EXCEPT !.off = Reachable] = [off |-> Reachable, name |-> m.hosts[h].name]
    BY <2>1
  <2> QED
    BY <2>2
<1>3. [h \in DOMAIN m.hosts |-> [m.hosts[h] EXCEPT !.off = Reachable]] = hs
  BY <1>2, Zenon
<1>4. [m EXCEPT !.hosts = [h \in DOMAIN m.hosts |-> [m.hosts[h] EXCEPT !.off = Reachable]]] = k
  BY <1>3 DEF MapOK
<1>5. k.hosts = hs /\ k.node_to_host = m.node_to_host /\ DOMAIN hs = DOMAIN m.hosts
  OBVIOUS
<1>6. \A g \in DOMAIN hs : Entry(hs[g]) /\ hs[g].name = m.hosts[g].name
  BY <1>1, Zenon DEF Entry, Reachable, BackShape
<1>7. MapOK(k)
  BY <1>5, <1>6 DEF MapOK
<1> QED
  BY <1>4, <1>7

-----------------------------------------------------------------------------
(* The cache                                                               *)

(* The canary is appointed, kept, dropped or taken as a reason to reset    *)
(* everything, all without harm to the index (set_or_reset_canary).        *)
LEMMA CanaryCache ==
    ASSUME NEW c, CacheOK(c), NEW r, NEW ok
    PROVE  CacheOK(set_or_reset_canary(c, r, ok))
<1>1. ASSUME NEW x PROVE CacheOK([c EXCEPT !.canary = x])
  <2>1. [c EXCEPT !.canary = x] = [remotes |-> c.remotes, canary |-> x]
    BY DEF CacheOK
  <2> QED
    BY <2>1 DEF CacheOK
<1>2. CacheOK(reset_all_back_off_states(c))
  <2> DEFINE f == [q \in DOMAIN c.remotes |->
                     [c.remotes[q] EXCEPT !.hosts = [h \in DOMAIN @ |-> [@[h] EXCEPT !.off = Reachable]]]]
  <2>1. \A q \in DOMAIN f : MapOK(f[q])
    <3> SUFFICES ASSUME NEW q \in DOMAIN f PROVE MapOK(f[q])
      BY Zenon
    <3>1. MapOK(c.remotes[q])
      BY DEF CacheOK
    <3> QED
      BY <3>1, ResetMap
  <2>2. reset_all_back_off_states(c) = [canary |-> NoRemote, remotes |-> f]
    BY Zenon DEF reset_all_back_off_states
  <2> HIDE DEF f
  <2>3. f = [q \in DOMAIN f |-> f[q]]
    BY DEF f
  <2> QED
    BY <2>1, <2>2, <2>3 DEF CacheOK
<1> QED
  BY <1>1, <1>2 DEF set_or_reset_canary

(* The entry of one remote is replaced by a sound one.                     *)
LEMMA ReplacedMap ==
    ASSUME NEW c, CacheOK(c), NEW r \in DOMAIN c.remotes, NEW m, MapOK(m)
    PROVE  CacheOK([c EXCEPT !.remotes[r] = m])
<1> DEFINE f == [q \in DOMAIN c.remotes |-> IF q = r THEN m ELSE c.remotes[q]]
<1>1. [c.remotes EXCEPT ![r] = m] = f
  BY DEF CacheOK
<1>2. [c EXCEPT !.remotes[r] = m] = [remotes |-> f, canary |-> c.canary]
  BY <1>1 DEF CacheOK
<1>3. \A q \in DOMAIN f : MapOK(f[q])
  BY DEF CacheOK
<1> QED
  BY <1>2, <1>3 DEF CacheOK

(* Recording the outcome of a request, the canary's watch included, keeps  *)
(* the cache sound (mark_host_reachable).                                  *)
LEMMA MarkedCache ==
    ASSUME NEW c, CacheOK(c), NEW r, NEW h, NEW ok \in BOOLEAN, NEW t
    PROVE  CacheOK(mark_host_reachable(c, r, h, ok, t))
<1>1. CASE ~Knows(c, r, h)
  BY <1>1 DEF mark_host_reachable
<1>2. CASE Knows(c, r, h)
  <2> DEFINE b == set_reachable(c.remotes[r].hosts[h].off, ok, t)
             m == [c.remotes[r] EXCEPT !.hosts[h].off = b]
             d == [c EXCEPT !.remotes[r] = m]
  <2>1. r \in DOMAIN c.remotes /\ h \in DOMAIN c.remotes[r].hosts
    BY <1>2 DEF Knows
  <2>2. MapOK(c.remotes[r])
    BY <2>1 DEF CacheOK
  <2>3. MapOK(m)
    <3>1. BackShape(b)
      BY <2>1, <2>2, BackOffStep, Zenon DEF MapOK, Entry
    <3> HIDE DEF b
    <3> QED BY <2>1, <2>2, <3>1, MarkedMap, Zenon
  <2>4. CacheOK(d)
    <3> HIDE DEF m
    <3> QED BY <2>1, <2>3, ReplacedMap
  <2>5. mark_host_reachable(c, r, h, ok, t) = set_or_reset_canary(d, r, ok)
    BY <1>2 DEF mark_host_reachable
  <2> HIDE DEF d
  <2> QED
    BY <2>4, <2>5, CanaryCache
<1> QED
  BY <1>1, <1>2

(* Recording the name a host reported keeps the cache sound                *)
(* (RemoteMappingCache::set_node_name).                                    *)
LEMMA NamedCache ==
    ASSUME NEW c, CacheOK(c), NEW r, NEW h, NEW n \in Names
    PROVE  CacheOK(set_node_name(c, r, h, n))
<1>1. CASE r \notin DOMAIN c.remotes
  BY <1>1 DEF set_node_name
<1>2. CASE r \in DOMAIN c.remotes
  <2> DEFINE m == set_mapping_name(c.remotes[r], h, n)
  <2>1. MapOK(m)
    BY <1>2, NamedMap DEF CacheOK
  <2>2. set_node_name(c, r, h, n) = [c EXCEPT !.remotes[r] = m]
    BY <1>2 DEF set_node_name
  <2> HIDE DEF m
  <2> QED
    BY <1>2, <2>1, <2>2, ReplacedMap
<1> QED
  BY <1>1, <1>2

(* The cache after remotes.cfg was read again, and the one the daemon      *)
(* starts with, are sound (config_update).                                 *)
LEMMA UpdatedCache ==
    ASSUME NEW c, CacheOK(c), NEW l, \A r \in DOMAIN l : l[r] \in SUBSET Hosts
    PROVE  CacheOK(config_update(c, l))
<1> DEFINE Old(r) == IF r \in DOMAIN c.remotes THEN c.remotes[r] ELSE new_mapping
           f == [r \in DOMAIN l |-> prune_remote_nodes(Old(r), l[r])]
<1>1. \A r \in DOMAIN l : MapOK(Old(r))
  BY NewMap DEF CacheOK
<1>2. \A r \in DOMAIN f : MapOK(f[r])
  <2> TAKE r \in DOMAIN f
  <2>1. MapOK(Old(r)) /\ l[r] \in SUBSET Hosts
    BY <1>1
  <2> HIDE DEF Old
  <2>2. MapOK(prune_remote_nodes(Old(r), l[r]))
    BY <2>1, PrunedMap
  <2> QED
    BY <2>2
<1>3. config_update(c, l) = [remotes |-> f, canary |-> c.canary]
  BY DEF config_update, CacheOK
<1> HIDE DEF f
<1>4. f = [r \in DOMAIN f |-> f[r]]
  BY DEF f
<1> QED
  BY <1>2, <1>3, <1>4 DEF CacheOK

-----------------------------------------------------------------------------
(* The specification                                                       *)

IInv == CacheOK(cache) /\ conf \in Layouts

(* remotes.cfg lists hosts.                                                *)
LEMMA LayoutHosts ==
    ASSUME NEW l \in Layouts
    PROVE  \A r \in DOMAIN HostsOf(l) : HostsOf(l)[r] \in SUBSET Hosts
BY ClientAssumption DEF HostsOf, Range

(* The daemon starts with a sound cache.                                   *)
LEMMA CacheInit == Init => IInv
<1> SUFFICES ASSUME Init PROVE IInv
  OBVIOUS
<1>1. CacheOK(EmptyCache)
  BY DEF CacheOK, EmptyCache
<1> QED
  BY <1>1, LayoutHosts, UpdatedCache DEF Init, IInv

(* A request records at most one outcome, for the host it has tried.       *)
LEMMA RequestRecords ==
    ASSUME NEW q \in Requests, Step(q)
    PROVE  conf' = conf /\ (cache' = cache \/ \E ok \in BOOLEAN : cache' = Mark(q, ok))
<1>1. request(q) \/ try_clients(q) => conf' = conf /\ cache' = cache
  <2>1. request(q) => conf' = conf /\ cache' = cache
    BY DEF request
  <2>2. try_clients(q) => conf' = conf /\ cache' = cache
    BY Zenon DEF try_clients
  <2> QED
    BY <2>1, <2>2
<1>2. ASSUME NEW c, NEW cs, Record(q, c, cs), cs = cache \/ \E ok \in BOOLEAN : cs = Mark(q, ok)
      PROVE  conf' = conf /\ (cache' = cache \/ \E ok \in BOOLEAN : cache' = Mark(q, ok))
  BY <1>2 DEF Record
<1>3. Mark(q, TRUE) = Mark(q, TRUE) /\ Mark(q, FALSE) = Mark(q, FALSE)
  OBVIOUS
<1>4. TRUE \in BOOLEAN /\ FALSE \in BOOLEAN
  OBVIOUS
<1>5. CASE connect_retry(q)
  BY <1>2, <1>3, <1>4, <1>5, Zenon DEF connect_retry
<1>6. CASE answered(q)
  BY <1>2, <1>3, <1>4, <1>6, Zenon DEF answered
<1>7. CASE connect_error(q)
  BY <1>2, <1>3, <1>4, <1>7, Zenon DEF connect_error
<1>8. CASE client_error(q)
  BY <1>2, <1>3, <1>4, <1>8, Zenon DEF client_error
<1>9. CASE timed_out(q)
  BY <1>2, <1>3, <1>4, <1>9, Zenon DEF timed_out
<1> QED
  BY <1>1, <1>5, <1>6, <1>7, <1>8, <1>9, Zenon DEF Step

(* Every step keeps the cache sound.                                       *)
LEMMA CacheStep ==
    ASSUME IInv, [Next]_vars
    PROVE  IInv'
<1>1. CASE UNCHANGED vars
  BY <1>1 DEF IInv, vars
<1>2. ASSUME NEW q \in Requests, Step(q) PROVE IInv'
  <2>1. conf' = conf /\ (cache' = cache \/ \E ok \in BOOLEAN : cache' = Mark(q, ok))
    BY <1>2, RequestRecords
  <2> QED
    BY <2>1, MarkedCache DEF IInv, Mark
<1>3. ASSUME NEW r \in Remotes, cleanup_cycle(r) PROVE IInv'
  BY <1>3 DEF IInv, cleanup_cycle
<1>4. CASE run_once
  BY <1>4, LayoutHosts, UpdatedCache DEF IInv, run_once
<1>5. ASSUME NEW r \in Pve, NEW h \in Hosts, query_node_name(r, h) PROVE IInv'
  <2>1. PICK n \in Names \cup {NoName} :
           cache' = IF n = NoName THEN mark_host_reachable(cache, r, h, n # NoName, now)
                    ELSE set_node_name(mark_host_reachable(cache, r, h, n # NoName, now), r, h, n)
    BY <1>5 DEF query_node_name
  <2>2. CacheOK(mark_host_reachable(cache, r, h, n # NoName, now))
    <3>1. (n # NoName) \in BOOLEAN
      OBVIOUS
    <3> QED
      BY <3>1, MarkedCache, Zenon DEF IInv
  <2>3. CacheOK(cache')
    BY <2>1, <2>2, NamedCache
  <2> QED
    BY <1>5, <2>3 DEF IInv, query_node_name
<1>6. ASSUME NEW l \in Layouts, edit_remotes(l) PROVE IInv'
  BY <1>6 DEF IInv, edit_remotes
<1>7. CASE clock
  BY <1>7 DEF IInv, clock
<1> QED
  BY <1>1, <1>2, <1>3, <1>4, <1>5, <1>6, <1>7 DEF Next

(* The index of node names stays sound while hosts take over each other's  *)
(* names, come and go, and requests and the name task record outcomes.     *)
THEOREM IndexAlwaysSound == Spec => []IndexSound
<1>1. IInv => IndexSound
  <2> SUFFICES ASSUME IInv, NEW r \in DOMAIN cache.remotes, NEW n \in Names,
                      cache.remotes[r].node_to_host[n] # NoHost
               PROVE  LET m == cache.remotes[r]
                          h == m.node_to_host[n]
                      IN  h \in DOMAIN m.hosts /\ m.hosts[h].name = n
    BY DEF IndexSound
  <2>1. MapOK(cache.remotes[r])
    BY DEF IInv, CacheOK
  <2> QED
    BY <2>1, ZenonT(60) DEF MapOK
<1> QED
  BY <1>1, CacheInit, CacheStep, PTL DEF Spec

-----------------------------------------------------------------------------
(* Requests that are not idempotent                                        *)

Running == {"new", "next", "sent", "retry"}

(* A record with the fields of a request                                   *)
Fields == {"pc", "slot", "start", "cur", "begun", "last", "skipped", "host", "reach", "first",
           "again", "tried", "ran", "late"}

IsRequest(c) == DOMAIN c = Fields /\ c.ran \in Nat

(* While a request runs, nothing has been processed of it; after, at most  *)
(* one attempt has.                                                        *)
Once(c) == ~c.late => c.ran <= 1 /\ (c.pc \in Running => c.ran = 0)

OnceInv ==
    /\ req = [q \in Requests |-> req[q]]
    /\ \A q \in Requests : IsRequest(req[q]) /\ (Method[q] = "post" => Once(req[q]))

(* The smaller of a number and two                                         *)
LEMMA AtMostTwo == ASSUME NEW x \in Nat PROVE Min({x, 2}) \in Nat /\ (x <= 1 => Min({x, 2}) = x)
<1>1. \E m \in {x, 2} : \A y \in {x, 2} : m <= y
  BY x <= 2 \/ 2 <= x
<1>2. Min({x, 2}) \in {x, 2} /\ \A y \in {x, 2} : Min({x, 2}) <= y
  BY <1>1 DEF Min
<1> QED
  BY <1>2

(* What is counted of an attempt                                           *)
LEMMA Counted ==
    ASSUME NEW c, IsRequest(c), NEW n \in {0, 1}
    PROVE  /\ IsRequest(Ran(c, n)) /\ Ran(c, n).pc = c.pc /\ Ran(c, n).late = c.late
           /\ c.ran = 0 => Ran(c, n).ran = n
<1> DEFINE m == Min({c.ran + n, 2})
           e == [c EXCEPT !.ran = m, !.host = NoHost]
<1>1. Ran(c, n) = e
  BY DEF Ran
<1>2. c.ran + n \in Nat /\ m \in Nat /\ (c.ran = 0 => m = n)
  BY AtMostTwo DEF IsRequest
<1> HIDE DEF m
<1>3. DOMAIN e = Fields /\ e.ran = m /\ e.pc = c.pc /\ e.late = c.late
  BY DEF IsRequest, Fields
<1> HIDE DEF e
<1> QED
  BY <1>1, <1>2, <1>3 DEF IsRequest

(* A step of one request: what it makes of its record decides.             *)
LEMMA OneRequest ==
    ASSUME OnceInv, NEW q \in Requests, NEW e, req' = [req EXCEPT ![q] = e],
           IsRequest(e), Method[q] = "post" => Once(e)
    PROVE  OnceInv'
<1>1. req' = [p \in Requests |-> IF p = q THEN e ELSE req[p]]
  BY DEF OnceInv
<1>2. \A p \in Requests : req'[p] = IF p = q THEN e ELSE req[p]
  BY <1>1
<1> QED
  BY <1>1, <1>2 DEF OnceInv

(* The end of an attempt: the request goes on only if nothing of it was    *)
(* processed, it is idempotent or the attempt timed out.                   *)
LEMMA AttemptEnds ==
    ASSUME OnceInv, NEW q \in Requests, NEW c, IsRequest(c), NEW n \in {0, 1}, NEW cs,
           c.ran = req[q].ran, req[q].pc \in Running, ~c.late => ~req[q].late,
           Method[q] = "get" \/ c.late = TRUE \/ n = 0 \/ c.pc \notin Running,
           Record(q, Ran(c, n), cs)
    PROVE  OnceInv'
<1> DEFINE e == Ran(c, n)
<1>1. /\ IsRequest(e) /\ e.pc = c.pc /\ e.late = c.late
      /\ c.ran = 0 => e.ran = n
  BY Counted
<1>2. req' = [req EXCEPT ![q] = e]
  BY DEF Record
<1> HIDE DEF e
<1>3. Method[q] = "post" => Once(e)
  BY <1>1 DEF Once, OnceInv
<1> QED
  BY <1>1, <1>2, <1>3, OneRequest, Zenon

(* A step that changes what is neither the count nor the mark of a timeout *)
(* keeps both.                                                             *)
Kept(e, c) == IsRequest(e) /\ e.ran = c.ran /\ e.late = c.late

(* A request that went on uncounted is still processed at most once.       *)
LEMMA NothingCounted ==
    ASSUME OnceInv, NEW q \in Requests, req[q].pc \in Running,
           NEW e, Kept(e, req[q]), req' = [req EXCEPT ![q] = e]
    PROVE  OnceInv'
<1>1. IsRequest(e) /\ (Method[q] = "post" => Once(e))
  BY DEF Kept, OnceInv, Once
<1> QED
  BY <1>1, OneRequest, Zenon

(* Sending to a host, or leaving it alone for now, counts nothing.         *)
LEMMA TryCountsNothing ==
    ASSUME OnceInv, NEW q \in Requests, req[q].pc \in Running, NEW d, Kept(d, req[q]),
           NEW ss, NEW at, NEW reach, Try(q, d, ss, at, reach)
    PROVE  OnceInv'
<1> DEFINE h == get_at(ss[d.slot], at)
           wait == host_time_to_next_try(cache, RemoteOf[q], h, now) > 0
           hs == d.tried \cup {h}
           e == [d EXCEPT !.pc = "sent", !.host = h, !.reach = reach, !.tried = hs]
<1>1. req' = [req EXCEPT ![q] = IF wait THEN d ELSE e]
  BY DEF Try
<1> HIDE DEF wait, hs, h
<1>2. Kept(e, d)
  <2>1. IsRequest(d)
    BY DEF Kept
  <2>2. e.ran = d.ran /\ e.late = d.late
    BY <2>1 DEF IsRequest, Fields
  <2>3. DOMAIN e = Fields
    BY <2>1 DEF IsRequest
  <2> HIDE DEF e
  <2> QED
    BY <2>1, <2>2, <2>3 DEF Kept, IsRequest
<1>3. Kept(e, req[q])
  BY <1>2 DEF Kept
<1> HIDE DEF e
<1> DEFINE f == IF wait THEN d ELSE e
<1>4. Kept(f, req[q])
  BY <1>3
<1>5. req' = [req EXCEPT ![q] = f]
  BY <1>1
<1> HIDE DEF f
<1> QED
  BY <1>4, <1>5, NothingCounted, Zenon

(* Choosing the next host, or finding none, counts nothing.                *)
LEMMA ChosenNext ==
    ASSUME OnceInv, NEW q \in Requests, try_clients(q)
    PROVE  OnceInv'
<1>1. IsRequest(req[q]) /\ req[q].pc \in Running
  BY DEF OnceInv, try_clients, Running
<1> DEFINE c == req[q]
           moved == Moved(q)
           slots == [slot EXCEPT ![c.slot] = moved]
           here == host_is_reachable(cache, RemoteOf[q], get_at(moved, moved.current))
<1>2. \/ Try(q, At(c, moved.current), slots, moved.current, here)
      \/ Try(q, TakeSkipped(c), slots, Head(c.skipped), FALSE)
      \/ req' = [req EXCEPT ![q] = Fail(c)]
  BY Zenon DEF try_clients
<1> HIDE DEF moved, slots, here
<1>3. ASSUME NEW current PROVE Kept(At(c, current), c)
  <2> DEFINE d == At(c, current)
  <2>1. DOMAIN d = Fields /\ d.ran = c.ran /\ d.late = c.late
    BY <1>1 DEF IsRequest, Fields, At
  <2> QED
    BY <1>1, <2>1 DEF Kept, IsRequest
<1>4. Kept(TakeSkipped(c), c)
  BY <1>1 DEF Kept, IsRequest, Fields, TakeSkipped
<1>5. Kept(Fail(c), c)
  BY <1>1 DEF Kept, IsRequest, Fields, Fail
<1>6. CASE Try(q, At(c, moved.current), slots, moved.current, here)
  BY <1>1, <1>3, <1>6, TryCountsNothing, Zenon
<1>7. CASE Try(q, TakeSkipped(c), slots, Head(c.skipped), FALSE)
  BY <1>1, <1>4, <1>7, TryCountsNothing, Zenon
<1>8. CASE req' = [req EXCEPT ![q] = Fail(c)]
  BY <1>1, <1>5, <1>8, NothingCounted, Zenon
<1> QED
  BY <1>2, <1>6, <1>7, <1>8, Zenon

(* Every step of a request keeps the count.                                *)
LEMMA OnceStep ==
    ASSUME OnceInv, NEW q \in Requests, Step(q)
    PROVE  OnceInv'
<1> DEFINE c == req[q]
<1>1. IsRequest(c)
  BY DEF OnceInv
<1>2. CASE request(q)
  <2> DEFINE pc == IF remote_time_to_next_try(cache, RemoteOf[q], now) > 0 THEN "failed" ELSE "next"
             mine == IF Reusable(RemoteOf[q]) THEN shared[RemoteOf[q]] ELSE q
             e == [c EXCEPT !.pc = pc, !.slot = mine]
  <2>2. req' = [req EXCEPT ![q] = e]
    BY <1>2 DEF request
  <2> HIDE DEF pc, mine
  <2>3. Kept(e, c)
    BY <1>1 DEF Kept, IsRequest, Fields
  <2>4. c.pc \in Running
    BY <1>2 DEF request, Running
  <2> HIDE DEF e
  <2> QED
    BY <2>2, <2>3, <2>4, NothingCounted, Zenon
<1>3. CASE try_clients(q)
  BY <1>3, ChosenNext
<1>4. CASE connect_retry(q)
  <2> DEFINE e(pc) == [c EXCEPT !.pc = pc]
  <2>1. ASSUME NEW pc \in {"ok", "failed"}
        PROVE  IsRequest(e(pc)) /\ e(pc).ran = c.ran /\ e(pc).late = c.late /\ e(pc).pc \notin Running
    BY <1>1 DEF IsRequest, Fields, Running
  <2>2. c.pc \in Running
    BY <1>4 DEF connect_retry, Running
  <2>3. CASE Record(q, Ran(e("ok"), 1), Mark(q, TRUE))
    <3> HIDE DEF e
    <3> QED BY <2>1, <2>2, <2>3, AttemptEnds, 1 \in {0, 1}, Zenon
  <2>4. ASSUME NEW n \in {0, 1}, Record(q, Ran(e("failed"), n), cache) PROVE OnceInv'
    <3> HIDE DEF e
    <3> QED BY <2>1, <2>2, <2>4, AttemptEnds, Zenon
  <2> QED
    BY <1>4, <2>3, <2>4, Zenon DEF connect_retry
<1>5. CASE answered(q)
  <2> DEFINE e == [c EXCEPT !.pc = "ok"]
             cs == IF c.reach THEN cache ELSE Mark(q, TRUE)
  <2>1. IsRequest(e) /\ e.ran = c.ran /\ e.late = c.late /\ e.pc \notin Running
    BY <1>1 DEF IsRequest, Fields, Running
  <2>2. c.pc \in Running
    BY <1>5 DEF answered, Running
  <2>3. Record(q, Ran(e, 1), cs)
    BY <1>5, Zenon DEF answered
  <2> HIDE DEF e, cs
  <2> QED
    BY <2>1, <2>2, <2>3, AttemptEnds, 1 \in {0, 1}, ZenonT(60)
<1>6. CASE connect_error(q)
  <2> DEFINE again == IF c.first THEN c.host ELSE c.again
             e == [c EXCEPT !.pc = "next", !.first = FALSE, !.again = again]
  <2>1. IsRequest(e) /\ e.ran = c.ran /\ e.late = c.late
    <3> HIDE DEF again
    <3> QED BY <1>1 DEF IsRequest, Fields
  <2>2. c.pc \in Running
    BY <1>6 DEF connect_error, Running
  <2>3. Record(q, Ran(e, 0), Mark(q, FALSE))
    BY <1>6, Zenon DEF connect_error
  <2> HIDE DEF e
  <2> QED
    BY <2>1, <2>2, <2>3, AttemptEnds, 0 \in {0, 1}, Zenon
<1>7. CASE client_error(q)
  <2> DEFINE e == [c EXCEPT !.pc = "next", !.first = FALSE]
             f == [c EXCEPT !.pc = "failed"]
  <2>1. /\ IsRequest(e) /\ e.ran = c.ran /\ e.late = c.late
        /\ IsRequest(f) /\ f.ran = c.ran /\ f.late = c.late /\ f.pc \notin Running
    BY <1>1 DEF IsRequest, Fields, Running
  <2>2. c.pc \in Running
    BY <1>7 DEF client_error, Running
  <2>3. PICK n \in {0, 1} : IF Method[q] = "get" THEN Record(q, Ran(e, n), Mark(q, FALSE))
                                                 ELSE Record(q, Ran(f, n), cache)
    BY <1>7, Zenon DEF client_error
  <2> HIDE DEF e, f
  <2>4. CASE Method[q] = "get"
    BY <2>1, <2>2, <2>3, <2>4, AttemptEnds, Zenon
  <2>5. CASE Method[q] # "get"
    BY <2>1, <2>2, <2>3, <2>5, AttemptEnds, Zenon
  <2> QED
    BY <2>4, <2>5
<1>8. CASE timed_out(q)
  <2> DEFINE e == [c EXCEPT !.pc = "next", !.first = FALSE, !.late = TRUE]
  <2>1. IsRequest(e) /\ e.ran = c.ran /\ e.late = TRUE
    BY <1>1 DEF IsRequest, Fields
  <2>2. c.pc \in Running
    BY <1>8 DEF timed_out, Running
  <2>3. PICK n \in {0, 1} : Record(q, Ran(e, n), Mark(q, FALSE))
    BY <1>8, Zenon DEF timed_out
  <2> HIDE DEF e
  <2> QED
    BY <2>1, <2>2, <2>3, AttemptEnds, Zenon
<1> QED
  BY <1>2, <1>3, <1>4, <1>5, <1>6, <1>7, <1>8 DEF Step

(* A request that is not idempotent is processed at most once, unless an   *)
(* attempt at it timed out, for any number of requests, hosts and          *)
(* configurations (try_request).                                           *)
THEOREM PostAtMostOnce == Spec => []PostOnce
<1>1. Init => OnceInv
  BY DEF Init, New, OnceInv, IsRequest, Fields, Once
<1>2. OnceInv /\ [Next]_vars => OnceInv'
  <2> SUFFICES ASSUME OnceInv, [Next]_vars PROVE OnceInv'
    OBVIOUS
  <2>1. ASSUME NEW q \in Requests, Step(q) PROVE OnceInv'
    BY <2>1, OnceStep
  <2>2. CASE req' = req
    BY <2>2 DEF OnceInv
  <2>3. ASSUME NEW r \in Remotes, cleanup_cycle(r) PROVE req' = req
    BY <2>3 DEF cleanup_cycle
  <2>4. run_once => req' = req
    BY DEF run_once
  <2>5. ASSUME NEW r \in Pve, NEW h \in Hosts, query_node_name(r, h) PROVE req' = req
    BY <2>5 DEF query_node_name
  <2>6. ASSUME NEW l \in Layouts, edit_remotes(l) PROVE req' = req
    BY <2>6 DEF edit_remotes
  <2>7. clock \/ UNCHANGED vars => req' = req
    BY DEF clock, vars
  <2> QED
    BY <2>1, <2>2, <2>3, <2>4, <2>5, <2>6, <2>7, Zenon DEF Next
<1>3. OnceInv => PostOnce
  BY Zenon DEF OnceInv, Once, PostOnce
<1> QED
  BY <1>1, <1>2, <1>3, PTL DEF Spec
-----------------------------------------------------------------------------
(* The canary                                                              *)

(* The cache with the outcome of an attempt at one host recorded, before   *)
(* the canary is looked at                                                 *)
Noted(c, r, h, ok, t) == [c EXCEPT !.remotes[r].hosts[h].off = set_reachable(@, ok, t)]

(* Cache d is c with host h of remote r marked, and nothing else changed   *)
OnlyMarked(c, d, r, h, ok, t) ==
    /\ CacheOK(d) /\ d.canary = c.canary /\ DOMAIN d.remotes = DOMAIN c.remotes
    /\ \A q \in DOMAIN c.remotes : DOMAIN d.remotes[q].hosts = DOMAIN c.remotes[q].hosts
    /\ d.remotes[r].hosts[h].off.on <=> ~ok
    /\ d.remotes[r].hosts[h].off = set_reachable(c.remotes[r].hosts[h].off, ok, t)
    /\ \A q \in DOMAIN c.remotes : \A g \in DOMAIN c.remotes[q].hosts :
          q # r \/ g # h => d.remotes[q].hosts[g] = c.remotes[q].hosts[g]

(* Recording an outcome makes one host reachable or not, and no other.     *)
LEMMA NotedCache ==
    ASSUME NEW c, CacheOK(c), NEW r, NEW h, Knows(c, r, h), NEW ok \in BOOLEAN, NEW t
    PROVE  OnlyMarked(c, Noted(c, r, h, ok, t), r, h, ok, t)
<1> DEFINE d == Noted(c, r, h, ok, t)
           b == set_reachable(c.remotes[r].hosts[h].off, ok, t)
           m == [c.remotes[r] EXCEPT !.hosts[h].off = b]
           hs == [g \in DOMAIN c.remotes[r].hosts |->
                    IF g = h THEN [off |-> b, name |-> c.remotes[r].hosts[h].name]
                             ELSE c.remotes[r].hosts[g]]
           f == [q \in DOMAIN c.remotes |-> IF q = r THEN m ELSE c.remotes[q]]
<1>1. r \in DOMAIN c.remotes /\ h \in DOMAIN c.remotes[r].hosts /\ MapOK(c.remotes[r])
  BY DEF Knows, CacheOK
<1>2. BackShape(b) /\ (b.on <=> ~ok)
  <2>1. Entry(c.remotes[r].hosts[h])
    BY <1>1, ZenonT(60) DEF MapOK
  <2>2. BackShape(c.remotes[r].hosts[h].off)
    BY <2>1 DEF Entry
  <2> QED
    BY <2>2, BackOffStep, Zenon
<1>3. d = [c EXCEPT !.remotes[r] = m]
  BY ZenonT(60) DEF Noted
<1> HIDE DEF b
<1>4. MapOK(m) /\ m.hosts = hs
  <2> DEFINE k == c.remotes[r]
  <2>1. MapOK(k) /\ h \in DOMAIN k.hosts
    BY <1>1
  <2> HIDE DEF k
  <2>2. /\ MapOK([k EXCEPT !.hosts[h].off = b])
        /\ [k EXCEPT !.hosts[h].off = b].hosts
             = [g \in DOMAIN k.hosts |-> IF g = h THEN [off |-> b, name |-> k.hosts[h].name]
                                                  ELSE k.hosts[g]]
    BY <1>2, <2>1, MarkedMap
  <2> QED
    BY <2>2 DEF k
<1> HIDE DEF m
<1>5. [c.remotes EXCEPT ![r] = m] = f
  BY DEF CacheOK
<1>6. d = [remotes |-> f, canary |-> c.canary]
  BY <1>3, <1>5 DEF CacheOK
<1>7. CacheOK(d)
  BY <1>1, <1>3, <1>4, ReplacedMap
<1> HIDE DEF d
<1>8. d.remotes = f /\ d.canary = c.canary
  BY <1>6, Zenon
<1>9. hs[h].off = b /\ DOMAIN hs = DOMAIN c.remotes[r].hosts
  BY <1>1, ZenonT(60)
<1>10. \A g \in DOMAIN c.remotes[r].hosts : g # h => hs[g] = c.remotes[r].hosts[g]
  OBVIOUS
<1> HIDE DEF hs
<1>11. DOMAIN f = DOMAIN c.remotes /\ f[r] = m /\ \A q \in DOMAIN c.remotes : q # r => f[q] = c.remotes[q]
  BY <1>1, Zenon
<1> HIDE DEF f
<1>12. OnlyMarked(c, d, r, h, ok, t)
  BY <1>1, <1>2, <1>4, <1>7, <1>8, <1>9, <1>10, <1>11, ZenonT(60) DEF OnlyMarked, b
<1> QED
  BY <1>12, Zenon DEF d

(* After a reset every host is reachable (reset_all_back_off_states).      *)
LEMMA ResetCache ==
    ASSUME NEW c, CacheOK(c)
    PROVE  LET d == reset_all_back_off_states(c)
           IN  /\ NobodyDown(d) /\ DOMAIN d.remotes = DOMAIN c.remotes
               /\ \A q \in DOMAIN d.remotes : \A h \in DOMAIN d.remotes[q].hosts :
                     d.remotes[q].hosts[h].off = Reachable
               /\ \A q \in DOMAIN c.remotes : is_reachable(d.remotes[q])
<1> DEFINE Reset(m) == [m EXCEPT !.hosts = [h \in DOMAIN @ |-> [@[h] EXCEPT !.off = Reachable]]]
           f == [q \in DOMAIN c.remotes |-> Reset(c.remotes[q])]
           d == reset_all_back_off_states(c)
<1>1. d = [canary |-> NoRemote, remotes |-> f]
  BY ZenonT(60) DEF reset_all_back_off_states
<1>2. ASSUME NEW q \in DOMAIN c.remotes
      PROVE  /\ DOMAIN Reset(c.remotes[q]).hosts = DOMAIN c.remotes[q].hosts
             /\ \A h \in DOMAIN c.remotes[q].hosts : Reset(c.remotes[q]).hosts[h].off = Reachable
  <2> DEFINE m == c.remotes[q]
             hs == [h \in DOMAIN m.hosts |-> [m.hosts[h] EXCEPT !.off = Reachable]]
  <2>1. MapOK(m)
    BY ZenonT(60) DEF CacheOK
  <2>2. Reset(m).hosts = hs
    BY <2>1 DEF MapOK
  <2>3. ASSUME NEW h \in DOMAIN m.hosts PROVE hs[h].off = Reachable
    <3>1. m.hosts[h] = [off |-> m.hosts[h].off, name |-> m.hosts[h].name]
      BY <2>1, ZenonT(60) DEF MapOK, Entry
    <3>2. [m.hosts[h] EXCEPT !.off = Reachable] = [off |-> Reachable, name |-> m.hosts[h].name]
      BY <3>1
    <3> QED
      BY <3>2
  <2>4. DOMAIN hs = DOMAIN m.hosts
    OBVIOUS
  <2> HIDE DEF Reset, hs
  <2> QED
    BY <2>2, <2>3, <2>4
<1>3. d.remotes = f
  BY <1>1
<1>4. DOMAIN f = DOMAIN c.remotes /\ \A q \in DOMAIN c.remotes : f[q] = Reset(c.remotes[q])
  BY Zenon
<1> HIDE DEF Reset, f, d
<1>5. ASSUME NEW q \in DOMAIN d.remotes, NEW h \in DOMAIN d.remotes[q].hosts
      PROVE  d.remotes[q].hosts[h].off = Reachable /\ ~d.remotes[q].hosts[h].off.on
  <2>1. d.remotes[q].hosts[h].off = Reachable
    BY <1>2, <1>3, <1>4, ZenonT(60)
  <2>2. Reachable.on = FALSE
    BY DEF Reachable
  <2> QED BY <2>1, <2>2
<1>6. NobodyDown(d)
  BY <1>5, Zenon DEF NobodyDown, host_is_reachable, Knows
<1>7. \A q \in DOMAIN d.remotes : is_reachable(d.remotes[q])
  BY <1>5 DEF is_reachable
<1> QED
  BY <1>3, <1>4, <1>5, <1>6, <1>7, Zenon DEF d

(* What the canary promises of the cache before and after a change         *)
Watch(c, d) ==
    /\ AllUnreachable(d) => d.canary \in DOMAIN d.remotes
    /\ /\ c.canary # NoRemote
       /\ \E r \in Remotes, h \in Hosts : ~host_is_reachable(c, r, h) /\ host_is_reachable(d, r, h)
       => NobodyDown(d)

(* Recording an outcome keeps the promise (mark_host_reachable with        *)
(* set_or_reset_canary).                                                   *)
LEMMA MarkWatches ==
    ASSUME NEW c, CacheOK(c), NEW r, NEW h, Knows(c, r, h), NEW ok \in BOOLEAN, NEW t
    PROVE  Watch(c, mark_host_reachable(c, r, h, ok, t))
<1> DEFINE d == Noted(c, r, h, ok, t)
           e == mark_host_reachable(c, r, h, ok, t)
<1>1. e = set_or_reset_canary(d, r, ok)
  BY DEF mark_host_reachable, Noted
<1>2. r \in DOMAIN c.remotes /\ h \in DOMAIN c.remotes[r].hosts
  BY Zenon DEF Knows
<1>3. /\ CacheOK(d) /\ d.canary = c.canary /\ DOMAIN d.remotes = DOMAIN c.remotes
      /\ \A q \in DOMAIN c.remotes : DOMAIN d.remotes[q].hosts = DOMAIN c.remotes[q].hosts
      /\ d.remotes[r].hosts[h].off.on <=> ~ok
      /\ \A q \in DOMAIN c.remotes : \A g \in DOMAIN c.remotes[q].hosts :
            q # r \/ g # h => d.remotes[q].hosts[g] = c.remotes[q].hosts[g]
  <2>1. OnlyMarked(c, d, r, h, ok, t)
    BY NotedCache, Zenon
  <2> QED BY <2>1, Zenon DEF OnlyMarked
<1> SUFFICES Watch(c, e)
  BY Zenon
<1> HIDE DEF d, e
<1>4. CASE ok /\ c.canary = NoRemote
  <2>1. e = d
    BY <1>1, <1>3, <1>4, Zenon DEF set_or_reset_canary
  <2>2. is_reachable(d.remotes[r])
    BY <1>2, <1>3, <1>4, Zenon DEF is_reachable
  <2>3. ~AllUnreachable(e)
    BY <1>2, <1>3, <2>1, <2>2, Zenon DEF AllUnreachable
  <2> QED
    BY <1>4, <2>3 DEF Watch
<1>5. CASE ok /\ c.canary # NoRemote
  <2>1. e = reset_all_back_off_states(d)
    BY <1>1, <1>3, <1>5, Zenon DEF set_or_reset_canary
  <2>2. NobodyDown(e) /\ DOMAIN e.remotes = DOMAIN d.remotes /\ is_reachable(e.remotes[r])
    BY <1>2, <1>3, <2>1, ResetCache, Zenon
  <2>3. ~AllUnreachable(e)
    BY <1>2, <1>3, <2>2, Zenon DEF AllUnreachable
  <2> QED
    BY <2>2, <2>3 DEF Watch
<1>6. CASE ~ok
  <2> DEFINE x == IF canary_is_needed(d) THEN r ELSE IF d.canary \in DOMAIN d.remotes THEN d.canary
                  ELSE NoRemote
  <2>1. e = [d EXCEPT !.canary = x]
    BY <1>1, <1>6 DEF set_or_reset_canary
  <2>2. [d EXCEPT !.canary = x] = [remotes |-> d.remotes, canary |-> x]
    BY <1>3 DEF CacheOK
  <2>3. e.remotes = d.remotes /\ e.canary = x
    BY <2>1, <2>2, Zenon
  <2>4. AllUnreachable(e) => e.canary \in DOMAIN e.remotes
    BY <1>2, <1>3, <2>3, ZenonT(60) DEF AllUnreachable, canary_is_needed
  <2>5. ASSUME NEW q, NEW g, ~host_is_reachable(c, q, g) PROVE ~host_is_reachable(e, q, g)
    BY <1>3, <1>6, <2>3, <2>5 DEF host_is_reachable, Knows
  <2> QED
    BY <2>4, <2>5 DEF Watch
<1> QED
  BY <1>4, <1>5, <1>6

(* Two caches with the same canary, remotes, hosts and back-offs           *)
SameOffs(d, e) ==
    /\ e.canary = d.canary /\ DOMAIN e.remotes = DOMAIN d.remotes
    /\ \A q \in DOMAIN d.remotes :
          /\ DOMAIN e.remotes[q].hosts = DOMAIN d.remotes[q].hosts
          /\ \A g \in DOMAIN d.remotes[q].hosts : e.remotes[q].hosts[g].off = d.remotes[q].hosts[g].off

(* A name changes no back-off (RemoteMappingCache::set_node_name).         *)
LEMMA NamedOffs ==
    ASSUME NEW d, CacheOK(d), NEW r, NEW h, NEW n \in Names
    PROVE  SameOffs(d, set_node_name(d, r, h, n))
<1> DEFINE e == set_node_name(d, r, h, n)
<1>1. CASE r \notin DOMAIN d.remotes
  BY <1>1, ZenonT(60) DEF set_node_name, SameOffs
<1>2. CASE r \in DOMAIN d.remotes
  <2> DEFINE k == d.remotes[r]
             m == set_mapping_name(k, h, n)
             f == [q \in DOMAIN d.remotes |-> IF q = r THEN m ELSE d.remotes[q]]
  <2>1. MapOK(k)
    BY <1>2, ZenonT(60) DEF CacheOK
  <2> HIDE DEF k
  <2>2. DOMAIN m.hosts = DOMAIN k.hosts /\ \A g \in DOMAIN k.hosts : m.hosts[g].off = k.hosts[g].off
    <3>1. CASE h \notin DOMAIN k.hosts
      BY <3>1, Zenon DEF set_mapping_name
    <3>2. CASE h \in DOMAIN k.hosts
      <4> DEFINE hs == [k.hosts EXCEPT ![h].name = n]
      <4>1. m.hosts = hs
        BY <2>1, <3>2 DEF set_mapping_name, MapOK
      <4>2. DOMAIN hs = DOMAIN k.hosts
        BY <2>1 DEF MapOK
      <4>3. ASSUME NEW g \in DOMAIN k.hosts PROVE hs[g].off = k.hosts[g].off
        <5>1. Entry(k.hosts[g])
          BY <2>1 DEF MapOK
        <5>2. hs[g] = IF g = h THEN [k.hosts[h] EXCEPT !.name = n] ELSE k.hosts[g]
          BY <2>1, <3>2 DEF MapOK
        <5> QED
          BY <5>1, <5>2 DEF Entry
      <4> HIDE DEF hs
      <4> QED
        BY <4>1, <4>2, <4>3
    <3> QED
      BY <3>1, <3>2
  <2>3. e = [d EXCEPT !.remotes[r] = m]
    BY <1>2 DEF set_node_name, k
  <2> HIDE DEF m
  <2>4. [d.remotes EXCEPT ![r] = m] = f
    BY DEF CacheOK
  <2>5. e = [remotes |-> f, canary |-> d.canary]
    BY <2>3, <2>4 DEF CacheOK
  <2> SUFFICES SameOffs(d, e)
    OBVIOUS
  <2> HIDE DEF e
  <2>6. e.remotes = f /\ e.canary = d.canary
    BY <2>5
  <2>7. DOMAIN f = DOMAIN d.remotes /\ f[r] = m /\ \A q \in DOMAIN d.remotes : q # r => f[q] = d.remotes[q]
    BY <1>2, Zenon
  <2> HIDE DEF f
  <2>8. /\ DOMAIN e.remotes = DOMAIN d.remotes
        /\ \A q \in DOMAIN d.remotes :
              /\ DOMAIN e.remotes[q].hosts = DOMAIN d.remotes[q].hosts
              /\ \A g \in DOMAIN d.remotes[q].hosts : e.remotes[q].hosts[g].off = d.remotes[q].hosts[g].off
    BY <2>2, <2>6, <2>7, ZenonT(60) DEF k
  <2> QED
    BY <2>6, <2>8, Zenon DEF SameOffs
<1> QED
  BY <1>1, <1>2

(* The name of a host has no part in the promise                           *)
(* (RemoteMappingCache::set_node_name).                                    *)
LEMMA NamedWatches ==
    ASSUME NEW c, NEW d, CacheOK(d), Watch(c, d), NEW r, NEW h, NEW n \in Names
    PROVE  Watch(c, set_node_name(d, r, h, n))
<1> DEFINE e == set_node_name(d, r, h, n)
<1>1. SameOffs(d, e)
  BY NamedOffs, Zenon
<1> SUFFICES Watch(c, e)
  OBVIOUS
<1> HIDE DEF e
<1>2. \A q, g : host_is_reachable(e, q, g) <=> host_is_reachable(d, q, g)
  BY <1>1, ZenonT(60) DEF host_is_reachable, Knows, SameOffs
<1>3. AllUnreachable(e) => AllUnreachable(d)
  BY <1>1 DEF AllUnreachable, is_reachable, SameOffs
<1>4. e.canary = d.canary /\ DOMAIN e.remotes = DOMAIN d.remotes
  BY <1>1, Zenon DEF SameOffs
<1> QED
  BY <1>2, <1>3, <1>4 DEF Watch, NobodyDown

(* An outcome for a host that the cache does not know, or no longer knows, *)
(* changes nothing, and neither does its name.                             *)
LEMMA UnknownHost ==
    ASSUME NEW c, CacheOK(c), NEW r, NEW h, ~Knows(c, r, h), NEW n
    PROVE  set_node_name(c, r, h, n) = c
<1>1. CASE r \notin DOMAIN c.remotes
  BY <1>1 DEF set_node_name
<1>2. CASE r \in DOMAIN c.remotes /\ h \notin DOMAIN c.remotes[r].hosts
  <2>1. set_node_name(c, r, h, n) = [c EXCEPT !.remotes[r] = c.remotes[r]]
    BY <1>2 DEF set_node_name, set_mapping_name
  <2>2. [c.remotes EXCEPT ![r] = c.remotes[r]] = c.remotes
    BY DEF CacheOK
  <2> QED
    BY <2>1, <2>2 DEF CacheOK
<1> QED
  BY <1>1, <1>2 DEF Knows

(* Whenever an outcome is recorded there is a configured canary if no      *)
(* remote is left, and a host that recovers while there is a canary resets *)
(* them all; for any remotes, hosts and configurations.                    *)
THEOREM CanaryAlwaysWatches == Spec => CanaryWatch
<1>1. ASSUME IInv, Next, cache' # cache, known' = known PROVE Watch(cache, cache')
  <2>1. CacheOK(cache)
    BY <1>1 DEF IInv
  <2>2. ASSUME NEW r, NEW h, NEW ok \in BOOLEAN, cache' = mark_host_reachable(cache, r, h, ok, now)
        PROVE  Watch(cache, cache')
    <3>1. Knows(cache, r, h)
      BY <1>1, <2>2, ZenonT(60) DEF mark_host_reachable
    <3> QED
      BY <2>1, <2>2, <3>1, MarkWatches
  <2>3. ASSUME NEW q \in Requests, Step(q) PROVE Watch(cache, cache')
    <3>1. cache' = cache \/ \E ok \in BOOLEAN : cache' = Mark(q, ok)
      BY <2>3, RequestRecords
    <3> QED
      BY <1>1, <2>2, <3>1 DEF Mark
  <2>4. ASSUME NEW r \in Remotes, cleanup_cycle(r) PROVE cache' = cache
    BY <2>4 DEF cleanup_cycle
  <2>5. run_once => cache' = cache
    <3> SUFFICES ASSUME run_once PROVE cache' = cache
      OBVIOUS
    <3>1. known' = conf /\ cache' = IF known # conf THEN config_update(cache, HostsOf(conf)) ELSE cache
      BY DEF run_once
    <3> QED
      BY <1>1, <3>1, Zenon
  <2>6. ASSUME NEW r \in Pve, NEW h \in Hosts, query_node_name(r, h) PROVE Watch(cache, cache')
    <3>1. PICK n \in Names \cup {NoName} :
             cache' = IF n = NoName THEN mark_host_reachable(cache, r, h, n # NoName, now)
                      ELSE set_node_name(mark_host_reachable(cache, r, h, n # NoName, now), r, h, n)
      BY <2>6 DEF query_node_name
    <3> DEFINE ok == n # NoName
               d == mark_host_reachable(cache, r, h, ok, now)
    <3>2. ok \in BOOLEAN
      OBVIOUS
    <3>3. CASE n = NoName
      <4>1. cache' = d
        BY <3>1, <3>3, Zenon
      <4> HIDE DEF ok
      <4> QED
        BY <2>2, <3>2, <4>1
    <3>4. CASE n # NoName /\ ~Knows(cache, r, h)
      <4>1. d = cache
        BY <3>4 DEF mark_host_reachable
      <4> QED
        BY <1>1, <2>1, <3>1, <3>4, <4>1, UnknownHost
    <3>5. CASE n # NoName /\ Knows(cache, r, h)
      <4>1. CacheOK(d) /\ Watch(cache, d)
        <5> HIDE DEF ok
        <5> QED BY <2>1, <3>5, <3>2, MarkedCache, MarkWatches, ZenonT(60)
      <4>2. cache' = set_node_name(d, r, h, n) /\ n \in Names
        BY <3>1, <3>5
      <4> HIDE DEF d
      <4> QED
        BY <2>1, <4>1, <4>2, NamedWatches
    <3> QED
      BY <3>3, <3>4, <3>5
  <2>7. ASSUME NEW l \in Layouts, edit_remotes(l) PROVE cache' = cache
    BY <2>7 DEF edit_remotes
  <2>8. clock => cache' = cache
    BY DEF clock
  <2> QED
    BY <1>1, <2>3, <2>4, <2>5, <2>6, <2>7, <2>8, Zenon DEF Next
<1> DEFINE A == cache' # cache /\ known' = known => Watch(cache, cache')
<1>2. IInv /\ [Next]_vars => [A]_vars
  BY <1>1
<1>3. [][A]_vars => CanaryWatch
  BY PTL DEF CanaryWatch, Watch
<1> QED
  BY <1>2, <1>3, CacheInit, CacheStep, PTL DEF Spec
-----------------------------------------------------------------------------
(* The back-off                                                            *)

(* A set of natural numbers that is not empty has a smallest one.          *)
LEMMA Smallest ==
    ASSUME NEW S \in SUBSET Nat, S # {}
    PROVE  \E m \in S : \A k \in S : m <= k
<1> DEFINE R == OpToRel(<, Nat)
<1>1. IsWellFoundedOn(R, Nat)
  BY NatLessThanWellFounded, Zenon
<1>2. PICK m \in S : \A k \in S : <<k, m>> \notin R
  <2> HIDE DEF R
  <2> QED BY <1>1, WFMin, Zenon
<1>3. ASSUME NEW k \in S PROVE m <= k
  <2>1. m \in Nat /\ k \in Nat /\ <<k, m>> \notin R
    <3> HIDE DEF R
    <3> QED BY <1>2
  <2>2. ~(k < m)
    BY <2>1 DEF OpToRel
  <2> HIDE DEF R
  <2> QED BY <2>1, <2>2
<1> QED
  BY <1>3

(* g is the powers of two up to 2^n                                        *)
Powers(g, n) == g \in [0..n -> Nat] /\ g[0] = 1 /\ \A i \in 1..n : g[i] = 2 * g[i - 1]

(* There are powers of two up to any number: the least one without them    *)
(* would have them from its predecessor.                                   *)
LEMMA PowersExist ==
    ASSUME NEW n \in Nat
    PROVE  \E g : Powers(g, n)
<1> DEFINE S == {k \in Nat : ~\E g : Powers(g, k)}
<1> SUFFICES ASSUME S # {} PROVE FALSE
  OBVIOUS
<1>1. PICK m \in S : \A k \in S : m <= k
  BY Smallest, Zenon
<1>2. CASE m = 0
  <2>1. Powers([i \in 0..0 |-> 1], 0)
    BY DEF Powers
  <2> QED
    BY <1>2, <2>1
<1>3. CASE m # 0
  <2>1. m - 1 \in Nat /\ m - 1 \notin S
    BY <1>1, <1>3
  <2>2. PICK g : Powers(g, m - 1)
    BY <2>1
  <2> DEFINE h == [i \in 0..m |-> IF i = m THEN 2 * g[m - 1] ELSE g[i]]
  <2>3. Powers(h, m)
    BY <2>1, <2>2, <1>3 DEF Powers
  <2> QED
    BY <2>3
<1> QED
  BY <1>2, <1>3

(* They are the same in both of two lists.                                 *)
LEMMA PowersAgree ==
    ASSUME NEW n \in Nat, NEW g, Powers(g, n), NEW k \in Nat, NEW h, Powers(h, k), n <= k
    PROVE  g[n] = h[n]
<1> DEFINE S == {i \in 0..n : g[i] # h[i]}
<1> SUFFICES ASSUME S # {} PROVE FALSE
  OBVIOUS
<1>1. PICK m \in S : \A i \in S : m <= i
  <2>1. S \in SUBSET Nat
    OBVIOUS
  <2> HIDE DEF S
  <2> QED BY <2>1, Smallest, Zenon
<1>2. m # 0
  BY DEF Powers
<1>3. m - 1 \in 0..n /\ m - 1 \notin S
  BY <1>1, <1>2
<1>4. g[m] = 2 * g[m - 1] /\ h[m] = 2 * h[m - 1]
  BY <1>2 DEF Powers
<1> QED
  BY <1>3, <1>4

(* The recursive definition of doubled is satisfied by a function: the     *)
(* last elements of these lists.                                           *)
LEMMA Doubled ==
    /\ doubled[0] = 1
    /\ \A n \in Nat : doubled[n + 1] = 2 * doubled[n]
<1> DEFINE G(n) == CHOOSE g : Powers(g, n)
           F == [n \in Nat |-> G(n)[n]]
<1>1. \A n \in Nat : Powers(G(n), n)
  BY PowersExist
<1> HIDE DEF G
<1>2. F = [n \in Nat |-> IF n = 0 THEN 1 ELSE 2 * F[n - 1]]
  <2> SUFFICES ASSUME NEW n \in Nat PROVE F[n] = IF n = 0 THEN 1 ELSE 2 * F[n - 1]
    OBVIOUS
  <2>1. CASE n = 0
    BY <1>1, <2>1 DEF Powers
  <2>2. CASE n # 0
    <3>1. n - 1 \in Nat /\ n \in 1..n
      BY <2>2
    <3>2. G(n)[n] = 2 * G(n)[n - 1]
      BY <1>1, <3>1 DEF Powers
    <3>3. G(n - 1)[n - 1] = G(n)[n - 1]
      BY <1>1, <3>1, PowersAgree
    <3> QED
      BY <2>2, <3>1, <3>2, <3>3
  <2> QED
    BY <2>1, <2>2
<1> HIDE DEF F
<1>3. doubled = [n \in Nat |-> IF n = 0 THEN 1 ELSE 2 * doubled[n - 1]]
  BY <1>2, Zenon DEF doubled
<1> QED
  BY <1>3

(* A power of two is a positive number.                                    *)
LEMMA DoubledIsNat ==
    ASSUME NEW n \in Nat
    PROVE  doubled[n] \in Nat
<1> DEFINE S == {k \in Nat : doubled[k] \notin Nat}
<1> SUFFICES ASSUME S # {} PROVE FALSE
  OBVIOUS
<1>1. PICK m \in S : \A k \in S : m <= k
  BY Smallest, Zenon
<1>2. m # 0
  BY Doubled
<1>3. m - 1 \in Nat /\ doubled[m - 1] \in Nat
  BY <1>1, <1>2
<1>4. doubled[m] = 2 * doubled[m - 1]
  <2>1. doubled[(m - 1) + 1] = 2 * doubled[m - 1]
    BY <1>3, Doubled, Zenon
  <2>2. (m - 1) + 1 = m
    OBVIOUS
  <2> QED BY <2>1, <2>2
<1> QED
  BY <1>3, <1>4

(* The back-offs that BackOffBounded allows at a time                      *)
Short(t) ==
    {b \in BackOff : /\ b.next <= t + MaxBackOff
                     /\ BaseTime * doubled[b.count] < 2 * MaxBackOff}

(* Whatever is recorded of a host keeps its back-off bounded               *)
(* (BackOffState::retried): the exponent grows only while the period is    *)
(* below the longest one.                                                  *)
LEMMA ShortStays ==
    ASSUME NEW t \in Nat
    PROVE  /\ Reachable \in Short(t) /\ Short(t) \subseteq Short(t + 1)
           /\ \A b \in Short(t), ok \in BOOLEAN : set_reachable(b, ok, t) \in Short(t)
<1>a. BaseTime \in Nat /\ MaxBackOff \in Nat /\ 0 < MaxBackOff /\ BaseTime <= MaxBackOff
  BY MappingAssumption
<1>0. BaseTime * doubled[0] < 2 * MaxBackOff
  BY <1>a, Doubled
<1>1. Reachable \in Short(t) /\ new(t) \in Short(t)
  BY <1>a, <1>0 DEF Reachable, new, Short, BackOff
<1>2. Short(t) \subseteq Short(t + 1)
  BY <1>a DEF Short, BackOff
<1>3. ASSUME NEW b \in Short(t) PROVE retried(b, t) \in Short(t)
  <2> DEFINE p == BaseTime * doubled[b.count]
             period == Min({p, MaxBackOff})
             n == IF period < MaxBackOff THEN b.count + 1 ELSE b.count
             e == [b EXCEPT !.count = n, !.next = t + period]
  <2>1. b \in BackOff /\ b.count \in Nat /\ p < 2 * MaxBackOff
    BY DEF Short, BackOff
  <2>2. p \in Nat /\ BaseTime * doubled[b.count + 1] = 2 * p
    <3>1. doubled[b.count] \in Nat /\ doubled[b.count + 1] = 2 * doubled[b.count]
      BY <2>1, Doubled, DoubledIsNat, Zenon
    <3>2. ASSUME NEW x \in Nat, NEW y \in Nat PROVE x * y \in Nat /\ x * (2 * y) = 2 * (x * y)
      OBVIOUS
    <3> QED
      BY <1>a, <3>1, <3>2
  <2> HIDE DEF p
  <2>3. period \in Nat /\ period <= MaxBackOff /\ (period < MaxBackOff => period = p)
    <3>1. \E x \in {p, MaxBackOff} : \A y \in {p, MaxBackOff} : x <= y
      BY <1>a, <2>2
    <3>2. period \in {p, MaxBackOff} /\ \A y \in {p, MaxBackOff} : period <= y
      BY <3>1 DEF Min
    <3> HIDE DEF period
    <3> QED BY <1>a, <2>2, <3>2
  <2>4. retried(b, t) = b \/ retried(b, t) = e
    BY DEF retried, p
  <2> HIDE DEF period
  <2>5. n \in Nat /\ BaseTime * doubled[n] < 2 * MaxBackOff
    <3>1. CASE period < MaxBackOff
      <4>1. n = b.count + 1 /\ 2 * p < 2 * MaxBackOff
        BY <1>a, <2>2, <2>3, <3>1
      <4> HIDE DEF n
      <4> QED BY <2>1, <2>2, <4>1
    <3>2. CASE ~(period < MaxBackOff)
      BY <2>1, <3>2 DEF p
    <3> QED BY <3>1, <3>2
  <2> HIDE DEF n
  <2>6. e \in BackOff /\ e.count = n /\ e.next = t + period
    <3>1. ASSUME NEW x \in Nat, NEW y \in Nat
          PROVE  LET f == [b EXCEPT !.count = x, !.next = y]
                 IN  f \in BackOff /\ f.count = x /\ f.next = y
      BY <2>1 DEF BackOff
    <3>2. t + period \in Nat
      BY <2>3
    <3> QED
      BY <2>5, <3>1, <3>2, Zenon
  <2> HIDE DEF e
  <2>7. e \in Short(t)
    BY <1>a, <2>3, <2>5, <2>6 DEF Short
  <2> QED
    BY <2>4, <2>7
<1> QED
  BY <1>1, <1>2, <1>3, ZenonT(60) DEF set_reachable
(* The back-offs of all hosts of cache c are in S                          *)
Offs(c, S) ==
    \A r \in DOMAIN c.remotes : \A h \in DOMAIN c.remotes[r].hosts : c.remotes[r].hosts[h].off \in S

(* Recording an outcome puts one back-off, or all of them, in a new state  *)
(* (mark_host_reachable).                                                  *)
LEMMA MarkedOffs ==
    ASSUME NEW c, CacheOK(c), NEW S, Offs(c, S), NEW r, NEW h, NEW ok \in BOOLEAN, NEW t,
           Reachable \in S, \A b \in S : set_reachable(b, ok, t) \in S
    PROVE  Offs(mark_host_reachable(c, r, h, ok, t), S)
<1>1. CASE ~Knows(c, r, h)
  BY <1>1 DEF mark_host_reachable
<1>2. CASE Knows(c, r, h)
  <2> DEFINE d == Noted(c, r, h, ok, t)
             e == mark_host_reachable(c, r, h, ok, t)
  <2>1. e = set_or_reset_canary(d, r, ok)
    BY <1>2 DEF mark_host_reachable, Noted
  <2>2. OnlyMarked(c, d, r, h, ok, t)
    BY <1>2, NotedCache, Zenon
  <2> SUFFICES Offs(e, S)
    BY Zenon
  <2> HIDE DEF d, e
  <2>3. Offs(d, S)
    <3> SUFFICES ASSUME NEW q \in DOMAIN d.remotes, NEW g \in DOMAIN d.remotes[q].hosts
                 PROVE  d.remotes[q].hosts[g].off \in S
      BY Zenon DEF Offs
    <3>1. q \in DOMAIN c.remotes /\ g \in DOMAIN c.remotes[q].hosts /\ c.remotes[q].hosts[g].off \in S
      BY <2>2, Zenon DEF OnlyMarked, Offs
    <3>2. CASE q = r /\ g = h
      BY <2>2, <3>1, <3>2, Zenon DEF OnlyMarked
    <3>3. CASE q # r \/ g # h
      BY <2>2, <3>1, <3>3, Zenon DEF OnlyMarked
    <3> QED
      BY <3>2, <3>3
  <2>4. CacheOK(d)
    BY <2>2, Zenon DEF OnlyMarked
  <2>5. ASSUME NEW x PROVE [d EXCEPT !.canary = x].remotes = d.remotes
    BY <2>4 DEF CacheOK
  <2>6. Offs(reset_all_back_off_states(d), S)
    BY <2>4, ResetCache, Zenon DEF Offs
  <2>7. e = d \/ e = reset_all_back_off_states(d) \/ \E x : e = [d EXCEPT !.canary = x]
    BY <2>1, Zenon DEF set_or_reset_canary
  <2> QED
    BY <2>3, <2>5, <2>6, <2>7, Zenon DEF Offs
<1> QED
  BY <1>1, <1>2

(* Hosts keep their back-off when remotes.cfg changes; new ones have none  *)
(* (config_update).                                                        *)
LEMMA UpdatedOffs ==
    ASSUME NEW c, CacheOK(c), NEW S, Offs(c, S), Reachable \in S, NEW l
    PROVE  Offs(config_update(c, l), S)
<1> DEFINE Old(r) == IF r \in DOMAIN c.remotes THEN c.remotes[r] ELSE new_mapping
           f == [r \in DOMAIN l |-> prune_remote_nodes(Old(r), l[r])]
<1>1. config_update(c, l) = [remotes |-> f, canary |-> c.canary]
  BY DEF config_update, CacheOK
<1>2. ASSUME NEW r, NEW h \in DOMAIN Old(r).hosts PROVE Old(r).hosts[h].off \in S
  <2>1. CASE r \in DOMAIN c.remotes
    BY <1>2, <2>1, ZenonT(60) DEF Offs
  <2>2. CASE r \notin DOMAIN c.remotes
    BY <1>2, <2>2 DEF new_mapping
  <2> QED
    BY <2>1, <2>2
<1> HIDE DEF Old
<1>3. ASSUME NEW r \in DOMAIN l, NEW h \in DOMAIN f[r].hosts PROVE f[r].hosts[h].off \in S
  <2> DEFINE hs == [g \in l[r] |-> IF g \in DOMAIN Old(r).hosts THEN Old(r).hosts[g] ELSE new_host]
  <2>1. f[r].hosts = hs
    BY DEF prune_remote_nodes
  <2>2. new_host.off = Reachable
    BY DEF new_host
  <2>3. DOMAIN hs = l[r] /\ \A g \in l[r] : hs[g] \in {Old(r).hosts[g], new_host}
                             /\ (g \notin DOMAIN Old(r).hosts => hs[g] = new_host)
    BY ZenonT(60)
  <2> HIDE DEF f, hs
  <2> QED
    BY <1>2, <1>3, <2>1, <2>2, <2>3, ZenonT(60)
<1>4. DOMAIN f = DOMAIN l
  BY Zenon
<1> HIDE DEF f
<1>5. config_update(c, l).remotes = f
  BY <1>1
<1> QED
  BY <1>3, <1>4, <1>5, Zenon DEF Offs

(* BackOffBounded in a form that steps preserve                            *)
OffInv == IInv /\ now \in Nat /\ Offs(cache, Short(now))

LEMMA OffStep ==
    ASSUME OffInv, [Next]_vars
    PROVE  OffInv'
<1>0. IInv' /\ CacheOK(cache) /\ now \in Nat /\ Offs(cache, Short(now))
  BY CacheStep, Zenon DEF OffInv, IInv
<1>1. /\ Reachable \in Short(now) /\ Short(now) \subseteq Short(now + 1)
      /\ \A b \in Short(now), ok \in BOOLEAN : set_reachable(b, ok, now) \in Short(now)
  BY <1>0, ShortStays, Zenon
<1> DEFINE S == Short(now)
<1>2. ASSUME NEW r, NEW h, NEW ok \in BOOLEAN
      PROVE  /\ Offs(mark_host_reachable(cache, r, h, ok, now), S)
             /\ CacheOK(mark_host_reachable(cache, r, h, ok, now))
  BY <1>0, <1>1, MarkedOffs, MarkedCache, Zenon
<1>3. ASSUME now' = now, Offs(cache', S) PROVE OffInv'
  BY <1>0, <1>3, Zenon DEF OffInv
<1>4. ASSUME NEW q \in Requests, Step(q) PROVE OffInv'
  <2>1. now' = now
    BY <1>4, Zenon DEF Step, request, try_clients, connect_retry, answered, connect_error,
                       client_error, timed_out, Record
  <2>2. cache' = cache \/ \E ok \in BOOLEAN : cache' = Mark(q, ok)
    BY <1>4, RequestRecords, Zenon
  <2>3. Offs(cache', S)
    BY <1>0, <1>2, <2>2, Zenon DEF Mark
  <2> QED
    BY <1>3, <2>1, <2>3, Zenon
<1>5. CASE run_once
  <2>1. now' = now /\ (cache' = cache \/ cache' = config_update(cache, HostsOf(conf)))
    BY <1>5, Zenon DEF run_once
  <2>2. Offs(config_update(cache, HostsOf(conf)), S)
    BY <1>0, <1>1, UpdatedOffs, Zenon
  <2> QED
    BY <1>0, <1>3, <2>1, <2>2, Zenon
<1>6. ASSUME NEW r \in Pve, NEW h \in Hosts, query_node_name(r, h) PROVE OffInv'
  <2>1. now' = now
    BY <1>6, Zenon DEF query_node_name
  <2>2. PICK n \in Names \cup {NoName} :
           cache' = IF n = NoName THEN mark_host_reachable(cache, r, h, n # NoName, now)
                    ELSE set_node_name(mark_host_reachable(cache, r, h, n # NoName, now), r, h, n)
    BY <1>6, Zenon DEF query_node_name
  <2> DEFINE ok == n # NoName
             d == mark_host_reachable(cache, r, h, ok, now)
  <2>3. ok \in BOOLEAN
    OBVIOUS
  <2>4. Offs(d, S) /\ CacheOK(d)
    <3> HIDE DEF ok
    <3> QED BY <1>2, <2>3, Zenon
  <2>5. cache' = d \/ (n \in Names /\ cache' = set_node_name(d, r, h, n))
    BY <2>2, Zenon
  <2> HIDE DEF d
  <2>6. n \in Names => SameOffs(d, set_node_name(d, r, h, n))
    BY <2>4, NamedOffs, Zenon
  <2>7. Offs(cache', S)
    <3> HIDE DEF S
    <3>1. ASSUME NEW e, SameOffs(d, e) PROVE Offs(e, S)
      BY <2>4, <3>1, ZenonT(60) DEF SameOffs, Offs
    <3> QED
      BY <2>4, <2>5, <2>6, <3>1, Zenon
  <2> QED
    BY <1>3, <2>1, <2>7, Zenon
<1>7. ASSUME cache' = cache, now' = now PROVE OffInv'
  BY <1>0, <1>3, <1>7, Zenon
<1>8. CASE clock
  <2>1. now' = now + 1 /\ cache' = cache
    BY <1>8, Zenon DEF clock
  <2>2. Offs(cache', Short(now'))
    BY <1>0, <1>1, <2>1, Zenon DEF Offs
  <2>3. now' \in Nat
    BY <1>0, <2>1
  <2> QED
    BY <1>0, <2>2, <2>3, Zenon DEF OffInv
<1>9. (\E r \in Remotes : cleanup_cycle(r)) \/ (\E l \in Layouts : edit_remotes(l)) \/ UNCHANGED vars
         => cache' = cache /\ now' = now
  BY Zenon DEF cleanup_cycle, edit_remotes, vars
<1> QED
  BY <1>4, <1>5, <1>6, <1>7, <1>8, <1>9, Zenon DEF Next

(* A host is never left alone for longer than MaxBackOff, and the power in *)
(* BackOffState::retried stays below twice that, for any base time and     *)
(* however long the host is down.                                          *)
THEOREM BackOffAlwaysBounded == Spec => []BackOffBounded
<1>1. Init => OffInv
  <2> SUFFICES ASSUME Init PROVE OffInv
    OBVIOUS
  <2>1. IInv /\ now = 0 /\ cache = config_update(EmptyCache, HostsOf(conf))
    BY CacheInit, ZenonT(60) DEF Init
  <2>2. CacheOK(EmptyCache) /\ Offs(EmptyCache, Short(now))
    BY DEF CacheOK, EmptyCache, Offs
  <2>3. now \in Nat /\ Reachable \in Short(now)
    BY <2>1, ShortStays
  <2> QED
    BY <2>1, <2>2, <2>3, UpdatedOffs, Zenon DEF OffInv
<1>2. OffInv => BackOffBounded
  <2> SUFFICES ASSUME OffInv, NEW r \in DOMAIN cache.remotes, NEW h \in DOMAIN cache.remotes[r].hosts
               PROVE  LET b == cache.remotes[r].hosts[h].off
                      IN  /\ time_to_next_try(b, now) <= MaxBackOff
                          /\ BaseTime * doubled[b.count] < 2 * MaxBackOff
    BY Zenon DEF BackOffBounded
  <2> DEFINE b == cache.remotes[r].hosts[h].off
  <2>1. b \in Short(now) /\ now \in Nat
    BY Zenon DEF OffInv, Offs
  <2> HIDE DEF b
  <2>2. /\ b.next \in Nat /\ b.next <= now + MaxBackOff
        /\ BaseTime * doubled[b.count] < 2 * MaxBackOff
    BY <2>1 DEF Short, BackOff
  <2>3. time_to_next_try(b, now) <= MaxBackOff
    BY <2>1, <2>2, MappingAssumption DEF time_to_next_try
  <2> QED
    BY <2>2, <2>3, Zenon DEF b
<1> QED
  BY <1>1, <1>2, OffStep, PTL DEF Spec
=============================================================================
