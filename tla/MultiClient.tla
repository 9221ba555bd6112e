---------------------------- MODULE MultiClient ----------------------------
(***************************************************************************)
(* API requests to remotes, server/src/connection.rs: the failover from    *)
(* host to host of a MultiClient, whose position is shared by concurrent   *)
(* requests, with the reachability cache they read and write, and the task *)
(* that keeps the cache up to date,                                        *)
(* bin/proxmox-datacenter-api/tasks/remote_node_mapping.rs.                *)
(*                                                                         *)
(* A request is one step up to the await of an answer and one for the      *)
(* answer and what is recorded of it.                                      *)
(***************************************************************************)
EXTENDS RemoteMapping, Sequences

CONSTANTS
    Requests,
    RemoteOf,    \* remote of a request
    Method,      \* "get" (idempotent) or "post"
    Pve,         \* remotes of type PVE, which have a name task and a shared client
    Layouts,     \* possible contents of remotes.cfg: the hosts of each remote, in order
    Outcomes,    \* how an attempt may end
    NameTask,    \* does the name task run
    MaxTime

ASSUME ClientAssumption ==
    /\ RemoteOf \in [Requests -> Remotes] /\ Method \in [Requests -> {"get", "post"}]
    /\ \A l \in Layouts : DOMAIN l \subseteq Remotes /\ \A r \in DOMAIN l : l[r] \in Seq(Hosts) \ {<<>>}
    /\ Outcomes \subseteq {"ok", "connect", "client", "timeout"} /\ "ok" \in Outcomes
    /\ Pve \subseteq Remotes /\ NameTask \in BOOLEAN /\ MaxTime \in Nat

NoSlot == "none"

VARIABLES
    cache,   \* the remote mapping cache
    conf,    \* remotes.cfg
    known,   \* the configuration the name task saw last
    asking,  \* hosts the name task has yet to ask, as <<remote, host>>
    slot,    \* MultiClientState of the client a request has made
    shared,  \* client the connection cache has for a remote, by the request that made it
    req,     \* the requests
    doubt,   \* history of the hosts of each request
    now

vars == <<cache, conf, known, asking, slot, shared, req, doubt, now>>

New == [pc |-> "new", slot |-> NoSlot, start |-> 0, cur |-> 0, begun |-> FALSE, last |-> FALSE,
        skipped |-> <<>>, host |-> NoHost, reach |-> TRUE, first |-> TRUE, again |-> NoHost,
        tried |-> {}, ran |-> 0, late |-> FALSE]

-----------------------------------------------------------------------------
(* MultiClientState                                                        *)

get_at(s, at) == s.entries[(at % Len(s.entries)) + 1]

(* The position after passing unreachable hosts, at most all of them once  *)
skip_unreachable(c, r, s) ==
    LET n == Len(s.entries)
        ks == {k \in 0..(n - 1) : host_is_reachable(c, r, get_at(s, s.current + k))}
    IN  [s EXCEPT !.current = @ + (IF ks = {} THEN n ELSE Min(ks))]

tried_all_but_one(s, start) == s.current - start >= Len(s.entries) - 1

tried_all_since(s, start) == s.current - start >= Len(s.entries)

-----------------------------------------------------------------------------
(* The requests                                                            *)

(* The hosts that are, or have been while a request ran, known to be down  *)
(* or tried by someone: kept for the properties only.                      *)
Observe ==
    doubt' = [q \in Requests |->
        IF req'[q].slot = NoSlot THEN {}
        ELSE doubt[q]
             \cup {h \in Range(slot'[req'[q].slot].entries) : ~host_is_reachable(cache', RemoteOf[q], h)}
             \cup {req'[p].host : p \in {p \in Requests : RemoteOf[p] = RemoteOf[q]}}]

(* A new client starts at the first host that is not known to be down.     *)
multi_connect(r) == skip_unreachable(cache, r, [entries |-> conf[r], current |-> 0])

(* The shared client serves if it was made for this configuration; PBS     *)
(* clients are never shared.                                               *)
Reusable(r) == r \in Pve /\ shared[r] # NoSlot /\ slot[shared[r]].entries = conf[r]

(* A remote whose hosts are all being left alone fails the request at once. *)
request(q) ==
    LET r == RemoteOf[q]
        mine == IF Reusable(r) THEN shared[r] ELSE q
        wait == remote_time_to_next_try(cache, r, now) > 0
    IN  /\ req[q].pc = "new" /\ r \in DOMAIN conf
        /\ slot' = IF Reusable(r) THEN slot ELSE [slot EXCEPT ![q] = multi_connect(r)]
        /\ shared' = IF r \in Pve THEN [shared EXCEPT ![r] = mine] ELSE shared
        /\ req' = [req EXCEPT ![q] = [@ EXCEPT !.pc = IF wait THEN "failed" ELSE "next", !.slot = mine]]
        /\ UNCHANGED <<cache, conf, known, asking, now>>
        /\ Observe

(* Try host number at, unless its back-off says to leave it alone.         *)
Try(q, c, slots, at, reach) ==
    LET h == get_at(slots[c.slot], at)
        wait == host_time_to_next_try(cache, RemoteOf[q], h, now) > 0
    IN  /\ slot' = slots
        /\ req' = [req EXCEPT ![q] = IF wait THEN c
                                     ELSE [c EXCEPT !.pc = "sent", !.host = h, !.reach = reach,
                                                    !.tried = @ \cup {h}]]

(* Nothing left to try but the first host, if that only failed to connect  *)
Fail(c) == [c EXCEPT !.pc = IF c.again = NoHost THEN "failed" ELSE "retry", !.host = c.again]

TakeSkipped(c) == [c EXCEPT !.last = TRUE, !.skipped = Tail(@)]

(* The position of the client, moved on past the host that was tried       *)
(* unless someone else has moved it                                        *)
Moved(q) ==
    LET c == req[q]
        s == slot[c.slot]
    IN  IF c.begun /\ ~c.last /\ s.current = c.cur
        THEN skip_unreachable(cache, RemoteOf[q], [s EXCEPT !.current = @ + 1])
        ELSE s

(* The request goes to the host at a position, with those passed on the    *)
(* way there kept for later.                                               *)
At(c, current) ==
    [c EXCEPT !.begun = TRUE, !.cur = current,
              !.start = IF c.begun THEN @ ELSE current,
              !.skipped = IF ~c.begun THEN @
                          ELSE @ \o [i \in 1..(current - c.cur - 1) |-> c.cur + i]]

(* The next host the request tries: the current one at first; then the one *)
(* the position has moved to; when all have been passed since the start,   *)
(* those skipped on the way.                                               *)
try_clients(q) ==
    LET c == req[q]
        moved == Moved(q)
        slots == [slot EXCEPT ![c.slot] = moved]
        here == host_is_reachable(cache, RemoteOf[q], get_at(moved, moved.current))
        over == c.last \/ (c.begun /\ tried_all_since(moved, c.start))
    IN  /\ c.pc = "next"
        /\ \/ ~over /\ Try(q, At(c, moved.current), slots, moved.current, here)
           \/ over /\ c.skipped # <<>> /\ Try(q, TakeSkipped(c), slots, Head(c.skipped), FALSE)
           \/ over /\ c.skipped = <<>> /\ slot' = slots /\ req' = [req EXCEPT ![q] = Fail(c)]
        /\ UNCHANGED <<cache, conf, known, asking, shared, now>>
        /\ Observe

Record(q, c, cs) ==
    /\ cache' = cs
    /\ req' = [req EXCEPT ![q] = c]
    /\ UNCHANGED <<conf, known, asking, slot, shared, now>>
    /\ Observe

Mark(q, ok) == mark_host_reachable(cache, RemoteOf[q], req[q].host, ok, now)

(* The attempt is over, and the server has processed it n times.  More     *)
(* than twice is no different from twice.                                  *)
Ran(c, n) == [c EXCEPT !.ran = Min({@ + n, 2}), !.host = NoHost]

answered(q) ==
    /\ req[q].pc = "sent"
    /\ Record(q, Ran([req[q] EXCEPT !.pc = "ok"], 1), IF req[q].reach THEN cache ELSE Mark(q, TRUE))

(* The request never reached the server.                                   *)
connect_error(q) ==
    /\ req[q].pc = "sent" /\ "connect" \in Outcomes
    /\ Record(q, Ran([req[q] EXCEPT !.pc = "next", !.first = FALSE,
                                    !.again = IF req[q].first THEN req[q].host ELSE @], 0),
              Mark(q, FALSE))

client_error_any_method(q) ==
    /\ req[q].pc = "sent" /\ "client" \in Outcomes
    /\ \E n \in {0, 1} :
          Record(q, Ran([req[q] EXCEPT !.pc = "next", !.first = FALSE], n), Mark(q, FALSE))

(* The server may have processed it.                                       *)
client_error(q) ==
    /\ req[q].pc = "sent" /\ "client" \in Outcomes
    /\ \E n \in {0, 1} :
          IF Method[q] = "get"
          THEN Record(q, Ran([req[q] EXCEPT !.pc = "next", !.first = FALSE], n), Mark(q, FALSE))
          ELSE Record(q, Ran([req[q] EXCEPT !.pc = "failed"], n), cache)

timed_out(q) ==
    /\ req[q].pc = "sent" /\ "timeout" \in Outcomes
    /\ \E n \in {0, 1} :
          Record(q, Ran([req[q] EXCEPT !.pc = "next", !.first = FALSE, !.late = TRUE], n), Mark(q, FALSE))

(* The first host once more, if it had failed to connect                   *)
connect_retry(q) ==
    /\ req[q].pc = "retry"
    /\ \/ Record(q, Ran([req[q] EXCEPT !.pc = "ok"], 1), Mark(q, TRUE))
       \/ \E n \in {0, 1} : Record(q, Ran([req[q] EXCEPT !.pc = "failed"], n), cache)

(* Clients not used for a while leave the connection cache.                *)
cleanup_cycle(r) ==
    /\ shared[r] # NoSlot
    /\ shared' = [shared EXCEPT ![r] = NoSlot]
    /\ UNCHANGED <<cache, conf, known, asking, slot, req, doubt, now>>

-----------------------------------------------------------------------------
(* The name task, the operator and the clock                               *)

HostsOf(l) == [r \in DOMAIN l |-> Range(l[r])]

PveHosts(l) == {p \in Pve \X Hosts : p[1] \in DOMAIN l /\ p[2] \in Range(l[p[1]])}

(* A changed configuration updates the cache and aborts the round of       *)
(* questions; a new round starts when none is under way.                   *)
run_once ==
    LET changed == known # conf
        updated == IF changed THEN config_update(cache, HostsOf(conf)) ELSE cache
    IN  /\ NameTask
        /\ changed \/ asking = {}
        /\ known' = conf
        /\ cache' = updated
        /\ asking' = PveHosts(conf)
        /\ UNCHANGED <<conf, slot, shared, req, now>>
        /\ Observe

(* One host answers with its name, or does not answer.                     *)
query_node_name(r, h) ==
    /\ <<r, h>> \in asking
    /\ asking' = asking \ {<<r, h>>}
    /\ \E n \in Names \cup {NoName} :
          LET marked == mark_host_reachable(cache, r, h, n # NoName, now)
          IN  cache' = IF n = NoName THEN marked ELSE set_node_name(marked, r, h, n)
    /\ UNCHANGED <<conf, known, slot, shared, req, now>>
    /\ Observe

edit_remotes(l) ==
    /\ l # conf
    /\ conf' = l
    /\ UNCHANGED <<cache, known, asking, slot, shared, req, doubt, now>>

clock ==
    /\ now < MaxTime
    /\ now' = now + 1
    /\ UNCHANGED <<cache, conf, known, asking, slot, shared, req, doubt>>

-----------------------------------------------------------------------------
Init ==
    /\ conf \in Layouts /\ known = conf
    /\ cache = config_update(EmptyCache, HostsOf(conf))
    /\ asking = {}
    /\ slot = [q \in Requests |-> [entries |-> <<>>, current |-> 0]]
    /\ shared = [r \in Remotes |-> NoSlot]
    /\ req = [q \in Requests |-> New]
    /\ doubt = [q \in Requests |-> {}]
    /\ now = 0

Step(q) ==
    \/ request(q) \/ try_clients(q) \/ connect_retry(q)
    \/ answered(q) \/ connect_error(q) \/ client_error(q) \/ timed_out(q)

Next ==
    \/ \E q \in Requests : Step(q)
    \/ \E r \in Remotes : cleanup_cycle(r)
    \/ run_once
    \/ \E r \in Pve, h \in Hosts : query_node_name(r, h)
    \/ \E l \in Layouts : edit_remotes(l)
    \/ clock

Spec == Init /\ [][Next]_vars

-----------------------------------------------------------------------------
(* Properties                                                              *)

(* The cache, the positions and the requests have the shapes the code      *)
(* gives them, and a request has a host exactly while it waits for one.    *)
TypeOK ==
    /\ DOMAIN cache.remotes \subseteq Remotes /\ cache.canary \in Remotes \cup {NoRemote}
    /\ \A r \in DOMAIN cache.remotes :
          /\ DOMAIN cache.remotes[r].hosts \subseteq Hosts
          /\ \A h \in DOMAIN cache.remotes[r].hosts : cache.remotes[r].hosts[h] \in HostInfo
          /\ cache.remotes[r].node_to_host \in [Names -> Hosts \cup {NoHost}]
    /\ \A q \in Requests :
          /\ req[q].pc \in {"new", "next", "sent", "retry", "ok", "failed"}
          /\ req[q].pc \in {"sent", "retry"} <=> req[q].host # NoHost
          /\ req[q].slot # NoSlot => req[q].start <= slot[req[q].slot].current
    /\ asking \subseteq Pve \X Hosts /\ now \in 0..MaxTime

(* A request that is not idempotent is processed at most once, as long as  *)
(* no attempt at it timed out: after an error past the connect it is not   *)
(* tried elsewhere, and an attempt that did not connect never reached a    *)
(* server (connection.rs:788-806, 852-871).                                *)
PostOnce == \A q \in Requests : Method[q] = "post" /\ ~req[q].late => req[q].ran <= 1

(* The comment at connection.rs:798-799: "the server may already have      *)
(* processed the request, so only fail over for idempotent methods".       *)
NeverRepeatsPost == \A q \in Requests : Method[q] = "post" => req[q].ran <= 1

(* A request runs out of hosts only if every host of its client was known  *)
(* to be down, or was tried by this or another request, at some time while *)
(* it ran: no request moves the shared position past a host that the       *)
(* others then miss (connection.rs:578-602, 667-717).                      *)
NoHostOverlooked ==
    [][\A q \in Requests :
          req[q].pc = "next" /\ req'[q].pc \in {"failed", "retry"}
             => Range(slot[req[q].slot].entries) \subseteq doubt'[q]]_vars

(* A request tries no host twice, apart from the last retry of the first,  *)
(* however many others move the position it shares with them and whichever *)
(* hosts they mark; so it ends after at most one attempt at each host and  *)
(* one more (connection.rs:667-717, 852-871).                              *)
NoHostTwice ==
    [][\A q \in Requests :
          req[q].pc = "next" /\ req'[q].pc = "sent" => req'[q].host \notin req[q].tried]_vars

(* A request that fails has given each host its chance, and no host more   *)
(* than one (try_clients).                                                 *)
EachHostOnce == NoHostOverlooked /\ NoHostTwice

NobodyDown(c) == \A r \in Remotes, h \in Hosts : host_is_reachable(c, r, h)

(* Whenever a request or the name task records an outcome: if no remote is *)
(* left reachable there is a canary, and one that is still configured; and *)
(* if a host recovers while there is a canary, no host is left backed off  *)
(* (remote_cache/mod.rs:214-229, 338-354).                                 *)
CanaryWatch ==
    [][cache' # cache /\ known' = known =>
          /\ AllUnreachable(cache') => cache'.canary \in DOMAIN cache'.remotes
          /\ /\ cache.canary # NoRemote
             /\ \E r \in Remotes, h \in Hosts :
                   ~host_is_reachable(cache, r, h) /\ host_is_reachable(cache', r, h)
             => NobodyDown(cache')]_vars

(* A node name leads to a configured host that answered with it, while     *)
(* hosts take over each other's names and come and go                      *)
(* (remote_cache/mod.rs:427-437, remote_node_mapping.rs:140-149).          *)
IndexSound ==
    \A r \in DOMAIN cache.remotes, n \in Names :
        LET m == cache.remotes[r]
            h == m.node_to_host[n]
        IN  h # NoHost => h \in DOMAIN m.hosts /\ m.hosts[h].name = n

(* A host is never left alone for longer than MaxBackOff, and the exponent *)
(* of its period stays where the period is below twice that, so that the   *)
(* power in back_off.rs:52 cannot overflow however long the host is down.  *)
BackOffBounded ==
    \A r \in DOMAIN cache.remotes : \A h \in DOMAIN cache.remotes[r].hosts :
        LET b == cache.remotes[r].hosts[h].off
        IN  /\ time_to_next_try(b, now) <= MaxBackOff
            /\ BaseTime * doubled[b.count] < 2 * MaxBackOff
=============================================================================
