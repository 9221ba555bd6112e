--------------------------- MODULE RemoteMapping ---------------------------
(***************************************************************************)
(* The remote mapping cache, server/src/remote_cache/mod.rs and            *)
(* back_off.rs: which hosts of which remotes are unreachable, for how long *)
(* each is left alone, which node name each host answers to, and the       *)
(* canary, the one remote that is never left alone while all are down.     *)
(*                                                                         *)
(* Every change is made to a copy of the cache under its lock and saved at *)
(* the end, so the operations here are functions from cache to cache.      *)
(***************************************************************************)
EXTENDS Integers, FiniteSetsExt

CONSTANTS
    Remotes, Hosts, Names,
    NoRemote, NoHost, NoName,
    BaseTime,      \* BACK_OFF_BASE_TIME_S
    MaxBackOff,    \* BACK_OFF_MAX_TIME_S
    MinFail        \* BACK_OFF_MIN_TIME_S

ASSUME MappingAssumption ==
    /\ NoRemote \notin Remotes /\ NoHost \notin Hosts /\ NoName \notin Names
    /\ {BaseTime, MaxBackOff} \subseteq Nat \ {0}
    /\ BaseTime <= MaxBackOff
    /\ MinFail \in Nat

-----------------------------------------------------------------------------
(* Back-off of one host; on is FALSE for a host that is reachable.         *)

BackOff == [on : BOOLEAN, count : Nat, first : Nat, next : Nat]

Reachable == [on |-> FALSE, count |-> 0, first |-> 0, next |-> 0]

new(t) == [on |-> TRUE, count |-> 0, first |-> t, next |-> t]

time_to_next_try(b, t) == IF b.next > t THEN b.next - t ELSE 0

(* 2i64.pow                                                                *)
doubled[n \in Nat] == IF n = 0 THEN 1 ELSE 2 * doubled[n - 1]

retried_without_limit(b, t) ==
    IF time_to_next_try(b, t) > 0 \/ (b.count = 0 /\ t - b.first < MinFail) THEN b
    ELSE [b EXCEPT !.count = @ + 1, !.next = t + Min({BaseTime * doubled[b.count], MaxBackOff})]

(* A failure within the back-off period, or before the host has failed for *)
(* MinFail, changes nothing; the others double the period.                 *)
retried(b, t) ==
    LET period == Min({BaseTime * doubled[b.count], MaxBackOff})
    IN  IF time_to_next_try(b, t) > 0 \/ (b.count = 0 /\ t - b.first < MinFail) THEN b
        ELSE [b EXCEPT !.count = IF period < MaxBackOff THEN @ + 1 ELSE @,
                       !.next = t + period]

set_reachable(b, ok, t) ==
    IF ok THEN Reachable ELSE IF b.on THEN retried(b, t) ELSE new(t)

-----------------------------------------------------------------------------
(* One remote: its hosts with their back-off and node name, and the index  *)
(* from node names back to hosts                                           *)

HostInfo == [off : BackOff, name : Names \cup {NoName}]

Mapping == [hosts : UNION {[hs -> HostInfo] : hs \in SUBSET Hosts},
            node_to_host : [Names -> Hosts \cup {NoHost}]]

new_host == [off |-> Reachable, name |-> NoName]
new_mapping == [hosts |-> [h \in {} |-> new_host], node_to_host |-> [n \in Names |-> NoHost]]

is_reachable(m) == DOMAIN m.hosts = {} \/ \E h \in DOMAIN m.hosts : ~m.hosts[h].off.on

set_name_keeping_old(m, h, n) ==
    IF h \notin DOMAIN m.hosts THEN m
    ELSE [m EXCEPT !.hosts[h].name = n, !.node_to_host[n] = h]

(* The old name of the host leaves the index, whichever host it points to. *)
set_mapping_name(m, h, n) ==
    IF h \notin DOMAIN m.hosts THEN m
    ELSE [m EXCEPT !.hosts[h].name = n,
                   !.node_to_host = [x \in Names |-> IF x = n THEN h
                                                     ELSE IF x = m.hosts[h].name THEN NoHost
                                                     ELSE @[x]]]

(* The hosts that left the configuration go, with their names; the new     *)
(* ones come in as reachable.                                              *)
prune_remote_nodes(m, hs) ==
    LET removed == {m.hosts[h].name : h \in DOMAIN m.hosts \ hs}
    IN  [hosts |-> [h \in hs |-> IF h \in DOMAIN m.hosts THEN m.hosts[h] ELSE new_host],
         node_to_host |-> [n \in Names |-> IF n \in removed THEN NoHost ELSE m.node_to_host[n]]]

-----------------------------------------------------------------------------
(* The cache                                                               *)

Cache == [remotes : UNION {[rs -> Mapping] : rs \in SUBSET Remotes},
          canary : Remotes \cup {NoRemote}]

EmptyCache == [remotes |-> [r \in {} |-> new_mapping], canary |-> NoRemote]

Knows(c, r, h) == r \in DOMAIN c.remotes /\ h \in DOMAIN c.remotes[r].hosts

AllUnreachable(c) == \A r \in DOMAIN c.remotes : ~is_reachable(c.remotes[r])

canary_is_needed(c) == c.canary \notin DOMAIN c.remotes /\ AllUnreachable(c)

reset_all_back_off_states(c) ==
    [canary |-> NoRemote,
     remotes |-> [r \in DOMAIN c.remotes |->
                     [c.remotes[r] EXCEPT !.hosts = [h \in DOMAIN @ |-> [@[h] EXCEPT !.off = Reachable]]]]]

set_canary_once(c, r, ok) ==
    IF ok THEN IF c.canary = NoRemote THEN c ELSE reset_all_back_off_states(c)
    ELSE IF c.canary = NoRemote /\ AllUnreachable(c) THEN [c EXCEPT !.canary = r] ELSE c

(* A canary that is no longer configured is dropped before it is replaced. *)
set_or_reset_canary(c, r, ok) ==
    IF ok THEN IF c.canary = NoRemote THEN c ELSE reset_all_back_off_states(c)
    ELSE [c EXCEPT !.canary = IF canary_is_needed(c) THEN r
                              ELSE IF @ \in DOMAIN c.remotes THEN @ ELSE NoRemote]

mark_host_reachable(c, r, h, ok, t) ==
    IF Knows(c, r, h)
    THEN set_or_reset_canary([c EXCEPT !.remotes[r].hosts[h].off = set_reachable(@, ok, t)], r, ok)
    ELSE c

set_node_name(c, r, h, n) ==
    IF r \in DOMAIN c.remotes
    THEN [c EXCEPT !.remotes[r] = set_mapping_name(@, h, n)]
    ELSE c

host_is_reachable(c, r, h) == Knows(c, r, h) => ~c.remotes[r].hosts[h].off.on

(* Zero stands for "may be tried", with or without back-off.               *)
host_time_to_next_try(c, r, h, t) ==
    IF r = c.canary \/ host_is_reachable(c, r, h) THEN 0
    ELSE time_to_next_try(c.remotes[r].hosts[h].off, t)

remote_time_to_next_try(c, r, t) ==
    IF r = c.canary \/ r \notin DOMAIN c.remotes \/ is_reachable(c.remotes[r]) THEN 0
    ELSE Min({time_to_next_try(c.remotes[r].hosts[h].off, t) : h \in DOMAIN c.remotes[r].hosts})

(* conf: the hosts of every configured remote                              *)
config_update(c, conf) ==
    [c EXCEPT !.remotes =
        [r \in DOMAIN conf |->
            prune_remote_nodes(IF r \in DOMAIN @ THEN @[r] ELSE new_mapping, conf[r])]]
=============================================================================
