------------------------ MODULE MCSubscriptionPool ------------------------
(* Small instances of the subscription pool in which all keys and all      *)
(* remotes are PVE.                                                        *)
EXTENDS SubscriptionPool, TLC

CONSTANTS k1, k2, r1, r2, n1, h1, h2

MCKeys == {k1, k2}
MCRemotes == {r1, r2}

AllPve == [k \in Keys |-> "pve"]
AllPveRemotes == [r \in Remotes |-> "pve"]

BindingOps == {"add", "set", "clear", "delete", "adopt"}
WorkerOps == {"add", "set", "queue_clear", "apply"}

(* The calls of BindingOps, split as in SubscriptionPool, and restarts:    *)
(* what is left of Next when Ops is BindingOps and there are no workers,   *)
(* no volatile remotes and no foreign changes.                             *)
RacesNext ==
    \/ \E ks \in SUBSET Keys : add_keys(ks)
    \/ \E h \in Handlers :
          \/ \E k \in Keys : begin_delete_key(h, k) \/ begin_clear_assignment(h, k)
          \/ \E k \in Keys, t \in Targets : begin_set_assignment(h, k, t)
          \/ \E t \in Targets : begin_adopt_key(h, t)
          \/ check_synced_assignment_for_unassign(h) \/ fetch_adopt_key(h)
          \/ delete_key(h) \/ clear_assignment(h) \/ set_assignment(h) \/ adopt_key(h)
    \/ restart

RacesSpec == Init /\ [][RacesNext]_vars

NoTargets == {}
FirstTarget == {<<r1, n1>>}
(* Where every key and every remote is PVE, keys, remotes and handlers are *)
(* interchangeable.                                                        *)
AllAlike == Permutations(Keys) \cup Permutations(Remotes) \cup Permutations(Handlers)
=============================================================================
