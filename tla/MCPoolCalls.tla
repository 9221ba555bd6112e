---------------------------- MODULE MCPoolCalls ----------------------------
(* Two environments for the subscription pool, with a PVE and a PBS key.   *)
(* "edits": every call that edits the pool, on two PVE remotes of which    *)
(* one comes and goes and one loses answers, and whose nodes are also      *)
(* changed behind the pool's back.  "worker": the apply-pending worker     *)
(* beside the calls that give it work, on a PVE and a PBS remote.  The     *)
(* constants of the pool itself take in both.                              *)
EXTENDS SubscriptionPool, TLC

CONSTANTS k1, k2, r1, r2, r3, n1, h1, w1

VARIABLE scenario   \* the environment of this behaviour

MCKeyType == (k1 :> "pve") @@ (k2 :> "pbs")
MCRemoteType == (r1 :> "pve") @@ (r2 :> "pve") @@ (r3 :> "pbs")
MCForeign == {<<r1, n1>>, <<r2, n1>>}

Edits == INSTANCE SubscriptionPool WITH
    Remotes <- {r1, r2}, RemoteType <- [r \in {r1, r2} |-> RemoteType[r]],
    Ops <- {"add", "set", "adopt", "adopt_all", "auto", "check", "revert", "discard", "queue_clear"},
    Flaky <- {r2}

Working == INSTANCE SubscriptionPool WITH
    Remotes <- {r1, r3}, RemoteType <- [r \in {r1, r3} |-> RemoteType[r]],
    Ops <- {"add", "set", "queue_clear", "apply"},
    Digests <- {FALSE}, Flaky <- {r1}, Foreign <- {}

CallsInit ==
    \/ scenario = "edits" /\ Edits!Init
    \/ scenario = "worker" /\ Working!Init

CallsNext ==
    /\ \/ scenario = "edits" /\ Edits!Next
       \/ scenario = "worker" /\ Working!Next
    /\ UNCHANGED scenario

(* A spawned worker is polled until it returns (FairSpec of the pool).     *)
CallsSpec ==
    /\ CallsInit /\ [][CallsNext]_<<vars, scenario>>
    /\ WF_<<vars, scenario>>(scenario = "worker" /\ Working!RunStep(w1) /\ UNCHANGED scenario)
=============================================================================
