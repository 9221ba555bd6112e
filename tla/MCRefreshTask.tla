--------------------------- MODULE MCRefreshTask ---------------------------
(* Instances of RefreshTask for TLC: one remote with one node, a period of *)
(* two ticks and two archive files.                                        *)
EXTENDS RefreshTask

CONSTANTS n1, r1

OneRemote == [n \in Nodes |-> r1]
SameNode == [t \in Tasks |-> n1]

(* One task older than the daemon, the others in the first two periods.    *)
StartTimes == [t \in Tasks |-> t + 2]

(* Another environment for the same state: a manual refresh runs beside    *)
(* the timer task, answers get lost and the remote may be removed, but     *)
(* nothing crashes.                                                        *)
Manually == INSTANCE RefreshTask WITH
    Flaky <- {r1}, Manual <- {"m1"}, MaxTime <- 5, MaxCrashes <- 0, MaxDamage <- 0

(* A behaviour keeps the environment it began in: DOMAIN act tells which.  *)
EitherInit == Init \/ Manually!Init
EitherNext ==
    \/ DOMAIN act = {"tick"} /\ Next
    \/ DOMAIN act # {"tick"} /\ Manually!Next

EitherSpec == EitherInit /\ [][EitherNext]_vars

(* The timer task alone with its crashes: what is left of Next when there  *)
(* is no manual refresh, no file is damaged and no remote is removed.      *)
LiveNext ==
    \/ write_step \/ Tick
    \/ \E a \in Actors : lock_timeout(a)
    \/ \E t \in Tasks : track_running_task(t) \/ start_task(t) \/ finish_task(t)
    \/ get_tasks \/ clock \/ crash

LiveSpec == Init /\ [][LiveNext]_vars /\ Fairness
=============================================================================
