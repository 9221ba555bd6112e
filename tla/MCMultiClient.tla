--------------------------- MODULE MCMultiClient ---------------------------
(* Instances of MultiClient for TLC.                                       *)
EXTENDS MultiClient, TLC

CONSTANTS r1, r2, r3, h1, h2, h3

AllToFirst == [q \in Requests |-> r1]

(* One request goes to the second remote; the other asks for a remote that *)
(* is never configured, and so never starts.                               *)
OnlyGet == [q \in Requests |-> IF q = "get" THEN r2 ELSE r3]

(* One request that may be repeated, the others not                        *)
OneGet == [q \in Requests |-> IF q = "get" THEN "get" ELSE "post"]

(* A cluster of three hosts                                                *)
Cluster == {(r1 :> <<h1, h2, h3>>)}

(* A PVE remote of two hosts and a PBS remote, then only one PVE host      *)
Edited == {(r1 :> <<h1, h2>>) @@ (r2 :> <<h3>>), (r1 :> <<h2>>)}

(* Another environment for the same state: two requests compete for the    *)
(* hosts of a cluster and meet every kind of error, while the clock stands *)
(* still and the name task has nothing to do.                              *)
Failover == INSTANCE MultiClient WITH
    RemoteOf <- AllToFirst, Layouts <- Cluster, NameTask <- FALSE,
    Outcomes <- {"ok", "connect", "client", "timeout"}, MinFail <- 0, MaxTime <- 0

(* A behaviour keeps the environment it began in: the configuration tells  *)
(* which.                                                                  *)
EitherInit == Init \/ Failover!Init
EitherNext ==
    \/ conf \in Edited /\ Next
    \/ conf \in Cluster /\ Failover!Next

EitherSpec == EitherInit /\ [][EitherNext]_vars
=============================================================================
