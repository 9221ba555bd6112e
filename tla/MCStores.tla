------------------------------ MODULE MCStores ------------------------------
(***************************************************************************)
(* What the API server keeps and looks up, each part in a scenario of its  *)
(* own: "query" (ResourceQuery), "cache" (NamespacedCache), "info" and     *)
(* "location" (RemoteInfo with the two kinds of calls) and "installer"     *)
(* (AutoInstaller).  The components that are not in the scenario stay in   *)
(* an initial state.                                                       *)
(***************************************************************************)
EXTENDS MCResourceQuery, NamespacedCache, RemoteInfo, AutoInstaller

CONSTANTS u1, u2, v1, v2

VARIABLE scenario

allVars == <<queryVars, scenario, vars, infoVars, installerVars>>

\* The callers are interchangeable, and so are the values.
Symmetry == Permutations(Users) \cup Permutations(Values)

\* The calls about the location of the remote.
Location == INSTANCE RemoteInfo WITH
    InfoKeys <- {"location-state"}, Kinds <- {"location"}, InfoAges <- {2}, MaxTime <- 3

AnyQuery == CHOOSE q \in Queries : TRUE

AllInit ==
    /\ scenario \in {"query", "cache", "info", "location", "installer"}
    /\ scenario # "cache" => now = 0
    /\ scenario # "installer" => legacy = Absent /\ readable = TRUE
    /\ Init /\ InstallerInit
    /\ IF scenario = "location" THEN Location!InfoInit ELSE InfoInit
    /\ IF scenario = "query" THEN QueryInit ELSE query = AnyQuery /\ listed = None

In(name) == scenario = name /\ UNCHANGED scenario

AllNext ==
    \/ In("query") /\ QueryNext /\ UNCHANGED <<vars, infoVars, installerVars>>
    \/ In("cache") /\ Next /\ UNCHANGED <<queryVars, infoVars, installerVars>>
    \/ In("info") /\ InfoNext /\ UNCHANGED <<queryVars, vars, installerVars>>
    \/ In("location") /\ Location!InfoNext /\ UNCHANGED <<queryVars, vars, installerVars>>
    \/ In("installer") /\ InstallerNext /\ UNCHANGED <<queryVars, vars, infoVars>>

AllSpec == AllInit /\ [][AllNext]_allVars

=============================================================================
