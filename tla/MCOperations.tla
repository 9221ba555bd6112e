---------------------------- MODULE MCOperations ----------------------------
(***************************************************************************)
(* The work the API server does on remotes and providers, each kind in a   *)
(* scenario of its own: "fetch" (ParallelFetcher), "sdn" (SdnTransaction), *)
(* "domains" (NexusDomains) and "core" (NexusCore).  The components that   *)
(* are not in the scenario stay in an initial state.                       *)
(***************************************************************************)
EXTENDS ParallelFetcher, SdnTransaction, NexusDomains, NexusCore, TLC

CONSTANTS r1, r2, r3, w1, w2, c1, c2, d1, k1, k2, t1, g1

VARIABLE scenario

allVars == <<fetchVars, scenario, vars, domainVars, coreVars>>

\* Two workers lock two remotes in opposite orders; one of them may also name a remote
\* that is not configured.
SdnRequests == (w1 :> {<<r1, r2>>, <<r2, r3>>}) @@ (w2 :> {<<r2, r1>>})

\* An onboarding without opt-in, and any other call beside it.
HostingOps == (c1 :> {"onboard"}) @@ (c2 :> {"adopt", "onboard", "replace"})

SpfOnly == <<"spf">>

\* A call on the monitoring target of a guest, or a power action on the guest, beside any
\* other call.
CoreTarget == g1 :> t1
CoreAsks ==
    (k1 :> [op : {"set_state"}, target : {t1}, state : {"enabled", "maintenance", "disabled"}]
              \cup [op : {"delete"}, target : {t1}]
              \cup [op : {"power"}, guest : {g1}, action : {"start", "stop"}])
 @@ (k2 :> [op : {"upsert"}, target : {t1}, state : {"enabled", "maintenance"}]
              \cup [op : {"delete"}, target : {t1}]
              \cup [op : {"power"}, guest : {g1}, action : {"stop"}]
              \cup [op : {"provision"}, guest : {g1}, start : BOOLEAN, prometheus : BOOLEAN])

AllInit ==
    /\ scenario \in {"fetch", "sdn", "domains", "core"}
    /\ FetchInit /\ Init /\ DomainInit /\ CoreInit
    /\ scenario # "core" => guests[g1] = "absent" /\ targets[t1] = None
    /\ scenario # "domains" => ddns = {} /\ dns[d1] = NoRecords

In(name) == scenario = name /\ UNCHANGED scenario

AllNext ==
    \/ In("fetch") /\ FetchNext /\ UNCHANGED <<vars, domainVars, coreVars>>
    \/ In("sdn") /\ Next /\ UNCHANGED <<fetchVars, domainVars, coreVars>>
    \/ In("domains") /\ DomainNext /\ UNCHANGED <<fetchVars, vars, coreVars>>
    \/ In("core") /\ CoreNext /\ UNCHANGED <<fetchVars, vars, domainVars>>

\* FairSpec of every component, while it is the one that runs.
Fairness ==
    /\ \A r \in FetchRemotes :
          /\ WF_fetchVars(In("fetch") /\ FetchStep(r))
          /\ \A n \in FetchNodes : WF_fetchVars(In("fetch") /\ NodeStep(r, n))
    /\ \A w \in Workers : WF_vars(In("sdn") /\ Step(w))
    /\ \A c \in Calls : WF_domainVars(In("domains") /\ CallStep(c))
    /\ \A c \in CoreCalls : WF_coreVars(In("core") /\ CoreStep(c))

AllSpec == AllInit /\ [][AllNext]_allVars /\ Fairness

-----------------------------------------------------------------------------
\* What was begun ends: the run of the fetcher (FetchEnds), every SDN worker (WorkersEnd),
\* every call of the domains API (DomainCallsEnd) and of the Nexus services (ServicesEnd).
EverythingEnds ==
    <>[](CASE scenario = "fetch" -> AllFetched
           [] scenario = "sdn" -> AllEnded
           [] scenario = "domains" -> DomainsEnded
           [] scenario = "core" -> ServicesEnded)
=============================================================================
