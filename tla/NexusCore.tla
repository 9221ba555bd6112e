------------------------------ MODULE NexusCore ------------------------------
(***************************************************************************)
(* The services of the Nexus control plane (nexus/src/nexus_core/services):*)
(* monitoring targets with their SigNoz maintenance windows, power actions *)
(* on guests and the provisioning of guests, which ends in the monitoring  *)
(* service.  The calls are coroutines of one event loop: they interleave   *)
(* where they await SigNoz or PDM, and nowhere else; no lock spans an      *)
(* await.  SigNoz, PDM and the guests are external.  Power actions and     *)
(* provisioning are taken to be enabled.                                   *)
(***************************************************************************)
EXTENDS Integers, FiniteSets, Sequences

CONSTANTS
    CoreCalls,       \* the API calls, each made once
    Asks,            \* Asks[c]: the requests the call may be
    Targets,         \* the ids of monitoring targets
    Guests,          \* the guests, by remote and VMID
    TargetOf,        \* TargetOf[g]: the target id that the name of the guest gives
    VerifyAttempts,  \* verification_attempts
    MaxFaults,       \* bound: edits by others, failed writes and restarts
    None

VARIABLES
    targets,   \* the inventory of JsonMonitoringRepository
    file_sd,   \* the targets that are published to Prometheus
    windows,   \* SigNoz: the maintenance windows, named after the call or target they began with
    guests,    \* PVE: guests[g]
    jobs,      \* PVE: the tasks that were accepted, as pairs of guest and status
    view,      \* PDM: the resources as it lists them; it caches them
    request,   \* request[c]: where the call stands
    audit,     \* audit[c]: the entries of the call in the power audit
    faults,
    astray,    \* history: targets with overlapping calls, lost answers or lost writes
    unwritten  \* history: what could not be written: "file_sd", or calls without their audit

monitoring == <<targets, file_sd, windows, astray>>
pve == <<guests, jobs, view>>
coreVars == <<monitoring, pve, request, audit, faults, unwritten>>

States == {"enabled", "maintenance", "disabled"}
Statuses == {"absent", "stopped", "running"}
Windows == CoreCalls \cup Targets

\* The requests that change something.
AllAsks ==
    [op : {"upsert", "set_state"}, target : Targets, state : States]
    \cup [op : {"delete"}, target : Targets]
    \cup [op : {"power"}, guest : Guests, action : {"start", "stop"}]
    \cup [op : {"provision"}, guest : Guests, start : BOOLEAN, prometheus : BOOLEAN]

Entries == [state : States, downtime : Windows \cup {None}]

ASSUME CoreAssumption ==
    /\ \A c \in CoreCalls : Asks[c] \subseteq AllAsks
    /\ TargetOf \in [Guests -> Targets] /\ VerifyAttempts \in Nat
    /\ None \notin Windows \cup AllAsks \cup Entries
    /\ CoreCalls \cap (Targets \cup {"file_sd"}) = {}

AllowedFrom(action) == IF action = "start" THEN "stopped" ELSE "running"
Expected(action) == IF action = "start" THEN "running" ELSE "stopped"

Awaiting == {"create", "created", "remove", "removed"}
Over == {"ok", "warned", "refused", "failed", "lost"}
NotMade == [pc |-> "idle", ask |-> None, id |-> None, left |-> 0]

\* The inventory, SigNoz, the guests and the calls have the shapes the code gives them.
CoreTypeOK ==
    /\ targets \in [Targets -> Entries \cup {None}]
    /\ file_sd \subseteq Targets /\ windows \subseteq Windows
    /\ guests \in [Guests -> Statuses] /\ view \in [Guests -> Statuses]
    /\ jobs \subseteq Guests \X Statuses
    /\ request \in
          [CoreCalls -> [pc : Awaiting \cup Over \cup {"idle", "begun", "execute", "verify"},
                         ask : AllAsks \cup {None}, id : Windows \cup {None},
                         left : 0 .. VerifyAttempts]]
    /\ audit \in [CoreCalls -> Seq({"success", "failed"})]

EnabledIn(ts) == {t \in Targets : ts[t] # None /\ ts[t].state = "enabled"}

\* The daemon has just started: what is published is what the inventory says.
CoreInit ==
    /\ targets \in [Targets -> {None, [state |-> "enabled", downtime |-> None]}]
                 \cup {[t \in Targets |-> [state |-> "maintenance", downtime |-> t]]}
    /\ windows = {t \in Targets : targets[t] # None /\ targets[t].state = "maintenance"}
    /\ file_sd = EnabledIn(targets)
    /\ guests \in [Guests -> Statuses] /\ view = guests /\ jobs = {}
    /\ request = [c \in CoreCalls |-> NotMade] /\ audit = [c \in CoreCalls |-> <<>>]
    /\ faults = 0 /\ astray = {} /\ unwritten = {}

-----------------------------------------------------------------------------
Moves(c, pc) == request' = [request EXCEPT ![c].pc = pc]

Fault == faults < MaxFaults /\ faults' = faults + 1

op(c) == request[c].ask.op

\* The target that the call is about, and the state it wants for it.
Target(c) == IF op(c) = "provision" THEN TargetOf[request[c].ask.guest] ELSE request[c].ask.target
Wanted(c) == IF op(c) = "provision" THEN "enabled" ELSE request[c].ask.state

Ask(c, ask) ==
    /\ request[c].pc = "idle" /\ ask \in Asks[c]
    /\ request' = [request EXCEPT ![c].pc = "begun", ![c].ask = ask]
    /\ UNCHANGED <<monitoring, pve, audit, faults, unwritten>>

-----------------------------------------------------------------------------
(***************************************************************************)
(* MonitoringService.                                                      *)
(***************************************************************************)

\* The target, if another call is waiting for SigNoz with what it has read of it.
Overlap(c) == {t \in {Target(c)} : \E d \in CoreCalls \ {c} : request[d].pc \in Awaiting /\ Target(d) = t}

\* What an exception in the monitoring service means for the call: a guest that was
\* created stays, and the result has a warning.
Broken(c) == IF op(c) = "provision" THEN "warned" ELSE "failed"

\* Mutant: the list that is published is the one from before the change.
SaveListedBefore(c, target) ==
    /\ targets' = [targets EXCEPT ![Target(c)] = target]
    /\ file_sd' = EnabledIn(targets) /\ unwritten' = unwritten \ {"file_sd"}
    /\ astray' = astray \cup Overlap(c)
    /\ Moves(c, "ok") /\ UNCHANGED faults

\* The end of _apply_lifecycle and of delete_target: the inventory is written, and what is
\* in it then is published.  There is no await between the two, but each may fail.
Save(c, target) ==
    \/ /\ targets' = [targets EXCEPT ![Target(c)] = target]
       /\ file_sd' = EnabledIn(targets') /\ unwritten' = unwritten \ {"file_sd"}
       /\ astray' = astray \cup Overlap(c)
       /\ Moves(c, "ok") /\ UNCHANGED faults
    \/ /\ targets' = [targets EXCEPT ![Target(c)] = target]
       /\ unwritten' = unwritten \cup {"file_sd"} /\ astray' = astray \cup Overlap(c)
       /\ Fault /\ Moves(c, Broken(c)) /\ UNCHANGED file_sd
    \/ /\ astray' = astray \cup {Target(c)}
       /\ Fault /\ Moves(c, Broken(c)) /\ UNCHANGED <<targets, file_sd, unwritten>>

Await(c, pc, downtime) ==
    /\ request' = [request EXCEPT ![c].pc = pc, ![c].id = downtime]
    /\ astray' = astray \cup Overlap(c)
    /\ UNCHANGED <<targets, file_sd, faults, unwritten>>

Downtime(t) == IF targets[t] = None THEN None ELSE targets[t].downtime

\* Mutant: only a target that is enabled again loses its window.
LifecycleEnableOnly(c) ==
    LET downtime == Downtime(Target(c)) IN
    CASE Wanted(c) = "maintenance" /\ downtime = None -> Await(c, "create", None)
      [] Wanted(c) = "enabled" /\ downtime # None -> Await(c, "remove", downtime)
      [] OTHER -> Save(c, [state |-> Wanted(c), downtime |-> downtime])

\* _apply_lifecycle up to its await, or to its end if there is nothing to ask of SigNoz.
Lifecycle(c) ==
    LET downtime == Downtime(Target(c)) IN
    CASE Wanted(c) = "maintenance" /\ downtime = None -> Await(c, "create", None)
      [] Wanted(c) # "maintenance" /\ downtime # None -> Await(c, "remove", downtime)
      [] OTHER -> Save(c, [state |-> Wanted(c), downtime |-> downtime])

Missing(c) == Moves(c, "refused") /\ UNCHANGED <<targets, file_sd, astray, faults, unwritten>>

\* upsert_target, set_state.
SetTarget(c) ==
    /\ request[c].pc = "begun" /\ op(c) \in {"upsert", "set_state"}
    /\ IF op(c) = "set_state" /\ targets[Target(c)] = None THEN Missing(c) ELSE Lifecycle(c)
    /\ UNCHANGED <<windows, pve, audit>>

DeleteTarget(c) ==
    /\ request[c].pc = "begun" /\ op(c) = "delete"
    /\ LET t == Target(c) IN
       CASE targets[t] = None -> Missing(c)
         [] targets[t] # None /\ Downtime(t) # None -> Await(c, "remove", Downtime(t))
         [] OTHER -> Save(c, None)
    /\ UNCHANGED <<windows, pve, audit>>

\* SigNoz has done what was asked; the answer is still on its way.
SigNozActs(c) ==
    /\ \/ request[c].pc = "create" /\ windows' = windows \cup {c} /\ Moves(c, "created")
       \/ /\ request[c].pc = "remove" /\ request[c].id \in windows
          /\ windows' = windows \ {request[c].id} /\ Moves(c, "removed")
    /\ UNCHANGED <<targets, file_sd, pve, audit, faults, astray, unwritten>>

\* SigNoz refuses, does not know the window, or its answer is lost or has no id.
SigNozFails(c) ==
    /\ request[c].pc \in Awaiting
    /\ astray' = IF request[c].pc \in {"created", "removed"} THEN astray \cup {Target(c)} ELSE astray
    /\ Moves(c, Broken(c))
    /\ UNCHANGED <<targets, file_sd, windows, pve, audit, faults, unwritten>>

Resume(c) ==
    /\ CASE request[c].pc = "created" -> Save(c, [state |-> "maintenance", downtime |-> c])
         [] request[c].pc = "removed" /\ op(c) # "delete" -> Save(c, [state |-> Wanted(c), downtime |-> None])
         [] request[c].pc = "removed" /\ op(c) = "delete" ->
               IF targets[Target(c)] = None THEN Missing(c) ELSE Save(c, None)
         [] OTHER -> FALSE
    /\ UNCHANGED <<windows, pve, audit>>

-----------------------------------------------------------------------------
(***************************************************************************)
(* InfrastructureService.execute_power_action.                             *)
(***************************************************************************)
Guest(c) == request[c].ask.guest

\* The status is the one of the last list that PDM has made; the list may fail, and a
\* request may be refused for what it says.
PowerChecked(c) ==
    /\ request[c].pc = "begun" /\ op(c) = "power"
    /\ \/ Moves(c, "refused")
       \/ view[Guest(c)] = AllowedFrom(request[c].ask.action) /\ Moves(c, "execute")
    /\ UNCHANGED <<monitoring, pve, audit, faults, unwritten>>

Accepted(c) ==
    /\ request[c].pc = "execute" /\ op(c) = "power"
    /\ jobs' = jobs \cup {<<Guest(c), Expected(request[c].ask.action)>>}
    /\ request' = [request EXCEPT ![c].pc = "verify", ![c].left = VerifyAttempts]
    /\ UNCHANGED <<monitoring, guests, view, audit, faults, unwritten>>

\* _audit, where a write that fails is an exception of its own.
Recorded(c, result) ==
    \/ audit' = [audit EXCEPT ![c] = Append(@, result)] /\ UNCHANGED <<faults, unwritten>>
    \/ Fault /\ unwritten' = unwritten \cup {c} /\ UNCHANGED audit

\* Mutant: the request is made before the block that records failures.
PowerFailsUnrecorded(c) ==
    /\ request[c].pc \in {"execute", "verify"} /\ op(c) = "power"
    /\ jobs' \in {jobs, jobs \cup {<<Guest(c), Expected(request[c].ask.action)>>}}
    /\ request[c].pc = "verify" => jobs' = jobs
    /\ IF request[c].pc = "execute" THEN UNCHANGED <<audit, faults, unwritten>> ELSE Recorded(c, "failed")
    /\ Moves(c, "failed")
    /\ UNCHANGED <<monitoring, guests, view>>

\* The request fails, perhaps after PVE has accepted it; a list fails; the guest is gone;
\* or the attempts are used up.
PowerFails(c) ==
    /\ request[c].pc \in {"execute", "verify"} /\ op(c) = "power"
    /\ jobs' \in {jobs, jobs \cup {<<Guest(c), Expected(request[c].ask.action)>>}}
    /\ request[c].pc = "verify" => jobs' = jobs
    /\ Recorded(c, "failed") /\ Moves(c, "failed")
    /\ UNCHANGED <<monitoring, guests, view>>

\* The expected status is read back.  An audit that cannot be written makes a failure of
\* it, which is then recorded, or not.
Verified(c) ==
    /\ request[c].pc = "verify" /\ op(c) = "power" /\ view[Guest(c)] = Expected(request[c].ask.action)
    /\ \/ audit' = [audit EXCEPT ![c] = Append(@, "success")]
          /\ Moves(c, "ok") /\ UNCHANGED <<faults, unwritten>>
       \/ /\ Fault /\ Moves(c, "failed")
          /\ \/ audit' = [audit EXCEPT ![c] = Append(@, "failed")] /\ UNCHANGED unwritten
             \/ unwritten' = unwritten \cup {c} /\ UNCHANGED audit
    /\ UNCHANGED <<monitoring, guests, jobs, view>>

-----------------------------------------------------------------------------
(***************************************************************************)
(* ProvisioningService.provision.                                          *)
(***************************************************************************)
Ready(c) == view[Guest(c)] # "absent" /\ (request[c].ask.start => view[Guest(c)] = "running")

\* plan: the request must be valid, and the VMID and the name free in the list of PDM.
PlanGuest(c) ==
    /\ request[c].pc = "begun" /\ op(c) = "provision"
    /\ \/ Moves(c, "refused")
       \/ view[Guest(c)] = "absent" /\ Moves(c, "execute")
    /\ UNCHANGED <<monitoring, pve, audit, faults, unwritten>>

\* PVE makes the guest, and starts it by a task; a VMID that is taken is refused.
GuestMade(c) ==
    /\ guests[Guest(c)] = "absent"
    /\ guests' = [guests EXCEPT ![Guest(c)] = "stopped"]
    /\ jobs' = IF request[c].ask.start THEN jobs \cup {<<Guest(c), "running">>} ELSE jobs

CreateGuest(c) ==
    /\ request[c].pc = "execute" /\ op(c) = "provision" /\ GuestMade(c)
    /\ request' = [request EXCEPT ![c].pc = "verify", ![c].left = VerifyAttempts]
    /\ UNCHANGED <<monitoring, view, audit, faults, unwritten>>

\* The request fails, perhaps after the guest was made; a list fails; or the attempts are
\* used up.
ProvisionFails(c) ==
    /\ request[c].pc \in {"execute", "verify"} /\ op(c) = "provision"
    /\ \/ UNCHANGED <<guests, jobs>>
       \/ request[c].pc = "execute" /\ GuestMade(c)
    /\ Moves(c, "failed")
    /\ UNCHANGED <<monitoring, view, audit, faults, unwritten>>

\* The guest is read back; then its target is registered by upsert_target, unless what the
\* request says of it is not valid.
Provisioned(c) ==
    /\ request[c].pc = "verify" /\ op(c) = "provision" /\ Ready(c)
    /\ \/ request[c].ask.prometheus /\ Lifecycle(c)
       \/ /\ Moves(c, IF request[c].ask.prometheus THEN "warned" ELSE "ok")
          /\ UNCHANGED <<targets, file_sd, astray, faults, unwritten>>
    /\ UNCHANGED <<windows, pve, audit>>

\* One more look, in both services.
VerifyAgain(c) ==
    /\ request[c].pc = "verify" /\ request[c].left > 0
    /\ IF op(c) = "power" THEN view[Guest(c)] \notin {"absent", Expected(request[c].ask.action)} ELSE ~Ready(c)
    /\ request' = [request EXCEPT ![c].left = @ - 1]
    /\ UNCHANGED <<monitoring, pve, audit, faults, unwritten>>

-----------------------------------------------------------------------------
(***************************************************************************)
(* PVE, PDM, and the daemon.                                               *)
(***************************************************************************)

\* A task of PVE ends: the guest has the new status, or the task has failed.
JobEnds(g, s) ==
    /\ <<g, s>> \in jobs /\ jobs' = jobs \ {<<g, s>>}
    /\ guests' \in {guests, [guests EXCEPT ![g] = IF @ = "absent" THEN @ ELSE s]}
    /\ UNCHANGED <<monitoring, view, request, audit, faults, unwritten>>

\* Someone else starts, stops, makes or removes the guest.
EditGuest(g, s) ==
    /\ Fault /\ guests' = [guests EXCEPT ![g] = s]
    /\ UNCHANGED <<monitoring, jobs, view, request, audit, unwritten>>

Refresh ==
    /\ view # guests /\ view' = guests
    /\ UNCHANGED <<monitoring, guests, jobs, request, audit, faults, unwritten>>

\* The calls are gone; lifespan publishes the inventory.
Restart ==
    /\ Fault
    /\ request' = [c \in CoreCalls |->
                      IF request[c].pc \in Over \cup {"idle"} THEN request[c]
                      ELSE [request[c] EXCEPT !.pc = "lost"]]
    /\ astray' = astray \cup {Target(c) : c \in {d \in CoreCalls : request[d].pc \in Awaiting}}
    /\ file_sd' = EnabledIn(targets) /\ unwritten' = unwritten \ {"file_sd"}
    /\ UNCHANGED <<targets, windows, pve, audit>>

CoreStep(c) ==
    \/ \E ask \in Asks[c] : Ask(c, ask)
    \/ SetTarget(c) \/ DeleteTarget(c) \/ SigNozActs(c) \/ SigNozFails(c) \/ Resume(c)
    \/ PowerChecked(c) \/ Accepted(c) \/ PowerFails(c) \/ Verified(c)
    \/ PlanGuest(c) \/ CreateGuest(c) \/ ProvisionFails(c) \/ Provisioned(c) \/ VerifyAgain(c)

CoreNext ==
    \/ \E c \in CoreCalls : CoreStep(c)
    \/ \E g \in Guests, s \in Statuses : JobEnds(g, s) \/ EditGuest(g, s)
    \/ Refresh \/ Restart

CoreSpec == CoreInit /\ [][CoreNext]_coreVars

\* The event loop runs on, and every request to SigNoz and PDM has a timeout.
FairCoreSpec == CoreSpec /\ \A c \in CoreCalls : WF_coreVars(CoreStep(c))

-----------------------------------------------------------------------------
(***************************************************************************)
(* Properties.                                                             *)
(***************************************************************************)

\* What is published to Prometheus is what the inventory enables, whichever calls overlap
\* and however stale what they have read: only a write that fails sets them apart, until
\* the next change or restart (_apply_lifecycle, delete_target, lifespan).
PublishedFollowsTargets == "file_sd" \in unwritten \/ file_sd = EnabledIn(targets)

WindowsOf(t) == windows \cap ({t} \cup {c \in CoreCalls : request[c].ask # None /\ op(c) # "power" /\ Target(c) = t})

\* A target has a maintenance window exactly while it is in maintenance, and the inventory
\* knows the window; once its calls are over, and unless two of them overlapped, an answer
\* was lost or the inventory was not written (_apply_lifecycle, delete_target).
WindowsTracked ==
    \A t \in Targets \ astray :
        (\A c \in CoreCalls : request[c].pc \in Awaiting => Target(c) # t) =>
            WindowsOf(t) = IF targets[t] # None /\ targets[t].state = "maintenance"
                           THEN {targets[t].downtime} ELSE {}

\* A power action that was asked of PDM has one entry in the audit, which says how the
\* call ended, however it ended; unless the audit could not be written or the daemon was
\* restarted (execute_power_action).
AuditedOnce ==
    \A c \in CoreCalls :
        CASE request[c].pc = "ok" /\ op(c) = "power" -> audit[c] = <<"success">>
          [] request[c].pc = "failed" /\ op(c) = "power" -> audit[c] = <<"failed">> \/ c \in unwritten
          [] OTHER -> audit[c] = <<>>

ServicesEnded == \A c \in CoreCalls : request[c].pc \in Over

\* Every call ends.
ServicesEnd == <>[]ServicesEnded

=============================================================================
