-------------------------- MODULE NexusMonitoring --------------------------
(***************************************************************************)
(* The device monitoring of Nexus (server/src/api/nexus/monitoring).  An   *)
(* inventory file lists devices; a device in maintenance has a downtime    *)
(* window in SigNoz, whose id the inventory remembers; the enabled devices *)
(* are written to the configuration of an ICMP collector.  DEVICE_LOCK     *)
(* serialises updates and deletions of devices, but not the reconcile      *)
(* call.  A handler's step ends where it awaits SigNoz, a file or a        *)
(* command.                                                                *)
(***************************************************************************)
EXTENDS Naturals, FiniteSets

CONSTANTS
    Devices,     \* device ids (normalize_slug of their names)
    Calls,       \* handlers that can be in progress at once
    Windows,     \* ids SigNoz can give out; an id is given out once
    NoDevice, NoId, NoCall

ASSUME MonitoringAssumption ==
    /\ NoDevice \notin Devices /\ NoId \notin Windows /\ NoCall \notin Calls

VARIABLES
    devices,     \* monitoring.json: device -> state and signoz_downtime_id
    lock,        \* the call that holds DEVICE_LOCK
    calls,       \* the handlers in progress
    live,        \* the windows in SigNoz: id -> the device of its scope
    temp,        \* the temporary file of reconcile, one name for all calls
    config,      \* nexus-icmp-collector.yaml: the devices in it
    collector,   \* the devices the running collector probes
    blackbox,    \* whether the blackbox exporter runs
    \* history, not in the program:
    spent,       \* ids given out so far
    lost,        \* windows whose id Nexus was never told, or gave up
    gone,        \* windows that ended behind Nexus's back
    alone,       \* the call whose reconcile saw no other call's change and ignored no error
    synced       \* the last reconcile was such a one and succeeded

vars == <<devices, lock, calls, live, temp, config, collector, blackbox,
          spent, lost, gone, alone, synced>>

(* A file is the set of devices in it.                                     *)
NoFile == {NoDevice}

States == {"enabled", "maintenance", "disabled"}
Entry  == [state : States, downtime : Windows \cup {NoId}]

(* The steps of upsert_device and delete_device, and those of reconcile.   *)
Guarded     == {"create", "leave", "persist", "forget"}
Reconciling == {"stop", "stop_blackbox", "check", "validate", "rename", "start", "restart"}

(* id is the downtime_id of the handler, inv the enabled devices of the    *)
(* inventory that reconcile was given.                                     *)
Call == [pc : {"idle"} \cup Guarded \cup Reconciling, dev : Devices \cup {NoDevice},
         state : States, id : Windows \cup {NoId}, inv : SUBSET Devices]

Idle == [pc |-> "idle", dev |-> NoDevice, state |-> "enabled", id |-> NoId, inv |-> {}]

-----------------------------------------------------------------------------
(* The inventory (store.rs)                                                *)

find_device(inventory, d) == IF d \in DOMAIN inventory THEN inventory[d].downtime ELSE NoId

enabled_devices(inventory) == {d \in DOMAIN inventory : inventory[d].state = "enabled"}

store_upsert(inventory, d, s, id) ==
    [e \in DOMAIN inventory \cup {d} |->
        IF e = d THEN [state |-> s, downtime |-> id] ELSE inventory[e]]

store_delete(inventory, d) == [e \in DOMAIN inventory \ {d} |-> inventory[e]]

-----------------------------------------------------------------------------
(* SigNoz (external)                                                       *)

(* A request is processed and answered, refused, or processed with its     *)
(* answer lost: a broken connection, an invalid body, or a reply without a *)
(* recognizable id (extract_downtime_id).                                  *)
Outcomes == {"ok", "refused", "lost"}

Open(w, d) ==
    /\ w \in Windows \ spent
    /\ live' = [v \in DOMAIN live \cup {w} |-> IF v = w THEN d ELSE live[v]]
    /\ spent' = spent \cup {w}

Close(w) == live' = [v \in DOMAIN live \ {w} |-> live[v]]

-----------------------------------------------------------------------------
Init ==
    /\ devices = [d \in {} |-> [state |-> "enabled", downtime |-> NoId]]
    /\ lock = NoCall
    /\ calls = [c \in Calls |-> Idle]
    /\ live = [w \in {} |-> NoDevice]
    /\ temp = NoFile /\ config = NoFile
    /\ collector = {} /\ blackbox = FALSE
    /\ spent = {} /\ lost = {} /\ gone = {} /\ alone = NoCall /\ synced = TRUE

Collector == <<temp, config, collector, blackbox>>
SigNoz    == <<live, spent, lost, gone>>

(* The call's next state, with the fields that are not given kept.         *)
Goto(c, step) == calls' = [calls EXCEPT ![c].pc = step]

(* reconcile starts on the enabled devices of an inventory.                *)
StartReconcile(c, inventory) ==
    /\ calls' = [calls EXCEPT ![c] =
          [Idle EXCEPT !.pc = IF enabled_devices(inventory) = {} THEN "stop" ELSE "check",
                       !.inv = enabled_devices(inventory)]]
    /\ synced' = FALSE
    /\ alone' = IF \A b \in Calls \ {c} : calls[b].pc \notin Reconciling THEN c ELSE NoCall

(* The handler answers; its guard, if it holds one, is dropped.            *)
Finish(c, ok) ==
    /\ calls' = [calls EXCEPT ![c] = Idle]
    /\ lock' = IF lock = c THEN NoCall ELSE lock
    /\ synced' = (ok /\ alone = c)
    /\ alone' = IF alone = c THEN NoCall ELSE alone

-----------------------------------------------------------------------------
(* upsert_device                                                           *)

(* Without the guard.                                                      *)
TakeNoLock(c) == calls[c].pc = "idle" /\ UNCHANGED lock

TakeLock(c) == calls[c].pc = "idle" /\ lock = NoCall /\ lock' = c

(* What the desired state and the remembered id call for.                  *)
FirstStep(s, id) ==
    IF s = "maintenance" THEN IF id = NoId THEN "create" ELSE "persist"
    ELSE IF id # NoId THEN "leave" ELSE "persist"

upsert_device(c, d, s) ==
    /\ TakeLock(c)
    /\ LET id == find_device(devices, d)
       IN  calls' = [calls EXCEPT ![c] = [pc |-> FirstStep(s, id), dev |-> d, state |-> s,
                                          id |-> id, inv |-> {}]]
    /\ UNCHANGED <<devices, SigNoz, Collector, alone, synced>>

(* The window of a device that enters maintenance.  An error is reported   *)
(* and the device is stored without an id.                                 *)
create_maintenance_downtime(c) ==
    /\ calls[c].pc = "create"
    /\ \/ \E w \in Windows :
            /\ Open(w, calls[c].dev)
            /\ \/ /\ calls' = [calls EXCEPT ![c].pc = "persist", ![c].id = w]
                  /\ UNCHANGED lost
               \/ /\ Goto(c, "persist")
                  /\ lost' = lost \cup {w}
       \/ /\ Goto(c, "persist")
          /\ UNCHANGED <<live, spent, lost>>
    /\ UNCHANGED <<devices, lock, gone, Collector, alone, synced>>

(* The id is kept although the window is known to be deleted.              *)
leave_maintenance_keeping_id(c) ==
    /\ calls[c].pc = "leave"
    /\ \/ Close(calls[c].id)
       \/ UNCHANGED live
    /\ Goto(c, "persist")
    /\ UNCHANGED <<devices, lock, spent, lost, gone, Collector, alone, synced>>

(* The window of a device that is not in maintenance any more.  Only a     *)
(* confirmed deletion forgets the id.                                      *)
leave_maintenance(c) ==
    LET w == calls[c].id
    IN  /\ calls[c].pc = "leave"
        /\ \E out \in Outcomes :
             /\ IF out = "refused" THEN UNCHANGED live ELSE Close(w)
             /\ gone' = IF out = "lost" THEN gone \cup {w} ELSE gone
             /\ IF out = "ok"
                  THEN calls' = [calls EXCEPT ![c].pc = "persist", ![c].id = NoId]
                  ELSE Goto(c, "persist")
        /\ UNCHANGED <<devices, lock, spent, lost, Collector, alone, synced>>

(* reconcile is given the inventory that was read before the update.       *)
persist_then_reconcile_previous(c) ==
    /\ calls[c].pc = "persist"
    /\ devices' = store_upsert(devices, calls[c].dev, calls[c].state, calls[c].id)
    /\ StartReconcile(c, devices)
    /\ UNCHANGED <<lock, SigNoz, Collector>>

persist(c) ==
    LET inventory == store_upsert(devices, calls[c].dev, calls[c].state, calls[c].id)
    IN  /\ calls[c].pc = "persist"
        /\ devices' = inventory
        /\ StartReconcile(c, inventory)
        /\ UNCHANGED <<lock, SigNoz, Collector>>

-----------------------------------------------------------------------------
(* delete_device                                                           *)

(* A device that is not in the inventory is an error, which changes        *)
(* nothing.                                                                *)
delete_device(c, d) ==
    LET id == find_device(devices, d)
        inventory == store_delete(devices, d)
    IN  /\ TakeLock(c)
        /\ d \in DOMAIN devices
        /\ devices' = inventory
        /\ IF id = NoId
             THEN StartReconcile(c, inventory)
             ELSE /\ calls' = [calls EXCEPT ![c] = [Idle EXCEPT !.pc = "forget", !.id = id]]
                  /\ synced' = FALSE
                  /\ alone' = NoCall
        /\ UNCHANGED <<SigNoz, Collector>>

(* The window of a deleted device: an error is only logged.  The lock is   *)
(* held, so devices is still the inventory that delete_device wrote.       *)
forget_downtime(c) ==
    LET w == calls[c].id
    IN  /\ calls[c].pc = "forget"
        /\ \/ Close(w) /\ UNCHANGED lost
           \/ UNCHANGED live /\ lost' = lost \cup {w}
        /\ StartReconcile(c, devices)
        /\ UNCHANGED <<devices, lock, spent, gone, Collector>>

-----------------------------------------------------------------------------
(* The planned-maintenance calls, which pass a request on to SigNoz.       *)

create_signoz_downtime ==
    /\ \E w \in Windows : Open(w, NoDevice)
    /\ UNCHANGED <<devices, lock, calls, lost, gone, Collector, alone, synced>>

delete_signoz_downtime(w) ==
    /\ w \in DOMAIN live
    /\ Close(w)
    /\ gone' = gone \cup {w}
    /\ UNCHANGED <<devices, lock, calls, spent, lost, Collector, alone, synced>>

-----------------------------------------------------------------------------
(* reconcile                                                               *)

(* The API call, which takes no lock.                                      *)
reconcile(c) ==
    /\ calls[c].pc = "idle"
    /\ StartReconcile(c, devices)
    /\ UNCHANGED <<devices, lock, SigNoz, Collector>>

(* Without enabled devices both services are stopped; errors are ignored.  *)
stop_collector(c) ==
    /\ calls[c].pc = "stop"
    /\ Goto(c, "stop_blackbox")
    /\ \/ collector' = {} /\ UNCHANGED alone
       \/ UNCHANGED collector /\ alone' = NoCall
    /\ UNCHANGED <<devices, lock, SigNoz, temp, config, blackbox, synced>>

stop_blackbox(c) ==
    /\ calls[c].pc = "stop_blackbox"
    /\ \/ blackbox' = FALSE /\ Finish(c, TRUE)
       \/ UNCHANGED blackbox /\ Finish(c, FALSE)
    /\ UNCHANGED <<devices, SigNoz, temp, config, collector>>

(* A missing binary, a failed command or a failed write ends the call.     *)
fail(c) ==
    /\ calls[c].pc \in {"check", "rename", "start", "restart"}
    /\ Finish(c, FALSE)
    /\ UNCHANGED <<devices, SigNoz, Collector>>

(* The blackbox exporter's configuration is checked, the new configuration *)
(* written to the temporary file.                                          *)
write_temporary(c) ==
    /\ calls[c].pc = "check"
    /\ temp' = calls[c].inv
    /\ Goto(c, "validate")
    /\ UNCHANGED <<devices, lock, SigNoz, config, collector, blackbox, alone, synced>>

(* The collector validates the temporary file, which may hold what another *)
(* call wrote or be gone; it is removed if it does not pass.               *)
validate(c) ==
    /\ calls[c].pc = "validate"
    /\ \/ temp # NoFile /\ Goto(c, "rename") /\ UNCHANGED <<lock, alone, synced, temp>>
       \/ Finish(c, FALSE) /\ temp' = NoFile
    /\ UNCHANGED <<devices, SigNoz, config, collector, blackbox>>

(* The rename fails if another call has moved the file away.               *)
rename(c) ==
    /\ calls[c].pc = "rename"
    /\ temp # NoFile
    /\ config' = temp
    /\ temp' = NoFile
    /\ Goto(c, "start")
    /\ UNCHANGED <<devices, lock, SigNoz, collector, blackbox, alone, synced>>

start_blackbox(c) ==
    /\ calls[c].pc = "start"
    /\ blackbox' = TRUE
    /\ Goto(c, "restart")
    /\ UNCHANGED <<devices, lock, SigNoz, temp, config, collector, alone, synced>>

(* A restart that fails leaves the collector stopped.                      *)
restart_collector(c) ==
    /\ calls[c].pc = "restart"
    /\ \/ collector' = config /\ Finish(c, TRUE)
       \/ collector' = {} /\ Finish(c, FALSE)
    /\ UNCHANGED <<devices, SigNoz, temp, config, blackbox>>

(* Only the handler knows the id: SigNoz has answered and the inventory is *)
(* not written yet, or not any more.                                       *)
Holds(c, w) ==
    /\ calls[c].pc \in {"persist", "forget"} /\ calls[c].id = w
    /\ \A d \in DOMAIN devices : devices[d].downtime # w

(* The handler deleted the window and the inventory still has the id.      *)
Dropped(c, w) ==
    /\ calls[c].pc = "persist" /\ calls[c].id = NoId
    /\ find_device(devices, calls[c].dev) = w

(* The daemon restarts: calls and locks are gone, files and services stay. *)
(* The temporary file carries the old process id and is never read again.  *)
crash ==
    /\ calls' = [c \in Calls |-> Idle]
    /\ lock' = NoCall
    /\ temp' = NoFile
    /\ lost' = lost \cup {w \in Windows : \E c \in Calls : Holds(c, w)}
    /\ gone' = gone \cup {w \in Windows : \E c \in Calls : Dropped(c, w)}
    /\ alone' = NoCall
    /\ UNCHANGED <<devices, live, config, collector, blackbox, spent, synced>>

-----------------------------------------------------------------------------
Next ==
    \/ \E c \in Calls :
         \/ \E d \in Devices : (\E s \in States : upsert_device(c, d, s)) \/ delete_device(c, d)
         \/ create_maintenance_downtime(c) \/ leave_maintenance(c) \/ persist(c)
         \/ forget_downtime(c)
         \/ reconcile(c) \/ stop_collector(c) \/ stop_blackbox(c) \/ fail(c)
         \/ write_temporary(c) \/ validate(c) \/ rename(c)
         \/ start_blackbox(c) \/ restart_collector(c)
    \/ create_signoz_downtime
    \/ \E w \in Windows : delete_signoz_downtime(w)
    \/ crash

Spec == Init /\ [][Next]_vars

-----------------------------------------------------------------------------
(* The inventory, the handlers, SigNoz and the collector have the shapes   *)
(* the handlers give them; a live window has an id that was given out.     *)
TypeOK ==
    /\ DOMAIN devices \subseteq Devices /\ \A d \in DOMAIN devices : devices[d] \in Entry
    /\ lock \in Calls \cup {NoCall} /\ alone \in Calls \cup {NoCall}
    /\ calls \in [Calls -> Call]
    /\ DOMAIN live \subseteq spent /\ \A w \in DOMAIN live : live[w] \in Devices \cup {NoDevice}
    /\ {temp, config} \subseteq (SUBSET Devices) \cup {NoFile}
    /\ collector \in SUBSET Devices /\ blackbox \in BOOLEAN /\ synced \in BOOLEAN
    /\ spent \subseteq Windows /\ lost \subseteq Windows /\ gone \subseteq Windows

(* No leak: a window Nexus opened for a device is remembered in the        *)
(* device's entry or by the handler at work, unless its id never arrived,  *)
(* the daemon died holding it, or its deletion failed with its device      *)
(* gone.  So two concurrent updates never open two windows of which one is *)
(* forgotten (the comment on DEVICE_LOCK), and a failed deletion keeps the *)
(* id (upsert_device).                                                     *)
DowntimeTracked ==
    \A w \in DOMAIN live :
        live[w] \in Devices =>
            \/ w \in lost
            \/ find_device(devices, live[w]) = w
            \/ \E c \in Calls : Holds(c, w)

(* An id in the inventory is a window of that very device, unless the      *)
(* window ended behind Nexus's back (its deletion was not confirmed, or    *)
(* delete_signoz_downtime) or its handler is about to write that it ended. *)
(* upsert_device relies on it: it opens no window for a device with an id. *)
TrackedIsLive ==
    \A d \in DOMAIN devices :
        LET w == devices[d].downtime
        IN  w # NoId =>
               \/ w \in DOMAIN live /\ live[w] = d
               \/ w \in gone
               \/ \E c \in Calls : calls[c].dev = d /\ Dropped(c, w)

(* After a reconcile that reported success, ignored no failure and had no  *)
(* other change or reconcile beside it, the collector probes exactly the   *)
(* enabled devices, and the exporter runs exactly when there are any       *)
(* (reconcile, called by upsert_device, delete_device and on its own).     *)
CollectorFollows ==
    synced => /\ collector = enabled_devices(devices)
              /\ blackbox = (collector # {})

=============================================================================
