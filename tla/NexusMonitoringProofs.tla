----------------------- MODULE NexusMonitoringProofs -----------------------
(***************************************************************************)
(* Proofs about NexusMonitoring: for any number of devices, calls and      *)
(* windows, no maintenance window is leaked, no id in the inventory is     *)
(* untrue, and the collector follows the inventory.                        *)
(***************************************************************************)
EXTENDS NexusMonitoring, TLAPS

Shape ==
    /\ calls \in [Calls -> Call]
    /\ DOMAIN devices \subseteq Devices
    /\ \A d \in DOMAIN devices : devices[d].downtime \in spent \cup {NoId}
    /\ DOMAIN live \subseteq spent /\ spent \subseteq Windows
    /\ gone \subseteq spent /\ gone \cap DOMAIN live = {}

(* A handler between its first and its last access to an id holds the      *)
(* lock.                                                                   *)
Exclusive == \A c \in Calls : calls[c].pc \in Guarded => lock = c

(* What a handler knows at each of its steps.                              *)
Knows(c) ==
    /\ calls[c].pc \in {"create", "leave", "persist"} => calls[c].dev \in Devices
    /\ calls[c].pc = "create" =>
          calls[c].id = NoId /\ find_device(devices, calls[c].dev) = NoId
    /\ calls[c].pc = "leave" =>
          calls[c].id # NoId /\ find_device(devices, calls[c].dev) = calls[c].id
    /\ calls[c].pc = "persist" /\ calls[c].id = NoId =>
          find_device(devices, calls[c].dev) \notin DOMAIN live
    /\ calls[c].pc = "persist" /\ calls[c].id # NoId =>
          /\ find_device(devices, calls[c].dev) \in {NoId, calls[c].id}
          /\ calls[c].id \in spent
          /\ \/ calls[c].id \in DOMAIN live /\ live[calls[c].id] = calls[c].dev
             \/ calls[c].id \in gone
    /\ calls[c].pc = "forget" =>
          \A d \in DOMAIN devices : devices[d].downtime = calls[c].id => calls[c].id \in gone

Tracked(d) ==
    LET w == devices[d].downtime
    IN  w # NoId => \/ w \in DOMAIN live /\ live[w] = d
                    \/ w \in gone
                    \/ \E c \in Calls : calls[c].dev = d /\ Dropped(c, w)

Remembered(w) ==
    live[w] \in Devices => \/ w \in lost
                           \/ find_device(devices, live[w]) = w
                           \/ \E c \in Calls : Holds(c, w)

IInv ==
    /\ Shape
    /\ Exclusive
    /\ \A c \in Calls : Knows(c)
    /\ \A d \in DOMAIN devices : Tracked(d)
    /\ \A w \in DOMAIN live : Remembered(w)

-----------------------------------------------------------------------------
(* A step that touches neither the inventory, nor SigNoz, nor a handler    *)
(* that holds the lock keeps the invariant: all steps of reconcile.        *)
LEMMA QuietStep ==
    ASSUME IInv, UNCHANGED <<devices, live, spent, lost, gone>>,
           calls' \in [Calls -> Call],
           \A c \in Calls : calls[c].pc \in Guarded \/ calls'[c].pc \in Guarded =>
                               calls'[c] = calls[c] /\ lock' = lock
    PROVE  IInv'
<1>1. Shape'
  BY DEF IInv, Shape
<1>2. Exclusive'
  BY DEF IInv, Exclusive
<1>3. \A c \in Calls : Knows(c)'
  BY DEF IInv, Knows, Guarded, find_device
<1>4. ASSUME NEW d \in DOMAIN devices' PROVE Tracked(d)'
  BY <1>4 DEF IInv, Tracked, Dropped, Guarded, find_device
<1>5. ASSUME NEW w \in DOMAIN live' PROVE Remembered(w)'
  BY <1>5, Zenon DEF IInv, Remembered, Holds, Guarded, find_device
<1> QED
  BY <1>1, <1>2, <1>3, <1>4, <1>5 DEF IInv

(* The steps of reconcile, whoever called it.                              *)
LEMMA ReconcileStep ==
    ASSUME IInv, NEW c \in Calls,
           \/ reconcile(c) \/ stop_collector(c) \/ stop_blackbox(c) \/ fail(c)
           \/ write_temporary(c) \/ validate(c) \/ rename(c)
           \/ start_blackbox(c) \/ restart_collector(c)
    PROVE  IInv'
<1> USE DEF IInv, Shape, Guarded, Reconciling
<1>0. calls \in [Calls -> Call] /\ calls[c].pc \notin Guarded
  BY Zenon DEF reconcile, stop_collector, stop_blackbox, fail, write_temporary, validate, rename,
         start_blackbox, restart_collector
<1>1. UNCHANGED <<devices, live, spent, lost, gone>>
  BY Zenon DEF reconcile, stop_collector, stop_blackbox, fail, write_temporary, validate, rename,
         start_blackbox, restart_collector, SigNoz
<1>2. ASSUME NEW k \in Call, k.pc \notin Guarded, calls' = [calls EXCEPT ![c] = k],
             lock' = lock \/ lock = c
      PROVE  IInv'
  <2>1. calls' \in [Calls -> Call]
    BY <1>0, <1>2
  <2>2. ASSUME NEW b \in Calls, calls[b].pc \in Guarded \/ calls'[b].pc \in Guarded
        PROVE  calls'[b] = calls[b] /\ lock' = lock
    BY <1>0, <1>2, <2>2 DEF Exclusive
  <2> QED
    BY <1>1, <2>1, <2>2, QuietStep
<1>3. ASSUME NEW p \in {"idle"} \cup Reconciling, Goto(c, p), lock' = lock
      PROVE  IInv'
  <2> DEFINE k == [calls[c] EXCEPT !.pc = p]
  <2>1. k \in Call /\ k.pc \notin Guarded /\ calls' = [calls EXCEPT ![c] = k]
    BY <1>0, <1>3 DEF Goto, Call
  <2> QED
    BY <1>2, <1>3, <2>1, Zenon
<1>4. ASSUME NEW ok, Finish(c, ok) PROVE IInv'
  BY <1>2, <1>4, Zenon DEF Finish, Idle, Call, States
<1>5. ASSUME NEW inv, enabled_devices(inv) \in SUBSET Devices,
             StartReconcile(c, inv), lock' = lock
      PROVE  IInv'
  <2> DEFINE k == [Idle EXCEPT !.pc = IF enabled_devices(inv) = {} THEN "stop" ELSE "check",
                               !.inv = enabled_devices(inv)]
  <2>1. k \in Call /\ k.pc \notin Guarded
    BY <1>5, Zenon DEF Idle, Call, States
  <2>2. calls' = [calls EXCEPT ![c] = k]
    BY <1>5 DEF StartReconcile
  <2> QED
    BY <1>2, <1>5, <2>1, <2>2, Zenon
<1>6. CASE reconcile(c)
  BY <1>5, <1>6 DEF reconcile, enabled_devices
<1>7. CASE stop_collector(c)
  BY <1>3, <1>7 DEF stop_collector
<1>8. CASE stop_blackbox(c) \/ fail(c) \/ restart_collector(c)
  BY <1>4, <1>8, Zenon DEF stop_blackbox, fail, restart_collector
<1>9. CASE write_temporary(c) \/ rename(c) \/ start_blackbox(c)
  BY <1>3, <1>9 DEF write_temporary, rename, start_blackbox
<1>10. CASE validate(c)
  BY <1>3, <1>4, <1>10, Zenon DEF validate
<1> QED
  BY <1>6, <1>7, <1>8, <1>9, <1>10
(* upsert_device starts on what the inventory says, with the lock free.    *)
LEMMA UpsertStep ==
    ASSUME IInv, NEW c \in Calls, NEW d \in Devices, NEW s \in States, upsert_device(c, d, s)
    PROVE  IInv'
<1> DEFINE id == find_device(devices, d)
           k  == [pc |-> FirstStep(s, id), dev |-> d, state |-> s, id |-> id, inv |-> {}]
<1>1. /\ calls' = [calls EXCEPT ![c] = k] /\ lock = NoCall /\ lock' = c
      /\ UNCHANGED <<devices, live, spent, lost, gone>>
  BY DEF upsert_device, TakeLock, SigNoz
<1>2. \A b \in Calls : calls[b].pc \notin Guarded
  BY <1>1, MonitoringAssumption DEF IInv, Exclusive
<1>3. id \in spent \cup {NoId} /\ id \in Windows \cup {NoId}
  BY DEF IInv, Shape, find_device
<1>4. k \in Call /\ calls' \in [Calls -> Call]
  BY <1>1, <1>3 DEF IInv, Shape, Call, FirstStep, Guarded, Reconciling
<1>5. \A b \in Calls : b # c => calls'[b] = calls[b]
  BY <1>1
<1>6. calls'[c] = k
  BY <1>1 DEF IInv, Shape
<1>7. Shape' /\ Exclusive'
  BY <1>1, <1>2, <1>4, <1>5 DEF IInv, Shape, Exclusive
<1>8. id # NoId => (id \in DOMAIN live /\ live[id] = d) \/ id \in gone
  <2> SUFFICES ASSUME id # NoId PROVE (id \in DOMAIN live /\ live[id] = d) \/ id \in gone
    OBVIOUS
  <2>1. d \in DOMAIN devices /\ Tracked(d) /\ devices[d].downtime = id
    BY DEF find_device, IInv
  <2> QED
    BY <1>2, <2>1 DEF Tracked, Dropped, Guarded
<1>9. ASSUME NEW b \in Calls PROVE Knows(b)'
  <2>1. CASE b # c
    BY <1>1, <1>2, <1>5, <2>1, Zenon DEF Knows, Guarded
  <2>2. CASE b = c
    <3>1. calls'[b].dev = d /\ calls'[b].id = id /\ calls'[b].pc = FirstStep(s, id)
      BY <1>6, <2>2
    <3>2. find_device(devices, d)' = id
      BY <1>1 DEF find_device
    <3>3. NoId \notin DOMAIN live
      BY MonitoringAssumption DEF IInv, Shape
    <3> QED
      BY <1>1, <1>3, <1>8, <3>1, <3>2, <3>3 DEF Knows, FirstStep
  <2> QED
    BY <2>1, <2>2
<1>10. ASSUME NEW e \in DOMAIN devices' PROVE Tracked(e)'
  BY <1>1, <1>2, <1>10, Zenon DEF IInv, Tracked, Dropped, Guarded
<1>11. ASSUME NEW w \in DOMAIN live' PROVE Remembered(w)'
  BY <1>1, <1>2, <1>11 DEF IInv, Remembered, Holds, Guarded, find_device
<1> QED
  BY <1>7, <1>9, <1>10, <1>11 DEF IInv

(* While c holds the lock, no other handler is between its steps.          *)
LEMMA OnlyOne ==
    ASSUME IInv, NEW c \in Calls, calls[c].pc \in Guarded
    PROVE  lock = c /\ \A b \in Calls : b # c => calls[b].pc \notin Guarded
BY DEF IInv, Exclusive
(* A window that opens is new, so nobody has its id yet.                   *)
LEMMA OpenedFacts ==
    ASSUME IInv, NEW w \in Windows, NEW d, Open(w, d)
    PROVE  /\ w \notin DOMAIN live /\ w \notin gone /\ w \notin spent /\ w # NoId
           /\ DOMAIN live' = DOMAIN live \cup {w} /\ live'[w] = d
           /\ \A v \in DOMAIN live : live'[v] = live[v]
           /\ spent' = spent \cup {w}
           /\ \A e \in DOMAIN devices : devices[e].downtime # w
           /\ \A e : find_device(devices, e) # w
BY MonitoringAssumption DEF IInv, Shape, Open, find_device

(* SigNoz opens a window, or does not; the answer arrives, or does not.    *)
LEMMA CreateStep ==
    ASSUME IInv, NEW c \in Calls, create_maintenance_downtime(c)
    PROVE  IInv'
<1>0. /\ calls[c].pc = "create" /\ calls[c].dev \in Devices /\ calls[c].id = NoId
      /\ find_device(devices, calls[c].dev) = NoId
      /\ calls \in [Calls -> Call] /\ UNCHANGED <<devices, lock, gone>>
      /\ lock = c /\ \A b \in Calls : b # c => calls[b].pc \notin Guarded
      /\ NoId \notin DOMAIN live
  BY OnlyOne, MonitoringAssumption DEF IInv, Shape, Knows, create_maintenance_downtime, Guarded
<1>1. ASSUME NEW w \in Windows, Open(w, calls[c].dev),
             calls' = [calls EXCEPT ![c].pc = "persist", ![c].id = w], lost' = lost
      PROVE  IInv'
  <2>0. /\ w \notin DOMAIN live /\ w \notin gone /\ w \notin spent /\ w # NoId
        /\ DOMAIN live' = DOMAIN live \cup {w} /\ live'[w] = calls[c].dev
        /\ \A v \in DOMAIN live : live'[v] = live[v]
        /\ spent' = spent \cup {w}
        /\ \A e \in DOMAIN devices : devices[e].downtime # w
    BY <1>1, OpenedFacts, Zenon
  <2>1. calls' \in [Calls -> Call] /\ calls'[c].pc = "persist" /\ calls'[c].id = w
        /\ calls'[c].dev = calls[c].dev /\ \A b \in Calls : b # c => calls'[b] = calls[b]
    BY <1>0, <1>1, ZenonT(60) DEF Call, Guarded
  <2>2. Shape' /\ Exclusive'
    BY <1>0, <1>1, <2>0, <2>1 DEF IInv, Shape, Exclusive
  <2>3. ASSUME NEW b \in Calls PROVE Knows(b)'
    BY <1>0, <1>1, <2>0, <2>1 DEF Knows, Guarded, find_device
  <2>4. ASSUME NEW d \in DOMAIN devices' PROVE Tracked(d)'
    BY <1>0, <1>1, <2>1, <2>0, <2>4 DEF IInv, Tracked, Dropped, Guarded, find_device
  <2>5. ASSUME NEW v \in DOMAIN live' PROVE Remembered(v)'
    BY <1>0, <1>1, <2>1, <2>0, <2>5 DEF IInv, Remembered, Holds, Guarded, find_device
  <2> QED
    BY <2>2, <2>3, <2>4, <2>5 DEF IInv
<1>2. ASSUME NEW w \in Windows, Open(w, calls[c].dev), Goto(c, "persist"),
             lost' = lost \cup {w}
      PROVE  IInv'
  <2>0. /\ w \notin DOMAIN live /\ w \notin gone /\ w \notin spent /\ w # NoId
        /\ DOMAIN live' = DOMAIN live \cup {w} /\ live'[w] = calls[c].dev
        /\ \A v \in DOMAIN live : live'[v] = live[v]
        /\ spent' = spent \cup {w}
        /\ \A e \in DOMAIN devices : devices[e].downtime # w
    BY <1>2, OpenedFacts
  <2>1. calls' \in [Calls -> Call] /\ calls'[c].pc = "persist" /\ calls'[c].id = NoId
        /\ calls'[c].dev = calls[c].dev /\ \A b \in Calls : b # c => calls'[b] = calls[b]
    BY <1>0, <1>2 DEF Call, Guarded, Goto
  <2>2. Shape' /\ Exclusive'
    BY <1>0, <1>2, <2>0, <2>1, Zenon DEF IInv, Shape, Exclusive
  <2>3. ASSUME NEW b \in Calls PROVE Knows(b)'
    BY <1>0, <1>2, <2>0, <2>1, Zenon DEF Knows, Guarded, find_device
  <2>4. ASSUME NEW d \in DOMAIN devices' PROVE Tracked(d)'
    BY <1>0, <1>2, <2>1, <2>0, <2>4, Zenon DEF IInv, Tracked, Dropped, Guarded, find_device
  <2>5. ASSUME NEW v \in DOMAIN live' PROVE Remembered(v)'
    BY <1>0, <1>2, <2>1, <2>0, <2>5 DEF IInv, Remembered, Holds, Guarded, find_device
  <2> QED
    BY <2>2, <2>3, <2>4, <2>5 DEF IInv
<1>3. ASSUME Goto(c, "persist"), UNCHANGED <<live, spent, lost>>
      PROVE  IInv'
  <2>1. calls' \in [Calls -> Call] /\ calls'[c].pc = "persist" /\ calls'[c].id = NoId
        /\ calls'[c].dev = calls[c].dev /\ \A b \in Calls : b # c => calls'[b] = calls[b]
    BY <1>0, <1>3 DEF Call, Guarded, Goto
  <2>2. Shape' /\ Exclusive'
    BY <1>0, <1>3, <2>1, Zenon DEF IInv, Shape, Exclusive
  <2>3. ASSUME NEW b \in Calls PROVE Knows(b)'
    BY <1>0, <1>3, <2>1, Zenon DEF Knows, Guarded, find_device
  <2>4. ASSUME NEW d \in DOMAIN devices' PROVE Tracked(d)'
    BY <1>0, <1>3, <2>1, <2>4, Zenon DEF IInv, Tracked, Dropped, Guarded, find_device
  <2>5. ASSUME NEW v \in DOMAIN live' PROVE Remembered(v)'
    BY <1>0, <1>3, <2>1, <2>5 DEF IInv, Remembered, Holds, Guarded, find_device
  <2> QED
    BY <2>2, <2>3, <2>4, <2>5 DEF IInv
<1> QED
  BY <1>1, <1>2, <1>3 DEF create_maintenance_downtime
(* The deletion of a window is confirmed, refused or not answered.         *)
LEMMA LeaveStep ==
    ASSUME IInv, NEW c \in Calls, leave_maintenance(c)
    PROVE  IInv'
<1>w. PICK w : w = calls[c].id
  OBVIOUS
<1>0. /\ calls[c].pc = "leave" /\ calls[c].dev \in Devices /\ w # NoId /\ w = calls[c].id
      /\ find_device(devices, calls[c].dev) = w
      /\ calls \in [Calls -> Call] /\ UNCHANGED <<devices, lock, spent, lost>>
      /\ lock = c /\ \A b \in Calls : b # c => calls[b].pc \notin Guarded
  BY <1>w, OnlyOne, Zenon DEF IInv, Shape, Knows, leave_maintenance, Guarded
<1>1. calls[c].dev \in DOMAIN devices /\ devices[calls[c].dev].downtime = w /\ w \in spent
  BY <1>0 DEF find_device, IInv, Shape
<1>2. (w \in DOMAIN live /\ live[w] = calls[c].dev) \/ w \in gone
  <2>1. Tracked(calls[c].dev)
    BY <1>1 DEF IInv
  <2> QED
    BY <1>0, <1>1, <2>1 DEF Tracked, Dropped, Guarded
<1>3. ASSUME NEW b \in Calls, NEW v, b # c
      PROVE  ~Holds(b, v) /\ ~Dropped(b, v)
  BY <1>0, <1>3 DEF Holds, Dropped, Guarded
<1>4. ASSUME NEW d \in DOMAIN devices, d # calls[c].dev, devices[d].downtime = w
      PROVE  w \in gone
  BY <1>0, <1>2, <1>4 DEF IInv, Tracked, Dropped, Guarded
<1>5. CASE Close(w) /\ gone' = gone /\ calls' = [calls EXCEPT ![c].pc = "persist", ![c].id = NoId]
  <2>1. calls' \in [Calls -> Call] /\ calls'[c].pc = "persist" /\ calls'[c].id = NoId
        /\ calls'[c].dev = calls[c].dev /\ \A b \in Calls : b # c => calls'[b] = calls[b]
    BY <1>0, <1>5 DEF Call, Guarded
  <2>2. DOMAIN live' = DOMAIN live \ {w} /\ \A v \in DOMAIN live' : live'[v] = live[v]
    BY <1>5 DEF Close
  <2>3. Shape' /\ Exclusive'
    BY <1>0, <1>5, <2>1, <2>2, Zenon DEF IInv, Shape, Exclusive
  <2>4. ASSUME NEW b \in Calls PROVE Knows(b)'
    BY <1>0, <1>1, <1>5, <2>1, <2>2 DEF Knows, Guarded, find_device
  <2>5. Dropped(c, w)'
    BY <1>0, <2>1 DEF Dropped, find_device
  <2>6. ASSUME NEW d \in DOMAIN devices' PROVE Tracked(d)'
    <3>1. CASE d = calls[c].dev
      BY <1>0, <1>1, <2>1, <2>5, <3>1 DEF Tracked
    <3>2. CASE d # calls[c].dev
      BY <1>0, <1>3, <1>4, <1>5, <2>1, <2>2, <2>6, <3>2 DEF IInv, Tracked, Dropped, Guarded
    <3> QED
      BY <3>1, <3>2, Zenon
  <2>7. ASSUME NEW v \in DOMAIN live' PROVE Remembered(v)'
    BY <1>0, <1>5, <2>1, <2>2, <2>7 DEF IInv, Remembered, Holds, Guarded, find_device
  <2> QED
    BY <2>3, <2>4, <2>6, <2>7 DEF IInv
<1>6. CASE Close(w) /\ gone' = gone \cup {w} /\ Goto(c, "persist")
  <2>1. calls' \in [Calls -> Call] /\ calls'[c].pc = "persist" /\ calls'[c].id = w
        /\ calls'[c].dev = calls[c].dev /\ \A b \in Calls : b # c => calls'[b] = calls[b]
    BY <1>0, <1>6 DEF Call, Guarded, Goto
  <2>2. DOMAIN live' = DOMAIN live \ {w} /\ \A v \in DOMAIN live' : live'[v] = live[v]
    BY <1>6, Zenon DEF Close
  <2>3. Shape' /\ Exclusive'
    BY <1>0, <1>1, <1>6, <2>1, <2>2, Zenon DEF IInv, Shape, Exclusive
  <2>4. ASSUME NEW b \in Calls PROVE Knows(b)'
    BY <1>0, <1>1, <1>6, <2>1, <2>2, Zenon DEF Knows, Guarded, find_device
  <2>5. ASSUME NEW d \in DOMAIN devices' PROVE Tracked(d)'
    BY <1>0, <1>3, <1>6, <2>1, <2>2, <2>5, Zenon DEF IInv, Tracked, Dropped, Guarded
  <2>6. ASSUME NEW v \in DOMAIN live' PROVE Remembered(v)'
    BY <1>0, <1>6, <2>1, <2>2, <2>6 DEF IInv, Remembered, Holds, Guarded, find_device
  <2> QED
    BY <2>3, <2>4, <2>5, <2>6 DEF IInv
<1>7. CASE live' = live /\ gone' = gone /\ Goto(c, "persist")
  <2>1. calls' \in [Calls -> Call] /\ calls'[c].pc = "persist" /\ calls'[c].id = w
        /\ calls'[c].dev = calls[c].dev /\ \A b \in Calls : b # c => calls'[b] = calls[b]
    BY <1>0, <1>7, Zenon DEF Call, Guarded, Goto
  <2>2. Shape' /\ Exclusive'
    BY <1>0, <1>7, <2>1, Zenon DEF IInv, Shape, Exclusive
  <2>3. ASSUME NEW b \in Calls PROVE Knows(b)'
    BY <1>0, <1>1, <1>2, <1>7, <2>1, Zenon DEF Knows, Guarded, find_device
  <2>4. ASSUME NEW d \in DOMAIN devices' PROVE Tracked(d)'
    BY <1>0, <1>3, <1>7, <2>1, <2>4, Zenon DEF IInv, Tracked, Dropped, Guarded
  <2>5. ASSUME NEW v \in DOMAIN live' PROVE Remembered(v)'
    BY <1>0, <1>7, <2>1, <2>5 DEF IInv, Remembered, Holds, Guarded, find_device
  <2> QED
    BY <2>2, <2>3, <2>4, <2>5 DEF IInv
<1> QED
  BY <1>w, <1>5, <1>6, <1>7 DEF leave_maintenance, Outcomes
(* The call after reconcile has started on some inventory.                 *)
LEMMA StartedCall ==
    ASSUME NEW c \in Calls, NEW inventory, DOMAIN inventory \subseteq Devices,
           calls \in [Calls -> Call], StartReconcile(c, inventory)
    PROVE  /\ calls' \in [Calls -> Call] /\ calls'[c].pc \notin Guarded
           /\ \A b \in Calls : b # c => calls'[b] = calls[b]
<1> DEFINE k == [Idle EXCEPT !.pc = IF enabled_devices(inventory) = {} THEN "stop" ELSE "check",
                             !.inv = enabled_devices(inventory)]
<1>1. k \in Call /\ k.pc \notin Guarded
  BY Zenon DEF Idle, Call, States, enabled_devices, Guarded, Reconciling
<1>2. calls' = [calls EXCEPT ![c] = k]
  BY DEF StartReconcile
<1> QED
  BY <1>1, <1>2

(* The entry is written: what only the handler knew is in the inventory.   *)
LEMMA PersistStep ==
    ASSUME IInv, NEW c \in Calls, persist(c)
    PROVE  IInv'
<1>w. PICK w : w = calls[c].id
  OBVIOUS
<1>d. PICK d : d = calls[c].dev
  OBVIOUS
<1>0. /\ calls[c].pc = "persist" /\ d \in Devices
      /\ calls \in [Calls -> Call] /\ w \in Windows \cup {NoId}
      /\ UNCHANGED <<lock, live, spent, lost, gone>>
      /\ \A b \in Calls : b # c => calls[b].pc \notin Guarded
  BY <1>w, <1>d, OnlyOne, Zenon DEF IInv, Shape, Knows, persist, Guarded, SigNoz, Call
<1>1. /\ DOMAIN devices' = DOMAIN devices \cup {d} /\ devices'[d].downtime = w
      /\ \A e \in DOMAIN devices : e # d => devices'[e] = devices[e]
  BY <1>w, <1>d DEF persist, store_upsert
<1>2. /\ calls' \in [Calls -> Call]
      /\ \A b \in Calls : calls'[b].pc \notin Guarded
  <2>1. DOMAIN devices' \subseteq Devices /\ StartReconcile(c, devices')
    BY <1>0, <1>1, Zenon DEF IInv, Shape, persist
  <2> QED
    BY <1>0, <2>1, StartedCall, Zenon
<1>3. /\ w = NoId => find_device(devices, d) \notin DOMAIN live
      /\ w # NoId => /\ find_device(devices, d) \in {NoId, w} /\ w \in spent
                     /\ (w \in DOMAIN live /\ live[w] = d) \/ w \in gone
  BY <1>0, <1>w, <1>d, Zenon DEF IInv, Knows
<1>4. Shape' /\ Exclusive'
  BY <1>0, <1>1, <1>2, <1>3 DEF IInv, Shape, Exclusive
<1>5. \A b \in Calls : Knows(b)'
  BY <1>2 DEF Knows, Guarded
<1>6. ASSUME NEW e \in DOMAIN devices' PROVE Tracked(e)'
  <2>1. CASE e = d
    BY <1>0, <1>1, <1>3, <2>1, Zenon DEF Tracked
  <2>2. CASE e # d
    BY <1>0, <1>1, <1>d, <1>6, <2>2 DEF IInv, Tracked, Dropped, Guarded
  <2> QED
    BY <2>1, <2>2, Zenon
<1>7. ASSUME NEW v \in DOMAIN live' PROVE Remembered(v)'
  <2> SUFFICES ASSUME live[v] \in Devices, v \notin lost
               PROVE  find_device(devices, live[v])' = v
    BY <1>0 DEF Remembered, find_device
  <2>1. find_device(devices, live[v]) = v \/ \E b \in Calls : Holds(b, v)
    BY <1>0, <1>7 DEF IInv, Remembered
  <2>2. CASE \E b \in Calls : Holds(b, v)
    <3>1. v = w
      BY <1>0, <1>w, <2>2, Zenon DEF Holds, Guarded
    <3>2. v # NoId /\ v \notin gone
      BY <1>0, <1>7, MonitoringAssumption DEF IInv, Shape
    <3> QED
      BY <1>0, <1>1, <1>3, <3>1, <3>2 DEF find_device
  <2>3. CASE find_device(devices, live[v]) = v
    <3>1. CASE live[v] = d
      <4>1. v # NoId /\ v \in DOMAIN live
        BY <1>0, <1>7, MonitoringAssumption DEF IInv, Shape
      <4>2. w = v
        BY <1>3, <2>3, <3>1, <4>1
      <4> QED
        BY <1>0, <1>1, <3>1, <4>2 DEF find_device
    <3>2. CASE live[v] # d
      <4>1. live[v] \in DOMAIN devices
        BY <1>0, <1>7, <2>3, MonitoringAssumption DEF IInv, Shape, find_device
      <4> QED
        BY <1>0, <1>1, <2>3, <3>2, <4>1, Zenon DEF find_device
    <3> QED
      BY <3>1, <3>2
  <2> QED
    BY <2>1, <2>2, <2>3
<1> QED
  BY <1>4, <1>5, <1>6, <1>7 DEF IInv
(* The device goes; its window, if it has one, is the handler's to delete. *)
LEMMA DeleteStep ==
    ASSUME IInv, NEW c \in Calls, NEW d \in Devices, delete_device(c, d)
    PROVE  IInv'
<1>w. PICK w : w = find_device(devices, d)
  OBVIOUS
<1>0. /\ calls \in [Calls -> Call] /\ lock = NoCall /\ lock' = c /\ d \in DOMAIN devices
      /\ UNCHANGED <<live, spent, lost, gone>> /\ w = devices[d].downtime
      /\ \A b \in Calls : calls[b].pc \notin Guarded
  BY <1>w, MonitoringAssumption
     DEF IInv, Shape, Exclusive, delete_device, TakeLock, SigNoz, find_device
<1>1. /\ DOMAIN devices' = DOMAIN devices \ {d}
      /\ \A e \in DOMAIN devices' : devices'[e] = devices[e]
  BY Zenon DEF delete_device, store_delete
<1>2. /\ calls' \in [Calls -> Call] /\ \A b \in Calls : b # c => calls'[b] = calls[b]
      /\ w = NoId => calls'[c].pc \notin Guarded
      /\ w # NoId => calls'[c].pc = "forget" /\ calls'[c].id = w
  <2>1. CASE w = NoId
    <3>1. DOMAIN devices' \subseteq Devices /\ StartReconcile(c, devices')
      BY <1>w, <1>1, <2>1 DEF IInv, Shape, delete_device
    <3> QED
      BY <1>0, <2>1, <3>1, StartedCall
  <2>2. CASE w # NoId
    <3> DEFINE k == [Idle EXCEPT !.pc = "forget", !.id = w]
    <3>1. w \in Windows
      BY <1>0, <2>2 DEF IInv, Shape
    <3>2. k \in Call /\ k.pc = "forget" /\ k.id = w
      BY <3>1, Zenon DEF Idle, Call, States, Guarded
    <3>3. calls' = [calls EXCEPT ![c] = k]
      BY <1>w, <2>2, Zenon DEF delete_device
    <3> QED
      BY <1>0, <2>2, <3>2, <3>3, Zenon
  <2> QED
    BY <2>1, <2>2, Zenon
<1>3. Shape' /\ Exclusive'
  BY <1>0, <1>1, <1>2 DEF IInv, Shape, Exclusive
<1>4. ASSUME NEW b \in Calls PROVE Knows(b)'
  <2>1. ASSUME NEW e \in DOMAIN devices', w # NoId, devices'[e].downtime = w
        PROVE  w \in gone
    BY <1>0, <1>1, <2>1 DEF IInv, Tracked, Dropped, Guarded
  <2>2. CASE b = c
    BY <1>0, <1>2, <2>1, <2>2, Zenon DEF Knows, Guarded
  <2>3. CASE b # c
    BY <1>0, <1>2, <2>3, Zenon DEF Knows, Guarded
  <2> QED
    BY <2>2, <2>3, Zenon
<1>5. ASSUME NEW e \in DOMAIN devices' PROVE Tracked(e)'
  BY <1>0, <1>1, <1>5 DEF IInv, Tracked, Dropped, Guarded
<1>6. ASSUME NEW v \in DOMAIN live' PROVE Remembered(v)'
  <2> SUFFICES ASSUME live[v] \in Devices, v \notin lost
               PROVE  find_device(devices, live[v])' = v \/ \E b \in Calls : Holds(b, v)'
    BY <1>0, Zenon DEF Remembered, find_device
  <2>0. v # NoId /\ v \in DOMAIN live /\ v \notin gone
    BY <1>0, <1>6, MonitoringAssumption, Zenon DEF IInv, Shape
  <2>1. find_device(devices, live[v]) = v
    BY <1>0, <2>0 DEF IInv, Remembered, Holds, Guarded
  <2>2. CASE live[v] = d
    <3>1. w = v
      BY <1>w, <2>1, <2>2, Zenon
    <3>2. ASSUME NEW e \in DOMAIN devices' PROVE devices'[e].downtime # v
      BY <1>0, <1>1, <2>0, <2>2, <3>2 DEF IInv, Tracked, Dropped, Guarded
    <3>3. Holds(c, v)'
      BY <1>2, <2>0, <3>1, <3>2, Zenon DEF Holds
    <3> QED
      BY <3>3
  <2>3. CASE live[v] # d
    BY <1>0, <1>1, <2>0, <2>1, <2>3 DEF find_device
  <2> QED
    BY <2>2, <2>3, Zenon
<1> QED
  BY <1>3, <1>4, <1>5, <1>6 DEF IInv

(* The window of a deleted device ends, or is given up.                    *)
LEMMA ForgetStep ==
    ASSUME IInv, NEW c \in Calls, forget_downtime(c)
    PROVE  IInv'
<1>w. PICK w : w = calls[c].id
  OBVIOUS
<1>0. /\ calls[c].pc = "forget" /\ calls \in [Calls -> Call]
      /\ UNCHANGED <<devices, lock, spent, gone>>
      /\ \A b \in Calls : b # c => calls[b].pc \notin Guarded
      /\ \A d \in DOMAIN devices : devices[d].downtime = w => w \in gone
  BY <1>w, OnlyOne, Zenon DEF IInv, Shape, Knows, forget_downtime, Guarded
<1>1. calls' \in [Calls -> Call] /\ \A b \in Calls : calls'[b].pc \notin Guarded
  <2>1. DOMAIN devices \subseteq Devices /\ StartReconcile(c, devices)
    BY DEF IInv, Shape, forget_downtime
  <2> QED
    BY <1>0, <2>1, StartedCall, Zenon
<1>2. /\ DOMAIN live' \subseteq DOMAIN live /\ \A v \in DOMAIN live' : live'[v] = live[v]
      /\ lost \subseteq lost'
      /\ w \in DOMAIN live' => w \in lost'
      /\ \A v \in DOMAIN live : v # w => v \in DOMAIN live'
  BY <1>w, Zenon DEF forget_downtime, Close
<1>3. Shape' /\ Exclusive'
  BY <1>0, <1>1, <1>2, Zenon DEF IInv, Shape, Exclusive
<1>4. \A b \in Calls : Knows(b)'
  BY <1>1, Zenon DEF Knows, Guarded
<1>5. ASSUME NEW d \in DOMAIN devices' PROVE Tracked(d)'
  BY <1>0, <1>1, <1>2, <1>5, SMTT(20) DEF IInv, Tracked, Dropped, Guarded
<1>6. ASSUME NEW v \in DOMAIN live' PROVE Remembered(v)'
  <2> SUFFICES ASSUME live[v] \in Devices, v \notin lost'
               PROVE  find_device(devices, live[v]) = v
    BY <1>0, <1>2, <1>6 DEF Remembered, find_device
  <2>1. v # w /\ v \notin lost /\ v \in DOMAIN live
    BY <1>2, <1>6
  <2> QED
    BY <1>0, <1>w, <2>1, Zenon DEF IInv, Remembered, Holds, Guarded
<1> QED
  BY <1>3, <1>4, <1>5, <1>6 DEF IInv
(* A window that has no device, or that is deleted by hand.                *)
LEMMA OperatorStep ==
    ASSUME IInv, create_signoz_downtime \/ \E w \in Windows : delete_signoz_downtime(w)
    PROVE  IInv'
<1>1. ASSUME NEW w \in Windows, Open(w, NoDevice), UNCHANGED <<devices, lock, calls, lost, gone>>
      PROVE  IInv'
  <2>0. /\ w \notin DOMAIN live /\ w \notin gone /\ w \notin spent /\ w # NoId
        /\ DOMAIN live' = DOMAIN live \cup {w} /\ live'[w] = NoDevice
        /\ \A v \in DOMAIN live : live'[v] = live[v]
        /\ spent' = spent \cup {w}
        /\ \A e : find_device(devices, e) # w
    BY <1>1, OpenedFacts, Zenon
  <2>1. Shape' /\ Exclusive'
    BY <1>1, <2>0 DEF IInv, Shape, Exclusive
  <2>2. ASSUME NEW b \in Calls PROVE Knows(b)'
    <3>1. find_device(devices, calls[b].dev)' = find_device(devices, calls[b].dev)
      BY <1>1 DEF find_device
    <3>2. Knows(b)
      BY Zenon DEF IInv
    <3> QED
      BY <1>1, <2>0, <3>1, <3>2, Zenon DEF Knows
  <2>3. ASSUME NEW d \in DOMAIN devices' PROVE Tracked(d)'
    BY <1>1, <2>0, <2>3, Zenon DEF IInv, Tracked, Dropped, find_device
  <2>4. ASSUME NEW v \in DOMAIN live' PROVE Remembered(v)'
    BY <1>1, <2>0, <2>4, MonitoringAssumption DEF IInv, Remembered, Holds, find_device
  <2> QED
    BY <2>1, <2>2, <2>3, <2>4, Zenon DEF IInv
<1>2. ASSUME NEW w \in Windows, delete_signoz_downtime(w) PROVE IInv'
  <2>0. /\ w \in DOMAIN live /\ DOMAIN live' = DOMAIN live \ {w}
        /\ \A v \in DOMAIN live' : live'[v] = live[v]
        /\ gone' = gone \cup {w} /\ UNCHANGED <<devices, lock, calls, spent, lost>>
    BY <1>2, Zenon DEF delete_signoz_downtime, Close
  <2>1. Shape' /\ Exclusive'
    BY <2>0, SMTT(20) DEF IInv, Shape, Exclusive
  <2>2. ASSUME NEW b \in Calls PROVE Knows(b)'
    <3>1. find_device(devices, calls[b].dev)' = find_device(devices, calls[b].dev)
      BY <2>0, Zenon DEF find_device
    <3>2. Knows(b)
      BY DEF IInv
    <3> QED
      BY <2>0, <3>1, <3>2 DEF Knows
  <2>3. ASSUME NEW d \in DOMAIN devices' PROVE Tracked(d)'
    BY <2>0, <2>3, Zenon DEF IInv, Tracked, Dropped, find_device
  <2>4. ASSUME NEW v \in DOMAIN live' PROVE Remembered(v)'
    BY <2>0, <2>4 DEF IInv, Remembered, Holds, find_device
  <2> QED
    BY <2>1, <2>2, <2>3, <2>4 DEF IInv
<1> QED
  BY <1>1, <1>2 DEF create_signoz_downtime

(* A restart loses what only a handler knew, and nothing else.             *)
LEMMA CrashStep ==
    ASSUME IInv, crash
    PROVE  IInv'
<1>1. /\ calls' = [c \in Calls |-> Idle] /\ lock' = NoCall
      /\ UNCHANGED <<devices, live, spent>>
      /\ lost' = lost \cup {w \in Windows : \E c \in Calls : Holds(c, w)}
      /\ gone' = gone \cup {w \in Windows : \E c \in Calls : Dropped(c, w)}
  BY Zenon DEF crash
<1>2. calls' \in [Calls -> Call] /\ \A c \in Calls : calls'[c].pc \notin Guarded
  BY <1>1, SMTT(20) DEF Idle, Call, States, Guarded
<1>3. ASSUME NEW c \in Calls, NEW w \in Windows, Dropped(c, w)
      PROVE  w \in spent /\ w \notin DOMAIN live
  <2>1. Knows(c) /\ w # NoId
    BY MonitoringAssumption DEF IInv
  <2> QED
    BY <1>3, <2>1, MonitoringAssumption DEF IInv, Shape, Knows, Dropped, find_device
<1>4. Shape' /\ Exclusive'
  BY <1>1, <1>2, <1>3, Zenon DEF IInv, Shape, Exclusive
<1>5. \A c \in Calls : Knows(c)'
  BY <1>2, SMTT(20) DEF Knows, Guarded
<1>6. ASSUME NEW d \in DOMAIN devices' PROVE Tracked(d)'
  <2>1. Tracked(d) /\ devices[d].downtime \in Windows \cup {NoId}
    BY <1>1, <1>6 DEF IInv, Shape
  <2> QED
    BY <1>1, <2>1, Zenon DEF Tracked
<1>7. ASSUME NEW v \in DOMAIN live' PROVE Remembered(v)'
  <2>1. Remembered(v) /\ v \in Windows
    BY <1>1, <1>7 DEF IInv, Shape
  <2>2. find_device(devices, live[v])' = find_device(devices, live[v])
    BY <1>1 DEF find_device
  <2> QED
    BY <1>1, <2>1, <2>2, Zenon DEF Remembered
<1> QED
  BY <1>4, <1>5, <1>6, <1>7 DEF IInv

(* The invariant holds throughout: it says that handlers exclude each      *)
(* other, what a handler knows at each step, and how ids and windows       *)
(* correspond.                                                             *)
THEOREM Invariance == Spec => []IInv
<1>1. Init => IInv
  <2> SUFFICES ASSUME Init PROVE IInv
    BY Zenon
  <2>1. calls \in [Calls -> Call] /\ \A c \in Calls : calls[c].pc \notin Guarded
    BY Zenon DEF Init, Idle, Call, States, Guarded
  <2>2. Shape /\ Exclusive
    BY <2>1, Zenon DEF Init, Shape, Exclusive
  <2>3. \A c \in Calls : Knows(c)
    BY <2>1 DEF Knows, Guarded
  <2> QED
    BY <2>2, <2>3 DEF Init, IInv
<1>2. IInv /\ [Next]_vars => IInv'
  <2> SUFFICES ASSUME IInv, [Next]_vars PROVE IInv'
    OBVIOUS
  <2>1. CASE UNCHANGED vars
    BY <2>1, QuietStep, Zenon DEF vars, IInv, Shape
  <2>2. CASE Next
    <3>1. ASSUME NEW c \in Calls, NEW d \in Devices,
                 (\E s \in States : upsert_device(c, d, s)) \/ delete_device(c, d)
          PROVE  IInv'
      BY <3>1, UpsertStep, DeleteStep
    <3>2. ASSUME NEW c \in Calls,
                 \/ create_maintenance_downtime(c) \/ leave_maintenance(c)
                 \/ persist(c) \/ forget_downtime(c)
          PROVE  IInv'
      BY <3>2, CreateStep, LeaveStep, PersistStep, ForgetStep
    <3>3. ASSUME NEW c \in Calls,
                 \/ reconcile(c) \/ stop_collector(c) \/ stop_blackbox(c) \/ fail(c)
                 \/ write_temporary(c) \/ validate(c) \/ rename(c)
                 \/ start_blackbox(c) \/ restart_collector(c)
          PROVE  IInv'
      BY <3>3, ReconcileStep
    <3>4. CASE create_signoz_downtime \/ \E w \in Windows : delete_signoz_downtime(w)
      BY <3>4, OperatorStep
    <3>5. CASE crash
      BY <3>5, CrashStep
    <3> QED
      BY <2>2, <3>1, <3>2, <3>3, <3>4, <3>5 DEF Next
  <2> QED
    BY <2>1, <2>2
<1> QED
  BY <1>1, <1>2, PTL DEF Spec

(* No maintenance window is leaked, for any number of devices, calls and   *)
(* windows (DEVICE_LOCK, upsert_device, delete_device).                    *)
THEOREM NoWindowLeaked == Spec => []DowntimeTracked
<1>1. IInv => DowntimeTracked
  BY Zenon DEF IInv, DowntimeTracked, Remembered
<1> QED
  BY <1>1, Invariance, PTL

(* The inventory's ids are true, for any number of devices, calls and      *)
(* windows (upsert_device).                                                *)
THEOREM IdsAreTrue == Spec => []TrackedIsLive
<1>1. IInv => TrackedIsLive
  BY Zenon DEF IInv, TrackedIsLive, Tracked
<1> QED
  BY <1>1, Invariance, PTL
-----------------------------------------------------------------------------
(* The collector                                                           *)

Reconciles(c) == calls[c].pc \in Reconciling

(* What is true at each step of a reconcile that is alone.                 *)
Follows(c) ==
    LET k == calls[c]
    IN  /\ k.pc \in Reconciling /\ k.inv = enabled_devices(devices)
        /\ k.pc \in {"stop", "stop_blackbox"} => k.inv = {}
        /\ k.pc \notin {"stop", "stop_blackbox"} => k.inv # {}
        /\ k.pc = "stop_blackbox" => collector = {}
        /\ k.pc \in {"validate", "rename"} => temp = k.inv
        /\ k.pc \in {"start", "restart"} => config = k.inv
        /\ k.pc = "restart" => blackbox = TRUE

(* A reconcile that is alone has no other beside it, and after one that    *)
(* succeeded there is none until the next starts.                          *)
SyncInv ==
    /\ calls \in [Calls -> Call]
    /\ alone \in Calls \cup {NoCall} /\ synced \in BOOLEAN
    /\ alone \in Calls => Follows(alone) /\ \A b \in Calls : Reconciles(b) => b = alone
    /\ synced => CollectorFollows /\ \A b \in Calls : ~Reconciles(b)

(* A step beside the collector, of whoever is not reconciling.             *)
LEMMA BesideStep ==
    ASSUME SyncInv, calls' \in [Calls -> Call],
           UNCHANGED <<devices, temp, config, collector, blackbox, alone, synced>>,
           \A b \in Calls : Reconciles(b) \/ Reconciles(b)' => calls'[b] = calls[b]
    PROVE  SyncInv'
<1>1. \A b \in Calls : Reconciles(b)' <=> Reconciles(b)
  BY SMTT(20) DEF Reconciles
<1>2. ASSUME alone \in Calls PROVE Follows(alone)'
  <2>1. Follows(alone) /\ Reconciles(alone)
    BY <1>2 DEF SyncInv, Follows, Reconciles
  <2>2. calls'[alone] = calls[alone] /\ alone' = alone
    BY <1>2, <2>1
  <2> QED
    BY <2>1, <2>2, SMTT(20) DEF Follows
<1>3. synced => CollectorFollows'
  BY DEF SyncInv, CollectorFollows
<1> QED
  BY <1>1, <1>2, <1>3 DEF SyncInv

(* A reconcile that starts: it is alone unless there is another.           *)
LEMMA StartStep ==
    ASSUME SyncInv, NEW c \in Calls, ~Reconciles(c), StartReconcile(c, devices'),
           DOMAIN devices' \subseteq Devices, UNCHANGED <<temp, config, collector, blackbox>>
    PROVE  SyncInv'
<1> DEFINE inv == enabled_devices(devices')
           k == [Idle EXCEPT !.pc = IF inv = {} THEN "stop" ELSE "check", !.inv = inv]
<1>1. calls' = [calls EXCEPT ![c] = k] /\ synced' = FALSE
  BY DEF StartReconcile
<1>2. alone' \in {c, NoCall} /\ (alone' = c => \A b \in Calls \ {c} : ~Reconciles(b))
  BY MonitoringAssumption, SMTT(20) DEF StartReconcile, Reconciles
<1>3. inv \in SUBSET Devices
  BY DEF enabled_devices
<1>4. k \in Call /\ k.inv = inv /\ k.pc = IF inv = {} THEN "stop" ELSE "check"
  <2> HIDE DEF inv
  <2> QED BY <1>3, Zenon DEF Idle, Call, States, Reconciling
<1> HIDE DEF k
<1>5. calls' \in [Calls -> Call] /\ calls'[c] = k /\ \A b \in Calls \ {c} : calls'[b] = calls[b]
  BY <1>1, <1>4, Zenon DEF SyncInv
<1>6. Follows(c)'
  <2> HIDE DEF inv
  <2>1. calls'[c].inv = inv /\ calls'[c].pc = IF inv = {} THEN "stop" ELSE "check"
    BY <1>4, <1>5
  <2> QED
    BY <2>1, Zenon DEF Follows, Reconciling, inv
<1>7. alone' = c => \A b \in Calls : Reconciles(b)' => b = c
  BY <1>2, <1>5 DEF Reconciles
<1>8. CASE alone' = c
  BY <1>1, <1>5, <1>6, <1>7, <1>8, Zenon DEF SyncInv
<1>9. CASE alone' = NoCall
  BY <1>1, <1>5, <1>9, MonitoringAssumption, Zenon DEF SyncInv
<1> QED
  BY <1>2, <1>8, <1>9

(* Whoever reconciles while a call is alone is that call, and nothing is   *)
(* in step with the inventory meanwhile.                                   *)
LEMMA WhileReconciling ==
    ASSUME SyncInv, NEW c \in Calls, Reconciles(c)
    PROVE  /\ synced = FALSE /\ alone \in {c, NoCall}
           /\ alone = c => Follows(c) /\ \A b \in Calls : Reconciles(b) => b = c
BY DEF SyncInv

(* A reconcile that goes on                                                *)
LEMMA GotoStep ==
    ASSUME SyncInv, NEW c \in Calls, Reconciles(c), NEW step \in Reconciling, Goto(c, step),
           UNCHANGED <<devices, synced>>, alone' \in {alone, NoCall}, alone' = c => Follows(c)'
    PROVE  SyncInv'
<1>1. /\ synced = FALSE /\ alone \in {c, NoCall}
      /\ alone = c => Follows(c) /\ \A b \in Calls : Reconciles(b) => b = c
  BY WhileReconciling, Zenon
<1>2. calls[c] \in Call /\ [calls[c] EXCEPT !.pc = step] \in Call
  BY DEF SyncInv, Call, Reconciling
<1>3. calls' \in [Calls -> Call] /\ \A b \in Calls \ {c} : calls'[b] = calls[b]
  BY <1>2, Zenon DEF SyncInv, Goto
<1>4. alone' = c => \A b \in Calls : Reconciles(b)' => b = c
  BY <1>1, <1>3, MonitoringAssumption DEF Reconciles
<1>5. alone' \in {c, NoCall}
  BY <1>1
<1> QED
  BY <1>1, <1>3, <1>4, <1>5, MonitoringAssumption DEF SyncInv

(* What a reconcile that is alone has to show when it goes on.             *)
LEMMA FollowsOn ==
    ASSUME NEW c, Follows(c), UNCHANGED devices, NEW step \in Reconciling,
           calls'[c].pc = step, calls'[c].inv = calls[c].inv,
           step \in {"stop", "stop_blackbox"} <=> calls[c].pc \in {"stop", "stop_blackbox"},
           step = "stop_blackbox" => collector' = {},
           step \in {"validate", "rename"} => temp' = calls[c].inv,
           step \in {"start", "restart"} => config' = calls[c].inv,
           step = "restart" => blackbox' = TRUE
    PROVE  Follows(c)'
BY Zenon DEF Follows

(* A reconcile that ends: only if it was alone and succeeded, the          *)
(* collector has to be in step.                                            *)
LEMMA FinishStep ==
    ASSUME SyncInv, NEW c \in Calls, Reconciles(c), NEW ok \in BOOLEAN, Finish(c, ok),
           UNCHANGED devices, ok /\ alone = c => CollectorFollows'
    PROVE  SyncInv'
<1>1. /\ synced = FALSE /\ alone \in {c, NoCall}
      /\ alone = c => Follows(c) /\ \A b \in Calls : Reconciles(b) => b = c
  BY WhileReconciling, Zenon
<1>2. calls' = [calls EXCEPT ![c] = Idle] /\ alone' = NoCall /\ synced' = (ok /\ alone = c)
  BY <1>1, Zenon DEF Finish
<1>3. Idle \in Call /\ Idle.pc \notin Reconciling
  BY DEF Idle, Call, States, Reconciling
<1>4. /\ calls' \in [Calls -> Call] /\ ~Reconciles(c)'
      /\ \A b \in Calls \ {c} : calls'[b] = calls[b]
  BY <1>2, <1>3 DEF SyncInv, Reconciles
<1>5. alone = c => \A b \in Calls : ~Reconciles(b)'
  BY <1>1, <1>4 DEF Reconciles
<1> QED
  BY <1>1, <1>2, <1>4, <1>5, MonitoringAssumption DEF SyncInv

(* The steps of a reconcile.                                               *)
LEMMA SyncReconciling ==
    ASSUME SyncInv, NEW c \in Calls,
           \/ stop_collector(c) \/ stop_blackbox(c) \/ fail(c)
           \/ write_temporary(c) \/ validate(c) \/ rename(c)
           \/ start_blackbox(c) \/ restart_collector(c)
    PROVE  SyncInv'
<1>1. Reconciles(c)
  BY Zenon DEF stop_collector, stop_blackbox, fail, write_temporary, validate, rename, start_blackbox,
         restart_collector, Reconciles, Reconciling
<1>2. /\ alone \in {c, NoCall}
      /\ alone = c => Follows(c)
  BY <1>1, WhileReconciling, Zenon
<1>3. c # NoCall
  BY MonitoringAssumption
<1>4. ASSUME NEW step, Goto(c, step)
      PROVE  calls'[c].pc = step /\ calls'[c].inv = calls[c].inv
  <2>1. calls'[c] = [calls[c] EXCEPT !.pc = step] /\ calls[c] \in Call
    BY <1>4 DEF Goto, SyncInv
  <2> QED
    BY <2>1 DEF Call
<1>5. CASE stop_collector(c)
  <2>1. /\ Goto(c, "stop_blackbox") /\ UNCHANGED <<devices, synced>> /\ calls[c].pc = "stop"
        /\ alone' \in {alone, NoCall} /\ (alone' = c => alone = c /\ collector' = {})
    BY <1>3, <1>5 DEF stop_collector
  <2>2. ASSUME alone' = c PROVE Follows(c)'
    <3>1. /\ Follows(c) /\ UNCHANGED devices /\ calls[c].pc = "stop"
          /\ calls'[c].pc = "stop_blackbox" /\ calls'[c].inv = calls[c].inv
      BY <1>2, <1>4, <2>1, <2>2, Zenon
    <3>2. collector' = {}
      BY <2>1, <2>2, <3>1, Zenon DEF Follows
    <3> QED
      BY <3>1, <3>2, FollowsOn, Zenon DEF Reconciling
  <2>3. alone' = c => Follows(c)'
    BY <2>2
  <2>4. "stop_blackbox" \in Reconciling
    BY DEF Reconciling
  <2> QED
    BY <1>1, <2>1, <2>3, <2>4, GotoStep, Zenon
<1>6. CASE stop_blackbox(c)
  <2>1. /\ UNCHANGED <<devices, collector>> /\ calls[c].pc = "stop_blackbox"
        /\ (blackbox' = FALSE /\ Finish(c, TRUE)) \/ Finish(c, FALSE)
    BY <1>6, Zenon DEF stop_blackbox
  <2>2. blackbox' = FALSE /\ alone = c => CollectorFollows'
    BY <1>2, <2>1, Zenon DEF Follows, CollectorFollows
  <2> QED
    BY <1>1, <2>1, <2>2, FinishStep, Zenon
<1>7. CASE fail(c)
  BY <1>1, <1>7, FinishStep, Zenon DEF fail
<1>8. CASE write_temporary(c)
  <2>1. /\ Goto(c, "validate") /\ UNCHANGED <<devices, synced, alone>> /\ calls[c].pc = "check"
        /\ temp' = calls[c].inv
    BY <1>8 DEF write_temporary
  <2>2. ASSUME alone' = c PROVE Follows(c)'
    <3>1. /\ Follows(c) /\ UNCHANGED devices /\ calls[c].pc = "check"
          /\ calls'[c].pc = "validate" /\ calls'[c].inv = calls[c].inv
      BY <1>2, <1>4, <2>1, <2>2, Zenon
    <3>2. temp' = calls[c].inv
      BY <2>1, <2>2, <3>1, Zenon DEF Follows
    <3> QED
      BY <3>1, <3>2, FollowsOn, Zenon DEF Reconciling
  <2>3. alone' = c => Follows(c)'
    BY <2>2
  <2>4. "validate" \in Reconciling
    BY DEF Reconciling
  <2> QED
    BY <1>1, <2>1, <2>3, <2>4, GotoStep, Zenon
<1>9. CASE validate(c)
  <2>1. CASE Goto(c, "rename") /\ UNCHANGED <<alone, synced, temp>>
    <3>1. UNCHANGED devices /\ calls[c].pc = "validate"
      BY <1>9, Zenon DEF validate
    <3>2. ASSUME alone' = c PROVE Follows(c)'
      <4>1. /\ Follows(c) /\ calls'[c].pc = "rename" /\ calls'[c].inv = calls[c].inv
        BY <1>2, <1>4, <2>1, <3>2, Zenon
      <4>2. temp' = calls[c].inv
        BY <2>1, <3>1, <4>1, Zenon DEF Follows
      <4> QED
        BY <3>1, <4>1, <4>2, FollowsOn, Zenon DEF Reconciling
    <3>3. alone' = c => Follows(c)'
      BY <3>2
    <3>4. "rename" \in Reconciling
      BY DEF Reconciling
    <3> QED
      BY <1>1, <2>1, <3>1, <3>3, <3>4, GotoStep, Zenon
  <2>2. CASE Finish(c, FALSE)
    BY <1>1, <1>9, <2>2, FinishStep, Zenon DEF validate
  <2> QED
    BY <1>9, <2>1, <2>2, Zenon DEF validate
<1>10. CASE rename(c)
  <2>1. /\ Goto(c, "start") /\ UNCHANGED <<devices, synced, alone>> /\ calls[c].pc = "rename"
        /\ config' = temp
    BY <1>10 DEF rename
  <2>2. ASSUME alone' = c PROVE Follows(c)'
    <3>1. /\ Follows(c) /\ UNCHANGED devices /\ calls[c].pc = "rename"
          /\ calls'[c].pc = "start" /\ calls'[c].inv = calls[c].inv
      BY <1>2, <1>4, <2>1, <2>2, Zenon
    <3>2. config' = calls[c].inv
      BY <2>1, <2>2, <3>1, Zenon DEF Follows
    <3> QED
      BY <3>1, <3>2, FollowsOn, Zenon DEF Reconciling
  <2>3. alone' = c => Follows(c)'
    BY <2>2
  <2>4. "start" \in Reconciling
    BY DEF Reconciling
  <2> QED
    BY <1>1, <2>1, <2>3, <2>4, GotoStep, Zenon
<1>11. CASE start_blackbox(c)
  <2>1. /\ Goto(c, "restart") /\ UNCHANGED <<devices, synced, alone, config>> /\ calls[c].pc = "start"
        /\ blackbox' = TRUE
    BY <1>11 DEF start_blackbox
  <2>2. ASSUME alone' = c PROVE Follows(c)'
    <3>1. /\ Follows(c) /\ UNCHANGED devices /\ calls[c].pc = "start"
          /\ calls'[c].pc = "restart" /\ calls'[c].inv = calls[c].inv
      BY <1>2, <1>4, <2>1, <2>2, Zenon
    <3>2. config' = calls[c].inv /\ blackbox' = TRUE
      BY <2>1, <2>2, <3>1, Zenon DEF Follows
    <3> QED
      BY <3>1, <3>2, FollowsOn, Zenon DEF Reconciling
  <2>3. alone' = c => Follows(c)'
    BY <2>2
  <2>4. "restart" \in Reconciling
    BY DEF Reconciling
  <2> QED
    BY <1>1, <2>1, <2>3, <2>4, GotoStep, Zenon
<1>12. CASE restart_collector(c)
  <2>1. /\ UNCHANGED <<devices, blackbox>> /\ calls[c].pc = "restart"
        /\ (collector' = config /\ Finish(c, TRUE)) \/ Finish(c, FALSE)
    BY <1>12, Zenon DEF restart_collector
  <2>2. collector' = config /\ alone = c => CollectorFollows'
    BY <1>2, <2>1, Zenon DEF Follows, CollectorFollows
  <2> QED
    BY <1>1, <2>1, <2>2, FinishStep, Zenon
<1> QED
  BY <1>5, <1>6, <1>7, <1>8, <1>9, <1>10, <1>11, <1>12, Zenon

(* The handlers up to their reconcile.                                     *)
LEMMA SyncHandlers ==
    ASSUME SyncInv, IInv, IInv', NEW c \in Calls,
           \/ \E d \in Devices : (\E s \in States : upsert_device(c, d, s)) \/ delete_device(c, d)
           \/ create_maintenance_downtime(c) \/ leave_maintenance(c) \/ persist(c)
           \/ forget_downtime(c) \/ reconcile(c)
    PROVE  SyncInv'
<1>1. /\ calls \in [Calls -> Call] /\ calls' \in [Calls -> Call]
      /\ DOMAIN devices' \subseteq Devices
  BY Zenon DEF IInv, Shape
<1>2. ASSUME NEW x, x \in Guarded \cup {"idle"} PROVE x \notin Reconciling
  BY <1>2 DEF Guarded, Reconciling
<1>3. ASSUME NEW k, calls' = [calls EXCEPT ![c] = k], k.pc \in Guarded, calls[c].pc \in Guarded \cup {"idle"}
      PROVE  \A b \in Calls : Reconciles(b) \/ Reconciles(b)' => calls'[b] = calls[b]
  BY <1>1, <1>2, <1>3 DEF Reconciles
<1>4. CASE \E d \in Devices, s \in States : upsert_device(c, d, s)
  <2>1. PICK d \in Devices, s \in States : upsert_device(c, d, s)
    BY <1>4
  <2> DEFINE id == find_device(devices, d)
             k == [pc |-> FirstStep(s, id), dev |-> d, state |-> s, id |-> id, inv |-> {}]
  <2>2. /\ calls' = [calls EXCEPT ![c] = k] /\ calls[c].pc = "idle"
        /\ UNCHANGED <<devices, temp, config, collector, blackbox, alone, synced>>
    BY <2>1, Zenon DEF upsert_device, TakeLock, Collector
  <2>3. k.pc \in Guarded
    BY DEF FirstStep, Guarded
  <2> HIDE DEF k
  <2>4. \A b \in Calls : Reconciles(b) \/ Reconciles(b)' => calls'[b] = calls[b]
    BY <1>3, <2>2, <2>3, Zenon
  <2> QED
    BY <1>1, <2>2, <2>4, BesideStep, Zenon
<1>5. CASE create_maintenance_downtime(c) \/ leave_maintenance(c)
  <2>1. /\ UNCHANGED <<devices, temp, config, collector, blackbox, alone, synced>>
        /\ calls[c].pc \in Guarded
        /\ \A b \in Calls \ {c} : calls'[b] = calls[b]
        /\ calls'[c].pc = "persist"
    <3>1. UNCHANGED <<devices, temp, config, collector, blackbox, alone, synced>>
      BY <1>5 DEF create_maintenance_downtime, leave_maintenance, Collector
    <3>2. calls[c].pc \in Guarded
      BY <1>5 DEF create_maintenance_downtime, leave_maintenance, Guarded
    <3>3. \/ calls' = [calls EXCEPT ![c].pc = "persist"]
          \/ \E w : calls' = [calls EXCEPT ![c].pc = "persist", ![c].id = w]
      BY <1>5, Zenon DEF create_maintenance_downtime, leave_maintenance, Goto
    <3>4. calls[c] \in Call
      BY <1>1
    <3>5. calls'[c].pc = "persist" /\ \A b \in Calls \ {c} : calls'[b] = calls[b]
      BY <1>1, <3>3, <3>4 DEF Call
    <3> QED
      BY <3>1, <3>2, <3>5, Zenon
  <2>2. \A b \in Calls : Reconciles(b) \/ Reconciles(b)' => calls'[b] = calls[b]
    BY <1>2, <2>1, Zenon DEF Reconciles, Guarded
  <2> QED
    BY <1>1, <2>1, <2>2, BesideStep, Zenon
<1>6. CASE persist(c) \/ forget_downtime(c) \/ reconcile(c)
  <2>1. StartReconcile(c, devices')
    BY <1>6, Zenon DEF persist, forget_downtime, reconcile
  <2>2. UNCHANGED <<temp, config, collector, blackbox>>
    BY <1>6, Zenon DEF persist, forget_downtime, reconcile, Collector
  <2>3. ~Reconciles(c)
    BY <1>6, Zenon DEF persist, forget_downtime, reconcile, Reconciles, Reconciling
  <2> QED
    BY <1>1, <2>1, <2>2, <2>3, StartStep, Zenon
<1>7. CASE \E d \in Devices : delete_device(c, d)
  <2>1. PICK d \in Devices : delete_device(c, d)
    BY <1>7
  <2>2. ~Reconciles(c)
    BY <2>1, Zenon DEF delete_device, TakeLock, Reconciles, Reconciling
  <2>3. UNCHANGED <<temp, config, collector, blackbox>>
    BY <2>1, Zenon DEF delete_device, Collector
  <2>4. StartReconcile(c, devices') \/ (synced' = FALSE /\ alone' = NoCall)
    BY <2>1, Zenon DEF delete_device
  <2>5. CASE synced' = FALSE /\ alone' = NoCall
    BY <1>1, <2>5, MonitoringAssumption, Zenon DEF SyncInv
  <2> QED
    BY <1>1, <2>2, <2>3, <2>4, <2>5, StartStep, Zenon
<1> QED
  BY <1>4, <1>5, <1>6, <1>7, Zenon

(* After a reconcile that was alone and succeeded the collector follows    *)
(* the inventory, for any number of devices, calls and windows             *)
(* (reconcile).                                                            *)
THEOREM CollectorInStep == Spec => []CollectorFollows
<1>1. Init => SyncInv
  <2> SUFFICES ASSUME Init PROVE SyncInv
    OBVIOUS
  <2>1. calls \in [Calls -> Call] /\ \A c \in Calls : ~Reconciles(c)
    BY DEF Init, Idle, Call, States, Reconciles, Reconciling
  <2>2. CollectorFollows
    BY Zenon DEF Init, CollectorFollows, enabled_devices
  <2> QED
    BY <2>1, <2>2, MonitoringAssumption, Zenon DEF Init, SyncInv
<1>2. SyncInv /\ IInv /\ IInv' /\ [Next]_vars => SyncInv'
  <2> SUFFICES ASSUME SyncInv, IInv, IInv', [Next]_vars PROVE SyncInv'
    OBVIOUS
  <2>1. CASE UNCHANGED <<devices, calls, temp, config, collector, blackbox, alone, synced>>
    <3>1. calls' \in [Calls -> Call] /\ \A b \in Calls : calls'[b] = calls[b]
      BY <2>1 DEF SyncInv
    <3> QED
      BY <2>1, <3>1, BesideStep, Zenon
  <2>2. CASE crash
    <3>1. /\ calls' = [c \in Calls |-> Idle] /\ alone' = NoCall
          /\ UNCHANGED <<devices, collector, blackbox, synced>>
      BY <2>2, SMTT(20) DEF crash
    <3>2. calls' \in [Calls -> Call] /\ \A c \in Calls : ~Reconciles(c)'
      BY <3>1 DEF Idle, Call, States, Reconciles, Reconciling
    <3>3. synced => CollectorFollows'
      BY <3>1 DEF SyncInv, CollectorFollows
    <3> QED
      BY <3>1, <3>2, <3>3, MonitoringAssumption, Zenon DEF SyncInv
  <2>3. UNCHANGED vars => UNCHANGED <<devices, calls, temp, config, collector, blackbox, alone, synced>>
    BY DEF vars
  <2>4. create_signoz_downtime => UNCHANGED <<devices, calls, temp, config, collector, blackbox, alone, synced>>
    BY DEF create_signoz_downtime, Collector
  <2>5. ASSUME NEW w \in Windows, delete_signoz_downtime(w)
        PROVE  UNCHANGED <<devices, calls, temp, config, collector, blackbox, alone, synced>>
    BY <2>5 DEF delete_signoz_downtime, Collector
  <2> QED
    BY <2>1, <2>2, <2>3, <2>4, <2>5, SyncHandlers, SyncReconciling, Zenon DEF Next
<1>3. SyncInv => CollectorFollows
  BY DEF SyncInv, CollectorFollows
<1> QED
  BY <1>1, <1>2, <1>3, Invariance, PTL DEF Spec
=============================================================================
