---------------------------- MODULE RefreshTask ----------------------------
(***************************************************************************)
(* The callers of the remote task cache, running concurrently:             *)
(* server/src/remote_tasks/refresh_task.rs (the timer tick and the manual  *)
(* refresh) and mod.rs (tracking a started task, listing tasks), with the  *)
(* nodes that run the tasks, crashes, and damage to archive files.         *)
(*                                                                         *)
(* A step ends where the code awaits: the state file is read without the   *)
(* lock before polling and fetching, and the result is applied under the   *)
(* lock afterwards.  The writes of a locked operation are steps of their   *)
(* own, so that a crash can fall between them.                             *)
(***************************************************************************)
EXTENDS TaskCache

CONSTANTS
    RemoteOf,      \* remote a node belongs to
    Flaky,         \* remotes whose answers may fail to arrive, and that may be removed
    Ours,          \* tasks started through PDM, which tracks them
    Manual,        \* manual refreshes that may run at once
    Boot,          \* time of the first start of the daemon
    MaxTime, MaxCrashes, MaxDamage,   \* bounds of the model
    TornLines      \* may a crash leave half a line: a subset of BOOLEAN

Remotes == {RemoteOf[n] : n \in Nodes}
TaskRemote(t) == RemoteOf[NodeOf[t]]

ASSUME RefreshAssumption ==
    /\ Flaky \subseteq Remotes
    /\ Ours \subseteq Tasks
    /\ "tick" \notin Manual
    /\ {Boot, MaxTime, MaxCrashes, MaxDamage} \subseteq Nat
    /\ Boot >= MaxFiles * RotateAfter
    /\ FALSE \in TornLines /\ TornLines \subseteq BOOLEAN

VARIABLES
    disk,     \* the files of the cache
    todo,     \* disks the operation that holds the lock has yet to produce
    holder,   \* who holds the lock; {} when it is free
    act,      \* the timer task and the manual refreshes
    reader,   \* start times of the damaged files a listing has met
    starting, \* tasks started through PDM and not yet tracked
    run,      \* what the nodes say of each task
    conf,     \* remotes in remotes.cfg
    now, crashes, damage

vars == <<disk, todo, holder, act, reader, starting, run, conf, now, crashes, damage>>
world == <<run, conf, now, crashes, damage>>

Actors == {"tick"} \cup Manual

Idle == [pc |-> "idle", cutoff |-> [n \in Nodes |-> NoCutoff], conf |-> {}, polled |-> {}, lost |-> {},
         finished |-> {}, run |-> {}, fin |-> {}, ok |-> {}]

align_timestamp(t) == t - (t % RotateAfter)

(* Taking the lock and computing the writes; nothing to write frees it.    *)
Locked(who, steps) ==
    /\ holder = {}
    /\ todo' = steps
    /\ holder' = IF steps = <<>> THEN {} ELSE {who}
    /\ UNCHANGED disk

(* The next write of the operation that holds the lock; the last one       *)
(* drops the lock.                                                         *)
write_step ==
    /\ todo # <<>>
    /\ disk' = Head(todo)
    /\ todo' = Tail(todo)
    /\ holder' = IF Len(todo) = 1 THEN {} ELSE holder
    /\ UNCHANGED <<act, reader, starting, world>>

Cache == <<disk, todo, holder>>
Ready(a, pcs) == act[a].pc \in pcs /\ a \notin holder

-----------------------------------------------------------------------------
(* The timer task                                                          *)

init_cache ==
    /\ Ready("tick", {"boot"})
    /\ Locked("tick", init(disk, align_timestamp(now)))
    /\ act' = [act EXCEPT !["tick"].pc = "idle"]
    /\ UNCHANGED <<reader, starting, world>>

rotate_cache ==
    /\ Ready("tick", {"idle"})
    /\ Locked("tick", rotate(disk, align_timestamp(now)))
    /\ act' = [act EXCEPT !["tick"].pc = "rotated"]
    /\ UNCHANGED <<reader, starting, world>>

apply_task_journal ==
    /\ Ready("tick", {"idle", "rotated"})
    /\ Locked("tick", apply_journal(disk))
    /\ act' = [act EXCEPT !["tick"].pc = "applied"]
    /\ UNCHANGED <<reader, starting, world>>

(* The state file is read without the lock, the active file (when due)     *)
(* under the shared lock.                                                  *)
read_state_tick ==
    /\ Ready("tick", {"idle", "rotated", "applied"})
    /\ \E active \in BOOLEAN :
          /\ active => holder = {}
          /\ act' = [act EXCEPT !["tick"] =
                        [Idle EXCEPT !.pc = "poll", !.cutoff = disk.cutoff, !.conf = conf,
                                     !.polled = disk.tracked \cup (IF active THEN disk.active ELSE {})]]
    /\ UNCHANGED <<Cache, reader, starting, world>>

(* lost: RemoteGone and RequestError                                       *)
poll_tracked_tasks ==
    LET a == act["tick"]
        gone == {t \in a.polled : TaskRemote(t) \notin a.conf}
    IN  /\ Ready("tick", {"poll"})
        /\ \E err \in SUBSET {t \in a.polled \ gone : TaskRemote(t) \in Flaky} :
              act' = [act EXCEPT
                         !["tick"].pc = "fetch",
                         !["tick"].lost = gone \cup err,
                         !["tick"].finished = {t \in a.polled \ (gone \cup err) : run[t] = "done"}]
        /\ UNCHANGED <<Cache, reader, starting, world>>

-----------------------------------------------------------------------------
(* Fetching and updating, for the timer task and a manual refresh          *)

(* A refresh of some remotes reads the state file and fetches.  There is   *)
(* nothing to refresh before the daemon's first start is through.          *)
refresh_taskcache(m) ==
    /\ Ready(m, {"idle"}) /\ act["tick"].pc # "boot"
    /\ act' = [act EXCEPT ![m] = [Idle EXCEPT !.pc = "fetch", !.cutoff = disk.cutoff, !.conf = conf]]
    /\ UNCHANGED <<Cache, reader, starting, world>>

SinceExclusive(c) == IF c = NoCutoff THEN now - MaxFiles * RotateAfter ELSE c + 1

(* What a fetch asks a node for                                            *)
Since(c) == IF c = NoCutoff THEN now - MaxFiles * RotateAfter ELSE c

(* Each node answers with its tasks from the cutoff on, or not at all.     *)
fetch_remotes(a, rs) ==
    LET c == act[a]
        nodes == {n \in Nodes : RemoteOf[n] \in rs \cap c.conf}
    IN  /\ Ready(a, {"fetch"})
        /\ \E ok \in SUBSET nodes :
              /\ \A n \in nodes \ ok : RemoteOf[n] \in Flaky
              /\ LET got == {t \in Tasks : /\ NodeOf[t] \in ok /\ run[t] # "none"
                                           /\ Start[t] >= Since(c.cutoff[NodeOf[t]])}
                 IN  act' = [act EXCEPT ![a] =
                                IF got = {} /\ c.lost = {} THEN Idle
                                ELSE [c EXCEPT !.pc = "commit", !.ok = ok,
                                               !.run = {t \in got : run[t] = "running"},
                                               !.fin = {t \in got : run[t] = "done"}]]
        /\ UNCHANGED <<Cache, reader, starting, world>>

fetch_all == fetch_remotes("tick", Remotes)

fetch_finished == fetch_remotes("tick", {TaskRemote(t) : t \in act["tick"].finished})

fetch_manual(m) == \E rs \in SUBSET Remotes : fetch_remotes(m, rs)

update_task_cache(a) ==
    LET c == act[a]
    IN  /\ Ready(a, {"commit"})
        /\ \E first \in IF c.fin = {} THEN {0} ELSE c.fin, early \in BOOLEAN :
              Locked(a, update(disk, c.run, c.fin, c.ok, c.finished \cup c.lost, first, early))
        /\ act' = [act EXCEPT ![a] = Idle]
        /\ UNCHANGED <<reader, starting, world>>

(* The lock is not obtained within its timeout: the call fails.            *)
lock_timeout(a) ==
    /\ Ready(a, {"commit", "rotated", "idle"})
    /\ act[a].pc = "idle" => a = "tick"
    /\ holder # {}
    /\ act' = [act EXCEPT ![a] = Idle]
    /\ UNCHANGED <<Cache, reader, starting, world>>

-----------------------------------------------------------------------------
(* The other callers                                                       *)

track_running_task(t) ==
    /\ t \in starting
    /\ Locked("track", add_tracked_task(disk, t))
    /\ starting' = starting \ {t}
    /\ UNCHANGED <<act, reader, world>>

(* A listing reads every file under the shared lock ...                    *)
get_tasks ==
    /\ reader = {} /\ holder = {}
    /\ reader' = {s \in Starts(disk) : disk.files[archive_file(disk, s)].bad}
    /\ UNCHANGED <<Cache, act, starting, world>>

(* ... and asks for the repair of what it could not read under the lock.   *)
repair_after_read ==
    /\ reader # {}
    /\ Locked("reader", request_repair(disk, reader))
    /\ reader' = {}
    /\ UNCHANGED <<act, starting, world>>

-----------------------------------------------------------------------------
(* The nodes, the clock, the operator, damage and crashes                  *)

start_task(t) ==
    /\ run[t] = "none" /\ Start[t] = now
    /\ run' = [run EXCEPT ![t] = "running"]
    /\ starting' = IF t \in Ours THEN starting \cup {t} ELSE starting
    /\ UNCHANGED <<Cache, act, reader, conf, now, crashes, damage>>

finish_task(t) ==
    /\ run[t] = "running"
    /\ run' = [run EXCEPT ![t] = "done"]
    /\ UNCHANGED <<Cache, act, reader, starting, conf, now, crashes, damage>>

clock ==
    /\ now < MaxTime
    /\ now' = now + 1
    /\ UNCHANGED <<Cache, act, reader, starting, run, conf, crashes, damage>>

remove_remote(r) ==
    /\ r \in conf \cap Flaky
    /\ conf' = conf \ {r}
    /\ UNCHANGED <<Cache, act, reader, starting, run, now, crashes, damage>>

damage_file(f) ==
    /\ damage < MaxDamage /\ holder = {}
    /\ \E left \in SUBSET disk.files[f].tasks :
          disk' = SetFile(disk, f, [tasks |-> left, bad |-> TRUE])
    /\ damage' = damage + 1
    /\ UNCHANGED <<todo, holder, act, reader, starting, run, conf, now, crashes>>

(* A crash drops the writes still to do.  In the middle of an append some  *)
(* of the lines are there, the last of them perhaps only half.             *)
crash ==
    LET appended == IF todo = <<>> THEN {} ELSE Head(todo).journal \ disk.journal
    IN  /\ crashes < MaxCrashes
        /\ crashes' = crashes + 1
        /\ \E part \in SUBSET appended, torn \in TornLines :
              disk' = [disk EXCEPT !.journal = @ \cup part,
                                   !.torn = IF appended = {} THEN @ ELSE torn /\ part # appended]
        /\ todo' = <<>> /\ holder' = {} /\ reader' = {} /\ starting' = {}
        /\ act' = [a \in Actors |-> IF a = "tick" THEN [Idle EXCEPT !.pc = "boot"] ELSE Idle]
        /\ UNCHANGED <<run, conf, now, damage>>

-----------------------------------------------------------------------------
Init ==
    /\ disk = EmptyDisk /\ todo = <<>> /\ holder = {}
    /\ act = [a \in Actors |-> IF a = "tick" THEN [Idle EXCEPT !.pc = "boot"] ELSE Idle]
    /\ reader = {} /\ starting = {}
    /\ run \in {f \in [Tasks -> {"none", "running", "done"}] :
                   \A t \in Tasks : f[t] = "none" <=> Start[t] >= Boot}
    /\ conf = Remotes
    /\ now = Boot /\ crashes = 0 /\ damage = 0

Tick ==
    \/ init_cache \/ rotate_cache \/ apply_task_journal \/ read_state_tick
    \/ poll_tracked_tasks \/ fetch_all \/ fetch_finished \/ update_task_cache("tick")

Refresh(m) == refresh_taskcache(m) \/ fetch_manual(m) \/ update_task_cache(m)

Surroundings ==
    \/ \E t \in Tasks : start_task(t) \/ finish_task(t)
    \/ clock \/ crash
    \/ \E r \in Remotes : remove_remote(r)
    \/ \E f \in DOMAIN disk.files : damage_file(f)

Next ==
    \/ write_step \/ Tick
    \/ \E m \in Manual : Refresh(m)
    \/ \E a \in Actors : lock_timeout(a)
    \/ \E t \in Tasks : track_running_task(t)
    \/ get_tasks \/ repair_after_read
    \/ Surroundings

Spec == Init /\ [][Next]_vars

(* The operation that holds the lock runs on.  The timer task ticks        *)
(* forever, and its timers make each of its optional parts due again.      *)
Fairness ==
    /\ WF_vars(write_step)
    /\ SF_vars(init_cache) /\ SF_vars(read_state_tick /\ act'["tick"].polled = disk.tracked \cup disk.active)
    /\ WF_vars(poll_tracked_tasks) /\ SF_vars(fetch_all) /\ SF_vars(update_task_cache("tick"))

FairSpec == Spec /\ Fairness

-----------------------------------------------------------------------------
(* Properties                                                              *)

(* The cache, the actors and the surroundings have the shapes the code     *)
(* gives them, and the lock is held exactly while writes are to be done.   *)
TypeOK ==
    /\ disk.files \in [DOMAIN disk.files -> FileData]
    /\ \A f \in DOMAIN disk.files : f.start \in 0..MaxTime /\ f.zst \in BOOLEAN
    /\ disk.journal \subseteq Tasks /\ disk.active \subseteq Tasks /\ disk.tracked \subseteq Tasks
    /\ disk.cutoff \in [Nodes -> -1..MaxTime]
    /\ holder \subseteq DOMAIN act \cup {"track", "reader"} /\ (holder = {} <=> todo = <<>>)
    /\ \A a \in DOMAIN act : act[a].pc \in {"boot", "idle", "rotated", "applied", "poll", "fetch", "commit"}
    /\ reader \subseteq 0..MaxTime /\ starting \subseteq Ours /\ conf \subseteq Remotes

(* A task is kept while its period has a file and it is in the window a    *)
(* first fetch asks for.                                                   *)
Kept(t) ==
    /\ run[t] # "none"
    /\ Start[t] >= now - MaxFiles * RotateAfter
    /\ \E s \in Starts(disk) : s <= Start[t]

Missed(t) == Kept(t) /\ Start[t] < disk.cutoff[NodeOf[t]] /\ t \notin Recorded(disk)

(* The next fetch of a node never starts after a task the cache does not   *)
(* have: cutoffs only pass tasks that are on disk, whichever of the timer  *)
(* task and manual refreshes fetched them, in whatever order they update,  *)
(* and wherever a crash falls, as long as no file is damaged               *)
(* (task_cache.rs:403-412, 511-513).                                       *)
NoGap == damage = 0 => \A t \in Tasks : ~Missed(t)

(* What the cache has recorded it keeps while the task is due to be kept:  *)
(* applying the journal, rotating, compressing and removing duplicates     *)
(* lose nothing, at any crash point, nor do they lose what can still be    *)
(* read of a damaged file (task_cache.rs:568-616, 800-888).                *)
RecordedIsKept ==
    [][damage' = damage =>
          \A t \in Tasks : t \in Recorded(disk) /\ Kept(t)' => t \in Recorded(disk')]_vars

Reliable == {t \in Tasks : TaskRemote(t) \notin Flaky}

AllDropped == damage = 0 => \A t \in Reliable : run[t] = "done" => t \notin disk.active

(* Finished tasks are in time dropped from the active file (the comment on *)
(* last_active_poll, refresh_task.rs:62-63), restarts included, as long as *)
(* no file is damaged.                                                     *)
ActiveNeverStuck == []<>AllDropped

AllRecorded ==
    damage = 0 => \A t \in Reliable : run[t] = "done" /\ Kept(t) => t \in Recorded(disk)

(* Every task of a remote that answers is recorded in time, tracked or     *)
(* not, unless it is too old to be kept or a file is damaged.              *)
FinishedIsRecorded == []<>AllRecorded
=============================================================================
