-------------------------- MODULE NamespacedCache --------------------------
(***************************************************************************)
(* One namespace of the cache as namespaced_cache.rs builds it: a lock file *)
(* taken shared or exclusive with a timeout, one file per key, operations   *)
(* that read, decide and replace in separate steps on a thread of the      *)
(* blocking pool while the caller awaits them, and callers that are         *)
(* cancelled or die in between.                                            *)
(***************************************************************************)
EXTENDS Integers

CONSTANTS Users, Keys, Values, Times, MaxAges, NoAge, Nothing, Garbage, Err

VARIABLES
    now, entry, answer,  \* as in CacheStore; entry[k] is the file of the key
    lock,                \* lock[u]: "none", "shared" or "exclusive"
    task                 \* task[u]: the operation the user is in, see Task

vars == <<now, entry, answer, lock, task>>

\* The promise, with the same clock, files and answers.
Store == INSTANCE CacheStore

Ops == Store!Ops

Files == [timestamp : Times, value : Values] \cup {Nothing, Garbage}

\* pc: where the operation stands.  stamp: the time stamp of what it will write.
\* found: the file it has read.  gone: its caller was cancelled.
Task ==
    [pc : {"idle"}]
    \cup [pc : {"wait", "locked", "read", "write"}, op : Ops,
          stamp : Times, found : Files, gone : BOOLEAN]
    \cup [pc : {"done"}, gone : BOOLEAN]

Idle == [pc |-> "idle"]

Writes(op) == op.kind # "get"

\* The files, the locks and the operations have the shapes the code gives them.
TypeOK ==
    /\ now \in Times
    /\ entry \in [Keys -> Files]
    /\ answer \in {Nothing} \cup (Ops \X (Values \cup {Nothing, Err}))
    /\ lock \in [Users -> {"none", "shared", "exclusive"}]
    /\ task \in [Users -> Task]

Init ==
    /\ Store!StoreInit
    /\ lock = [u \in Users |-> "none"]
    /\ task = [u \in Users |-> Idle]

-----------------------------------------------------------------------------
Goto(u, pc) == task' = [task EXCEPT ![u].pc = pc]

\* The operation returns to its caller, if that still waits.
Return(u, a) ==
    /\ task' = [task EXCEPT ![u] = [pc |-> "done", gone |-> task[u].gone]]
    /\ answer' = IF task[u].gone THEN answer ELSE <<task[u].op, a>>

\* read, write and their blocking forms: open_file_locked is called, with a time
\* stamp of the caller's or of a later moment (see Stamp).
Call(u) ==
    /\ task[u] = Idle
    /\ \E op \in Ops :
          task' = [task EXCEPT ![u] = [pc |-> "wait", op |-> op, stamp |-> now,
                                       found |-> Nothing, gone |-> FALSE]]
    /\ UNCHANGED <<now, entry, answer, lock>>

\* flock: exclusive excludes every other holder, shared excludes the exclusive one.
Compatible(u, mode) ==
    \A other \in Users \ {u} :
        \/ lock[other] = "none"
        \/ mode = "shared" /\ lock[other] = "shared"

ModeOf(op) == IF Writes(op) THEN "exclusive" ELSE "shared"

Lock(u) ==
    /\ task[u].pc = "wait"
    /\ Compatible(u, ModeOf(task[u].op))
    /\ lock' = [lock EXCEPT ![u] = ModeOf(task[u].op)]
    /\ Goto(u, "locked")
    /\ UNCHANGED <<now, entry, answer>>

\* Mutant: a lock that is not had in time looks like a missing entry.
LockTimeoutIsMiss(u) ==
    /\ task[u].pc = "wait"
    /\ Return(u, Nothing)
    /\ UNCHANGED <<now, entry, lock>>

LockTimeout(u) ==
    /\ task[u].pc = "wait"
    /\ Return(u, Err)
    /\ UNCHANGED <<now, entry, lock>>

\* set and set_if_newer without a time stamp of the caller's take the clock's.
Stamp(u) ==
    /\ task[u].pc = "locked" /\ task[u].op.kind \in {"set", "set_if_newer"}
    /\ task' = [task EXCEPT ![u].stamp = now]
    /\ UNCHANGED <<now, entry, answer, lock>>

\* get_from_path, up to the end of the read.
Read(u) ==
    /\ task[u].pc = "locked" /\ task[u].op.kind \in {"get", "set_if_newer"}
    /\ task' = [task EXCEPT ![u].pc = "read", ![u].found = entry[task[u].op.key]]
    /\ UNCHANGED <<now, entry, answer, lock>>

\* get_impl after the read: the age is judged by the clock of this moment.
GetReturns(u) ==
    /\ task[u].pc = "read" /\ task[u].op.kind = "get"
    /\ Return(u, Store!GetResult(task[u].found, now, task[u].op.maxAge))
    /\ UNCHANGED <<now, entry, lock>>

\* set_if_newer_impl after the read: give up for a newer entry, or go on to write.
Compare(u) ==
    /\ task[u].pc = "read" /\ task[u].op.kind = "set_if_newer"
    /\ IF Store!IsNewer(task[u].found, task[u].stamp)
       THEN Return(u, task[u].found.value)
       ELSE Goto(u, "write") /\ UNCHANGED answer
    /\ UNCHANGED <<now, entry, lock>>

\* set_at_path: the file is replaced by an atomic rename, or cannot be written.
Write(u) ==
    /\ \/ task[u].pc = "write"
       \/ task[u].pc = "locked" /\ task[u].op.kind = "set"
    /\ \/ /\ entry' = [entry EXCEPT ![task[u].op.key] =
                          Store!Entry(task[u].stamp, task[u].op.value)]
          /\ Return(u, Nothing)
       \/ UNCHANGED entry /\ Return(u, Err)
    /\ UNCHANGED <<now, lock>>

\* remove_impl: a missing file is no error.
Delete(u) ==
    /\ task[u].pc = "locked" /\ task[u].op.kind = "remove"
    /\ \/ /\ entry' = [entry EXCEPT ![task[u].op.key] = Nothing]
          /\ Return(u, Nothing)
       \/ UNCHANGED entry /\ Return(u, Err)
    /\ UNCHANGED <<now, lock>>

\* A caller goes on with another operation under the same guard.
Again(u) ==
    /\ task[u].pc = "done" /\ ~task[u].gone /\ lock[u] # "none"
    /\ \E op \in Ops :
          /\ Writes(op) => lock[u] = "exclusive"
          /\ task' = [task EXCEPT ![u] = [pc |-> "locked", op |-> op, stamp |-> now,
                                          found |-> Nothing, gone |-> FALSE]]
    /\ UNCHANGED <<now, entry, answer, lock>>

\* The last reference to the guard is dropped, and with it the lock.
Unlock(u) ==
    /\ task[u].pc = "done"
    /\ lock' = [lock EXCEPT ![u] = "none"]
    /\ task' = [task EXCEPT ![u] = Idle]
    /\ UNCHANGED <<now, entry, answer>>

\* The caller's future is dropped.  The closure on the blocking pool holds its own
\* reference to the guard, so the operation runs to its end under the lock.
Cancel(u) ==
    /\ task[u].pc \in {"wait", "locked", "read", "write"}
    /\ task' = [task EXCEPT ![u].gone = TRUE]
    /\ UNCHANGED <<now, entry, answer, lock>>

\* The process of the caller dies; the kernel drops its lock.
Crash(u) ==
    /\ task[u] # Idle
    /\ lock' = [lock EXCEPT ![u] = "none"]
    /\ task' = [task EXCEPT ![u] = Idle]
    /\ UNCHANGED <<now, entry, answer>>

\* The clock runs or is set.
Clock ==
    /\ now' \in Times
    /\ UNCHANGED <<entry, answer, lock, task>>

\* A file of another version of the program is there when the lock is free.
Spoil(k) ==
    /\ \A u \in Users : lock[u] = "none"
    /\ entry' = [entry EXCEPT ![k] = Garbage]
    /\ UNCHANGED <<now, answer, lock, task>>

Step(u) ==
    \/ Lock(u) \/ LockTimeout(u) \/ Stamp(u) \/ Read(u) \/ GetReturns(u)
    \/ Compare(u) \/ Write(u) \/ Delete(u) \/ Unlock(u)

Next ==
    \/ \E u \in Users : Call(u) \/ Step(u) \/ Again(u) \/ Cancel(u) \/ Crash(u)
    \/ Clock
    \/ \E k \in Keys : Spoil(k)

Spec == Init /\ [][Next]_vars

-----------------------------------------------------------------------------
(***************************************************************************)
(* Properties.                                                             *)
(***************************************************************************)

\* The lock discipline of lock_namespace_impl, with what it is for: while an
\* operation stands between its read and its write or answer, the file it read is
\* still the one on disk.
FoundIsCurrent ==
    /\ \A u, other \in Users :
          lock[u] = "exclusive" /\ other # u => lock[other] = "none"
    /\ \A u \in Users :
          /\ task[u].pc \in {"locked", "read", "write"} =>
                lock[u] = ModeOf(task[u].op) \/ lock[u] = "exclusive"
          /\ task[u].pc \in {"read", "write"} =>
                task[u].found = entry[task[u].op.key]
          /\ task[u].pc = "write" =>
                /\ task[u].op.kind = "set_if_newer"
                /\ ~Store!IsNewer(task[u].found, task[u].stamp)

\* The cache with its lock files, its two-step operations, cancelled callers and
\* crashes implements the atomic store: whatever the interleaving, every get,
\* set_if_newer, set and remove takes effect at one instant, and is answered with
\* what it did or found then.
ImplementsStore == Store!StoreSpec

=============================================================================
