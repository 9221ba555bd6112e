---------------------------- MODULE StoresProofs ----------------------------
(***************************************************************************)
(* What is kept and what is answered from it, for every set of users, keys *)
(* and resources: the cache implements the atomic store (NamespacedCache), *)
(* the short cuts of get_resources_impl lose no resource while its filters *)
(* let none pass that a required term rejects (ResourceQuery), and calls,  *)
(* edits and crashes never give one counter value twice nor lose a legacy  *)
(* installation (AutoInstaller).                                           *)
(***************************************************************************)
EXTENDS NamespacedCache, ResourceQuery, AutoInstaller, TLAPS

Busy ==
    [pc : {"wait", "locked", "read", "write"}, op : Ops,
     stamp : Times, found : Files, gone : BOOLEAN]

\* A task that is neither idle nor done carries an operation, its stamp and its file.
LEMMA BusyTask ==
    ASSUME TypeOK, NEW u \in Users, task[u].pc \in {"wait", "locked", "read", "write"}
    PROVE  task[u] \in Busy
<1>1. task[u] \in Task BY DEF TypeOK
<1>2. CASE task[u] \in [pc : {"idle"}] BY <1>2
<1>3. CASE task[u] \in [pc : {"done"}, gone : BOOLEAN] BY <1>3
<1>4. CASE task[u] \in Busy BY <1>4
<1> QED BY <1>1, <1>2, <1>3, <1>4 DEF Task, Busy

\* An operation that sets carries a value of Values.
LEMMA SetValue ==
    ASSUME NEW op \in Ops, op.kind \in {"set", "set_if_newer"}
    PROVE  /\ op.value \in Values /\ op.key \in Keys
           /\ op = Store!SetOp(op.kind, op.key, op.value)
<1>1. op \notin [kind : {"get"}, key : Keys, maxAge : MaxAges] OBVIOUS
<1>2. op \notin [kind : {"remove"}, key : Keys] OBVIOUS
<1>3. op \in [kind : {"set", "set_if_newer"}, key : Keys, value : Values]
  BY <1>1, <1>2 DEF Ops, Store!Ops
<1> QED BY <1>3 DEF Store!SetOp

\* A get carries one of the ages that callers ask for.
LEMMA GetAge ==
    ASSUME NEW op \in Ops, op.kind = "get"
    PROVE  /\ op.maxAge \in MaxAges /\ op.key \in Keys
           /\ op = Store!GetOp(op.key, op.maxAge)
<1>1. op \notin [kind : {"set", "set_if_newer"}, key : Keys, value : Values] OBVIOUS
<1>2. op \notin [kind : {"remove"}, key : Keys] OBVIOUS
<1>3. op \in [kind : {"get"}, key : Keys, maxAge : MaxAges]
  BY <1>1, <1>2 DEF Ops, Store!Ops
<1> QED BY <1>3 DEF Store!GetOp

\* A remove carries its key only.
LEMMA RemoveKey ==
    ASSUME NEW op \in Ops, op.kind = "remove"
    PROVE  op.key \in Keys /\ op = Store!RemoveOp(op.key)
<1>1. op \notin [kind : {"set", "set_if_newer"}, key : Keys, value : Values] OBVIOUS
<1>2. op \notin [kind : {"get"}, key : Keys, maxAge : MaxAges] OBVIOUS
<1>3. op \in [kind : {"remove"}, key : Keys]
  BY <1>1, <1>2 DEF Ops, Store!Ops
<1> QED BY <1>3 DEF Store!RemoveOp

\* Every operation names a key of the namespace.
LEMMA OpKey == \A op \in Ops : op.key \in Keys
  BY DEF Ops, Store!Ops

\* What get_impl returns of a file is a value, nothing or an error.
LEMMA GetResultType ==
    ASSUME NEW e \in Files, NEW at, NEW age
    PROVE  Store!GetResult(e, at, age) \in Values \cup {Nothing, Err}
  BY DEF Files, Store!GetResult, Store!IsExpired

\* A file that set_if_newer yields to holds a value.
LEMMA NewerHasValue ==
    ASSUME NEW e \in Files, NEW ts, Store!IsNewer(e, ts)
    PROVE  e.value \in Values
  BY DEF Files, Store!IsNewer, Store!IsEntry

-----------------------------------------------------------------------------
\* Returning to the caller keeps the types of the task and of the answers.
LEMMA ReturnType ==
    ASSUME TypeOK, NEW u \in Users, NEW a \in Values \cup {Nothing, Err},
           task[u] \in Busy, Return(u, a)
    PROVE  /\ task' \in [Users -> Task]
           /\ answer' \in {Nothing} \cup (Ops \X (Values \cup {Nothing, Err}))
<1>1. task[u].gone \in BOOLEAN BY DEF Busy
<1>2. [pc |-> "done", gone |-> task[u].gone] \in Task BY <1>1 DEF Task
<1>3. task' \in [Users -> Task] BY <1>2 DEF Return, TypeOK
<1>4. task[u].op \in Ops BY DEF Busy
<1>5. answer' \in {Nothing} \cup (Ops \X (Values \cup {Nothing, Err}))
  BY <1>4 DEF Return, TypeOK
<1> QED BY <1>3, <1>5

\* Moving on to another point of the same operation keeps the type of the tasks.
LEMMA GotoType ==
    ASSUME TypeOK, NEW u \in Users, task[u] \in Busy,
           NEW pc \in {"wait", "locked", "read", "write"}, Goto(u, pc)
    PROVE  task' \in [Users -> Task]
<1>1. [task[u] EXCEPT !.pc = pc] \in Busy BY DEF Busy
<1>2. [task[u] EXCEPT !.pc = pc] \in Task BY <1>1 DEF Busy, Task
<1>3. task' = [task EXCEPT ![u] = [task[u] EXCEPT !.pc = pc]] BY ZenonT(60) DEF Goto, TypeOK
<1> QED BY <1>2, <1>3 DEF TypeOK

\* No step of the clock, a user or the file system leaves the types of the state.
LEMMA TypeStep == TypeOK /\ FoundIsCurrent /\ [Next]_vars => TypeOK'
<1> SUFFICES ASSUME TypeOK, FoundIsCurrent, [Next]_vars PROVE TypeOK'
  OBVIOUS
<1> USE DEF TypeOK
<1>a. ASSUME NEW op \in Ops, NEW pc \in {"wait", "locked"}
      PROVE  [pc |-> pc, op |-> op, stamp |-> now, found |-> Nothing, gone |-> FALSE] \in Task
  BY DEF Task, Files
<1>1. ASSUME NEW u \in Users, Call(u) PROVE TypeOK'
  BY <1>1, <1>a, ZenonT(60) DEF Call
<1>2. ASSUME NEW u \in Users, Lock(u) PROVE TypeOK'
  <2>1. task[u] \in Busy BY <1>2, BusyTask DEF Lock
  <2>2. task' \in [Users -> Task] BY <1>2, <2>1, GotoType DEF Lock
  <2> QED BY <1>2, <2>2, Zenon DEF Lock, ModeOf
<1>3. ASSUME NEW u \in Users, LockTimeout(u) PROVE TypeOK'
  <2>1. task[u] \in Busy BY <1>3, BusyTask DEF LockTimeout
  <2> QED BY <1>3, <2>1, ReturnType DEF LockTimeout
<1>4. ASSUME NEW u \in Users, Stamp(u) PROVE TypeOK'
  <2>1. task[u] \in Busy BY <1>4, BusyTask DEF Stamp
  <2>2. [task[u] EXCEPT !.stamp = now] \in Task BY <2>1 DEF Busy, Task
  <2>3. task' = [task EXCEPT ![u] = [task[u] EXCEPT !.stamp = now]] BY <1>4 DEF Stamp
  <2> QED BY <1>4, <2>2, <2>3 DEF Stamp
<1>5. ASSUME NEW u \in Users, Read(u) PROVE TypeOK'
  <2>1. task[u] \in Busy BY <1>5, BusyTask DEF Read
  <2>2. entry[task[u].op.key] \in Files BY <2>1, OpKey DEF Busy
  <2>3. [task[u] EXCEPT !.pc = "read", !.found = entry[task[u].op.key]] \in Task
    BY <2>1, <2>2, Zenon DEF Busy, Task
  <2>4. task' = [task EXCEPT ![u] =
                   [task[u] EXCEPT !.pc = "read", !.found = entry[task[u].op.key]]]
    BY <1>5, Zenon DEF Read
  <2> QED BY <1>5, <2>3, <2>4 DEF Read
<1>6. ASSUME NEW u \in Users, GetReturns(u) PROVE TypeOK'
  <2>1. task[u] \in Busy BY <1>6, BusyTask DEF GetReturns
  <2>2. task[u].found \in Files BY <2>1 DEF Busy
  <2>3. Store!GetResult(task[u].found, now, task[u].op.maxAge) \in Values \cup {Nothing, Err}
    BY <2>2, GetResultType
  <2> QED BY <1>6, <2>1, <2>3, ReturnType DEF GetReturns
<1>7. ASSUME NEW u \in Users, Compare(u) PROVE TypeOK'
  <2>1. task[u] \in Busy BY <1>7, BusyTask DEF Compare
  <2>2. task[u].found \in Files BY <2>1 DEF Busy
  <2>3. CASE Store!IsNewer(task[u].found, task[u].stamp)
    <3>1. task[u].found.value \in Values BY <2>2, <2>3, NewerHasValue
    <3>2. Return(u, task[u].found.value) BY <1>7, <2>3 DEF Compare
    <3> QED BY <1>7, <2>1, <3>1, <3>2, ReturnType DEF Compare
  <2>4. CASE ~Store!IsNewer(task[u].found, task[u].stamp)
    BY <1>7, <2>1, <2>4, GotoType, Zenon DEF Compare
  <2> QED BY <2>3, <2>4
<1>8. ASSUME NEW u \in Users, Write(u) PROVE TypeOK'
  <2>1. task[u] \in Busy BY <1>8, BusyTask, Zenon DEF Write
  <2>2. task[u].op.kind \in {"set", "set_if_newer"} BY <1>8 DEF Write, FoundIsCurrent
  <2>3. task[u].op \in Ops /\ task[u].stamp \in Times BY <2>1 DEF Busy
  <2>4. task[u].op.value \in Values /\ task[u].op.key \in Keys BY <2>2, <2>3, SetValue
  <2>5. Store!Entry(task[u].stamp, task[u].op.value) \in Files
    BY <2>3, <2>4 DEF Store!Entry, Files
  <2>6. entry' \in [Keys -> Files] BY <1>8, <2>4, <2>5 DEF Write
  <2>7. \E a \in {Nothing, Err} : Return(u, a) BY <1>8 DEF Write
  <2> QED BY <1>8, <2>1, <2>6, <2>7, ReturnType DEF Write
<1>9. ASSUME NEW u \in Users, Delete(u) PROVE TypeOK'
  <2>1. task[u] \in Busy BY <1>9, BusyTask DEF Delete
  <2>2. entry' \in [Keys -> Files] BY <1>9 DEF Delete, Files
  <2>3. \E a \in {Nothing, Err} : Return(u, a) BY <1>9 DEF Delete
  <2> QED BY <1>9, <2>1, <2>2, <2>3, ReturnType DEF Delete
<1>10. ASSUME NEW u \in Users, Again(u) PROVE TypeOK'
  BY <1>10, <1>a, Zenon DEF Again
<1>11. ASSUME NEW u \in Users, Unlock(u) \/ Crash(u) PROVE TypeOK'
  <2>1. Idle \in Task BY DEF Idle, Task
  <2> QED BY <1>11, <2>1 DEF Unlock, Crash
<1>12. ASSUME NEW u \in Users, Cancel(u) PROVE TypeOK'
  <2>1. task[u] \in Busy BY <1>12, BusyTask DEF Cancel
  <2>2. [task[u] EXCEPT !.gone = TRUE] \in Task BY <2>1, Zenon DEF Busy, Task
  <2>3. task' = [task EXCEPT ![u] = [task[u] EXCEPT !.gone = TRUE]] BY <1>12 DEF Cancel
  <2> QED BY <1>12, <2>2, <2>3 DEF Cancel
<1>13. ASSUME Clock PROVE TypeOK'
  BY <1>13 DEF Clock
<1>14. ASSUME NEW k \in Keys, Spoil(k) PROVE TypeOK'
  BY <1>14 DEF Spoil, Files
<1>15. ASSUME UNCHANGED vars PROVE TypeOK'
  BY <1>15, Zenon DEF vars
<1> QED
  BY <1>1, <1>2, <1>3, <1>4, <1>5, <1>6, <1>7, <1>8, <1>9, <1>10, <1>11, <1>12,
     <1>13, <1>14, <1>15 DEF Next, Step

-----------------------------------------------------------------------------
\* A step of u that leaves the files, the locks of the others and their tasks alone
\* keeps the invariant of the others.
LEMMA OtherTasks ==
    ASSUME TypeOK, FoundIsCurrent, NEW u \in Users, NEW other \in Users \ {u},
           task'[other] = task[other], lock'[other] = lock[other],
           entry' = entry \/ lock[u] = "exclusive"
    PROVE  /\ task'[other].pc \in {"locked", "read", "write"} =>
                lock'[other] = ModeOf(task'[other].op) \/ lock'[other] = "exclusive"
           /\ task'[other].pc \in {"read", "write"} =>
                task'[other].found = entry'[task'[other].op.key]
           /\ task'[other].pc = "write" =>
                /\ task'[other].op.kind = "set_if_newer"
                /\ ~Store!IsNewer(task'[other].found, task'[other].stamp)
<1>1. CASE entry' = entry BY <1>1, ZenonT(60) DEF FoundIsCurrent
<1>2. CASE lock[u] = "exclusive"
  <2>1. lock[other] = "none" BY <1>2 DEF FoundIsCurrent
  <2>2. task[other].pc \notin {"locked", "read", "write"}
    BY <2>1, Zenon DEF FoundIsCurrent, ModeOf
  <2> QED BY <2>2
<1> QED BY <1>1, <1>2, Zenon

\* FoundIsCurrent is inductive: whoever may write holds the lock alone.
LEMMA FoundStep == TypeOK /\ FoundIsCurrent /\ [Next]_vars => FoundIsCurrent'
<1> SUFFICES ASSUME TypeOK, FoundIsCurrent, [Next]_vars PROVE FoundIsCurrent'
  BY Zenon
<1>a. ASSUME NEW u \in Users,
             \A other \in Users \ {u} : task'[other] = task[other],
             \A other \in Users \ {u} : lock'[other] = lock[other],
             entry' = entry \/ lock[u] = "exclusive",
             lock'[u] \in {"none", lock[u]} \/ Compatible(u, lock'[u]),
             task'[u].pc \in {"locked", "read", "write"} =>
                lock'[u] = ModeOf(task'[u].op) \/ lock'[u] = "exclusive",
             task'[u].pc \in {"read", "write"} =>
                task'[u].found = entry'[task'[u].op.key],
             task'[u].pc = "write" =>
                /\ task'[u].op.kind = "set_if_newer"
                /\ ~Store!IsNewer(task'[u].found, task'[u].stamp)
      PROVE  FoundIsCurrent'
  <2>1. ASSUME NEW v \in Users, NEW other \in Users, lock'[v] = "exclusive", other # v
        PROVE  lock'[other] = "none"
    BY <1>a, <2>1 DEF FoundIsCurrent, Compatible
  <2>2. ASSUME NEW v \in Users
        PROVE  /\ task'[v].pc \in {"locked", "read", "write"} =>
                    lock'[v] = ModeOf(task'[v].op) \/ lock'[v] = "exclusive"
               /\ task'[v].pc \in {"read", "write"} =>
                    task'[v].found = entry'[task'[v].op.key]
               /\ task'[v].pc = "write" =>
                    /\ task'[v].op.kind = "set_if_newer"
                    /\ ~Store!IsNewer(task'[v].found, task'[v].stamp)
    <3>1. CASE v = u BY <1>a, <3>1, Zenon
    <3>2. CASE v # u
      <4>1. task'[v] = task[v] /\ lock'[v] = lock[v] BY <1>a, <3>2
      <4>2. v \in Users \ {u} BY <3>2, Zenon
      <4> QED BY <1>a, <4>1, <4>2, OtherTasks, ZenonT(60)
    <3> QED BY <3>1, <3>2, Zenon
  <2> QED BY <2>1, <2>2 DEF FoundIsCurrent
<1>1. ASSUME NEW u \in Users, Call(u) PROVE FoundIsCurrent'
  <2>1. PICK op \in Ops :
           task' = [task EXCEPT ![u] = [pc |-> "wait", op |-> op, stamp |-> now,
                                        found |-> Nothing, gone |-> FALSE]]
    BY <1>1, Zenon DEF Call
  <2>2. task'[u].pc = "wait" BY <2>1, Zenon DEF TypeOK
  <2> QED BY <1>1, <1>a, <2>1, <2>2 DEF Call, TypeOK
<1>2. ASSUME NEW u \in Users, Lock(u) PROVE FoundIsCurrent'
  <2>1. task[u] \in Busy BY <1>2, BusyTask DEF Lock
  <2>2. task'[u].pc = "locked" /\ task'[u].op = task[u].op
    BY <1>2, <2>1 DEF Lock, Goto, TypeOK, Busy
  <2>3. lock'[u] = ModeOf(task[u].op) BY <1>2, Zenon DEF Lock, TypeOK
  <2> QED BY <1>2, <1>a, <2>2, <2>3, ZenonT(60) DEF Lock, Goto, TypeOK
<1>3. ASSUME NEW u \in Users, LockTimeout(u) PROVE FoundIsCurrent'
  <2>1. task'[u].pc = "done" BY <1>3, Zenon DEF LockTimeout, Return, TypeOK
  <2> QED BY <1>3, <1>a, <2>1 DEF LockTimeout, Return, TypeOK
<1>4. ASSUME NEW u \in Users, Stamp(u) PROVE FoundIsCurrent'
  <2>1. task[u] \in Busy BY <1>4, BusyTask DEF Stamp
  <2>2. task'[u].pc = "locked" /\ task'[u].op = task[u].op
    BY <1>4, <2>1 DEF Stamp, TypeOK, Busy
  <2>3. lock[u] = ModeOf(task[u].op) \/ lock[u] = "exclusive"
    BY <1>4, Zenon DEF Stamp, FoundIsCurrent
  <2> QED BY <1>4, <1>a, <2>2, <2>3 DEF Stamp, TypeOK
<1>5. ASSUME NEW u \in Users, Read(u) PROVE FoundIsCurrent'
  <2>1. task[u] \in Busy BY <1>5, BusyTask DEF Read
  <2>2. /\ task'[u].pc = "read" /\ task'[u].op = task[u].op
        /\ task'[u].found = entry[task[u].op.key]
    BY <1>5, <2>1 DEF Read, TypeOK, Busy
  <2>3. lock[u] = ModeOf(task[u].op) \/ lock[u] = "exclusive"
    BY <1>5, Zenon DEF Read, FoundIsCurrent
  <2> QED BY <1>5, <1>a, <2>2, <2>3 DEF Read, TypeOK
<1>6. ASSUME NEW u \in Users, GetReturns(u) PROVE FoundIsCurrent'
  <2>1. task'[u].pc = "done" BY <1>6 DEF GetReturns, Return, TypeOK
  <2> QED BY <1>6, <1>a, <2>1 DEF GetReturns, Return, TypeOK
<1>7. ASSUME NEW u \in Users, Compare(u) PROVE FoundIsCurrent'
  <2>1. task[u] \in Busy BY <1>7, BusyTask, Zenon DEF Compare
  <2>2. CASE Store!IsNewer(task[u].found, task[u].stamp)
    <3>1. task'[u].pc = "done" BY <1>7, <2>2 DEF Compare, Return, TypeOK
    <3> QED BY <1>7, <1>a, <2>2, <3>1, Zenon DEF Compare, Return, TypeOK
  <2>3. CASE ~Store!IsNewer(task[u].found, task[u].stamp)
    <3>1. /\ task'[u].pc = "write" /\ task'[u].op = task[u].op
          /\ task'[u].found = task[u].found /\ task'[u].stamp = task[u].stamp
      BY <1>7, <2>1, <2>3 DEF Compare, Goto, TypeOK, Busy
    <3>2. lock[u] = ModeOf(task[u].op) \/ lock[u] = "exclusive"
      BY <1>7, ZenonT(60) DEF Compare, FoundIsCurrent
    <3>3. task[u].found = entry[task[u].op.key] BY <1>7 DEF Compare, FoundIsCurrent
    <3>4. task[u].op.kind = "set_if_newer" BY <1>7, Zenon DEF Compare
    <3> QED BY <1>7, <1>a, <2>3, <3>1, <3>2, <3>3, <3>4 DEF Compare, Goto, TypeOK
  <2> QED BY <2>2, <2>3
<1>8. ASSUME NEW u \in Users, Write(u) PROVE FoundIsCurrent'
  <2>1. task'[u].pc = "done" BY <1>8 DEF Write, Return, TypeOK
  <2>2. lock[u] = "exclusive"
    <3>1. task[u].op.kind \in {"set", "set_if_newer"} BY <1>8 DEF Write, FoundIsCurrent
    <3>2. ModeOf(task[u].op) = "exclusive" BY <3>1, Zenon DEF ModeOf, Writes
    <3> QED BY <1>8, <3>2, ZenonT(60) DEF Write, FoundIsCurrent
  <2> QED BY <1>8, <1>a, <2>1, <2>2, Zenon DEF Write, Return, TypeOK
<1>9. ASSUME NEW u \in Users, Delete(u) PROVE FoundIsCurrent'
  <2>1. task'[u].pc = "done" BY <1>9 DEF Delete, Return, TypeOK
  <2>2. lock[u] = "exclusive"
    <3>1. ModeOf(task[u].op) = "exclusive" BY <1>9, Zenon DEF Delete, ModeOf, Writes
    <3> QED BY <1>9, <3>1 DEF Delete, FoundIsCurrent
  <2> QED BY <1>9, <1>a, <2>1, <2>2, Zenon DEF Delete, Return, TypeOK
<1>10. ASSUME NEW u \in Users, Again(u) PROVE FoundIsCurrent'
  <2>1. PICK op \in Ops :
           /\ Writes(op) => lock[u] = "exclusive"
           /\ task' = [task EXCEPT ![u] = [pc |-> "locked", op |-> op, stamp |-> now,
                                           found |-> Nothing, gone |-> FALSE]]
    BY <1>10, Zenon DEF Again
  <2>2. task'[u].pc = "locked" /\ task'[u].op = op BY <2>1 DEF TypeOK
  <2>3. lock[u] = ModeOf(op) \/ lock[u] = "exclusive"
    BY <1>10, <2>1, Zenon DEF Again, ModeOf, TypeOK
  <2> QED BY <1>10, <1>a, <2>1, <2>2, <2>3, Zenon DEF Again, TypeOK
<1>11. ASSUME NEW u \in Users, Unlock(u) \/ Crash(u) PROVE FoundIsCurrent'
  <2>1. task'[u].pc = "idle" BY <1>11 DEF Unlock, Crash, Idle, TypeOK
  <2>2. lock'[u] = "none" BY <1>11, ZenonT(60) DEF Unlock, Crash, TypeOK
  <2> QED BY <1>11, <1>a, <2>1, <2>2 DEF Unlock, Crash, TypeOK
<1>12. ASSUME NEW u \in Users, Cancel(u) PROVE FoundIsCurrent'
  <2>1. task[u] \in Busy BY <1>12, BusyTask DEF Cancel
  <2>2. /\ task'[u].pc = task[u].pc /\ task'[u].op = task[u].op
        /\ task'[u].found = task[u].found /\ task'[u].stamp = task[u].stamp
    BY <1>12, <2>1, Zenon DEF Cancel, TypeOK, Busy
  <2> QED BY <1>12, <1>a, <2>2 DEF Cancel, TypeOK, FoundIsCurrent
<1>13. ASSUME Clock PROVE FoundIsCurrent'
  BY <1>13, Zenon DEF Clock, FoundIsCurrent
<1>14. ASSUME NEW k \in Keys, Spoil(k) PROVE FoundIsCurrent'
  <2>1. \A u \in Users : task[u].pc \notin {"locked", "read", "write"}
    BY <1>14, Zenon DEF Spoil, FoundIsCurrent, ModeOf
  <2> QED BY <1>14, <2>1, Zenon DEF Spoil, FoundIsCurrent
<1>15. ASSUME UNCHANGED vars PROVE FoundIsCurrent'
  BY <1>15 DEF vars, FoundIsCurrent
<1> QED
  BY <1>1, <1>2, <1>3, <1>4, <1>5, <1>6, <1>7, <1>8, <1>9, <1>10, <1>11, <1>12,
     <1>13, <1>14, <1>15 DEF Next, Step

-----------------------------------------------------------------------------
\* Whether the caller is still there or not, the store sees a reply.
LEMMA ReturnIsReply ==
    ASSUME NEW u \in Users, NEW a, Return(u, a)
    PROVE  Store!Reply(task[u].op, a)
  BY Zenon DEF Return, Store!Reply

\* Every step of the cache is an operation of the store or invisible to it.
LEMMA StepRefines ==
    ASSUME TypeOK, FoundIsCurrent, [Next]_vars
    PROVE  [Store!StoreNext]_(Store!storeVars)
<1> USE DEF Store!storeVars
<1>1. ASSUME NEW u \in Users, Call(u) \/ Lock(u) \/ Stamp(u) \/ Read(u)
      PROVE  UNCHANGED Store!storeVars
  BY <1>1 DEF Call, Lock, Stamp, Read
<1>2. ASSUME NEW u \in Users, Again(u) \/ Unlock(u) \/ Crash(u) \/ Cancel(u)
      PROVE  UNCHANGED Store!storeVars
  BY <1>2 DEF Again, Unlock, Crash, Cancel
<1>3. ASSUME NEW u \in Users, LockTimeout(u)
      PROVE  \E op \in Ops : Store!Fail(op)
  <2>1. task[u] \in Busy BY <1>3, BusyTask DEF LockTimeout
  <2>2. task[u].op \in Ops BY <2>1 DEF Busy
  <2>3. Store!Fail(task[u].op) BY <1>3, ReturnIsReply DEF LockTimeout, Store!Fail
  <2> QED BY <2>2, <2>3
<1>4. ASSUME NEW u \in Users, GetReturns(u)
      PROVE  \E k \in Keys, maxAge \in MaxAges : Store!Get(k, maxAge)
  <2>1. task[u] \in Busy BY <1>4, BusyTask, Zenon DEF GetReturns
  <2>2. task[u].op \in Ops BY <2>1 DEF Busy
  <2>3. /\ task[u].op.maxAge \in MaxAges /\ task[u].op.key \in Keys
        /\ task[u].op = Store!GetOp(task[u].op.key, task[u].op.maxAge)
    BY <1>4, <2>2, GetAge, Zenon DEF GetReturns
  <2>4. task[u].found = entry[task[u].op.key] BY <1>4, ZenonT(60) DEF GetReturns, FoundIsCurrent
  <2>5. Store!Get(task[u].op.key, task[u].op.maxAge)
    BY <1>4, <2>3, <2>4, ReturnIsReply DEF GetReturns, Store!Get
  <2> QED BY <2>3, <2>5, Zenon
<1>5. ASSUME NEW u \in Users, Compare(u)
      PROVE  \/ UNCHANGED Store!storeVars
             \/ \E k \in Keys, ts \in Times, v \in Values : Store!SetIfNewer(k, ts, v)
  <2>1. task[u] \in Busy BY <1>5, BusyTask DEF Compare
  <2>2. task[u].op \in Ops /\ task[u].stamp \in Times BY <2>1, Zenon DEF Busy
  <2>3. /\ task[u].op.value \in Values /\ task[u].op.key \in Keys
        /\ task[u].op = Store!SetOp("set_if_newer", task[u].op.key, task[u].op.value)
    BY <1>5, <2>2, SetValue, Zenon DEF Compare
  <2>4. task[u].found = entry[task[u].op.key] BY <1>5 DEF Compare, FoundIsCurrent
  <2>5. CASE Store!IsNewer(task[u].found, task[u].stamp)
    <3>1. Return(u, entry[task[u].op.key].value) BY <1>5, <2>4, <2>5, Zenon DEF Compare
    <3>2. Store!SetIfNewer(task[u].op.key, task[u].stamp, task[u].op.value)
      BY <1>5, <2>3, <2>4, <2>5, <3>1, ReturnIsReply, Zenon DEF Compare, Store!SetIfNewer
    <3> QED BY <2>2, <2>3, <3>2, Zenon
  <2>6. CASE ~Store!IsNewer(task[u].found, task[u].stamp)
    BY <1>5, <2>6, Zenon DEF Compare
  <2> QED BY <2>5, <2>6
<1>6. ASSUME NEW u \in Users, Write(u)
      PROVE  \/ \E op \in Ops : Store!Fail(op)
             \/ \E k \in Keys, ts \in Times, v \in Values :
                   Store!Set(k, ts, v) \/ Store!SetIfNewer(k, ts, v)
  <2>1. task[u] \in Busy BY <1>6, BusyTask, Zenon DEF Write
  <2>2. task[u].op \in Ops /\ task[u].stamp \in Times BY <2>1 DEF Busy
  <2>3. task[u].op.kind \in {"set", "set_if_newer"} BY <1>6 DEF Write, FoundIsCurrent
  <2>4. /\ task[u].op.value \in Values /\ task[u].op.key \in Keys
        /\ task[u].op = Store!SetOp(task[u].op.kind, task[u].op.key, task[u].op.value)
    BY <2>2, <2>3, SetValue
  <2>5. CASE UNCHANGED entry /\ Return(u, Err)
    <3>1. Store!Fail(task[u].op) BY <1>6, <2>5, ReturnIsReply, Zenon DEF Write, Store!Fail
    <3> QED BY <2>2, <3>1, Zenon
  <2>6. CASE /\ entry' = [entry EXCEPT ![task[u].op.key] =
                             Store!Entry(task[u].stamp, task[u].op.value)]
             /\ Return(u, Nothing)
    <3>1. Store!Replace(task[u].op.kind, task[u].op.key, task[u].stamp, task[u].op.value)
      BY <1>6, <2>4, <2>6, ReturnIsReply, Zenon DEF Write, Store!Replace
    <3>2. CASE task[u].op.kind = "set"
      BY <2>2, <2>4, <3>1, <3>2, Zenon DEF Store!Set
    <3>3. CASE task[u].op.kind = "set_if_newer"
      <4>1. ~Store!IsNewer(entry[task[u].op.key], task[u].stamp)
        BY <1>6, <3>3, Zenon DEF Write, FoundIsCurrent
      <4> QED BY <2>2, <2>4, <3>1, <3>3, <4>1, Zenon DEF Store!SetIfNewer
    <3> QED BY <2>3, <3>2, <3>3, Zenon
  <2> QED BY <1>6, <2>5, <2>6, Zenon DEF Write
<1>7. ASSUME NEW u \in Users, Delete(u)
      PROVE  (\E op \in Ops : Store!Fail(op)) \/ \E k \in Keys : Store!Remove(k)
  <2>1. task[u] \in Busy BY <1>7, BusyTask, Zenon DEF Delete
  <2>2. task[u].op \in Ops BY <2>1 DEF Busy
  <2>3. task[u].op.key \in Keys /\ task[u].op = Store!RemoveOp(task[u].op.key)
    BY <1>7, <2>2, RemoveKey DEF Delete
  <2>4. CASE UNCHANGED entry /\ Return(u, Err)
    <3>1. Store!Fail(task[u].op) BY <1>7, <2>4, ReturnIsReply DEF Delete, Store!Fail
    <3> QED BY <2>2, <3>1, Zenon
  <2>5. CASE entry' = [entry EXCEPT ![task[u].op.key] = Nothing] /\ Return(u, Nothing)
    <3>1. Store!Remove(task[u].op.key)
      BY <1>7, <2>3, <2>5, ReturnIsReply DEF Delete, Store!Remove
    <3> QED BY <2>3, <3>1, Zenon
  <2> QED BY <1>7, <2>4, <2>5 DEF Delete
<1>8. ASSUME Clock PROVE Store!Clock
  BY <1>8 DEF Clock, Store!Clock
<1>9. ASSUME NEW k \in Keys, Spoil(k) PROVE Store!Spoil(k)
  BY <1>9 DEF Spoil, Store!Spoil
<1>10. ASSUME UNCHANGED vars PROVE UNCHANGED Store!storeVars
  BY <1>10 DEF vars
<1> QED
  BY <1>1, <1>2, <1>3, <1>4, <1>5, <1>6, <1>7, <1>8, <1>9, <1>10
  DEF Next, Step, Ops, Store!StoreNext

\* The type invariant and the lock discipline hold in every state: no operation of
\* namespaced_cache.rs decides on a file that has changed since it was read.
THEOREM LockDiscipline == Spec => [](TypeOK /\ FoundIsCurrent)
<1>1. Init => TypeOK /\ FoundIsCurrent
  <2> SUFFICES ASSUME Init PROVE TypeOK /\ FoundIsCurrent
    OBVIOUS
  <2>1. TypeOK BY Zenon DEF Init, Store!StoreInit, TypeOK, Files, Task, Idle
  <2>2. FoundIsCurrent BY DEF Init, FoundIsCurrent, Idle
  <2> QED BY <2>1, <2>2
<1>2. (TypeOK /\ FoundIsCurrent) /\ [Next]_vars => (TypeOK /\ FoundIsCurrent)'
  BY TypeStep, FoundStep
<1> QED BY <1>1, <1>2, PTL DEF Spec

\* The cache with its lock files, two-step operations, cancelled callers and crashes
\* (read, write, get_impl, set_if_newer_impl, set_impl, remove_impl) implements the
\* atomic store.
THEOREM Refinement == Spec => ImplementsStore
<1>1. Init => Store!StoreInit BY DEF Init
<1>2. TypeOK /\ FoundIsCurrent /\ [Next]_vars => [Store!StoreNext]_(Store!storeVars)
  BY StepRefines, Zenon
<1> QED BY <1>1, <1>2, LockDiscipline, PTL DEF Spec, ImplementsStore, Store!StoreSpec

-----------------------------------------------------------------------------

\* can_skip_remote: a remote that is skipped has no resource in the view.
LEMMA SkipIsSafe ==
    ASSUME NEW view, NEW m, NEW res, CanSkipRemote(view, m)
    PROVE  ~InView(view, m, res)
<1>1. CASE \E rule \in view.exclude : MatchesRemoteRule(m, rule)
    <2>1. PICK rule \in view.exclude : MatchesRemoteRule(m, rule)
        BY <1>1
    <2>2. RuleHits(rule, m, res)
        BY <2>1, Zenon DEF MatchesRemoteRule, RuleHits
    <2>. QED  BY <2>1, <2>2, Zenon DEF InView, CheckRules
<1>2. CASE /\ ~view.includeAll
           /\ \A rule \in view.include : rule.kind = "remote" /\ m \notin rule.accepts
    <2>1. ASSUME NEW rule \in view.include PROVE ~RuleHits(rule, m, res)
        BY <1>2, Zenon DEF RuleHits
    <2>. QED  BY <1>2, <2>1 DEF InView, CheckRules
<1>. QED  BY <1>1, <1>2, Zenon DEF CanSkipRemote

\* A resource that the search means is not on a remote whose type rules it out.
LEMMA TypeOfRemoteAgrees ==
    ASSUME NEW res \in Resources, NEW term, Means(res, term)
    PROVE  RemoteTypeTermMatches(res.remote, term)
<1>1. CASE term.category = "remote-type"
    BY <1>1, Zenon DEF Means, RemoteTypeTermMatches
<1>2. CASE term.category = "invalid"
    <2>1. ~TermMatches(res, term)
        BY <1>2, ResourcesAreNotRemotes, Zenon DEF TermMatches
    <2>. QED  BY <1>2, <2>1, Zenon DEF Means
<1>. QED  BY <1>1, <1>2, Zenon DEF RemoteTypeTermMatches

\* is_remotes_only: such a search means no resource.
LEMMA RemotesOnlyIsSafe ==
    ASSUME NEW res \in Resources, NEW search, IsRemotesOnly(search)
    PROVE  ~Matches(search, {t \in TermsOf(search) : Means(res, t)})
<1>1. ASSUME NEW term, AsksForRemotes(term)
      PROVE  ~Means(res, term)
    BY <1>1, ResourcesAreNotRemotes DEF AsksForRemotes, Means, TermMatches
<1>2. CASE \E i \in DOMAIN search.required : AsksForRemotes(search.required[i])
    BY <1>1, <1>2 DEF Matches
<1>3. CASE /\ search.optional # <<>>
           /\ \A i \in DOMAIN search.optional : AsksForRemotes(search.optional[i])
    BY <1>1, <1>3 DEF Matches
<1>. QED  BY <1>2, <1>3 DEF IsRemotesOnly

\* What a resource means, its filter passes.
LEMMA MeaningPasses ==
    ASSUME NEW res, NEW term, Means(res, term)
    PROVE  TermMatches(res, term)
BY ResourcesAreNotRemotes, Zenon DEF Means, TermMatches

\* The short cuts lose nothing.
LEMMA WantedIsFound ==
    ASSUME NEW q, NEW res \in Resources, Wanted(q, res)
    PROVE  /\ Kept(q, EffectiveView(q), res.remote)
           /\ res \in Found(q, EffectiveView(q), res.remote)
<1>. DEFINE m == res.remote
            view == EffectiveView(q)
<1>1. Matches(q.search, {t \in TermsOf(q.search) : Means(res, t)})
    BY DEF Wanted
<1>2. ~IsRemotesOnly(q.search)
    BY <1>1, RemotesOnlyIsSafe, Zenon
<1>3. Matches(q.search, {t \in TermsOf(q.search) : RemoteTypeTermMatches(m, t)})
    BY <1>1, TypeOfRemoteAgrees, Zenon DEF Matches
<1>4. Matches(q.search, {t \in TermsOf(q.search) : TermMatches(res, t)})
    BY <1>1, MeaningPasses, Zenon DEF Matches
<1>5. view # None => ~CanSkipRemote(ViewConfig[view], m)
    BY SkipIsSafe, ZenonT(60) DEF Wanted
<1>6. Asked(q, view, m)
    BY <1>2, <1>3, <1>5 DEF Asked, Wanted
<1>7. res \in Found(q, None, m) /\ res \in Found(q, view, m)
    BY <1>2, <1>4 DEF Found, Wanted
<1>. QED  BY <1>6, <1>7, Zenon DEF Kept

\* get_resources_impl lists every resource of an answering remote that the view, the
\* type and the search ask for.
THEOREM NothingLost == QuerySpec => []NoMatchLost
<1>1. QueryInit => NoMatchLost
    BY DEF QueryInit, NoMatchLost
<1>2. NoMatchLost /\ [QueryNext]_queryVars => NoMatchLost'
    <2>1. CASE UNCHANGED queryVars
        BY <2>1, Zenon DEF queryVars, NoMatchLost
    <2>2. ASSUME Answer, NEW res \in Resources, Wanted(query, res)
          PROVE  res.remote \in DOMAIN listed' /\ res \in listed'[res.remote]
        <3>1. listed' = GetResources(query)
            BY <2>2 DEF Answer
        <3>2. res.remote \in Remotes
            BY ResourcesAreNotRemotes, Zenon
        <3>. QED  BY <2>2, <3>1, <3>2, WantedIsFound DEF GetResources
    <2>3. CASE Answer
        BY <2>2, <2>3, Zenon DEF NoMatchLost, Answer
    <2>. QED  BY <2>1, <2>3, Zenon DEF QueryNext
<1>. QED  BY <1>1, <1>2, PTL DEF QuerySpec

\* What get_resources_impl lists satisfies every required term of the search.
THEOREM RequiredHold == QuerySpec => []RequiredHonoured
<1>1. QueryInit => RequiredHonoured
    BY Zenon DEF QueryInit, RequiredHonoured
<1>2. RequiredHonoured /\ [QueryNext]_queryVars => RequiredHonoured'
    <2>1. CASE UNCHANGED queryVars
        BY <2>1, Zenon DEF queryVars, RequiredHonoured
    <2>2. ASSUME Answer, NEW m \in DOMAIN listed', NEW res \in listed'[m],
                 NEW i \in DOMAIN query.search.required
          PROVE  Means(res, query.search.required[i])
        <3>. DEFINE view == EffectiveView(query)
                    term == query.search.required[i]
        <3>1. /\ listed' = GetResources(query)
              /\ Kept(query, view, m)
              /\ res \in Found(query, view, m)
            BY <2>2 DEF Answer, GetResources
        <3>2. RemoteTypeTermMatches(m, term)
            BY <3>1, Zenon DEF Kept, Asked, Matches
        <3>3. TermMatches(res, term) /\ res.remote = m
            BY <3>1, Zenon DEF Found, Matches
        <3>. QED  BY <3>2, <3>3, Zenon DEF RemoteTypeTermMatches, Means
    <2>3. CASE Answer
        BY <2>2, <2>3 DEF RequiredHonoured, Answer
    <2>. QED  BY <2>1, <2>3 DEF QueryNext
<1>. QED  BY <1>1, <1>2, PTL DEF QuerySpec

\* The answer of get_resources_impl is neither short nor beyond what is required.
THEOREM AnswersAreRight == QuerySpec => []AnswerIsRight
BY NothingLost, RequiredHold, PTL DEF AnswerIsRight


-----------------------------------------------------------------------------

\* A call that has an answer, of the machine it is for
Has(k) == k.pc \in {"found", "counted", "sent"}

\* Two answers with one identity whose template counter goes back to one seed
SameSeed(a, b) == a.id = b.id /\ a.epoch = b.epoch

\* What a call knows of a section of prepared.cfg: the counter is past the value it was
\* given, or saturated, once it has been incremented.
Behind(k, p) ==
    SameSeed(k.answer, p) =>
        IF k.pc = "found" THEN k.answer.counter <= p.counter
        ELSE k.answer.counter < p.counter \/ k.answer.counter = MaxCounter

Apart(k, l) ==
    SameSeed(k.answer, l.answer) =>
        k.answer.counter # l.answer.counter \/ k.answer.counter = MaxCounter

\* Identities are unique, a seed is as old as an edit, and calls are behind the file.
CounterInv ==
    /\ InstallerTypeOK
    /\ \A i, j \in DOMAIN prepared : i # j => prepared[i].id # prepared[j].id
    /\ \A i \in DOMAIN prepared : prepared[i].epoch <= edits
    /\ \A c \in Calls : Has(call[c]) =>
          /\ call[c].answer.epoch <= edits
          /\ \A i \in DOMAIN prepared : Behind(call[c], prepared[i])
    /\ \A c, d \in Calls : c # d /\ Has(call[c]) /\ Has(call[d]) => Apart(call[c], call[d])

LEMMA CallKinds ==
  ASSUME NEW k \in CallShape
  PROVE  /\ Has(k) => k \in Sent
         /\ k.pc \in {"migrate", "read"} => k \in Reading
         /\ k.pc \in {"verified", "unused", "forget", "renew", "add", "secret"} => k \in Token
BY DEF CallShape, Ended, Sent, Reading, Token, Has

\* The numbers of an answer
LEMMA Numbers ==
  ASSUME NEW p \in Answers
  PROVE  p.counter \in 0 .. MaxCounter /\ p.counter \in Int /\ p.epoch \in Int
BY InstallerAssumption DEF Answers

LEMMA HasAnswer ==
  ASSUME NEW k \in CallShape, Has(k)
  PROVE  k.answer \in Answers
<1>1. k \in Sent
  BY CallKinds, Zenon
<1> QED BY <1>1 DEF Sent

\* saturating_add never goes back, and stops at the largest value only.
LEMMA Increments ==
  ASSUME NEW v \in 0 .. MaxCounter
  PROVE  v <= Increment(v) /\ (v < Increment(v) \/ v = MaxCounter)
BY InstallerAssumption DEF Increment

\* A call that goes on keeps what it is about.
LEMMA GoesOn ==
  ASSUME NEW k, NEW pc
  PROVE  /\ k \in Sent /\ pc \in {"found", "counted", "sent"} =>
              LET n == [k EXCEPT !.pc = pc]
              IN  n \in Sent /\ n.pc = pc /\ n.answer = k.answer
         /\ k \in Token /\ pc \in {"forget", "add", "secret"} =>
              LET n == [k EXCEPT !.pc = pc] IN n \in Token /\ n.pc = pc
         /\ k \in Reading => [k EXCEPT !.pc = "read"] \in Reading /\ [k EXCEPT !.pc = "read"].pc = "read"
BY DEF Sent, Token, Reading

\* What a step of a call does to the call and to the answers: nothing that matters here,
\* find_config, increment_template_counters, or saving the installation.
CallMove(c, k) ==
    \/ ~Has(k) /\ prepared' = prepared
    \/ /\ MayWrite /\ k.pc = "found" /\ prepared' = prepared
       /\ \E i \in DOMAIN prepared : k.answer = prepared[i]
    \/ /\ call[c].pc = "found" /\ k.pc = "counted" /\ k.answer = call[c].answer
       /\ \E i \in DOMAIN prepared :
             /\ prepared[i].id = k.answer.id
             /\ prepared' = [prepared EXCEPT ![i].counter = Increment(@)]
    \/ /\ call[c].pc = "counted" /\ k.pc = "sent" /\ k.answer = call[c].answer
       /\ prepared' = prepared

\* The steps of calls, apart from those that edit the answers
CallActs(c) ==
    \/ \E t \in Tokens : \/ Verify(c, t) \/ CreateToken(c, t)
                         \/ RegenerateSecret(c, t) \/ CheckUnused(c, t)
    \/ \E m \in Machines, rendered \in BOOLEAN : NewInstallation(c, m, rendered)
    \/ IncrementTemplateCounters(c) \/ SaveInstallation(c)
    \/ \E hook \in Uuids \cup {Absent} : StartReading(c, hook)
    \/ \E u \in Legacy : MigrateInstallation(c, u)
    \/ RemoveLegacyFile(c) \/ EndReading(c)
    \/ StoreSecret(c) \/ ForgetSecret(c) \/ AddAgain(c) \/ DropToken(c)
    \/ CutShort(c)

LEMMA OneMoves ==
  ASSUME InstallerTypeOK, NEW c \in Calls, CallActs(c)
  PROVE  \E k \in CallShape : Becomes(c, k) /\ CallMove(c, k) /\ edits' = edits
<1>t. call[c] \in CallShape /\ prepared \in Seq(Answers)
  BY DEF InstallerTypeOK
<1>o. Over \in CallShape /\ ~Has(Over)
  BY DEF Over, CallShape, Ended, Has
<1>x. ASSUME NEW t \in Tokens, NEW pc \in {"verified", "unused", "forget", "renew", "add", "secret"}
      PROVE  LET k == [pc |-> pc, token |-> t] IN k \in CallShape /\ ~Has(k)
  BY DEF CallShape, Token, Has
<1>y. ASSUME NEW k \in CallShape, ~Has(k), Becomes(c, k), prepared' = prepared, edits' = edits
      PROVE  \E l \in CallShape : Becomes(c, l) /\ CallMove(c, l) /\ edits' = edits
  BY <1>y, Zenon DEF CallMove
<1>1. CASE \E t \in Tokens : \/ Verify(c, t) \/ CreateToken(c, t)
                             \/ RegenerateSecret(c, t) \/ CheckUnused(c, t)
  <2>1. PICK t \in Tokens, pc \in {"verified", "unused", "forget", "renew", "add", "secret"} :
           Becomes(c, [pc |-> pc, token |-> t])
    BY <1>1, ZenonT(60) DEF Verify, CreateToken, RegenerateSecret, CheckUnused, WriteTokens
  <2>2. prepared' = prepared /\ edits' = edits
    BY <1>1 DEF Verify, CreateToken, RegenerateSecret, CheckUnused, WriteTokens, Steady, files
  <2> QED BY <1>x, <1>y, <2>1, <2>2, Zenon
<1>2. ASSUME NEW m \in Machines, NEW rendered \in BOOLEAN, NewInstallation(c, m, rendered)
      PROVE  \E k \in CallShape : Becomes(c, k) /\ CallMove(c, k) /\ edits' = edits
  <2>1. prepared' = prepared /\ edits' = edits /\ MayWrite
    BY <1>2, Zenon DEF NewInstallation, Steady
  <2>2. CASE Becomes(c, Over)
    BY <1>o, <1>y, <2>1, <2>2, Zenon
  <2>3. CASE \E p \in FindConfig(call[c].token, m) : Becomes(c, [pc |-> "found", answer |-> p])
    <3>1. PICK p \in FindConfig(call[c].token, m) : Becomes(c, [pc |-> "found", answer |-> p])
      BY <2>3, ZenonT(60)
    <3>2. PICK i \in DOMAIN prepared : p = prepared[i]
      BY <3>1 DEF FindConfig
    <3>3. p \in Answers
      BY <3>2, <1>t
    <3> DEFINE k == [pc |-> "found", answer |-> p]
    <3>4. k \in CallShape /\ k.pc = "found" /\ k.answer = p
      BY <3>3 DEF CallShape, Sent
    <3> HIDE DEF k
    <3>5. CallMove(c, k)
      BY <2>1, <3>2, <3>4, Zenon DEF CallMove
    <3> QED BY <2>1, <3>1, <3>4, <3>5, Zenon DEF k
  <2> QED BY <1>2, <2>2, <2>3, Zenon DEF NewInstallation
<1>3. CASE IncrementTemplateCounters(c)
  <2>1. CASE Becomes(c, Over) /\ prepared' = prepared
    BY <1>o, <1>y, <1>3, <2>1, Zenon DEF IncrementTemplateCounters, Steady
  <2>2. CASE ~(Becomes(c, Over) /\ prepared' = prepared)
    <3>1. PICK i \in DOMAIN prepared :
             /\ prepared[i].id = call[c].answer.id
             /\ prepared' = [prepared EXCEPT ![i].counter = Increment(@)]
             /\ Becomes(c, [call[c] EXCEPT !.pc = "counted"])
      BY <1>3, <2>2, Zenon DEF IncrementTemplateCounters
    <3>2. call[c].pc = "found" /\ edits' = edits /\ Has(call[c])
      BY <1>3 DEF IncrementTemplateCounters, Steady, Has
    <3> DEFINE k == [call[c] EXCEPT !.pc = "counted"]
    <3>3. k \in Sent /\ k.pc = "counted" /\ k.answer = call[c].answer
      BY <1>t, <3>2, CallKinds, GoesOn, Zenon
    <3>4. Becomes(c, k)
      BY <3>1, Zenon
    <3> HIDE DEF k
    <3>5. CallMove(c, k)
      BY <3>1, <3>2, <3>3, Zenon DEF CallMove
    <3> QED BY <3>2, <3>3, <3>4, <3>5, Zenon DEF CallShape
  <2> QED BY <2>1, <2>2, Zenon
<1>4. CASE SaveInstallation(c)
  <2>1. call[c].pc = "counted" /\ prepared' = prepared /\ edits' = edits /\ Has(call[c])
    BY <1>4 DEF SaveInstallation, Steady, Has
  <2> DEFINE k == [call[c] EXCEPT !.pc = "sent"]
  <2>2. k \in Sent /\ k.pc = "sent" /\ k.answer = call[c].answer
    BY <1>t, <2>1, CallKinds, GoesOn, Zenon
  <2>3. Becomes(c, k)
    BY <1>4, Zenon DEF SaveInstallation
  <2> HIDE DEF k
  <2>4. CallMove(c, k)
    BY <2>1, <2>2, Zenon DEF CallMove
  <2> QED BY <2>1, <2>2, <2>3, <2>4, Zenon DEF CallShape
<1>r. ASSUME NEW k \in Reading PROVE k \in CallShape /\ ~Has(k)
  BY DEF CallShape, Reading, Has
<1>5. ASSUME NEW hook \in Uuids \cup {Absent}, StartReading(c, hook)
      PROVE  \E k \in CallShape : Becomes(c, k) /\ CallMove(c, k) /\ edits' = edits
  <2>1. prepared' = prepared /\ edits' = edits
    BY <1>5, Zenon DEF StartReading, Steady
  <2>2. legacy # Absent => legacy \in SUBSET Legacy
    BY DEF InstallerTypeOK
  <2>3. \E k \in Reading : Becomes(c, k)
    BY <1>5, <2>2 DEF StartReading, Reading, Uuids
  <2> QED BY <1>r, <1>y, <2>1, <2>3, Zenon
<1>6. CASE (\E u \in Legacy : MigrateInstallation(c, u)) \/ RemoveLegacyFile(c) \/ EndReading(c)
  <2>1. prepared' = prepared /\ edits' = edits
    BY <1>6, Zenon DEF MigrateInstallation, RemoveLegacyFile, EndReading, Steady
  <2>2. call[c] \in Reading
    BY <1>6, <1>t, CallKinds, Zenon DEF MigrateInstallation, RemoveLegacyFile, EndReading
  <2>3. \A u : [call[c] EXCEPT !.todo = @ \ {u}] \in Reading
    BY <2>2 DEF Reading
  <2>4. Becomes(c, Over) \/ \E k \in Reading : Becomes(c, k)
    BY <1>6, <2>2, <2>3, GoesOn, Zenon DEF MigrateInstallation, RemoveLegacyFile, EndReading
  <2> QED BY <1>r, <1>o, <1>y, <2>1, <2>4, Zenon
<1>7. CASE StoreSecret(c) \/ ForgetSecret(c) \/ AddAgain(c) \/ DropToken(c)
  <2>1. prepared' = prepared /\ edits' = edits
    BY <1>7, Zenon DEF StoreSecret, ForgetSecret, AddAgain, DropToken, WriteTokens, WriteShadow, Steady
  <2>2. call[c] \in Token
    BY <1>7, <1>t, CallKinds DEF StoreSecret, ForgetSecret, AddAgain, DropToken
  <2>3. \/ Becomes(c, Over)
        \/ \E pc \in {"forget", "add", "secret"} : Becomes(c, [call[c] EXCEPT !.pc = pc])
    BY <1>7 DEF StoreSecret, ForgetSecret, AddAgain, DropToken, WriteTokens, WriteShadow
  <2>4. \A pc \in {"forget", "add", "secret"} : LET n == [call[c] EXCEPT !.pc = pc]
                                                IN  n \in CallShape /\ ~Has(n)
    <3> SUFFICES ASSUME NEW pc \in {"forget", "add", "secret"}
                 PROVE  LET n == [call[c] EXCEPT !.pc = pc] IN n \in CallShape /\ ~Has(n)
      OBVIOUS
    <3> DEFINE n == [call[c] EXCEPT !.pc = pc]
    <3>1. n \in Token /\ n.pc = pc
      BY <2>2, GoesOn, Zenon
    <3> HIDE DEF n
    <3>2. n \in CallShape /\ ~Has(n)
      BY <3>1 DEF CallShape, Has
    <3> QED BY <3>2 DEF n
  <2> QED BY <1>o, <1>y, <2>1, <2>3, <2>4, Zenon
<1>8. CASE CutShort(c)
  BY <1>o, <1>y, <1>8, Zenon DEF CutShort, files
<1> QED BY <1>1, <1>2, <1>3, <1>4, <1>5, <1>6, <1>7, <1>8, Zenon DEF CallActs

\* increment_template_counters changes the counters of one answer only, upwards.
LEMMA Incremented ==
  ASSUME NEW s \in Seq(Answers), NEW i \in DOMAIN s, NEW n,
         n = [s EXCEPT ![i].counter = Increment(@)]
  PROVE  /\ n \in Seq(Answers) /\ DOMAIN n = DOMAIN s
         /\ \A j \in DOMAIN s :
               /\ n[j].id = s[j].id /\ n[j].epoch = s[j].epoch /\ n[j].counter \in 0 .. MaxCounter
               /\ n[j].is_default = s[j].is_default /\ n[j].filter = s[j].filter
               /\ n[j].counter = IF j = i THEN Increment(s[i].counter) ELSE s[j].counter
<1> DEFINE a == s[i]
           v == Increment(a.counter)
           b == [a EXCEPT !.counter = v]
<1>1. a \in Answers
  OBVIOUS
<1>2. v \in 0 .. MaxCounter
  BY <1>1, InstallerAssumption DEF Answers, Increment
<1>3. n = [s EXCEPT ![i] = b]
  BY Zenon
<1> HIDE DEF a, v
<1>4. /\ b \in Answers /\ b.id = a.id /\ b.epoch = a.epoch /\ b.counter = v
      /\ b.is_default = a.is_default /\ b.filter = a.filter
  BY <1>1, <1>2, Zenon DEF Answers
<1> HIDE DEF b
<1>5. n \in Seq(Answers) /\ DOMAIN n = DOMAIN s /\ n[i] = b /\ \A j \in DOMAIN s \ {i} : n[j] = s[j]
  BY <1>3, <1>4
<1>6. ASSUME NEW j \in DOMAIN s
      PROVE  /\ n[j].id = s[j].id /\ n[j].epoch = s[j].epoch /\ n[j].counter \in 0 .. MaxCounter
             /\ n[j].is_default = s[j].is_default /\ n[j].filter = s[j].filter
             /\ n[j].counter = IF j = i THEN Increment(s[i].counter) ELSE s[j].counter
  <2>1. CASE j = i
    BY <1>2, <1>4, <1>5, <2>1, Zenon DEF a, v
  <2>2. CASE j # i
    <3>1. n[j] = s[j] /\ s[j] \in Answers
      BY <1>5, <2>2
    <3> QED BY <2>2, <3>1 DEF Answers
  <2> QED BY <2>1, <2>2
<1> QED BY <1>5, <1>6, Zenon

\* What CounterInv says of answers and calls, apart from their shapes
Unique(s) == \A i, j \in DOMAIN s : i # j => s[i].id # s[j].id
Aged(s, n) == \A i \in DOMAIN s : s[i].epoch <= n
Follows(k, s, n) == Has(k) => k.answer.epoch <= n /\ \A i \in DOMAIN s : Behind(k, s[i])

LEMMA CounterTypes ==
  ASSUME CounterInv
  PROVE  /\ call \in [Calls -> CallShape] /\ prepared \in Seq(Answers) /\ edits \in Int
         /\ Unique(prepared) /\ Aged(prepared, edits)
<1>1. edits \in 0 .. MaxEdits /\ call \in [Calls -> CallShape] /\ prepared \in Seq(Answers)
  BY Zenon DEF CounterInv, InstallerTypeOK
<1>2. Unique(prepared) /\ Aged(prepared, edits)
  BY Zenon DEF CounterInv, Unique, Aged
<1> QED BY <1>1, <1>2, InstallerAssumption

LEMMA CallKeepsCounters ==
  ASSUME CounterInv, InstallerTypeOK', NEW c \in Calls, NEW k \in CallShape,
         Becomes(c, k), CallMove(c, k), edits' = edits
  PROVE  CounterInv'
<1>t. /\ call \in [Calls -> CallShape] /\ prepared \in Seq(Answers) /\ edits \in Int
      /\ prepared' \in Seq(Answers)
  BY CounterTypes, Zenon DEF InstallerTypeOK
<1>e. call'[c] = k /\ \A d \in Calls \ {c} : call'[d] = call[d]
  BY <1>t, Zenon DEF Becomes
<1>h. ASSUME NEW d \in Calls, Has(call[d])
      PROVE  call[d].answer \in Answers /\ call[d].answer.counter \in 0 .. MaxCounter
                /\ call[d].answer.epoch \in Int
  BY <1>t, <1>h, HasAnswer, Numbers, Zenon
<1>s. ASSUME NEW i \in DOMAIN prepared
      PROVE  prepared[i] \in Answers /\ prepared[i].counter \in 0 .. MaxCounter
                /\ prepared[i].epoch \in Int
  <2>1. prepared[i] \in Answers
    BY <1>t
  <2> QED BY <2>1, Numbers, Zenon
<1>1. Unique(prepared) /\ Aged(prepared, edits) /\ \A d \in Calls : Follows(call[d], prepared, edits)
  BY Zenon DEF CounterInv, Unique, Aged, Follows
<1>2. ASSUME Unique(prepared'), Aged(prepared', edits),
             \A d \in Calls \ {c} : Follows(call[d], prepared', edits), Follows(k, prepared', edits),
             Has(k) => \A d \in Calls \ {c} : Has(call[d]) => Apart(k, call[d]) /\ Apart(call[d], k)
      PROVE  CounterInv'
  <2>1. Unique(prepared') /\ Aged(prepared', edits')
    BY <1>2
  <2>2. \A d \in Calls : Follows(call'[d], prepared', edits')
    BY <1>2, <1>e, Zenon
  <2>3. \A d, e \in Calls : d # e /\ Has(call'[d]) /\ Has(call'[e]) => Apart(call'[d], call'[e])
    BY <1>2, <1>e, Zenon DEF CounterInv
  <2> QED BY <2>1, <2>2, <2>3, Zenon DEF CounterInv, Unique, Aged, Follows
<1>3. CASE ~Has(k) /\ prepared' = prepared
  BY <1>1, <1>2, <1>3, Zenon DEF Follows
<1>4. CASE /\ MayWrite /\ k.pc = "found" /\ prepared' = prepared
           /\ \E i \in DOMAIN prepared : k.answer = prepared[i]
  <2>1. PICK i \in DOMAIN prepared : k.answer = prepared[i]
    BY <1>4, Zenon
  <2>2. Follows(k, prepared, edits)
    <3>1. \A j \in DOMAIN prepared : SameSeed(prepared[i], prepared[j]) => j = i
      BY <1>1, Zenon DEF Unique, SameSeed
    <3>2. \A j \in DOMAIN prepared : Behind(k, prepared[j])
      <4>1. prepared[i].counter <= prepared[i].counter
        BY <1>s
      <4> QED BY <1>4, <2>1, <3>1, <4>1, ZenonT(60) DEF Behind
    <3> QED BY <1>1, <2>1, <3>2, Zenon DEF Follows, Aged
  <2>3. ASSUME NEW d \in Calls \ {c}, Has(call[d]) PROVE Apart(k, call[d]) /\ Apart(call[d], k)
    <3>1. call[d].pc # "found"
      BY <1>4, <2>3 DEF MayWrite, Holds
    <3>2. Behind(call[d], prepared[i])
      BY <1>1, <2>3, ZenonT(60) DEF Follows
    <3>3. call[d].answer.counter \in Int /\ prepared[i].counter \in Int
      BY <1>h, <1>s, <2>3
    <3>4. call[d].answer.counter < prepared[i].counter
             => call[d].answer.counter # prepared[i].counter
      BY <3>3
    <3> QED BY <2>1, <3>1, <3>2, <3>4, ZenonT(60) DEF Behind, Apart, SameSeed
  <2> QED BY <1>1, <1>2, <1>4, <2>2, <2>3, Zenon
<1>5. CASE /\ call[c].pc = "found" /\ k.pc = "counted" /\ k.answer = call[c].answer
           /\ \E i \in DOMAIN prepared :
                 /\ prepared[i].id = k.answer.id
                 /\ prepared' = [prepared EXCEPT ![i].counter = Increment(@)]
  <2>1. PICK i \in DOMAIN prepared :
                 /\ prepared[i].id = k.answer.id
                 /\ prepared' = [prepared EXCEPT ![i].counter = Increment(@)]
    BY <1>5, Zenon
  <2>2. /\ DOMAIN prepared' = DOMAIN prepared
        /\ \A j \in DOMAIN prepared :
              /\ prepared'[j].id = prepared[j].id /\ prepared'[j].epoch = prepared[j].epoch
              /\ prepared'[j].counter \in 0 .. MaxCounter
              /\ prepared'[j].counter
                    = IF j = i THEN Increment(prepared[i].counter) ELSE prepared[j].counter
    BY <1>t, <2>1, Incremented
  <2>3. \A j \in DOMAIN prepared : prepared[j].counter <= prepared'[j].counter
    <3>1. prepared[i].counter <= Increment(prepared[i].counter)
      BY <1>s, Increments, ZenonT(60)
    <3>2. \A j \in DOMAIN prepared : prepared[j].counter <= prepared[j].counter
      BY <1>s
    <3> QED BY <2>2, <3>1, <3>2, Zenon
  <2>4. Unique(prepared') /\ Aged(prepared', edits)
    <3>1. Unique(prepared')
      BY <1>1, <2>2, ZenonT(60) DEF Unique
    <3>2. Aged(prepared', edits)
      BY <1>1, <2>2, Zenon DEF Aged
    <3> QED BY <3>1, <3>2
  <2>5. ASSUME NEW d \in Calls PROVE Follows(call[d], prepared', edits)
    <3> SUFFICES ASSUME Has(call[d]), NEW j \in DOMAIN prepared PROVE Behind(call[d], prepared'[j])
      BY <1>1, <2>2, Zenon DEF Follows
    <3>1. Behind(call[d], prepared[j])
      BY <1>1, ZenonT(60) DEF Follows
    <3>2. call[d].answer.counter \in Int /\ prepared[j].counter \in Int /\ prepared'[j].counter \in Int
      BY <1>h, <1>s, <2>2
    <3> QED BY <2>2, <2>3, <3>1, <3>2, InstallerAssumption DEF Behind, SameSeed
  <2>h. Has(call[c]) /\ Has(k)
    BY <1>5, ZenonT(60) DEF Has
  <2>6. Follows(k, prepared', edits)
    <3> SUFFICES ASSUME NEW j \in DOMAIN prepared, SameSeed(k.answer, prepared'[j])
                 PROVE  k.answer.counter < prepared'[j].counter \/ k.answer.counter = MaxCounter
      BY <1>1, <1>5, <2>2, <2>h DEF Follows, Behind
    <3>1. j = i
      BY <1>1, <2>1, <2>2 DEF Unique, SameSeed
    <3>2. Behind(call[c], prepared[i]) /\ SameSeed(call[c].answer, prepared[i])
      BY <1>1, <1>5, <2>h, <2>2, <3>1 DEF Follows, SameSeed
    <3>3. k.answer.counter <= prepared[i].counter
      BY <1>5, <3>2 DEF Behind
    <3>4. k.answer.counter \in 0 .. MaxCounter /\ prepared[i].counter \in 0 .. MaxCounter
      BY <1>h, <1>s, <1>5, <2>h
    <3> QED BY <2>2, <3>1, <3>3, <3>4, InstallerAssumption DEF Increment
  <2>7. \A d \in Calls \ {c} : Has(call[d]) => Apart(k, call[d]) /\ Apart(call[d], k)
    BY <1>5, <2>h DEF CounterInv, Apart
  <2> QED BY <1>2, <2>4, <2>5, <2>6, <2>7, Zenon
<1>6. CASE /\ call[c].pc = "counted" /\ k.pc = "sent" /\ k.answer = call[c].answer
           /\ prepared' = prepared
  <2>h. Has(call[c]) /\ Has(k)
    BY <1>6, Zenon DEF Has
  <2>1. Follows(k, prepared, edits)
    BY <1>1, <1>6, <2>h, ZenonT(60) DEF Follows, Behind
  <2>2. \A d \in Calls \ {c} : Has(call[d]) => Apart(k, call[d]) /\ Apart(call[d], k)
    BY <1>6, <2>h DEF CounterInv, Apart
  <2> QED BY <1>1, <1>2, <1>6, <2>1, <2>2, Zenon
<1> QED BY <1>3, <1>4, <1>5, <1>6, ZenonT(60) DEF CallMove

\* An edit leaves an answer its counter, or gives it a new seed.
Descends(s, n) ==
    \A j \in DOMAIN s :
        \/ s[j].epoch = n + 1
        \/ \E i \in DOMAIN prepared :
              /\ SameSeed(s[j], prepared[i]) /\ s[j].counter = prepared[i].counter

\* create_prepared_answer, update_prepared_answer and delete_prepared_answer
Edited ==
    \/ \E p \in Answers, g \in SUBSET (Tokens \ tokens), v \in BOOLEAN :
          \/ CreatePrepared(p, g, v)
          \/ \E i \in DOMAIN prepared : UpdatePrepared(i, p, g, v)
    \/ \E i \in DOMAIN prepared : DeletePrepared(i)

LEMMA Descendants ==
  ASSUME CounterInv, Edited
  PROVE  /\ prepared' \in Seq(Answers) /\ Unique(prepared') /\ Aged(prepared', edits + 1)
         /\ Descends(prepared', edits)
<1>t. prepared \in Seq(Answers) /\ edits \in Int /\ Unique(prepared) /\ Aged(prepared, edits)
  BY CounterTypes, Zenon
<1>s. \A i \in DOMAIN prepared : prepared[i] \in Answers /\ prepared[i].epoch \in Int
  <2> SUFFICES ASSUME NEW i \in DOMAIN prepared
               PROVE  prepared[i] \in Answers /\ prepared[i].epoch \in Int
    BY Zenon
  <2>1. prepared[i] \in Answers
    BY <1>t
  <2> QED BY <2>1, InstallerAssumption DEF Answers
<1>1. CASE prepared' = prepared
  BY <1>1, <1>s, <1>t DEF Unique, Aged, Descends, SameSeed
<1>2. ASSUME NEW p \in Answers, \A i \in DOMAIN prepared : prepared[i].id # p.id, p.epoch = edits + 1,
             prepared' = Append(prepared, p)
      PROVE  /\ prepared' \in Seq(Answers) /\ Unique(prepared') /\ Aged(prepared', edits + 1)
             /\ Descends(prepared', edits)
  <2>1. /\ prepared' \in Seq(Answers) /\ DOMAIN prepared' = 1 .. Len(prepared) + 1
        /\ DOMAIN prepared = 1 .. Len(prepared) /\ Len(prepared) \in Nat
        /\ \A j \in DOMAIN prepared : prepared'[j] = prepared[j]
        /\ prepared'[Len(prepared) + 1] = p
    BY <1>t, <1>2
  <2>2. \A j \in DOMAIN prepared' : j \in DOMAIN prepared \/ j = Len(prepared) + 1
    BY <2>1
  <2>3. Unique(prepared')
    BY <1>t, <1>2, <2>1, <2>2 DEF Unique
  <2>4. Aged(prepared', edits + 1)
    BY <1>s, <1>t, <1>2, <2>1, <2>2 DEF Aged
  <2>5. Descends(prepared', edits)
    BY <1>2, <2>1, <2>2, Zenon DEF Descends, SameSeed
  <2> QED BY <2>1, <2>3, <2>4, <2>5, ZenonT(60)
<1>3. ASSUME NEW p \in Answers, NEW i \in DOMAIN prepared, p.id = prepared[i].id,
             \/ p.counter = prepared[i].counter /\ p.epoch = prepared[i].epoch
             \/ p.epoch = edits + 1,
             prepared' = [prepared EXCEPT ![i] = p]
      PROVE  /\ prepared' \in Seq(Answers) /\ Unique(prepared') /\ Aged(prepared', edits + 1)
             /\ Descends(prepared', edits)
  <2>1. /\ prepared' \in Seq(Answers) /\ DOMAIN prepared' = DOMAIN prepared
        /\ \A j \in DOMAIN prepared \ {i} : prepared'[j] = prepared[j]
        /\ prepared'[i] = p
    BY <1>t, <1>3
  <2>2. \A j \in DOMAIN prepared : prepared'[j].id = prepared[j].id
    BY <1>3, <2>1
  <2>3. Unique(prepared')
    BY <1>t, <2>1, <2>2, Zenon DEF Unique
  <2>4. Aged(prepared', edits + 1)
    BY <1>s, <1>t, <1>3, <2>1 DEF Aged
  <2>5. Descends(prepared', edits)
    BY <1>3, <2>1, Zenon DEF Descends, SameSeed
  <2> QED BY <2>1, <2>3, <2>4, <2>5
<1>4. ASSUME NEW i \in DOMAIN prepared,
             prepared' = WithoutSection(prepared, i)
      PROVE  /\ prepared' \in Seq(Answers) /\ Unique(prepared') /\ Aged(prepared', edits + 1)
             /\ Descends(prepared', edits)
  <2> DEFINE At(j) == IF j < i THEN j ELSE j + 1
  <2>0. i \in 1 .. Len(prepared) /\ Len(prepared) \in Nat
    BY <1>t
  <2>1. \A j \in 1 .. Len(prepared) - 1 : At(j) \in 1 .. Len(prepared) /\ prepared[At(j)] \in Answers
    BY <1>s, <1>t, <2>0
  <2>2. prepared' = [j \in 1 .. Len(prepared) - 1 |-> prepared[At(j)]]
    BY <1>4, Zenon DEF WithoutSection
  <2>3. prepared' \in Seq(Answers)
    <3> HIDE DEF At
    <3> QED BY <2>0, <2>1, <2>2
  <2>4. /\ DOMAIN prepared' = 1 .. Len(prepared) - 1
        /\ \A j \in DOMAIN prepared' : At(j) \in DOMAIN prepared /\ prepared'[j] = prepared[At(j)]
        /\ \A j, k \in DOMAIN prepared' : j # k => At(j) # At(k)
    BY <1>t, <2>0, <2>1, <2>2
  <2> HIDE DEF At
  <2>5. Unique(prepared')
    BY <1>t, <2>4, ZenonT(60) DEF Unique
  <2>6. Aged(prepared', edits + 1)
    BY <1>s, <1>t, <2>4 DEF Aged
  <2>7. Descends(prepared', edits)
    BY <2>4, Zenon DEF Descends, SameSeed
  <2> QED BY <2>3, <2>5, <2>6, <2>7
<1> QED BY <1>1, <1>2, <1>3, <1>4, ZenonT(60) DEF Edited, CreatePrepared, UpdatePrepared, DeletePrepared

LEMMA EditKeepsCounters ==
  ASSUME CounterInv, InstallerTypeOK', call' = call, edits' = edits + 1, Unique(prepared'),
         Aged(prepared', edits + 1), Descends(prepared', edits)
  PROVE  CounterInv'
<1>t. edits \in Int /\ call \in [Calls -> CallShape]
  BY CounterTypes, Zenon
<1>1. ASSUME NEW c \in Calls, Has(call[c])
      PROVE  call[c].answer.epoch <= edits' /\ \A j \in DOMAIN prepared' : Behind(call[c], prepared'[j])
  <2>1. call[c].answer.epoch \in Int /\ call[c].answer.epoch <= edits
    <3>1. call[c].answer \in Answers
      BY <1>t, <1>1, HasAnswer, Zenon
    <3>2. call[c].answer.epoch <= edits
      BY <1>1, Zenon DEF CounterInv
    <3> QED BY <3>1, <3>2, Numbers, Zenon
  <2>2. ASSUME NEW j \in DOMAIN prepared' PROVE Behind(call[c], prepared'[j])
    <3>1. CASE prepared'[j].epoch = edits + 1
      <4>1. call[c].answer.epoch # prepared'[j].epoch
        BY <1>t, <2>1, <3>1
      <4> QED BY <4>1, Zenon DEF Behind, SameSeed
    <3>2. CASE \E i \in DOMAIN prepared :
              /\ SameSeed(prepared'[j], prepared[i]) /\ prepared'[j].counter = prepared[i].counter
      BY <1>1, <3>2, Zenon DEF CounterInv, Behind, SameSeed
    <3> QED BY <3>1, <3>2, Zenon DEF Descends
  <2> QED BY <1>t, <2>1, <2>2
<1> QED BY <1>1, Zenon DEF CounterInv, Unique, Aged

\* What a step of a call does to the legacy file: nothing, it sets an unreadable one aside, or
\* it removes it when all of it is migrated.
LegacyMove(c) ==
    \/ legacy' = legacy /\ aside' = aside
    \/ legacy # Absent /\ legacy' = Absent /\ aside' = legacy
    \/ call[c].pc = "migrate" /\ call[c].todo = {} /\ legacy' = Absent /\ aside' = aside /\ dir' = dir

\* No step of a call removes the file of an installation.
LEMMA FilesMove ==
  ASSUME InstallerTypeOK, NEW c \in Calls, CallActs(c)
  PROVE  /\ LegacyMove(c) /\ tokens' \subseteq Tokens /\ shadow' \subseteq Tokens
         /\ dir' \in [Uuids -> Statuses \cup {Absent}]
         /\ \A u \in Uuids : dir[u] # Absent => dir'[u] # Absent
<1> DEFINE Done == /\ LegacyMove(c) /\ tokens' \subseteq Tokens /\ shadow' \subseteq Tokens
                   /\ dir' \in [Uuids -> Statuses \cup {Absent}]
                   /\ \A u \in Uuids : dir[u] # Absent => dir'[u] # Absent
<1>t. /\ dir \in [Uuids -> Statuses \cup {Absent}] /\ tokens \subseteq Tokens /\ shadow \subseteq Tokens
      /\ c \in Uuids
  BY DEF InstallerTypeOK, Uuids
<1>1. ASSUME LegacyMove(c), tokens' \subseteq Tokens, shadow' \subseteq Tokens, dir' = dir
      PROVE  Done
  BY <1>t, <1>1, Zenon
<1>2. ASSUME NEW u \in Uuids, NEW s \in Statuses, dir' = [dir EXCEPT ![u] = s],
             UNCHANGED <<tokens, shadow, legacy, aside>>
      PROVE  Done
  <2>1. LegacyMove(c) /\ tokens' \subseteq Tokens /\ shadow' \subseteq Tokens
    BY <1>t, <1>2, Zenon DEF LegacyMove
  <2>2. dir' \in [Uuids -> Statuses \cup {Absent}] /\ dir'[u] = s /\ \A w \in Uuids \ {u} : dir'[w] = dir[w]
    BY <1>t, <1>2
  <2> QED BY <2>1, <2>2, InstallerAssumption, Zenon
<1>3. CASE UNCHANGED <<legacy, aside, dir>> /\ tokens' \subseteq Tokens /\ shadow' \subseteq Tokens
  BY <1>1, <1>3, Zenon DEF LegacyMove
<1>4. ASSUME NEW t \in Tokens, Verify(c, t) \/ CreateToken(c, t) \/ RegenerateSecret(c, t) \/ CheckUnused(c, t)
      PROVE  Done
  BY <1>t, <1>3, <1>4, Zenon DEF Verify, CreateToken, RegenerateSecret, CheckUnused, WriteTokens, files
<1>5. ASSUME NEW m \in Machines, NEW rendered \in BOOLEAN, NewInstallation(c, m, rendered) PROVE Done
  <2>1. UNCHANGED <<tokens, shadow, legacy, aside>>
    BY <1>5, Zenon DEF NewInstallation
  <2>2. dir' = dir \/ \E s \in Statuses : dir' = [dir EXCEPT ![c] = s]
    BY <1>5, Zenon DEF NewInstallation, Statuses
  <2> QED BY <1>t, <1>2, <1>3, <2>1, <2>2, Zenon
<1>6. CASE IncrementTemplateCounters(c)
  BY <1>t, <1>3, <1>6, Zenon DEF IncrementTemplateCounters
<1>7. CASE SaveInstallation(c)
  <2>1. UNCHANGED <<tokens, shadow, legacy, aside>>
    BY <1>7, Zenon DEF SaveInstallation
  <2>2. \E s \in Statuses : dir' = [dir EXCEPT ![c] = s]
    BY <1>7, ZenonT(60) DEF SaveInstallation, Statuses
  <2> QED BY <1>t, <1>2, <2>1, <2>2, Zenon
<1>8. ASSUME NEW hook \in Uuids \cup {Absent}, StartReading(c, hook) PROVE Done
  BY <1>t, <1>1, <1>8 DEF StartReading, LegacyMove
<1>9. ASSUME NEW u \in Legacy, MigrateInstallation(c, u) PROVE Done
  <2>1. UNCHANGED <<tokens, shadow, legacy, aside>> /\ u \in Uuids
    BY <1>9, Zenon DEF MigrateInstallation, Uuids
  <2>2. dir' = [dir EXCEPT ![u] = Migrated(u)]
    BY <1>9, Zenon DEF MigrateInstallation
  <2>3. Migrated(u) \in Statuses
    BY <1>t, <2>1 DEF Migrated, Statuses
  <2> QED BY <1>2, <2>1, <2>2, <2>3, Zenon
<1>10. CASE RemoveLegacyFile(c)
  BY <1>t, <1>1, <1>10 DEF RemoveLegacyFile, LegacyMove
<1>11. CASE EndReading(c)
  <2>1. UNCHANGED <<tokens, shadow, legacy, aside>>
    BY <1>11, Zenon DEF EndReading
  <2>2. CASE dir' = dir
    BY <1>t, <1>3, <2>1, <2>2, Zenon
  <2>3. CASE dir' # dir
    <3>1. call[c].hook # Absent /\ dir' = [dir EXCEPT ![call[c].hook] = "finished"]
      BY <1>11, <2>3, Zenon DEF EndReading
    <3>2. call[c] \in Reading
      BY <1>11, CallKinds, Zenon DEF EndReading, InstallerTypeOK
    <3>3. call[c].hook \in Uuids /\ "finished" \in Statuses
      BY <3>1, <3>2 DEF Reading, Uuids, Statuses
    <3> QED BY <1>2, <2>1, <3>1, <3>3, Zenon
  <2> QED BY <2>2, <2>3, Zenon
<1>12. CASE StoreSecret(c) \/ ForgetSecret(c) \/ AddAgain(c) \/ DropToken(c)
  <2>1. call[c] \in Token
    BY <1>12, CallKinds DEF InstallerTypeOK, StoreSecret, ForgetSecret, AddAgain, DropToken
  <2>2. call[c].token \in Tokens
    BY <2>1, ZenonT(60) DEF Token
  <2> QED BY <1>t, <1>3, <1>12, <2>2 DEF StoreSecret, ForgetSecret, AddAgain, DropToken, WriteTokens, WriteShadow
<1>13. CASE CutShort(c)
  BY <1>t, <1>3, <1>13 DEF CutShort, files
<1> QED BY <1>4, <1>5, <1>6, <1>7, <1>8, <1>9, <1>10, <1>11, <1>12, <1>13, ZenonT(60) DEF CallActs

\* Every step keeps the shapes of files and calls.
LEMMA InstallerTypeStep == CounterInv /\ [InstallerNext]_installerVars => InstallerTypeOK'
<1> SUFFICES ASSUME CounterInv, [InstallerNext]_installerVars PROVE InstallerTypeOK'
  BY Zenon
<1>t. InstallerTypeOK
  BY Zenon DEF CounterInv
<1>1. CASE Edit /\ Edited
  <2>1. prepared' \in Seq(Answers)
    BY <1>1, Descendants, Zenon
  <2>2. UNCHANGED <<legacy, aside, dir, call>> /\ edits' \in 0 .. MaxEdits
    BY <1>t, <1>1, InstallerAssumption DEF Edit, InstallerTypeOK
  <2>3. tokens' \subseteq Tokens /\ shadow' \subseteq Tokens
    BY <1>t, <1>1 DEF Edited, CreatePrepared, UpdatePrepared, DeletePrepared, Generated, InstallerTypeOK
  <2> QED BY <1>t, <2>1, <2>2, <2>3 DEF InstallerTypeOK
<1>2. ASSUME NEW u \in Uuids, DeleteInstallation(u) PROVE InstallerTypeOK'
  BY <1>t, <1>2, InstallerAssumption DEF DeleteInstallation, InstallerTypeOK
<1>3. ASSUME NEW c \in Calls, CallActs(c) PROVE InstallerTypeOK'
  <2>1. PICK k \in CallShape : Becomes(c, k) /\ CallMove(c, k) /\ edits' = edits
    BY <1>t, <1>3, OneMoves
  <2>2. call' \in [Calls -> CallShape]
    BY <1>t, <2>1 DEF Becomes, InstallerTypeOK
  <2>3. prepared' \in Seq(Answers)
    <3>1. prepared' = prepared \/ \E i \in DOMAIN prepared :
                                     prepared' = [prepared EXCEPT ![i].counter = Increment(@)]
      BY <2>1, Zenon DEF CallMove
    <3>2. prepared \in Seq(Answers)
      BY <1>t, Zenon DEF InstallerTypeOK
    <3> QED BY <3>1, <3>2, Incremented, ZenonT(60)
  <2>4. /\ LegacyMove(c) /\ tokens' \subseteq Tokens /\ shadow' \subseteq Tokens
        /\ dir' \in [Uuids -> Statuses \cup {Absent}]
    BY <1>t, <1>3, FilesMove, Zenon
  <2>5. legacy' \in (SUBSET Legacy) \cup {Absent} /\ aside' \subseteq Legacy
    BY <1>t, <2>4 DEF LegacyMove, InstallerTypeOK
  <2> QED BY <1>t, <2>1, <2>2, <2>3, <2>4, <2>5, Zenon DEF InstallerTypeOK
<1>4. CASE UNCHANGED installerVars
  BY <1>t, <1>4, Zenon DEF InstallerTypeOK, installerVars, files
<1> QED BY <1>1, <1>2, <1>3, <1>4, Zenon DEF InstallerNext, CallActs, Edited

LEMMA CounterStart == InstallerInit => CounterInv
<1> SUFFICES ASSUME InstallerInit PROVE CounterInv
  OBVIOUS
<1>1. [pc |-> "idle"] \in CallShape /\ ~Has([pc |-> "idle"])
  BY DEF CallShape, Ended, Has
<1>2. call \in [Calls -> CallShape] /\ \A c \in Calls : ~Has(call[c])
  BY <1>1, Zenon DEF InstallerInit
<1>3. prepared \in Seq(Answers) /\ DOMAIN prepared = {} /\ edits \in 0 .. MaxEdits
  BY InstallerAssumption DEF InstallerInit
<1>4. InstallerTypeOK
  BY <1>2, <1>3 DEF InstallerInit, InstallerTypeOK
<1> QED BY <1>2, <1>3, <1>4, Zenon DEF CounterInv

LEMMA CounterStep == CounterInv /\ [InstallerNext]_installerVars => CounterInv'
<1> SUFFICES ASSUME CounterInv, [InstallerNext]_installerVars PROVE CounterInv'
  BY ZenonT(60)
<1>t. InstallerTypeOK /\ InstallerTypeOK'
  BY InstallerTypeStep DEF CounterInv
<1>1. CASE Edit /\ Edited
  <2>1. call' = call /\ edits' = edits + 1
    BY <1>1, Zenon DEF Edit
  <2> QED BY <1>1, <1>t, <2>1, Descendants, EditKeepsCounters, Zenon
<1>2. ASSUME NEW u \in Uuids, DeleteInstallation(u) PROVE CounterInv'
  <2>1. call' = call /\ edits' = edits + 1 /\ prepared' = prepared
    BY <1>2, Zenon DEF DeleteInstallation
  <2>2. Unique(prepared) /\ Aged(prepared, edits + 1) /\ Descends(prepared, edits)
    <3>1. edits \in Int /\ \A i \in DOMAIN prepared : prepared[i].epoch \in Int
      <4>1. \A i \in DOMAIN prepared : prepared[i] \in Answers
        BY <1>t DEF InstallerTypeOK
      <4> QED BY <1>t, <4>1, InstallerAssumption DEF InstallerTypeOK, Answers
    <3>2. \A i \in DOMAIN prepared : prepared[i].epoch <= edits
      BY Zenon DEF CounterInv
    <3>3. Aged(prepared, edits + 1)
      BY <3>1, <3>2 DEF Aged
    <3> QED BY <3>3, ZenonT(60) DEF CounterInv, Unique, Descends, SameSeed
  <2> QED BY <1>t, <2>1, <2>2, EditKeepsCounters, Zenon
<1>3. ASSUME NEW c \in Calls, CallActs(c) PROVE CounterInv'
  BY <1>t, <1>3, OneMoves, CallKeepsCounters, Zenon
<1>4. CASE UNCHANGED installerVars
  BY <1>t, <1>4, ZenonT(60) DEF CounterInv, installerVars, files, Behind, Apart
<1> QED BY <1>1, <1>2, <1>3, <1>4, Zenon DEF InstallerNext, CallActs, Edited

\* CounterNeverReused in every behaviour, for any calls, prepared answers, seeds and edits:
\* two machines never get one value of a template counter from one seed unless it has
\* saturated (new_installation and increment_template_counters under the installations
\* lock, while the handlers of prepared answers come between them).
THEOREM CountersAreFresh == InstallerSpec => []CounterNeverReused
<1>1. CounterInv => CounterNeverReused
  BY DEF CounterInv, CounterNeverReused, Has, Apart, SameSeed
<1> QED BY <1>1, CounterStart, CounterStep, PTL DEF InstallerSpec

\* A legacy file that is there was never set aside, and what a call that migrates it has
\* done is in a file of its own.
LegacyInv ==
    /\ CounterInv
    /\ legacy # Absent => aside = {}
    /\ \A c \in Calls : call[c].pc = "migrate" =>
          (legacy # Absent => \A u \in legacy \ call[c].todo : dir[u] # Absent)

LEMMA LegacyStep == LegacyInv /\ [InstallerNext]_installerVars => LegacyInv'
<1> SUFFICES ASSUME LegacyInv, [InstallerNext]_installerVars PROVE LegacyInv'
  OBVIOUS
<1>t. InstallerTypeOK /\ CounterInv /\ CounterInv' /\ Legacy \subseteq Uuids
  BY CounterStep, Zenon DEF LegacyInv, CounterInv, Uuids
<1>l. \A u \in legacy : legacy # Absent => u \in Legacy
  BY <1>t, Zenon DEF InstallerTypeOK
<1>1. CASE UNCHANGED <<legacy, aside, dir, call>>
  BY <1>t, <1>1, Zenon DEF LegacyInv
<1>2. CASE Edit \/ UNCHANGED installerVars
  BY <1>1, <1>2, ZenonT(60) DEF Edit, installerVars, files
<1>3. ASSUME NEW u \in Uuids, DeleteInstallation(u) PROVE LegacyInv'
  <2>1. UNCHANGED <<legacy, aside, call>>
    BY <1>3, ZenonT(60) DEF DeleteInstallation
  <2>2. \A c \in Calls : call[c].pc # "migrate"
    BY <1>3 DEF DeleteInstallation, MayWrite, Holds
  <2> QED BY <1>t, <2>1, <2>2 DEF LegacyInv
<1>4. ASSUME NEW c \in Calls, CallActs(c) PROVE LegacyInv'
  <2>1. LegacyMove(c) /\ \A u \in Uuids : dir[u] # Absent => dir'[u] # Absent
    BY <1>t, <1>4, FilesMove, Zenon
  <2>2. legacy' = legacy \/ legacy' = Absent
    BY <2>1, Zenon DEF LegacyMove
  <2>3. legacy' # Absent => aside' = {}
    BY <2>1, Zenon DEF LegacyMove, LegacyInv
  <2>4. PICK k \in CallShape : Becomes(c, k)
    BY <1>t, <1>4, OneMoves, Zenon
  <2>5. call'[c] = k /\ \A d \in Calls \ {c} : call'[d] = call[d]
    BY <1>t, <2>4 DEF Becomes, InstallerTypeOK
  <2>6. ASSUME NEW d \in Calls \ {c}, call'[d].pc = "migrate", legacy' # Absent
        PROVE  \A u \in legacy' \ call'[d].todo : dir'[u] # Absent
    BY <1>t, <1>l, <2>1, <2>2, <2>5, <2>6, Zenon DEF LegacyInv
  <2>7. ASSUME k.pc = "migrate", legacy' # Absent PROVE \A u \in legacy' \ k.todo : dir'[u] # Absent
    <3>1. CASE \E u \in Legacy : MigrateInstallation(c, u)
      <4>1. PICK u \in Legacy : MigrateInstallation(c, u)
        BY <3>1
      <4>2. call[c] \in Reading /\ call[c].pc = "migrate"
        BY <1>t, <4>1, CallKinds DEF MigrateInstallation, InstallerTypeOK
      <4>3. k = [call[c] EXCEPT !.todo = @ \ {u}]
        BY <1>t, <2>5, <4>1 DEF MigrateInstallation, Becomes, InstallerTypeOK
      <4>4. k.todo = call[c].todo \ {u}
        BY <4>2, <4>3 DEF Reading
      <4>5. dir'[u] = Migrated(u)
        BY <1>t, <4>1, Zenon DEF MigrateInstallation, InstallerTypeOK
      <4>6. dir'[u] # Absent
        BY <4>5, InstallerAssumption, ZenonT(60) DEF Migrated, Statuses
      <4> QED BY <1>t, <1>l, <2>1, <2>2, <2>7, <4>2, <4>4, <4>6, Zenon DEF LegacyInv
    <3>2. CASE \E hook \in Uuids \cup {Absent} : StartReading(c, hook)
      <4>1. PICK hook \in Uuids \cup {Absent} : StartReading(c, hook)
        BY <3>2, Zenon
      <4>2. \/ k = [pc |-> "read", todo |-> {}, hook |-> hook]
            \/ k = [pc |-> "migrate", todo |-> legacy, hook |-> hook] /\ legacy' = legacy
        BY <1>t, <2>5, <4>1, Zenon DEF StartReading, Becomes, InstallerTypeOK
      <4> QED BY <2>7, <4>2
    <3>3. CASE \E t \in Tokens : \/ Verify(c, t) \/ CreateToken(c, t)
                                 \/ RegenerateSecret(c, t) \/ CheckUnused(c, t)
      <4>1. \E t \in Tokens, pc \in {"verified", "secret", "renew", "unused"} :
               Becomes(c, [pc |-> pc, token |-> t])
        BY <3>3, Zenon DEF Verify, CreateToken, RegenerateSecret, CheckUnused, WriteTokens
      <4>2. k.pc \in {"verified", "secret", "renew", "unused"}
        BY <1>t, <2>5, <4>1 DEF Becomes, InstallerTypeOK
      <4> QED BY <2>7, <4>2
    <3>5. ASSUME Becomes(c, Over) PROVE FALSE
      BY <1>t, <2>5, <2>7, <3>5 DEF Becomes, InstallerTypeOK, Over
    <3>6. ASSUME NEW pc, pc # "migrate", Becomes(c, [call[c] EXCEPT !.pc = pc]),
                 call[c] \in Sent \cup Reading \cup Token
          PROVE  FALSE
      <4>1. k = [call[c] EXCEPT !.pc = pc]
        BY <1>t, <2>5, <3>6 DEF Becomes, InstallerTypeOK
      <4> QED BY <2>7, <3>6, <4>1 DEF Sent, Reading, Token
    <3>7. ASSUME \E m \in Machines, rendered \in BOOLEAN : NewInstallation(c, m, rendered) PROVE FALSE
      <4>1. Becomes(c, Over) \/ \E p : Becomes(c, [pc |-> "found", answer |-> p])
        BY <3>7, Zenon DEF NewInstallation
      <4>2. ASSUME NEW p, Becomes(c, [pc |-> "found", answer |-> p]) PROVE FALSE
        BY <1>t, <2>5, <2>7, <4>2 DEF Becomes, InstallerTypeOK
      <4> QED BY <3>5, <4>1, <4>2, Zenon
    <3>8. ASSUME IncrementTemplateCounters(c) \/ SaveInstallation(c) PROVE FALSE
      <4>1. call[c] \in Sent
        BY <1>t, <3>8, CallKinds DEF IncrementTemplateCounters, SaveInstallation, InstallerTypeOK, Has
      <4>2. Becomes(c, Over) \/ \E pc \in {"counted", "sent"} : Becomes(c, [call[c] EXCEPT !.pc = pc])
        BY <3>8, Zenon DEF IncrementTemplateCounters, SaveInstallation
      <4> QED BY <3>5, <3>6, <4>1, <4>2, Zenon
    <3>9. ASSUME RemoveLegacyFile(c) \/ EndReading(c) \/ CutShort(c) PROVE FALSE
      <4>1. Becomes(c, Over) \/ (Becomes(c, [call[c] EXCEPT !.pc = "read"]) /\ call[c].pc = "migrate")
        BY <3>9, Zenon DEF RemoveLegacyFile, EndReading, CutShort
      <4>2. call[c].pc = "migrate" => call[c] \in Reading
        BY <1>t, CallKinds DEF InstallerTypeOK
      <4> QED BY <3>5, <3>6, <4>1, <4>2
    <3>10. ASSUME StoreSecret(c) \/ ForgetSecret(c) \/ AddAgain(c) \/ DropToken(c) PROVE FALSE
      <4>1. call[c] \in Token
        BY <1>t, <3>10, CallKinds DEF InstallerTypeOK, StoreSecret, ForgetSecret, AddAgain, DropToken
      <4>2. \/ Becomes(c, Over)
            \/ \E pc \in {"forget", "add", "secret"} : Becomes(c, [call[c] EXCEPT !.pc = pc])
        BY <3>10 DEF StoreSecret, ForgetSecret, AddAgain, DropToken, WriteTokens, WriteShadow
      <4> QED BY <3>5, <3>6, <4>1, <4>2
    <3> QED BY <1>4, <3>1, <3>2, <3>3, <3>7, <3>8, <3>9, <3>10, Zenon DEF CallActs
  <2> QED BY <1>t, <2>3, <2>5, <2>6, <2>7 DEF LegacyInv
<1> QED BY <1>2, <1>3, <1>4, Zenon DEF InstallerNext, CallActs

\* Every step that loses an installation of the legacy file is a request to delete it.
LEMMA LegacyStays ==
  ASSUME LegacyInv, InstallerNext, NEW u \in Legacy,
         (legacy # Absent /\ u \in legacy) \/ dir[u] # Absent \/ u \in aside
  PROVE  (legacy' # Absent /\ u \in legacy') \/ dir'[u] # Absent \/ u \in aside'
            \/ DeleteInstallation(u)
<1>t. InstallerTypeOK /\ u \in Uuids
  BY DEF LegacyInv, CounterInv, Uuids
<1>1. CASE Edit
  BY <1>1, Zenon DEF Edit
<1>2. ASSUME NEW v \in Uuids, DeleteInstallation(v), v # u
      PROVE  (legacy' # Absent /\ u \in legacy') \/ dir'[u] # Absent \/ u \in aside'
  <2>1. legacy' = legacy /\ aside' = aside /\ dir'[u] = dir[u]
    BY <1>t, <1>2 DEF DeleteInstallation, InstallerTypeOK
  <2> QED BY <2>1, Zenon
<1>3. ASSUME NEW c \in Calls, CallActs(c)
      PROVE  (legacy' # Absent /\ u \in legacy') \/ dir'[u] # Absent \/ u \in aside'
  <2>1. LegacyMove(c) /\ (dir[u] # Absent => dir'[u] # Absent)
    BY <1>t, <1>3, FilesMove, Zenon
  <2>2. CASE legacy' = legacy /\ aside' = aside
    BY <2>1, <2>2, Zenon
  <2>3. CASE legacy # Absent /\ legacy' = Absent /\ aside' = legacy
    BY <2>1, <2>3, Zenon DEF LegacyInv
  <2>4. CASE call[c].pc = "migrate" /\ call[c].todo = {} /\ legacy' = Absent /\ aside' = aside /\ dir' = dir
    BY <2>1, <2>4, Zenon DEF LegacyInv
  <2> QED BY <2>1, <2>2, <2>3, <2>4, Zenon DEF LegacyMove
<1> QED BY <1>1, <1>2, <1>3, ZenonT(60) DEF InstallerNext, CallActs

\* LegacyKept in every behaviour, for any installations in the legacy file and any calls: no
\* list, hook or end of the process between two steps of migrate_legacy_installations loses
\* an installation; only a request to delete it does.
THEOREM NoInstallationLost == InstallerSpec => LegacyKept
<1>1. InstallerInit => LegacyInv
  <2> SUFFICES ASSUME InstallerInit PROVE LegacyInv
    OBVIOUS
  <2>1. CounterInv
    BY CounterStart, Zenon
  <2>2. aside = {} /\ \A c \in Calls : call[c].pc # "migrate"
    BY DEF InstallerInit
  <2> QED BY <2>1, <2>2, Zenon DEF LegacyInv
<1> DEFINE in(u, l, d, a) == (l # Absent /\ u \in l) \/ d[u] # Absent \/ u \in a
           Lost(u) == in(u, legacy, dir, aside) /\ ~in(u, legacy', dir', aside')
<1>2. LegacyInv /\ [InstallerNext]_installerVars
         => [\A u \in Legacy : Lost(u) => DeleteInstallation(u)]_installerVars
  <2> SUFFICES ASSUME LegacyInv, InstallerNext, NEW u \in Legacy, Lost(u) PROVE DeleteInstallation(u)
    BY Zenon
  <2> QED BY LegacyStays, Zenon
<1>3. InstallerSpec => [][\A u \in Legacy : Lost(u) => DeleteInstallation(u)]_installerVars
  BY <1>1, <1>2, LegacyStep, PTL DEF InstallerSpec
<1> QED BY <1>3, Zenon DEF LegacyKept

\* What AnswersUnambiguous adds to unique identities
Clear(s) ==
    /\ \A i, j \in DOMAIN s : i # j => ~(s[i].is_default /\ s[j].is_default)
    /\ \A i \in DOMAIN s : Acceptable(s[i])

LEMMA EditsClear ==
  ASSUME InstallerTypeOK, Clear(prepared), Unique(prepared), Edited PROVE Clear(prepared')
<1>t. prepared \in Seq(Answers)
  BY DEF InstallerTypeOK
<1>1. CASE prepared' = prepared
  BY <1>1
<1>2. ASSUME NEW p \in Answers, ~(p.is_default /\ Default(DOMAIN prepared)), Acceptable(p),
             prepared' = Append(prepared, p)
      PROVE  Clear(prepared')
  <2>1. /\ DOMAIN prepared' = 1 .. Len(prepared) + 1
        /\ DOMAIN prepared = 1 .. Len(prepared) /\ Len(prepared) \in Nat
        /\ \A j \in DOMAIN prepared : prepared'[j] = prepared[j]
        /\ prepared'[Len(prepared) + 1] = p
    BY <1>t, <1>2
  <2>2. \A j \in DOMAIN prepared' : j \in DOMAIN prepared \/ j = Len(prepared) + 1
    BY <2>1
  <2> QED BY <1>2, <2>1, <2>2, ZenonT(60) DEF Clear, Default
<1>3. ASSUME NEW p \in Answers, NEW i \in DOMAIN prepared, p.id = prepared[i].id, Acceptable(p),
             p.is_default /\ ~prepared[i].is_default => ~Default(Others(p.id)),
             prepared' = [prepared EXCEPT ![i] = p]
      PROVE  Clear(prepared')
  <2>1. /\ DOMAIN prepared' = DOMAIN prepared
        /\ \A j \in DOMAIN prepared \ {i} : prepared'[j] = prepared[j]
        /\ prepared'[i] = p
    BY <1>t, <1>3
  <2>2. \A j \in DOMAIN prepared \ {i} : j \in Others(p.id)
    BY <1>3 DEF Unique, Others
  <2>3. ASSUME NEW j \in DOMAIN prepared \ {i} PROVE ~(p.is_default /\ prepared[j].is_default)
    BY <1>3, <2>2, <2>3, Zenon DEF Clear, Default
  <2>4. ASSUME NEW j \in DOMAIN prepared, NEW k \in DOMAIN prepared, j # k
        PROVE  ~(prepared'[j].is_default /\ prepared'[k].is_default)
    BY <2>1, <2>3, <2>4, Zenon DEF Clear
  <2>5. \A j \in DOMAIN prepared : Acceptable(prepared'[j])
    BY <1>3, <2>1, Zenon DEF Clear
  <2> QED BY <2>1, <2>4, <2>5, Zenon DEF Clear
<1>4. ASSUME NEW i \in DOMAIN prepared, prepared' = WithoutSection(prepared, i)
      PROVE  Clear(prepared')
  <2> DEFINE At(j) == IF j < i THEN j ELSE j + 1
  <2>1. i \in 1 .. Len(prepared) /\ Len(prepared) \in Nat /\ DOMAIN prepared = 1 .. Len(prepared)
    BY <1>t
  <2>2. prepared' = [j \in 1 .. Len(prepared) - 1 |-> prepared[At(j)]]
    BY <1>4, Zenon DEF WithoutSection
  <2>3. /\ DOMAIN prepared' = 1 .. Len(prepared) - 1
        /\ \A j \in DOMAIN prepared' : At(j) \in DOMAIN prepared /\ prepared'[j] = prepared[At(j)]
        /\ \A j, k \in DOMAIN prepared' : j # k => At(j) # At(k)
    BY <2>1, <2>2
  <2> HIDE DEF At
  <2> QED BY <2>3, Zenon DEF Clear
<1> QED BY <1>1, <1>2, <1>3, <1>4, ZenonT(60) DEF Edited, CreatePrepared, UpdatePrepared, DeletePrepared

\* AnswersUnambiguous in every behaviour: however answers are created, updated and deleted,
\* at most one is the default and each of the others has a filter (create_prepared_answer
\* and update_prepared_answer).
THEOREM OneDefault == InstallerSpec => []AnswersUnambiguous
<1>1. CounterInv /\ Clear(prepared) => AnswersUnambiguous
  BY Zenon DEF CounterInv, Clear, AnswersUnambiguous
<1>2. InstallerInit => Clear(prepared)
  BY DEF InstallerInit, Clear
<1>3. CounterInv /\ Clear(prepared) /\ [InstallerNext]_installerVars => Clear(prepared)'
  <2> SUFFICES ASSUME CounterInv, Clear(prepared), [InstallerNext]_installerVars PROVE Clear(prepared')
    BY Zenon
  <2>t. InstallerTypeOK /\ Unique(prepared)
    BY Zenon DEF CounterInv, Unique
  <2>1. CASE Edited
    BY <2>t, <2>1, EditsClear, Zenon
  <2>2. CASE prepared' = prepared
    BY <2>2, Zenon
  <2>3. ASSUME NEW c \in Calls, CallActs(c) PROVE Clear(prepared')
    <3>1. PICK k \in CallShape : CallMove(c, k)
      BY <2>t, <2>3, OneMoves, Zenon
    <3>2. CASE \E i \in DOMAIN prepared : prepared' = [prepared EXCEPT ![i].counter = Increment(@)]
      <4>1. PICK i \in DOMAIN prepared : prepared' = [prepared EXCEPT ![i].counter = Increment(@)]
        BY <3>2, Zenon
      <4>2. prepared \in Seq(Answers)
        BY <2>t DEF InstallerTypeOK
      <4>3. /\ DOMAIN prepared' = DOMAIN prepared
            /\ \A j \in DOMAIN prepared : /\ prepared'[j].is_default = prepared[j].is_default
                                          /\ prepared'[j].filter = prepared[j].filter
        BY <4>1, <4>2, Incremented
      <4> QED BY <4>3, Zenon DEF Clear, Acceptable
    <3> QED BY <2>2, <3>1, <3>2, Zenon DEF CallMove
  <2>4. CASE UNCHANGED installerVars \/ \E u \in Uuids : DeleteInstallation(u)
    BY <2>2, <2>4, Zenon DEF installerVars, files, DeleteInstallation
  <2> QED BY <2>1, <2>3, <2>4, Zenon DEF InstallerNext, CallActs, Edited
<1> QED BY <1>1, <1>2, <1>3, CounterStart, CounterStep, PTL DEF InstallerSpec
=============================================================================
