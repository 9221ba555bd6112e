------------------------- MODULE OperationsProofs ---------------------------
(***************************************************************************)
(* What the operations on several remotes or records keep when they run    *)
(* side by side or stop half way: the transactions on the SDN              *)
(* configuration of several remotes, and the domains API with its helper.  *)
(***************************************************************************)
EXTENDS SdnTransaction, NexusDomains, TLAPS

(***************************************************************************)
(* The SDN transaction isolates, commits nowhere unless it can everywhere, *)
(* and rolls back without a trace it does not report; for any workers,     *)
(* remotes and requests.                                                   *)
(***************************************************************************)

\* A worker that is locking or calling holds the locks of its clients; nobody but the
\* worker takes one away from it before it ends.
HoldsItsLocks(w) ==
    /\ worker[w].pc = "idle" => worker[w].held = <<>>
    /\ worker[w].pc \in {"lock", "call"} =>
          \A q \in SetOf(worker[w].held) : lock[q] = w

\* Where a call went well the change is pending, and where it is no longer it has been
\* applied.
CallsAreKept(w) ==
    LET me == worker[w] IN
    /\ me.pc = "call" /\ ~me.errors =>
          \A q \in SetOf(me.held) \ me.busy : w \in pending[q]
    /\ me.pc = "apply" =>
          \A q \in SetOf(me.held) : w \in applied[q] \/ (lock[q] = w /\ w \in pending[q])

\* The places where a lock of the worker can be.
LocksAccounted(w) ==
    LET me == worker[w] IN
    \A r \in Remotes : lock[r] = w =>
        /\ me.pc # "idle"
        /\ me.pc \in {"lock", "call"} => r \in SetOf(me.held)
        /\ me.pc = "rollback" => r \in me.busy \cup reported[w]
        /\ me.pc = "rolledback" => r \in reported[w]

\* The places where a pending change of the worker can be.
ChangesAccounted(w) ==
    LET me == worker[w] IN
    \A r \in Remotes : w \in pending[r] =>
        /\ me.pc \notin {"idle", "lock", "release", "unlisted", "unlocked"}
        /\ me.pc \in {"call", "rollback"} => lock[r] = w
        /\ me.pc = "rolledback" => r \in reported[w]

\* Only a worker that got as far as applying has applied anything; or somebody else did,
\* where a worker left its change behind.
AppliedAccounted(w) ==
    \A r \in Remotes : w \in applied[r] =>
        \/ worker[w].pc \in {"apply", "poll", "failed", "ok", "crashed"}
        \/ worker[w].pc = "rolledback" /\ r \in reported[w]

WorkerOK(w) ==
    /\ HoldsItsLocks(w) /\ CallsAreKept(w)
    /\ LocksAccounted(w) /\ ChangesAccounted(w) /\ AppliedAccounted(w)

\* A worker that releases knows which remote it could not lock.
Shapes == TypeOK /\ \A w \in Workers : worker[w].pc = "release" => worker[w].todo # <<>>

IInv == Shapes /\ LockCoversPending /\ \A w \in Workers : WorkerOK(w)

-----------------------------------------------------------------------------
(***************************************************************************)
(* Lists of clients.                                                       *)
(***************************************************************************)

\* A list of remotes names remotes; taking its head or its tail stays within it, and
\* appending a remote adds that one (Vec<LockedSdnClient>).
LEMMA Lists ==
    ASSUME NEW s \in Seq(Remotes), NEW r \in Remotes
    PROVE  /\ SetOf(s) \subseteq Remotes
           /\ s # <<>> => Head(s) \in Remotes /\ Tail(s) \in Seq(Remotes)
           /\ Append(s, r) \in Seq(Remotes) /\ SetOf(Append(s, r)) = SetOf(s) \cup {r}
           /\ <<r>> \in Seq(Remotes)
<1>1. SetOf(s) \subseteq Remotes
  BY DEF SetOf
<1>2. s # <<>> => Head(s) \in Remotes /\ Tail(s) \in Seq(Remotes)
  OBVIOUS
<1>3. Append(s, r) \in Seq(Remotes) /\ <<r>> \in Seq(Remotes)
  OBVIOUS
<1>4. SetOf(Append(s, r)) = SetOf(s) \cup {r}
  <2>1. /\ DOMAIN s = 1 .. Len(s) /\ DOMAIN Append(s, r) = 1 .. Len(s) + 1
        /\ Len(s) \in Nat
    OBVIOUS
  <2>2. /\ Append(s, r)[Len(s) + 1] = r
        /\ \A i \in 1 .. Len(s) : Append(s, r)[i] = s[i]
    OBVIOUS
  <2>3. 1 .. Len(s) + 1 = (1 .. Len(s)) \cup {Len(s) + 1}
    BY <2>1
  <2>. QED  BY <2>1, <2>2, <2>3 DEF SetOf
<1>. QED  BY <1>1, <1>2, <1>3, <1>4

-----------------------------------------------------------------------------
(***************************************************************************)
(* The shapes.                                                             *)
(***************************************************************************)

\* What a request does on a remote keeps the shapes of locks and changes.
LEMMA RemoteTypes ==
    ASSUME TypeOK, NEW w \in Workers, NEW r \in Remotes,
           \/ Nothing \/ Acquire(w, r) \/ Release(w, r)
           \/ Create(w, r) \/ RollBack(w, r) \/ Apply(w, r)
    PROVE  /\ lock' \in [Remotes -> Workers \cup {Free}]
           /\ pending' \in [Remotes -> SUBSET (Workers \cup {Admin})]
           /\ applied' \in [Remotes -> SUBSET Workers]
BY DEF TypeOK, Nothing, Acquire, Release, Create, RollBack, Apply

\* Every step keeps the shapes of remotes and workers.
LEMMA TypeStep == Shapes /\ [Next]_vars => TypeOK'
<1> SUFFICES ASSUME Shapes, [Next]_vars PROVE TypeOK'
  OBVIOUS
<1>t. /\ worker \in [Workers -> Worker] /\ reported \in [Workers -> SUBSET Remotes]
      /\ \A w \in Workers : worker[w] \in Worker
      /\ TypeOK
  BY DEF Shapes, TypeOK
<1>n. ASSUME Nothing
      PROVE  /\ lock' \in [Remotes -> Workers \cup {Free}]
             /\ pending' \in [Remotes -> SUBSET (Workers \cup {Admin})]
             /\ applied' \in [Remotes -> SUBSET Workers]
  BY <1>n, <1>t DEF TypeOK, Nothing
<1>b. ASSUME NEW w \in Workers, NEW new \in Worker, Become(w, new)
      PROVE  worker' \in [Workers -> Worker]
  BY <1>b, <1>t DEF Become
<1>e. ASSUME NEW w \in Workers, NEW pc \in Final, End(w, pc)
      PROVE  worker' \in [Workers -> Worker]
  <2>1. Idle \in Worker
    BY DEF Idle, Worker
  <2>2. worker[w].held \in Seq(Remotes)
    BY <1>t DEF Worker
  <2>3. [Idle EXCEPT !.pc = pc, !.held = worker[w].held] \in Worker
    BY <2>1, <2>2, Zenon DEF Worker, Final
  <2> QED BY <1>e, <1>b, <2>3 DEF End
<1>1. ASSUME NEW w \in Workers, Start(w) PROVE TypeOK'
  <2>1. PICK names \in Requests[w] : Become(w, [worker[w] EXCEPT !.pc = "lock", !.todo = names])
    BY <1>1, Zenon DEF Start
  <2>2. names \in Seq(Remotes)
    BY SdnAssumption
  <2>3. [worker[w] EXCEPT !.pc = "lock", !.todo = names] \in Worker
    BY <2>2, <1>t, ZenonT(60) DEF Worker
  <2>4. worker' \in [Workers -> Worker]
    BY <2>1, <2>3, <1>b
  <2> QED BY <1>1, <2>4, <1>n, <1>t DEF Start, TypeOK
<1>2. ASSUME NEW w \in Workers,
             UnknownRemote(w) \/ Released(w) \/ AllRolledBack(w) \/ AllReloaded(w) \/ Crash(w)
      PROVE  TypeOK'
  <2>1. Nothing /\ UNCHANGED reported
    BY <1>2 DEF UnknownRemote, Released, AllRolledBack, AllReloaded, Crash
  <2>2. \E pc \in Final : End(w, pc)
    BY <1>2 DEF UnknownRemote, Released, AllRolledBack, AllReloaded, Crash, Final
  <2> QED BY <2>1, <2>2, <1>n, <1>e, <1>t DEF TypeOK
<1>3. ASSUME NEW w \in Workers, LockNext(w) PROVE TypeOK'
  <2>. DEFINE r == Head(worker[w].todo)
  <2>1. r \in Remotes /\ Tail(worker[w].todo) \in Seq(Remotes)
    BY <1>3, <1>t, Lists DEF LockNext, Worker
  <2>2. Append(worker[w].held, r) \in Seq(Remotes) /\ <<r>> \in Seq(Remotes)
    BY <2>1, <1>t, Lists DEF Worker
  <2>3. Nothing \/ Acquire(w, r)
    BY <1>3 DEF LockNext
  <2>4. /\ [worker[w] EXCEPT !.todo = Tail(@), !.held = Append(@, r)] \in Worker
        /\ [worker[w] EXCEPT !.pc = "release", !.todo = <<r>>] \in Worker
    BY <2>1, <2>2, <1>t, ZenonT(60) DEF Worker
  <2>5. worker' \in [Workers -> Worker]
    BY <1>3, <2>4, <1>b DEF LockNext
  <2> QED BY <1>3, <2>1, <2>3, <2>5, RemoteTypes, <1>t DEF LockNext, TypeOK
<1>4. ASSUME NEW w \in Workers, ReleaseNext(w) PROVE TypeOK'
  <2>. DEFINE r == Head(worker[w].held)
  <2>1. r \in Remotes /\ Tail(worker[w].held) \in Seq(Remotes)
    BY <1>4, <1>t, Lists DEF ReleaseNext, Worker
  <2>2. [worker[w] EXCEPT !.held = Tail(@)] \in Worker
    BY <2>1, <1>t, ZenonT(60) DEF Worker
  <2>3. Nothing \/ Release(w, r)
    BY <1>4 DEF ReleaseNext
  <2>4. worker' \in [Workers -> Worker]
    BY <1>4, <2>2, <1>b DEF ReleaseNext
  <2>5. reported' \in [Workers -> SUBSET Remotes]
    <3>1. Head(worker[w].todo) \in Remotes
      BY <1>4, <1>t, Lists, <2>1 DEF ReleaseNext, Shapes, Worker
    <3> QED BY <1>4, <3>1, <1>t DEF ReleaseNext
  <2> QED BY <2>1, <2>3, <2>4, <2>5, RemoteTypes, <1>t DEF TypeOK
<1>5. ASSUME NEW w \in Workers, AllLocked(w) \/ AllCalled(w) \/ AllApplied(w) PROVE TypeOK'
  <2>1. SetOf(worker[w].held) \subseteq Remotes
    BY <1>t DEF SetOf, Worker
  <2>2. \A pc \in {"call", "rollback", "apply"} :
           [worker[w] EXCEPT !.pc = pc, !.busy = SetOf(worker[w].held)] \in Worker
    BY <2>1, <1>t, ZenonT(60) DEF Worker
  <2>3. [worker[w] EXCEPT !.pc = "poll"] \in Worker
    BY <1>t, Zenon DEF Worker
  <2>4. worker' \in [Workers -> Worker]
    BY <1>5, <2>2, <2>3, <1>b, Zenon DEF AllLocked, AllCalled, AllApplied
  <2> QED BY <1>5, <2>4, <1>n, <1>t DEF AllLocked, AllCalled, AllApplied, TypeOK
<1>6. ASSUME NEW w \in Workers, NEW r \in Remotes,
             CallReturns(w, r) \/ RollbackReturns(w, r) \/ ApplyReturns(w, r)
      PROVE  TypeOK'
  <2>1. Nothing \/ Create(w, r) \/ RollBack(w, r) \/ Apply(w, r)
    BY <1>6 DEF CallReturns, RollbackReturns, ApplyReturns
  <2>2. /\ [worker[w] EXCEPT !.busy = @ \ {r}] \in Worker
        /\ [worker[w] EXCEPT !.busy = @ \ {r}, !.errors = TRUE] \in Worker
        /\ [worker[w] EXCEPT !.busy = @ \ {r}, !.reload = @ \cup {r}] \in Worker
    BY <1>t, ZenonT(60) DEF Worker
  <2>3. worker' \in [Workers -> Worker]
    BY <1>6, <2>2, <1>b DEF CallReturns, RollbackReturns, ApplyReturns
  <2>4. reported' \in [Workers -> SUBSET Remotes]
    BY <1>6, <1>t DEF CallReturns, RollbackReturns, ApplyReturns
  <2> QED BY <2>1, <2>3, <2>4, RemoteTypes, <1>t DEF TypeOK
<1>7. ASSUME NEW w \in Workers, NEW r \in Remotes, ReloadEnds(w, r) PROVE TypeOK'
  <2>1. \A failed \in BOOLEAN :
           [worker[w] EXCEPT !.reload = @ \ {r}, !.errors = @ \/ failed] \in Worker
    BY <1>t, ZenonT(60) DEF Worker
  <2>2. worker' \in [Workers -> Worker]
    BY <1>7, <2>1, <1>b, Zenon DEF ReloadEnds
  <2> QED BY <1>7, <2>2, <1>n, <1>t DEF ReloadEnds, TypeOK
<1>8. ASSUME NEW r \in Remotes, AdminEdits(r) \/ AdminFlushes(r) \/ AdminUnlocks(r)
      PROVE  TypeOK'
  BY <1>8, <1>t DEF AdminEdits, AdminFlushes, AdminUnlocks, TypeOK
<1>9. CASE UNCHANGED vars
  BY <1>9, <1>t DEF vars, TypeOK
<1> QED
  BY <1>1, <1>2, <1>3, <1>4, <1>5, <1>6, <1>7, <1>8, <1>9 DEF Next, Step

-----------------------------------------------------------------------------
(***************************************************************************)
(* Isolation.                                                              *)
(***************************************************************************)

\* What is pending under a lock is the holder's: the lock is given out over no pending
\* change, and only its holder adds one (lock_sdn with allow_pending = false).
LEMMA IsolationStep == TypeOK /\ LockCoversPending /\ [Next]_vars => LockCoversPending'
<1> SUFFICES ASSUME TypeOK, LockCoversPending, [Next]_vars PROVE LockCoversPending'
  OBVIOUS
<1>1. ASSUME NEW w \in Workers, NEW r \in Remotes,
             \/ Acquire(w, r) \/ Release(w, r)
             \/ Create(w, r) \/ RollBack(w, r) \/ Apply(w, r)
      PROVE  LockCoversPending'
  BY <1>1 DEF LockCoversPending, TypeOK, Acquire, Release, Create, RollBack, Apply
<1>2. ASSUME UNCHANGED <<lock, pending>> PROVE LockCoversPending'
  BY <1>2 DEF LockCoversPending
<1>3. ASSUME NEW w \in Workers, LockNext(w) PROVE LockCoversPending'
  <2>1. Head(worker[w].todo) \in Remotes
    BY <1>3, Lists DEF LockNext, TypeOK, Worker
  <2> QED BY <1>1, <1>2, <1>3, <2>1 DEF LockNext, Nothing
<1>4. ASSUME NEW w \in Workers, ReleaseNext(w) PROVE LockCoversPending'
  <2>1. Head(worker[w].held) \in Remotes
    BY <1>4, Lists DEF ReleaseNext, TypeOK, Worker
  <2> QED BY <1>1, <1>2, <1>4, <2>1 DEF ReleaseNext, Nothing
<1>5. ASSUME NEW r \in Remotes, AdminEdits(r) \/ AdminFlushes(r) \/ AdminUnlocks(r)
      PROVE  LockCoversPending'
  BY <1>5 DEF LockCoversPending, TypeOK, AdminEdits, AdminFlushes, AdminUnlocks
<1>6. ASSUME NEW w \in Workers, NEW r \in Remotes,
             \/ CallReturns(w, r) \/ RollbackReturns(w, r) \/ ApplyReturns(w, r)
             \/ ReloadEnds(w, r)
      PROVE  LockCoversPending'
  BY <1>6, <1>1, <1>2, Zenon
     DEF CallReturns, RollbackReturns, ApplyReturns, ReloadEnds, Nothing
<1>7. ASSUME NEW w \in Workers,
             \/ Start(w) \/ UnknownRemote(w) \/ AllLocked(w) \/ Released(w) \/ AllCalled(w)
             \/ AllRolledBack(w) \/ AllApplied(w) \/ AllReloaded(w) \/ Crash(w)
      PROVE  LockCoversPending'
  BY <1>7, <1>2, Zenon DEF Start, UnknownRemote, AllLocked, Released, AllCalled, AllRolledBack,
                    AllApplied, AllReloaded, Crash, Nothing
<1> QED
  BY <1>2, <1>3, <1>4, <1>5, <1>6, <1>7 DEF Next, Step, vars

-----------------------------------------------------------------------------
(***************************************************************************)
(* The other workers.                                                      *)
(***************************************************************************)

\* Nothing that concerns the worker changes.
Unseen(v) ==
    /\ worker'[v] = worker[v] /\ reported'[v] = reported[v]
    /\ \A r \in Remotes : /\ lock'[r] = v <=> lock[r] = v
                          /\ v \in pending'[r] <=> v \in pending[r]
                          /\ v \in applied'[r] <=> v \in applied[r]

\* A worker that a step does not concern stays as it should be.
LEMMA Bystander ==
    ASSUME TypeOK, NEW v \in Workers, WorkerOK(v), Unseen(v)
    PROVE  WorkerOK(v)'
<1>1. SetOf(worker[v].held) \subseteq Remotes /\ SetOf(worker[v].held)' = SetOf(worker[v].held)
  BY Lists DEF TypeOK, Worker, SetOf, Unseen
<1>2. HoldsItsLocks(v)'
  BY <1>1, Zenon DEF WorkerOK, HoldsItsLocks, Unseen
<1>3. CallsAreKept(v)'
  BY <1>1 DEF WorkerOK, CallsAreKept, Unseen
<1>4. LocksAccounted(v)'
  BY <1>1 DEF WorkerOK, LocksAccounted, Unseen
<1>5. ChangesAccounted(v)' /\ AppliedAccounted(v)'
  BY DEF WorkerOK, ChangesAccounted, AppliedAccounted, Unseen
<1> QED BY <1>2, <1>3, <1>4, <1>5, Zenon DEF WorkerOK

\* A request of one worker on a remote does not concern another: what it rolls back or
\* applies is pending under its own lock.
LEMMA RequestUnseen ==
    ASSUME TypeOK, LockCoversPending, NEW w \in Workers, NEW r \in Remotes,
           \/ Nothing \/ Acquire(w, r) \/ Release(w, r)
           \/ Create(w, r) \/ RollBack(w, r) \/ Apply(w, r),
           NEW v \in Workers \ {w},
           worker'[v] = worker[v], reported'[v] = reported[v]
    PROVE  Unseen(v)
<1>1. v # Free /\ w # Free
  BY SdnAssumption
<1>2. lock[r] = w => v \notin pending[r]
  BY <1>1 DEF LockCoversPending
<1>3. CASE Nothing BY <1>3 DEF Nothing, Unseen
<1>4. CASE Acquire(w, r) BY <1>1, <1>4 DEF Acquire, Unseen, TypeOK
<1>5. CASE Release(w, r) BY <1>1, <1>5 DEF Release, Unseen, TypeOK
<1>6. CASE Create(w, r) BY <1>1, <1>6 DEF Create, Unseen, TypeOK
<1>7. CASE RollBack(w, r) BY <1>1, <1>2, <1>7 DEF RollBack, Unseen, TypeOK
<1>8. CASE Apply(w, r) BY <1>1, <1>2, <1>8 DEF Apply, Unseen, TypeOK
<1> QED BY <1>3, <1>4, <1>5, <1>6, <1>7, <1>8

-----------------------------------------------------------------------------
(***************************************************************************)
(* The worker whose step it is.                                            *)
(***************************************************************************)

\* Steps that send nothing: begin, give up, and go from one phase to the next.
LEMMA LocalStep ==
    ASSUME TypeOK, NEW w \in Workers, WorkerOK(w), Nothing, UNCHANGED reported,
           \/ Start(w) \/ UnknownRemote(w) \/ AllLocked(w) \/ Released(w) \/ AllCalled(w)
           \/ AllRolledBack(w) \/ AllApplied(w) \/ AllReloaded(w) \/ Crash(w)
           \/ \E r \in Remotes : ReloadEnds(w, r)
    PROVE  WorkerOK(w)'
<1> DEFINE me == worker[w]
           new == worker'[w]
<1> USE DEF Nothing
<1>t. me \in Worker /\ worker \in [Workers -> Worker] /\ SetOf(me.held) \subseteq Remotes
  BY DEF TypeOK, Worker, SetOf
<1>1. CASE Start(w)
  <2>1. me.pc = "idle" /\ new.pc = "lock" /\ new.held = me.held
    <3>1. PICK names \in Requests[w] : Become(w, [me EXCEPT !.pc = "lock", !.todo = names])
      BY <1>1, Zenon DEF Start
    <3>2. new = [me EXCEPT !.pc = "lock", !.todo = names]
      BY <3>1, <1>t DEF Become
    <3> QED BY <1>1, <3>2, <1>t, Zenon DEF Start, Worker
  <2>2. new.held = <<>> /\ SetOf(<<>>) = {}
    BY <2>1 DEF WorkerOK, HoldsItsLocks, SetOf
  <2>3. HoldsItsLocks(w)' /\ CallsAreKept(w)'
    BY <2>1, <2>2, Zenon DEF WorkerOK, HoldsItsLocks, CallsAreKept
  <2>4. LocksAccounted(w)'
    BY <2>1, <2>2, Zenon DEF WorkerOK, LocksAccounted
  <2>5. ChangesAccounted(w)' /\ AppliedAccounted(w)'
    BY <2>1, <2>2 DEF WorkerOK, ChangesAccounted, AppliedAccounted
  <2> QED BY <2>3, <2>4, <2>5, Zenon DEF WorkerOK
<1>2. CASE AllLocked(w)
  <2>1. /\ me.pc = "lock" /\ new.pc = "call" /\ new.held = me.held
        /\ new.busy = SetOf(me.held) /\ new.errors = me.errors
    BY <1>2, <1>t, ZenonT(60) DEF AllLocked, Become, Worker
  <2>2. HoldsItsLocks(w)' /\ CallsAreKept(w)'
    BY <2>1, <1>t DEF WorkerOK, HoldsItsLocks, CallsAreKept
  <2>3. LocksAccounted(w)'
    BY <2>1, <1>t, ZenonT(60) DEF WorkerOK, LocksAccounted
  <2>4. ChangesAccounted(w)' /\ AppliedAccounted(w)'
    BY <2>1, <1>t DEF WorkerOK, ChangesAccounted, AppliedAccounted
  <2> QED BY <2>2, <2>3, <2>4, Zenon DEF WorkerOK
<1>3. CASE AllCalled(w)
  <2>1. /\ me.pc = "call" /\ me.busy = {} /\ new.held = me.held
        /\ new.busy = SetOf(me.held)
        /\ new.pc = IF me.errors THEN "rollback" ELSE "apply"
    BY <1>3, <1>t, Zenon DEF AllCalled, Become, Worker
  <2>2. HoldsItsLocks(w)'
    BY <2>1, <1>t, Zenon DEF WorkerOK, HoldsItsLocks
  <2>3. CallsAreKept(w)'
    BY <2>1, <1>t, Zenon DEF WorkerOK, CallsAreKept, HoldsItsLocks
  <2>4. LocksAccounted(w)'
    BY <2>1, <1>t, Zenon DEF WorkerOK, LocksAccounted
  <2>5. ChangesAccounted(w)' /\ AppliedAccounted(w)'
    BY <2>1, <1>t, ZenonT(60) DEF WorkerOK, ChangesAccounted, AppliedAccounted
  <2> QED BY <2>2, <2>3, <2>4, <2>5, Zenon DEF WorkerOK
<1>4. CASE AllApplied(w)
  <2>1. me.pc = "apply" /\ new.pc = "poll"
    BY <1>4, <1>t, ZenonT(60) DEF AllApplied, Become, Worker
  <2> QED BY <2>1 DEF WorkerOK, HoldsItsLocks, CallsAreKept, LocksAccounted,
                      ChangesAccounted, AppliedAccounted
<1>5. CASE \E r \in Remotes : ReloadEnds(w, r)
  <2>1. me.pc = "poll" /\ new.pc = "poll"
    BY <1>5, <1>t, ZenonT(60) DEF ReloadEnds, Become, Worker
  <2> QED BY <2>1 DEF WorkerOK, HoldsItsLocks, CallsAreKept, LocksAccounted,
                      ChangesAccounted, AppliedAccounted
<1>6. CASE UnknownRemote(w)
  <2>1. me.pc = "lock" /\ new.pc = "unlisted"
    BY <1>6, <1>t DEF UnknownRemote, End, Become, Idle
  <2> QED BY <2>1, Zenon DEF WorkerOK, HoldsItsLocks, CallsAreKept, LocksAccounted,
                      ChangesAccounted, AppliedAccounted
<1>7. CASE Released(w)
  <2>1. me.pc = "release" /\ new.pc = "unlocked"
    BY <1>7, <1>t DEF Released, End, Become, Idle
  <2> QED BY <2>1, Zenon DEF WorkerOK, HoldsItsLocks, CallsAreKept, LocksAccounted,
                      ChangesAccounted, AppliedAccounted
<1>8. CASE AllRolledBack(w)
  <2>1. me.pc = "rollback" /\ me.busy = {} /\ new.pc = "rolledback"
    BY <1>8, <1>t DEF AllRolledBack, End, Become, Idle
  <2> QED BY <2>1, Zenon DEF WorkerOK, HoldsItsLocks, CallsAreKept, LocksAccounted,
                      ChangesAccounted, AppliedAccounted
<1>9. CASE AllReloaded(w)
  <2>1. me.pc = "poll" /\ new.pc \in {"failed", "ok"}
    BY <1>9, <1>t DEF AllReloaded, End, Become, Idle
  <2> QED BY <2>1, Zenon DEF WorkerOK, HoldsItsLocks, CallsAreKept, LocksAccounted,
                      ChangesAccounted, AppliedAccounted
<1>10. CASE Crash(w)
  <2>1. new.pc = "crashed"
    BY <1>10, <1>t DEF Crash, End, Become, Idle
  <2> QED BY <2>1 DEF WorkerOK, HoldsItsLocks, CallsAreKept, LocksAccounted,
                      ChangesAccounted, AppliedAccounted
<1> QED BY <1>1, <1>2, <1>3, <1>4, <1>5, <1>6, <1>7, <1>8, <1>9, <1>10, Zenon

\* Locking goes on with one lock more, or turns to releasing; a lock whose answer was
\* lost is not among the clients (from_remote_names).
LEMMA LockStep ==
    ASSUME TypeOK, NEW w \in Workers, WorkerOK(w), LockNext(w) \/ ReleaseNext(w)
    PROVE  WorkerOK(w)'
<1> DEFINE me == worker[w]
           new == worker'[w]
<1>t. me \in Worker /\ worker \in [Workers -> Worker]
  BY DEF TypeOK
<1>f. w # Free
  BY SdnAssumption
<1>1. CASE LockNext(w)
  <2> DEFINE r == Head(me.todo)
  <2>1. r \in Remotes /\ me.pc = "lock"
    BY <1>1, <1>t, Lists DEF LockNext, Worker
  <2>2. SetOf(Append(me.held, r)) = SetOf(me.held) \cup {r} /\ SetOf(me.held) \subseteq Remotes
    BY <2>1, <1>t, Lists DEF Worker
  <2>3. CASE Acquire(w, r) /\ new.pc = "lock" /\ new.held = Append(me.held, r)
    <3>1. /\ \A q \in Remotes : lock'[q] = IF q = r THEN w ELSE lock[q]
          /\ pending' = pending /\ applied' = applied
      BY <2>3, <2>1, ZenonT(60) DEF Acquire, TypeOK
    <3>2. HoldsItsLocks(w)'
      BY <2>1, <2>2, <2>3, <3>1 DEF WorkerOK, HoldsItsLocks
    <3>3. CallsAreKept(w)'
      BY <2>1, <2>2, <2>3, <3>1, ZenonT(60) DEF WorkerOK, CallsAreKept
    <3>4. LocksAccounted(w)'
      BY <2>1, <2>2, <2>3, <3>1 DEF WorkerOK, LocksAccounted
    <3>5. ChangesAccounted(w)' /\ AppliedAccounted(w)'
      BY <2>1, <2>2, <2>3, <3>1, Zenon DEF WorkerOK, ChangesAccounted, AppliedAccounted
    <3> QED BY <3>2, <3>3, <3>4, <3>5, Zenon DEF WorkerOK
  <2>4. CASE (Acquire(w, r) \/ Nothing) /\ new.pc = "release"
    <3>1. pending' = pending /\ applied' = applied
      BY <2>4 DEF Acquire, Nothing
    <3> QED BY <2>1, <2>4, <3>1, Zenon DEF WorkerOK, HoldsItsLocks, CallsAreKept,
                LocksAccounted, ChangesAccounted, AppliedAccounted
  <2>5. \/ /\ Acquire(w, r)
           /\ new = [me EXCEPT !.todo = Tail(@), !.held = Append(@, r)]
        \/ /\ Acquire(w, r) \/ Nothing
           /\ new = [me EXCEPT !.pc = "release", !.todo = <<r>>]
    BY <1>1, <1>t DEF LockNext, Become
  <2> QED BY <2>1, <2>3, <2>4, <2>5, <1>t, Zenon DEF Worker
<1>2. CASE ReleaseNext(w)
  <2>1. me.pc = "release" /\ new.pc = "release"
    BY <1>2, <1>t, Zenon DEF ReleaseNext, Become, Worker
  <2>2. pending' = pending /\ applied' = applied
    BY <1>2, Zenon DEF ReleaseNext, Release, Nothing
  <2>3. HoldsItsLocks(w)'
    BY <2>1, <2>2, Zenon DEF WorkerOK, HoldsItsLocks
  <2>4. CallsAreKept(w)'
    BY <2>1, <2>2, Zenon DEF WorkerOK, CallsAreKept
  <2>5. LocksAccounted(w)'
    BY <2>1, <2>2, Zenon DEF WorkerOK, LocksAccounted
  <2>6. ChangesAccounted(w)' /\ AppliedAccounted(w)'
    BY <2>1, <2>2 DEF WorkerOK, ChangesAccounted, AppliedAccounted
  <2> QED BY <2>3, <2>4, <2>5, <2>6, Zenon DEF WorkerOK
<1> QED BY <1>1, <1>2

\* A call, a rollback or an apply has returned on one of the remotes; without an answer
\* it may have had its effect or not (for_each, apply_and_release).
LEMMA ReturnStep ==
    ASSUME TypeOK, NEW w \in Workers, NEW r \in Remotes, WorkerOK(w),
           CallReturns(w, r) \/ RollbackReturns(w, r) \/ ApplyReturns(w, r)
    PROVE  WorkerOK(w)'
<1> DEFINE me == worker[w]
           new == worker'[w]
<1>t. /\ me \in Worker /\ worker \in [Workers -> Worker] /\ SetOf(me.held) \subseteq Remotes
      /\ reported \in [Workers -> SUBSET Remotes]
  BY Lists DEF TypeOK, Worker
<1>f. w # Free /\ w # Admin
  BY SdnAssumption, Zenon
<1>1. CASE CallReturns(w, r)
  <2>1. /\ me.pc = "call" /\ new.pc = "call" /\ new.held = me.held
        /\ new.busy = me.busy \ {r}
        /\ Create(w, r) \/ (Nothing /\ new.errors)
        /\ me.errors => new.errors
        /\ reported' = reported
    <3>1. \/ Create(w, r) /\ new = [me EXCEPT !.busy = @ \ {r}]
          \/ /\ Create(w, r) \/ Nothing
             /\ new = [me EXCEPT !.busy = @ \ {r}, !.errors = TRUE]
      BY <1>1, <1>t, Zenon DEF CallReturns, Become
    <3>2. me.pc = "call" /\ reported' = reported
      BY <1>1 DEF CallReturns
    <3> QED BY <3>1, <3>2, <1>t, ZenonT(60) DEF Worker
  <2>2. /\ lock' = lock /\ applied' = applied
        /\ \A q \in Remotes : pending[q] \subseteq pending'[q]
        /\ \A q \in Remotes : w \in pending'[q] => w \in pending[q] \/ lock[q] = w
        /\ new.errors \/ w \in pending'[r]
    BY <2>1, ZenonT(60) DEF Create, Nothing, TypeOK
  <2>3. HoldsItsLocks(w)' /\ CallsAreKept(w)'
    BY <2>1, <2>2, <1>t DEF WorkerOK, HoldsItsLocks, CallsAreKept
  <2>4. LocksAccounted(w)'
    BY <2>1, <2>2, <1>t DEF WorkerOK, LocksAccounted
  <2>5. ChangesAccounted(w)' /\ AppliedAccounted(w)'
    BY <2>1, <2>2, <1>t DEF WorkerOK, ChangesAccounted, AppliedAccounted
  <2> QED BY <2>3, <2>4, <2>5, Zenon DEF WorkerOK
<1>2. CASE RollbackReturns(w, r)
  <2>1. /\ me.pc = "rollback" /\ new.pc = "rollback" /\ new.busy = me.busy \ {r}
        /\ reported[w] \subseteq reported'[w]
        /\ RollBack(w, r) \/ (Nothing /\ r \in reported'[w])
    BY <1>2, <1>t DEF RollbackReturns, Become, Worker
  <2>2. /\ applied' = applied
        /\ \A q \in Remotes \ {r} : lock'[q] = lock[q] /\ pending'[q] = pending[q]
        /\ r \in reported'[w] \/ lock'[r] # w
        /\ \/ lock'[r] = lock[r] /\ pending'[r] = pending[r]
           \/ pending'[r] = {} /\ lock'[r] # w
    BY <2>1, <1>f, ZenonT(60) DEF RollBack, Nothing, TypeOK
  <2>3. HoldsItsLocks(w)'
    BY <2>1, <2>2, Zenon DEF WorkerOK, HoldsItsLocks
  <2>4. CallsAreKept(w)'
    BY <2>1, <2>2, Zenon DEF WorkerOK, CallsAreKept
  <2>5. LocksAccounted(w)'
    BY <2>1, <2>2, Zenon DEF WorkerOK, LocksAccounted
  <2>6. ChangesAccounted(w)' /\ AppliedAccounted(w)'
    BY <2>1, <2>2 DEF WorkerOK, ChangesAccounted, AppliedAccounted
  <2> QED BY <2>3, <2>4, <2>5, <2>6, Zenon DEF WorkerOK
<1>3. CASE ApplyReturns(w, r)
  <2>1. /\ me.pc = "apply" /\ new.pc = "apply" /\ new.held = me.held
        /\ Apply(w, r) \/ Nothing
    BY <1>3, <1>t, ZenonT(60) DEF ApplyReturns, Become, Worker
  <2>2. /\ \A q \in Remotes \ {r} : /\ lock'[q] = lock[q] /\ pending'[q] = pending[q]
                                    /\ applied'[q] = applied[q]
        /\ \/ /\ lock'[r] = lock[r] /\ pending'[r] = pending[r] /\ applied'[r] = applied[r]
           \/ w \in applied[r] \cup pending[r] => w \in applied'[r]
        /\ applied[r] \subseteq applied'[r]
    BY <2>1, <1>f DEF Apply, Nothing, TypeOK
  <2>3. HoldsItsLocks(w)'
    BY <2>1, <2>2, <1>t DEF WorkerOK, HoldsItsLocks
  <2>4. CallsAreKept(w)'
    BY <2>1, <2>2, <1>t DEF WorkerOK, CallsAreKept
  <2>5. LocksAccounted(w)'
    BY <2>1, <2>2, <1>t, Zenon DEF WorkerOK, LocksAccounted
  <2>6. ChangesAccounted(w)' /\ AppliedAccounted(w)'
    BY <2>1, <2>2, <1>t, Zenon DEF WorkerOK, ChangesAccounted, AppliedAccounted
  <2> QED BY <2>3, <2>4, <2>5, <2>6, Zenon DEF WorkerOK
<1> QED BY <1>1, <1>2, <1>3, Zenon

-----------------------------------------------------------------------------
(***************************************************************************)
(* The whole system.                                                       *)
(***************************************************************************)

\* A worker that releases knows which remote it could not lock: the release loop starts
\* from one and keeps it.
LEMMA ShapesStep == Shapes /\ [Next]_vars => Shapes'
<1> SUFFICES ASSUME Shapes, [Next]_vars PROVE Shapes'
  OBVIOUS
<1>t. TypeOK /\ worker \in [Workers -> Worker]
  BY DEF Shapes, TypeOK
<1>1. ASSUME NEW w \in Workers, worker'[w].pc = "release" PROVE worker'[w].todo # <<>>
  <2>1. CASE worker'[w] = worker[w]
    BY <1>1, <2>1 DEF Shapes
  <2>2. CASE LockNext(w)
    <3>1. \/ worker'[w] = [worker[w] EXCEPT !.todo = Tail(@), !.held = Append(@, Head(worker[w].todo))]
          \/ worker'[w] = [worker[w] EXCEPT !.pc = "release", !.todo = <<Head(worker[w].todo)>>]
      BY <2>2, <1>t DEF LockNext, Become
    <3>2. worker'[w].todo = <<Head(worker[w].todo)>>
      BY <1>1, <2>2, <3>1, <1>t, Zenon DEF LockNext, Worker
    <3> QED BY <3>2
  <2>3. CASE ReleaseNext(w)
    <3>1. worker[w].pc = "release" /\ worker'[w] = [worker[w] EXCEPT !.held = Tail(@)]
      BY <2>3, <1>t DEF ReleaseNext, Become
    <3>2. worker'[w].todo = worker[w].todo
      BY <3>1, <1>t DEF Worker
    <3> QED BY <3>1, <3>2 DEF Shapes
  <2>4. CASE \E pc \in Final : End(w, pc)
    BY <1>1, <2>4, <1>t DEF End, Become, Idle, Final
  <2>5. CASE worker'[w].pc \in {"lock", "call", "rollback", "apply", "poll"}
    BY <1>1, <2>5
  <2>6. ASSUME NEW v \in Workers, Start(v) \/ Step(v) \/ Crash(v), v # w
        PROVE  worker'[w] = worker[w]
    BY <2>6, <1>t, Zenon
       DEF Start, Step, Crash, UnknownRemote, LockNext, AllLocked, ReleaseNext, Released,
           AllCalled, AllRolledBack, AllApplied, AllReloaded, CallReturns, RollbackReturns,
           ApplyReturns, ReloadEnds, End, Become
  <2>7. ASSUME Start(w) \/ AllLocked(w) \/ AllCalled(w) \/ AllApplied(w)
        PROVE  worker'[w].pc \in {"lock", "call", "rollback", "apply", "poll"}
    <3>1. CASE Start(w)
      <4>1. PICK names \in Requests[w] :
               worker'[w] = [worker[w] EXCEPT !.pc = "lock", !.todo = names]
        BY <3>1, <1>t, Zenon DEF Start, Become
      <4> QED BY <4>1, <1>t DEF Worker
    <3>2. CASE AllLocked(w) \/ AllCalled(w)
      <4>1. \E pc \in {"call", "rollback", "apply"} :
               worker'[w] = [worker[w] EXCEPT !.pc = pc, !.busy = SetOf(worker[w].held)]
        BY <3>2, <1>t, Zenon DEF AllLocked, AllCalled, Become
      <4> QED BY <4>1, <1>t DEF Worker
    <3>3. CASE AllApplied(w)
      BY <3>3, <1>t DEF AllApplied, Become, Worker
    <3> QED BY <2>7, <3>1, <3>2, <3>3
  <2>8. ASSUME NEW r \in Remotes,
               \/ CallReturns(w, r) \/ RollbackReturns(w, r) \/ ApplyReturns(w, r)
               \/ ReloadEnds(w, r)
        PROVE  worker'[w].pc \in {"lock", "call", "rollback", "apply", "poll"}
    BY <2>8, <1>t, ZenonT(60) DEF CallReturns, RollbackReturns, ApplyReturns, ReloadEnds, Become, Worker
  <2>9. ASSUME UnknownRemote(w) \/ Released(w) \/ AllRolledBack(w) \/ AllReloaded(w) \/ Crash(w)
        PROVE  \E pc \in Final : End(w, pc)
    BY <2>9 DEF UnknownRemote, Released, AllRolledBack, AllReloaded, Crash, Final
  <2>10. ASSUME \E r \in Remotes : AdminEdits(r) \/ AdminFlushes(r) \/ AdminUnlocks(r)
         PROVE  worker'[w] = worker[w]
    BY <2>10, Zenon DEF AdminEdits, AdminFlushes, AdminUnlocks
  <2> QED BY <2>1, <2>2, <2>3, <2>4, <2>5, <2>6, <2>7, <2>8, <2>9, <2>10, Zenon DEF Next, Step, vars
<1> QED BY <1>1, TypeStep DEF Shapes

\* Somebody who works on a remote directly leaves every worker as it should be: a lock
\* is only taken from a worker that has ended, and what is flushed was left behind.
LEMMA AdminStep ==
    ASSUME TypeOK, NEW v \in Workers, WorkerOK(v), NEW r \in Remotes,
           AdminEdits(r) \/ AdminFlushes(r) \/ AdminUnlocks(r)
    PROVE  WorkerOK(v)'
<1>f. v # Free /\ v # Admin
  BY SdnAssumption
<1>t. SetOf(worker[v].held) \subseteq Remotes /\ worker' = worker /\ reported' = reported
  BY DEF TypeOK, Worker, SetOf, AdminEdits, AdminFlushes, AdminUnlocks
<1>1. CASE AdminEdits(r)
  <2>1. Unseen(v)
    BY <1>1, <1>f, Zenon DEF AdminEdits, Unseen, TypeOK
  <2> QED BY <2>1, Bystander
<1>2. CASE AdminFlushes(r)
  <2>1. /\ lock' = lock /\ lock[r] # v
        /\ \A q \in Remotes \ {r} : pending'[q] = pending[q] /\ applied'[q] = applied[q]
        /\ pending'[r] = {} /\ applied[r] \subseteq applied'[r]
        /\ v \in applied'[r] => v \in applied[r] \cup pending[r]
    BY <1>2, <1>f, Zenon DEF AdminFlushes, TypeOK
  <2>2. v \in pending[r] => \/ worker[v].pc \in {"apply", "poll", "failed", "ok", "crashed"}
                            \/ worker[v].pc = "rolledback" /\ r \in reported[v]
    BY <2>1, Zenon DEF WorkerOK, ChangesAccounted, TypeOK, Worker
  <2>3. HoldsItsLocks(v)'
    BY <2>1, <2>2, <1>t, Zenon DEF WorkerOK, HoldsItsLocks
  <2>6. CallsAreKept(v)'
    BY <2>1, <2>2, <1>t DEF WorkerOK, CallsAreKept
  <2>4. LocksAccounted(v)'
    BY <2>1, <2>2, <1>t, Zenon DEF WorkerOK, LocksAccounted
  <2>5. ChangesAccounted(v)' /\ AppliedAccounted(v)'
    BY <2>1, <2>2, <1>t DEF WorkerOK, ChangesAccounted, AppliedAccounted
  <2> QED BY <2>3, <2>4, <2>5, <2>6, Zenon DEF WorkerOK
<1>3. CASE AdminUnlocks(r)
  <2>1. /\ pending' = pending /\ applied' = applied
        /\ \A q \in Remotes \ {r} : lock'[q] = lock[q]
        /\ lock'[r] # v
        /\ lock[r] = v => worker[v].pc \in Final
    BY <1>3, <1>f, ZenonT(60) DEF AdminUnlocks, TypeOK
  <2>2. HoldsItsLocks(v)'
    BY <2>1, <1>t DEF WorkerOK, HoldsItsLocks, Final
  <2>3. CallsAreKept(v)'
    BY <2>1, <1>t DEF WorkerOK, CallsAreKept, Final
  <2>4. LocksAccounted(v)'
    BY <2>1, <1>t, ZenonT(60) DEF WorkerOK, LocksAccounted, Final
  <2>5. ChangesAccounted(v)' /\ AppliedAccounted(v)'
    BY <2>1, <1>t DEF WorkerOK, ChangesAccounted, AppliedAccounted, Final
  <2> QED BY <2>2, <2>3, <2>4, <2>5, Zenon DEF WorkerOK
<1> QED BY <1>1, <1>2, <1>3

\* IInv is inductive.
LEMMA InvStep == IInv /\ [Next]_vars => IInv'
<1> SUFFICES ASSUME IInv, [Next]_vars PROVE IInv'
  OBVIOUS
<1>t. TypeOK /\ Shapes /\ LockCoversPending
  BY DEF IInv, Shapes
<1>1. ASSUME NEW v \in Workers PROVE WorkerOK(v)'
  <2>v. WorkerOK(v)
    BY Zenon DEF IInv
  <2>1. CASE UNCHANGED vars
    BY <2>1, <2>v, <1>t, Bystander DEF vars, Unseen
  <2>2. ASSUME NEW r \in Remotes, AdminEdits(r) \/ AdminFlushes(r) \/ AdminUnlocks(r)
        PROVE  WorkerOK(v)'
    BY <2>2, <2>v, <1>t, AdminStep
  <2>3. ASSUME NEW w \in Workers \ {v}, Start(w) \/ Step(w) \/ Crash(w)
        PROVE  WorkerOK(v)'
    <3>1. worker'[v] = worker[v]
      BY <2>3, <1>t, ZenonT(60)
         DEF Start, Step, Crash, UnknownRemote, LockNext, AllLocked, ReleaseNext, Released,
             AllCalled, AllRolledBack, AllApplied, AllReloaded, CallReturns,
             RollbackReturns, ApplyReturns, ReloadEnds, End, Become, TypeOK
    <3>2. reported'[v] = reported[v]
      BY <2>3, <1>t, Zenon
         DEF Start, Step, Crash, UnknownRemote, LockNext, AllLocked, ReleaseNext, Released,
             AllCalled, AllRolledBack, AllApplied, AllReloaded, CallReturns,
             RollbackReturns, ApplyReturns, ReloadEnds, TypeOK
    <3>3. \/ Nothing
          \/ \E r \in Remotes : \/ Acquire(w, r) \/ Release(w, r) \/ Create(w, r)
                                \/ RollBack(w, r) \/ Apply(w, r)
      <4>1. CASE LockNext(w)
        BY <4>1, <1>t, Lists DEF LockNext, TypeOK, Worker
      <4>2. CASE ReleaseNext(w)
        BY <4>2, <1>t, Lists DEF ReleaseNext, TypeOK, Worker
      <4>3. ASSUME NEW r \in Remotes,
                   \/ CallReturns(w, r) \/ RollbackReturns(w, r) \/ ApplyReturns(w, r)
                   \/ ReloadEnds(w, r)
            PROVE  \/ Nothing \/ Create(w, r) \/ RollBack(w, r) \/ Apply(w, r)
        BY <4>3, Zenon DEF CallReturns, RollbackReturns, ApplyReturns, ReloadEnds
      <4> QED
        BY <2>3, <4>1, <4>2, <4>3, Zenon
           DEF Start, Step, Crash, UnknownRemote, AllLocked, Released, AllCalled,
               AllRolledBack, AllApplied, AllReloaded
    <3>4. Unseen(v)
      BY <3>1, <3>2, <3>3, <1>t, RequestUnseen, Zenon DEF Nothing, Unseen
    <3> QED BY <3>4, <2>v, <1>t, Bystander
  <2>4. CASE Start(v) \/ Step(v) \/ Crash(v)
    <3>1. CASE LockNext(v) \/ ReleaseNext(v)
      BY <3>1, <2>v, <1>t, LockStep
    <3>2. ASSUME NEW r \in Remotes,
                 CallReturns(v, r) \/ RollbackReturns(v, r) \/ ApplyReturns(v, r)
          PROVE  WorkerOK(v)'
      BY <3>2, <2>v, <1>t, ReturnStep, Zenon
    <3>3. ASSUME \/ Start(v) \/ UnknownRemote(v) \/ AllLocked(v) \/ Released(v) \/ AllCalled(v)
                 \/ AllRolledBack(v) \/ AllApplied(v) \/ AllReloaded(v) \/ Crash(v)
                 \/ \E r \in Remotes : ReloadEnds(v, r)
          PROVE  WorkerOK(v)'
      <4>1. Nothing /\ UNCHANGED reported
        BY <3>3, Zenon DEF Start, UnknownRemote, AllLocked, Released, AllCalled, AllRolledBack,
                    AllApplied, AllReloaded, Crash, ReloadEnds
      <4> QED BY <3>3, <4>1, <2>v, <1>t, LocalStep
    <3> QED BY <2>4, <3>1, <3>2, <3>3 DEF Step
  <2> QED BY <2>1, <2>2, <2>3, <2>4 DEF Next
<1> QED BY <1>1, <1>t, ShapesStep, IsolationStep, Zenon DEF IInv

\* Nothing has happened yet.
LEMMA InvInit == Init => IInv
<1> SUFFICES ASSUME Init PROVE IInv
  BY Zenon
<1>1. Idle \in Worker
  BY DEF Idle, Worker
<1>2. TypeOK /\ \A w \in Workers : worker[w] = Idle
  BY <1>1, Zenon DEF Init, TypeOK
<1>3. Shapes
  BY <1>2 DEF Shapes, Idle
<1>4. LockCoversPending
  BY Zenon DEF Init, LockCoversPending
<1>5. ASSUME NEW w \in Workers PROVE WorkerOK(w)
  <2>1. worker[w].pc = "idle" /\ worker[w].held = <<>>
    BY <1>2 DEF Idle
  <2>2. \A r \in Remotes : lock[r] # w /\ pending[r] = {} /\ applied[r] = {}
    BY SdnAssumption DEF Init
  <2> QED BY <2>1, <2>2, Zenon DEF WorkerOK, HoldsItsLocks, CallsAreKept, LocksAccounted,
                            ChangesAccounted, AppliedAccounted
<1> QED BY <1>3, <1>4, <1>5 DEF IInv

\* The inductive invariant holds of the workers of create_zone and create_vnet.
THEOREM Invariance == Spec => []IInv
BY InvInit, InvStep, PTL DEF Spec

\* While a worker has a remote locked nothing but its own change is pending there.
THEOREM Isolation == Spec => []LockCoversPending
<1>1. IInv => LockCoversPending
  BY ZenonT(60) DEF IInv
<1> QED BY <1>1, Invariance, PTL

\* A transaction that for_each has rolled back has left nothing behind but on the remotes
\* it reports.
THEOREM RollbackLeavesNothing == Spec => []RolledBackLeavesNothing
<1>1. IInv => RolledBackLeavesNothing
  BY DEF IInv, WorkerOK, LocksAccounted, ChangesAccounted, AppliedAccounted,
         RolledBackLeavesNothing
<1> QED BY <1>1, Invariance, PTL

\* No step of a worker makes its change live anywhere before the call went well on every
\* remote of the request.
THEOREM Atomicity == Spec => NoPartialCommit
<1> DEFINE Whole ==
      \A w \in Workers, r \in Remotes :
          lock[r] = w /\ w \in applied'[r] \ applied[r]
             => \A q \in SetOf(worker[w].held) : w \in pending[q] \cup applied[q]
<1>1. IInv /\ [Next]_vars => Whole
  <2> SUFFICES ASSUME IInv, [Next]_vars, NEW w \in Workers, NEW r \in Remotes,
                      lock[r] = w, w \in applied'[r], w \notin applied[r]
               PROVE  \A q \in SetOf(worker[w].held) : w \in pending[q] \cup applied[q]
    OBVIOUS
  <2>t. TypeOK /\ w # Free
    BY SdnAssumption, Zenon DEF IInv, Shapes
  <2>1. PICK v \in Workers, q \in Remotes : ApplyReturns(v, q) /\ Apply(v, q)
    <3>1. ASSUME NEW q \in Remotes, AdminFlushes(q) PROVE FALSE
      BY <3>1, <2>t, Zenon DEF AdminFlushes, TypeOK
    <3>2. applied' # applied
      OBVIOUS
    <3>3. ASSUME NEW v \in Workers,
                 \/ Start(v) \/ UnknownRemote(v) \/ LockNext(v) \/ AllLocked(v)
                 \/ ReleaseNext(v) \/ Released(v) \/ AllCalled(v) \/ AllRolledBack(v)
                 \/ AllApplied(v) \/ AllReloaded(v) \/ Crash(v)
          PROVE  applied' = applied
      BY <3>3, Zenon DEF Start, UnknownRemote, LockNext, AllLocked, ReleaseNext, Released, AllCalled,
                  AllRolledBack, AllApplied, AllReloaded, Crash, Nothing, Acquire, Release
    <3>4. ASSUME NEW v \in Workers, NEW q \in Remotes,
                 CallReturns(v, q) \/ RollbackReturns(v, q) \/ ReloadEnds(v, q)
          PROVE  applied' = applied
      BY <3>4, Zenon DEF CallReturns, RollbackReturns, ReloadEnds, Nothing, Create, RollBack
    <3>5. ASSUME NEW v \in Workers, NEW q \in Remotes, ApplyReturns(v, q)
          PROVE  applied' = applied \/ Apply(v, q)
      BY <3>5, Zenon DEF ApplyReturns, Nothing
    <3>6. ASSUME NEW q \in Remotes, AdminEdits(q) \/ AdminUnlocks(q) PROVE applied' = applied
      BY <3>6, Zenon DEF AdminEdits, AdminUnlocks
    <3> QED
      BY <3>1, <3>2, <3>3, <3>4, <3>5, <3>6, Zenon DEF Next, Step, vars
  <2>2. q = r /\ v = w
    BY <2>1, <2>t DEF Apply, TypeOK
  <2>3. worker[w].pc = "apply" /\ CallsAreKept(w)
    BY <2>1, <2>2 DEF ApplyReturns, IInv, WorkerOK
  <2> QED BY <2>3 DEF CallsAreKept
<1>2. Spec => [][Whole]_vars
  BY <1>1, Invariance, PTL DEF Spec
<1> QED BY <1>2, Zenon DEF NoPartialCommit

-----------------------------------------------------------------------------
(***************************************************************************)
(* Domains & Hosting.  NothingReplacedUnasked speaks of the calls that     *)
(* have ended; HostingInv says of every call how far it has got and what   *)
(* of the records it found it has kept so far.                             *)
(***************************************************************************)

Pcs == {"idle", "look", "judge", "step", "clear", "write", "route", "validate"} \cup Ended

CallShape ==
    [op : {"none", "onboard", "adopt"}, d : Domains, replace : BOOLEAN, pc : Pcs,
     seen : Views, attempt : Nat, step : Nat, got : SUBSET Contents,
     routes : [Domains -> Origins], intact : SUBSET Kinds]

\* An onboarding that was not told to replace what it finds.
Careful(k) == k.op = "onboard" /\ ~k.replace

\* What such a call knows: where it still has a foreign record to keep there is one, it
\* never deletes records, and the record it is about to replace is none of those.
Keeps(k, zone) ==
    /\ \A x \in k.intact : "foreign" \in zone[x]
    /\ k.pc # "clear"
    /\ k.pc = "write" => k.got \subseteq {"nexus"} /\ (k.got # {} => Plan[k.step] \notin k.intact)

Sound(k, zones) ==
    /\ k.pc \in {"clear", "write"} => Plan[k.step] \in Kinds
    /\ k.pc = "route" => Plan[k.step] \in {"http", "https"}
    /\ Careful(k) => Keeps(k, zones[k.d])

HostingInv ==
    /\ dns \in [Domains -> Views] /\ tunnel \in [Domains -> Origins]
    /\ call \in [Calls -> CallShape]
    /\ \A c \in Calls : Sound(call[c], dns)

\* A call that has not begun, or is over, keeps nothing.
LEMMA ClosedSound ==
  ASSUME NEW pc \in {"idle", "done", "failed", "decision"}, NEW zones
  PROVE  Closed(pc) \in CallShape /\ Sound(Closed(pc), zones)
<1>1. (CHOOSE d \in Domains : TRUE) \in Domains
  BY DomainsAssumption
<1>2. NoRecords \in Views
  BY DEF NoRecords, Views
<1>3. [d \in Domains |-> "none"] \in [Domains -> Origins]
  BY DEF Origins
<1>4. Closed(pc) \in [op : {"none"}, d : Domains, replace : BOOLEAN, pc : {pc}, seen : Views,
                       attempt : {1}, step : {1}, got : {{}}, routes : [Domains -> Origins],
                       intact : {{}}]
  BY <1>1, <1>2, <1>3, Zenon DEF Closed, NoCall
<1>6. Closed(pc) \in CallShape
  BY <1>4 DEF CallShape, Pcs, Ended
<1>7. Sound(Closed(pc), zones)
  BY <1>4 DEF Sound, Careful
<1> QED
  BY <1>6, <1>7

\* The step of one call, which leaves the records alone.
LEMMA OneMoves ==
  ASSUME HostingInv, NEW c \in Calls, NEW rec \in CallShape, Sound(rec, dns),
         Goes(c, rec), UNCHANGED dns, tunnel' \in [Domains -> Origins]
  PROVE  HostingInv'
<1>1. call' \in [Calls -> CallShape]
  BY DEF HostingInv, Goes
<1>2. ASSUME NEW o \in Calls PROVE Sound(call'[o], dns')
  <2>1. CASE o = c
    <3>1. call'[o] = rec
      BY <2>1 DEF HostingInv, Goes
    <3> QED BY <3>1
  <2>2. CASE o # c
    <3>1. call'[o] = call[o]
      BY <2>2 DEF HostingInv, Goes
    <3> QED BY <3>1 DEF HostingInv
  <2> QED BY <2>1, <2>2
<1> QED
  BY <1>1, <1>2 DEF HostingInv

\* A record changes: a call for that domain has one record less to keep.
LEMMA LosesOne ==
  ASSUME NEW k \in CallShape, NEW zones \in [Domains -> Views], Sound(k, zones),
         NEW d \in Domains, NEW x \in Kinds, NEW contents \in SUBSET Contents,
         NEW new, new = [zones EXCEPT ![d][x] = contents]
  PROVE  /\ k.d # d => Sound(k, new)
         /\ [k EXCEPT !.intact = @ \ {x}] \in CallShape
         /\ k.d = d => Sound([k EXCEPT !.intact = @ \ {x}], new)
<1>1. new \in [Domains -> Views] /\ \A e \in Domains \ {d} : new[e] = zones[e]
  BY DEF Views
<1>2. \A y \in Kinds \ {x} : new[d][y] = zones[d][y]
  BY DEF Views
<1>3. k.d \in Domains /\ k.intact \in SUBSET Kinds
  BY ZenonT(60) DEF CallShape
<1>4. k.d # d => Sound(k, new)
  BY <1>1, <1>3 DEF Sound
<1> DEFINE l == [k EXCEPT !.intact = @ \ {x}]
<1>5. l \in CallShape
  BY DEF CallShape
<1>6. /\ l.op = k.op /\ l.d = k.d /\ l.replace = k.replace /\ l.pc = k.pc /\ l.got = k.got
      /\ l.step = k.step /\ l.intact = k.intact \ {x}
  BY ZenonT(60) DEF CallShape
<1> HIDE DEF l
<1>7. k.d = d => Sound(l, new)
  BY <1>2, <1>3, <1>6 DEF Sound, Careful, Keeps
<1> QED
  BY <1>4, <1>5, <1>7 DEF l

\* The helper goes on to its next step, or starts over: it deletes and writes nothing yet.
Restarted(k) == [k EXCEPT !.pc = "step", !.step = 1, !.attempt = @ + 1, !.got = {},
                          !.routes = NoCall.routes]

LEMMA StepFields ==
  ASSUME NEW k \in CallShape, NEW n \in {NextStep(k), Restarted(k)}
  PROVE  /\ n \in CallShape
         /\ n.op = k.op /\ n.d = k.d /\ n.replace = k.replace /\ n.pc = "step" /\ n.intact = k.intact
<1>1. NoCall.routes \in [Domains -> Origins]
  BY DEF NoCall, Origins
<1>2. ASSUME NEW st, NEW at
      PROVE  /\ [k EXCEPT !.pc = "step", !.step = st, !.got = {}, !.routes = NoCall.routes]
                  \in [op : {k.op}, d : {k.d}, replace : {k.replace}, pc : {"step"},
                       seen : {k.seen}, attempt : {k.attempt}, step : {st}, got : {{}},
                       routes : {NoCall.routes}, intact : {k.intact}]
             /\ [k EXCEPT !.pc = "step", !.step = 1, !.attempt = at, !.got = {}, !.routes = NoCall.routes]
                  \in [op : {k.op}, d : {k.d}, replace : {k.replace}, pc : {"step"},
                       seen : {k.seen}, attempt : {at}, step : {1}, got : {{}},
                       routes : {NoCall.routes}, intact : {k.intact}]
  BY ZenonT(60) DEF CallShape
<1>3. k.step \in Nat /\ k.attempt \in Nat
  BY Zenon DEF CallShape
<1>4. PICK st \in Nat, at \in Nat :
         n \in [op : {k.op}, d : {k.d}, replace : {k.replace}, pc : {"step"}, seen : {k.seen},
                attempt : {at}, step : {st}, got : {{}}, routes : {NoCall.routes},
                intact : {k.intact}]
  <2>1. CASE n = NextStep(k)
    <3>1. k.step + 1 \in Nat
      BY <1>3
    <3>2. n \in [op : {k.op}, d : {k.d}, replace : {k.replace}, pc : {"step"}, seen : {k.seen},
                 attempt : {k.attempt}, step : {k.step + 1}, got : {{}},
                 routes : {NoCall.routes}, intact : {k.intact}]
      BY <1>2, <2>1, ZenonT(60) DEF NextStep
    <3> QED BY <1>3, <3>1, <3>2, ZenonT(60)
  <2>2. CASE n = Restarted(k)
    <3>1. k.attempt + 1 \in Nat /\ 1 \in Nat
      BY <1>3
    <3>2. n \in [op : {k.op}, d : {k.d}, replace : {k.replace}, pc : {"step"}, seen : {k.seen},
                 attempt : {k.attempt + 1}, step : {1}, got : {{}},
                 routes : {NoCall.routes}, intact : {k.intact}]
      BY <1>2, <2>2, ZenonT(60) DEF Restarted
    <3> QED BY <3>1, <3>2, ZenonT(60)
  <2> QED BY <2>1, <2>2
<1> QED
  BY <1>1, <1>4, Zenon DEF CallShape, Pcs

LEMMA StepSound ==
  ASSUME NEW k \in CallShape, NEW zones, Sound(k, zones)
  PROVE  /\ NextStep(k) \in CallShape /\ Sound(NextStep(k), zones)
         /\ \A b \in BOOLEAN : Retried(k, b) \in CallShape /\ Sound(Retried(k, b), zones)
<1>1. ASSUME NEW n \in {NextStep(k), Restarted(k)} PROVE n \in CallShape /\ Sound(n, zones)
  <2>1. /\ n \in CallShape
        /\ n.op = k.op /\ n.d = k.d /\ n.replace = k.replace /\ n.pc = "step" /\ n.intact = k.intact
    BY StepFields, Zenon
  <2> QED BY <2>1 DEF Sound, Careful, Keeps
<1>2. \A b \in BOOLEAN : Retried(k, b) = Restarted(k) \/ Retried(k, b) = Closed("failed")
  BY DEF Retried, Restarted
<1>3. Closed("failed") \in CallShape /\ Sound(Closed("failed"), zones)
  BY ClosedSound, Zenon
<1> QED
  BY <1>1, <1>2, <1>3, Zenon

LEMMA HostingStart == DomainInit => HostingInv
<1> SUFFICES ASSUME DomainInit PROVE HostingInv
  OBVIOUS
<1>1. NoRecords \in Views /\ \A k \in Kinds : [NoRecords EXCEPT ![k] = {"foreign"}] \in Views
  BY DEF NoRecords, Views, Contents
<1> DEFINE Found == {NoRecords} \cup {[NoRecords EXCEPT ![k] = {"foreign"}] : k \in Kinds}
<1>5. Found \subseteq Views /\ dns \in [Domains -> Found]
  BY <1>1, Zenon DEF DomainInit
<1> HIDE DEF Found
<1>2. dns \in [Domains -> Views] /\ tunnel \in [Domains -> Origins]
  BY <1>5 DEF DomainInit, Origins
<1>3. NoCall = Closed("idle")
  BY DEF Closed, NoCall
<1>4. NoCall \in CallShape /\ Sound(NoCall, dns)
  BY <1>3, ClosedSound, Zenon
<1> QED
  BY <1>2, <1>4 DEF DomainInit, HostingInv

\* The steps before the helper runs, and after it.
LEMMA ApiKeeps ==
  ASSUME HostingInv, NEW c \in Calls,
         \/ \E op \in Ops[c], d \in Domains : Begin(c, op, d)
         \/ Probe(c) \/ Preflight(c) \/ Adopt(c) \/ PersistMailDomain(c)
         \/ \E pc \in {"done", "failed"} : Finish(c, pc)
  PROVE  HostingInv'
<1> DEFINE k == call[c]
<1>k. k \in CallShape /\ Sound(k, dns)
  BY Zenon DEF HostingInv
<1>1. NoRecords \in Views /\ tunnel \in [Domains -> Origins] /\ dns \in [Domains -> Views]
  BY ZenonT(60) DEF NoRecords, Views, HostingInv
<1>2. ASSUME NEW op \in Ops[c], NEW d \in Domains, Begin(c, op, d) PROVE HostingInv'
  <2> DEFINE n == [NoCall EXCEPT !.op = IF op = "adopt" THEN "adopt" ELSE "onboard",
                            !.d = d, !.replace = op = "replace",
                            !.pc = IF op = "replace" THEN "step" ELSE "look",
                            !.intact = {x \in Kinds : "foreign" \in dns[d][x]}]
  <2>1. NoCall \in CallShape
    <3>1. NoCall = Closed("idle")
      BY DEF Closed, NoCall
    <3> QED BY <3>1, ClosedSound, Zenon
  <2>2. ASSUME NEW o, NEW r, NEW pc, NEW i
        PROVE  [NoCall EXCEPT !.op = o, !.d = d, !.replace = r, !.pc = pc, !.intact = i]
                 \in [op : {o}, d : {d}, replace : {r}, pc : {pc}, seen : Views, attempt : Nat,
                      step : Nat, got : SUBSET Contents, routes : [Domains -> Origins],
                      intact : {i}]
    BY <2>1, Zenon DEF CallShape
  <2>3. n \in [op : {"adopt", "onboard"}, d : {d}, replace : BOOLEAN, pc : {"step", "look"},
               seen : Views, attempt : Nat, step : Nat, got : SUBSET Contents,
               routes : [Domains -> Origins], intact : {{x \in Kinds : "foreign" \in dns[d][x]}}]
    <3> DEFINE o == IF op = "adopt" THEN "adopt" ELSE "onboard"
               r == op = "replace"
               pc == IF op = "replace" THEN "step" ELSE "look"
    <3>1. o \in {"adopt", "onboard"} /\ r \in BOOLEAN /\ pc \in {"step", "look"}
      OBVIOUS
    <3> HIDE DEF o, r, pc
    <3>2. [NoCall EXCEPT !.op = o, !.d = d, !.replace = r, !.pc = pc,
                         !.intact = {x \in Kinds : "foreign" \in dns[d][x]}]
            \in [op : {"adopt", "onboard"}, d : {d}, replace : BOOLEAN, pc : {"step", "look"},
                 seen : Views, attempt : Nat, step : Nat, got : SUBSET Contents,
                 routes : [Domains -> Origins], intact : {{x \in Kinds : "foreign" \in dns[d][x]}}]
      BY <2>2, <3>1, Zenon
    <3> QED BY <3>2, ZenonT(60) DEF o, r, pc
  <2>4. Goes(c, n) /\ UNCHANGED <<dns, tunnel>>
    BY <1>2, Zenon DEF Begin
  <2> HIDE DEF n
  <2>6. n \in CallShape
    BY <2>3, ZenonT(60) DEF CallShape, Pcs
  <2>5. Sound(n, dns)
    BY <2>3 DEF Sound, Keeps
  <2> QED BY <1>1, <2>6, <2>4, <2>5, OneMoves
<1>3. ASSUME NEW pc \in {"done", "failed", "decision"}, Goes(c, Closed(pc)), UNCHANGED <<dns, tunnel>>
      PROVE HostingInv'
  BY <1>1, <1>3, ClosedSound, OneMoves, Zenon
<1>4. ASSUME NEW pc \in {"judge", "step", "validate"}, NEW view \in Views,
             Goes(c, [k EXCEPT !.pc = pc, !.seen = view]), UNCHANGED <<dns, tunnel>>
      PROVE HostingInv'
  <2> DEFINE n == [k EXCEPT !.pc = pc, !.seen = view]
  <2>2. n \in [op : {k.op}, d : {k.d}, replace : {k.replace}, pc : {pc}, seen : {view},
               attempt : {k.attempt}, step : {k.step}, got : {k.got}, routes : {k.routes},
               intact : {k.intact}]
    BY <1>k, Zenon DEF CallShape
  <2>1. n \in CallShape
    BY <1>k, <2>2, ZenonT(60) DEF CallShape, Pcs
  <2> HIDE DEF n
  <2>3. Sound(n, dns)
    BY <1>k, <2>2 DEF Sound, Keeps, Careful
  <2> QED BY <1>1, <1>4, <2>1, <2>3, OneMoves DEF n
<1>5. CASE Probe(c)
  BY <1>4, <1>5, Zenon DEF Probe
<1>6. CASE Preflight(c)
  BY <1>1, <1>3, <1>4, <1>6, Zenon DEF Preflight
<1>7. CASE Adopt(c)
  BY <1>1, <1>3, <1>4, <1>7, Zenon DEF Adopt
<1>8. CASE PersistMailDomain(c)
  <2>1. CASE Goes(c, [k EXCEPT !.pc = "validate"])
    <3>1. [k EXCEPT !.pc = "validate"] = [k EXCEPT !.pc = "validate", !.seen = k.seen] /\ k.seen \in Views
      BY <1>k, ZenonT(60) DEF CallShape
    <3> QED BY <1>4, <1>8, <2>1, <3>1, Zenon DEF PersistMailDomain
  <2> QED BY <1>3, <1>8, <2>1 DEF PersistMailDomain
<1>9. ASSUME NEW pc \in {"done", "failed"}, Finish(c, pc) PROVE HostingInv'
  BY <1>3, <1>9 DEF Finish
<1> QED
  BY <1>2, <1>5, <1>6, <1>7, <1>8, <1>9, Zenon

\* A record changes under the eyes of all calls: with the call that changes it sound, all are.
LEMMA PublishKeeps ==
  ASSUME HostingInv, NEW c \in Calls, NEW x \in Kinds, NEW contents \in SUBSET Contents,
         NEW rec \in CallShape, Publish(c, x, contents, rec),
         Sound(rec, [dns EXCEPT ![call[c].d][x] = contents])
  PROVE  HostingInv'
<1> DEFINE d == call[c].d
           new == [dns EXCEPT ![d][x] = contents]
<1>1. dns' = new /\ tunnel' = tunnel /\ d \in Domains
  BY DEF HostingInv, Publish, CallShape
<1>2. new \in [Domains -> Views]
  BY <1>1 DEF HostingInv, Views
<1> HIDE DEF d
<1>3. ASSUME NEW o \in Calls PROVE call'[o] \in CallShape /\ Sound(call'[o], new)
  <2>1. call[o] \in CallShape /\ Sound(call[o], dns) /\ dns \in [Domains -> Views]
    BY DEF HostingInv
  <2>2. \/ o = c /\ call'[o] = rec
        \/ o # c /\ call[o].d = d /\ call'[o] = [call[o] EXCEPT !.intact = @ \ {x}]
        \/ o # c /\ call[o].d # d /\ call'[o] = call[o]
    BY DEF Publish, d
  <2>3. /\ call[o].d # d => Sound(call[o], new)
        /\ [call[o] EXCEPT !.intact = @ \ {x}] \in CallShape
        /\ call[o].d = d => Sound([call[o] EXCEPT !.intact = @ \ {x}], new)
    BY <1>1, <2>1, LosesOne, ZenonT(60)
  <2>4. Sound(rec, new)
    BY DEF d
  <2> QED
    BY <2>1, <2>2, <2>3, <2>4, Zenon
<1>4. call' \in [Calls -> CallShape]
  <2>1. call' = [o \in Calls |-> call'[o]]
    BY DEF Publish
  <2> QED BY <1>3, <2>1
<1> QED
  BY <1>1, <1>2, <1>3, <1>4, Zenon DEF HostingInv

\* The helper's steps that write no record.
LEMMA HelperKeeps ==
  ASSUME HostingInv, NEW c \in Calls,
         EnsureDdnsRecord(c) \/ Hestia(c) \/ HelperFails(c) \/ ReadTunnel(c) \/ WriteTunnel(c)
  PROVE  HostingInv'
<1> DEFINE k == call[c]
<1>k. k \in CallShape /\ Sound(k, dns) /\ tunnel \in [Domains -> Origins]
  BY DEF HostingInv
<1>1. /\ NextStep(k) \in CallShape /\ Sound(NextStep(k), dns)
      /\ \A b \in BOOLEAN : Retried(k, b) \in CallShape /\ Sound(Retried(k, b), dns)
  BY <1>k, StepSound, Zenon
<1>2. Closed("failed") \in CallShape /\ Sound(Closed("failed"), dns)
  BY ClosedSound, Zenon
<1>3. CASE EnsureDdnsRecord(c)
  <2>1. Goes(c, NextStep(k)) \/ Goes(c, Retried(k, FALSE))
    BY <1>3, Zenon DEF EnsureDdnsRecord
  <2>2. UNCHANGED <<dns, tunnel>>
    BY <1>3 DEF EnsureDdnsRecord
  <2> QED BY <1>k, <1>1, <2>1, <2>2, OneMoves, Zenon
<1>4. CASE Hestia(c)
  <2>1. Goes(c, NextStep(k)) /\ UNCHANGED <<dns, tunnel>>
    BY <1>4 DEF Hestia
  <2> QED BY <1>k, <1>1, <2>1, OneMoves, Zenon
<1>5. CASE HelperFails(c)
  <2>1. (Goes(c, Retried(k, TRUE)) \/ Goes(c, Closed("failed"))) /\ UNCHANGED <<dns, tunnel>>
    BY <1>5, Zenon DEF HelperFails
  <2> QED BY <1>k, <1>1, <1>2, <2>1, OneMoves, Zenon
<1>6. CASE ReadTunnel(c)
  <2> DEFINE n == [k EXCEPT !.pc = "route", !.routes = tunnel]
  <2>1. Goes(c, n) /\ UNCHANGED <<dns, tunnel>> /\ Plan[k.step] \in {"http", "https"}
    BY <1>6 DEF ReadTunnel, Doing
  <2>2. n \in [op : {k.op}, d : {k.d}, replace : {k.replace}, pc : {"route"}, seen : {k.seen},
               attempt : {k.attempt}, step : {k.step}, got : {k.got}, routes : {tunnel},
               intact : {k.intact}]
    BY <1>k, Zenon DEF CallShape
  <2> HIDE DEF n
  <2>3. n \in CallShape
    BY <1>k, <2>2, ZenonT(60) DEF CallShape, Pcs
  <2>4. Sound(n, dns)
    BY <1>k, <2>1, <2>2 DEF Sound, Careful, Keeps
  <2> QED BY <1>k, <2>1, <2>3, <2>4, OneMoves, Zenon
<1>7. CASE WriteTunnel(c)
  <2>1. Goes(c, NextStep(k)) /\ UNCHANGED dns
    BY <1>7, Zenon DEF WriteTunnel
  <2>2. k.routes \in [Domains -> Origins] /\ Plan[k.step] \in Origins
    BY <1>k, <1>7, Zenon DEF WriteTunnel, At, Sound, CallShape, Origins
  <2>3. tunnel' \in [Domains -> Origins]
    BY <1>7, <2>2, Zenon DEF WriteTunnel
  <2> QED BY <1>k, <1>1, <2>1, <2>3, OneMoves, Zenon
<1> QED
  BY <1>3, <1>4, <1>5, <1>6, <1>7

\* The helper looks at the records of a kind, deletes one, or writes one.
LEMMA RecordsKept ==
  ASSUME HostingInv, NEW c \in Calls, ListRecords(c) \/ DeleteRecord(c) \/ WriteRecord(c)
  PROVE  HostingInv'
<1> DEFINE k == call[c]
<1>k. k \in CallShape /\ Sound(k, dns) /\ tunnel \in [Domains -> Origins] /\ dns \in [Domains -> Views]
  BY ZenonT(60) DEF HostingInv
<1>d. k.d \in Domains /\ k.replace \in BOOLEAN /\ k.got \in SUBSET Contents /\ k.intact \in SUBSET Kinds
  BY <1>k DEF CallShape
<1>1. NextStep(k) \in CallShape /\ Sound(NextStep(k), dns) /\ Retried(k, FALSE) \in CallShape /\ Sound(Retried(k, FALSE), dns)
  BY <1>k, StepSound, Zenon
<1>e. ASSUME NEW pc, NEW g
      PROVE [k EXCEPT !.got = g, !.pc = pc]
              \in [op : {k.op}, d : {k.d}, replace : {k.replace}, pc : {pc}, seen : {k.seen},
                   attempt : {k.attempt}, step : {k.step}, got : {g}, routes : {k.routes},
                   intact : {k.intact}]
  BY <1>k, Zenon DEF CallShape
<1>2. CASE ListRecords(c)
  <2>1. PICK x \in Kinds : LET got == dns[k.d][x] IN
      /\ Doing(c, x)
      /\ Goes(c, IF Conflict(k.replace, got) THEN Retried(k, FALSE)
                 ELSE [k EXCEPT !.got = got,
                         !.pc = IF Several(got) THEN "clear" ELSE "write"])
      /\ UNCHANGED <<dns, tunnel, ddns, inventory, edits, blind>>
    BY <1>2, ZenonT(60) DEF ListRecords
  <2> DEFINE got == dns[k.d][x]
             pc == IF Several(got) THEN "clear" ELSE "write"
             n == [k EXCEPT !.got = got, !.pc = pc]
  <2>2. got \in SUBSET Contents /\ pc \in {"clear", "write"}
    BY <1>k, <1>d DEF Views
  <2>3. CASE Conflict(k.replace, got)
    BY <1>k, <1>1, <2>1, <2>3, OneMoves, Zenon
  <2>4. CASE ~Conflict(k.replace, got)
    <3>1. Goes(c, n) /\ UNCHANGED <<dns, tunnel>> /\ Plan[k.step] = x
      BY <2>1, <2>4 DEF Doing
    <3>2. n \in [op : {k.op}, d : {k.d}, replace : {k.replace}, pc : {pc}, seen : {k.seen},
                   attempt : {k.attempt}, step : {k.step}, got : {got}, routes : {k.routes},
                   intact : {k.intact}]
      BY <1>e, ZenonT(60)
    <3>3. ~k.replace => ~Several(got) /\ got # {"foreign"}
      BY <1>d, <2>4, Zenon DEF Conflict
    <3>4. ~Several(got) /\ got # {"foreign"} => got \subseteq {"nexus"} /\ pc = "write"
      BY <2>2 DEF Several, Contents
    <3>5. Keeps(k, dns[k.d]) => (\A y \in k.intact : "foreign" \in dns[k.d][y]) /\ (x \in k.intact => "foreign" \in got)
      BY ZenonT(60) DEF Keeps
    <3> HIDE DEF n, got, pc
    <3>6. n \in CallShape
      BY <1>k, <2>2, <3>2 DEF CallShape, Pcs
    <3>7. n.op = k.op /\ n.d = k.d /\ n.replace = k.replace /\ n.pc = pc /\ n.got = got /\ n.step = k.step /\ n.intact = k.intact
      BY <3>2, ZenonT(60)
    <3>8. Careful(n) => Keeps(n, dns[n.d])
      <4> SUFFICES ASSUME Careful(n) PROVE Keeps(n, dns[n.d])
        BY Zenon
      <4>1. Keeps(k, dns[k.d]) /\ ~k.replace
        BY <1>k, <3>7, Zenon DEF Sound, Careful
      <4>2. got \subseteq {"nexus"} /\ pc = "write" /\ "foreign" \notin got
        BY <3>3, <3>4, <4>1, ZenonT(60)
      <4> QED BY <3>1, <3>5, <3>7, <4>1, <4>2 DEF Keeps
    <3>9. Sound(n, dns)
      BY <2>2, <3>1, <3>7, <3>8 DEF Sound
    <3> QED BY <1>k, <3>1, <3>6, <3>9, OneMoves, Zenon
  <2> QED BY <2>3, <2>4
<1>3. CASE DeleteRecord(c)
  <2> DEFINE x == Plan[k.step]
  <2>1. PICK y \in k.got :
           Publish(c, x, dns[k.d][x] \ {y},
                   [k EXCEPT !.got = k.got \ {y},
                             !.pc = IF k.got \ {y} = {} THEN "write" ELSE "clear"])
    BY <1>3, Zenon DEF DeleteRecord
  <2>2. k.pc = "clear" /\ x \in Kinds
    BY <1>k, <1>3, Zenon DEF DeleteRecord, At, Sound
  <2>3. ~Careful(k)
    BY <1>k, <2>2, Zenon DEF Sound, Keeps
  <2> DEFINE pc == IF k.got \ {y} = {} THEN "write" ELSE "clear"
             n == [k EXCEPT !.got = k.got \ {y}, !.pc = pc]
             contents == dns[k.d][x] \ {y}
  <2>4. n \in [op : {k.op}, d : {k.d}, replace : {k.replace}, pc : {pc}, seen : {k.seen},
               attempt : {k.attempt}, step : {k.step}, got : {k.got \ {y}}, routes : {k.routes},
               intact : {k.intact}]
    BY <1>e, Zenon
  <2>5. pc \in {"clear", "write"} /\ contents \in SUBSET Contents
    BY <1>k, <1>d, <2>2, ZenonT(60) DEF Views
  <2>6. Publish(c, x, contents, n)
    BY <2>1, Zenon
  <2> HIDE DEF n, pc, contents
  <2>7. n \in CallShape
    BY <1>k, <1>d, <2>4, <2>5, Zenon DEF CallShape, Pcs
  <2>8. n.pc \in {"clear", "write"} /\ Plan[n.step] \in Kinds /\ ~Careful(n)
    BY <2>2, <2>3, <2>4, <2>5, Zenon DEF Careful
  <2>9. Sound(n, [dns EXCEPT ![k.d][x] = contents])
    BY <2>8 DEF Sound
  <2> QED BY <2>2, <2>5, <2>6, <2>7, <2>9, PublishKeeps, Zenon
<1>4. CASE WriteRecord(c)
  <2> DEFINE x == Plan[k.step]
             now == dns[k.d][x]
             n == NextStep(k)
  <2>1. k.pc = "write" /\ x \in Kinds
    BY <1>k, <1>4, ZenonT(60) DEF WriteRecord, At, Sound
  <2>2. now \in SUBSET Contents
    BY <1>k, <1>d, <2>1 DEF Views
  <2>3. PICK gone \in SUBSET now :
           /\ Publish(c, x, (now \ gone) \cup {"nexus"}, n)
           /\ gone = {} \/ (\E y \in now : gone = {y})
           /\ gone # {} => k.got # {}
    <3> DEFINE listed == IF k.got \subseteq now THEN k.got ELSE now
    <3>1. CASE listed = {}
      <4>1. Publish(c, x, now \cup {"nexus"}, n)
        BY <1>4, <3>1, Zenon DEF WriteRecord
      <4>2. now \cup {"nexus"} = (now \ {}) \cup {"nexus"}
        OBVIOUS
      <4> QED BY <4>1, <4>2, Zenon
    <3>2. CASE listed # {}
      <4>1. PICK y \in listed : Publish(c, x, (now \ {y}) \cup {"nexus"}, n)
        BY <1>4, <3>2, Zenon DEF WriteRecord
      <4>2. y \in now /\ k.got # {}
        BY Zenon DEF Contents
      <4> QED BY <4>1, <4>2, ZenonT(60)
    <3> QED BY <3>1, <3>2, Zenon
  <2> DEFINE contents == (now \ gone) \cup {"nexus"}
             new == [dns EXCEPT ![k.d][x] = contents]
  <2>4. contents \in SUBSET Contents
    BY <2>2 DEF Contents
  <2>5. /\ n.op = k.op /\ n.d = k.d /\ n.replace = k.replace /\ n.pc = "step" /\ n.intact = k.intact
    BY <1>k, StepFields, Zenon
  <2>6. ASSUME Careful(k), NEW y \in k.intact PROVE "foreign" \in new[k.d][y]
    <3>1. "foreign" \in dns[k.d][y] /\ (k.got # {} => x \notin k.intact)
      BY <1>k, <2>1, <2>6, ZenonT(60) DEF Sound, Keeps
    <3>2. CASE y = x
      <4>1. gone = {} /\ new[k.d][x] = contents
        BY <1>k, <1>d, <2>1, <2>3, <3>1, <3>2, Zenon DEF Views
      <4> QED BY <3>1, <3>2, <4>1
    <3>3. CASE y # x
      <4>1. new[k.d][y] = dns[k.d][y]
        BY <1>k, <1>d, <2>1, <3>3, ZenonT(60) DEF Views
      <4> QED BY <3>1, <4>1, Zenon
    <3> QED BY <3>2, <3>3, Zenon
  <2> HIDE DEF new, n
  <2>7. Sound(n, new)
    BY <2>5, <2>6 DEF Sound, Careful, Keeps
  <2>8. Publish(c, x, contents, n) /\ Sound(n, [dns EXCEPT ![k.d][x] = contents]) /\ n \in CallShape
    BY <1>1, <2>3, <2>7, Zenon DEF new, n
  <2> HIDE DEF contents
  <2> QED BY <2>1, <2>4, <2>8, PublishKeeps, Zenon
<1> QED
  BY <1>2, <1>3, <1>4

LEMMA HostingStep == HostingInv /\ [DomainNext]_domainVars => HostingInv'
<1> SUFFICES ASSUME HostingInv, [DomainNext]_domainVars PROVE HostingInv'
  OBVIOUS
<1>1. ASSUME NEW d \in Domains, NEW x \in Kinds, NEW contents \in SUBSET Contents,
             EditDns(d, x, contents)
      PROVE  HostingInv'
  <2> DEFINE new == [dns EXCEPT ![d][x] = contents]
  <2>1. dns' = new /\ tunnel' = tunnel /\ new \in [Domains -> Views]
    BY <1>1 DEF HostingInv, EditDns, Views
  <2>2. ASSUME NEW o \in Calls PROVE call'[o] \in CallShape /\ Sound(call'[o], new)
    <3>1. call[o] \in CallShape /\ Sound(call[o], dns) /\ dns \in [Domains -> Views]
      BY DEF HostingInv
    <3>2. \/ call[o].d = d /\ call'[o] = [call[o] EXCEPT !.intact = @ \ {x}]
          \/ call[o].d # d /\ call'[o] = call[o]
      BY <1>1 DEF EditDns
    <3>3. /\ call[o].d # d => Sound(call[o], new)
          /\ [call[o] EXCEPT !.intact = @ \ {x}] \in CallShape
          /\ call[o].d = d => Sound([call[o] EXCEPT !.intact = @ \ {x}], new)
      BY <3>1, LosesOne, ZenonT(60)
    <3> QED BY <3>1, <3>2, <3>3, Zenon
  <2> HIDE DEF new
  <2>3. call' \in [Calls -> CallShape]
    <3>1. call' = [o \in Calls |-> call'[o]]
      BY <1>1 DEF EditDns
    <3> QED BY <2>2, <3>1
  <2> QED BY <2>1, <2>2, <2>3 DEF HostingInv
<1>2. CASE UNCHANGED <<dns, tunnel, call>>
  BY <1>2, Zenon DEF HostingInv
<1>3. ASSUME NEW d \in Domains, LeaveDdns(d) PROVE HostingInv'
  BY <1>2, <1>3 DEF LeaveDdns
<1>4. ASSUME NEW c \in Calls, \E op \in Ops[c], d \in Domains : Begin(c, op, d) PROVE HostingInv'
  BY <1>4, ApiKeeps, Zenon
<1>5. ASSUME NEW c \in Calls, CallStep(c) PROVE HostingInv'
  BY <1>5, ApiKeeps, HelperKeeps, RecordsKept, Zenon DEF CallStep
<1>6. CASE UNCHANGED domainVars
  BY <1>2, <1>6 DEF domainVars
<1> QED
  BY <1>1, <1>3, <1>4, <1>5, <1>6, Zenon DEF DomainNext

\* NothingReplacedUnasked in every behaviour: an onboarding without replace_existing leaves
\* the foreign records it found (onboard_domain; cf_upsert_single_dns and
\* cf_upsert_txt_prefix of the helper), for every set of calls and domains, every list of
\* mail records, any number of edits by others, of failed lookups and of attempts.
THEOREM ForeignRecordsStay == DomainSpec => []NothingReplacedUnasked
<1>1. HostingInv => NothingReplacedUnasked
  BY DEF HostingInv, NothingReplacedUnasked, Sound, Careful, Keeps
<1> QED
  BY <1>1, HostingStart, HostingStep, PTL DEF DomainSpec
=============================================================================
