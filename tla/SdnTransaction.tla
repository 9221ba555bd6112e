--------------------------- MODULE SdnTransaction ---------------------------
(***************************************************************************)
(* The SDN transaction of server/src/sdn_client.rs: a worker of            *)
(* create_zone or create_vnet locks the SDN configuration of several       *)
(* remotes one after the other, makes the same call on all of them at the  *)
(* same time, and either applies the change everywhere or rolls it back    *)
(* everywhere.  The remotes (external) hold a lock, a set of pending       *)
(* changes and a set of applied ones; a change is named by the worker that *)
(* made it.                                                                *)
(*                                                                         *)
(* A request to a remote is answered, or fails without an effect, or takes *)
(* effect and loses its answer.                                            *)
(***************************************************************************)
EXTENDS Sequences, FiniteSets

CONSTANTS
    Workers,     \* the worker tasks
    Remotes,     \* the remotes of all requests
    Configured,  \* the ones that are in remotes.cfg
    Requests,    \* Requests[w]: the lists of remotes that the worker's request may name
    Admin,       \* whoever edits the SDN configuration of a remote directly
    Free         \* nobody holds the lock

\* Nobody and the administrators are no workers, and a request names remotes.
ASSUME SdnAssumption ==
    /\ Free \notin Workers \cup {Admin} /\ Admin \notin Workers
    /\ Requests \in [Workers -> SUBSET Seq(Remotes)]

VARIABLES
    lock,     \* lock[r]: the holder of the remote's SDN lock
    pending,  \* pending[r]: the changes that are not applied yet
    applied,  \* applied[r]: the workers' changes that were applied
    worker,   \* worker[w]: the progress of the worker, see Worker
    reported  \* reported[w]: the remotes the log tells the operator to unlock

vars == <<lock, pending, applied, worker, reported>>

Idle ==
    [pc |-> "idle", todo |-> <<>>, held |-> <<>>, busy |-> {}, reload |-> {},
     errors |-> FALSE]

\* todo: remotes still to lock.  held: the clients, in the order of their locks.
\* busy: the remotes with a call in flight.  reload: the ones to poll a reload task on.
Worker ==
    [pc     : {"idle", "lock", "release", "call", "rollback", "apply", "poll",
               "unlisted", "unlocked", "rolledback", "failed", "ok", "crashed"},
     todo   : Seq(Remotes),
     held   : Seq(Remotes),
     busy   : SUBSET Remotes,
     reload : SUBSET Remotes,
     errors : BOOLEAN]

Final == {"unlisted", "unlocked", "rolledback", "failed", "ok", "crashed"}

SetOf(s) == {s[i] : i \in DOMAIN s}

\* The remotes and the workers have the shapes the code gives them.
TypeOK ==
    /\ lock \in [Remotes -> Workers \cup {Free}]
    /\ pending \in [Remotes -> SUBSET (Workers \cup {Admin})]
    /\ applied \in [Remotes -> SUBSET Workers]
    /\ worker \in [Workers -> Worker]
    /\ reported \in [Workers -> SUBSET Remotes]

Init ==
    /\ lock = [r \in Remotes |-> Free]
    /\ pending = [r \in Remotes |-> {}]
    /\ applied = [r \in Remotes |-> {}]
    /\ worker = [w \in Workers |-> Idle]
    /\ reported = [w \in Workers |-> {}]

-----------------------------------------------------------------------------
(***************************************************************************)
(* What a request with w's lock token does on remote r.                    *)
(***************************************************************************)
Nothing == UNCHANGED <<lock, pending, applied>>

\* Mutant: the lock is given out over the pending changes of others.
AcquireOverPending(w, r) ==
    /\ lock[r] = Free
    /\ lock' = [lock EXCEPT ![r] = w]
    /\ UNCHANGED <<pending, applied>>

Acquire(w, r) ==
    /\ lock[r] = Free /\ pending[r] = {}
    /\ lock' = [lock EXCEPT ![r] = w]
    /\ UNCHANGED <<pending, applied>>

Release(w, r) ==
    /\ lock[r] = w
    /\ lock' = [lock EXCEPT ![r] = Free]
    /\ UNCHANGED <<pending, applied>>

Create(w, r) ==
    /\ lock[r] = w
    /\ pending' = [pending EXCEPT ![r] = @ \cup {w}]
    /\ UNCHANGED <<lock, applied>>

RollBack(w, r) ==
    /\ lock[r] = w
    /\ lock' = [lock EXCEPT ![r] = Free]
    /\ pending' = [pending EXCEPT ![r] = {}]
    /\ UNCHANGED applied

Apply(w, r) ==
    /\ lock[r] = w
    /\ lock' = [lock EXCEPT ![r] = Free]
    /\ applied' = [applied EXCEPT ![r] = @ \cup (pending[r] \ {Admin})]
    /\ pending' = [pending EXCEPT ![r] = {}]

-----------------------------------------------------------------------------
(***************************************************************************)
(* The worker.                                                             *)
(***************************************************************************)
Become(w, new) == worker' = [worker EXCEPT ![w] = new]

\* The worker's function returns; of its locals only the list of clients is kept.
End(w, pc) == Become(w, [Idle EXCEPT !.pc = pc, !.held = worker[w].held])

Start(w) ==
    /\ worker[w].pc = "idle"
    /\ \E names \in Requests[w] :
          Become(w, [worker[w] EXCEPT !.pc = "lock", !.todo = names])
    /\ Nothing /\ UNCHANGED reported

\* from_remote_names: a remote that is not configured ends the function there.
UnknownRemote(w) ==
    /\ worker[w].pc = "lock" /\ worker[w].todo # <<>>
    /\ Head(worker[w].todo) \notin Configured
    /\ End(w, "unlisted")
    /\ Nothing /\ UNCHANGED reported

LockNext(w) ==
    LET me == worker[w]
        r  == Head(me.todo)
    IN  /\ me.pc = "lock" /\ me.todo # <<>> /\ r \in Configured
        /\ \/ /\ Acquire(w, r)
              /\ Become(w, [me EXCEPT !.todo = Tail(@), !.held = Append(@, r)])
           \/ /\ Acquire(w, r) \/ Nothing
              /\ Become(w, [me EXCEPT !.pc = "release", !.todo = <<r>>])
        /\ UNCHANGED reported

\* The release loop: a release that fails is logged under the name of the remote
\* that could not be locked.
ReleaseNext(w) ==
    LET me == worker[w]
        r  == Head(me.held)
    IN  /\ me.pc = "release" /\ me.held # <<>>
        /\ Become(w, [me EXCEPT !.held = Tail(@)])
        /\ \/ Release(w, r) /\ UNCHANGED reported
           \/ /\ Release(w, r) \/ Nothing
              /\ reported' = [reported EXCEPT ![w] = @ \cup {Head(me.todo)}]

Released(w) ==
    /\ worker[w].pc = "release" /\ worker[w].held = <<>>
    /\ End(w, "unlocked")
    /\ Nothing /\ UNCHANGED reported

AllLocked(w) ==
    /\ worker[w].pc = "lock" /\ worker[w].todo = <<>>
    /\ Become(w, [worker[w] EXCEPT !.pc = "call", !.busy = SetOf(worker[w].held)])
    /\ Nothing /\ UNCHANGED reported

\* for_each: the callbacks run concurrently; join_all waits for all of them.
CallReturns(w, r) ==
    LET me == worker[w]
    IN  /\ me.pc = "call" /\ r \in me.busy
        /\ \/ Create(w, r) /\ Become(w, [me EXCEPT !.busy = @ \ {r}])
           \/ /\ Create(w, r) \/ Nothing
              /\ Become(w, [me EXCEPT !.busy = @ \ {r}, !.errors = TRUE])
        /\ UNCHANGED reported

\* Mutant: what went wrong on some remotes does not keep the others from applying.
AllCalledRegardless(w) ==
    LET me == worker[w]
    IN  /\ me.pc = "call" /\ me.busy = {}
        /\ Become(w, [me EXCEPT !.pc = "apply", !.busy = SetOf(me.held)])
        /\ Nothing /\ UNCHANGED reported

AllCalled(w) ==
    LET me == worker[w]
    IN  /\ me.pc = "call" /\ me.busy = {}
        /\ Become(w, [me EXCEPT !.pc = IF me.errors THEN "rollback" ELSE "apply",
                                !.busy = SetOf(me.held)])
        /\ Nothing /\ UNCHANGED reported

\* Mutant: a rollback that fails is not reported.
RollbackReturnsQuietly(w, r) ==
    /\ worker[w].pc = "rollback" /\ r \in worker[w].busy
    /\ Become(w, [worker[w] EXCEPT !.busy = @ \ {r}])
    /\ RollBack(w, r) \/ Nothing
    /\ UNCHANGED reported

RollbackReturns(w, r) ==
    LET me == worker[w]
    IN  /\ me.pc = "rollback" /\ r \in me.busy
        /\ Become(w, [me EXCEPT !.busy = @ \ {r}])
        /\ \/ RollBack(w, r) /\ UNCHANGED reported
           \/ /\ RollBack(w, r) \/ Nothing
              /\ reported' = [reported EXCEPT ![w] = @ \cup {r}]

AllRolledBack(w) ==
    /\ worker[w].pc = "rollback" /\ worker[w].busy = {}
    /\ End(w, "rolledback")
    /\ Nothing /\ UNCHANGED reported

\* apply_and_release, first loop: only the remotes whose apply was answered have a
\* reload task to wait for; a failed apply is logged and nothing else.
ApplyReturns(w, r) ==
    LET me == worker[w]
    IN  /\ me.pc = "apply" /\ r \in me.busy
        /\ \/ /\ Apply(w, r)
              /\ Become(w, [me EXCEPT !.busy = @ \ {r}, !.reload = @ \cup {r}])
           \/ /\ Apply(w, r) \/ Nothing
              /\ Become(w, [me EXCEPT !.busy = @ \ {r}])
        /\ UNCHANGED reported

AllApplied(w) ==
    LET me == worker[w]
    IN  /\ me.pc = "apply" /\ me.busy = {}
        /\ Become(w, [me EXCEPT !.pc = "poll"])
        /\ Nothing /\ UNCHANGED reported

\* poll_task on r ends: the reload finished well, or failed, or could not be asked.
ReloadEnds(w, r) ==
    LET me == worker[w]
    IN  /\ me.pc = "poll" /\ r \in me.reload
        /\ \E failed \in BOOLEAN :
              Become(w, [me EXCEPT !.reload = @ \ {r}, !.errors = @ \/ failed])
        /\ Nothing /\ UNCHANGED reported

AllReloaded(w) ==
    LET me == worker[w]
    IN  /\ me.pc = "poll" /\ me.reload = {}
        /\ End(w, IF me.errors THEN "failed" ELSE "ok")
        /\ Nothing /\ UNCHANGED reported

\* The daemon that runs the worker stops.
Crash(w) ==
    /\ worker[w].pc \notin Final \cup {"idle"}
    /\ End(w, "crashed")
    /\ Nothing /\ UNCHANGED reported

-----------------------------------------------------------------------------
(***************************************************************************)
(* Whoever works on a remote directly.  An edit, an apply or a rollback     *)
(* without a token is refused while the lock is held.  A lock that outlives *)
(* its worker is removed by hand, 'pvesh delete /cluster/sdn/lock --force 1' *)
(* in the words of the log, which keeps the pending changes.                *)
(***************************************************************************)
AdminEdits(r) ==
    /\ lock[r] = Free
    /\ pending' = [pending EXCEPT ![r] = @ \cup {Admin}]
    /\ UNCHANGED <<lock, applied, worker, reported>>

AdminFlushes(r) ==
    /\ lock[r] = Free /\ pending[r] # {}
    /\ pending' = [pending EXCEPT ![r] = {}]
    /\ \/ applied' = [applied EXCEPT ![r] = @ \cup (pending[r] \ {Admin})]
       \/ UNCHANGED applied
    /\ UNCHANGED <<lock, worker, reported>>

AdminUnlocks(r) ==
    /\ lock[r] # Free /\ worker[lock[r]].pc \in Final
    /\ lock' = [lock EXCEPT ![r] = Free]
    /\ UNCHANGED <<pending, applied, worker, reported>>

Step(w) ==
    \/ UnknownRemote(w) \/ LockNext(w) \/ AllLocked(w)
    \/ ReleaseNext(w) \/ Released(w)
    \/ AllCalled(w) \/ AllRolledBack(w) \/ AllApplied(w) \/ AllReloaded(w)
    \/ \E r \in Remotes : \/ CallReturns(w, r) \/ RollbackReturns(w, r)
                          \/ ApplyReturns(w, r) \/ ReloadEnds(w, r)

Next ==
    \/ \E w \in Workers : Start(w) \/ Step(w) \/ Crash(w)
    \/ \E r \in Remotes : AdminEdits(r) \/ AdminFlushes(r) \/ AdminUnlocks(r)

Spec == Init /\ [][Next]_vars

\* Every request is answered or times out, and a reload task ends.
FairSpec == Spec /\ \A w \in Workers : WF_vars(Step(w))

-----------------------------------------------------------------------------
(***************************************************************************)
(* Properties.                                                             *)
(***************************************************************************)

\* Isolation: what is pending on a remote that a worker has locked is that worker's
\* change alone, so sdn_apply (which applies all that is pending) never applies, and
\* rollback_sdn_changes never destroys, the edit of somebody else.  It rests on
\* allow_pending = false in every caller of from_remote_names.
LockCoversPending ==
    \A r \in Remotes : lock[r] # Free => pending[r] \subseteq {lock[r]}

\* Atomicity: a worker makes its change live on one remote only when the call went
\* well on every remote of the request, which for_each settles before
\* apply_and_release runs.
NoPartialCommit ==
    [][\A w \in Workers, r \in Remotes :
          lock[r] = w /\ w \in applied'[r] \ applied[r]
             => \A q \in SetOf(worker[w].held) : w \in pending[q] \cup applied[q]]_vars

\* A transaction that for_each rolled back has left neither a lock, nor a pending
\* change, nor an applied one on any remote but those that the log asks the operator
\* to unlock by hand.
RolledBackLeavesNothing ==
    \A w \in Workers : worker[w].pc = "rolledback" =>
        \A r \in Remotes \ reported[w] :
            lock[r] # w /\ w \notin pending[r] \cup applied[r]

AllEnded == \A w \in Workers : worker[w].pc \in Final \cup {"idle"}

\* Two workers that lock the same remotes in opposite orders do not wait for each
\* other, and no failed request keeps a worker: every worker that starts ends.
WorkersEnd == <>[]AllEnded

\* The comment on LockedSdnClients::apply_and_release: it "returns an error if
\* applying or reloading the configuration on one of the remotes failed".
OkMeansApplied ==
    \A w \in Workers : worker[w].pc = "ok" =>
        \A r \in SetOf(worker[w].held) : w \in applied[r]

\* The comment on LockedSdnClients::from_remote_names, for a remote that is not
\* contained in the configuration: "the configuration of all remotes will be
\* unlocked, if possible".
UnknownRemoteUnlocks ==
    \A w \in Workers : worker[w].pc = "unlisted" => \A r \in Remotes : lock[r] # w

=============================================================================
