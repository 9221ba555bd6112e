-------------------------- MODULE NexusCoreProofs ---------------------------
(***************************************************************************)
(* The Nexus core service, for any calls, targets and guests: what is      *)
(* published follows the inventory, every power action that ends is in the *)
(* audit once, and the maintenance windows in SigNoz follow the inventory. *)
(*                                                                         *)
(* The first is inductive.  The second needs to know of every call where   *)
(* it stands and that its entry is still to be written (AuditInv); the     *)
(* third which windows each call has opened or is about to close, and that *)
(* no other call on the target is under way (WindowsInv).                  *)
(***************************************************************************)
EXTENDS NexusCore, TLAPS

\* What is published changes with the inventory, or is marked as not written.
LEMMA SavePublishes ==
  ASSUME NEW c, NEW target, Save(c, target), PublishedFollowsTargets
  PROVE  PublishedFollowsTargets'
BY DEF Save, PublishedFollowsTargets

LEMMA PublishedStep ==
  PublishedFollowsTargets /\ [CoreNext]_coreVars => PublishedFollowsTargets'
<1> SUFFICES ASSUME PublishedFollowsTargets, [CoreNext]_coreVars PROVE PublishedFollowsTargets'
  OBVIOUS
<1>1. CASE UNCHANGED <<targets, file_sd>> /\ unwritten \subseteq unwritten'
  BY <1>1 DEF PublishedFollowsTargets, EnabledIn
<1>2. ASSUME NEW c, Lifecycle(c) PROVE PublishedFollowsTargets'
  BY <1>1, <1>2, SavePublishes DEF Lifecycle, Await
<1>3. ASSUME NEW c, Missing(c) PROVE PublishedFollowsTargets'
  BY <1>1, <1>3 DEF Missing
<1>4. ASSUME NEW c \in CoreCalls, CoreStep(c) PROVE PublishedFollowsTargets'
  <2>1. CASE SetTarget(c)
    BY <1>2, <1>3, <2>1, Zenon DEF SetTarget
  <2>2. CASE DeleteTarget(c)
    BY <1>1, <1>3, <2>2, SavePublishes DEF DeleteTarget, Await
  <2>3. CASE Resume(c)
    BY <1>3, <2>3, SavePublishes DEF Resume
  <2>4. CASE Provisioned(c)
    BY <1>1, <1>2, <2>4 DEF Provisioned
  <2>5. CASE PowerFails(c) \/ Verified(c)
    BY <1>1, <2>5, Zenon DEF PowerFails, Verified, Recorded, monitoring
  <2>6. CASE \/ \E ask \in Asks[c] : Ask(c, ask)
             \/ SigNozActs(c) \/ SigNozFails(c) \/ PowerChecked(c) \/ Accepted(c) \/ PlanGuest(c)
             \/ CreateGuest(c) \/ ProvisionFails(c) \/ VerifyAgain(c)
    BY <1>1, <2>6 DEF Ask, SigNozActs, SigNozFails, PowerChecked, Accepted, PlanGuest, CreateGuest,
                      ProvisionFails, VerifyAgain, monitoring
  <2> QED
    BY <1>4, <2>1, <2>2, <2>3, <2>4, <2>5, <2>6, Zenon DEF CoreStep
<1>5. CASE Restart
  BY <1>5 DEF Restart, PublishedFollowsTargets, EnabledIn
<1>6. CASE (\E g \in Guests, s \in Statuses : JobEnds(g, s) \/ EditGuest(g, s)) \/ Refresh
  BY <1>1, <1>6, Zenon DEF JobEnds, EditGuest, Refresh, monitoring
<1>7. CASE UNCHANGED coreVars
  BY <1>1, <1>7 DEF coreVars, monitoring
<1> QED
  BY <1>4, <1>5, <1>6, <1>7, Zenon DEF CoreNext

\* PublishedFollowsTargets in every behaviour, whatever the calls, targets and guests: what
\* Prometheus is given is what the inventory enables, unless the last write failed
\* (_apply_lifecycle, delete_target, and lifespan after a restart).  Inductive by itself.
THEOREM PublishedIsEnabled == CoreSpec => []PublishedFollowsTargets
<1>1. CoreInit => PublishedFollowsTargets
  BY DEF CoreInit, PublishedFollowsTargets
<1> QED
  BY <1>1, PublishedStep, PTL DEF CoreSpec
-----------------------------------------------------------------------------
CorePcs == Awaiting \cup Over \cup {"idle", "begun", "execute", "verify"}

RequestShape == [pc : CorePcs, ask : AllAsks \cup {None}, id : Windows \cup {None}, left : Int]

\* A request that was made says what it asks; only the others wait for SigNoz.
Asked(k) == (k.ask = None <=> k.pc = "idle") /\ (k.pc \in Awaiting => k.ask.op # "power")

RequestsInv ==
    /\ request \in [CoreCalls -> RequestShape]
    /\ \A c \in CoreCalls : Asked(request[c])

\* A step of one call.
LEMMA OneTurns ==
  ASSUME RequestsInv, NEW c \in CoreCalls, NEW k \in RequestShape, Asked(k),
         request' = [request EXCEPT ![c] = k]
  PROVE  RequestsInv' /\ request'[c] = k /\ \A d \in CoreCalls \ {c} : request'[d] = request[d]
BY DEF RequestsInv

LEMMA MovesTurns ==
  ASSUME RequestsInv, NEW c \in CoreCalls, NEW pc \in CorePcs \ {"idle"}, Moves(c, pc),
         request[c].pc # "idle", pc \in Awaiting => op(c) # "power"
  PROVE  /\ RequestsInv' /\ \A d \in CoreCalls \ {c} : request'[d] = request[d]
         /\ request'[c].pc = pc /\ request'[c].ask = request[c].ask /\ request'[c].id = request[c].id
<1> DEFINE k == [request[c] EXCEPT !.pc = pc]
<1>1. request[c] \in RequestShape /\ Asked(request[c])
  BY DEF RequestsInv
<1>2. k \in [pc : {pc}, ask : {request[c].ask}, id : {request[c].id}, left : {request[c].left}]
  BY <1>1, Zenon DEF RequestShape
<1>3. request' = [request EXCEPT ![c] = k]
  BY DEF Moves
<1> HIDE DEF k
<1>4. k \in RequestShape /\ Asked(k)
  BY <1>1, <1>2 DEF RequestShape, Asked, op
<1>5. RequestsInv' /\ request'[c] = k /\ \A d \in CoreCalls \ {c} : request'[d] = request[d]
  BY <1>3, <1>4, OneTurns, Zenon
<1> QED
  BY <1>2, <1>5
LEMMA AwaitTurns ==
  ASSUME RequestsInv, NEW c \in CoreCalls, NEW pc \in Awaiting, NEW id \in Windows \cup {None},
         Await(c, pc, id), request[c].pc # "idle", op(c) # "power"
  PROVE  /\ RequestsInv' /\ \A d \in CoreCalls \ {c} : request'[d] = request[d]
         /\ request'[c].pc = pc /\ request'[c].ask = request[c].ask /\ request'[c].id = id
<1> DEFINE k == [request[c] EXCEPT !.pc = pc, !.id = id]
<1>1. request[c] \in RequestShape /\ Asked(request[c])
  BY DEF RequestsInv
<1>2. k \in [pc : {pc}, ask : {request[c].ask}, id : {id}, left : {request[c].left}]
  BY <1>1, Zenon DEF RequestShape
<1>3. request' = [request EXCEPT ![c] = k]
  BY Zenon DEF Await
<1> HIDE DEF k
<1>4. k \in RequestShape /\ Asked(k)
  BY <1>1, <1>2 DEF RequestShape, Asked, op, CorePcs, Awaiting
<1>5. RequestsInv' /\ request'[c] = k /\ \A d \in CoreCalls \ {c} : request'[d] = request[d]
  BY <1>3, <1>4, OneTurns, Zenon
<1> QED
  BY <1>2, <1>5

\* The steps that set or count down the attempts.
LEMMA CountTurns ==
  ASSUME RequestsInv, NEW c \in CoreCalls, request[c].pc \in {"execute", "verify"}, VerifyAttempts \in Nat,
         \/ request' = [request EXCEPT ![c].pc = "verify", ![c].left = VerifyAttempts]
         \/ request' = [request EXCEPT ![c].left = @ - 1] /\ request[c].pc = "verify"
  PROVE  /\ RequestsInv' /\ \A d \in CoreCalls \ {c} : request'[d] = request[d]
         /\ request'[c].pc = "verify" /\ request'[c].ask = request[c].ask
         /\ request'[c].id = request[c].id
<1>1. request[c] \in RequestShape /\ Asked(request[c])
  BY DEF RequestsInv
<1>2. PICK left \in Int : request' = [request EXCEPT ![c] = [request[c] EXCEPT !.pc = "verify", !.left = left]]
  <2>1. CASE request' = [request EXCEPT ![c].pc = "verify", ![c].left = VerifyAttempts]
    <3>1. VerifyAttempts \in Int
      OBVIOUS
    <3>2. request' = [request EXCEPT ![c] = [request[c] EXCEPT !.pc = "verify", !.left = VerifyAttempts]]
      BY <2>1
    <3> QED BY <3>1, <3>2, Zenon
  <2>2. CASE request' = [request EXCEPT ![c].left = @ - 1] /\ request[c].pc = "verify"
    <3>1. request[c].left - 1 \in Int
      BY <1>1 DEF RequestShape
    <3>2. [request[c] EXCEPT !.left = request[c].left - 1]
            = [request[c] EXCEPT !.pc = "verify", !.left = request[c].left - 1]
      BY <1>1, <2>2, Zenon DEF RequestShape
    <3> QED BY <2>2, <3>1, <3>2, Zenon
  <2> QED BY <2>1, <2>2, Zenon
<1> DEFINE k == [request[c] EXCEPT !.pc = "verify", !.left = left]
<1>3. k \in [pc : {"verify"}, ask : {request[c].ask}, id : {request[c].id}, left : {left}]
  BY <1>1, Zenon DEF RequestShape
<1>4. request' = [request EXCEPT ![c] = k]
  BY <1>2
<1> HIDE DEF k
<1>5. k \in RequestShape /\ Asked(k)
  BY <1>1, <1>3 DEF RequestShape, Asked, CorePcs, Awaiting
<1>6. RequestsInv' /\ request'[c] = k /\ \A d \in CoreCalls \ {c} : request'[d] = request[d]
  BY <1>4, <1>5, OneTurns, Zenon
<1> QED
  BY <1>3, <1>6

\* Downtime ids, as far as the inventory has them.
TargetsOK == targets \in [Targets -> Entries \cup {None}]

LEMMA AskFields ==
  ASSUME NEW ask \in AllAsks
  PROVE  /\ ask.op \in {"upsert", "set_state", "delete", "power", "provision"}
         /\ ask.op \in {"upsert", "set_state", "delete"} => ask.target \in Targets
         /\ ask.op \in {"upsert", "set_state"} => ask.state \in States
         /\ ask.op \in {"power", "provision"} => ask.guest \in Guests
BY DEF AllAsks

LEMMA TargetOfCall ==
  ASSUME RequestsInv, NEW c \in CoreCalls, request[c].pc # "idle", op(c) # "power"
  PROVE  /\ Target(c) \in Targets
         /\ op(c) # "delete" => Wanted(c) \in States
<1>1. request[c].ask \in AllAsks
  BY DEF RequestsInv, RequestShape, Asked
<1> QED
  BY <1>1, AskFields, CoreAssumption DEF op, Target, Wanted, States
-----------------------------------------------------------------------------
\* AuditedOnce, for one call.
Audited(c) ==
    CASE request[c].pc = "ok" /\ op(c) = "power" -> audit[c] = <<"success">>
      [] request[c].pc = "failed" /\ op(c) = "power" -> audit[c] = <<"failed">> \/ c \in unwritten
      [] OTHER -> audit[c] = <<>>

AuditInv == RequestsInv /\ audit \in [CoreCalls -> Seq({"success", "failed"})] /\ AuditedOnce

LEMMA OneAudited ==
  ASSUME AuditInv, NEW c \in CoreCalls, RequestsInv', \A d \in CoreCalls \ {c} : request'[d] = request[d],
         audit' \in [CoreCalls -> Seq({"success", "failed"})],
         \A d \in CoreCalls \ {c} : audit'[d] = audit[d],
         unwritten \ {"file_sd"} \subseteq unwritten', Audited(c)'
  PROVE  AuditInv'
<1>1. ASSUME NEW d \in CoreCalls PROVE Audited(d)'
  <2>1. d # "file_sd"
    BY CoreAssumption
  <2>2. Audited(d)
    BY DEF AuditInv, AuditedOnce, Audited
  <2>3. CASE d # c
    <3>1. /\ request'[d] = request[d] /\ audit'[d] = audit[d]
          /\ d \in unwritten => d \in unwritten'
      BY <2>1, <2>3
    <3> QED BY <2>2, <3>1 DEF Audited, op
  <2> QED BY <2>3
<1> QED
  BY <1>1 DEF AuditInv, AuditedOnce, Audited

\* A call that is no power action, or that goes on, has no entry and gets none.
LEMMA NothingAudited ==
  ASSUME AuditInv, NEW c \in CoreCalls, RequestsInv', \A d \in CoreCalls \ {c} : request'[d] = request[d],
         request'[c].ask = request[c].ask, request[c].pc \notin {"ok", "failed"},
         op(c) # "power" \/ request'[c].pc \notin {"ok", "failed"},
         UNCHANGED audit, unwritten \ {"file_sd"} \subseteq unwritten'
  PROVE  AuditInv'
<1>1. audit[c] = <<>>
  BY DEF AuditInv, AuditedOnce
<1>2. Audited(c)'
  BY <1>1 DEF Audited, op
<1> QED
  BY <1>2, OneAudited DEF AuditInv

\* The steps of the monitoring service for a call.
LEMMA SaveTurns ==
  ASSUME RequestsInv, NEW c \in CoreCalls, request[c].pc # "idle", op(c) # "power",
         NEW target, Save(c, target) \/ Missing(c)
  PROVE  /\ RequestsInv' /\ \A d \in CoreCalls \ {c} : request'[d] = request[d]
         /\ request'[c].pc \in {"ok", "failed", "warned", "refused"}
         /\ request'[c].ask = request[c].ask
         /\ unwritten \ {"file_sd"} \subseteq unwritten'
<1>1. PICK pc \in {"ok", "failed", "warned", "refused"} :
         Moves(c, pc) /\ unwritten \ {"file_sd"} \subseteq unwritten'
  BY DEF Save, Missing, Broken
<1>2. pc \in CorePcs \ {"idle"} /\ pc \notin Awaiting
  BY DEF CorePcs, Over, Awaiting
<1> QED
  BY <1>1, <1>2, MovesTurns

LEMMA LifecycleTurns ==
  ASSUME RequestsInv, TargetsOK, NEW c \in CoreCalls, request[c].pc # "idle", op(c) # "power",
         Lifecycle(c)
  PROVE  /\ RequestsInv' /\ \A d \in CoreCalls \ {c} : request'[d] = request[d]
         /\ request'[c].ask = request[c].ask
         /\ unwritten \ {"file_sd"} \subseteq unwritten'
<1>1. Downtime(Target(c)) \in Windows \cup {None}
  <2>1. Target(c) \in Targets
    BY TargetOfCall
  <2> QED BY <2>1 DEF Downtime, TargetsOK, Entries
<1>2. ASSUME NEW pc \in {"create", "remove"}, NEW id \in Windows \cup {None}, Await(c, pc, id)
      PROVE  /\ RequestsInv' /\ \A d \in CoreCalls \ {c} : request'[d] = request[d]
             /\ request'[c].ask = request[c].ask
             /\ unwritten \ {"file_sd"} \subseteq unwritten'
  <2>1. pc \in Awaiting
    BY DEF Awaiting
  <2>2. unwritten' = unwritten
    BY <1>2 DEF Await
  <2> QED BY <1>2, <2>1, <2>2, AwaitTurns
<1>3. \/ Await(c, "create", None) \/ Await(c, "remove", Downtime(Target(c)))
      \/ Save(c, [state |-> Wanted(c), downtime |-> Downtime(Target(c))])
  BY DEF Lifecycle
<1> QED
  BY <1>1, <1>2, <1>3, SaveTurns
LEMMA SaveKeepsShape ==
  ASSUME TargetsOK, NEW c, Target(c) \in Targets, NEW target \in Entries \cup {None}, Save(c, target)
  PROVE  TargetsOK'
BY DEF TargetsOK, Save

\* What every step of a call does to the calls and to the shape of the inventory.
StepShape(c) ==
    /\ RequestsInv' /\ TargetsOK'
    /\ \A d \in CoreCalls \ {c} : request'[d] = request[d]
    /\ request[c].pc # "idle" => request'[c].ask = request[c].ask
    /\ unwritten \ {"file_sd"} \subseteq unwritten'

LEMMA ServiceShape ==
  ASSUME RequestsInv, TargetsOK, NEW c \in CoreCalls,
         SetTarget(c) \/ DeleteTarget(c) \/ Resume(c) \/ Provisioned(c)
  PROVE  StepShape(c) /\ request[c].pc \notin {"idle", "ok", "failed"} /\ op(c) # "power" /\ UNCHANGED audit
<1>1. request[c].pc \notin {"idle", "ok", "failed"} /\ op(c) # "power" /\ UNCHANGED audit
  BY DEF SetTarget, DeleteTarget, Resume, Provisioned, RequestsInv, Asked, Awaiting, op
<1>2. Target(c) \in Targets /\ (op(c) # "delete" => Wanted(c) \in States)
  BY <1>1, TargetOfCall
<1>3. Downtime(Target(c)) \in Windows \cup {None} /\ c \in Windows
  BY <1>2 DEF Downtime, TargetsOK, Entries, Windows
<1>4. ASSUME NEW target \in Entries \cup {None}, Save(c, target) PROVE StepShape(c)
  BY <1>1, <1>2, <1>4, SaveTurns, SaveKeepsShape DEF StepShape
<1>5. ASSUME Missing(c) PROVE StepShape(c)
  <2>1. TargetsOK'
    BY <1>5 DEF Missing, TargetsOK
  <2> QED BY <1>1, <1>5, <2>1, SaveTurns DEF StepShape
<1>6. ASSUME Lifecycle(c), op(c) # "delete" PROVE StepShape(c)
  <2>1. [state |-> Wanted(c), downtime |-> Downtime(Target(c))] \in Entries
    BY <1>2, <1>3, <1>6 DEF Entries
  <2>2. TargetsOK'
    BY <1>2, <1>6, <2>1, SaveKeepsShape DEF Lifecycle, Await, TargetsOK
  <2> QED BY <1>1, <1>6, <2>2, LifecycleTurns DEF StepShape
<1>7. CASE SetTarget(c)
  BY <1>1, <1>5, <1>6, <1>7 DEF SetTarget
<1>8. CASE DeleteTarget(c)
  <2>1. ASSUME Await(c, "remove", Downtime(Target(c))) PROVE StepShape(c)
    <3>1. TargetsOK' /\ unwritten' = unwritten
      BY <2>1 DEF Await, TargetsOK
    <3>2. "remove" \in Awaiting
      BY DEF Awaiting
    <3> QED BY <1>1, <1>3, <2>1, <3>1, <3>2, AwaitTurns DEF StepShape
  <2> QED BY <1>1, <1>4, <1>5, <1>8, <2>1 DEF DeleteTarget
<1>9. CASE Resume(c)
  <2>1. [state |-> "maintenance", downtime |-> c] \in Entries
    BY <1>3 DEF Entries, States
  <2>2. op(c) # "delete" => [state |-> Wanted(c), downtime |-> None] \in Entries
    BY <1>2 DEF Entries
  <2> QED BY <1>1, <1>4, <1>5, <1>9, <2>1, <2>2 DEF Resume
<1>10. CASE Provisioned(c)
  <2>1. op(c) # "delete"
    BY <1>10 DEF Provisioned
  <2>2. ASSUME NEW pc \in {"warned", "ok"}, Moves(c, pc), UNCHANGED <<targets, unwritten>> PROVE StepShape(c)
    <3>1. pc \in CorePcs \ {"idle"} /\ pc \notin Awaiting /\ TargetsOK'
      BY <2>2 DEF CorePcs, Over, Awaiting, TargetsOK
    <3> QED BY <1>1, <2>2, <3>1, MovesTurns DEF StepShape
  <2> QED BY <1>6, <1>10, <2>1, <2>2 DEF Provisioned
<1> QED
  BY <1>1, <1>7, <1>8, <1>9, <1>10

\* The steps that leave the inventory alone.
LEMMA OtherShape ==
  ASSUME RequestsInv, TargetsOK, NEW c \in CoreCalls,
         \/ \E ask \in Asks[c] : Ask(c, ask)
         \/ SigNozActs(c) \/ SigNozFails(c) \/ PowerChecked(c) \/ Accepted(c) \/ PowerFails(c)
         \/ Verified(c) \/ PlanGuest(c) \/ CreateGuest(c) \/ ProvisionFails(c) \/ VerifyAgain(c)
  PROVE  StepShape(c) /\ UNCHANGED targets
<1>1. TargetsOK' /\ UNCHANGED targets
  BY Zenon DEF Ask, SigNozActs, SigNozFails, PowerChecked, Accepted, PowerFails, Verified, PlanGuest,
         CreateGuest, ProvisionFails, VerifyAgain, monitoring, TargetsOK
<1>2. unwritten \ {"file_sd"} \subseteq unwritten'
  BY DEF Ask, SigNozActs, SigNozFails, PowerChecked, Accepted, PowerFails, Verified, PlanGuest,
         CreateGuest, ProvisionFails, VerifyAgain, Recorded
<1>3. ASSUME NEW pc \in CorePcs \ {"idle"}, Moves(c, pc), request[c].pc # "idle",
             pc \in Awaiting => op(c) # "power"
      PROVE  StepShape(c)
  BY <1>1, <1>2, <1>3, MovesTurns, Zenon DEF StepShape
<1>4. ASSUME NEW ask \in Asks[c], Ask(c, ask) PROVE StepShape(c)
  <2> DEFINE k == [request[c] EXCEPT !.pc = "begun", !.ask = ask]
  <2>1. request[c] \in RequestShape /\ request[c].pc = "idle" /\ ask \in AllAsks /\ None \notin AllAsks
    BY <1>4, CoreAssumption, Zenon DEF Ask, RequestsInv
  <2>2. k \in [pc : {"begun"}, ask : {ask}, id : {request[c].id}, left : {request[c].left}]
    BY <2>1, Zenon DEF RequestShape
  <2>3. request' = [request EXCEPT ![c] = k]
    BY <1>4, Zenon DEF Ask
  <2> HIDE DEF k
  <2>4. k \in RequestShape /\ Asked(k)
    BY <2>1, <2>2 DEF RequestShape, Asked, CorePcs, Awaiting
  <2> QED BY <1>1, <1>2, <2>1, <2>3, <2>4, OneTurns, Zenon DEF StepShape
<1>5. CASE SigNozActs(c) \/ SigNozFails(c)
  <2>1. request[c].pc \in Awaiting
    BY <1>5, Zenon DEF SigNozActs, SigNozFails, Awaiting
  <2>2. request[c].pc # "idle" /\ op(c) # "power"
    BY <2>1 DEF Awaiting, RequestsInv, Asked, op
  <2>3. PICK pc \in {"created", "removed", "failed", "warned"} : Moves(c, pc)
    BY <1>5, Zenon DEF SigNozActs, SigNozFails, Broken
  <2>4. pc \in CorePcs \ {"idle"}
    BY DEF CorePcs, Awaiting, Over
  <2> QED BY <1>1, <1>3, <2>2, <2>3, <2>4, Zenon
<1>6. CASE PowerChecked(c) \/ PowerFails(c) \/ Verified(c) \/ PlanGuest(c) \/ ProvisionFails(c)
  <2>1. request[c].pc # "idle"
    BY <1>6, Zenon DEF PowerChecked, PowerFails, Verified, PlanGuest, ProvisionFails
  <2>2. PICK pc \in {"refused", "execute", "failed", "ok"} : Moves(c, pc)
    BY <1>6 DEF PowerChecked, PowerFails, Verified, PlanGuest, ProvisionFails
  <2>3. pc \in CorePcs \ {"idle"} /\ pc \notin Awaiting
    BY DEF CorePcs, Awaiting, Over
  <2>4. pc \in Awaiting => op(c) # "power"
    BY <2>3
  <2> QED BY <1>1, <1>3, <2>1, <2>2, <2>3, <2>4, Zenon
<1>7. CASE Accepted(c) \/ CreateGuest(c) \/ VerifyAgain(c)
  <2>1. /\ request[c].pc \in {"execute", "verify"} /\ VerifyAttempts \in Nat
        /\ \/ request' = [request EXCEPT ![c].pc = "verify", ![c].left = VerifyAttempts]
           \/ request' = [request EXCEPT ![c].left = @ - 1] /\ request[c].pc = "verify"
    BY <1>7, CoreAssumption DEF Accepted, CreateGuest, VerifyAgain
  <2> QED BY <1>1, <1>2, <2>1, CountTurns, Zenon DEF StepShape
<1> QED
  BY <1>1, <1>4, <1>5, <1>6, <1>7, Zenon

\* The calls that are gone after a restart.
LEMMA RestartShape ==
  ASSUME RequestsInv, TargetsOK, Restart
  PROVE  /\ RequestsInv' /\ TargetsOK'
         /\ \A c \in CoreCalls :
               /\ request'[c].ask = request[c].ask
               /\ \/ request'[c].pc = request[c].pc
                  \/ request'[c].pc = "lost" /\ request[c].pc \notin {"ok", "failed"}
<1>1. ASSUME NEW c \in CoreCalls
      PROVE  /\ request'[c] \in RequestShape /\ Asked(request'[c])
             /\ request'[c].ask = request[c].ask
             /\ \/ request'[c].pc = request[c].pc
                \/ request'[c].pc = "lost" /\ request[c].pc \notin {"ok", "failed"}
  <2> DEFINE k == [request[c] EXCEPT !.pc = "lost"]
  <2>1. request[c] \in RequestShape /\ Asked(request[c])
    BY DEF RequestsInv
  <2>2. k \in [pc : {"lost"}, ask : {request[c].ask}, id : {request[c].id}, left : {request[c].left}]
    BY <2>1, Zenon DEF RequestShape
  <2>3. \/ request'[c] = request[c]
        \/ request'[c] = k /\ request[c].pc \notin Over \cup {"idle"}
    BY DEF Restart
  <2> HIDE DEF k
  <2> QED BY <2>1, <2>2, <2>3 DEF RequestShape, Asked, CorePcs, Over, Awaiting
<1>2. request' \in [CoreCalls -> RequestShape]
  <2>1. request' = [c \in CoreCalls |-> request'[c]]
    BY DEF Restart
  <2> QED BY <1>1, <2>1
<1>3. TargetsOK'
  BY DEF Restart, TargetsOK
<1> QED
  BY <1>1, <1>2, <1>3, Zenon DEF RequestsInv

LEMMA AuditStep ==
  AuditInv /\ TargetsOK /\ [CoreNext]_coreVars => AuditInv' /\ TargetsOK'
<1> SUFFICES ASSUME AuditInv, TargetsOK, [CoreNext]_coreVars PROVE AuditInv' /\ TargetsOK'
  OBVIOUS
<1>r. RequestsInv
  BY DEF AuditInv
<1>1. ASSUME NEW c \in CoreCalls, SetTarget(c) \/ DeleteTarget(c) \/ Resume(c) \/ Provisioned(c)
      PROVE  AuditInv' /\ TargetsOK'
  <2>1. StepShape(c) /\ request[c].pc \notin {"idle", "ok", "failed"} /\ op(c) # "power" /\ UNCHANGED audit
    BY <1>r, <1>1, ServiceShape, Zenon
  <2> QED BY <2>1, NothingAudited DEF StepShape
<1>2. ASSUME NEW c \in CoreCalls,
             \/ \E ask \in Asks[c] : Ask(c, ask)
             \/ SigNozActs(c) \/ SigNozFails(c) \/ PowerChecked(c) \/ Accepted(c) \/ PlanGuest(c)
             \/ CreateGuest(c) \/ ProvisionFails(c) \/ VerifyAgain(c)
      PROVE  AuditInv' /\ TargetsOK'
  <2>1. StepShape(c)
    BY <1>r, <1>2, OtherShape, Zenon
  <2>2. CASE \E ask \in Asks[c] : Ask(c, ask)
    <3>1. request[c].pc = "idle" /\ UNCHANGED audit /\ request'[c].pc = "begun"
      BY <1>r, <2>2 DEF Ask, RequestsInv, RequestShape
    <3>2. audit[c] = <<>>
      BY <3>1 DEF AuditInv, AuditedOnce
    <3>3. Audited(c)'
      BY <3>1, <3>2 DEF Audited
    <3> QED BY <2>1, <3>1, <3>3, OneAudited DEF StepShape, AuditInv
  <2>3. CASE ~(\E ask \in Asks[c] : Ask(c, ask))
    <3>1. UNCHANGED audit /\ request[c].pc \notin {"idle", "ok", "failed"}
      BY <1>2, <2>3, Zenon DEF SigNozActs, SigNozFails, PowerChecked, Accepted, PlanGuest, CreateGuest,
                        ProvisionFails, VerifyAgain, Awaiting
    <3>2. op(c) = "power" => request'[c].pc \notin {"ok", "failed"}
      <4>1. CASE SigNozActs(c) \/ SigNozFails(c)
        BY <1>r, <4>1 DEF SigNozActs, SigNozFails, RequestsInv, Asked, Awaiting, op
      <4>2. CASE PlanGuest(c) \/ CreateGuest(c) \/ ProvisionFails(c)
        BY <4>2 DEF PlanGuest, CreateGuest, ProvisionFails
      <4>3. CASE PowerChecked(c)
        BY <1>r, <4>3 DEF PowerChecked, Moves, RequestsInv, RequestShape
      <4>4. CASE Accepted(c) \/ VerifyAgain(c)
        BY <1>r, <4>4 DEF Accepted, VerifyAgain, RequestsInv, RequestShape
      <4> QED BY <1>2, <2>3, <4>1, <4>2, <4>3, <4>4, Zenon
    <3> QED BY <2>1, <3>1, <3>2, NothingAudited, Zenon DEF StepShape
  <2> QED BY <2>2, <2>3
<1>3. ASSUME NEW c \in CoreCalls, PowerFails(c) \/ Verified(c) PROVE AuditInv' /\ TargetsOK'
  <2>1. StepShape(c)
    BY <1>r, <1>3, OtherShape, Zenon
  <2>2. request[c].pc \in {"execute", "verify"} /\ op(c) = "power"
    BY <1>3 DEF PowerFails, Verified
  <2>3. audit[c] = <<>>
    BY <2>2 DEF AuditInv, AuditedOnce
  <2>4. /\ \A d \in CoreCalls \ {c} : audit'[d] = audit[d]
        /\ audit' \in [CoreCalls -> Seq({"success", "failed"})]
    <3>1. \/ audit' = audit
          \/ \E result \in {"success", "failed"} : audit' = [audit EXCEPT ![c] = Append(@, result)]
      BY <1>3, Zenon DEF PowerFails, Verified, Recorded
    <3>2. \A result \in {"success", "failed"} : Append(audit[c], result) \in Seq({"success", "failed"})
      BY DEF AuditInv
    <3> QED BY <3>1, <3>2, Zenon DEF AuditInv
  <2>5. \/ request'[c].pc = "ok" /\ audit'[c] = <<"success">>
        \/ request'[c].pc = "failed" /\ (audit'[c] = <<"failed">> \/ c \in unwritten')
    <3>1. ASSUME NEW pc, Moves(c, pc) PROVE request'[c].pc = pc
      BY <1>r, <3>1 DEF Moves, RequestsInv, RequestShape
    <3>2. ASSUME NEW result, audit' = [audit EXCEPT ![c] = Append(@, result)]
          PROVE  audit'[c] = <<result>>
      BY <2>3, <3>2 DEF AuditInv
    <3>3. CASE PowerFails(c)
      BY <3>1, <3>2, <3>3, Zenon DEF PowerFails, Recorded
    <3>4. CASE Verified(c)
      BY <3>1, <3>2, <3>4, Zenon DEF Verified
    <3> QED BY <1>3, <3>3, <3>4, Zenon
  <2>6. request'[c].ask = request[c].ask
    BY <2>1, <2>2 DEF StepShape
  <2>7. Audited(c)'
    BY <2>2, <2>5, <2>6 DEF Audited, op
  <2> QED BY <2>1, <2>4, <2>7, OneAudited DEF StepShape
<1>4. CASE Restart
  <2>1. /\ RequestsInv' /\ TargetsOK'
        /\ \A c \in CoreCalls :
              /\ request'[c].ask = request[c].ask
              /\ \/ request'[c].pc = request[c].pc
                 \/ request'[c].pc = "lost" /\ request[c].pc \notin {"ok", "failed"}
    BY <1>r, <1>4, RestartShape
  <2>3. UNCHANGED <<audit, targets>> /\ unwritten' = unwritten \ {"file_sd"}
    BY <1>4 DEF Restart
  <2>4. ASSUME NEW c \in CoreCalls PROVE Audited(c)'
    <3>1. c # "file_sd"
      BY CoreAssumption
    <3> QED BY <2>1, <2>3, <3>1 DEF AuditInv, AuditedOnce, Audited, op
  <2> QED BY <2>1, <2>3, <2>4 DEF AuditInv, AuditedOnce, Audited
<1>5. CASE UNCHANGED <<request, audit, unwritten, targets>>
  BY <1>5 DEF AuditInv, RequestsInv, AuditedOnce, TargetsOK, op
<1>6. CASE (\E g \in Guests, s \in Statuses : JobEnds(g, s) \/ EditGuest(g, s)) \/ Refresh
  BY <1>5, <1>6, Zenon DEF JobEnds, EditGuest, Refresh, monitoring
<1>7. CASE UNCHANGED coreVars
  BY <1>5, <1>7 DEF coreVars, monitoring
<1>8. ASSUME NEW c \in CoreCalls, CoreStep(c) PROVE AuditInv' /\ TargetsOK'
  BY <1>1, <1>2, <1>3, <1>8, Zenon DEF CoreStep
<1> QED
  BY <1>4, <1>6, <1>7, <1>8, Zenon DEF CoreNext

LEMMA AuditStart == CoreInit => AuditInv /\ TargetsOK
<1> SUFFICES ASSUME CoreInit PROVE AuditInv /\ TargetsOK
  OBVIOUS
<1>1. NotMade \in RequestShape /\ Asked(NotMade) /\ NotMade.pc = "idle"
  BY DEF NotMade, RequestShape, Asked, CorePcs, Awaiting
<1>2. \A c \in CoreCalls : request[c] = NotMade
  BY DEF CoreInit
<1>3. RequestsInv
  BY <1>1, <1>2 DEF CoreInit, RequestsInv
<1>4. AuditedOnce /\ audit \in [CoreCalls -> Seq({"success", "failed"})]
  BY <1>1, <1>2 DEF CoreInit, AuditedOnce
<1>5. TargetsOK
  BY DEF CoreInit, TargetsOK, Entries, States, Windows
<1> QED
  BY <1>3, <1>4, <1>5 DEF AuditInv

\* AuditedOnce in every behaviour: a power action that has ended has one entry in the audit,
\* with its outcome, and a call that has not ended, or was no power action, has none
\* (execute_power_action), for any calls, guests and number of attempts to verify.
THEOREM AuditIsComplete == CoreSpec => []AuditedOnce
<1>1. AuditInv => AuditedOnce
  BY DEF AuditInv
<1> QED
  BY <1>1, AuditStart, AuditStep, PTL DEF CoreSpec
-----------------------------------------------------------------------------
\* The windows that a target may have; those it should have; the calls that wait for SigNoz
\* with what they have read of it.
Owned(t) == {t} \cup {c \in CoreCalls : request[c].ask # None /\ op(c) # "power" /\ Target(c) = t}
DueOf(target) == IF target # None /\ target.state = "maintenance" THEN {target.downtime} ELSE {}
AwaitingOn(t) == {c \in CoreCalls : request[c].pc \in Awaiting /\ Target(c) = t}

\* What a call that waits for SigNoz has asked for, and the windows that exist meanwhile.
Stands(c, t) ==
    /\ request[c].pc = "create" => WindowsOf(t) = {} /\ Downtime(t) = None
    /\ request[c].pc = "created" => WindowsOf(t) = {c} /\ Downtime(t) = None
    /\ request[c].pc = "remove" =>
          /\ request[c].id # None /\ Downtime(t) = request[c].id
          /\ WindowsOf(t) = {request[c].id}
    /\ request[c].pc = "removed" => WindowsOf(t) = {} /\ Downtime(t) # None

\* A target is in the hands of one call at a time, or has the window it should have.
OneWindow(t) ==
    /\ \A c, d \in AwaitingOn(t) : c = d
    /\ AwaitingOn(t) = {} => WindowsOf(t) = DueOf(targets[t])
    /\ \A c \in AwaitingOn(t) : Stands(c, t)

Waits(c) ==
    /\ request[c].pc \in {"create", "created"} => op(c) # "delete" /\ Wanted(c) = "maintenance"
    /\ request[c].pc \in {"remove", "removed"} => op(c) = "delete" \/ Wanted(c) # "maintenance"
    /\ request[c].pc \in Awaiting => request[c].id \in Owned(Target(c)) \cup {None}
    /\ c \in windows => request[c].ask # None

\* An entry has the id of a window exactly while it is in maintenance, and of its own window.
EntryOK(target, owned) ==
    target # None =>
        /\ target.state = "maintenance" <=> target.downtime # None
        /\ target.downtime \in owned \cup {None}

WindowsInv ==
    /\ RequestsInv /\ TargetsOK
    /\ \A c \in CoreCalls : Waits(c)
    /\ \A t \in Targets : EntryOK(targets[t], Owned(t))
    /\ \A t \in Targets \ astray : OneWindow(t)

LEMMA SameAsks ==
  ASSUME \A d \in CoreCalls : request'[d].ask = request[d].ask
  PROVE  /\ \A d \in CoreCalls : op(d)' = op(d) /\ Target(d)' = Target(d) /\ Wanted(d)' = Wanted(d)
         /\ \A t \in Targets : Owned(t)' = Owned(t)
<1>1. \A d \in CoreCalls : op(d)' = op(d) /\ Target(d)' = Target(d) /\ Wanted(d)' = Wanted(d)
  BY DEF op, Target, Wanted
<1>2. ASSUME NEW t \in Targets PROVE Owned(t)' = Owned(t)
  BY <1>1 DEF Owned
<1> QED
  BY <1>1, <1>2

LEMMA OwnWindows ==
  /\ \A t \in Targets : WindowsOf(t) = windows \cap Owned(t)
  /\ \A t, u \in Targets : t # u => Owned(t) \cap Owned(u) = {}
<1>1. \A t \in Targets : WindowsOf(t) = windows \cap Owned(t)
  BY DEF WindowsOf, Owned
<1>2. ASSUME NEW t \in Targets, NEW u \in Targets, t # u PROVE Owned(t) \cap Owned(u) = {}
  BY <1>2, CoreAssumption, Zenon DEF Owned
<1> QED
  BY <1>1, <1>2

\* A target that nothing happens to.
LEMMA Untouched ==
  ASSUME NEW t \in Targets, OneWindow(t), targets'[t] = targets[t], WindowsOf(t)' = WindowsOf(t),
         AwaitingOn(t)' = AwaitingOn(t),
         \A d \in AwaitingOn(t) : request'[d].pc = request[d].pc /\ request'[d].id = request[d].id
  PROVE  OneWindow(t)'
<1>1. Downtime(t)' = Downtime(t)
  BY Zenon DEF Downtime
<1>2. DueOf(targets[t])' = DueOf(targets[t])
  BY Zenon DEF DueOf
<1>3. ASSUME NEW c \in AwaitingOn(t) PROVE Stands(c, t)'
  BY <1>1, <1>3 DEF Stands, OneWindow
<1> QED
  BY <1>2, <1>3 DEF OneWindow

\* A step of a call that waits for SigNoz neither before nor after it, and leaves inventory
\* and windows alone.
LEMMA QuietStep ==
  ASSUME WindowsInv, NEW c \in CoreCalls, RequestsInv', TargetsOK',
         \A d \in CoreCalls \ {c} : request'[d] = request[d],
         request'[c].ask = request[c].ask, request[c].pc \notin Awaiting, request'[c].pc \notin Awaiting,
         UNCHANGED <<targets, windows>>, astray \subseteq astray'
  PROVE  WindowsInv'
<1>1. /\ \A d \in CoreCalls : op(d)' = op(d) /\ Target(d)' = Target(d) /\ Wanted(d)' = Wanted(d)
      /\ \A t \in Targets : Owned(t)' = Owned(t)
  BY SameAsks, Zenon
<1>2. ASSUME NEW d \in CoreCalls PROVE Waits(d)'
  <2>1. request'[d].pc \in Awaiting => d # c
    BY Zenon
  <2>2. Waits(d) /\ (request'[d].pc \in Awaiting => request'[d] = request[d] /\ Target(d) \in Targets)
    BY <2>1, TargetOfCall DEF WindowsInv, RequestsInv, Asked, op, Awaiting
  <2>3. request'[d].ask = request[d].ask
    OBVIOUS
  <2>4. {"create", "created", "remove", "removed"} = Awaiting
    BY Zenon DEF Awaiting
  <2> QED BY <1>1, <2>1, <2>2, <2>3, <2>4 DEF Waits
<1>3. ASSUME NEW t \in Targets PROVE EntryOK(targets[t], Owned(t))'
  BY <1>1, Zenon DEF WindowsInv, EntryOK
<1>4. ASSUME NEW t \in Targets \ astray' PROVE OneWindow(t)'
  <2>1. OneWindow(t)
    BY Zenon DEF WindowsInv
  <2>2. WindowsOf(t)' = WindowsOf(t)
    BY <1>1, Zenon DEF WindowsOf, Owned
  <2>3. AwaitingOn(t)' = AwaitingOn(t)
    BY <1>1, Zenon DEF AwaitingOn
  <2>4. \A d \in AwaitingOn(t) : request'[d].pc = request[d].pc /\ request'[d].id = request[d].id
    BY Zenon DEF AwaitingOn
  <2> QED BY <2>1, <2>2, <2>3, <2>4, Untouched
<1> QED
  BY <1>2, <1>3, <1>4, Zenon DEF WindowsInv
\* A step of a call on its target.
LEMMA ActiveStep ==
  ASSUME WindowsInv, NEW c \in CoreCalls, RequestsInv', TargetsOK',
         op(c) # "power", request[c].pc # "idle",
         \A d \in CoreCalls \ {c} : request'[d] = request[d], request'[c].ask = request[c].ask,
         \A t \in Targets \ {Target(c)} : /\ targets'[t] = targets[t]
                                          /\ windows' \cap Owned(t) = windows \cap Owned(t),
         windows' \subseteq windows \cup {c}, astray \subseteq astray',
         Waits(c)', EntryOK(targets'[Target(c)], Owned(Target(c))),
         Target(c) \notin astray' => OneWindow(Target(c))'
  PROVE  WindowsInv'
<1>1. /\ \A d \in CoreCalls : op(d)' = op(d) /\ Target(d)' = Target(d) /\ Wanted(d)' = Wanted(d)
      /\ \A t \in Targets : Owned(t)' = Owned(t)
  BY SameAsks, Zenon
<1>2. ASSUME NEW d \in CoreCalls, d # c PROVE Waits(d)'
  <2>1. Waits(d) /\ (request[d].pc \in Awaiting => Target(d) \in Targets)
    BY TargetOfCall, Zenon DEF WindowsInv, RequestsInv, Asked, op, Awaiting
  <2>2. request'[d] = request[d] /\ (d \in windows' => d \in windows)
    BY <1>2, Zenon
  <2> QED BY <1>1, <2>1, <2>2, Zenon DEF Waits
<1>3. ASSUME NEW t \in Targets PROVE EntryOK(targets'[t], Owned(t)')
  <2>1. EntryOK(targets'[t], Owned(t))
    BY Zenon DEF WindowsInv
  <2> QED BY <1>1, <2>1, Zenon
<1>4. ASSUME NEW t \in Targets \ astray', t # Target(c) PROVE OneWindow(t)'
  <2>1. OneWindow(t) /\ targets'[t] = targets[t]
    BY <1>4, Zenon DEF WindowsInv
  <2>2. WindowsOf(t)' = WindowsOf(t)
    <3>1. WindowsOf(t)' = windows' \cap Owned(t)' /\ WindowsOf(t) = windows \cap Owned(t)
      BY Zenon DEF WindowsOf, Owned
    <3> QED BY <1>1, <1>4, <3>1, Zenon
  <2>3. AwaitingOn(t)' = AwaitingOn(t) /\ c \notin AwaitingOn(t)
    BY <1>1, <1>4, Zenon DEF AwaitingOn
  <2>4. \A d \in AwaitingOn(t) : request'[d].pc = request[d].pc /\ request'[d].id = request[d].id
    BY <2>3, Zenon DEF AwaitingOn
  <2> QED BY <2>1, <2>2, <2>3, <2>4, Untouched, Zenon
<1>5. Target(c) \notin astray' => \A t \in {Target(c)} : OneWindow(t)'
  <2>1. Target(c)' = Target(c)
    BY <1>1
  <2> QED BY <2>1, Zenon
<1> QED
  BY <1>2, <1>3, <1>4, <1>5, Zenon DEF WindowsInv

\* No other call waits for SigNoz with the same target.
LEMMA NoOverlap ==
  ASSUME NEW c \in CoreCalls, Target(c) \notin Overlap(c)
  PROVE  AwaitingOn(Target(c)) \subseteq {c}
BY Zenon DEF Overlap, AwaitingOn

\* The call turns to SigNoz: the window it is to create does not exist, the one it is to
\* remove is the one of the target.
LEMMA AwaitStep ==
  ASSUME WindowsInv, NEW c \in CoreCalls, TargetsOK', op(c) # "power",
         request[c].pc \notin Awaiting \cup {"idle"}, UNCHANGED windows,
         NEW pc \in {"create", "remove"}, NEW id \in Windows \cup {None}, Await(c, pc, id),
         pc = "create" => op(c) # "delete" /\ Wanted(c) = "maintenance" /\ id = None
                            /\ Downtime(Target(c)) = None,
         pc = "remove" => (op(c) = "delete" \/ Wanted(c) # "maintenance") /\ id # None
                            /\ id = Downtime(Target(c))
  PROVE  WindowsInv'
<1> DEFINE t == Target(c)
<1>1. /\ RequestsInv' /\ \A d \in CoreCalls \ {c} : request'[d] = request[d]
      /\ request'[c].pc = pc /\ request'[c].ask = request[c].ask /\ request'[c].id = id
  <2>1. pc \in Awaiting
    BY Zenon DEF Awaiting
  <2> QED BY <2>1, AwaitTurns, Zenon DEF WindowsInv
<1>2. /\ \A d \in CoreCalls : op(d)' = op(d) /\ Target(d)' = Target(d) /\ Wanted(d)' = Wanted(d)
      /\ \A u \in Targets : Owned(u)' = Owned(u)
  BY <1>1, SameAsks
<1>3. UNCHANGED targets /\ astray' = astray \cup Overlap(c)
  BY Zenon DEF Await
<1>4. t \in Targets /\ EntryOK(targets[t], Owned(t)) /\ None \notin Windows
  BY TargetOfCall, CoreAssumption, Zenon DEF WindowsInv
<1>5. Waits(c)'
  <2>1. id \in Owned(t) \cup {None}
    BY <1>4, Zenon DEF Downtime, EntryOK
  <2>2. c \in windows' => request'[c].ask # None
    BY <1>1, Zenon DEF WindowsInv, Waits
  <2> QED BY <1>1, <1>2, <1>4, <2>1, <2>2, Zenon DEF Waits
<1>6. ASSUME t \notin astray' PROVE OneWindow(t)'
  <2>1. AwaitingOn(t) = {}
    <3>1. AwaitingOn(t) \subseteq {c}
      BY <1>3, <1>6, NoOverlap, Zenon
    <3>2. c \notin AwaitingOn(t)
      BY Zenon DEF AwaitingOn
    <3> QED BY <3>1, <3>2, Zenon
  <2>2. WindowsOf(t) = DueOf(targets[t])
    BY <1>3, <1>4, <1>6, <2>1, Zenon DEF WindowsInv, OneWindow
  <2>3. AwaitingOn(t)' = {c}
    <3>1. \A d \in CoreCalls : d \in AwaitingOn(t)' <=> request'[d].pc \in Awaiting /\ Target(d)' = t
      BY <1>2, Zenon DEF AwaitingOn
    <3>2. pc \in Awaiting
      BY DEF Awaiting
    <3>3. \A d \in CoreCalls \ {c} : ~(request[d].pc \in Awaiting /\ Target(d) = t)
      BY <2>1, Zenon DEF AwaitingOn
    <3>4. AwaitingOn(t)' \subseteq CoreCalls
      BY Zenon DEF AwaitingOn
    <3> QED BY <1>1, <1>2, <3>1, <3>2, <3>3, <3>4, Zenon
  <2>4. WindowsOf(t)' = WindowsOf(t) /\ Downtime(t)' = Downtime(t)
    <3>1. WindowsOf(t)' = windows' \cap Owned(t)' /\ WindowsOf(t) = windows \cap Owned(t)
      BY <1>2, Zenon DEF WindowsOf, Owned
    <3> QED BY <1>2, <1>3, <1>4, <3>1, Zenon DEF Downtime
  <2>5. Downtime(t) = None => DueOf(targets[t]) = {}
    BY <1>4, Zenon DEF Downtime, EntryOK, DueOf
  <2>6. Downtime(t) # None => DueOf(targets[t]) = {Downtime(t)}
    BY <1>4, Zenon DEF Downtime, EntryOK, DueOf
  <2>7. Stands(c, t)'
    BY <1>1, <2>2, <2>4, <2>5, <2>6, Zenon DEF Stands
  <2> HIDE DEF t
  <2> QED BY <2>3, <2>7, Zenon DEF OneWindow
<1> QED
  <2>1. EntryOK(targets'[t], Owned(t))
    BY <1>3, <1>4, Zenon
  <2>2. OneWindow(Target(c))' \/ Target(c) \in astray'
    BY <1>2, <1>6, Zenon
  <2> QED BY <1>1, <1>3, <1>5, <2>1, <2>2, ActiveStep, Zenon
\* The inventory gets a new entry, and the call ends.
LEMMA SaveStep ==
  ASSUME WindowsInv, NEW c \in CoreCalls, op(c) # "power", request[c].pc # "idle",
         UNCHANGED windows, NEW target \in Entries \cup {None}, Save(c, target),
         EntryOK(target, Owned(Target(c))),
         Target(c) \notin astray /\ AwaitingOn(Target(c)) \subseteq {c} =>
             WindowsOf(Target(c)) = DueOf(target)
  PROVE  WindowsInv'
<1> DEFINE t == Target(c)
<1>0. t \in Targets /\ RequestsInv /\ TargetsOK
  BY TargetOfCall, Zenon DEF WindowsInv
<1>1. /\ RequestsInv' /\ \A d \in CoreCalls \ {c} : request'[d] = request[d]
      /\ request'[c].pc \in {"ok", "failed", "warned", "refused"} /\ request'[c].ask = request[c].ask
  BY <1>0, SaveTurns, Zenon
<1>2. /\ \A d \in CoreCalls : op(d)' = op(d) /\ Target(d)' = Target(d) /\ Wanted(d)' = Wanted(d)
      /\ \A u \in Targets : Owned(u)' = Owned(u)
  BY <1>1, SameAsks, Zenon
<1>3. \/ targets' = [targets EXCEPT ![t] = target] /\ astray' = astray \cup Overlap(c)
      \/ targets' = targets /\ astray' = astray \cup {t}
  BY Zenon DEF Save
<1>4. TargetsOK'
  BY <1>0, SaveKeepsShape, Zenon
<1>5. Waits(c)'
  BY <1>1, Zenon DEF Waits, WindowsInv, Awaiting
<1>6. EntryOK(targets'[t], Owned(t)) /\ \A u \in Targets \ {t} : targets'[u] = targets[u]
  BY <1>0, <1>3, Zenon DEF WindowsInv, TargetsOK
<1>7. ASSUME t \notin astray' PROVE OneWindow(t)'
  <2>1. targets'[t] = target /\ t \notin astray /\ t \notin Overlap(c)
    BY <1>0, <1>3, <1>7, <1>2, Zenon DEF TargetsOK
  <2>2. AwaitingOn(t) \subseteq {c}
    BY <2>1, NoOverlap, Zenon
  <2>3. AwaitingOn(t)' = {}
    BY <1>1, <1>2, <2>2 DEF AwaitingOn, Awaiting
  <2>4. WindowsOf(t)' = WindowsOf(t)
    <3>1. WindowsOf(t)' = windows' \cap Owned(t)' /\ WindowsOf(t) = windows \cap Owned(t)
      BY <1>2, Zenon DEF WindowsOf, Owned
    <3> QED BY <1>0, <1>2, <3>1, Zenon
  <2>5. (targets[t])' = target
    BY <1>2, <2>1, Zenon
  <2>6. WindowsOf(t)' = DueOf(targets[t])'
    BY <2>1, <2>2, <2>4, <2>5, Zenon DEF DueOf
  <2> HIDE DEF t
  <2> QED BY <2>3, <2>6, Zenon DEF OneWindow
<1> QED
  <2>1. OneWindow(Target(c))' \/ Target(c) \in astray'
    BY <1>2, <1>7, Zenon
  <2>2. astray \subseteq astray'
    BY <1>3, Zenon
  <2> QED BY <1>1, <1>4, <1>5, <1>6, <2>1, <2>2, ActiveStep, Zenon

\* What the inventory says, where no call waits.
LEMMA Settled ==
  ASSUME WindowsInv, NEW c \in CoreCalls, op(c) # "power", request[c].pc \notin Awaiting \cup {"idle"},
         Target(c) \notin astray, AwaitingOn(Target(c)) \subseteq {c}
  PROVE  /\ WindowsOf(Target(c)) = DueOf(targets[Target(c)])
         /\ Downtime(Target(c)) = None => WindowsOf(Target(c)) = {}
         /\ Downtime(Target(c)) # None => WindowsOf(Target(c)) = {Downtime(Target(c))}
<1>1. Target(c) \in Targets
  BY TargetOfCall, Zenon DEF WindowsInv
<1>2. AwaitingOn(Target(c)) = {}
  BY Zenon DEF AwaitingOn
<1>3. OneWindow(Target(c)) /\ EntryOK(targets[Target(c)], Owned(Target(c)))
  BY <1>1, Zenon DEF WindowsInv
<1>4. WindowsOf(Target(c)) = DueOf(targets[Target(c)])
  BY <1>2, <1>3, Zenon DEF OneWindow
<1> QED
  BY <1>3, <1>4, Zenon DEF EntryOK, DueOf, Downtime

\* _apply_lifecycle up to its await or its end.
LEMMA LifecycleStep ==
  ASSUME WindowsInv, NEW c \in CoreCalls, op(c) \notin {"power", "delete"},
         request[c].pc \notin Awaiting \cup {"idle"}, UNCHANGED windows, Lifecycle(c)
  PROVE  WindowsInv'
<1> DEFINE t == Target(c)
           e == [state |-> Wanted(c), downtime |-> Downtime(t)]
<1>0. t \in Targets /\ Wanted(c) \in States /\ None \notin Windows /\ None \notin Entries
  BY TargetOfCall, CoreAssumption, Zenon DEF WindowsInv
<1>1. EntryOK(targets[t], Owned(t)) /\ Downtime(t) \in Windows \cup {None}
  BY <1>0, Zenon DEF WindowsInv, TargetsOK, Entries, Downtime
<1>2. e \in Entries /\ e.state = Wanted(c) /\ e.downtime = Downtime(t)
  BY <1>0, <1>1 DEF Entries
<1>3. ASSUME NEW pc \in {"create", "remove"}, NEW id \in Windows \cup {None}, Await(c, pc, id) PROVE TargetsOK'
  BY <1>3, Zenon DEF Await, WindowsInv, TargetsOK
<1>4. CASE Wanted(c) = "maintenance" /\ Downtime(t) = None
  <2>1. Await(c, "create", None)
    BY <1>4, Zenon DEF Lifecycle
  <2>2. TargetsOK'
    BY <1>3, <2>1, Zenon
  <2> QED BY <1>4, <2>1, <2>2, AwaitStep
<1>5. CASE Wanted(c) # "maintenance" /\ Downtime(t) # None
  <2>1. Await(c, "remove", Downtime(t))
    BY <1>5, Zenon DEF Lifecycle
  <2>2. TargetsOK'
    BY <1>1, <1>3, <2>1, Zenon
  <2> QED BY <1>1, <1>5, <2>1, <2>2, AwaitStep
<1>6. CASE Wanted(c) = "maintenance" <=> Downtime(t) # None
  <2>1. Save(c, e)
    BY <1>6, Zenon DEF Lifecycle
  <2>2. Downtime(t) \in Owned(t) \cup {None}
    BY <1>1, Zenon DEF EntryOK, Downtime
  <2>3. EntryOK(e, Owned(t))
    BY <1>2, <1>6, <2>2, Zenon DEF EntryOK
  <2>4. t \notin astray /\ AwaitingOn(t) \subseteq {c} => WindowsOf(t) = DueOf(e)
    <3>1. DueOf(e) = IF Downtime(t) # None THEN {Downtime(t)} ELSE {}
      BY <1>0, <1>2, <1>6, Zenon DEF DueOf
    <3> QED BY <3>1, Settled, Zenon
  <2> HIDE DEF e
  <2> QED BY <1>2, <2>1, <2>3, <2>4, SaveStep
<1> QED
  BY <1>4, <1>5, <1>6, Zenon
\* A call that finds no target is refused.
LEMMA MissingStep ==
  ASSUME WindowsInv, NEW c \in CoreCalls, op(c) # "power", request[c].pc \notin Awaiting \cup {"idle"},
         UNCHANGED windows, Missing(c)
  PROVE  WindowsInv'
<1>1. /\ RequestsInv' /\ \A d \in CoreCalls \ {c} : request'[d] = request[d]
      /\ request'[c].pc \in {"ok", "failed", "warned", "refused"} /\ request'[c].ask = request[c].ask
  BY SaveTurns, Zenon DEF WindowsInv
<1>2. UNCHANGED <<targets, astray>> /\ TargetsOK' /\ request'[c].pc \notin Awaiting
  BY <1>1 DEF Missing, WindowsInv, TargetsOK, Awaiting
<1> QED
  BY <1>1, <1>2, QuietStep, Zenon

LEMMA DeleteStep ==
  ASSUME WindowsInv, NEW c \in CoreCalls, DeleteTarget(c)
  PROVE  WindowsInv'
<1> DEFINE t == Target(c)
<1>0. /\ op(c) = "delete" /\ op(c) # "power" /\ UNCHANGED windows
      /\ request[c].pc \notin Awaiting \cup {"idle"}
  BY Zenon DEF DeleteTarget, Awaiting
<1>1. t \in Targets
  BY <1>0, TargetOfCall, Zenon DEF WindowsInv
<1>2. Downtime(t) \in Windows \cup {None}
  BY <1>1, Zenon DEF WindowsInv, TargetsOK, Entries, Downtime
<1>3. CASE Missing(c)
  BY <1>0, <1>3, MissingStep, Zenon
<1>4. CASE Downtime(t) # None /\ Await(c, "remove", Downtime(t))
  <2>1. TargetsOK'
    BY <1>4, Zenon DEF Await, WindowsInv, TargetsOK
  <2> QED BY <1>0, <1>2, <1>4, <2>1, AwaitStep
<1>5. CASE Downtime(t) = None /\ Save(c, None)
  <2>1. EntryOK(None, Owned(t)) /\ DueOf(None) = {}
    BY Zenon DEF EntryOK, DueOf
  <2>2. t \notin astray /\ AwaitingOn(t) \subseteq {c} => WindowsOf(t) = DueOf(None)
    BY <1>0, <1>5, <2>1, Settled, Zenon
  <2> QED BY <1>0, <1>5, <2>1, <2>2, SaveStep
<1> QED
  BY <1>3, <1>4, <1>5 DEF DeleteTarget

\* The answer of SigNoz has come.
LEMMA ResumeStep ==
  ASSUME WindowsInv, NEW c \in CoreCalls, Resume(c)
  PROVE  WindowsInv'
<1> DEFINE t == Target(c)
<1>0. request[c].pc \in {"created", "removed"} /\ UNCHANGED windows
  BY Zenon DEF Resume
<1>1. op(c) # "power" /\ request[c].pc \in Awaiting /\ request[c].pc # "idle" /\ request[c].ask # None
  BY <1>0, Zenon DEF WindowsInv, RequestsInv, Asked, op, Awaiting
<1>2. t \in Targets /\ (op(c) # "delete" => Wanted(c) \in States) /\ Waits(c)
  BY <1>1, TargetOfCall, Zenon DEF WindowsInv
<1>3. None \notin Windows /\ None \notin Entries /\ c \in Windows /\ c \in Owned(t)
  BY <1>1, CoreAssumption, Zenon DEF Windows, Owned
<1>4. t \notin astray => Stands(c, t)
  BY <1>1, <1>2, Zenon DEF WindowsInv, OneWindow, AwaitingOn
<1>5. CASE request[c].pc = "created"
  <2> DEFINE e == [state |-> "maintenance", downtime |-> c]
  <2>1. Save(c, e)
    BY <1>5, Zenon DEF Resume
  <2>2. e \in Entries /\ EntryOK(e, Owned(t)) /\ DueOf(e) = {c}
    BY <1>3 DEF Entries, States, EntryOK, DueOf
  <2> HIDE DEF e
  <2>3. t \notin astray => WindowsOf(t) = DueOf(e)
    BY <1>4, <1>5, <2>2, Zenon DEF Stands
  <2> QED BY <1>0, <1>1, <2>1, <2>2, <2>3, SaveStep
<1>6. CASE request[c].pc = "removed" /\ op(c) # "delete"
  <2> DEFINE e == [state |-> Wanted(c), downtime |-> None]
  <2>1. Save(c, e)
    BY <1>6 DEF Resume
  <2>2. e \in Entries /\ EntryOK(e, Owned(t)) /\ DueOf(e) = {}
    BY <1>2, <1>3, <1>6, Zenon DEF Entries, Waits, EntryOK, DueOf
  <2> HIDE DEF e
  <2>3. t \notin astray => WindowsOf(t) = DueOf(e)
    BY <1>4, <1>6, <2>2 DEF Stands
  <2> QED BY <1>0, <1>1, <2>1, <2>2, <2>3, SaveStep, Zenon
<1>7. CASE request[c].pc = "removed" /\ op(c) = "delete" /\ targets[t] # None
  <2>1. Save(c, None)
    BY <1>7, Zenon DEF Resume
  <2>2. EntryOK(None, Owned(t)) /\ DueOf(None) = {}
    BY DEF EntryOK, DueOf
  <2>3. t \notin astray => WindowsOf(t) = DueOf(None)
    BY <1>4, <1>7, <2>2 DEF Stands
  <2> QED BY <1>0, <1>1, <2>1, <2>2, <2>3, SaveStep
<1>8. CASE request[c].pc = "removed" /\ op(c) = "delete" /\ targets[t] = None
  <2>1. Missing(c)
    BY <1>8, Zenon DEF Resume
  <2>2. t \in astray
    BY <1>4, <1>8, Zenon DEF Stands, Downtime
  <2>3. /\ RequestsInv' /\ \A d \in CoreCalls \ {c} : request'[d] = request[d]
        /\ request'[c].pc \in {"ok", "failed", "warned", "refused"} /\ request'[c].ask = request[c].ask
    BY <1>1, <2>1, SaveTurns DEF WindowsInv
  <2>4. UNCHANGED <<targets, astray>> /\ TargetsOK' /\ Waits(c)'
    BY <1>1, <2>1, <2>3, Zenon DEF Missing, WindowsInv, TargetsOK, Waits, Awaiting
  <2>5. EntryOK(targets'[t], Owned(t)) /\ t \in astray'
    BY <1>2, <2>2, <2>4 DEF WindowsInv
  <2> QED BY <1>0, <1>1, <2>3, <2>4, <2>5, ActiveStep, Zenon
<1> QED
  BY <1>0, <1>5, <1>6, <1>7, <1>8

\* SigNoz has acted, or refused.
LEMMA SigNozStep ==
  ASSUME WindowsInv, NEW c \in CoreCalls, SigNozActs(c) \/ SigNozFails(c)
  PROVE  WindowsInv'
<1> DEFINE t == Target(c)
<1>0. request[c].pc \in Awaiting
  BY Zenon DEF SigNozActs, SigNozFails, Awaiting
<1>1. op(c) # "power" /\ request[c].pc # "idle" /\ request[c].ask # None
  BY <1>0, Zenon DEF WindowsInv, RequestsInv, Asked, op, Awaiting
<1>2. t \in Targets /\ Waits(c) /\ c \in Owned(t) /\ EntryOK(targets[t], Owned(t))
  BY <1>1, TargetOfCall, Zenon DEF WindowsInv, Owned
<1>3. t \notin astray => Stands(c, t) /\ AwaitingOn(t) = {c}
  BY <1>0, <1>2, Zenon DEF WindowsInv, OneWindow, AwaitingOn
<1>4. PICK pc \in {"created", "removed", "failed", "warned"} :
        /\ Moves(c, pc)
        /\ pc = "created" => request[c].pc = "create" /\ windows' = windows \cup {c} /\ astray' = astray
        /\ pc = "removed" => /\ request[c].pc = "remove" /\ request[c].id \in windows
                             /\ windows' = windows \ {request[c].id} /\ astray' = astray
        /\ pc \in {"failed", "warned"} =>
              /\ windows' = windows
              /\ astray' = IF request[c].pc \in {"created", "removed"} THEN astray \cup {t} ELSE astray
  BY DEF SigNozActs, SigNozFails, Broken
<1>5. pc \in CorePcs \ {"idle"}
  BY DEF CorePcs, Awaiting, Over
<1>6. /\ RequestsInv' /\ \A d \in CoreCalls \ {c} : request'[d] = request[d]
      /\ request'[c].pc = pc /\ request'[c].ask = request[c].ask /\ request'[c].id = request[c].id
  BY <1>1, <1>4, <1>5, MovesTurns, Zenon DEF WindowsInv
<1>7. /\ \A d \in CoreCalls : op(d)' = op(d) /\ Target(d)' = Target(d) /\ Wanted(d)' = Wanted(d)
      /\ \A u \in Targets : Owned(u)' = Owned(u)
  BY <1>6, SameAsks, Zenon
<1>8. UNCHANGED targets /\ TargetsOK' /\ EntryOK(targets'[t], Owned(t))
  BY <1>2, Zenon DEF SigNozActs, SigNozFails, WindowsInv, TargetsOK
<1>9. Waits(c)'
  BY <1>1, <1>2, <1>4, <1>6, <1>7, Zenon DEF Waits, Awaiting
<1>10. ASSUME NEW u \in Targets \ {t} PROVE windows' \cap Owned(u) = windows \cap Owned(u)
  <2>1. Owned(t) \cap Owned(u) = {}
    BY <1>2, OwnWindows, Zenon
  <2>2. c \notin Owned(u)
    BY <1>2, <2>1, Zenon
  <2>3. pc = "removed" => request[c].id \in Owned(t) \/ request[c].id = None
    BY <1>0, <1>2, Zenon DEF Waits
  <2>4. None \notin Owned(u)
    BY CoreAssumption DEF Owned, Windows
  <2> QED BY <1>4, <2>1, <2>2, <2>3, <2>4, Zenon
<1>11. ASSUME t \notin astray' PROVE OneWindow(t)'
  <2>1. t \notin astray /\ (pc \in {"failed", "warned"} => request[c].pc \in {"create", "remove"})
    BY <1>0, <1>4, <1>7, <1>11, Zenon DEF Awaiting
  <2>2. Stands(c, t) /\ AwaitingOn(t) = {c}
    BY <1>3, <2>1
  <2>3. WindowsOf(t) = windows \cap Owned(t) /\ WindowsOf(t)' = windows' \cap Owned(t)
    BY <1>2, <1>7, Zenon DEF WindowsOf, Owned
  <2>4. Downtime(t)' = Downtime(t) /\ DueOf(targets[t])' = DueOf(targets[t])
    BY <1>7, <1>8, Zenon DEF Downtime, DueOf
  <2>5. AwaitingOn(t)' = IF pc \in {"created", "removed"} THEN {c} ELSE {}
    <3>1. \A d \in CoreCalls : d \in AwaitingOn(t)' <=> request'[d].pc \in Awaiting /\ Target(d) = t
      BY <1>7, Zenon DEF AwaitingOn
    <3>2. \A d \in CoreCalls \ {c} : ~(request[d].pc \in Awaiting /\ Target(d) = t)
      BY <2>2 DEF AwaitingOn
    <3>3. AwaitingOn(t)' \subseteq CoreCalls
      BY DEF AwaitingOn
    <3>4. pc \in Awaiting <=> pc \in {"created", "removed"}
      BY Zenon DEF Awaiting
    <3> QED BY <1>6, <3>1, <3>2, <3>3, <3>4
  <2>6. CASE pc = "created"
    <3>1. WindowsOf(t)' = {c}
      BY <1>2, <1>4, <2>2, <2>3, <2>6, Zenon DEF Stands
    <3>2. Stands(c, t)'
      BY <1>4, <1>6, <2>2, <2>4, <2>6, <3>1, Zenon DEF Stands
    <3> HIDE DEF t
    <3> QED BY <2>5, <2>6, <3>2 DEF OneWindow
  <2>7. CASE pc = "removed"
    <3>1. WindowsOf(t)' = {} /\ Downtime(t) # None
      BY <1>4, <2>2, <2>3, <2>7, Zenon DEF Stands
    <3>2. Stands(c, t)'
      BY <1>6, <2>4, <2>7, <3>1 DEF Stands
    <3> HIDE DEF t
    <3> QED BY <2>5, <2>7, <3>2 DEF OneWindow
  <2>8. CASE pc \in {"failed", "warned"}
    <3>1. WindowsOf(t)' = WindowsOf(t)
      BY <1>4, <2>3, <2>8, Zenon
    <3>2. WindowsOf(t) = DueOf(targets[t])
      BY <1>2, <2>1, <2>2, <2>8 DEF Stands, EntryOK, DueOf, Downtime
    <3> HIDE DEF t
    <3> QED BY <2>4, <2>5, <2>8, <3>1, <3>2, Zenon DEF OneWindow
  <2> QED BY <2>6, <2>7, <2>8, Zenon
<1> QED
  <2>1. OneWindow(Target(c))' \/ Target(c) \in astray'
    BY <1>7, <1>11, Zenon
  <2>2. astray \subseteq astray' /\ windows' \subseteq windows \cup {c}
    BY <1>4, Zenon
  <2>3. \A u \in Targets \ {Target(c)} : targets'[u] = targets[u] /\ windows' \cap Owned(u) = windows \cap Owned(u)
    BY <1>8, <1>10, Zenon
  <2> QED BY <1>1, <1>6, <1>8, <1>9, <2>1, <2>2, <2>3, ActiveStep, Zenon
\* A request arrives: it has no window yet.
LEMMA AskStep ==
  ASSUME WindowsInv, NEW c \in CoreCalls, NEW ask \in Asks[c], Ask(c, ask)
  PROVE  WindowsInv'
<1>1. /\ StepShape(c) /\ UNCHANGED <<targets, windows, astray>>
      /\ request[c].pc = "idle" /\ request'[c].pc = "begun"
  <2>1. StepShape(c) /\ UNCHANGED targets
    BY OtherShape, Zenon DEF WindowsInv
  <2> QED BY <2>1 DEF Ask, monitoring, WindowsInv, RequestsInv, RequestShape
<1>2. RequestsInv' /\ TargetsOK' /\ \A d \in CoreCalls \ {c} : request'[d] = request[d]
  BY <1>1, Zenon DEF StepShape
<1>3. request[c].ask = None /\ c \notin windows /\ request'[c].ask # None
  BY <1>1, <1>2, Zenon DEF WindowsInv, RequestsInv, Asked, Waits
<1>4. \A d \in CoreCalls \ {c} : op(d)' = op(d) /\ Target(d)' = Target(d) /\ Wanted(d)' = Wanted(d)
  BY <1>2 DEF op, Target, Wanted
<1>5. ASSUME NEW t \in Targets
      PROVE  Owned(t) \subseteq Owned(t)' /\ WindowsOf(t)' = WindowsOf(t) /\ AwaitingOn(t)' = AwaitingOn(t)
  <2>1. Owned(t) \subseteq Owned(t)' /\ Owned(t)' \subseteq Owned(t) \cup {c}
    BY <1>2, <1>3, <1>4, Zenon DEF Owned
  <2>2. WindowsOf(t)' = windows' \cap Owned(t)' /\ WindowsOf(t) = windows \cap Owned(t)
    BY DEF WindowsOf, Owned
  <2>3. AwaitingOn(t)' = AwaitingOn(t)
    BY <1>1, <1>2, <1>4, Zenon DEF AwaitingOn, Awaiting
  <2> QED BY <1>1, <1>3, <2>1, <2>2, <2>3, Zenon
<1>6. ASSUME NEW d \in CoreCalls PROVE Waits(d)'
  <2>1. CASE d = c
    BY <1>1, <1>3, <2>1 DEF Waits, Awaiting
  <2>2. CASE d # c
    <3>1. request[d].pc \in Awaiting => Target(d) \in Targets
      BY TargetOfCall, Zenon DEF WindowsInv, RequestsInv, Asked, op, Awaiting
    <3>2. request[d].pc \in Awaiting => Owned(Target(d)) \subseteq Owned(Target(d))'
      BY <1>4, <1>5, <2>2, <3>1, Zenon
    <3> QED BY <1>1, <1>2, <1>4, <2>2, <3>2, Zenon DEF WindowsInv, Waits
  <2> QED BY <2>1, <2>2, Zenon
<1>7. ASSUME NEW t \in Targets PROVE EntryOK(targets[t], Owned(t))'
  BY <1>1, <1>5, Zenon DEF WindowsInv, EntryOK
<1>8. ASSUME NEW t \in Targets \ astray' PROVE OneWindow(t)'
  <2>1. \A d \in AwaitingOn(t) : request'[d].pc = request[d].pc /\ request'[d].id = request[d].id
    BY <1>1, <1>2, Zenon DEF AwaitingOn, Awaiting
  <2> QED BY <1>1, <1>5, <2>1, Untouched, Zenon DEF WindowsInv
<1> QED
  BY <1>2, <1>6, <1>7, <1>8, Zenon DEF WindowsInv

\* The daemon starts again: no call waits any more, and the targets of those that did are astray.
LEMMA RestartStep ==
  ASSUME WindowsInv, Restart, RequestsInv', TargetsOK'
  PROVE  WindowsInv'
<1>1. ASSUME NEW c \in CoreCalls
      PROVE  request'[c].ask = request[c].ask /\ request'[c].pc \notin Awaiting
  <2>1. request[c] \in RequestShape
    BY DEF WindowsInv, RequestsInv
  <2>2. [request[c] EXCEPT !.pc = "lost"].ask = request[c].ask /\ [request[c] EXCEPT !.pc = "lost"].pc = "lost"
    BY <2>1, Zenon DEF RequestShape
  <2> QED BY <2>2 DEF Restart, Awaiting, Over
<1>2. /\ \A d \in CoreCalls : op(d)' = op(d) /\ Target(d)' = Target(d) /\ Wanted(d)' = Wanted(d)
      /\ \A t \in Targets : Owned(t)' = Owned(t)
  BY <1>1, SameAsks
<1>3. UNCHANGED <<targets, windows>> /\ astray \subseteq astray'
  BY Zenon DEF Restart
<1>4. ASSUME NEW c \in CoreCalls PROVE Waits(c)'
  BY <1>1, <1>3, Zenon DEF WindowsInv, Waits, Awaiting
<1>5. ASSUME NEW t \in Targets PROVE EntryOK(targets[t], Owned(t))'
  BY <1>2, <1>3 DEF WindowsInv, EntryOK
<1>6. ASSUME NEW t \in Targets \ astray' PROVE OneWindow(t)'
  <2>1. AwaitingOn(t) = {}
    BY Zenon DEF AwaitingOn, Restart
  <2>2. AwaitingOn(t)' = {}
    BY <1>1, Zenon DEF AwaitingOn
  <2>3. WindowsOf(t)' = WindowsOf(t)
    <3>1. WindowsOf(t)' = windows' \cap Owned(t)' /\ WindowsOf(t) = windows \cap Owned(t)
      BY DEF WindowsOf, Owned
    <3> QED BY <1>2, <1>3, <3>1, Zenon
  <2> QED BY <1>3, <2>1, <2>2, <2>3, Untouched, Zenon DEF WindowsInv
<1> QED
  BY <1>4, <1>5, <1>6 DEF WindowsInv

LEMMA WindowsStep == WindowsInv /\ [CoreNext]_coreVars => WindowsInv'
<1> SUFFICES ASSUME WindowsInv, [CoreNext]_coreVars PROVE WindowsInv'
  OBVIOUS
<1>0. RequestsInv /\ TargetsOK
  BY Zenon DEF WindowsInv
<1>1. ASSUME NEW c \in CoreCalls, SetTarget(c) PROVE WindowsInv'
  <2>1. op(c) \notin {"power", "delete"} /\ request[c].pc \notin Awaiting \cup {"idle"} /\ UNCHANGED windows
    BY <1>1, Zenon DEF SetTarget, Awaiting
  <2>2. Missing(c) \/ Lifecycle(c)
    BY <1>1, Zenon DEF SetTarget
  <2> QED BY <2>1, <2>2, MissingStep, LifecycleStep, Zenon
<1>2. ASSUME NEW c \in CoreCalls,
             PowerChecked(c) \/ Accepted(c) \/ PowerFails(c) \/ Verified(c) \/ PlanGuest(c)
               \/ CreateGuest(c) \/ ProvisionFails(c) \/ VerifyAgain(c)
      PROVE  WindowsInv'
  <2>1. StepShape(c) /\ UNCHANGED targets
    BY <1>0, <1>2, OtherShape, Zenon
  <2>2. UNCHANGED <<windows, astray>> /\ request[c].pc \in {"begun", "execute", "verify"}
    BY <1>2, Zenon DEF PowerChecked, Accepted, PowerFails, Verified, PlanGuest, CreateGuest,
                ProvisionFails, VerifyAgain, monitoring
  <2>3. \/ \E pc \in {"refused", "execute", "failed", "ok"} : Moves(c, pc)
        \/ request' = [request EXCEPT ![c].pc = "verify", ![c].left = VerifyAttempts]
        \/ request' = [request EXCEPT ![c].left = @ - 1]
    BY <1>2 DEF PowerChecked, Accepted, PowerFails, Verified, PlanGuest, CreateGuest,
                ProvisionFails, VerifyAgain
  <2>4. request'[c].pc \notin Awaiting
    BY <1>0, <2>2, <2>3 DEF Moves, RequestsInv, RequestShape, Awaiting
  <2>5. request[c].pc \notin Awaiting /\ request[c].pc # "idle"
    BY <2>2 DEF Awaiting
  <2> QED BY <2>1, <2>2, <2>4, <2>5, QuietStep DEF StepShape
<1>3. ASSUME NEW c \in CoreCalls, Provisioned(c) PROVE WindowsInv'
  <2>1. op(c) \notin {"power", "delete"} /\ request[c].pc \notin Awaiting \cup {"idle"} /\ UNCHANGED windows
    BY <1>3, Zenon DEF Provisioned, Awaiting
  <2>2. CASE Lifecycle(c)
    BY <2>1, <2>2, LifecycleStep, Zenon
  <2>3. CASE ~Lifecycle(c)
    <3>1. StepShape(c)
      BY <1>0, <1>3, ServiceShape, Zenon
    <3>2. UNCHANGED <<targets, astray>> /\ \E pc \in {"warned", "ok"} : Moves(c, pc)
      BY <1>3, <2>3 DEF Provisioned
    <3>3. request'[c].pc \notin Awaiting
      BY <1>0, <3>2 DEF Moves, RequestsInv, RequestShape, Awaiting
    <3> QED BY <2>1, <3>1, <3>2, <3>3, QuietStep DEF StepShape
  <2> QED BY <2>2, <2>3, Zenon
<1>4. ASSUME NEW c \in CoreCalls, CoreStep(c) PROVE WindowsInv'
  BY <1>1, <1>2, <1>3, <1>4, AskStep, DeleteStep, ResumeStep, SigNozStep, Zenon DEF CoreStep
<1>5. CASE Restart
  <2>1. RequestsInv' /\ TargetsOK'
    BY <1>0, <1>5, RestartShape, Zenon
  <2> QED BY <1>5, <2>1, RestartStep, Zenon
<1>6. CASE UNCHANGED <<request, targets, windows, astray>>
  <2>1. RequestsInv' /\ TargetsOK'
    BY <1>0, <1>6 DEF RequestsInv, TargetsOK
  <2>0. /\ \A d \in CoreCalls : op(d)' = op(d) /\ Target(d)' = Target(d) /\ Wanted(d)' = Wanted(d)
        /\ \A d \in CoreCalls : Owned(Target(d))' = Owned(Target(d))
    BY <1>6, Zenon DEF op, Target, Wanted, Owned
  <2>2. ASSUME NEW c \in CoreCalls PROVE Waits(c)'
    <3>1. Waits(c)
      BY Zenon DEF WindowsInv
    <3> QED BY <1>6, <2>0, <3>1 DEF Waits
  <2>3. \A t \in Targets : EntryOK(targets[t], Owned(t))'
    BY <1>6, Zenon DEF WindowsInv, EntryOK, Owned, op, Target
  <2>4. ASSUME NEW t \in Targets \ astray' PROVE OneWindow(t)'
    <3>1. OneWindow(t) /\ targets'[t] = targets[t]
      BY <1>6, Zenon DEF WindowsInv
    <3>2. WindowsOf(t)' = WindowsOf(t)
      BY <1>6, Zenon DEF WindowsOf, op, Target
    <3>3. AwaitingOn(t)' = AwaitingOn(t)
      BY <1>6, Zenon DEF AwaitingOn, op, Target
    <3>4. \A d \in AwaitingOn(t) : request'[d].pc = request[d].pc /\ request'[d].id = request[d].id
      BY <1>6, Zenon
    <3> QED BY <3>1, <3>2, <3>3, <3>4, Untouched, Zenon
  <2> QED BY <2>1, <2>2, <2>3, <2>4 DEF WindowsInv
<1>7. CASE (\E g \in Guests, s \in Statuses : JobEnds(g, s) \/ EditGuest(g, s)) \/ Refresh
  BY <1>6, <1>7, Zenon DEF JobEnds, EditGuest, Refresh, monitoring
<1>8. CASE UNCHANGED coreVars
  BY <1>6, <1>8, Zenon DEF coreVars, monitoring
<1> QED
  BY <1>4, <1>5, <1>7, <1>8, Zenon DEF CoreNext

LEMMA WindowsStart == CoreInit => WindowsInv
<1> SUFFICES ASSUME CoreInit PROVE WindowsInv
  OBVIOUS
<1>1. RequestsInv /\ TargetsOK
  BY AuditStart DEF AuditInv
<1>2. \A c \in CoreCalls : request[c].pc = "idle" /\ request[c].ask = None
  BY Zenon DEF CoreInit, NotMade
<1>3. windows \subseteq Targets /\ None \notin Windows /\ CoreCalls \cap Targets = {}
  BY CoreAssumption, Zenon DEF CoreInit
<1>4. \A t \in Targets : Owned(t) = {t}
  BY <1>2, Zenon DEF Owned
<1>5. ASSUME NEW c \in CoreCalls PROVE Waits(c)
  BY <1>2, <1>3, Zenon DEF Waits, Awaiting
<1>6. ASSUME NEW t \in Targets
      PROVE  \/ targets[t] = None
             \/ targets[t] # None /\ targets[t].state = "enabled" /\ targets[t].downtime = None
             \/ targets[t] # None /\ targets[t].state = "maintenance" /\ targets[t].downtime = t /\ t # None
  <2>1. [state |-> "maintenance", downtime |-> t] # None
    BY CoreAssumption DEF Entries, States, Windows
  <2>2. [state |-> "enabled", downtime |-> None] # None
    BY CoreAssumption DEF Entries, States
  <2>3. t # None
    BY CoreAssumption, Zenon DEF Windows
  <2> QED BY <2>1, <2>2, <2>3 DEF CoreInit
<1>7. ASSUME NEW t \in Targets PROVE EntryOK(targets[t], Owned(t)) /\ OneWindow(t)
  <2>1. EntryOK(targets[t], Owned(t))
    BY <1>4, <1>6, Zenon DEF EntryOK
  <2>2. AwaitingOn(t) = {}
    BY <1>2, Zenon DEF AwaitingOn, Awaiting
  <2>3. WindowsOf(t) = windows \cap Owned(t)
    BY Zenon DEF WindowsOf, Owned
  <2>4. t \in windows <=> targets[t] # None /\ targets[t].state = "maintenance"
    BY Zenon DEF CoreInit
  <2>5. WindowsOf(t) = DueOf(targets[t])
    BY <1>4, <1>6, <2>3, <2>4 DEF DueOf
  <2> QED BY <2>1, <2>2, <2>5, Zenon DEF OneWindow
<1> QED
  BY <1>1, <1>5, <1>7, Zenon DEF WindowsInv

\* WindowsTracked in every behaviour: once the calls on a target are over it has a maintenance
\* window in SigNoz exactly while it is in maintenance, and the inventory knows which
\* (_apply_lifecycle, delete_target), for any number of calls, targets and guests; but for
\* the targets that overlapping calls, a lost answer or a failed write led astray.
THEOREM WindowsFollowMaintenance == CoreSpec => []WindowsTracked
<1>1. ASSUME WindowsInv PROVE WindowsTracked
  <2> SUFFICES ASSUME NEW t \in Targets \ astray,
                      \A c \in CoreCalls : request[c].pc \in Awaiting => Target(c) # t
               PROVE  WindowsOf(t) = DueOf(targets[t])
    BY DEF WindowsTracked, DueOf
  <2>1. AwaitingOn(t) = {}
    BY DEF AwaitingOn
  <2> QED BY <1>1, <2>1, Zenon DEF WindowsInv, OneWindow
<1> QED
  BY <1>1, WindowsStart, WindowsStep, PTL DEF CoreSpec
=============================================================================
