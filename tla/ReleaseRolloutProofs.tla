------------------------- MODULE ReleaseRolloutProofs -------------------------
(***************************************************************************)
(* Theorems about ReleaseRollout for any number of ticks, stages and       *)
(* faults.                                                                 *)
(***************************************************************************)
EXTENDS ReleaseRollout, TLAPS

(* The commands are pairwise different. *)
LEMMA CommandFacts ==
  /\ Start \in Commands /\ Finalize(0) \in Commands /\ Finalize(Stages) \in Commands
  /\ \A e \in Effects : Effect(e) \in Commands /\ Verify(e) \in Commands
  /\ \A s \in 1..Stages : Fail(s) \in Commands
  /\ None \notin Commands
  /\ \A e, f : /\ Effect(e) = Effect(f) => e = f
               /\ Verify(e) = Verify(f) => e = f
               /\ Fail(e) = Fail(f) => e = f
               /\ Effect(e) # Start /\ Effect(e) # Verify(f)
               /\ Effect(e) # Fail(f) /\ Effect(e) # Finalize(f)
               /\ Verify(e) # Start /\ Verify(e) # Fail(f) /\ Verify(e) # Finalize(f)
  BY NoneAssumption
  DEF Commands, Verifications, Start, Effect, Verify, Fail, Finalize

(* 0 and the stages are effects; a stage is followed by a stage or is the last. *)
LEMMA EffectFacts ==
  /\ 0 \in Effects /\ 1 \in Effects /\ Stages \in Effects
  /\ \A s \in 1..Stages : s \in Effects /\ s # 0
  /\ \A e \in Effects : e \in Nat /\ e \in Assignments /\ (e = 0 \/ e \in 1..Stages)
  BY ReleaseAssumption DEF Effects, Assignments

-------------------------------------------------------------------------------
LEMMA TypeInit == Init => TypeOK
<1> SUFFICES ASSUME Init PROVE TypeOK
  OBVIOUS
<1>1. 0 \in Assignments /\ 0 \in 0..MaxFaults
  BY ReleaseAssumption DEF Assignments
<1> QED
  BY <1>1 DEF Init, TypeOK, RequestStates, RolloutStates, Steps

LEMMA RestType == ASSUME TypeOK, NEW t \in Ticks, Rest(t)
                  PROVE  /\ pc' \in [Ticks -> Steps]
                         /\ call' \in [Ticks -> Commands \cup {None}]
                         /\ seen' \in [Ticks -> Nat]
  BY DEF TypeOK, Rest, Steps

LEMMA EndTickType == ASSUME TypeOK, NEW t \in Ticks, EndTick(t)
                     PROVE  /\ phase' \in [Ticks -> {"idle", "controller", "verifier"}]
                            /\ queue' \in [Ticks -> SUBSET Commands]
  BY DEF TypeOK, EndTick

LEMMA DeliverType == ASSUME TypeOK, NEW t \in Ticks, NEW k \in Commands, NEW step \in Steps,
                            Deliver(t, k, step)
                     PROVE  /\ phase' \in [Ticks -> {"idle", "controller", "verifier"}]
                            /\ queue' \in [Ticks -> SUBSET Commands]
                            /\ pc' \in [Ticks -> Steps]
                            /\ call' \in [Ticks -> Commands \cup {None}]
                            /\ seen' \in [Ticks -> Nat]
<1>1. queue' \in [Ticks -> SUBSET Commands]
  <2>1. queue[t] \ {k} \in SUBSET Commands
    BY DEF TypeOK
  <2> QED
    BY <2>1 DEF TypeOK, Deliver
<1> QED
  BY <1>1 DEF TypeOK, Deliver

LEMMA GotoType == ASSUME TypeOK, NEW t \in Ticks, NEW step \in Steps, Goto(t, step)
                  PROVE  /\ phase' \in [Ticks -> {"idle", "controller", "verifier"}]
                         /\ queue' \in [Ticks -> SUBSET Commands]
                         /\ pc' \in [Ticks -> Steps]
                         /\ call' \in [Ticks -> Commands \cup {None}]
                         /\ seen' \in [Ticks -> Nat]
  BY DEF TypeOK, Goto, tick

LEMMA IssuedType == ASSUME TypeOK, NEW k
                    PROVE  Issued(k) \in [Commands -> {"none", "SUCCEEDED", "AMBIGUOUS"} \cup Open]
  BY DEF TypeOK, Issued, Open

LEMMA MarkedType == TypeOK => Marked \in RequestStates
  BY DEF TypeOK, Marked, RequestStates

LEMMA TypeStep == TypeOK /\ [Next]_vars => TypeOK'
<1> SUFFICES ASSUME TypeOK, [Next]_vars PROVE TypeOK'
  OBVIOUS
<1> USE ReleaseAssumption, CommandFacts, EffectFacts
<1>1. ASSUME NEW t \in Ticks, Plan(t) \/ TurnToVerifier(t) \/ Finish(t) PROVE TypeOK'
  <2>1. CASE Plan(t)
    <3>1. command' \in [Commands -> {"none", "SUCCEEDED", "AMBIGUOUS"} \cup Open]
      BY <2>1 DEF Plan, TypeOK, Open
    <3>2. /\ phase' \in [Ticks -> {"idle", "controller", "verifier"}]
          /\ queue' \in [Ticks -> SUBSET Commands]
      <4>1. \A status : Dispatchable(Commands \ Verifications, status) \in SUBSET Commands
        BY DEF Dispatchable
      <4>2. \/ UNCHANGED tick
            \/ \E S \in SUBSET Commands :
                 /\ phase' = [phase EXCEPT ![t] = "controller"]
                 /\ queue' = [queue EXCEPT ![t] = S]
        BY <2>1, <4>1 DEF Plan
      <4> QED
        BY <4>2 DEF TypeOK, tick
    <3> QED
      BY <2>1, <3>1, <3>2 DEF Plan, TypeOK, cloud, world, handler
  <2>2. CASE TurnToVerifier(t)
    <3>1. Dispatchable(Verifications, command) \in SUBSET Commands
      BY DEF Dispatchable, Commands
    <3> QED
      BY <2>2, <3>1 DEF TurnToVerifier, TypeOK, rows, cloud, world, handler
  <2>3. CASE Finish(t)
    BY <2>3, MarkedType DEF Finish, TypeOK, cloud, world, handler
  <2> QED
    BY <1>1, <2>1, <2>2, <2>3
<1>2. ASSUME NEW t \in Ticks, Receive(t) PROVE TypeOK'
  <2>1. CASE StartRollout(t)
    <3>1. command' \in [Commands -> {"none", "SUCCEEDED", "AMBIGUOUS"} \cup Open]
      BY <2>1, IssuedType DEF StartRollout
    <3>2. "answering" \in Steps
      BY DEF Steps
    <3> QED
      BY <2>1, <3>1, <3>2, DeliverType
      DEF StartRollout, TypeOK, RolloutStates, RequestStates, cloud, world
  <2>2. ASSUME NEW k \in Commands, Replay(t, k) PROVE TypeOK'
    <3>1. queue[t] \ {k} \in SUBSET Commands
      BY DEF TypeOK
    <3> QED
      BY <2>2, <3>1 DEF Replay, TypeOK, rows, cloud, world, handler
  <2>3. ASSUME NEW k \in Commands, Refuse(t, k) PROVE TypeOK'
    BY <2>3, EndTickType DEF Refuse, TypeOK, rows, cloud, world, handler
  <2>4. ASSUME NEW k \in Commands, BeginClosing(t, k) PROVE TypeOK'
    <3>1. (IF command[k] = "PREPARED" THEN "closing" ELSE "reclosing") \in Steps
      BY DEF Steps
    <3> QED
      BY <2>4, <3>1, DeliverType DEF BeginClosing, TypeOK, rows, cloud, world
  <2>5. ASSUME NEW e \in Effects, BeginEffect(t, e) PROVE TypeOK'
    <3>1. command' \in [Commands -> {"none", "SUCCEEDED", "AMBIGUOUS"} \cup Open]
      BY <2>5, IssuedType DEF BeginEffect
    <3>2. op' \in [Effects -> {"none", "SUCCEEDED", "AMBIGUOUS"} \cup Live]
      BY <2>5 DEF BeginEffect, TypeOK, Live
    <3>3. rollout' \in RolloutStates /\ request' \in RequestStates
      BY <2>5 DEF BeginEffect, TypeOK, RolloutStates, RequestStates
    <3>4. "observing" \in Steps
      BY DEF Steps, EffectSteps
    <3> QED
      BY <2>5, <3>1, <3>2, <3>3, <3>4, DeliverType DEF BeginEffect, TypeOK, cloud, world
  <2>6. ASSUME NEW e \in Effects, ResumeEffect(t, e) PROVE TypeOK'
    <3> DEFINE step == CASE op[e] = "PREPARED" -> "observing"
                         [] e \in handle -> "polling"
                         [] OTHER -> "lost"
    <3>1. step \in Steps
      BY DEF Steps, EffectSteps
    <3>2. Deliver(t, Effect(e), step) /\ UNCHANGED <<rows, cloud, world>>
      BY <2>6 DEF ResumeEffect
    <3> HIDE DEF step
    <3> QED
      BY <3>1, <3>2, DeliverType DEF TypeOK, rows, cloud, world
  <2>7. ASSUME NEW e \in Effects, AnswerSettled(t, e) PROVE TypeOK'
    <3>1. "answering" \in Steps
      BY DEF Steps
    <3> QED
      BY <2>7, <3>1, DeliverType DEF AnswerSettled, TypeOK, rows, cloud, world
  <2>8. ASSUME NEW s \in Effects, BeginVerify(t, s) PROVE TypeOK'
    <3>1. command' \in [Commands -> {"none", "SUCCEEDED", "AMBIGUOUS"} \cup Open]
      BY <2>8, IssuedType DEF BeginVerify
    <3>2. (IF receipt[s] = "none" THEN "verifying" ELSE "answering") \in Steps
      BY DEF Steps
    <3> QED
      BY <2>8, <3>1, <3>2, DeliverType DEF BeginVerify, TypeOK, cloud, world
  <2> QED
    BY <1>2, <2>1, <2>2, <2>3, <2>4, <2>5, <2>6, <2>7, <2>8 DEF Receive
<1>3. ASSUME NEW t \in Ticks, NEW e \in Effects,
             \/ Observe(t, e) \/ Fence(t, e) \/ Patch(t, e) \/ RecordHandle(t, e)
             \/ ObserveLost(t, e) \/ Adopt(t, e) \/ Poll(t, e)
             \/ Settle(t, e) \/ MarkAmbiguous(t, e)
      PROVE  TypeOK'
  <2> USE DEF Steps, EffectSteps
  <2>1. CASE Observe(t, e)
    BY <2>1 DEF Observe, TypeOK, rows, cloud, world, tick
  <2>2. CASE Fence(t, e)
    <3>1. op' \in [Effects -> {"none", "SUCCEEDED", "AMBIGUOUS"} \cup Live]
      BY <2>2 DEF Fence, TypeOK, Live
    <3> QED
      BY <2>2, <3>1, GotoType DEF Fence, TypeOK, cloud, world
  <2>3. CASE Patch(t, e)
    <3>1. generation' \in Nat /\ target' \in Assignments
      BY <2>3 DEF Patch, TypeOK
    <3>2. sent' \in [Effects -> Nat]
      BY <2>3 DEF Patch, TypeOK
    <3>3. lro' \in [Effects -> {"none", "running", "done", "failed"}]
      BY <2>3 DEF Patch, TypeOK
    <3> QED
      BY <2>3, <3>1, <3>2, <3>3, GotoType DEF Patch, TypeOK, rows, world
  <2>4. CASE RecordHandle(t, e)
    <3>1. op' \in [Effects -> {"none", "SUCCEEDED", "AMBIGUOUS"} \cup Live]
      BY <2>4 DEF RecordHandle, TypeOK, Live
    <3>2. handle' \in SUBSET Effects
      BY <2>4 DEF RecordHandle, TypeOK
    <3> QED
      BY <2>4, <3>1, <3>2, RestType DEF RecordHandle, Return, TypeOK, cloud, world, tick
  <2>5. CASE ObserveLost(t, e)
    BY <2>5, GotoType DEF ObserveLost, TypeOK, rows, cloud, world
  <2>6. CASE Adopt(t, e)
    <3>1. op' \in [Effects -> {"none", "SUCCEEDED", "AMBIGUOUS"} \cup Live]
      BY <2>6 DEF Adopt, TypeOK, Live
    <3> QED
      BY <2>6, <3>1, GotoType DEF Adopt, TypeOK, cloud, world
  <2>7. CASE Poll(t, e)
    <3>1. CASE lro[e] = "running"
      BY <2>7, <3>1, RestType DEF Poll, Return, TypeOK, rows, cloud, world, tick
    <3>2. CASE lro[e] # "running"
      BY <2>7, <3>2, GotoType DEF Poll, TypeOK, rows, cloud, world
    <3> QED
      BY <3>1, <3>2
  <2>8. CASE Settle(t, e)
    <3>1. op' \in [Effects -> {"none", "SUCCEEDED", "AMBIGUOUS"} \cup Live]
      BY <2>8 DEF Settle, TypeOK, Live
    <3>2. rollout' \in RolloutStates /\ request' \in RequestStates
      BY <2>8 DEF Settle, TypeOK, RolloutStates, RequestStates
    <3> QED
      BY <2>8, <3>1, <3>2, GotoType DEF Settle, TypeOK, cloud, world
  <2>9. CASE MarkAmbiguous(t, e)
    <3>1. op' \in [Effects -> {"none", "SUCCEEDED", "AMBIGUOUS"} \cup Live]
      BY <2>9 DEF MarkAmbiguous, TypeOK, Live
    <3>2. rollout' \in RolloutStates /\ request' \in RequestStates
      BY <2>9 DEF MarkAmbiguous, RolloutStates, RequestStates, Final
    <3>3. command' \in [Commands -> {"none", "SUCCEEDED", "AMBIGUOUS"} \cup Open]
      BY <2>9 DEF MarkAmbiguous, TypeOK, Open
    <3> QED
      BY <2>9, <3>1, <3>2, <3>3, RestType
      DEF MarkAmbiguous, Return, TypeOK, cloud, world, tick
  <2> QED
    BY <1>3, <2>1, <2>2, <2>3, <2>4, <2>5, <2>6, <2>7, <2>8, <2>9
<1>4. ASSUME NEW t \in Ticks,
             \/ Answer(t) \/ FinalizeRollout(t) \/ FinalizeRollback(t) \/ Conflict(t)
             \/ \E s \in Effects : Judge(t, s) \/ RecordReceipt(t, s)
             \/ \E s \in 1..Stages : RegisterFailure(t, s)
      PROVE  TypeOK'
  <2> USE DEF Steps
  <2>1. CASE Answer(t)
    <3>1. command' \in [Commands -> {"none", "SUCCEEDED", "AMBIGUOUS"} \cup Open]
      BY <2>1 DEF Answer, TypeOK
    <3> QED
      BY <2>1, <3>1, RestType DEF Answer, Return, TypeOK, cloud, world, tick
  <2>2. CASE FinalizeRollout(t)
    <3>1. command' \in [Commands -> {"none", "SUCCEEDED", "AMBIGUOUS"} \cup Open]
      BY <2>2, IssuedType DEF FinalizeRollout, TypeOK
    <3> QED
      BY <2>2, <3>1, GotoType DEF FinalizeRollout, TypeOK, RolloutStates, Final, cloud, world
  <2>3. CASE FinalizeRollback(t)
    <3>1. command' \in [Commands -> {"none", "SUCCEEDED", "AMBIGUOUS"} \cup Open]
      BY <2>3 DEF FinalizeRollback, TypeOK
    <3> QED
      BY <2>3, <3>1, RestType
      DEF FinalizeRollback, Return, TypeOK, RolloutStates, RequestStates, Final, cloud, world, tick
  <2>4. CASE Conflict(t)
    BY <2>4, RestType, EndTickType DEF Conflict, Raise, TypeOK, rows, cloud, world
  <2>5. ASSUME NEW s \in Effects, Judge(t, s) PROVE TypeOK'
    BY <2>5 DEF Judge, TypeOK, rows, cloud, world, tick
  <2>6. ASSUME NEW s \in Effects, RecordReceipt(t, s) PROVE TypeOK'
    <3>1. receipt' \in [Effects -> {"none", "VERIFIED", "FAILED"}]
      BY <2>6 DEF RecordReceipt, TypeOK
    <3>2. judgedAt' \in Nat /\ pc' \in [Ticks -> Steps] /\ seen' \in [Ticks -> Nat]
      BY <2>6 DEF RecordReceipt, TypeOK
    <3> QED
      BY <2>6, <3>1, <3>2 DEF RecordReceipt, TypeOK, cloud, world, tick
  <2>7. ASSUME NEW s \in 1..Stages, RegisterFailure(t, s) PROVE TypeOK'
    <3>1. command' \in [Commands -> {"none", "SUCCEEDED", "AMBIGUOUS"} \cup Open]
      BY <2>7 DEF RegisterFailure, TypeOK
    <3> QED
      BY <2>7, <3>1, RestType
      DEF RegisterFailure, Return, TypeOK, RolloutStates, cloud, world, tick
  <2> QED
    BY <1>4, <2>1, <2>2, <2>3, <2>4, <2>5, <2>6, <2>7
<1>5. ASSUME Environment PROVE TypeOK'
  <2>1. CASE Approve
    BY <2>1 DEF Approve, TypeOK, rows, cloud, tick, handler
  <2>2. ASSUME NEW d \in {"start", "lease", "rollback"}, Expire(d) PROVE TypeOK'
    BY <2>2 DEF Expire, TypeOK, rows, cloud, tick, handler
  <2>3. ASSUME NEW e \in Effects, ProviderDone(e) PROVE TypeOK'
    BY <2>3 DEF ProviderDone, TypeOK, rows, world, tick, handler
  <2>4. ASSUME NEW kind, Fault(kind)
        PROVE  faults' \in 0..MaxFaults /\ UNCHANGED <<rows, approved, expired>>
    BY <2>4 DEF Fault, TypeOK
  <2>5. ASSUME NEW e \in Effects, ProviderFail(e) PROVE TypeOK'
    BY <2>5, <2>4 DEF ProviderFail, TypeOK, rows, tick, handler
  <2>6. ASSUME NEW t \in Ticks, Stop(t) PROVE TypeOK'
    BY <2>6, <2>4, RestType, EndTickType DEF Stop, Raise, TypeOK, rows, cloud
  <2>7. ASSUME NEW t \in Ticks, Abandon(t) PROVE TypeOK'
    BY <2>7, <2>4, EndTickType DEF Abandon, TypeOK, rows, cloud, handler
  <2>8. ASSUME NEW x \in Assignments, Drift(x) PROVE TypeOK'
    <3>1. generation' \in Nat
      BY <2>8 DEF Drift, TypeOK
    <3> QED
      BY <2>8, <2>4, <3>1 DEF Drift, TypeOK, rows, tick, handler
  <2> QED
    BY <1>5, <2>1, <2>2, <2>3, <2>5, <2>6, <2>7, <2>8 DEF Environment
<1>6. CASE UNCHANGED vars
  BY <1>6 DEF vars, TypeOK, rows, cloud, world, tick, handler
<1> QED
  BY <1>1, <1>2, <1>3, <1>4, <1>5, <1>6 DEF Next, Work

\* Every variable of the release keeps its type, for any number of ticks,
\* stages and faults: also a request's state never rests half-way between the
\* two transitions of mark_request_rollback_pending.
THEOREM TypeCorrect == Spec => []TypeOK
  BY TypeInit, TypeStep, PTL DEF Spec

-------------------------------------------------------------------------------
(* The steps that write the release's rows; all others leave them alone. *)
RowStep(t) ==
  \/ Plan(t) \/ Finish(t) \/ StartRollout(t) \/ Answer(t)
  \/ FinalizeRollout(t) \/ FinalizeRollback(t)
  \/ \E e \in Effects :
       \/ BeginEffect(t, e) \/ Fence(t, e) \/ RecordHandle(t, e) \/ Adopt(t, e)
       \/ Settle(t, e) \/ MarkAmbiguous(t, e) \/ BeginVerify(t, e) \/ RecordReceipt(t, e)
  \/ \E s \in 1..Stages : RegisterFailure(t, s)

LEMMA RowSteps == [Next]_vars => (\E t \in Ticks : RowStep(t)) \/ UNCHANGED rows
<1> SUFFICES ASSUME [Next]_vars PROVE (\E t \in Ticks : RowStep(t)) \/ UNCHANGED rows
  OBVIOUS
<1>1. ASSUME NEW t \in Ticks, Plan(t) \/ TurnToVerifier(t) \/ Finish(t)
      PROVE  RowStep(t) \/ UNCHANGED rows
  BY <1>1 DEF RowStep, TurnToVerifier
<1>2. ASSUME NEW t \in Ticks, Receive(t) PROVE RowStep(t) \/ UNCHANGED rows
  <2>1. ASSUME NEW k \in Commands, Replay(t, k) \/ Refuse(t, k) \/ BeginClosing(t, k)
        PROVE  UNCHANGED rows
    BY <2>1 DEF Replay, Refuse, BeginClosing
  <2>2. ASSUME NEW e \in Effects, ResumeEffect(t, e) \/ AnswerSettled(t, e)
        PROVE  UNCHANGED rows
    BY <2>2 DEF ResumeEffect, AnswerSettled
  <2> QED
    BY <1>2, <2>1, <2>2 DEF Receive, RowStep
<1>3. ASSUME NEW t \in Ticks, Work(t) PROVE RowStep(t) \/ UNCHANGED rows
  <2>1. ASSUME NEW e \in Effects,
               Observe(t, e) \/ Patch(t, e) \/ ObserveLost(t, e) \/ Poll(t, e) \/ Judge(t, e)
        PROVE  UNCHANGED rows
    BY <2>1 DEF Observe, Patch, ObserveLost, Poll, Judge
  <2>2. Conflict(t) => UNCHANGED rows
    BY DEF Conflict
  <2> QED
    BY <1>3, <2>1, <2>2 DEF Work, RowStep
<1>4. Environment => UNCHANGED rows
  BY DEF Environment, Approve, Expire, ProviderDone, ProviderFail, Stop, Abandon, Drift, Fault
<1> QED
  BY <1>1, <1>2, <1>3, <1>4 DEF Next, vars

(* An operation's row exists only once its command was claimed. *)
OpsBegun ==
  \A e \in Effects : op[e] # "none" => command[Effect(e)] \notin {"none", "PREPARED"}

(* A handler of c at p answers for operation e, or judges it: it is settled. *)
Claims(c, p, e) ==
  \/ p = "answering" /\ c = Effect(e)
  \/ p \in {"verifying", "passed", "failed"} /\ c = Verify(e)

HandlersAgree ==
  \A t \in Ticks, e \in Effects : Claims(call[t], pc[t], e) => op[e] = "SUCCEEDED"

RecordInv ==
  /\ RecordsAgree
  /\ OpsBegun
  /\ HandlersAgree

LEMMA RecordInit == Init => RecordInv
<1> SUFFICES ASSUME Init PROVE RecordInv
  OBVIOUS
<1>1. ReservationAgrees /\ RequestAgrees
  BY DEF Init, ReservationAgrees, RequestAgrees
<1>2. OperationsAgree
  BY CommandFacts DEF Init, OperationsAgree, InFlight, Live
<1>3. OpsBegun /\ HandlersAgree
  BY DEF Init, OpsBegun, HandlersAgree, Claims
<1> QED
  BY <1>1, <1>2, <1>3 DEF RecordInv, RecordsAgree

LEMMA OperationSettledOnce ==
  ASSUME TypeOK, OpsBegun, [Next]_vars
  PROVE  \A e \in Effects : op[e] \in {"SUCCEEDED", "AMBIGUOUS"} => op'[e] = op[e]
<1>1. ASSUME NEW t \in Ticks, NEW f \in Effects, BeginEffect(t, f)
      PROVE  op[f] = "none" /\ op' = [op EXCEPT ![f] = "PREPARED"]
  BY <1>1 DEF BeginEffect, MayBegin, OpsBegun
<1>2. ASSUME NEW t \in Ticks, NEW f \in Effects,
             \/ Fence(t, f) \/ RecordHandle(t, f) \/ Adopt(t, f)
             \/ Settle(t, f) \/ MarkAmbiguous(t, f)
      PROVE  /\ op[f] \in Live
             /\ \E x \in {"ISSUED", "RECONCILING", "SUCCEEDED", "AMBIGUOUS"} :
                  op' = [op EXCEPT ![f] = x]
  BY <1>2 DEF Fence, RecordHandle, Adopt, Settle, MarkAmbiguous, MayFence, Unrecorded,
              MaySettle, MayMark, Live
<1>3. ASSUME NEW t \in Ticks,
             \/ Plan(t) \/ Finish(t) \/ StartRollout(t) \/ Answer(t)
             \/ FinalizeRollout(t) \/ FinalizeRollback(t)
             \/ \E f \in Effects : BeginVerify(t, f) \/ RecordReceipt(t, f)
             \/ \E s \in 1..Stages : RegisterFailure(t, s)
      PROVE  op' = op
  BY <1>3 DEF Plan, Finish, StartRollout, Answer, FinalizeRollout, FinalizeRollback,
              BeginVerify, RecordReceipt, RegisterFailure
<1>4. CASE UNCHANGED rows
  BY <1>4 DEF rows
<1>5. CASE \E t \in Ticks : RowStep(t)
  BY <1>1, <1>2, <1>3, <1>5 DEF RowStep, TypeOK, Live
<1> QED
  BY <1>4, <1>5, RowSteps

LEMMA OpsBegunStep == TypeOK /\ OpsBegun /\ [Next]_vars => OpsBegun'
<1> SUFFICES ASSUME TypeOK, OpsBegun, [Next]_vars, NEW e \in Effects, op'[e] # "none"
             PROVE  command'[Effect(e)] \notin {"none", "PREPARED"}
  BY DEF OpsBegun
<1> USE CommandFacts, EffectFacts
<1>1. ASSUME NEW t \in Ticks, NEW f \in Effects, BeginEffect(t, f)
      PROVE  command'[Effect(e)] \notin {"none", "PREPARED"}
  BY <1>1 DEF BeginEffect, Issued, OpsBegun, TypeOK
<1>2. ASSUME NEW t \in Ticks, NEW f \in Effects,
             Fence(t, f) \/ RecordHandle(t, f) \/ Adopt(t, f) \/ Settle(t, f)
      PROVE  command'[Effect(e)] \notin {"none", "PREPARED"}
  <2>1. op[f] # "none" /\ command' = command /\ \E x : op' = [op EXCEPT ![f] = x]
    BY <1>2 DEF Fence, RecordHandle, Adopt, Settle, MayFence, Unrecorded, MaySettle
  <2> QED
    BY <2>1 DEF OpsBegun, TypeOK
<1>3. ASSUME NEW t \in Ticks, NEW f \in Effects, MarkAmbiguous(t, f)
      PROVE  command'[Effect(e)] \notin {"none", "PREPARED"}
  BY <1>3 DEF MarkAmbiguous, MayMark, OpsBegun, TypeOK
<1>4. ASSUME NEW t \in Ticks,
             \/ Plan(t) \/ Finish(t) \/ StartRollout(t) \/ Answer(t)
             \/ FinalizeRollout(t) \/ FinalizeRollback(t)
             \/ \E f \in Effects : BeginVerify(t, f) \/ RecordReceipt(t, f)
             \/ \E s \in 1..Stages : RegisterFailure(t, s)
      PROVE  command'[Effect(e)] \notin {"none", "PREPARED"}
  <2>1. op' = op
    BY <1>4 DEF Plan, Finish, StartRollout, Answer, FinalizeRollout, FinalizeRollback,
                BeginVerify, RecordReceipt, RegisterFailure
  <2>2. command[Effect(e)] \notin {"none", "PREPARED"}
    BY <2>1 DEF OpsBegun
  <2>3. CASE Plan(t)
    BY <2>2, <2>3 DEF Plan
  <2>4. CASE Answer(t)
    BY <2>2, <2>4 DEF Answer, TypeOK
  <2>5. CASE StartRollout(t) \/ FinalizeRollout(t) \/ \E f \in Effects : BeginVerify(t, f)
    BY <2>2, <2>5 DEF StartRollout, FinalizeRollout, BeginVerify, Issued, TypeOK
  <2>6. CASE FinalizeRollback(t) \/ \E s \in 1..Stages : RegisterFailure(t, s)
    BY <2>2, <2>6 DEF FinalizeRollback, RegisterFailure, TypeOK
  <2>7. CASE Finish(t) \/ \E f \in Effects : RecordReceipt(t, f)
    BY <2>2, <2>7 DEF Finish, RecordReceipt
  <2> QED
    BY <1>4, <2>3, <2>4, <2>5, <2>6, <2>7
<1>5. CASE UNCHANGED rows
  BY <1>5 DEF rows, OpsBegun
<1>6. CASE \E t \in Ticks : RowStep(t)
  BY <1>1, <1>2, <1>3, <1>4, <1>6 DEF RowStep
<1> QED
  BY <1>5, <1>6, RowSteps

(* What a step does to the handlers: at most one of them moves, and it begins
   to answer, or to judge, only for a settled operation. *)
LEMMA HandlersStep == TypeOK /\ RecordInv /\ [Next]_vars => HandlersAgree'
<1> SUFFICES ASSUME TypeOK, RecordInv, [Next]_vars, NEW u \in Ticks, NEW e \in Effects,
                    Claims(call'[u], pc'[u], e)
             PROVE  op'[e] = "SUCCEEDED"
  BY DEF HandlersAgree
<1>1. Claims(call[u], pc[u], e) => op[e] = "SUCCEEDED"
  BY DEF RecordInv, HandlersAgree
<1>2. op[e] = "SUCCEEDED" => op'[e] = "SUCCEEDED"
  BY OperationSettledOnce DEF RecordInv
<1>3. CASE UNCHANGED <<call, pc>>
  BY <1>1, <1>2, <1>3
<1>4. ASSUME NEW t \in Ticks, NEW k, NEW step, Deliver(t, k, step),
             Claims(k, step, e) => op'[e] = "SUCCEEDED"
      PROVE  op'[e] = "SUCCEEDED"
  BY <1>1, <1>2, <1>4 DEF Deliver, TypeOK
<1>5. ASSUME NEW t \in Ticks, Rest(t) PROVE op'[e] = "SUCCEEDED"
  BY <1>1, <1>2, <1>5 DEF Rest, TypeOK, Claims
<1>6. ASSUME NEW t \in Ticks, NEW step, call' = call, pc' = [pc EXCEPT ![t] = step],
             Claims(call[t], step, e) => op'[e] = "SUCCEEDED"
      PROVE  op'[e] = "SUCCEEDED"
  BY <1>1, <1>2, <1>6 DEF TypeOK
<1> USE CommandFacts, EffectFacts DEF Claims
<1>7. ASSUME NEW t \in Ticks, Receive(t) PROVE op'[e] = "SUCCEEDED"
  <2>1. CASE StartRollout(t)
    BY <2>1, <1>4 DEF StartRollout
  <2>2. ASSUME NEW k \in Commands, Replay(t, k) \/ Refuse(t, k) PROVE op'[e] = "SUCCEEDED"
    BY <2>2, <1>3 DEF Replay, Refuse, handler
  <2>3. ASSUME NEW k \in Commands, BeginClosing(t, k) PROVE op'[e] = "SUCCEEDED"
    BY <2>3, <1>4 DEF BeginClosing
  <2>4. ASSUME NEW f \in Effects, BeginEffect(t, f) PROVE op'[e] = "SUCCEEDED"
    BY <2>4, <1>4 DEF BeginEffect
  <2>5. ASSUME NEW f \in Effects, ResumeEffect(t, f) PROVE op'[e] = "SUCCEEDED"
    <3> DEFINE step == CASE op[f] = "PREPARED" -> "observing"
                         [] f \in handle -> "polling"
                         [] OTHER -> "lost"
    <3>1. Deliver(t, Effect(f), step) /\ step \in {"observing", "polling", "lost"}
      BY <2>5 DEF ResumeEffect
    <3> HIDE DEF step
    <3> QED
      BY <3>1, <1>4
  <2>6. ASSUME NEW f \in Effects, AnswerSettled(t, f) PROVE op'[e] = "SUCCEEDED"
    BY <2>6, <1>2, <1>4 DEF AnswerSettled
  <2>7. ASSUME NEW f \in Effects, BeginVerify(t, f) PROVE op'[e] = "SUCCEEDED"
    <3>1. op[f] = "SUCCEEDED"
      BY <2>7 DEF BeginVerify, MayVerify, RollbackSettled, LatestSettled
    <3>2. \E step \in {"verifying", "answering"} : Deliver(t, Verify(f), step)
      BY <2>7 DEF BeginVerify
    <3> QED
      BY <3>1, <3>2, <1>2, <1>4
  <2> QED
    BY <1>7, <2>1, <2>2, <2>3, <2>4, <2>5, <2>6, <2>7 DEF Receive
<1>8. ASSUME NEW t \in Ticks, Work(t) PROVE op'[e] = "SUCCEEDED"
  <2>1. CASE Answer(t) \/ FinalizeRollback(t) \/ Conflict(t) \/ \E s \in 1..Stages : RegisterFailure(t, s)
    BY <2>1, <1>5 DEF Answer, FinalizeRollback, Conflict, RegisterFailure, Return, Raise
  <2>2. CASE FinalizeRollout(t)
    BY <2>2, <1>6 DEF FinalizeRollout, Goto
  <2>3. ASSUME NEW f \in Effects, RecordHandle(t, f) \/ MarkAmbiguous(t, f)
        PROVE  op'[e] = "SUCCEEDED"
    BY <2>3, <1>5 DEF RecordHandle, MarkAmbiguous, Return
  <2>4. ASSUME NEW f \in Effects,
               \/ Observe(t, f) \/ Fence(t, f) \/ Patch(t, f) \/ ObserveLost(t, f) \/ Adopt(t, f)
        PROVE  op'[e] = "SUCCEEDED"
    <3>1. /\ call' = call /\ call[t] = Effect(f)
          /\ \E step \in {"observed", "fenced", "accepted", "adopting", "ambiguous", "settling"} :
               pc' = [pc EXCEPT ![t] = step]
      BY <2>4 DEF Observe, Fence, Patch, ObserveLost, Adopt, Goto, At
    <3> QED
      BY <3>1, <1>6
  <2>5. ASSUME NEW f \in Effects, Poll(t, f) PROVE op'[e] = "SUCCEEDED"
    <3>1. \/ Rest(t)
          \/ /\ call' = call /\ call[t] = Effect(f)
             /\ \E step \in {"settling", "ambiguous"} : pc' = [pc EXCEPT ![t] = step]
      BY <2>5 DEF Poll, Return, Goto, At
    <3> QED
      BY <3>1, <1>5, <1>6
  <2>6. ASSUME NEW f \in Effects, Settle(t, f) PROVE op'[e] = "SUCCEEDED"
    <3>1. /\ call' = call /\ call[t] = Effect(f) /\ pc' = [pc EXCEPT ![t] = "answering"]
          /\ op' = [op EXCEPT ![f] = "SUCCEEDED"]
      BY <2>6 DEF Settle, Goto, At
    <3> QED
      BY <3>1, <1>6 DEF TypeOK
  <2>7. ASSUME NEW f \in Effects, Judge(t, f) PROVE op'[e] = "SUCCEEDED"
    <3>1. /\ call' = call /\ call[t] = Verify(f) /\ pc[t] = "verifying"
          /\ \E step \in {"passed", "failed"} : pc' = [pc EXCEPT ![t] = step]
      BY <2>7 DEF Judge, At
    <3>2. op[f] = "SUCCEEDED"
      BY <3>1 DEF RecordInv, HandlersAgree, Claims
    <3> QED
      BY <3>1, <3>2, <1>2, <1>6
  <2>8. ASSUME NEW f \in Effects, RecordReceipt(t, f) PROVE op'[e] = "SUCCEEDED"
    BY <2>8, <1>6 DEF RecordReceipt
  <2> QED
    BY <1>8, <2>1, <2>2, <2>3, <2>4, <2>5, <2>6, <2>7, <2>8 DEF Work
<1>9. ASSUME NEW t \in Ticks, Plan(t) \/ TurnToVerifier(t) \/ Finish(t)
      PROVE  op'[e] = "SUCCEEDED"
  BY <1>9, <1>3 DEF Plan, TurnToVerifier, Finish, handler
<1>10. CASE Environment
  BY <1>10, <1>3, <1>5
  DEF Environment, Approve, Expire, ProviderDone, ProviderFail, Stop, Abandon, Drift, Raise, handler
<1>11. CASE UNCHANGED vars
  BY <1>11, <1>3 DEF vars, handler
<1> QED
  BY <1>7, <1>8, <1>9, <1>10, <1>11 DEF Next

(* The rollout's state tells which operation may be in flight. *)
LEMMA UnderFacts ==
  /\ Under(0) = "ROLLING_BACK" /\ Under(1) = "CANARY_DEPLOYING"
  /\ \A e \in Effects : e # 0 /\ e # 1 => Under(e) = "PROMOTING"
  BY DEF Under

LEMMA BeginFacts ==
  ASSUME TypeOK, OpsBegun, NEW t \in Ticks, NEW e \in Effects, BeginEffect(t, e)
  PROVE  /\ op[e] = "none" /\ op' = [op EXCEPT ![e] = "PREPARED"]
         /\ command' = [command EXCEPT ![Effect(e)] = "ISSUED"]
         /\ UNCHANGED <<reservation, receipt>>
         /\ rollout' = Under(e)
         /\ reservation \in {"HELD", "RECONCILING"}
         /\ \/ e = 0 /\ rollout = "VERIFICATION_FAILED" /\ request' = "ROLLING_BACK"
            \/ e = 1 /\ rollout = "CANARY_DEPLOYING" /\ request' = request
            \/ /\ e # 0 /\ e # 1
               /\ rollout = "CANARY_READY" /\ request' = request
<1>1. /\ op' = [op EXCEPT ![e] = "PREPARED"]
      /\ command' = [command EXCEPT ![Effect(e)] = "ISSUED"]
      /\ UNCHANGED <<reservation, receipt>>
      /\ command[Effect(e)] = "PREPARED"
      /\ Leased
  BY DEF BeginEffect, MayBegin, Issued
<1>2. op[e] = "none"
  BY <1>1 DEF OpsBegun
<1>3. reservation \in {"HELD", "RECONCILING"}
  BY <1>1 DEF Leased
<1>4. CASE e = 0
  <2>1. PrepareRollback /\ rollout' = "ROLLING_BACK" /\ request' = "ROLLING_BACK"
    BY <1>4 DEF BeginEffect, MayBegin
  <2> QED
    BY <1>1, <1>2, <1>3, <1>4, <2>1, UnderFacts DEF PrepareRollback
<1>5. CASE e = 1
  <2>1. PrepareCanary /\ rollout' = rollout /\ request' = request
    BY <1>5 DEF BeginEffect, MayBegin
  <2> QED
    BY <1>1, <1>2, <1>3, <1>5, <2>1, UnderFacts DEF PrepareCanary
<1>6. CASE e # 0 /\ e # 1
  <2>1. PreparePromotion(e - 1) /\ rollout' = "PROMOTING" /\ request' = request
    BY <1>6 DEF BeginEffect, MayBegin
  <2> QED
    BY <1>1, <1>2, <1>3, <1>6, <2>1, UnderFacts DEF PreparePromotion, Judged
<1> QED
  BY <1>4, <1>5, <1>6

LEMMA MarkedFacts ==
  \/ Marked = request
  \/ request = "VERIFYING" /\ rollout = "PROMOTED" /\ Marked = "PROMOTED"
  \/ /\ request = "VERIFYING" /\ rollout = "VERIFICATION_FAILED"
     /\ Marked = "ROLLBACK_APPROVAL_PENDING"
  BY DEF Marked, PromotedRequest, FailedRequest

LEMMA LifecycleStep ==
  ASSUME TypeOK, RecordInv, [Next]_vars
  PROVE  ReservationAgrees' /\ RequestAgrees'
<1> USE CommandFacts, EffectFacts DEF RecordInv, RecordsAgree, ReservationAgrees, RequestAgrees
<1>1. ASSUME NEW t \in Ticks, Finish(t) PROVE ReservationAgrees' /\ RequestAgrees'
  BY <1>1, MarkedFacts DEF Finish
<1>2. ASSUME NEW t \in Ticks, StartRollout(t) PROVE ReservationAgrees' /\ RequestAgrees'
  BY <1>2 DEF StartRollout
<1>3. ASSUME NEW t \in Ticks, NEW e \in Effects, BeginEffect(t, e)
      PROVE  ReservationAgrees' /\ RequestAgrees'
  BY <1>3, BeginFacts, UnderFacts
<1>4. ASSUME NEW t \in Ticks, NEW e \in Effects, Settle(t, e)
      PROVE  ReservationAgrees' /\ RequestAgrees'
  BY <1>4 DEF Settle, MaySettle, Leased
<1>5. ASSUME NEW t \in Ticks, NEW e \in Effects, MarkAmbiguous(t, e)
      PROVE  ReservationAgrees' /\ RequestAgrees'
  BY <1>5 DEF MarkAmbiguous
<1>6. ASSUME NEW t \in Ticks, NEW s \in 1..Stages, RegisterFailure(t, s)
      PROVE  ReservationAgrees' /\ RequestAgrees'
  BY <1>6 DEF RegisterFailure, MayRegister, Leased
<1>7. ASSUME NEW t \in Ticks, FinalizeRollout(t) \/ FinalizeRollback(t)
      PROVE  ReservationAgrees' /\ RequestAgrees'
  BY <1>7 DEF FinalizeRollout, MayFinalize, FinalizeRollback, MayWithdraw
<1>8. ASSUME NEW t \in Ticks,
             \/ Plan(t) \/ Answer(t)
             \/ \E e \in Effects :
                  \/ Fence(t, e) \/ RecordHandle(t, e) \/ Adopt(t, e)
                  \/ BeginVerify(t, e) \/ RecordReceipt(t, e)
      PROVE  ReservationAgrees' /\ RequestAgrees'
  BY <1>8 DEF Plan, Answer, Fence, RecordHandle, Adopt, BeginVerify, RecordReceipt
<1>9. CASE UNCHANGED rows
  BY <1>9 DEF rows
<1>10. CASE \E t \in Ticks : RowStep(t)
  BY <1>1, <1>2, <1>3, <1>4, <1>5, <1>6, <1>7, <1>8, <1>10 DEF RowStep
<1> QED
  BY <1>9, <1>10, RowSteps

LEMMA OperationsStep ==
  ASSUME TypeOK, RecordInv, [Next]_vars
  PROVE  OperationsAgree'
<1> USE CommandFacts, EffectFacts DEF RecordInv, RecordsAgree, OperationsAgree, InFlight, Live
<1> DEFINE Idle == \A e \in Effects : op[e] \notin Live
<1>0. rollout \notin {"ROLLING_BACK", "CANARY_DEPLOYING", "PROMOTING"} => Idle
  BY UnderFacts
<1>1. ASSUME NEW t \in Ticks, NEW e \in Effects, BeginEffect(t, e) PROVE OperationsAgree'
  <2>1. Idle
    BY <1>0, <1>1, BeginFacts, UnderFacts
  <2> HIDE DEF Idle
  <2>2. \A f \in Effects : op[f] # "AMBIGUOUS"
    BY <1>1, BeginFacts
  <2> USE DEF Idle
  <2> QED
    BY <1>1, <2>1, <2>2, BeginFacts DEF TypeOK
<1>2. ASSUME NEW t \in Ticks, NEW e \in Effects,
             Fence(t, e) \/ RecordHandle(t, e) \/ Adopt(t, e)
      PROVE  OperationsAgree'
  <2>1. /\ op[e] \in Live /\ UNCHANGED <<rollout, command, receipt>>
        /\ \E x \in Live : op' = [op EXCEPT ![e] = x]
    BY <1>2 DEF Fence, RecordHandle, Adopt, MayFence, Unrecorded
  <2> QED
    BY <2>1 DEF TypeOK
<1>3. ASSUME NEW t \in Ticks, NEW e \in Effects, Settle(t, e) PROVE OperationsAgree'
  <2>1. /\ op[e] = "RECONCILING" /\ op' = [op EXCEPT ![e] = "SUCCEEDED"]
        /\ UNCHANGED <<command, receipt>>
        /\ rollout \in {"ROLLING_BACK", "CANARY_DEPLOYING", "PROMOTING"}
    BY <1>3 DEF Settle, MaySettle
  <2> QED
    BY <2>1 DEF TypeOK
<1>4. ASSUME NEW t \in Ticks, NEW e \in Effects, MarkAmbiguous(t, e) PROVE OperationsAgree'
  <2>1. /\ op[e] \in Live /\ op' = [op EXCEPT ![e] = "AMBIGUOUS"]
        /\ command' = [command EXCEPT ![Effect(e)] = "AMBIGUOUS"]
        /\ receipt' = receipt /\ rollout' = "AMBIGUOUS"
    BY <1>4 DEF MarkAmbiguous, MayMark
  <2> QED
    BY <2>1 DEF TypeOK
<1>5. ASSUME op' = op, receipt' = receipt,
             rollout' = rollout \/ (Idle /\ rollout # "AMBIGUOUS"),
             \A e \in Effects : command'[Effect(e)] = command[Effect(e)]
      PROVE  OperationsAgree'
  BY <1>5
<1>6. ASSUME NEW t \in Ticks,
             \/ StartRollout(t) \/ FinalizeRollout(t) \/ FinalizeRollback(t)
             \/ \E s \in 1..Stages : RegisterFailure(t, s)
      PROVE  OperationsAgree'
  <2>1. /\ op' = op /\ receipt' = receipt
        /\ \A e \in Effects : command'[Effect(e)] = command[Effect(e)]
    BY <1>6 DEF StartRollout, FinalizeRollout, FinalizeRollback, RegisterFailure, Issued, TypeOK
  <2>2. \/ rollout' = rollout
        \/ rollout \in {"none", "CANARY_READY", "PROMOTED", "ROLLBACK_PENDING"}
    BY <1>6 DEF StartRollout, FinalizeRollout, MayFinalize, FinalizeRollback, MayWithdraw,
                RegisterFailure, MayRegister
  <2> HIDE DEF Idle
  <2>3. rollout' = rollout \/ (Idle /\ rollout # "AMBIGUOUS")
    BY <2>2, <1>0
  <2> QED
    BY <2>1, <2>3, <1>5
<1>7. ASSUME NEW t \in Ticks, Plan(t) PROVE OperationsAgree'
  <2>1. UNCHANGED <<rollout, op, receipt>>
    BY <1>7 DEF Plan
  <2>2. \A k \in Commands :
          command'[k] # command[k] => command[k] = "none" /\ command'[k] = "PREPARED"
    BY <1>7 DEF Plan
  <2> QED
    BY <2>1, <2>2
<1>8. ASSUME NEW t \in Ticks, Answer(t) PROVE OperationsAgree'
  <2>1. UNCHANGED <<rollout, op, receipt>>
    BY <1>8 DEF Answer
  <2>2. /\ command' = [command EXCEPT ![call[t]] = "SUCCEEDED"]
        /\ command[call[t]] \in Open \cup {"SUCCEEDED"}
    BY <1>8 DEF Answer
  <2>3. \A e \in Effects : call[t] = Effect(e) => op[e] = "SUCCEEDED"
    BY <1>8 DEF Answer, HandlersAgree, Claims
  <2> QED
    BY <2>1, <2>2, <2>3 DEF TypeOK, Open
<1>9. ASSUME NEW t \in Ticks, NEW s \in Effects, RecordReceipt(t, s) PROVE OperationsAgree'
  <2>1. /\ UNCHANGED <<rollout, op, command>> /\ op[s] = "SUCCEEDED"
        /\ \E x : receipt' = [receipt EXCEPT ![s] = x]
    BY <1>9 DEF RecordReceipt, HandlersAgree, Claims
  <2> QED
    BY <2>1 DEF TypeOK
<1>10. ASSUME NEW t \in Ticks, Finish(t) \/ \E s \in Effects : BeginVerify(t, s)
       PROVE  OperationsAgree'
  <2>1. /\ UNCHANGED <<rollout, op, receipt>>
        /\ \A e \in Effects : command'[Effect(e)] = command[Effect(e)]
    BY <1>10 DEF Finish, BeginVerify, Issued, TypeOK
  <2> QED
    BY <2>1, <1>5
<1>11. CASE UNCHANGED rows
  BY <1>11, <1>5 DEF rows
<1>12. CASE \E t \in Ticks : RowStep(t)
  BY <1>1, <1>2, <1>3, <1>4, <1>6, <1>7, <1>8, <1>9, <1>10, <1>12 DEF RowStep
<1> QED
  BY <1>11, <1>12, RowSteps

LEMMA RecordInvariant == Spec => []RecordInv
<1>1. TypeOK /\ RecordInv /\ [Next]_vars => RecordInv'
  BY LifecycleStep, OperationsStep, OpsBegunStep, HandlersStep DEF RecordInv, RecordsAgree
<1> QED
  BY <1>1, RecordInit, TypeCorrect, PTL DEF Spec

\* The rollout's row, the reservation, the request, the operations, the receipts
\* and the commands, which three services write in transactions of their own,
\* tell the same story: one operation in flight at most, under the rollout's
\* state and a command that is ISSUED, ambiguity and success the same in both.
THEOREM RecordsTellOneStory == Spec => []RecordsAgree
  BY RecordInvariant, PTL DEF RecordInv

-------------------------------------------------------------------------------
(* Outcomes are settled once. *)

LEMMA CommandSettledOnce ==
  ASSUME TypeOK, [Next]_vars
  PROVE  \A k \in Commands :
           command[k] \in {"SUCCEEDED", "AMBIGUOUS"} => command'[k] = command[k]
<1> USE CommandFacts, EffectFacts
<1> DEFINE Goal == \A k \in Commands :
             command[k] \in {"SUCCEEDED", "AMBIGUOUS"} => command'[k] = command[k]
<1>1. ASSUME NEW k \in Commands, NEW x, command[k] \in Open, command' = [command EXCEPT ![k] = x]
      PROVE  Goal
  BY <1>1 DEF TypeOK, Open
<1>2. ASSUME NEW t \in Ticks, Plan(t) PROVE Goal
  BY <1>2 DEF Plan
<1>3. ASSUME NEW t \in Ticks, StartRollout(t) PROVE Goal
  BY <1>1, <1>3 DEF StartRollout, Issued
<1>4. ASSUME NEW t \in Ticks, Answer(t) PROVE Goal
  BY <1>4 DEF Answer, TypeOK, Open
<1>5. ASSUME NEW t \in Ticks, FinalizeRollout(t) PROVE Goal
  BY <1>5 DEF FinalizeRollout, Issued, TypeOK
<1>6. ASSUME NEW t \in Ticks, FinalizeRollback(t) PROVE Goal
  <2>1. /\ command[Finalize(0)] \in Open
        /\ command' = [command EXCEPT ![Finalize(0)] = "SUCCEEDED"]
    BY <1>6 DEF FinalizeRollback, MayWithdraw, Open
  <2> QED
    BY <1>1, <2>1
<1>7. ASSUME NEW t \in Ticks, NEW e \in Effects, BeginEffect(t, e) PROVE Goal
  <2>1. /\ command[Effect(e)] \in Open
        /\ command' = [command EXCEPT ![Effect(e)] = "ISSUED"]
    BY <1>7 DEF BeginEffect, MayBegin, Issued, Open
  <2> QED
    BY <1>1, <2>1
<1>8. ASSUME NEW t \in Ticks, NEW e \in Effects, MarkAmbiguous(t, e) PROVE Goal
  BY <1>1, <1>8 DEF MarkAmbiguous, MayMark
<1>9. ASSUME NEW t \in Ticks, NEW e \in Effects, BeginVerify(t, e) PROVE Goal
  BY <1>1, <1>9 DEF BeginVerify, MayVerify, Issued
<1>10. ASSUME NEW t \in Ticks, NEW s \in 1..Stages, RegisterFailure(t, s) PROVE Goal
  <2>1. /\ command[Fail(s)] \in Open
        /\ command' = [command EXCEPT ![Fail(s)] = "SUCCEEDED"]
    BY <1>10 DEF RegisterFailure, MayRegister, Open
  <2> QED
    BY <1>1, <2>1
<1>11. ASSUME NEW t \in Ticks,
              \/ Finish(t)
              \/ \E e \in Effects :
                   \/ Fence(t, e) \/ RecordHandle(t, e) \/ Adopt(t, e)
                   \/ Settle(t, e) \/ RecordReceipt(t, e)
       PROVE  Goal
  BY <1>11 DEF Finish, Fence, RecordHandle, Adopt, Settle, RecordReceipt
<1>12. CASE UNCHANGED rows
  BY <1>12 DEF rows
<1>13. CASE \E t \in Ticks : RowStep(t)
  <2> HIDE DEF Goal
  <2>1. Goal
    BY <1>2, <1>3, <1>4, <1>5, <1>6, <1>7, <1>8, <1>9, <1>10, <1>11, <1>13 DEF RowStep
  <2> QED
    BY <2>1 DEF Goal
<1> QED
  BY <1>12, <1>13, RowSteps

LEMMA FinalStays ==
  ASSUME TypeOK, RecordInv, [Next]_vars, rollout \in Final
  PROVE  rollout' = rollout
<1> USE CommandFacts, EffectFacts DEF Final
<1>1. ASSUME NEW t \in Ticks, NEW e \in Effects, BeginEffect(t, e) PROVE FALSE
  BY <1>1, BeginFacts DEF RecordInv
<1>2. ASSUME NEW t \in Ticks, NEW e \in Effects, MarkAmbiguous(t, e) PROVE FALSE
  BY <1>2, UnderFacts
  DEF MarkAmbiguous, MayMark, RecordInv, RecordsAgree, OperationsAgree, InFlight, Live
<1>3. ASSUME NEW t \in Ticks,
             \/ StartRollout(t) \/ FinalizeRollout(t) \/ FinalizeRollback(t)
             \/ \E e \in Effects : Settle(t, e)
             \/ \E s \in 1..Stages : RegisterFailure(t, s)
      PROVE  rollout' = rollout
  BY <1>3 DEF StartRollout, FinalizeRollout, MayFinalize, FinalizeRollback, MayWithdraw,
              Settle, MaySettle, RegisterFailure, MayRegister
<1>4. ASSUME NEW t \in Ticks,
             \/ Plan(t) \/ Finish(t) \/ Answer(t)
             \/ \E e \in Effects :
                  \/ Fence(t, e) \/ RecordHandle(t, e) \/ Adopt(t, e)
                  \/ BeginVerify(t, e) \/ RecordReceipt(t, e)
      PROVE  rollout' = rollout
  BY <1>4 DEF Plan, Finish, Answer, Fence, RecordHandle, Adopt, BeginVerify, RecordReceipt
<1>5. CASE UNCHANGED rows
  BY <1>5 DEF rows
<1>6. CASE \E t \in Ticks : RowStep(t)
  BY <1>1, <1>2, <1>3, <1>4, <1>6 DEF RowStep
<1> QED
  BY <1>5, <1>6, RowSteps

LEMMA ReceiptStays ==
  ASSUME TypeOK, [Next]_vars
  PROVE  \A e \in Effects : receipt[e] # "none" => receipt'[e] = receipt[e]
<1>1. ASSUME NEW t \in Ticks, NEW e \in Effects, RecordReceipt(t, e)
      PROVE  receipt[e] = "none" /\ \E x : receipt' = [receipt EXCEPT ![e] = x]
  BY <1>1 DEF RecordReceipt
<1>2. ASSUME NEW t \in Ticks,
             \/ Plan(t) \/ Finish(t) \/ StartRollout(t) \/ Answer(t)
             \/ FinalizeRollout(t) \/ FinalizeRollback(t)
             \/ \E e \in Effects :
                  \/ BeginEffect(t, e) \/ Fence(t, e) \/ RecordHandle(t, e) \/ Adopt(t, e)
                  \/ Settle(t, e) \/ MarkAmbiguous(t, e) \/ BeginVerify(t, e)
             \/ \E s \in 1..Stages : RegisterFailure(t, s)
      PROVE  receipt' = receipt
  BY <1>2 DEF Plan, Finish, StartRollout, Answer, FinalizeRollout, FinalizeRollback,
              BeginEffect, Fence, RecordHandle, Adopt, Settle, MarkAmbiguous, BeginVerify,
              RegisterFailure
<1>3. CASE UNCHANGED rows
  BY <1>3 DEF rows
<1>4. CASE \E t \in Ticks : RowStep(t)
  BY <1>1, <1>2, <1>4 DEF RowStep, TypeOK
<1> QED
  BY <1>3, <1>4, RowSteps

\* Whatever is redelivered or comes late: no step rewrites a receipt, the
\* outcome of an operation or of a command, or a rollout that has ended.
THEOREM OutcomesAreFinal == Spec => TerminalIsFinal
<1>1. TypeOK /\ RecordInv /\ [Next]_vars => [SettledStays]_vars
  BY CommandSettledOnce, FinalStays, ReceiptStays, OperationSettledOnce
  DEF SettledStays, RecordInv
<1> QED
  BY <1>1, RecordInvariant, TypeCorrect, PTL DEF Spec, TerminalIsFinal

-------------------------------------------------------------------------------
(* The fence before the provider. *)

Claimed(e) == op[e] \notin {"none", "PREPARED"}
Fenced(t, e) == At(t, "fenced", Effect(e))

(* Only the handler that claimed the operation stands at the fence, and until
   it has passed nothing was sent; a handler that found the PATCH's own traffic
   in place knows more than one that still has a current etag. *)
FenceInv ==
  /\ \A e \in handle : Claimed(e)
  /\ \A t \in Ticks : pc[t] = "fenced" => \E e \in Effects : Fenced(t, e)
  /\ \A t, u \in Ticks, e \in Effects : Fenced(t, e) /\ Fenced(u, e) => t = u
  /\ \A t \in Ticks, e \in Effects :
       /\ Fenced(t, e) => Claimed(e) /\ sent[e] = 0
       /\ At(t, "accepted", Effect(e)) => sent[e] > 0
       /\ At(t, "lost", Effect(e)) \/ At(t, "adopting", Effect(e)) => Claimed(e)
  /\ \A e \in Effects : sent[e] <= 1 /\ (sent[e] # 0 => Claimed(e))

(* A handler that is still able to change the target has an operation nobody
   has moved on with, or asks for the traffic that is there already. *)
EtagInv ==
  /\ \A t \in Ticks : seen[t] <= generation
  /\ \A t, u \in Ticks, e \in Effects :
       Fenced(t, e) /\ seen[t] = generation =>
         /\ op[e] \in {"ISSUED", "AMBIGUOUS"} \/ target = e
         /\ At(u, "adopting", Effect(e)) => target = e

(* Where a handler stands on what it has seen or decided before. *)
Posts == {"observed", "fenced", "accepted", "lost", "adopting", "closing", "reclosing"}

(* How handlers move. *)
LEMMA HandlerStep ==
  ASSUME TypeOK, [Next]_vars, NEW u \in Ticks
  PROVE  \/ pc'[u] = pc[u] /\ call'[u] = call[u] /\ seen'[u] = seen[u]
         \/ /\ pc'[u] \notin Posts
            /\ seen'[u] \in {0, generation, seen[u]} /\ generation' = generation
         \/ \E e \in Effects :
              \/ Observe(u, e) \/ Fence(u, e) \/ Patch(u, e)
              \/ ObserveLost(u, e) \/ ResumeEffect(u, e)
         \/ \E k \in Commands : BeginClosing(u, k)
<1> USE CommandFacts, EffectFacts DEF Posts
<1> DEFINE Stays == pc'[u] = pc[u] /\ call'[u] = call[u] /\ seen'[u] = seen[u]
           Moves == /\ pc'[u] \notin Posts
                    /\ seen'[u] \in {0, generation, seen[u]} /\ generation' = generation
           Fences == \/ \E e \in Effects :
                          \/ Observe(u, e) \/ Fence(u, e) \/ Patch(u, e)
                          \/ ObserveLost(u, e) \/ ResumeEffect(u, e)
                     \/ \E k \in Commands : BeginClosing(u, k)
<1>1. CASE UNCHANGED handler
  BY <1>1 DEF handler
<1>2. ASSUME NEW t \in Ticks, Rest(t), UNCHANGED cloud PROVE Stays \/ Moves
  BY <1>2 DEF Rest, TypeOK, cloud
<1>3. ASSUME NEW t \in Ticks, NEW k, NEW step \in {"answering", "verifying", "observing"},
             Deliver(t, k, step), UNCHANGED cloud
      PROVE  Stays \/ Moves
  BY <1>3 DEF Deliver, TypeOK, cloud
<1>4. ASSUME NEW t \in Ticks, NEW step \in {"settling", "ambiguous", "answering", "passed", "failed"},
             pc' = [pc EXCEPT ![t] = step], call' = call,
             \/ seen' = seen
             \/ seen' = [seen EXCEPT ![t] = generation]
             \/ seen' = [seen EXCEPT ![t] = 0],
             UNCHANGED cloud
      PROVE  Stays \/ Moves
  BY <1>4 DEF TypeOK, cloud
<1>5. ASSUME NEW t \in Ticks,
             \/ \E e \in Effects :
                  \/ Observe(t, e) \/ Fence(t, e) \/ Patch(t, e)
                  \/ ObserveLost(t, e) \/ ResumeEffect(t, e)
             \/ \E k \in Commands : BeginClosing(t, k)
      PROVE  Stays \/ Fences
  <2>1. CASE t = u
    BY <1>5, <2>1
  <2>2. CASE t # u
    BY <1>5, <2>2 DEF Observe, BeginClosing, Fence, Patch, ObserveLost, ResumeEffect, Goto, Deliver, TypeOK
  <2> QED
    BY <2>1, <2>2
<1> HIDE DEF Stays, Moves, Fences
<1>6. ASSUME NEW t \in Ticks, Receive(t) PROVE Stays \/ Moves \/ Fences
  <2>1. CASE StartRollout(t)
    BY <2>1, <1>3 DEF StartRollout
  <2>2. ASSUME NEW k \in Commands, Replay(t, k) \/ Refuse(t, k) PROVE UNCHANGED handler
    BY <2>2 DEF Replay, Refuse
  <2>3. ASSUME NEW e \in Effects, BeginEffect(t, e) \/ AnswerSettled(t, e) PROVE Stays \/ Moves
    BY <2>3, <1>3 DEF BeginEffect, AnswerSettled
  <2>4. ASSUME NEW s \in Effects, BeginVerify(t, s) PROVE Stays \/ Moves
    BY <2>4, <1>3 DEF BeginVerify
  <2>5. ASSUME UNCHANGED handler PROVE Stays
    BY <2>5 DEF handler, Stays
  <2> QED
    BY <1>6, <2>1, <2>2, <2>3, <2>4, <2>5, <1>5 DEF Receive
<1>7. ASSUME NEW t \in Ticks, Work(t) PROVE Stays \/ Moves \/ Fences
  <2>1. CASE Answer(t) \/ FinalizeRollback(t) \/ Conflict(t) \/ \E s \in 1..Stages : RegisterFailure(t, s)
    BY <2>1, <1>2 DEF Answer, FinalizeRollback, Conflict, RegisterFailure, Return, Raise
  <2>2. CASE FinalizeRollout(t)
    BY <2>2, <1>4 DEF FinalizeRollout, Goto
  <2>3. ASSUME NEW e \in Effects, RecordHandle(t, e) \/ MarkAmbiguous(t, e) PROVE Stays \/ Moves
    BY <2>3, <1>2 DEF RecordHandle, MarkAmbiguous, Return
  <2>4. ASSUME NEW e \in Effects, Adopt(t, e) \/ Settle(t, e) PROVE Stays \/ Moves
    BY <2>4, <1>4 DEF Adopt, Settle, Goto
  <2>5. ASSUME NEW e \in Effects, Poll(t, e) PROVE Stays \/ Moves
    BY <2>5, <1>2, <1>4 DEF Poll, Return, Goto
  <2>6. ASSUME NEW s \in Effects, Judge(t, s) \/ RecordReceipt(t, s) PROVE Stays \/ Moves
    BY <2>6, <1>4 DEF Judge, RecordReceipt
  <2> QED
    BY <1>7, <2>1, <2>2, <2>3, <2>4, <2>5, <2>6, <1>5 DEF Work
<1>8. ASSUME NEW t \in Ticks, Plan(t) \/ TurnToVerifier(t) \/ Finish(t) PROVE UNCHANGED handler
  BY <1>8 DEF Plan, TurnToVerifier, Finish
<1>9. CASE Environment
  <2>1. ASSUME NEW t \in Ticks, Stop(t) PROVE Stays \/ Moves
    BY <2>1, <1>2 DEF Stop, Raise
  <2>2. (\E t \in Ticks : Stop(t)) \/ UNCHANGED handler
    BY <1>9 DEF Environment, Approve, Expire, ProviderDone, ProviderFail, Abandon, Drift
  <2> QED
    BY <2>1, <2>2, <1>1 DEF Stays, Moves, Fences
<1>10. CASE UNCHANGED vars
  BY <1>1, <1>10 DEF vars
<1> QED
  BY <1>1, <1>6, <1>7, <1>8, <1>9, <1>10 DEF Next, Stays, Moves, Fences

(* Only an accepted PATCH and somebody else's change touch the service. *)
LEMMA CloudStep ==
  ASSUME TypeOK, [Next]_vars
  PROVE  \/ \E t \in Ticks, e \in Effects : Patch(t, e)
         \/ /\ sent' = sent
            /\ \/ generation' = generation /\ target' = target
               \/ generation' = generation + 1 /\ UNCHANGED handler
<1> DEFINE Quiet == /\ sent' = sent
                    /\ \/ generation' = generation /\ target' = target
                       \/ generation' = generation + 1 /\ UNCHANGED handler
<1>1. ASSUME NEW t \in Ticks, Receive(t) PROVE Quiet
  BY <1>1 DEF Receive, StartRollout, Replay, Refuse, BeginClosing, BeginEffect, ResumeEffect,
              AnswerSettled, BeginVerify, cloud
<1>2. ASSUME NEW t \in Ticks, Work(t) PROVE Quiet \/ \E e \in Effects : Patch(t, e)
  <2>1. ASSUME NEW e \in Effects,
               \/ Observe(t, e) \/ Fence(t, e) \/ RecordHandle(t, e)
               \/ ObserveLost(t, e) \/ Adopt(t, e) \/ Poll(t, e)
               \/ Settle(t, e) \/ MarkAmbiguous(t, e) \/ Judge(t, e) \/ RecordReceipt(t, e)
        PROVE  UNCHANGED cloud
    BY <2>1 DEF Observe, Fence, RecordHandle, ObserveLost, Adopt, Poll, Settle, MarkAmbiguous,
                Judge, RecordReceipt
  <2>2. ASSUME \/ Answer(t) \/ FinalizeRollout(t) \/ FinalizeRollback(t) \/ Conflict(t)
               \/ \E s \in 1..Stages : RegisterFailure(t, s)
        PROVE  UNCHANGED cloud
    BY <2>2 DEF Answer, FinalizeRollout, FinalizeRollback, Conflict, RegisterFailure
  <2> QED
    BY <1>2, <2>1, <2>2 DEF Work, cloud
<1>3. ASSUME NEW t \in Ticks, Plan(t) \/ TurnToVerifier(t) \/ Finish(t) PROVE Quiet
  BY <1>3 DEF Plan, TurnToVerifier, Finish, cloud
<1>4. CASE Environment
  BY <1>4 DEF Environment, Approve, Expire, ProviderDone, ProviderFail, Stop, Abandon, Drift,
              Fault, cloud
<1>5. CASE UNCHANGED vars
  BY <1>5 DEF vars, cloud
<1> QED
  BY <1>1, <1>2, <1>3, <1>4, <1>5 DEF Next

LEMMA ClaimedStays ==
  ASSUME TypeOK, OpsBegun, [Next]_vars, NEW e \in Effects, Claimed(e)
  PROVE  Claimed(e)'
<1>1. ASSUME NEW t \in Ticks, NEW f \in Effects, BeginEffect(t, f) PROVE Claimed(e)'
  BY <1>1, BeginFacts DEF Claimed, TypeOK
<1>2. ASSUME NEW t \in Ticks, NEW f \in Effects,
             \/ Fence(t, f) \/ RecordHandle(t, f) \/ Adopt(t, f)
             \/ Settle(t, f) \/ MarkAmbiguous(t, f)
      PROVE  Claimed(e)'
  BY <1>2 DEF Fence, RecordHandle, Adopt, Settle, MarkAmbiguous, Claimed, TypeOK
<1>3. ASSUME NEW t \in Ticks,
             \/ Plan(t) \/ Finish(t) \/ StartRollout(t) \/ Answer(t)
             \/ FinalizeRollout(t) \/ FinalizeRollback(t)
             \/ \E f \in Effects : BeginVerify(t, f) \/ RecordReceipt(t, f)
             \/ \E s \in 1..Stages : RegisterFailure(t, s)
      PROVE  Claimed(e)'
  BY <1>3 DEF Plan, Finish, StartRollout, Answer, FinalizeRollout, FinalizeRollback,
              BeginVerify, RecordReceipt, RegisterFailure, Claimed
<1>4. CASE UNCHANGED rows
  BY <1>4 DEF rows, Claimed
<1>5. CASE \E t \in Ticks : RowStep(t)
  BY <1>1, <1>2, <1>3, <1>5 DEF RowStep
<1> QED
  BY <1>4, <1>5, RowSteps

(* Where a handler now stands at the fence or in its aftermath, it stood there
   before or comes from the step before. *)
LEMMA FenceSteps ==
  ASSUME TypeOK, [Next]_vars, NEW u \in Ticks, NEW e \in Effects
  PROVE  /\ Fenced(u, e)' =>
              \/ Fence(u, e)
              \/ Fenced(u, e) /\ seen'[u] = seen[u]
         /\ At(u, "accepted", Effect(e))' => At(u, "accepted", Effect(e)) \/ Patch(u, e)
         /\ At(u, "lost", Effect(e))' => At(u, "lost", Effect(e)) \/ ResumeEffect(u, e)
         /\ At(u, "adopting", Effect(e))' => At(u, "adopting", Effect(e)) \/ ObserveLost(u, e)
         /\ pc'[u] = "fenced" =>
              \/ pc[u] = "fenced" /\ call'[u] = call[u]
              \/ \E f \in Effects : Fenced(u, f)'
<1> USE CommandFacts DEF Fenced, At
<1>1. CASE pc'[u] = pc[u] /\ call'[u] = call[u] /\ seen'[u] = seen[u]
  BY <1>1
<1>2. CASE pc'[u] \notin Posts
  BY <1>2 DEF Posts
<1>3. ASSUME NEW f \in Effects, Fence(u, f) \/ Patch(u, f)
      PROVE  /\ call'[u] = Effect(f)
             /\ \/ Fence(u, f) /\ pc'[u] = "fenced"
                \/ Patch(u, f) /\ pc'[u] = "accepted"
  BY <1>3 DEF Fence, Patch, Goto, TypeOK
<1>4. ASSUME NEW f \in Effects, ObserveLost(u, f)
      PROVE  call'[u] = Effect(f) /\ pc'[u] \in {"adopting", "ambiguous"}
  BY <1>4 DEF ObserveLost, Goto, TypeOK
<1>5. ASSUME NEW f \in Effects, ResumeEffect(u, f)
      PROVE  call'[u] = Effect(f) /\ pc'[u] \in {"observing", "polling", "lost"}
  <2> DEFINE step == CASE op[f] = "PREPARED" -> "observing"
                       [] f \in handle -> "polling"
                       [] OTHER -> "lost"
  <2>1. Deliver(u, Effect(f), step) /\ step \in {"observing", "polling", "lost"}
    BY <1>5 DEF ResumeEffect
  <2> HIDE DEF step
  <2> QED
    BY <2>1 DEF Deliver, TypeOK
<1>6. ASSUME NEW f \in Effects, Observe(u, f) PROVE pc'[u] = "observed"
  BY <1>6 DEF Observe, TypeOK
<1>7. ASSUME NEW k \in Commands, BeginClosing(u, k) PROVE pc'[u] \in {"closing", "reclosing"}
  BY <1>7 DEF BeginClosing, Deliver, TypeOK
<1> QED
  BY <1>1, <1>2, <1>3, <1>4, <1>5, <1>6, <1>7, HandlerStep

LEMMA LostIsClaimed ==
  ASSUME TypeOK, FenceInv, NEW u \in Ticks, NEW e \in Effects, ResumeEffect(u, e),
         At(u, "lost", Effect(e))'
  PROVE  Claimed(e)
<1>1. CASE op[e] = "PREPARED"
  <2> DEFINE step == CASE op[e] = "PREPARED" -> "observing"
                       [] e \in handle -> "polling"
                       [] OTHER -> "lost"
  <2>1. step = "observing"
    <3>1. e \notin handle
      BY <1>1 DEF FenceInv, Claimed
    <3> QED
      BY <1>1, <3>1
  <2>2. Deliver(u, Effect(e), step)
    BY DEF ResumeEffect
  <2> HIDE DEF step
  <2> QED
    BY <2>1, <2>2 DEF Deliver, At, TypeOK
<1>2. op[e] \in Live
  BY DEF ResumeEffect, MayResume
<1> QED
  BY <1>1, <1>2 DEF Live, Claimed

LEMMA IssuedMoves ==
  ASSUME TypeOK, OpsBegun, [Next]_vars, NEW e \in Effects, op[e] = "ISSUED"
  PROVE  \/ op'[e] \in {"ISSUED", "AMBIGUOUS"}
         \/ \E t \in Ticks : RecordHandle(t, e) \/ Adopt(t, e)
<1> DEFINE Goal == \/ op'[e] \in {"ISSUED", "AMBIGUOUS"}
                   \/ \E t \in Ticks : RecordHandle(t, e) \/ Adopt(t, e)
<1>1. ASSUME NEW t \in Ticks, NEW f \in Effects,
             BeginEffect(t, f) \/ Fence(t, f) \/ Settle(t, f)
      PROVE  Goal
  <2>1. f # e
    BY <1>1, BeginFacts DEF Fence, MayFence, Settle, MaySettle
  <2>2. \E x : op' = [op EXCEPT ![f] = x]
    BY <1>1 DEF BeginEffect, Fence, Settle
  <2> QED
    BY <2>1, <2>2 DEF TypeOK
<1>2. ASSUME NEW t \in Ticks, NEW f \in Effects,
             RecordHandle(t, f) \/ Adopt(t, f) \/ MarkAmbiguous(t, f)
      PROVE  Goal
  BY <1>2 DEF RecordHandle, Adopt, MarkAmbiguous, TypeOK
<1>3. ASSUME NEW t \in Ticks,
             \/ Plan(t) \/ Finish(t) \/ StartRollout(t) \/ Answer(t)
             \/ FinalizeRollout(t) \/ FinalizeRollback(t)
             \/ \E f \in Effects : BeginVerify(t, f) \/ RecordReceipt(t, f)
             \/ \E s \in 1..Stages : RegisterFailure(t, s)
      PROVE  op' = op
  BY <1>3 DEF Plan, Finish, StartRollout, Answer, FinalizeRollout, FinalizeRollback,
              BeginVerify, RecordReceipt, RegisterFailure
<1>4. CASE UNCHANGED rows
  BY <1>4 DEF rows
<1>5. CASE \E t \in Ticks : RowStep(t)
  BY <1>1, <1>2, <1>3, <1>5 DEF RowStep
<1> QED
  BY <1>4, <1>5, RowSteps

LEMMA FenceStep == TypeOK /\ OpsBegun /\ FenceInv /\ [Next]_vars => FenceInv'
<1> SUFFICES ASSUME TypeOK, OpsBegun, FenceInv, [Next]_vars PROVE FenceInv'
  OBVIOUS
<1>1. \A t \in Ticks, e \in Effects : Fence(t, e) => op[e] = "PREPARED" /\ op'[e] = "ISSUED"
  BY DEF Fence, MayFence, TypeOK
<1>2. ASSUME NEW t \in Ticks, NEW e \in Effects, Patch(t, e)
      PROVE  /\ Fenced(t, e) /\ ~Fenced(t, e)'
             /\ sent[e] = 0 /\ sent'[e] = 1
             /\ \A f \in Effects : f # e => sent'[f] = sent[f]
  <2>1. Fenced(t, e) /\ ~Fenced(t, e)'
    BY <1>2 DEF Patch, Fenced, At, Goto, TypeOK
  <2>2. sent[e] = 0 /\ sent' = [sent EXCEPT ![e] = @ + 1]
    BY <1>2, <2>1 DEF Patch, FenceInv
  <2> QED
    BY <2>1, <2>2 DEF TypeOK
<1>3. ASSUME NEW t \in Ticks, NEW u \in Ticks, NEW e \in Effects, Fenced(t, e)', Fenced(u, e)'
      PROVE  t = u
  <2>1. CASE Fence(t, e) /\ Fence(u, e)
    BY <2>1 DEF Fence, At, Goto, TypeOK
  <2>2. CASE Fence(t, e) /\ Fenced(u, e)
    BY <2>2, <1>1 DEF FenceInv, Claimed
  <2>3. CASE Fenced(t, e) /\ Fence(u, e)
    BY <2>3, <1>1 DEF FenceInv, Claimed
  <2>4. CASE Fenced(t, e) /\ Fenced(u, e)
    BY <2>4 DEF FenceInv
  <2> QED
    BY <1>3, <2>1, <2>2, <2>3, <2>4, FenceSteps
<1>4. ASSUME NEW t \in Ticks, NEW e \in Effects, Fenced(t, e)'
      PROVE  Claimed(e)' /\ sent'[e] = 0
  <2>1. CASE Fence(t, e)
    <3>1. sent' = sent
      BY <2>1 DEF Fence, cloud
    <3> QED
      BY <2>1, <3>1, <1>1 DEF FenceInv, Claimed
  <2>2. CASE Fenced(t, e)
    <3>1. Claimed(e)' /\ sent[e] = 0
      BY <2>2, ClaimedStays DEF FenceInv
    <3>2. ASSUME NEW u \in Ticks, NEW f \in Effects, Patch(u, f) PROVE f # e
      BY <3>2, <1>2, <1>4, <2>2 DEF FenceInv
    <3> QED
      BY <3>1, <3>2, <1>2, CloudStep
  <2> QED
    BY <1>4, <2>1, <2>2, FenceSteps
<1>5. ASSUME NEW e \in Effects
      PROVE  sent'[e] <= 1 /\ (sent'[e] # 0 => Claimed(e)') /\ (sent[e] > 0 => sent'[e] > 0)
  <2>1. CASE \E t \in Ticks : Patch(t, e)
    BY <2>1, <1>2, ClaimedStays DEF FenceInv
  <2>2. CASE sent'[e] = sent[e]
    BY <2>2, ClaimedStays DEF FenceInv
  <2> QED
    BY <2>1, <2>2, <1>2, CloudStep
<1>6. ASSUME NEW t \in Ticks, NEW e \in Effects
      PROVE  /\ At(t, "accepted", Effect(e))' => sent'[e] > 0
             /\ At(t, "lost", Effect(e))' => Claimed(e)'
             /\ At(t, "adopting", Effect(e))' => Claimed(e)'
  <2>1. ObserveLost(t, e) => At(t, "lost", Effect(e))
    BY DEF ObserveLost
  <2> QED
    BY <2>1, <1>2, <1>5, FenceSteps, LostIsClaimed, ClaimedStays DEF FenceInv
<1>7. ASSUME NEW t \in Ticks, pc'[t] = "fenced" PROVE \E e \in Effects : Fenced(t, e)'
  BY <1>7, EffectFacts, FenceSteps DEF FenceInv, Fenced, At
<1>8. ASSUME NEW e \in handle' PROVE Claimed(e)'
  <2>1. CASE \E t \in Ticks, f \in Effects : RecordHandle(t, f)
    <3>1. PICK t \in Ticks, f \in Effects : RecordHandle(t, f)
      BY <2>1
    <3>2. handle' = handle \cup {f} /\ op'[f] = "RECONCILING"
      BY <3>1 DEF RecordHandle, TypeOK
    <3>3. CASE e = f
      BY <3>2, <3>3 DEF Claimed
    <3>4. CASE e \in handle
      BY <3>4, ClaimedStays DEF FenceInv, TypeOK
    <3> QED
      BY <1>8, <3>2, <3>3, <3>4
  <2>2. CASE handle' = handle
    BY <1>8, <2>2, ClaimedStays DEF FenceInv, TypeOK
  <2>3. ASSUME NEW t \in Ticks, RowStep(t), \A f \in Effects : ~RecordHandle(t, f)
        PROVE  handle' = handle
    BY <2>3 DEF RowStep, Plan, Finish, StartRollout, Answer, FinalizeRollout, FinalizeRollback,
                BeginEffect, Fence, Adopt, Settle, MarkAmbiguous, BeginVerify, RecordReceipt,
                RegisterFailure
  <2>4. UNCHANGED rows => handle' = handle
    BY DEF rows
  <2> QED
    BY <2>1, <2>2, <2>3, <2>4, RowSteps
<1> QED
  BY <1>3, <1>4, <1>5, <1>6, <1>7, <1>8 DEF FenceInv

LEMMA EtagStep ==
  ASSUME TypeOK, OpsBegun, FenceInv, EtagInv, [Next]_vars
  PROVE  EtagInv'
<1>1. /\ \A t \in Ticks : seen[t] \in Nat
      /\ generation \in Nat
  BY DEF TypeOK
<1>2. ASSUME NEW t \in Ticks, NEW e \in Effects, Patch(t, e) PROVE generation' = generation + 1
  BY <1>2 DEF Patch
<1>3. \/ generation' = generation
      \/ generation' = generation + 1
  BY <1>2, CloudStep
<1>4. ASSUME NEW u \in Ticks PROVE seen'[u] <= generation'
  <2>1. ASSUME NEW e \in Effects,
               Fence(u, e) \/ Patch(u, e) \/ ObserveLost(u, e) \/ ResumeEffect(u, e)
        PROVE  seen' = seen
    BY <2>1 DEF Fence, Patch, ObserveLost, ResumeEffect, Goto, Deliver
  <2>2. ASSUME NEW k \in Commands, BeginClosing(u, k) PROVE seen' = seen
    BY <2>2 DEF BeginClosing, Deliver
  <2>3. ASSUME NEW e \in Effects, Observe(u, e)
        PROVE  seen'[u] = generation /\ generation' = generation
    BY <2>3 DEF Observe, cloud, TypeOK
  <2>4. seen'[u] = seen[u] \/ (seen'[u] \in {0, generation, seen[u]} /\ generation' = generation)
    BY <2>1, <2>2, <2>3, HandlerStep
  <2> QED
    BY <2>4, <1>1, <1>3 DEF EtagInv
<1>5. ASSUME NEW t \in Ticks, NEW u \in Ticks, NEW e \in Effects,
             Fenced(t, e)', seen'[t] = generation'
      PROVE  /\ op'[e] \in {"ISSUED", "AMBIGUOUS"} \/ target' = e
             /\ At(u, "adopting", Effect(e))' => target' = e
  <2>1. ObserveLost(u, e) => /\ At(u, "lost", Effect(e))
                             /\ At(u, "adopting", Effect(e))' => target = e
    BY DEF ObserveLost, At, Goto, TypeOK
  <2>2. CASE Fence(t, e)
    <3>1. op[e] = "PREPARED" /\ op'[e] = "ISSUED"
      BY <2>2 DEF Fence, MayFence, TypeOK
    <3>2. ~At(u, "adopting", Effect(e)) /\ ~At(u, "lost", Effect(e))
      BY <3>1 DEF FenceInv, Claimed
    <3> QED
      BY <3>1, <3>2, <2>1, FenceSteps
  <2>3. CASE Fenced(t, e) /\ seen'[t] = seen[t]
    <3>1. generation' = generation /\ seen[t] = generation
      BY <1>1, <1>3, <1>5, <2>3 DEF EtagInv
    <3>2. target' = target
      <4>1. generation' # generation + 1
        BY <3>1, <1>1
      <4> QED
        BY <4>1, <1>2, CloudStep
    <3>3. At(u, "adopting", Effect(e))' => target' = e
      BY <2>1, <2>3, <3>1, <3>2, FenceSteps DEF EtagInv
    <3>4. CASE op[e] = "ISSUED"
      <4>1. ASSUME NEW v \in Ticks PROVE ~RecordHandle(v, e)
        <5>1. RecordHandle(v, e) => At(v, "accepted", Effect(e))
          BY DEF RecordHandle
        <5> QED
          BY <5>1, <2>3 DEF FenceInv
      <4>2. ASSUME NEW v \in Ticks, Adopt(v, e) PROVE target = e
        <5>1. At(v, "adopting", Effect(e))
          BY <4>2 DEF Adopt
        <5> QED
          BY <5>1, <2>3, <3>1 DEF EtagInv
      <4> QED
        BY <3>2, <3>3, <3>4, <4>1, <4>2, IssuedMoves
    <3>5. CASE op[e] = "AMBIGUOUS"
      BY <3>3, <3>5, OperationSettledOnce
    <3>6. CASE target = e
      BY <3>2, <3>3, <3>6
    <3> QED
      BY <2>3, <3>1, <3>4, <3>5, <3>6 DEF EtagInv
  <2> QED
    BY <1>5, <2>2, <2>3, FenceSteps
<1> QED
  BY <1>4, <1>5 DEF EtagInv, Fenced

LEMMA FenceInvariant == Spec => [](FenceInv /\ EtagInv)
<1>1. Init => FenceInv /\ EtagInv
  BY DEF Init, FenceInv, EtagInv, Fenced, At
<1>2. TypeOK /\ RecordInv /\ (FenceInv /\ EtagInv) /\ [Next]_vars => (FenceInv /\ EtagInv)'
  BY FenceStep, EtagStep DEF RecordInv
<1> QED
  BY <1>1, <1>2, TypeCorrect, RecordInvariant, PTL DEF Spec

\* Cloud Run accepts at most one PATCH for each operation of the rollout, however
\* often its command is redelivered and however many handlers of it are at work:
\* claim_canary lets one of them through.
THEOREM ProductionChangesOnce == Spec => []OneMutation
<1>1. FenceInv => OneMutation
  BY DEF FenceInv, OneMutation
<1> QED
  BY <1>1, FenceInvariant, PTL

\* Once the reservation is released no handler still holds the right to change
\* the target to anything but what it is: the etag of a handler that lost its
\* operation is stale.
THEOREM ReleasedTargetIsQuiet == Spec => []TargetIsQuiet
<1>1. TypeOK /\ RecordInv /\ FenceInv /\ EtagInv => TargetIsQuiet
  <2> SUFFICES ASSUME TypeOK, RecordInv, FenceInv, EtagInv, reservation = "RELEASED",
                      NEW t \in Ticks, CanPatch(t)
               PROVE  call[t] = Effect(target)
    BY DEF TargetIsQuiet
  <2>1. rollout \in {"PROMOTED", "ROLLED_BACK"}
    BY DEF RecordInv, RecordsAgree, ReservationAgrees
  <2>2. \A e \in Effects : op[e] \notin {"ISSUED", "AMBIGUOUS"}
    BY <2>1, UnderFacts
    DEF RecordInv, RecordsAgree, OperationsAgree, InFlight, Live
  <2>3. PICK e \in Effects : call[t] = Effect(e)
    BY DEF CanPatch, FenceInv, Fenced, At
  <2> QED
    BY <2>2, <2>3 DEF EtagInv, Fenced, At, CanPatch
<1> QED
  BY <1>1, FenceInvariant, RecordInvariant, TypeCorrect, PTL

-------------------------------------------------------------------------------
(* The refinement: what the records say of the stages. *)

Failed == \E s \in 1..Stages : receipt[s] = "FAILED"

(* A stage is begun on the verdicts of all stages before it. *)
LadderInv ==
  \A s \in 2..Stages : op[s] # "none" => \A r \in 1..(s - 1) : receipt[r] = "VERIFIED"

(* Traffic is withdrawn because a stage failed, and then nothing else happens. *)
WithdrawInv ==
  /\ op[0] # "none" =>
       /\ rollout \in {"ROLLING_BACK", "ROLLBACK_PENDING", "ROLLED_BACK", "AMBIGUOUS"}
       /\ rollout = "AMBIGUOUS" => op[0] = "AMBIGUOUS"
       /\ Failed
  /\ rollout \in {"VERIFICATION_FAILED", "ROLLING_BACK", "ROLLBACK_PENDING", "ROLLED_BACK"}
       => Failed

(* A handler that closes something has the receipt that allows it. *)
CloseInv ==
  /\ rollout = "PROMOTED" => receipt[Stages] = "VERIFIED"
  /\ rollout = "ROLLED_BACK" => receipt[0] = "VERIFIED"
  /\ \A t \in Ticks :
       /\ \A s \in 1..Stages : At(t, "closing", Fail(s)) => receipt[s] = "FAILED"
       /\ At(t, "closing", Finalize(0)) => receipt[0] = "VERIFIED"
       /\ pc[t] \in {"closing", "reclosing"} /\ call[t] = Finalize(Stages)
            => receipt[Stages] = "VERIFIED"

SealInv == \A e, f \in Effects : op[e] = "AMBIGUOUS" /\ op[f] = "AMBIGUOUS" => e = f

(* A raise that is still possible asks for traffic that is not there yet. *)
RaiseInv ==
  /\ generation = 0 => target = 0
  /\ \A t \in Ticks, e \in 1..Stages :
       pc[t] \in {"observed", "fenced"} /\ call[t] = Effect(e) /\ seen[t] = generation
         => target # e

StageInv == LadderInv /\ WithdrawInv /\ CloseInv /\ SealInv /\ RaiseInv

(* Which step begins an operation, gives it up, or ends the rollout. *)
LEMMA OpSources ==
  ASSUME TypeOK, OpsBegun, [Next]_vars, NEW e \in Effects
  PROVE  /\ op'[e] # "none" => op[e] # "none" \/ \E t \in Ticks : BeginEffect(t, e)
         /\ op'[e] = "AMBIGUOUS" => op[e] = "AMBIGUOUS" \/ \E t \in Ticks : MarkAmbiguous(t, e)
<1> DEFINE Goal ==
      /\ op'[e] # "none" => op[e] # "none" \/ \E t \in Ticks : BeginEffect(t, e)
      /\ op'[e] = "AMBIGUOUS" => op[e] = "AMBIGUOUS" \/ \E t \in Ticks : MarkAmbiguous(t, e)
<1>1. ASSUME NEW t \in Ticks, NEW f \in Effects, BeginEffect(t, f) PROVE Goal
  BY <1>1, BeginFacts DEF TypeOK
<1>2. ASSUME NEW t \in Ticks, NEW f \in Effects,
             \/ Fence(t, f) \/ RecordHandle(t, f) \/ Adopt(t, f) \/ Settle(t, f)
      PROVE  Goal
  <2>1. /\ op[f] \in Live
        /\ \E x \in {"ISSUED", "RECONCILING", "SUCCEEDED"} : op' = [op EXCEPT ![f] = x]
    BY <1>2 DEF Fence, RecordHandle, Adopt, Settle, MayFence, Unrecorded, MaySettle, Live
  <2> QED
    BY <2>1 DEF TypeOK, Live
<1>3. ASSUME NEW t \in Ticks, NEW f \in Effects, MarkAmbiguous(t, f) PROVE Goal
  <2>1. op[f] \in Live /\ op' = [op EXCEPT ![f] = "AMBIGUOUS"]
    BY <1>3 DEF MarkAmbiguous, MayMark, Live
  <2> QED
    BY <1>3, <2>1 DEF TypeOK, Live
<1>4. ASSUME NEW t \in Ticks,
             \/ Plan(t) \/ Finish(t) \/ StartRollout(t) \/ Answer(t)
             \/ FinalizeRollout(t) \/ FinalizeRollback(t)
             \/ \E f \in Effects : BeginVerify(t, f) \/ RecordReceipt(t, f)
             \/ \E s \in 1..Stages : RegisterFailure(t, s)
      PROVE  op' = op
  BY <1>4 DEF Plan, Finish, StartRollout, Answer, FinalizeRollout, FinalizeRollback,
              BeginVerify, RecordReceipt, RegisterFailure
<1>5. CASE UNCHANGED rows
  BY <1>5 DEF rows
<1>6. CASE \E t \in Ticks : RowStep(t)
  <2> HIDE DEF Goal
  <2>1. op' = op => Goal
    BY DEF Goal
  <2>2. Goal
    BY <2>1, <1>1, <1>2, <1>3, <1>4, <1>6 DEF RowStep
  <2> QED
    BY <2>2 DEF Goal
<1> QED
  BY <1>5, <1>6, RowSteps

LEMMA RolloutSources ==
  ASSUME TypeOK, OpsBegun, [Next]_vars
  PROVE  /\ rollout' = "PROMOTED" => rollout = "PROMOTED" \/ \E t \in Ticks : FinalizeRollout(t)
         /\ rollout' = "ROLLED_BACK" =>
              rollout = "ROLLED_BACK" \/ \E t \in Ticks : FinalizeRollback(t)
<1>1. ASSUME NEW t \in Ticks, NEW e \in Effects,
             BeginEffect(t, e) \/ Settle(t, e) \/ MarkAmbiguous(t, e)
      PROVE  rollout' \notin {"PROMOTED", "ROLLED_BACK"}
  BY <1>1, BeginFacts, UnderFacts DEF Settle, MarkAmbiguous
<1>2. ASSUME NEW t \in Ticks, StartRollout(t) \/ \E s \in 1..Stages : RegisterFailure(t, s)
      PROVE  rollout' = rollout \/ rollout' \notin {"PROMOTED", "ROLLED_BACK"}
  BY <1>2 DEF StartRollout, RegisterFailure
<1>3. ASSUME NEW t \in Ticks, FinalizeRollout(t) PROVE rollout' = "PROMOTED"
  BY <1>3 DEF FinalizeRollout
<1>4. ASSUME NEW t \in Ticks, FinalizeRollback(t) PROVE rollout' = "ROLLED_BACK"
  BY <1>4 DEF FinalizeRollback
<1>5. ASSUME NEW t \in Ticks,
             \/ Plan(t) \/ Finish(t) \/ Answer(t)
             \/ \E e \in Effects :
                  \/ Fence(t, e) \/ RecordHandle(t, e) \/ Adopt(t, e)
                  \/ BeginVerify(t, e) \/ RecordReceipt(t, e)
      PROVE  rollout' = rollout
  BY <1>5 DEF Plan, Finish, Answer, Fence, RecordHandle, Adopt, BeginVerify, RecordReceipt
<1>6. UNCHANGED rows => rollout' = rollout
  BY DEF rows
<1> QED
  BY <1>1, <1>2, <1>3, <1>4, <1>5, <1>6, RowSteps DEF RowStep

LEMMA LadderStep ==
  ASSUME TypeOK, RecordInv, LadderInv, [Next]_vars
  PROVE  LadderInv'
<1> SUFFICES ASSUME NEW s \in 2..Stages, op'[s] # "none", NEW r \in 1..(s - 1)
             PROVE  receipt'[r] = "VERIFIED"
  BY DEF LadderInv
<1>1. s \in Effects /\ r \in Effects /\ s - 1 \in Effects /\ s # 0 /\ s # 1
  BY ReleaseAssumption DEF Effects
<1>2. CASE op[s] # "none"
  BY <1>1, <1>2, ReceiptStays DEF LadderInv
<1>3. ASSUME NEW t \in Ticks, BeginEffect(t, s) PROVE receipt[r] = "VERIFIED"
  <2>1. PreparePromotion(s - 1)
    BY <1>1, <1>3 DEF BeginEffect, MayBegin
  <2>2. receipt[s - 1] = "VERIFIED"
    BY <2>1 DEF PreparePromotion, Judged
  <2>3. op[s - 1] # "none"
    BY <1>1, <2>2 DEF RecordInv, RecordsAgree, OperationsAgree
  <2>4. r = s - 1 \/ (s - 1 \in 2..Stages /\ r \in 1..((s - 1) - 1))
    BY ReleaseAssumption
  <2> QED
    BY <2>2, <2>3, <2>4 DEF LadderInv
<1> QED
  BY <1>1, <1>2, <1>3, OpSources, ReceiptStays DEF RecordInv

LEMMA WithdrawStep ==
  ASSUME TypeOK, RecordInv, WithdrawInv, CloseInv, [Next]_vars
  PROVE  WithdrawInv'
<1> USE EffectFacts
<1>0. Failed => Failed'
  BY ReceiptStays DEF Failed
<1>1. ASSUME NEW t \in Ticks, NEW e \in Effects, BeginEffect(t, e) PROVE WithdrawInv'
  BY <1>0, <1>1, BeginFacts, UnderFacts DEF RecordInv, WithdrawInv, TypeOK
<1>2. ASSUME NEW t \in Ticks, NEW e \in Effects,
             Fence(t, e) \/ RecordHandle(t, e) \/ Adopt(t, e)
      PROVE  WithdrawInv'
  <2>1. /\ op[e] \in Live /\ rollout' = rollout
        /\ \E x \in Live : op' = [op EXCEPT ![e] = x]
    BY <1>2 DEF Fence, RecordHandle, Adopt, MayFence, Unrecorded, Live
  <2> QED
    BY <1>0, <2>1 DEF WithdrawInv, TypeOK, Live
<1>3. ASSUME NEW t \in Ticks, NEW e \in Effects, Settle(t, e) PROVE WithdrawInv'
  BY <1>0, <1>3 DEF Settle, MaySettle, WithdrawInv, TypeOK
<1>4. ASSUME NEW t \in Ticks, NEW e \in Effects, MarkAmbiguous(t, e) PROVE WithdrawInv'
  <2>1. /\ rollout = Under(e) /\ rollout' = "AMBIGUOUS"
        /\ op' = [op EXCEPT ![e] = "AMBIGUOUS"]
    BY <1>4 DEF MarkAmbiguous, MayMark, RecordInv, RecordsAgree, OperationsAgree, InFlight, Live
  <2> QED
    BY <1>0, <2>1, UnderFacts DEF WithdrawInv, TypeOK
<1>5. ASSUME NEW t \in Ticks, NEW s \in 1..Stages, RegisterFailure(t, s) PROVE WithdrawInv'
  <2>1. /\ rollout = "CANARY_READY" /\ rollout' = "VERIFICATION_FAILED"
        /\ op' = op /\ receipt' = receipt
        /\ At(t, "closing", Fail(s))
    BY <1>5 DEF RegisterFailure, MayRegister
  <2>2. Failed
    BY <2>1 DEF CloseInv, Failed
  <2> QED
    BY <1>0, <2>1, <2>2 DEF WithdrawInv
<1>6. ASSUME NEW t \in Ticks, StartRollout(t) \/ FinalizeRollout(t) \/ FinalizeRollback(t)
      PROVE  WithdrawInv'
  BY <1>0, <1>6
  DEF StartRollout, FinalizeRollout, MayFinalize, FinalizeRollback, MayWithdraw, WithdrawInv
<1>7. ASSUME NEW t \in Ticks,
             Plan(t) \/ Finish(t) \/ Answer(t) \/ \E e \in Effects : BeginVerify(t, e) \/ RecordReceipt(t, e)
      PROVE  WithdrawInv'
  <2>1. UNCHANGED <<op, rollout>>
    BY <1>7 DEF Plan, Finish, Answer, BeginVerify, RecordReceipt
  <2> QED
    BY <1>0, <2>1 DEF WithdrawInv
<1>8. CASE UNCHANGED rows
  BY <1>0, <1>8 DEF rows, WithdrawInv
<1>9. CASE \E t \in Ticks : RowStep(t)
  BY <1>1, <1>2, <1>3, <1>4, <1>5, <1>6, <1>7, <1>9 DEF RowStep
<1> QED
  BY <1>8, <1>9, RowSteps

LEMMA CloseStep ==
  ASSUME TypeOK, RecordInv, CloseInv, [Next]_vars
  PROVE  CloseInv'
<1> USE EffectFacts
<1>1. ASSUME NEW u \in Ticks, pc'[u] \in {"closing", "reclosing"}
      PROVE  \/ pc'[u] = pc[u] /\ call'[u] = call[u]
             \/ \E k \in Commands : BeginClosing(u, k) /\ call'[u] = k
  <2>1. ASSUME NEW e \in Effects, Observe(u, e) \/ Fence(u, e) \/ Patch(u, e) \/ ObserveLost(u, e)
        PROVE  FALSE
    BY <2>1, <1>1 DEF Observe, Fence, Patch, ObserveLost, Goto, TypeOK
  <2>2. ASSUME NEW e \in Effects, ResumeEffect(u, e) PROVE FALSE
    <3> DEFINE step == CASE op[e] = "PREPARED" -> "observing"
                         [] e \in handle -> "polling"
                         [] OTHER -> "lost"
    <3>1. Deliver(u, Effect(e), step) /\ step \in {"observing", "polling", "lost"}
      BY <2>2 DEF ResumeEffect
    <3> HIDE DEF step
    <3> QED
      BY <1>1, <3>1 DEF Deliver, TypeOK
  <2>3. ASSUME NEW k \in Commands, BeginClosing(u, k) PROVE call'[u] = k
    BY <2>3 DEF BeginClosing, Deliver, TypeOK
  <2> QED
    BY <1>1, <2>1, <2>2, <2>3, HandlerStep DEF Posts
<1>2. ASSUME NEW u \in Ticks, NEW k \in Commands, BeginClosing(u, k)
      PROVE  /\ \A s \in 1..Stages : k = Fail(s) => receipt[s] = "FAILED"
             /\ k = Finalize(0) => receipt[0] = "VERIFIED"
             /\ k = Finalize(Stages) => receipt[Stages] = "VERIFIED"
  <2>1. Admits(k)
    BY <1>2 DEF BeginClosing
  <2>2. Finalize(0) # Finalize(Stages) /\ \A s : Start # Finalize(s)
    BY ReleaseAssumption DEF Finalize, Start
  <2>3. \A s, r : Fail(s) # Start /\ Fail(s) # Finalize(r)
    BY DEF Fail, Start, Finalize
  <2> QED
    BY <2>1, <2>2, <2>3, CommandFacts DEF Admits, Judged, RollbackJudged
<1>3. ASSUME NEW u \in Ticks
      PROVE  /\ \A s \in 1..Stages : At(u, "closing", Fail(s))' => receipt'[s] = "FAILED"
             /\ At(u, "closing", Finalize(0))' => receipt'[0] = "VERIFIED"
             /\ (pc[u] \in {"closing", "reclosing"} /\ call[u] = Finalize(Stages))'
                  => receipt'[Stages] = "VERIFIED"
  BY <1>1, <1>2, ReceiptStays DEF CloseInv, At
<1>4. ASSUME NEW t \in Ticks, FinalizeRollout(t) PROVE receipt[Stages] = "VERIFIED"
  BY <1>4 DEF FinalizeRollout, MayFinalize, CloseInv
<1>5. ASSUME NEW t \in Ticks, FinalizeRollback(t) PROVE receipt[0] = "VERIFIED"
  BY <1>5 DEF FinalizeRollback, CloseInv
<1>6. rollout' = "PROMOTED" => receipt'[Stages] = "VERIFIED"
  BY <1>4, RolloutSources, ReceiptStays DEF CloseInv, RecordInv
<1>7. rollout' = "ROLLED_BACK" => receipt'[0] = "VERIFIED"
  BY <1>5, RolloutSources, ReceiptStays DEF CloseInv, RecordInv
<1> QED
  BY <1>3, <1>6, <1>7 DEF CloseInv

(* Nothing was given up before: the rollout was still under way. *)
LEMMA MarkFacts ==
  ASSUME TypeOK, RecordInv, NEW t \in Ticks, NEW e \in Effects, MarkAmbiguous(t, e)
  PROVE  /\ \A f \in Effects : op[f] # "AMBIGUOUS"
         /\ op' = [op EXCEPT ![e] = "AMBIGUOUS"]
         /\ rollout \in {"ROLLING_BACK", "CANARY_DEPLOYING", "PROMOTING"}
         /\ rollout' = "AMBIGUOUS" /\ receipt' = receipt
<1>1. rollout = Under(e)
  BY DEF MarkAmbiguous, MayMark, RecordInv, RecordsAgree, OperationsAgree, InFlight, Live
<1>2. rollout \in {"ROLLING_BACK", "CANARY_DEPLOYING", "PROMOTING"}
  BY <1>1, UnderFacts
<1>3. \A f \in Effects : op[f] # "AMBIGUOUS"
  BY <1>2 DEF RecordInv, RecordsAgree, OperationsAgree
<1> QED
  BY <1>2, <1>3 DEF MarkAmbiguous

LEMMA SealStep ==
  ASSUME TypeOK, RecordInv, SealInv, [Next]_vars
  PROVE  SealInv'
<1> SUFFICES ASSUME NEW e \in Effects, NEW f \in Effects,
                    op'[e] = "AMBIGUOUS", op'[f] = "AMBIGUOUS"
             PROVE  e = f
  BY DEF SealInv
<1>1. ASSUME NEW t \in Ticks, NEW g \in Effects, MarkAmbiguous(t, g) PROVE e = g /\ f = g
  BY <1>1, MarkFacts DEF TypeOK
<1> QED
  BY <1>1, OpSources DEF SealInv, RecordInv

LEMMA RaiseStep ==
  ASSUME TypeOK, EtagInv, RaiseInv, [Next]_vars
  PROVE  RaiseInv'
<1>1. generation \in Nat /\ \A t \in Ticks : seen[t] \in Nat /\ seen[t] <= generation
  BY DEF TypeOK, EtagInv
<1>2. \/ generation' = generation /\ target' = target
      \/ generation' = generation + 1
  BY CloudStep DEF Patch
<1>3. generation' = 0 => target' = 0
  BY <1>1, <1>2 DEF RaiseInv
<1>4. ASSUME NEW u \in Ticks, NEW e \in 1..Stages,
             pc'[u] \in {"observed", "fenced"}, call'[u] = Effect(e), seen'[u] = generation'
      PROVE  target' # e
  <2>1. CASE /\ pc[u] \in {"observed", "fenced"} /\ call[u] = Effect(e)
             /\ seen'[u] = seen[u]
    BY <1>1, <1>2, <1>4, <2>1 DEF RaiseInv
  <2>2. ASSUME NEW f \in Effects, Observe(u, f) PROVE target' # e
    <3>1. f = e /\ target' = target /\ e \in Effects /\ e # 0
      BY <1>4, <2>2, CommandFacts, EffectFacts DEF Observe, At, cloud
    <3>2. Unchanged(e)
      BY <2>2, <3>1 DEF Observe
    <3>3. (e = 1 /\ generation = 0) \/ (e # 1 /\ target = e - 1)
      BY <3>1, <3>2 DEF Unchanged
    <3> QED
      BY <3>1, <3>3, ReleaseAssumption DEF RaiseInv
  <2>3. ASSUME NEW f \in Effects, Fence(u, f)
        PROVE  /\ pc[u] \in {"observed", "fenced"} /\ call[u] = Effect(e)
               /\ seen'[u] = seen[u]
    BY <1>4, <2>3 DEF Fence, At, Goto
  <2>4. ASSUME NEW f \in Effects, Patch(u, f) \/ ObserveLost(u, f) PROVE FALSE
    BY <1>4, <2>4 DEF Patch, ObserveLost, Goto, TypeOK
  <2>5. ASSUME NEW f \in Effects, ResumeEffect(u, f) PROVE FALSE
    <3> DEFINE step == CASE op[f] = "PREPARED" -> "observing"
                         [] f \in handle -> "polling"
                         [] OTHER -> "lost"
    <3>1. Deliver(u, Effect(f), step) /\ step \in {"observing", "polling", "lost"}
      BY <2>5 DEF ResumeEffect
    <3> HIDE DEF step
    <3> QED
      BY <1>4, <3>1 DEF Deliver, TypeOK
  <2>6. ASSUME NEW k \in Commands, BeginClosing(u, k) PROVE FALSE
    BY <1>4, <2>6 DEF BeginClosing, Deliver, TypeOK
  <2> QED
    BY <1>4, <2>1, <2>2, <2>3, <2>4, <2>5, <2>6, HandlerStep DEF Posts
<1> QED
  BY <1>3, <1>4 DEF RaiseInv

LEMMA StageInvariant == Spec => []StageInv
<1>1. Init => StageInv
  BY EffectFacts
  DEF Init, StageInv, LadderInv, WithdrawInv, CloseInv, SealInv, RaiseInv, Effects, At
<1>2. TypeOK /\ RecordInv /\ EtagInv /\ StageInv /\ [Next]_vars => StageInv'
  BY LadderStep, WithdrawStep, CloseStep, SealStep, RaiseStep DEF StageInv
<1> QED
  BY <1>1, <1>2, TypeCorrect, RecordInvariant, FenceInvariant, PTL DEF Spec

(* The states of the abstract release. *)
LEMMA OutcomeFacts ==
  /\ rollout = "PROMOTED" => Outcome = "promoted"
  /\ rollout = "ROLLED_BACK" => Outcome = "withdrawn"
  /\ rollout \notin {"PROMOTED", "ROLLED_BACK"} => Outcome = "open"
<1>1. CASE rollout = "PROMOTED"
  BY <1>1 DEF Outcome
<1>2. CASE rollout = "ROLLED_BACK"
  BY <1>2 DEF Outcome
<1>3. CASE rollout \notin {"PROMOTED", "ROLLED_BACK"}
  BY <1>3 DEF Outcome
<1> QED
  BY <1>1, <1>2, <1>3

LEMMA OutcomeFactsPrimed ==
  /\ rollout' = "PROMOTED" => Outcome' = "promoted"
  /\ rollout' = "ROLLED_BACK" => Outcome' = "withdrawn"
  /\ rollout' \notin {"PROMOTED", "ROLLED_BACK"} => Outcome' = "open"
<1>1. CASE rollout' = "PROMOTED"
  BY <1>1 DEF Outcome
<1>2. CASE rollout' = "ROLLED_BACK"
  BY <1>2 DEF Outcome
<1>3. CASE rollout' \notin {"PROMOTED", "ROLLED_BACK"}
  BY <1>3 DEF Outcome
<1> QED
  BY <1>1, <1>2, <1>3

LEMMA SealedFacts ==
  ASSUME SealInv
  PROVE  /\ (\A e \in Effects : op[e] # "AMBIGUOUS") => Sealed = Stages + 1
         /\ \A e \in Effects : op[e] = "AMBIGUOUS" => Sealed = e
<1>1. (\A e \in Effects : op[e] # "AMBIGUOUS") => Unknowable = {}
  BY DEF Unknowable
<1>2. ASSUME NEW e \in Effects, op[e] = "AMBIGUOUS" PROVE Unknowable = {e}
  BY <1>2 DEF Unknowable, SealInv
<1> QED
  BY <1>1, <1>2 DEF Sealed

(* A PATCH the provider accepts raises a stage or withdraws the release. *)
LEMMA PatchRaises ==
  ASSUME TypeOK, RecordInv, FenceInv, EtagInv, StageInv,
         NEW t \in Ticks, NEW e \in Effects, Patch(t, e)
  PROVE  IF e = 0 THEN Exposure!Withdraw ELSE Exposure!Raise(e)
<1> USE EffectFacts
<1>1. Fenced(t, e) /\ seen[t] = generation /\ Claimed(e)
  BY DEF Patch, CanPatch, Fenced, FenceInv, At
<1>2. UNCHANGED <<op, receipt, rollout>> /\ sent' = [sent EXCEPT ![e] = @ + 1]
  BY DEF Patch, rows
<1>3. Raised' = Raised \cup {e}
  BY <1>2 DEF Raised, TypeOK
<1>4. Sealed' = Sealed /\ Outcome' = Outcome
  BY <1>2 DEF Sealed, Unknowable, Outcome
<1>5. CASE e = 0
  <2>1. /\ op[0] # "none"
        /\ rollout \in {"ROLLING_BACK", "ROLLBACK_PENDING", "ROLLED_BACK", "AMBIGUOUS"}
        /\ rollout = "AMBIGUOUS" => op[0] = "AMBIGUOUS"
        /\ Failed
    BY <1>1, <1>5 DEF Claimed, StageInv, WithdrawInv
  <2>2. Outcome # "promoted"
    BY <2>1, OutcomeFacts
  <2>3. Sealed \in {0, Stages + 1}
    <3>1. \A f \in Effects : op[f] = "AMBIGUOUS" => f = 0
      BY <2>1 DEF RecordInv, RecordsAgree, OperationsAgree, StageInv, SealInv
    <3> QED
      BY <3>1, SealedFacts DEF StageInv
  <2> QED
    BY <1>2, <1>3, <1>4, <1>5, <2>1, <2>2, <2>3 DEF Failed, Exposure!Withdraw, Exposure!Nobody
<1>6. CASE e # 0
  <2>1. e \in 1..Stages /\ op[e] \in {"ISSUED", "AMBIGUOUS"}
    BY <1>1, <1>6 DEF EtagInv, StageInv, RaiseInv, Fenced, At
  <2>2. op[0] = "none"
    BY <1>6, <2>1, UnderFacts
    DEF RecordInv, RecordsAgree, OperationsAgree, InFlight, Live, StageInv, WithdrawInv, SealInv
  <2>3. 0 \notin Raised
    BY <2>2 DEF FenceInv, Claimed, Raised
  <2>4. Outcome = "open"
    <3>1. rollout = Under(e) \/ rollout = "AMBIGUOUS"
      BY <2>1 DEF RecordInv, RecordsAgree, OperationsAgree, InFlight, Live
    <3> QED
      BY <3>1, UnderFacts, OutcomeFacts
  <2>5. Sealed \in {e, Stages + 1}
    <3>1. CASE op[e] = "AMBIGUOUS"
      BY <3>1, SealedFacts DEF StageInv
    <3>2. CASE op[e] = "ISSUED"
      <4>1. rollout = Under(e)
        BY <3>2 DEF RecordInv, RecordsAgree, OperationsAgree, InFlight, Live
      <4>2. \A f \in Effects : op[f] # "AMBIGUOUS"
        BY <4>1, UnderFacts DEF RecordInv, RecordsAgree, OperationsAgree
      <4> QED
        BY <4>2, SealedFacts DEF StageInv
    <3> QED
      BY <2>1, <3>1, <3>2
  <2>6. ASSUME NEW before \in 1..(e - 1) PROVE receipt[before] = "VERIFIED"
    <3>1. e \in 2..Stages
      BY <2>1, <2>6
    <3> QED
      BY <1>1, <2>6, <3>1 DEF Claimed, StageInv, LadderInv
  <2>7. ASSUME NEW later \in e..Stages, receipt[later] = "FAILED" PROVE FALSE
    <3>1. later \in Effects
      BY <2>1, <2>7 DEF Effects
    <3>2. op[later] = "SUCCEEDED"
      BY <2>7, <3>1 DEF RecordInv, RecordsAgree, OperationsAgree
    <3>3. later \in 2..Stages /\ e \in 1..(later - 1)
      BY <2>1, <3>2, <2>7
    <3>4. receipt[e] = "VERIFIED"
      BY <3>2, <3>3 DEF StageInv, LadderInv
    <3> QED
      BY <2>1, <3>4 DEF RecordInv, RecordsAgree, OperationsAgree
  <2> QED
    BY <1>2, <1>3, <1>4, <1>6, <2>3, <2>4, <2>5, <2>6, <2>7
    DEF Exposure!Raise, Exposure!MayReach, Exposure!Nobody
<1> QED
  BY <1>5, <1>6

LEMMA ReceiptJudges ==
  ASSUME TypeOK, RecordInv, StageInv, NEW t \in Ticks, NEW s \in Effects, RecordReceipt(t, s)
  PROVE  \E result \in {"VERIFIED", "FAILED"} : Exposure!Judge(s, result)
<1> USE EffectFacts
<1>1. PICK result \in {"VERIFIED", "FAILED"} : receipt' = [receipt EXCEPT ![s] = result]
  BY DEF RecordReceipt
<1>2. UNCHANGED <<op, rollout, sent>> /\ receipt[s] = "none" /\ op[s] = "SUCCEEDED"
  BY DEF RecordReceipt, cloud, RecordInv, HandlersAgree, Claims
<1>3. Raised' = Raised /\ Sealed' = Sealed /\ Outcome' = Outcome
  BY <1>2 DEF Raised, Sealed, Unknowable, Outcome
<1>4. s > 0 => \A before \in 1..Stages : receipt[before] # "FAILED"
  <2> SUFFICES ASSUME s > 0, NEW before \in 1..Stages, receipt[before] = "FAILED" PROVE FALSE
    OBVIOUS
  <2>1. op[before] = "SUCCEEDED"
    BY DEF RecordInv, RecordsAgree, OperationsAgree
  <2>2. CASE before < s
    <3>1. s \in 2..Stages /\ before \in 1..(s - 1)
      BY <2>2 DEF Effects
    <3> QED
      BY <1>2, <3>1 DEF StageInv, LadderInv
  <2>3. CASE s < before
    <3>1. before \in 2..Stages /\ s \in 1..(before - 1)
      BY <2>3
    <3> QED
      BY <1>2, <2>1, <3>1 DEF StageInv, LadderInv
  <2>4. CASE s = before
    BY <1>2, <2>4
  <2> QED
    BY <2>2, <2>3, <2>4
<1>5. rollout # "PROMOTED"
  <2>1. CASE s = 0
    BY <1>2, <2>1 DEF StageInv, WithdrawInv
  <2>2. CASE s # 0
    <3> SUFFICES ASSUME rollout = "PROMOTED" PROVE FALSE
      OBVIOUS
    <3>1. receipt[Stages] = "VERIFIED" /\ op[Stages] # "none" /\ Stages \in 2..Stages
      BY ReleaseAssumption
      DEF StageInv, CloseInv, RecordInv, RecordsAgree, OperationsAgree
    <3>2. s = Stages \/ s \in 1..(Stages - 1)
      BY <2>2, ReleaseAssumption DEF Effects
    <3> QED
      BY <1>2, <3>1, <3>2 DEF StageInv, LadderInv
  <2> QED
    BY <2>1, <2>2
<1>6. rollout # "ROLLED_BACK"
  <2>1. CASE s = 0
    BY <1>2, <2>1 DEF StageInv, CloseInv
  <2>2. CASE s # 0
    <3>1. s > 0
      BY <2>2
    <3> QED
      BY <1>4, <3>1 DEF StageInv, WithdrawInv, Failed
  <2> QED
    BY <2>1, <2>2
<1> QED
  BY <1>1, <1>2, <1>3, <1>4, <1>5, <1>6, OutcomeFacts DEF Exposure!Judge

LEMMA AmbiguitySeals ==
  ASSUME TypeOK, RecordInv, StageInv, NEW t \in Ticks, NEW e \in Effects,
         MarkAmbiguous(t, e)
  PROVE  Exposure!Seal(e)
<1>1. Sealed = Stages + 1
  BY MarkFacts, SealedFacts DEF StageInv
<1>2. Sealed' = e
  <2>1. Unknowable' = {e}
    BY MarkFacts DEF Unknowable, TypeOK
  <2> QED
    BY <2>1 DEF Sealed
<1>3. Outcome = "open" /\ Outcome' = "open"
  BY MarkFacts, OutcomeFacts, OutcomeFactsPrimed
<1>4. Raised' = Raised /\ receipt' = receipt
  BY DEF MarkAmbiguous, cloud, Raised
<1> QED
  BY <1>1, <1>2, <1>3, <1>4 DEF Exposure!Seal, Exposure!Nobody

LEMMA FinalizationCloses ==
  ASSUME TypeOK, RecordInv, StageInv, NEW t \in Ticks, FinalizeRollout(t) \/ FinalizeRollback(t)
  PROVE  [Exposure!Next]_(Exposure!vars)
<1>1. Raised' = Raised /\ receipt' = receipt /\ Sealed' = Sealed
  <2>1. UNCHANGED <<op, receipt, sent>>
    BY DEF FinalizeRollout, FinalizeRollback, cloud
  <2> QED
    BY <2>1 DEF Raised, Sealed, Unknowable
<1>2. CASE rollout = "PROMOTED" /\ FinalizeRollout(t)
  <2>1. Outcome' = Outcome
    BY <1>2 DEF FinalizeRollout, Outcome
  <2> QED
    BY <1>1, <2>1 DEF Exposure!vars
<1>3. CASE rollout = "CANARY_READY" /\ FinalizeRollout(t)
  <2>1. Outcome = "open" /\ Outcome' = "promoted"
    BY <1>3, OutcomeFacts, OutcomeFactsPrimed DEF FinalizeRollout
  <2>2. \A e \in Effects : op[e] # "AMBIGUOUS"
    BY <1>3 DEF RecordInv, RecordsAgree, OperationsAgree
  <2>3. receipt[Stages] = "VERIFIED"
    BY <1>3 DEF FinalizeRollout, MayFinalize, StageInv, CloseInv
  <2>4. ASSUME NEW s \in 1..Stages PROVE receipt[s] = "VERIFIED"
    <3>1. op[Stages] # "none" /\ Stages \in 2..Stages
      BY <2>3, EffectFacts, ReleaseAssumption DEF RecordInv, RecordsAgree, OperationsAgree
    <3>2. s = Stages \/ s \in 1..(Stages - 1)
      BY ReleaseAssumption
    <3> QED
      BY <2>3, <3>1, <3>2 DEF StageInv, LadderInv
  <2>5. Sealed = Stages + 1
    BY <2>2, SealedFacts DEF StageInv
  <2> QED
    BY <1>1, <2>1, <2>4, <2>5 DEF Exposure!Next, Exposure!Close, Exposure!Nobody
<1>4. CASE FinalizeRollback(t)
  <2>1. rollout = "ROLLBACK_PENDING" /\ rollout' = "ROLLED_BACK" /\ receipt[0] = "VERIFIED"
    BY <1>4 DEF FinalizeRollback, MayWithdraw, StageInv, CloseInv
  <2>2. Outcome = "open" /\ Outcome' = "withdrawn"
    BY <2>1, OutcomeFacts, OutcomeFactsPrimed
  <2>3. \A e \in Effects : op[e] # "AMBIGUOUS"
    BY <2>1 DEF RecordInv, RecordsAgree, OperationsAgree
  <2>4. Sealed = Stages + 1
    BY <2>3, SealedFacts DEF StageInv
  <2> QED
    BY <1>1, <2>1, <2>2, <2>4 DEF Exposure!Next, Exposure!Close, Exposure!Nobody
<1>5. FinalizeRollout(t) => rollout \in {"PROMOTED", "CANARY_READY"}
  BY DEF FinalizeRollout, MayFinalize
<1> QED
  BY <1>2, <1>3, <1>4, <1>5

(* All other steps leave the abstract release as it is. *)
LEMMA OtherwiseStutters ==
  ASSUME TypeOK, RecordInv, StageInv, [Next]_vars,
         \A t \in Ticks :
           /\ ~FinalizeRollout(t) /\ ~FinalizeRollback(t)
           /\ \A e \in Effects : ~Patch(t, e) /\ ~RecordReceipt(t, e) /\ ~MarkAmbiguous(t, e)
  PROVE  UNCHANGED Exposure!vars
<1>1. Raised' = Raised
  <2>1. sent' = sent
    BY CloudStep
  <2> QED
    BY <2>1 DEF Raised
<1>2. Sealed' = Sealed
  <2>1. \A e \in Effects : op'[e] = "AMBIGUOUS" <=> op[e] = "AMBIGUOUS"
    BY OpSources, OperationSettledOnce DEF RecordInv
  <2>2. Unknowable' = Unknowable
    BY <2>1 DEF Unknowable
  <2> QED
    BY <2>2 DEF Sealed
<1>3. receipt' = receipt
  <2>1. ASSUME NEW t \in Ticks, RowStep(t) PROVE receipt' = receipt
    BY <2>1 DEF RowStep, Plan, Finish, StartRollout, Answer, BeginEffect, Fence, RecordHandle,
                Adopt, Settle, BeginVerify, RegisterFailure
  <2>2. UNCHANGED rows => receipt' = receipt
    BY DEF rows
  <2> QED
    BY <2>1, <2>2, RowSteps
<1>4. Outcome' = Outcome
  <2>1. /\ rollout' = "PROMOTED" <=> rollout = "PROMOTED"
        /\ rollout' = "ROLLED_BACK" <=> rollout = "ROLLED_BACK"
    BY RolloutSources, FinalStays DEF RecordInv, Final
  <2> QED
    BY <2>1, OutcomeFacts, OutcomeFactsPrimed
<1> QED
  BY <1>1, <1>2, <1>3, <1>4 DEF Exposure!vars

\* The coordinator, the controller and the verifier, with all that can happen
\* to their messages and to the target, keep the promise of StagedExposure: a
\* stage reaches production only on the verdict before it, a failed release is
\* withdrawn and never raised again, an operation nobody can account for is the
\* last one, and the release closes on the verdicts it needs.
THEOREM RolloutImplementsExposure == Spec => ImplementsExposure
<1>1. Init => Exposure!Init
  <2> SUFFICES ASSUME Init PROVE Exposure!Init
    OBVIOUS
  <2>1. Raised = {} /\ Unknowable = {}
    BY DEF Init, Raised, Unknowable
  <2>2. Sealed = Stages + 1
    BY <2>1 DEF Sealed
  <2>3. Outcome = "open"
    BY OutcomeFacts DEF Init
  <2> QED
    BY <2>1, <2>2, <2>3 DEF Init, Effects, Exposure!Init, Exposure!Nobody
<1>2. TypeOK /\ RecordInv /\ FenceInv /\ EtagInv /\ StageInv /\ [Next]_vars
        => [Exposure!Next]_(Exposure!vars)
  <2> SUFFICES ASSUME TypeOK, RecordInv, FenceInv, EtagInv, StageInv, [Next]_vars
               PROVE  [Exposure!Next]_(Exposure!vars)
    OBVIOUS
  <2>1. ASSUME NEW t \in Ticks, NEW e \in Effects, Patch(t, e) PROVE Exposure!Next
    BY <2>1, PatchRaises, EffectFacts DEF Exposure!Next
  <2>2. ASSUME NEW t \in Ticks, NEW s \in Effects, RecordReceipt(t, s) PROVE Exposure!Next
    BY <2>2, ReceiptJudges DEF Exposure!Next, Effects
  <2>3. ASSUME NEW t \in Ticks, NEW e \in Effects, MarkAmbiguous(t, e) PROVE Exposure!Next
    BY <2>3, AmbiguitySeals DEF Exposure!Next, Effects, StageInv
  <2> QED
    BY <2>1, <2>2, <2>3, FinalizationCloses, OtherwiseStutters
<1> QED
  BY <1>1, <1>2, TypeCorrect, RecordInvariant, FenceInvariant, StageInvariant, PTL
  DEF Spec, ImplementsExposure, Exposure!Spec

===============================================================================
