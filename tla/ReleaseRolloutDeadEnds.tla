------------------------ MODULE ReleaseRolloutDeadEnds ------------------------
(***************************************************************************)
(* States a release does not get out of by itself, for any number of       *)
(* stages and any drift, provider failure or timeout.                      *)
(***************************************************************************)
EXTENDS ReleaseRolloutProofs

(* The next tick begins when the one before is over and its handlers are, and
   no handler dies: what a careful operator would want of a scheduler. *)
Sequential == "stop" \notin Faults /\ \A t, u \in Ticks : t = u

-------------------------------------------------------------------------------
(* Which step writes what. *)

(* A command is prepared by a plan that proposes it. *)
LEMMA CommandSources ==
  ASSUME TypeOK, [Next]_vars, NEW k \in Commands, command[k] = "none", command'[k] # "none"
  PROVE  \E t \in Ticks : Plan(t) /\ Candidate(k)
<1> USE CommandFacts, EffectFacts
<1> DEFINE Proposed == \E t \in Ticks : Plan(t) /\ Candidate(k)
<1>1. ASSUME NEW j \in Commands, NEW x, command[j] \in Open, command' = [command EXCEPT ![j] = x]
      PROVE  Proposed
  BY <1>1 DEF TypeOK, Open
<1>2. ASSUME NEW t \in Ticks, Plan(t) PROVE Proposed
  BY <1>2 DEF Plan
<1> HIDE DEF Proposed
<1>3. ASSUME NEW t \in Ticks, StartRollout(t) PROVE Proposed
  BY <1>1, <1>3 DEF StartRollout, Issued
<1>4. ASSUME NEW t \in Ticks, Answer(t) PROVE Proposed
  <2>1. command'[k] # "none" => command[k] # "none"
    BY <1>4 DEF Answer, TypeOK, Open
  <2> QED
    BY <2>1
<1>5. ASSUME NEW t \in Ticks, FinalizeRollout(t) PROVE Proposed
  <2>1. CASE command[Finalize(Stages)] = "PREPARED"
    BY <1>1, <1>5, <2>1 DEF FinalizeRollout, Issued, Open
  <2>2. CASE command[Finalize(Stages)] # "PREPARED"
    BY <1>5, <2>2 DEF FinalizeRollout
  <2> QED
    BY <2>1, <2>2
<1>6. ASSUME NEW t \in Ticks, FinalizeRollback(t) PROVE Proposed
  BY <1>1, <1>6 DEF FinalizeRollback, MayWithdraw, Open
<1>7. ASSUME NEW t \in Ticks, NEW e \in Effects, BeginEffect(t, e) PROVE Proposed
  BY <1>1, <1>7 DEF BeginEffect, MayBegin, Issued, Open
<1>8. ASSUME NEW t \in Ticks, NEW e \in Effects, MarkAmbiguous(t, e) PROVE Proposed
  BY <1>1, <1>8 DEF MarkAmbiguous, MayMark
<1>9. ASSUME NEW t \in Ticks, NEW e \in Effects, BeginVerify(t, e) PROVE Proposed
  BY <1>1, <1>9 DEF BeginVerify, MayVerify, Issued
<1>10. ASSUME NEW t \in Ticks, NEW s \in 1..Stages, RegisterFailure(t, s) PROVE Proposed
  BY <1>1, <1>10 DEF RegisterFailure, MayRegister, Open
<1>11. ASSUME NEW t \in Ticks,
              \/ Finish(t)
              \/ \E e \in Effects :
                   \/ Fence(t, e) \/ RecordHandle(t, e) \/ Adopt(t, e)
                   \/ Settle(t, e) \/ RecordReceipt(t, e)
       PROVE  Proposed
  BY <1>11 DEF Finish, Fence, RecordHandle, Adopt, Settle, RecordReceipt
<1>12. CASE UNCHANGED rows
  BY <1>12 DEF rows
<1>13. (\E t \in Ticks : RowStep(t)) => Proposed
  BY <1>2, <1>3, <1>4, <1>5, <1>6, <1>7, <1>8, <1>9, <1>10, <1>11 DEF RowStep
<1> QED
  BY <1>12, <1>13, RowSteps DEF Proposed

(* An operation succeeds by its settlement. *)
LEMMA SettleSources ==
  ASSUME TypeOK, [Next]_vars, NEW e \in Effects, op'[e] = "SUCCEEDED"
  PROVE  op[e] = "SUCCEEDED" \/ \E t \in Ticks : Settle(t, e)
<1> DEFINE Goal == op[e] = "SUCCEEDED" \/ \E t \in Ticks : Settle(t, e)
<1>1. ASSUME NEW t \in Ticks, NEW f \in Effects,
             BeginEffect(t, f) \/ Fence(t, f) \/ RecordHandle(t, f) \/ Adopt(t, f)
               \/ MarkAmbiguous(t, f)
      PROVE  Goal
  <2>1. \E x \in {"PREPARED", "ISSUED", "RECONCILING", "AMBIGUOUS"} :
          op' = [op EXCEPT ![f] = x]
    BY <1>1 DEF BeginEffect, Fence, RecordHandle, Adopt, MarkAmbiguous
  <2> QED
    BY <2>1 DEF TypeOK
<1>2. ASSUME NEW t \in Ticks, NEW f \in Effects, Settle(t, f) PROVE Goal
  <2>1. op' = [op EXCEPT ![f] = "SUCCEEDED"]
    BY <1>2 DEF Settle
  <2> QED
    BY <1>2, <2>1 DEF TypeOK
<1>3. ASSUME NEW t \in Ticks,
             \/ Plan(t) \/ Finish(t) \/ StartRollout(t) \/ Answer(t)
             \/ FinalizeRollout(t) \/ FinalizeRollback(t)
             \/ \E f \in Effects : BeginVerify(t, f) \/ RecordReceipt(t, f)
             \/ \E s \in 1..Stages : RegisterFailure(t, s)
      PROVE  op' = op
  BY <1>3 DEF Plan, Finish, StartRollout, Answer, FinalizeRollout, FinalizeRollback,
              BeginVerify, RecordReceipt, RegisterFailure
<1> HIDE DEF Goal
<1>4. op' = op => Goal
  BY DEF Goal
<1>5. UNCHANGED rows => op' = op
  BY DEF rows
<1>6. (\E t \in Ticks : RowStep(t)) => Goal
  BY <1>1, <1>2, <1>3, <1>4 DEF RowStep
<1> QED
  BY <1>4, <1>5, <1>6, RowSteps DEF Goal

(* A receipt is written by the handler of its verification. *)
LEMMA ReceiptSources ==
  ASSUME TypeOK, [Next]_vars, NEW s \in Effects, receipt[s] = "none", receipt'[s] # "none"
  PROVE  \E t \in Ticks : call[t] = Verify(s)
<1>1. ASSUME NEW t \in Ticks, NEW e \in Effects, RecordReceipt(t, e)
      PROVE  call[t] = Verify(e) /\ \E x : receipt' = [receipt EXCEPT ![e] = x]
  BY <1>1 DEF RecordReceipt
<1>2. ASSUME NEW t \in Ticks,
             \/ Plan(t) \/ Finish(t) \/ StartRollout(t) \/ Answer(t)
             \/ FinalizeRollout(t) \/ FinalizeRollback(t)
             \/ \E e \in Effects :
                  \/ BeginEffect(t, e) \/ Fence(t, e) \/ RecordHandle(t, e) \/ Adopt(t, e)
                  \/ Settle(t, e) \/ MarkAmbiguous(t, e) \/ BeginVerify(t, e)
             \/ \E r \in 1..Stages : RegisterFailure(t, r)
      PROVE  receipt' = receipt
  BY <1>2 DEF Plan, Finish, StartRollout, Answer, FinalizeRollout, FinalizeRollback,
              BeginEffect, Fence, RecordHandle, Adopt, Settle, MarkAmbiguous, BeginVerify,
              RegisterFailure
<1>3. UNCHANGED rows => receipt' = receipt
  BY DEF rows
<1>4. CASE \E t \in Ticks : RowStep(t)
  BY <1>1, <1>2, <1>4 DEF RowStep, TypeOK
<1> QED
  BY <1>3, <1>4, RowSteps

(* Deadlines pass for good; an operation keeps its provider handle. *)
LEMMA DeadlinesStay == [Next]_vars => expired \subseteq expired'
<1> SUFFICES ASSUME [Next]_vars PROVE expired \subseteq expired'
  OBVIOUS
<1>1. ASSUME NEW t \in Ticks, Receive(t) PROVE UNCHANGED world
  BY <1>1 DEF Receive, StartRollout, Replay, Refuse, BeginClosing, BeginEffect, ResumeEffect,
              AnswerSettled, BeginVerify
<1>2. ASSUME NEW t \in Ticks, Work(t) PROVE UNCHANGED world
  <2>1. ASSUME NEW e \in Effects,
               \/ Observe(t, e) \/ Fence(t, e) \/ Patch(t, e) \/ RecordHandle(t, e)
               \/ ObserveLost(t, e) \/ Adopt(t, e) \/ Poll(t, e)
               \/ Settle(t, e) \/ MarkAmbiguous(t, e) \/ Judge(t, e) \/ RecordReceipt(t, e)
        PROVE  UNCHANGED world
    BY <2>1 DEF Observe, Fence, Patch, RecordHandle, ObserveLost, Adopt, Poll, Settle,
                MarkAmbiguous, Judge, RecordReceipt
  <2>2. ASSUME \/ Answer(t) \/ FinalizeRollout(t) \/ FinalizeRollback(t) \/ Conflict(t)
               \/ \E s \in 1..Stages : RegisterFailure(t, s)
        PROVE  UNCHANGED world
    BY <2>2 DEF Answer, FinalizeRollout, FinalizeRollback, Conflict, RegisterFailure
  <2> QED
    BY <1>2, <2>1, <2>2 DEF Work
<1>3. ASSUME NEW t \in Ticks, Plan(t) \/ TurnToVerifier(t) \/ Finish(t) PROVE UNCHANGED world
  BY <1>3 DEF Plan, TurnToVerifier, Finish
<1>4. CASE Environment
  BY <1>4 DEF Environment, Approve, Expire, ProviderDone, ProviderFail, Stop, Abandon, Drift,
              Fault, world
<1>5. CASE UNCHANGED vars
  BY <1>5 DEF vars, world
<1> QED
  BY <1>1, <1>2, <1>3, <1>4, <1>5 DEF Next, world

(* How a tick moves through its queues. *)
LEMMA TickStep ==
  ASSUME TypeOK, [Next]_vars, NEW u \in Ticks
  PROVE  \/ /\ queue'[u] \subseteq queue[u]
            /\ call'[u] \in queue[u] \cup {call[u], None}
            /\ phase'[u] \in {phase[u], "idle"}
         \/ Plan(u) /\ UNCHANGED handler
         \/ TurnToVerifier(u) /\ UNCHANGED handler
<1> USE CommandFacts, EffectFacts
<1> DEFINE Drains == /\ queue'[u] \subseteq queue[u]
                     /\ call'[u] \in queue[u] \cup {call[u], None}
                     /\ phase'[u] \in {phase[u], "idle"}
<1>1. UNCHANGED <<tick, handler>> => Drains
  BY DEF tick, handler
<1>2. ASSUME NEW t \in Ticks, Rest(t) \/ UNCHANGED call, EndTick(t) \/ UNCHANGED tick PROVE Drains
  BY <1>2 DEF Rest, EndTick, tick, TypeOK
<1>3. ASSUME NEW t \in Ticks, NEW k \in Commands, NEW step, Deliver(t, k, step) PROVE Drains
  BY <1>3 DEF Deliver, TypeOK
<1>4. ASSUME NEW t \in Ticks, NEW k \in Commands, Replay(t, k) PROVE Drains
  BY <1>4 DEF Replay, handler, TypeOK
<1>5. ASSUME NEW t \in Ticks, Finish(t) PROVE Drains
  BY <1>5 DEF Finish, handler, TypeOK
<1>6. ASSUME NEW t \in Ticks, Plan(t) \/ TurnToVerifier(t)
      PROVE  Drains \/ (t = u /\ UNCHANGED handler)
  <2>1. CASE t = u
    BY <1>6, <2>1 DEF Plan, TurnToVerifier
  <2>2. CASE t # u
    BY <1>6, <2>2 DEF Plan, TurnToVerifier, handler, tick, TypeOK
  <2> QED
    BY <2>1, <2>2
<1> HIDE DEF Drains
<1>7. ASSUME NEW t \in Ticks, Receive(t) PROVE Drains
  <2>1. CASE StartRollout(t)
    BY <2>1, <1>3 DEF StartRollout
  <2>2. ASSUME NEW k \in Commands, Refuse(t, k) PROVE Drains
    BY <2>2, <1>2 DEF Refuse, handler
  <2>3. ASSUME NEW k \in Commands, BeginClosing(t, k) PROVE Drains
    BY <2>3, <1>3 DEF BeginClosing
  <2>4. ASSUME NEW e \in Effects,
               BeginEffect(t, e) \/ ResumeEffect(t, e) \/ AnswerSettled(t, e) \/ BeginVerify(t, e)
        PROVE  Drains
    BY <2>4, <1>3 DEF BeginEffect, ResumeEffect, AnswerSettled, BeginVerify
  <2> QED
    BY <1>4, <1>7, <2>1, <2>2, <2>3, <2>4 DEF Receive
<1>8. ASSUME NEW t \in Ticks, Work(t) PROVE Drains
  <2>1. CASE \/ Answer(t) \/ FinalizeRollout(t) \/ FinalizeRollback(t) \/ Conflict(t)
             \/ \E s \in 1..Stages : RegisterFailure(t, s)
    BY <2>1, <1>2 DEF Answer, FinalizeRollout, FinalizeRollback, Conflict, RegisterFailure,
                      Return, Raise, Goto
  <2>2. ASSUME NEW e \in Effects,
               \/ Observe(t, e) \/ Fence(t, e) \/ Patch(t, e) \/ RecordHandle(t, e)
               \/ ObserveLost(t, e) \/ Adopt(t, e) \/ Poll(t, e)
               \/ Settle(t, e) \/ MarkAmbiguous(t, e) \/ Judge(t, e) \/ RecordReceipt(t, e)
        PROVE  (Rest(t) \/ UNCHANGED call) /\ UNCHANGED tick
    BY <2>2 DEF Observe, Fence, Patch, RecordHandle, ObserveLost, Adopt, Poll, Settle,
                MarkAmbiguous, Judge, RecordReceipt, Return, Goto
  <2> QED
    BY <1>2, <1>8, <2>1, <2>2 DEF Work
<1>9. Environment => Drains
  <2> SUFFICES ASSUME Environment PROVE Drains
    OBVIOUS
  <2>1. ASSUME NEW t \in Ticks, Stop(t) \/ Abandon(t) PROVE Drains
    BY <2>1, <1>2 DEF Stop, Abandon, Raise, handler
  <2>2. (\E t \in Ticks : Stop(t) \/ Abandon(t)) \/ UNCHANGED <<tick, handler>>
    BY DEF Environment, Approve, Expire, ProviderDone, ProviderFail, Drift
  <2> QED
    BY <1>1, <2>1, <2>2
<1>10. UNCHANGED vars => Drains
  BY <1>1 DEF vars
<1> QED
  BY <1>5, <1>6, <1>7, <1>8, <1>9, <1>10 DEF Next, Drains

(* How a handler comes to settle and to poll, and leaves its answer. *)
LEMMA ArrivalStep ==
  ASSUME TypeOK, [Next]_vars, NEW u \in Ticks, NEW e \in Effects
  PROVE  /\ At(u, "settling", Effect(e))' =>
              At(u, "settling", Effect(e)) \/ Adopt(u, e) \/ Poll(u, e)
         /\ At(u, "polling", Effect(e))' => At(u, "polling", Effect(e)) \/ e \in handle
         /\ "stop" \notin Faults /\ At(u, "answering", Effect(e)) =>
              At(u, "answering", Effect(e))' \/ Answer(u)
<1> USE CommandFacts, EffectFacts DEF At
<1> DEFINE Arrives ==
      /\ At(u, "settling", Effect(e))' =>
           At(u, "settling", Effect(e)) \/ Adopt(u, e) \/ Poll(u, e)
      /\ At(u, "polling", Effect(e))' => At(u, "polling", Effect(e)) \/ e \in handle
      /\ "stop" \notin Faults /\ At(u, "answering", Effect(e)) =>
           At(u, "answering", Effect(e))' \/ Answer(u)
<1>1. UNCHANGED handler => Arrives
  BY DEF handler
<1>2. ASSUME NEW t \in Ticks, Rest(t), pc[t] # "answering" \/ Answer(t) PROVE Arrives
  BY <1>2 DEF Rest, TypeOK
<1>3. ASSUME NEW t \in Ticks, NEW step, NEW k, pc[t] # "answering",
             pc' = [pc EXCEPT ![t] = step], call' = call \/ call' = [call EXCEPT ![t] = k],
             step \notin {"settling", "polling"}
      PROVE  Arrives
  BY <1>3 DEF TypeOK
<1>4. ASSUME NEW t \in Ticks, NEW f \in Effects, ResumeEffect(t, f) PROVE Arrives
  <2>1. \E step \in {"observing", "polling", "lost"} :
          Deliver(t, Effect(f), step) /\ (step = "polling" => f \in handle)
    BY <1>4 DEF ResumeEffect
  <2> QED
    BY <2>1 DEF Deliver, TypeOK
<1>5. ASSUME NEW t \in Ticks, NEW f \in Effects, Adopt(t, f) PROVE Arrives
  BY <1>5 DEF Adopt, Goto, TypeOK
<1>6. ASSUME NEW t \in Ticks, NEW f \in Effects, Poll(t, f) PROVE Arrives
  <2>1. CASE Return(t)
    BY <1>2, <1>6, <2>1 DEF Return, Poll
  <2>2. CASE Goto(t, "settling") \/ Goto(t, "ambiguous")
    BY <1>6, <2>2 DEF Goto, Poll, TypeOK
  <2> QED
    BY <1>6, <2>1, <2>2 DEF Poll
<1> HIDE DEF Arrives
<1>7. ASSUME NEW t \in Ticks, Receive(t) PROVE Arrives
  <2>1. CASE StartRollout(t)
    BY <2>1, <1>3 DEF StartRollout, Deliver
  <2>2. ASSUME NEW k \in Commands, Replay(t, k) \/ Refuse(t, k) PROVE UNCHANGED handler
    BY <2>2 DEF Replay, Refuse
  <2>3. ASSUME NEW k \in Commands, BeginClosing(t, k) PROVE Arrives
    BY <2>3, <1>3 DEF BeginClosing, Deliver
  <2>4. ASSUME NEW f \in Effects, BeginEffect(t, f) \/ AnswerSettled(t, f) PROVE Arrives
    BY <2>4, <1>3 DEF BeginEffect, AnswerSettled, Deliver
  <2>5. ASSUME NEW f \in Effects, BeginVerify(t, f) PROVE Arrives
    BY <2>5, <1>3 DEF BeginVerify, Deliver
  <2> QED
    BY <1>1, <1>4, <1>7, <2>1, <2>2, <2>3, <2>4, <2>5 DEF Receive
<1>8. ASSUME NEW t \in Ticks, Work(t) PROVE Arrives
  <2>1. CASE Answer(t)
    BY <2>1, <1>2 DEF Answer, Return
  <2>2. CASE FinalizeRollback(t) \/ \E s \in 1..Stages : RegisterFailure(t, s)
    BY <2>2, <1>2 DEF FinalizeRollback, RegisterFailure, Return
  <2>3. CASE Conflict(t)
    BY <2>3, <1>2 DEF Conflict, Refused, Raise
  <2>4. CASE FinalizeRollout(t)
    BY <2>4, <1>3 DEF FinalizeRollout, MayFinalize, Goto
  <2>5. ASSUME NEW f \in Effects, RecordHandle(t, f) \/ MarkAmbiguous(t, f) PROVE Arrives
    BY <2>5, <1>2 DEF RecordHandle, MarkAmbiguous, Return
  <2>6. ASSUME NEW f \in Effects, Fence(t, f) \/ Patch(t, f) \/ ObserveLost(t, f) \/ Settle(t, f)
        PROVE  Arrives
    BY <2>6, <1>3 DEF Fence, Patch, ObserveLost, Settle, Goto
  <2>7. ASSUME NEW f \in Effects, Observe(t, f) \/ Judge(t, f) \/ RecordReceipt(t, f)
        PROVE  Arrives
    BY <2>7, <1>3 DEF Observe, Judge, RecordReceipt
  <2> QED
    BY <1>5, <1>6, <1>8, <2>1, <2>2, <2>3, <2>4, <2>5, <2>6, <2>7 DEF Work
<1>9. ASSUME NEW t \in Ticks, Plan(t) \/ TurnToVerifier(t) \/ Finish(t) PROVE UNCHANGED handler
  BY <1>9 DEF Plan, TurnToVerifier, Finish
<1>10. Environment => Arrives
  <2> SUFFICES ASSUME Environment PROVE Arrives
    OBVIOUS
  <2>1. ASSUME NEW t \in Ticks, Stop(t) PROVE Arrives
    BY <2>1 DEF Stop, Fault, Raise, Rest, TypeOK, Arrives
  <2>2. (\E t \in Ticks : Stop(t)) \/ UNCHANGED handler
    BY DEF Environment, Approve, Expire, ProviderDone, ProviderFail, Abandon, Drift
  <2> QED
    BY <1>1, <2>1, <2>2
<1>11. UNCHANGED vars => Arrives
  BY <1>1 DEF vars
<1> QED
  BY <1>1, <1>7, <1>8, <1>9, <1>10, <1>11 DEF Next, Arrives

-------------------------------------------------------------------------------
(* A tick that is one transaction starts nothing. *)

(* The release as it was approved; nobody is at work on it. *)
Untouched ==
  /\ request = "DEPLOYMENT_APPROVAL_PENDING"
  /\ rollout = "none"
  /\ \A k \in Commands : command[k] = "none"
  /\ \A e \in Effects : op[e] = "none" /\ sent[e] = 0
  /\ \A t \in Ticks : pc[t] = "none"

LEMMA UntouchedInit == Init => Untouched
  BY DEF Init, Untouched

LEMMA UntouchedStep ==
  ASSUME Ambient, Untouched, [Next]_vars
  PROVE  Untouched'
<1> USE CommandFacts, EffectFacts
<1> DEFINE Kept == UNCHANGED <<request, rollout, command, op, sent, pc>>
<1>1. ASSUME NEW t \in Ticks, Plan(t) \/ TurnToVerifier(t) PROVE Kept
  BY <1>1 DEF Plan, TurnToVerifier, rows, cloud, handler
<1>2. ASSUME NEW t \in Ticks, Finish(t) PROVE Kept
  BY <1>2 DEF Finish, Marked, PromotedRequest, FailedRequest, Untouched, cloud, handler
<1>3. ASSUME NEW t \in Ticks, Receive(t) PROVE Kept
  <2>1. ASSUME NEW k \in Commands, Refuse(t, k) PROVE Kept
    BY <2>1 DEF Refuse, rows, cloud, handler
  <2>2. ASSUME NEW k \in Commands, Replay(t, k) \/ BeginClosing(t, k) PROVE FALSE
    BY <2>2 DEF Replay, BeginClosing, Untouched, Open
  <2>3. ~StartRollout(t)
    BY DEF StartRollout, Untouched, Open
  <2>4. ASSUME NEW e \in Effects,
               BeginEffect(t, e) \/ ResumeEffect(t, e) \/ AnswerSettled(t, e) \/ BeginVerify(t, e)
        PROVE  FALSE
    BY <2>4 DEF BeginEffect, MayBegin, ResumeEffect, MayResume, AnswerSettled, BeginVerify,
                MayVerify, Untouched, Open
  <2> QED
    BY <1>3, <2>1, <2>2, <2>3, <2>4 DEF Receive
<1>4. ASSUME NEW t \in Ticks PROVE ~Work(t)
  <2>1. pc[t] = "none"
    BY DEF Untouched
  <2>2. ~Answer(t) /\ ~FinalizeRollout(t) /\ ~FinalizeRollback(t) /\ ~Conflict(t)
    BY <2>1 DEF Answer, FinalizeRollout, MayFinalize, FinalizeRollback, At, Conflict,
                Refused, CanPatch
  <2>3. ASSUME NEW e \in Effects
        PROVE  /\ ~Observe(t, e) /\ ~Fence(t, e) /\ ~Patch(t, e) /\ ~RecordHandle(t, e)
               /\ ~ObserveLost(t, e) /\ ~Adopt(t, e) /\ ~Poll(t, e) /\ ~Settle(t, e)
               /\ ~MarkAmbiguous(t, e) /\ ~Judge(t, e) /\ ~RecordReceipt(t, e)
    BY <2>1 DEF Observe, Fence, Patch, RecordHandle, ObserveLost, Adopt, Poll, Settle,
                MarkAmbiguous, Judge, RecordReceipt, At
  <2>4. ASSUME NEW s \in 1..Stages PROVE ~RegisterFailure(t, s)
    BY <2>1 DEF RegisterFailure, At
  <2> QED
    BY <2>2, <2>3, <2>4 DEF Work
<1>5. ASSUME Environment PROVE Kept
  <2>1. \A t \in Ticks : ~Stop(t)
    BY DEF Stop, Untouched
  <2> QED
    BY <1>5, <2>1 DEF Environment, Approve, Expire, ProviderDone, ProviderFail, Abandon, Drift,
                      Fault, rows, cloud, handler
<1>6. UNCHANGED vars => Kept
  BY DEF vars, rows, cloud, handler
<1>7. Kept
  BY <1>1, <1>2, <1>3, <1>4, <1>5, <1>6 DEF Next
<1> QED
  BY <1>7 DEF Untouched

LEMMA AmbientLeavesUntouched == Spec => [](Ambient => Untouched)
<1>1. Init => (Ambient => Untouched)
  BY UntouchedInit
<1>2. (Ambient => Untouched) /\ [Next]_vars => (Ambient => Untouched)'
  BY UntouchedStep
<1> QED
  BY <1>1, <1>2, PTL DEF Spec

\* As long as a tick's prepares are savepoints of a transaction that its query for
\* candidates began (code_change_delivery.py:82), an approved release never starts:
\* for any number of ticks and stages, and whatever else happens, no private
\* command becomes durable, no rollout exists and production is never changed,
\* because every delivery is of a command its receiver cannot see.
THEOREM AmbientTicksStartNothing ==
  ASSUME Ambient
  PROVE  Spec => [](/\ request = "DEPLOYMENT_APPROVAL_PENDING"
                    /\ rollout = "none"
                    /\ \A k \in Commands : command[k] = "none"
                    /\ \A e \in Effects : sent[e] = 0)
<1> DEFINE NotStarted == /\ request = "DEPLOYMENT_APPROVAL_PENDING"
                         /\ rollout = "none"
                         /\ \A k \in Commands : command[k] = "none"
                         /\ \A e \in Effects : sent[e] = 0
<1>1. (Ambient => Untouched) => NotStarted
  BY DEF Untouched
<1> QED
  BY <1>1, AmbientLeavesUntouched, PTL

-------------------------------------------------------------------------------
(* Sequential ticks get no further than the second stage. *)

NothingBeyondSecond ==
  /\ \A s \in 2..Stages : receipt[s] = "none"
  /\ command[Finalize(Stages)] = "none"
  /\ \A s \in 3..Stages : command[Effect(s)] = "none" /\ command[Verify(s)] = "none"

NoSecondVerifier ==
  \A t \in Ticks, s \in 2..Stages : Verify(s) \notin queue[t] /\ call[t] # Verify(s)

(* The answer is given by the handler that settled, and no handler dies. *)
SettledIsAnswered ==
  \A e \in Effects : op[e] = "SUCCEEDED" =>
    command[Effect(e)] = "SUCCEEDED" \/ \E t \in Ticks : At(t, "answering", Effect(e))

SecondIsReady == op[2] = "SUCCEEDED" => rollout = "CANARY_READY"

(* The verification of the second stage is prepared only by a plan that ends in
   a conflict, and every later plan conflicts again. *)
SecondIsBarred ==
  command[Verify(2)] # "none" =>
    op[2] = "SUCCEEDED" /\ ("lease" \in expired \/ \A t \in Ticks : phase[t] = "idle")

LoneInv ==
  /\ NothingBeyondSecond
  /\ NoSecondVerifier
  /\ SettledIsAnswered
  /\ SecondIsReady
  /\ SecondIsBarred

LEMMA SecondFacts ==
  /\ 2 \in Effects /\ 2 \in 2..Stages /\ 1 \in 1..Stages /\ Stages \in 2..Stages
  /\ \A s \in 2..Stages : s \in Effects /\ s \in 1..Stages /\ s - 1 \in 1..Stages
  /\ \A s \in 3..Stages : s \in 2..Stages /\ s - 1 \in 2..Stages
  /\ \A s \in 1..Stages : s # 1 => s \in 2..Stages
  /\ \A s \in 2..Stages : s # 2 => s \in 3..Stages
  BY ReleaseAssumption DEF Effects

(* What the proposals of the second stage and the ones after it rest on. *)
LEMMA CandidateFacts ==
  /\ Candidate(Finalize(Stages)) => receipt[Stages] = "VERIFIED"
  /\ \A s \in 2..Stages : Candidate(Effect(s)) => receipt[s - 1] = "VERIFIED"
  /\ \A s \in 1..Stages : Candidate(Verify(s)) => op[s] = "SUCCEEDED" /\ rollout = "CANARY_READY" /\ Leased
  /\ AdvancementCandidate(1) => Candidate(Effect(2))
<1> USE CommandFacts, SecondFacts, ReleaseAssumption
<1>1. \A e, f : Finalize(e) = Finalize(f) => e = f
  BY DEF Finalize
<1>2. ASSUME NEW s \in 1..Stages PROVE Advancement(s) = Finalize(Stages) \/ Advancement(s) = Effect(s + 1)
  BY DEF Advancement
<1>3. /\ Finalize(Stages) # Finalize(0)
      /\ \A e : Finalize(Stages) # Effect(e) /\ Finalize(Stages) # Verify(e) /\ Finalize(Stages) # Fail(e)
      /\ \A e : Finalize(0) # Effect(e) /\ Finalize(0) # Verify(e)
      /\ \A e, f : Fail(e) # Effect(f) /\ Fail(e) # Verify(f) /\ Effect(e) # Verify(f)
      /\ Finalize(Stages) # Start
  BY DEF Finalize, Effect, Verify, Fail, Start
<1>4. ASSUME Candidate(Finalize(Stages)) PROVE receipt[Stages] = "VERIFIED"
  <2>1. PICK s \in 1..Stages : Finalize(Stages) = Advancement(s) /\ AdvancementCandidate(s)
    BY <1>3, <1>4 DEF Candidate
  <2>2. s = Stages
    BY <1>3, <2>1 DEF Advancement
  <2> QED
    BY <2>1, <2>2 DEF AdvancementCandidate, Judged
<1>5. ASSUME NEW e \in 2..Stages, Candidate(Effect(e)) PROVE receipt[e - 1] = "VERIFIED"
  <2>1. PICK s \in 1..Stages : Effect(e) = Advancement(s) /\ AdvancementCandidate(s)
    BY <1>3, <1>5 DEF Candidate
  <2>2. e = s + 1
    BY <1>2, <1>3, <2>1
  <2> QED
    BY <2>1, <2>2 DEF AdvancementCandidate, Judged
<1>6. ASSUME NEW s \in 1..Stages, Candidate(Verify(s))
      PROVE  op[s] = "SUCCEEDED" /\ rollout = "CANARY_READY" /\ Leased
  <2>1. \A r \in 1..Stages : Verify(s) # Advancement(r)
    BY <1>2, <1>3
  <2>2. VerificationCandidate(s)
    BY <1>3, <1>6, <2>1 DEF Candidate
  <2> QED
    BY <2>2 DEF VerificationCandidate, LatestSettled
<1>7. Advancement(1) = Effect(2)
  BY DEF Advancement
<1> QED
  BY <1>4, <1>5, <1>6, <1>7 DEF Candidate

(* The verdict of the first stage is the newest one, its advancement is proposed
   for ever, and was made already: such a plan ends its tick. *)
LEMMA SecondConflicts ==
  ASSUME Sequential, TypeOK, StageInv, LoneInv, op[2] = "SUCCEEDED", Leased,
         NEW t \in Ticks, Plan(t)
  PROVE  UNCHANGED tick
<1> USE CommandFacts, SecondFacts
<1>1. rollout = "CANARY_READY"
  BY DEF LoneInv, SecondIsReady
<1>2. receipt[1] = "VERIFIED"
  BY DEF StageInv, LadderInv
<1>3. LatestJudged(1)
  BY <1>2 DEF LatestJudged, LoneInv, NothingBeyondSecond
<1>4. command[Effect(2)] = "SUCCEEDED"
  <2>1. \A u \in Ticks : pc[u] = "none"
    BY DEF Plan, Sequential
  <2> QED
    BY <2>1 DEF LoneInv, SettledIsAnswered, At
<1>5. NoneOpen(Advancements)
  BY <1>4 DEF NoneOpen, Advancements, Open, LoneInv, NothingBeyondSecond
<1>6. Candidate(Effect(2))
  BY <1>1, <1>2, <1>3, <1>5, CandidateFacts DEF AdvancementCandidate, Judged
<1> QED
  BY <1>4, <1>6 DEF Plan

LEMMA BeyondStep ==
  ASSUME Sequential, TypeOK, StageInv, LoneInv, [Next]_vars
  PROVE  NothingBeyondSecond'
<1> USE CommandFacts, SecondFacts DEF LoneInv, NothingBeyondSecond
<1>1. ASSUME NEW s \in 2..Stages PROVE receipt'[s] = "none"
  BY <1>1, ReceiptSources DEF NoSecondVerifier
<1>2. command'[Finalize(Stages)] = "none"
  BY CommandSources, CandidateFacts
<1>3. ASSUME NEW s \in 3..Stages PROVE command'[Effect(s)] = "none"
  BY <1>3, CommandSources, CandidateFacts
<1>4. ASSUME NEW s \in 3..Stages PROVE command'[Verify(s)] = "none"
  <2>1. op[s] # "none" => receipt[2] = "VERIFIED"
    <3>1. 2 \in 1..(s - 1)
      BY <1>4
    <3> QED
      BY <1>4, <3>1 DEF StageInv, LadderInv
  <2> QED
    BY <1>4, <2>1, CommandSources, CandidateFacts
<1> QED
  BY <1>1, <1>2, <1>3, <1>4

LEMMA VerifierStep ==
  ASSUME TypeOK, LoneInv, Ambient => Untouched, [Next]_vars
  PROVE  NoSecondVerifier'
<1> USE CommandFacts, SecondFacts
<1> SUFFICES ASSUME NEW t \in Ticks, NEW s \in 2..Stages
             PROVE  Verify(s) \notin queue'[t] /\ call'[t] # Verify(s)
  BY DEF NoSecondVerifier
<1>1. Verify(s) \notin queue[t] /\ call[t] # Verify(s) /\ Verify(s) \in Verifications
  BY DEF LoneInv, NoSecondVerifier, Verifications
<1>2. CASE queue'[t] \subseteq queue[t] /\ call'[t] \in queue[t] \cup {call[t], None}
  BY <1>1, <1>2
<1>3. CASE Plan(t) /\ UNCHANGED handler
  <2>1. \A status : Verify(s) \notin Dispatchable(Commands \ Verifications, status)
    BY <1>1 DEF Dispatchable
  <2>2. Ambient => ~Candidate(Verify(s))
    BY CandidateFacts DEF Untouched
  <2> DEFINE Invisible ==
        IF Ambient THEN {k \in Commands : Candidate(k) /\ command[k] = "none"} ELSE {}
  <2>3. Verify(s) \notin Invisible
    BY <2>2
  <2>4. \/ UNCHANGED tick
        \/ \E status : queue' = [queue EXCEPT ![t] =
               Dispatchable(Commands \ Verifications, status) \cup Invisible]
    BY <1>3 DEF Plan
  <2> HIDE DEF Invisible
  <2>5. queue \in [Ticks -> SUBSET Commands]
    BY DEF TypeOK
  <2>6. Verify(s) \notin queue'[t]
    BY <1>1, <2>1, <2>3, <2>4, <2>5 DEF tick
  <2> QED
    BY <1>1, <1>3, <2>6 DEF handler
<1>4. CASE TurnToVerifier(t) /\ UNCHANGED handler
  <2>1. queue'[t] = Dispatchable(Verifications, command) /\ phase[t] = "controller"
    BY <1>4 DEF TurnToVerifier, TypeOK
  <2>2. Deadline(Verify(s)) = "lease"
    BY DEF Deadline
  <2>3. Verify(s) \notin Dispatchable(Verifications, command)
    <3>1. CASE s = 2
      BY <2>1, <2>2, <3>1 DEF LoneInv, SecondIsBarred, Dispatchable, Open
    <3>2. CASE s # 2
      BY <3>2 DEF LoneInv, NothingBeyondSecond, Dispatchable, Open
    <3> QED
      BY <3>1, <3>2
  <2> QED
    BY <1>1, <1>4, <2>1, <2>3 DEF handler
<1> QED
  BY <1>2, <1>3, <1>4, TickStep

LEMMA AnsweredStep ==
  ASSUME Sequential, TypeOK, LoneInv, [Next]_vars
  PROVE  SettledIsAnswered'
<1> USE CommandFacts, EffectFacts
<1> SUFFICES ASSUME NEW e \in Effects, op'[e] = "SUCCEEDED"
             PROVE  \/ command'[Effect(e)] = "SUCCEEDED"
                    \/ \E t \in Ticks : At(t, "answering", Effect(e))'
  BY DEF SettledIsAnswered
<1>1. CASE op[e] = "SUCCEEDED" /\ command[Effect(e)] = "SUCCEEDED"
  BY <1>1, CommandSettledOnce
<1>2. ASSUME NEW t \in Ticks, At(t, "answering", Effect(e))
      PROVE  command'[Effect(e)] = "SUCCEEDED" \/ At(t, "answering", Effect(e))'
  <2>1. CASE Answer(t)
    BY <1>2, <2>1 DEF Answer, At, TypeOK
  <2> QED
    BY <1>2, <2>1, ArrivalStep DEF Sequential
<1>3. ASSUME NEW t \in Ticks, Settle(t, e) PROVE At(t, "answering", Effect(e))'
  BY <1>3 DEF Settle, Goto, At, TypeOK
<1> QED
  BY <1>1, <1>2, <1>3, SettleSources DEF LoneInv, SettledIsAnswered

LEMMA ReadyStep ==
  ASSUME TypeOK, RecordInv, StageInv, LoneInv, [Next]_vars
  PROVE  SecondIsReady'
<1> USE CommandFacts, EffectFacts, SecondFacts
<1> SUFFICES ASSUME op'[2] = "SUCCEEDED" PROVE rollout' = "CANARY_READY"
  BY DEF SecondIsReady
<1>1. CASE \E t \in Ticks : Settle(t, 2)
  BY <1>1 DEF Settle
<1>2. CASE op[2] = "SUCCEEDED"
  <2>1. rollout = "CANARY_READY"
    BY <1>2 DEF LoneInv, SecondIsReady
  <2>2. \A s \in 1..Stages : receipt[s] # "FAILED"
    <3>1. receipt[1] = "VERIFIED"
      BY <1>2 DEF StageInv, LadderInv
    <3> QED
      BY <3>1 DEF LoneInv, NothingBeyondSecond
  <2>3. ASSUME NEW t \in Ticks, NEW e \in Effects, BeginEffect(t, e) PROVE FALSE
    <3>1. op[e] = "none" /\ e \notin {0, 1} /\ command[Effect(e)] = "PREPARED"
      BY <2>1, <2>3, BeginFacts DEF RecordInv, BeginEffect, MayBegin
    <3>2. e \in 3..Stages
      BY <1>2, <3>1
    <3> QED
      BY <3>1, <3>2 DEF LoneInv, NothingBeyondSecond
  <2>4. ASSUME NEW t \in Ticks, NEW e \in Effects, MarkAmbiguous(t, e) PROVE FALSE
    BY <2>1, <2>4, UnderFacts
    DEF MarkAmbiguous, MayMark, RecordInv, RecordsAgree, OperationsAgree, InFlight, Live
  <2>5. ASSUME NEW t \in Ticks, NEW s \in 1..Stages, RegisterFailure(t, s) PROVE FALSE
    BY <2>2, <2>5 DEF RegisterFailure, StageInv, CloseInv
  <2>6. ASSUME NEW t \in Ticks, FinalizeRollout(t) PROVE FALSE
    <3>1. receipt[Stages] = "VERIFIED"
      BY <2>6 DEF FinalizeRollout, MayFinalize, StageInv, CloseInv
    <3> QED
      BY <3>1 DEF LoneInv, NothingBeyondSecond
  <2>7. ASSUME NEW t \in Ticks,
               \/ StartRollout(t) \/ FinalizeRollback(t)
               \/ \E e \in Effects : Settle(t, e)
        PROVE  rollout' = "CANARY_READY"
    BY <2>1, <2>7 DEF StartRollout, FinalizeRollback, MayWithdraw, Settle, MaySettle
  <2>8. ASSUME NEW t \in Ticks,
               \/ Plan(t) \/ Finish(t) \/ Answer(t)
               \/ \E e \in Effects :
                    \/ Fence(t, e) \/ RecordHandle(t, e) \/ Adopt(t, e)
                    \/ BeginVerify(t, e) \/ RecordReceipt(t, e)
        PROVE  rollout' = rollout
    BY <2>8 DEF Plan, Finish, Answer, Fence, RecordHandle, Adopt, BeginVerify, RecordReceipt
  <2>9. UNCHANGED rows => rollout' = rollout
    BY DEF rows
  <2> QED
    BY <2>1, <2>3, <2>4, <2>5, <2>6, <2>7, <2>8, <2>9, RowSteps DEF RowStep
<1> QED
  BY <1>1, <1>2, SettleSources

LEMMA BarredStep ==
  ASSUME Sequential, TypeOK, RecordInv, StageInv, LoneInv, [Next]_vars
  PROVE  SecondIsBarred'
<1> USE CommandFacts, SecondFacts
<1> SUFFICES ASSUME command'[Verify(2)] # "none"
             PROVE  /\ op'[2] = "SUCCEEDED"
                    /\ "lease" \in expired' \/ \A t \in Ticks : phase'[t] = "idle"
  BY DEF SecondIsBarred
<1>1. CASE command[Verify(2)] = "none"
  <2>1. PICK t \in Ticks : Plan(t) /\ Candidate(Verify(2))
    BY <1>1, CommandSources
  <2>2. op[2] = "SUCCEEDED" /\ Leased
    BY <2>1, CandidateFacts
  <2>3. phase[t] = "idle" /\ UNCHANGED <<op, tick>>
    BY <2>1, <2>2, SecondConflicts DEF Plan
  <2> QED
    BY <2>2, <2>3 DEF Sequential, tick
<1>2. CASE command[Verify(2)] # "none"
  <2>1. op[2] = "SUCCEEDED" /\ op'[2] = "SUCCEEDED"
    BY <1>2, OperationSettledOnce DEF LoneInv, SecondIsBarred, RecordInv
  <2>2. CASE "lease" \in expired
    BY <2>1, <2>2, DeadlinesStay
  <2>3. ASSUME "lease" \notin expired, NEW t \in Ticks PROVE phase'[t] = "idle"
    <3>1. phase[t] = "idle"
      BY <1>2, <2>3 DEF LoneInv, SecondIsBarred
    <3>2. Leased
      <4>1. rollout = "CANARY_READY"
        BY <2>1 DEF LoneInv, SecondIsReady
      <4> QED
        BY <2>3, <4>1 DEF Leased, RecordInv, RecordsAgree, ReservationAgrees, TypeOK
    <3>3. Plan(t) => UNCHANGED tick
      BY <2>1, <3>2, SecondConflicts
    <3>4. ~TurnToVerifier(t)
      BY <3>1 DEF TurnToVerifier
    <3> QED
      BY <3>1, <3>3, <3>4, TickStep DEF tick
  <2> QED
    BY <2>1, <2>2, <2>3
<1> QED
  BY <1>1, <1>2

LEMMA LoneInit == Init => LoneInv
<1> USE CommandFacts, SecondFacts, EffectFacts
<1> SUFFICES ASSUME Init PROVE LoneInv
  OBVIOUS
<1>1. NothingBeyondSecond /\ NoSecondVerifier
  BY DEF Init, NothingBeyondSecond, NoSecondVerifier
<1>2. SettledIsAnswered /\ SecondIsReady /\ SecondIsBarred
  BY DEF Init, SettledIsAnswered, SecondIsReady, SecondIsBarred
<1> QED
  BY <1>1, <1>2 DEF LoneInv

\* If ticks follow one another and no handler dies, no release is ever promoted
\* and no stage but the first is ever verified, however many stages there are and
\* whatever the provider, the clock and other writers of the service do, even when
\* every prepare commits at once: the advancement of a verified stage stays
\* proposable after it was made, and the conflict ends every later tick before the
\* verifier's turn (advancement_candidates, release_rollout_store.py:828).  It
\* would take overlapping ticks, or a crash at the right moment, to deliver a
\* release.
THEOREM SequentialTicksNeverPromote ==
  ASSUME Sequential
  PROVE  Spec => [](rollout # "PROMOTED" /\ \A s \in 2..Stages : receipt[s] = "none")
<1>1. TypeOK /\ RecordInv /\ StageInv /\ LoneInv /\ (Ambient => Untouched) /\ [Next]_vars => LoneInv'
  BY BeyondStep, VerifierStep, AnsweredStep, ReadyStep, BarredStep DEF LoneInv
<1>2. StageInv /\ LoneInv => rollout # "PROMOTED" /\ \A s \in 2..Stages : receipt[s] = "none"
  BY SecondFacts DEF StageInv, CloseInv, LoneInv, NothingBeyondSecond
<1> QED
  BY <1>1, <1>2, LoneInit, TypeCorrect, RecordInvariant, StageInvariant,
     AmbientLeavesUntouched, PTL DEF Spec

-------------------------------------------------------------------------------
(* An adopted effect whose handler died. *)

(* The operation is RECONCILING without a provider handle, and the handler that
   found the target as intended is gone. *)
Orphaned(e) ==
  op[e] = "RECONCILING" /\ e \notin handle /\ \A t \in Ticks : ~At(t, "settling", Effect(e))

PollersHaveHandles ==
  \A t \in Ticks, e \in Effects : At(t, "polling", Effect(e)) => e \in handle

LEMMA HandleSources ==
  ASSUME TypeOK, [Next]_vars
  PROVE  /\ handle \subseteq handle'
         /\ \A e \in handle' : e \in handle \/ op[e] = "ISSUED"
<1>1. ASSUME NEW t \in Ticks, NEW e \in Effects, RecordHandle(t, e)
      PROVE  handle' = handle \cup {e} /\ op[e] = "ISSUED"
  BY <1>1 DEF RecordHandle, Unrecorded
<1>2. ASSUME NEW t \in Ticks,
             \/ Plan(t) \/ Finish(t) \/ StartRollout(t) \/ Answer(t)
             \/ FinalizeRollout(t) \/ FinalizeRollback(t)
             \/ \E e \in Effects :
                  \/ BeginEffect(t, e) \/ Fence(t, e) \/ Adopt(t, e)
                  \/ Settle(t, e) \/ MarkAmbiguous(t, e) \/ BeginVerify(t, e)
                  \/ RecordReceipt(t, e)
             \/ \E s \in 1..Stages : RegisterFailure(t, s)
      PROVE  handle' = handle
  BY <1>2 DEF Plan, Finish, StartRollout, Answer, FinalizeRollout, FinalizeRollback,
              BeginEffect, Fence, Adopt, Settle, MarkAmbiguous, BeginVerify, RecordReceipt,
              RegisterFailure
<1>3. UNCHANGED rows => handle' = handle
  BY DEF rows
<1> QED
  BY <1>1, <1>2, <1>3, RowSteps DEF RowStep

LEMMA PollersStep == TypeOK /\ PollersHaveHandles /\ [Next]_vars => PollersHaveHandles'
  BY ArrivalStep, HandleSources DEF PollersHaveHandles

(* A reconciling operation is settled, given up, or stays. *)
LEMMA ReconcilingMoves ==
  ASSUME TypeOK, OpsBegun, [Next]_vars, NEW e \in Effects, op[e] = "RECONCILING"
  PROVE  \/ op'[e] \in {"RECONCILING", "AMBIGUOUS"}
         \/ \E t \in Ticks : At(t, "settling", Effect(e))
<1> DEFINE Goal == op'[e] \in {"RECONCILING", "AMBIGUOUS"}
                     \/ \E t \in Ticks : At(t, "settling", Effect(e))
<1>1. ASSUME NEW t \in Ticks, NEW f \in Effects, BeginEffect(t, f) PROVE Goal
  BY <1>1, BeginFacts DEF TypeOK
<1>2. ASSUME NEW t \in Ticks, NEW f \in Effects,
             Fence(t, f) \/ RecordHandle(t, f) \/ Adopt(t, f) \/ MarkAmbiguous(t, f)
      PROVE  Goal
  <2>1. op[f] # "RECONCILING" \/ op' = [op EXCEPT ![f] = "AMBIGUOUS"]
    BY <1>2 DEF Fence, MayFence, RecordHandle, Adopt, Unrecorded, MarkAmbiguous
  <2>2. \E x : op' = [op EXCEPT ![f] = x]
    BY <1>2 DEF Fence, RecordHandle, Adopt, MarkAmbiguous
  <2> QED
    BY <2>1, <2>2 DEF TypeOK
<1>3. ASSUME NEW t \in Ticks, NEW f \in Effects, Settle(t, f) PROVE Goal
  BY <1>3 DEF Settle, TypeOK
<1>4. ASSUME NEW t \in Ticks,
             \/ Plan(t) \/ Finish(t) \/ StartRollout(t) \/ Answer(t)
             \/ FinalizeRollout(t) \/ FinalizeRollback(t)
             \/ \E f \in Effects : BeginVerify(t, f) \/ RecordReceipt(t, f)
             \/ \E s \in 1..Stages : RegisterFailure(t, s)
      PROVE  op' = op
  BY <1>4 DEF Plan, Finish, StartRollout, Answer, FinalizeRollout, FinalizeRollback,
              BeginVerify, RecordReceipt, RegisterFailure
<1> HIDE DEF Goal
<1>5. op' = op => Goal
  BY DEF Goal
<1>6. UNCHANGED rows => op' = op
  BY DEF rows
<1>7. (\E t \in Ticks : RowStep(t)) => Goal
  BY <1>1, <1>2, <1>3, <1>4, <1>5 DEF RowStep
<1> QED
  BY <1>5, <1>6, <1>7, RowSteps DEF Goal

\* An adoption whose handler dies before it settles is never settled: the fence of
\* begin_reconciliation_without_provider_handle admits ISSUED only, and without a
\* handle nobody polls.  The operation stays RECONCILING, whatever is redelivered,
\* until the traffic changes under it and it is given up as ambiguous
\* (release_rollout_store.py:2223).
THEOREM OrphanedAdoptionIsNeverSettled ==
  Spec => [][\A e \in Effects : Orphaned(e) => Orphaned(e)' \/ op'[e] = "AMBIGUOUS"]_vars
<1>1. Init => PollersHaveHandles
  BY DEF Init, PollersHaveHandles, At
<1>2. TypeOK /\ RecordInv /\ PollersHaveHandles /\ [Next]_vars
        => \A e \in Effects : Orphaned(e) => Orphaned(e)' \/ op'[e] = "AMBIGUOUS"
  <2> SUFFICES ASSUME TypeOK, RecordInv, PollersHaveHandles, [Next]_vars,
                      NEW e \in Effects, Orphaned(e), op'[e] # "AMBIGUOUS"
               PROVE  Orphaned(e)'
    OBVIOUS
  <2>1. op'[e] = "RECONCILING"
    BY ReconcilingMoves DEF Orphaned, RecordInv
  <2>2. e \notin handle'
    BY HandleSources DEF Orphaned
  <2>3. ASSUME NEW t \in Ticks, At(t, "settling", Effect(e))' PROVE FALSE
    <3>1. CASE Adopt(t, e)
      BY <3>1 DEF Adopt, Unrecorded, Orphaned
    <3>2. CASE Poll(t, e)
      BY <3>2 DEF Poll, PollersHaveHandles, Orphaned
    <3> QED
      BY <2>3, <3>1, <3>2, ArrivalStep DEF Orphaned
  <2> QED
    BY <2>1, <2>2, <2>3 DEF Orphaned
<1> QED
  BY <1>1, <1>2, PollersStep, TypeCorrect, RecordInvariant, PTL DEF Spec

-------------------------------------------------------------------------------
(* A reservation whose lease is over. *)

\* Once the lease of the reservation has expired no operation succeeds any more
\* and the target is never released, although an issued effect may still reach
\* production: the trigger lets nothing settle after the deadline
\* (code-change-release-schema.target.v19.sql:53), finalization asks for the lease
\* too, and no step renews it.
THEOREM ExpiredLeaseIsForEver ==
  Spec => [][/\ expired \subseteq expired'
             /\ "lease" \in expired =>
                  /\ \A e \in Effects : op'[e] = "SUCCEEDED" => op[e] = "SUCCEEDED"
                  /\ reservation' = "RELEASED" => reservation = "RELEASED"]_vars
<1>1. ASSUME TypeOK, RecordInv, RecordInv', [Next]_vars, "lease" \in expired
      PROVE  /\ \A e \in Effects : op'[e] = "SUCCEEDED" => op[e] = "SUCCEEDED"
             /\ reservation' = "RELEASED" => reservation = "RELEASED"
  <2>1. ~Leased
    BY <1>1 DEF Leased
  <2>2. \A t \in Ticks, e \in Effects : ~Settle(t, e)
    BY <2>1 DEF Settle, MaySettle
  <2>3. ASSUME reservation' = "RELEASED" PROVE rollout \in {"PROMOTED", "ROLLED_BACK"}
    <3>1. rollout' \in {"PROMOTED", "ROLLED_BACK"}
      BY <1>1, <2>3 DEF RecordInv, RecordsAgree, ReservationAgrees
    <3>2. \A t \in Ticks : FinalizeRollout(t) => rollout = "PROMOTED"
      BY <2>1 DEF FinalizeRollout, MayFinalize
    <3>3. \A t \in Ticks : ~FinalizeRollback(t)
      BY <2>1 DEF FinalizeRollback, MayWithdraw
    <3> QED
      BY <1>1, <3>1, <3>2, <3>3, RolloutSources DEF RecordInv
  <2> QED
    BY <1>1, <2>2, <2>3, SettleSources DEF RecordInv, RecordsAgree, ReservationAgrees
<1> QED
  BY <1>1, DeadlinesStay, TypeCorrect, RecordInvariant, PTL DEF Spec

===============================================================================
