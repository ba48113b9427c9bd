------------------------- MODULE ActionActuatorProofs -------------------------
(***************************************************************************)
(* Theorems about ActionActuator for any number of actions, targets and    *)
(* calls.  The inductive invariant says who may still move an action: a    *)
(* reservation is current and exclusive on its target, the call holding    *)
(* the tokens has not passed the dispatch it is about to write, and the    *)
(* claim of the mutation call is taken before the call and never returned. *)
(***************************************************************************)
EXTENDS ActionActuator, TLAPS

BeforeDispatch == {"authorize", "observe", "release", "prepare"}

(* A reservation exists only for a planned action. *)
ReservedIsPlanned ==
  \A a \in Actions : status[a] = "none" => reservation[a] = "none"

(* An AUTHORIZED action has not yet reached its dispatch or given it up. *)
AuthorizedIsFresh ==
  \A a \in Actions : status[a] = "AUTHORIZED" =>
    reservation[a] \in {"none", "held"} /\ dispatch[a] = "none"

(* The epoch is the one the held reservation itself advanced to. *)
HeldIsCurrent ==
  \A a \in Actions : reservation[a] = "held" => epoch[Target(a)] = bound[a].epoch + 1

HeldIsExclusive ==
  \A a, b \in Actions :
    (TargetOf[a] = TargetOf[b] /\ reservation[a] = "held" /\ reservation[b] = "held")
      => a = b

(* A dispatch that can still move, or is ambiguous, keeps its reservation. *)
OpenDispatchIsHeld ==
  \A a \in Actions :
    /\ dispatch[a] \in Outstanding \cup {"AMBIGUOUS"} => reservation[a] = "held"
    /\ dispatch[a] = "EXECUTED" => reservation[a] = "released"
    /\ dispatch[a] # "none" => reservation[a] # "none"

(* What the receipt says is what the dispatch and the action say. *)
SettledTogether ==
  \A a \in Actions :
    /\ dispatch[a] \in {"none"} \cup Outstanding => receipt[a] = "none"
    /\ dispatch[a] \in Outstanding => status[a] = "EXECUTING"
    /\ dispatch[a] = "EXECUTED" =>
         receipt[a] \in {"SUCCEEDED", "FAILED"} /\ status[a] = receipt[a]
    /\ dispatch[a] = "AMBIGUOUS" => receipt[a] = "AMBIGUOUS" /\ status[a] = "AMBIGUOUS"

(* The call holding the tokens is still before the dispatch it will write. *)
HolderBeforeDispatch ==
  \A c \in Calls :
    (pc[c] \in BeforeDispatch /\ holder[act[c]] = c) =>
      /\ dispatch[act[c]] = "none"
      /\ pc[c] \in {"observe", "prepare"} => status[act[c]] = "EXECUTING"

(* The places of a call that carry what a later step writes. *)
CarriedIsReady ==
  \A c \in Calls :
    /\ pc[c] = "release" => carry[c] \in Reasons
    /\ pc[c] = "finalize" => carry[c] \in Results

FenceInv ==
  /\ ReservedIsPlanned
  /\ AuthorizedIsFresh
  /\ HeldIsCurrent
  /\ HeldIsExclusive
  /\ OpenDispatchIsHeld
  /\ SettledTogether
  /\ HolderBeforeDispatch

(* The claim of the mutation call is a one-way step of the dispatch. *)
ClaimPassed(a) == dispatch[a] \notin {"none", "PREPARED"}

ClaimInv ==
  /\ \A c \in Calls : pc[c] = "mutate" =>
       ClaimPassed(act[c]) /\ mutateCalls[act[c]] = 0
  /\ \A c, d \in Calls :
       (pc[c] = "mutate" /\ pc[d] = "mutate" /\ act[c] = act[d]) => c = d
  /\ \A a \in Actions : mutateCalls[a] # 0 => ClaimPassed(a) /\ mutateCalls[a] = 1

-----------------------------------------------------------------------------
(* Every step keeps every variable in its type; what finalize_dispatch writes
   is a result because the call carries one. *)
TypeInv == TypeOK /\ CarriedIsReady

LEMMA TypeStep == TypeInv /\ [Next]_vars => TypeInv'
<1> SUFFICES ASSUME TypeInv, [Next]_vars PROVE TypeInv'
  OBVIOUS
<1> USE ActuatorAssumption DEF TypeInv, CarriedIsReady, TypeOK, Goto, Target,
      Outstanding, Results, Reasons, Statuses, Places, actionRows, targetRows, leaseRows, settleRows, provider, locals
<1>1. ASSUME NEW c \in Calls, ClaimRecovery(c) PROVE TypeInv'
  <2>1. /\ UNCHANGED <<actionRows, targetRows, settleRows, provider, locals, reservation>>
        /\ act[c] \in Actions
    BY <1>1 DEF ClaimRecovery
  <2>2. PICK place \in {"acquire", "reauthorize", "acknowledge"} :
          pc' = [pc EXCEPT ![c] = place]
    BY <1>1 DEF ClaimRecovery
  <2>3. CASE UNCHANGED <<holder, leaseLive>>
    BY <2>1, <2>2, <2>3
  <2>4. CASE /\ holder' = [holder EXCEPT ![act[c]] = c]
             /\ leaseLive' = [leaseLive EXCEPT ![act[c]] = TRUE]
    BY <2>1, <2>2, <2>4
  <2> QED
    BY <1>1, <2>3, <2>4 DEF ClaimRecovery
<1>2. ASSUME NEW c \in Calls, AcquireStale(c) PROVE TypeInv'
  BY <1>2 DEF AcquireStale
<1>3. ASSUME NEW c \in Calls, AcquireReservation(c) PROVE TypeInv'
  BY <1>3 DEF AcquireReservation, TargetFree
<1>4. ASSUME NEW c \in Calls, AuthorizeForExecution(c) PROVE TypeInv'
  <2>1. UNCHANGED <<bound, targetRows, leaseRows, settleRows, provider, act, seen>>
    BY <1>4 DEF AuthorizeForExecution
  <2>2. CASE /\ status' = [status EXCEPT ![act[c]] = "EXECUTING"]
             /\ pc' = [pc EXCEPT ![c] = "observe"]
             /\ carry' = carry
    BY <2>1, <2>2
  <2>3. CASE /\ status' = status
             /\ pc' = [pc EXCEPT ![c] = "release"]
             /\ carry' = [carry EXCEPT ![c] = "AUTHORIZATION_FAILED"]
    BY <2>1, <2>3
  <2> QED
    BY <1>4, <2>2, <2>3 DEF AuthorizeForExecution
<1>5. ASSUME NEW c \in Calls, CheckPreconditions(c) PROVE TypeInv'
  <2>1. CASE pc' = [pc EXCEPT ![c] = "prepare"] /\ carry' = carry
    BY <1>5, <2>1 DEF CheckPreconditions
  <2>2. CASE /\ pc' = [pc EXCEPT ![c] = "release"]
             /\ \E reason \in Reasons : carry' = [carry EXCEPT ![c] = reason]
    <3>1. PICK reason \in Reasons : carry' = [carry EXCEPT ![c] = reason]
      BY <2>2
    <3> QED
      BY <1>5, <2>2, <3>1 DEF CheckPreconditions
  <2> QED
    BY <1>5, <2>1, <2>2 DEF CheckPreconditions
<1>6. ASSUME NEW c \in Calls, ReleaseBeforeMutation(c) PROVE TypeInv'
  BY <1>6 DEF ReleaseBeforeMutation, ReleasedStatus
<1>7. ASSUME NEW c \in Calls, PrepareDispatch(c) PROVE TypeInv'
  BY <1>7 DEF PrepareDispatch
<1>8. ASSUME NEW c \in Calls, AuthorizePreparedDispatch(c) PROVE TypeInv'
  BY <1>8 DEF AuthorizePreparedDispatch
<1>9. ASSUME NEW c \in Calls, ClaimMutation(c) PROVE TypeInv'
  BY <1>9 DEF ClaimMutation
<1>10. ASSUME NEW c \in Calls, Mutate(c) PROVE TypeInv'
  BY <1>10 DEF Mutate
<1>11. ASSUME NEW c \in Calls, ConnectorReturns(c) PROVE TypeInv'
  BY <1>11 DEF ConnectorReturns
<1>12. ASSUME NEW c \in Calls, RecordConnectorAck(c) PROVE TypeInv'
  BY <1>12 DEF RecordConnectorAck
<1>13. ASSUME NEW c \in Calls, Reconcile(c) PROVE TypeInv'
  BY <1>13 DEF Reconcile
<1>14. ASSUME NEW c \in Calls, FinalizeDispatch(c) PROVE TypeInv'
  <2>1. /\ UNCHANGED <<bound, epoch, holder, leaseLive, provider, locals>>
        /\ act[c] \in Actions
        /\ carry[c] \in Results
        /\ pc' = [pc EXCEPT ![c] = "done"]
        /\ Target(act[c]) \in Targets
        /\ seen[c] \in Versions
    BY <1>14 DEF FinalizeDispatch, SettledStatus, KeepsReservation
  <2>2. /\ receipt' = [receipt EXCEPT ![act[c]] = carry[c]]
        /\ dispatch' \in [Actions -> {"none", "EXECUTED", "AMBIGUOUS"} \cup Outstanding]
    BY <1>14, <2>1 DEF FinalizeDispatch, SettledStatus, KeepsReservation
  <2>3. status' \in [Actions -> Statuses]
    <3>1. status' \in {status, [status EXCEPT ![act[c]] = carry[c]]}
      BY <1>14 DEF FinalizeDispatch, SettledStatus, KeepsReservation
    <3> QED
      BY <2>1, <3>1
  <2>4. /\ reservation' \in [Actions -> {"none", "held", "released"}]
        /\ observed' \in [Targets -> Versions]
    <3>1. /\ reservation' \in {reservation, [reservation EXCEPT ![act[c]] = "released"]}
          /\ observed' \in {observed, [observed EXCEPT ![Target(act[c])] = seen[c]]}
      BY <1>14 DEF FinalizeDispatch, SettledStatus, KeepsReservation
    <3> QED
      BY <2>1, <3>1
  <2>5. pc' \in [Calls -> Places] /\ receipt' \in [Actions -> {"none"} \cup Results]
    BY <2>1, <2>2
  <2>6. CarriedIsReady'
    BY <2>1
  <2> QED
    BY <2>1, <2>2, <2>3, <2>4, <2>5, <2>6
<1>15. ASSUME NEW c \in Calls, Fail(c) PROVE TypeInv'
  BY <1>15 DEF Fail
<1>16. ASSUME NEW a \in Actions, PlanAction(a) PROVE TypeInv'
  BY <1>16 DEF PlanAction
<1>17. ASSUME NEW a \in Actions, LeaseExpires(a) PROVE TypeInv'
  BY <1>17 DEF LeaseExpires
<1>18. ASSUME NEW a \in Actions, EffectLands(a) PROVE TypeInv'
  BY <1>18 DEF EffectLands
<1>19. ASSUME NEW a \in Actions, RequestLost(a) PROVE TypeInv'
  BY <1>19 DEF RequestLost
<1>20. ASSUME NEW t \in Targets, Drift(t) PROVE TypeInv'
  BY <1>20 DEF Drift
<1>21. CASE UNCHANGED vars
  BY <1>21 DEF vars
<1>. QED
  BY <1>1, <1>2, <1>3, <1>4, <1>5, <1>6, <1>7, <1>8, <1>9, <1>10, <1>11, <1>12, <1>13, <1>14, <1>15, <1>16, <1>17, <1>18, <1>19, <1>20, <1>21 DEF Next, Execute, Environment

(* The initial state has the types. *)
LEMMA TypeInit == Init => TypeInv
BY ActuatorAssumption DEF Init, TypeInv, CarriedIsReady, TypeOK, Target, Outstanding,
   Results, Reasons, Statuses, Places

(* Type correctness, whatever the actions, targets, versions and calls. *)
THEOREM TypeCorrect == Spec => []TypeOK
<1>1. TypeInv => TypeOK
  BY DEF TypeInv
<1> QED
  BY <1>1, TypeInit, TypeStep, PTL DEF Spec

-----------------------------------------------------------------------------
(* The claim of the mutation call is exclusive and final: of all the steps only
   prepare_dispatch, claim_mutation and the call itself touch it. *)
LEMMA ClaimStep == TypeInv /\ ClaimInv /\ [Next]_vars => ClaimInv'
<1> SUFFICES ASSUME TypeInv, ClaimInv, [Next]_vars PROVE ClaimInv'
  OBVIOUS
<1> USE DEF TypeInv, TypeOK, ClaimInv, ClaimPassed, Goto, Outstanding,
      actionRows, targetRows, leaseRows, settleRows, provider, locals
<1>0. ASSUME NEW c \in Calls, NEW place \in Places \ {"mutate"},
             pc' = [pc EXCEPT ![c] = place], UNCHANGED <<dispatch, mutateCalls, act>>
      PROVE  ClaimInv'
  BY <1>0
<1>1. ASSUME NEW c \in Calls, ClaimRecovery(c) PROVE ClaimInv'
  <2>1. PICK place \in {"acquire", "reauthorize", "acknowledge"} :
          pc' = [pc EXCEPT ![c] = place]
    BY <1>1 DEF ClaimRecovery
  <2> QED
    BY <1>0, <1>1, <2>1 DEF ClaimRecovery, Places
<1>2. ASSUME NEW c \in Calls, AcquireStale(c) PROVE ClaimInv'
  BY <1>2 DEF AcquireStale
<1>3. ASSUME NEW c \in Calls, AcquireReservation(c) PROVE ClaimInv'
  BY <1>3 DEF AcquireReservation, TargetFree
<1>4. ASSUME NEW c \in Calls, AuthorizeForExecution(c) PROVE ClaimInv'
  <2>1. PICK place \in {"observe", "release"} : pc' = [pc EXCEPT ![c] = place]
    BY <1>4 DEF AuthorizeForExecution
  <2> QED
    BY <1>0, <1>4, <2>1 DEF AuthorizeForExecution, Places
<1>5. ASSUME NEW c \in Calls, CheckPreconditions(c) PROVE ClaimInv'
  <2>1. PICK place \in {"prepare", "release"} : pc' = [pc EXCEPT ![c] = place]
    BY <1>5 DEF CheckPreconditions
  <2> QED
    BY <1>0, <1>5, <2>1 DEF CheckPreconditions, Places
<1>6. ASSUME NEW c \in Calls, ReleaseBeforeMutation(c) PROVE ClaimInv'
  BY <1>6 DEF ReleaseBeforeMutation, ReleasedStatus
<1>7. ASSUME NEW c \in Calls, PrepareDispatch(c) PROVE ClaimInv'
  BY <1>7 DEF PrepareDispatch
<1>8. ASSUME NEW c \in Calls, AuthorizePreparedDispatch(c) PROVE ClaimInv'
  BY <1>8 DEF AuthorizePreparedDispatch
<1>9. ASSUME NEW c \in Calls, ClaimMutation(c) PROVE ClaimInv'
  BY <1>9 DEF ClaimMutation
<1>10. ASSUME NEW c \in Calls, Mutate(c) PROVE ClaimInv'
  BY <1>10 DEF Mutate
<1>11. ASSUME NEW c \in Calls, ConnectorReturns(c) PROVE ClaimInv'
  BY <1>11 DEF ConnectorReturns
<1>12. ASSUME NEW c \in Calls, RecordConnectorAck(c) PROVE ClaimInv'
  BY <1>12 DEF RecordConnectorAck
<1>13. ASSUME NEW c \in Calls, Reconcile(c) PROVE ClaimInv'
  BY <1>13 DEF Reconcile
<1>14. ASSUME NEW c \in Calls, FinalizeDispatch(c) PROVE ClaimInv'
  BY <1>14 DEF FinalizeDispatch, SettledStatus, KeepsReservation
<1>15. ASSUME NEW c \in Calls, Fail(c) PROVE ClaimInv'
  BY <1>15 DEF Fail
<1>16. ASSUME NEW a \in Actions, PlanAction(a) PROVE ClaimInv'
  BY <1>16 DEF PlanAction
<1>17. ASSUME NEW a \in Actions, LeaseExpires(a) PROVE ClaimInv'
  BY <1>17 DEF LeaseExpires
<1>18. ASSUME NEW a \in Actions, EffectLands(a) PROVE ClaimInv'
  BY <1>18 DEF EffectLands
<1>19. ASSUME NEW a \in Actions, RequestLost(a) PROVE ClaimInv'
  BY <1>19 DEF RequestLost
<1>20. ASSUME NEW t \in Targets, Drift(t) PROVE ClaimInv'
  BY <1>20 DEF Drift
<1>21. CASE UNCHANGED vars
  BY <1>21 DEF vars
<1> QED
  BY <1>1, <1>2, <1>3, <1>4, <1>5, <1>6, <1>7, <1>8, <1>9, <1>10, <1>11, <1>12, <1>13, <1>14, <1>15, <1>16, <1>17, <1>18, <1>19, <1>20, <1>21 DEF Next, Execute, Environment

(* connector.mutate is called at most once for an action. *)
THEOREM AtMostOneCall == Spec => []AtMostOneMutationCall
<1>1. Init => ClaimInv
  BY ActuatorAssumption DEF Init, ClaimInv, ClaimPassed
<1>2. TypeInv /\ ClaimInv => AtMostOneMutationCall
  <2> SUFFICES ASSUME TypeInv, ClaimInv, NEW a \in Actions PROVE mutateCalls[a] <= 1
    BY DEF AtMostOneMutationCall
  <2>1. mutateCalls[a] \in Nat
    BY DEF TypeInv, TypeOK
  <2>2. mutateCalls[a] = 0 \/ mutateCalls[a] = 1
    BY DEF ClaimInv
  <2> QED
    BY <2>2
<1> QED
  BY <1>1, <1>2, TypeInit, TypeStep, ClaimStep, PTL DEF Spec

-----------------------------------------------------------------------------
(* Every step keeps the reservation current, exclusive and in agreement with
   the dispatch, the receipt and the place of the call that holds it. *)
LEMMA FenceStep == TypeInv /\ FenceInv /\ [Next]_vars => FenceInv'
<1> SUFFICES ASSUME TypeInv, FenceInv, [Next]_vars PROVE FenceInv'
  OBVIOUS
<1> USE ActuatorAssumption DEF TypeInv, TypeOK, FenceInv, ReservedIsPlanned,
      AuthorizedIsFresh, HeldIsCurrent, HeldIsExclusive, OpenDispatchIsHeld,
      SettledTogether, HolderBeforeDispatch, BeforeDispatch, Goto, Target, Outstanding,
      actionRows, targetRows, leaseRows, settleRows, provider, locals
<1>1. ASSUME NEW c \in Calls, ClaimRecovery(c) PROVE FenceInv'
  BY <1>1 DEF ClaimRecovery
<1>2. ASSUME NEW c \in Calls, AcquireStale(c) PROVE FenceInv'
  BY <1>2 DEF AcquireStale
<1>3. ASSUME NEW c \in Calls, AcquireReservation(c) PROVE FenceInv'
  BY <1>3 DEF AcquireReservation, TargetFree
<1>4. ASSUME NEW c \in Calls, AuthorizeForExecution(c) PROVE FenceInv'
  BY <1>4 DEF AuthorizeForExecution
<1>5. ASSUME NEW c \in Calls, CheckPreconditions(c) PROVE FenceInv'
  BY <1>5 DEF CheckPreconditions
<1>6. ASSUME NEW c \in Calls, ReleaseBeforeMutation(c) PROVE FenceInv'
  BY <1>6 DEF ReleaseBeforeMutation, ReleasedStatus
<1>7. ASSUME NEW c \in Calls, PrepareDispatch(c) PROVE FenceInv'
  <2>1. /\ dispatch[act[c]] = "none" /\ holder[act[c]] = c /\ reservation[act[c]] = "held"
        /\ pc[c] = "prepare" /\ status[act[c]] = "EXECUTING"
        /\ act[c] \in Actions
    BY <1>7 DEF PrepareDispatch, HoldsLive
  <2>2. /\ dispatch' = [dispatch EXCEPT ![act[c]] = "PREPARED"]
        /\ pc' = [pc EXCEPT ![c] = "claim"]
        /\ UNCHANGED <<status, bound, epoch, reservation, holder, receipt, act>>
    BY <1>7 DEF PrepareDispatch
  <2>3. ReservedIsPlanned' /\ AuthorizedIsFresh' /\ HeldIsCurrent' /\ HeldIsExclusive'
    BY <2>1, <2>2
  <2>4. OpenDispatchIsHeld' /\ SettledTogether'
    BY <2>1, <2>2
  <2>5. HolderBeforeDispatch'
    BY <2>1, <2>2
  <2> QED
    BY <2>3, <2>4, <2>5
<1>8. ASSUME NEW c \in Calls, AuthorizePreparedDispatch(c) PROVE FenceInv'
  BY <1>8 DEF AuthorizePreparedDispatch
<1>9. ASSUME NEW c \in Calls, ClaimMutation(c) PROVE FenceInv'
  BY <1>9 DEF ClaimMutation
<1>10. ASSUME NEW c \in Calls, Mutate(c) PROVE FenceInv'
  BY <1>10 DEF Mutate
<1>11. ASSUME NEW c \in Calls, ConnectorReturns(c) PROVE FenceInv'
  BY <1>11 DEF ConnectorReturns
<1>12. ASSUME NEW c \in Calls, RecordConnectorAck(c) PROVE FenceInv'
  BY <1>12 DEF RecordConnectorAck
<1>13. ASSUME NEW c \in Calls, Reconcile(c) PROVE FenceInv'
  BY <1>13 DEF Reconcile
<1>14. ASSUME NEW c \in Calls, FinalizeDispatch(c) PROVE FenceInv'
  <2> DEFINE a == act[c]
  <2>1. /\ a \in Actions /\ carry[c] \in Results
        /\ dispatch[a] = "RECONCILING" /\ status[a] = "EXECUTING"
        /\ reservation[a] = "held" /\ holder[a] = c
    BY <1>14 DEF FinalizeDispatch, SettledStatus, KeepsReservation, HoldsLive, CarriedIsReady
  <2>2. /\ receipt' = [receipt EXCEPT ![a] = carry[c]]
        /\ status' = [status EXCEPT ![a] = carry[c]]
        /\ pc' = [pc EXCEPT ![c] = "done"]
        /\ UNCHANGED <<bound, epoch, holder, act>>
    BY <1>14, <2>1 DEF FinalizeDispatch, SettledStatus, KeepsReservation
  <2>3. CASE carry[c] = "AMBIGUOUS"
    <3>1. /\ dispatch' = [dispatch EXCEPT ![a] = "AMBIGUOUS"]
          /\ reservation' = reservation
      BY <1>14, <2>3 DEF FinalizeDispatch, SettledStatus, KeepsReservation
    <3> QED
      BY <2>1, <2>2, <2>3, <3>1
  <2>4. CASE carry[c] \in {"SUCCEEDED", "FAILED"}
    <3>1. /\ dispatch' = [dispatch EXCEPT ![a] = "EXECUTED"]
          /\ reservation' = [reservation EXCEPT ![a] = "released"]
      BY <1>14, <2>4 DEF FinalizeDispatch, SettledStatus, KeepsReservation
    <3> QED
      BY <2>1, <2>2, <2>4, <3>1
  <2> QED
    BY <2>1, <2>3, <2>4 DEF Results
<1>15. ASSUME NEW c \in Calls, Fail(c) PROVE FenceInv'
  BY <1>15 DEF Fail
<1>16. ASSUME NEW a \in Actions, PlanAction(a) PROVE FenceInv'
  BY <1>16 DEF PlanAction
<1>17. ASSUME NEW a \in Actions, LeaseExpires(a) PROVE FenceInv'
  BY <1>17 DEF LeaseExpires
<1>18. ASSUME NEW a \in Actions, EffectLands(a) PROVE FenceInv'
  BY <1>18 DEF EffectLands
<1>19. ASSUME NEW a \in Actions, RequestLost(a) PROVE FenceInv'
  BY <1>19 DEF RequestLost
<1>20. ASSUME NEW t \in Targets, Drift(t) PROVE FenceInv'
  BY <1>20 DEF Drift
<1>21. CASE UNCHANGED vars
  BY <1>21 DEF vars
<1> QED
  BY <1>1, <1>2, <1>3, <1>4, <1>5, <1>6, <1>7, <1>8, <1>9, <1>10, <1>11, <1>12, <1>13, <1>14, <1>15, <1>16, <1>17, <1>18, <1>19, <1>20, <1>21 DEF Next, Execute, Environment

(* The initial state has no reservation and no dispatch. *)
LEMMA FenceInit == Init => FenceInv
BY DEF Init, FenceInv, ReservedIsPlanned, AuthorizedIsFresh, HeldIsCurrent,
   HeldIsExclusive, OpenDispatchIsHeld, SettledTogether, HolderBeforeDispatch,
   BeforeDispatch, Outstanding

(* The two invariants hold together in every behaviour. *)
LEMMA FenceAlways == Spec => [](TypeInv /\ FenceInv)
BY TypeInit, TypeStep, FenceInit, FenceStep, PTL DEF Spec

(* Two actions never have an open mutation on one target. *)
THEOREM OneOpenMutation == Spec => []OneOpenMutationPerTarget
<1>1. TypeInv /\ FenceInv => OneOpenMutationPerTarget
  BY DEF FenceInv, HeldIsExclusive, OpenDispatchIsHeld, Outstanding,
     OneOpenMutationPerTarget, MutationOpen
<1> QED
  BY <1>1, FenceAlways, PTL

(* What is about to mutate or settle was planned against the newest epoch. *)
THEOREM NoSupersededPlan == Spec => []NoSupersededPlanMutates
<1>1. TypeInv /\ FenceInv => NoSupersededPlanMutates
  BY DEF FenceInv, HeldIsCurrent, OpenDispatchIsHeld, Outstanding,
     NoSupersededPlanMutates, MutationOpen
<1> QED
  BY <1>1, FenceAlways, PTL

(* Receipt, dispatch and action tell the same outcome. *)
THEOREM OutcomesAgree == Spec => []OutcomeRecordsAgree
<1>1. TypeInv /\ FenceInv => OutcomeRecordsAgree
  BY DEF TypeInv, TypeOK, FenceInv, SettledTogether, Outstanding, OutcomeRecordsAgree
<1> QED
  BY <1>1, FenceAlways, PTL

-----------------------------------------------------------------------------
(* A call past the dispatch has a dispatch row behind it. *)
AfterDispatch == {"reauthorize", "claim", "mutate", "returning"}

DispatchBehind == \A c \in Calls : pc[c] \in AfterDispatch => dispatch[act[c]] # "none"

(* No step takes a dispatch row away. *)
LEMMA DispatchBehindStep == TypeInv /\ DispatchBehind /\ [Next]_vars => DispatchBehind'
<1> SUFFICES ASSUME TypeInv, DispatchBehind, [Next]_vars PROVE DispatchBehind'
  OBVIOUS
<1> USE DEF TypeInv, TypeOK, DispatchBehind, AfterDispatch, Goto, Outstanding,
      actionRows, targetRows, leaseRows, settleRows, provider, locals
<1>1. ASSUME NEW c \in Calls, ClaimRecovery(c) PROVE DispatchBehind'
  BY <1>1 DEF ClaimRecovery
<1>2. ASSUME NEW c \in Calls, AcquireStale(c) PROVE DispatchBehind'
  BY <1>2 DEF AcquireStale
<1>3. ASSUME NEW c \in Calls, AcquireReservation(c) PROVE DispatchBehind'
  BY <1>3 DEF AcquireReservation, TargetFree
<1>4. ASSUME NEW c \in Calls, AuthorizeForExecution(c) PROVE DispatchBehind'
  BY <1>4 DEF AuthorizeForExecution
<1>5. ASSUME NEW c \in Calls, CheckPreconditions(c) PROVE DispatchBehind'
  BY <1>5 DEF CheckPreconditions
<1>6. ASSUME NEW c \in Calls, ReleaseBeforeMutation(c) PROVE DispatchBehind'
  BY <1>6 DEF ReleaseBeforeMutation, ReleasedStatus
<1>7. ASSUME NEW c \in Calls, PrepareDispatch(c) PROVE DispatchBehind'
  BY <1>7 DEF PrepareDispatch
<1>8. ASSUME NEW c \in Calls, AuthorizePreparedDispatch(c) PROVE DispatchBehind'
  BY <1>8 DEF AuthorizePreparedDispatch
<1>9. ASSUME NEW c \in Calls, ClaimMutation(c) PROVE DispatchBehind'
  BY <1>9 DEF ClaimMutation
<1>10. ASSUME NEW c \in Calls, Mutate(c) PROVE DispatchBehind'
  BY <1>10 DEF Mutate
<1>11. ASSUME NEW c \in Calls, ConnectorReturns(c) PROVE DispatchBehind'
  BY <1>11 DEF ConnectorReturns
<1>12. ASSUME NEW c \in Calls, RecordConnectorAck(c) PROVE DispatchBehind'
  BY <1>12 DEF RecordConnectorAck
<1>13. ASSUME NEW c \in Calls, Reconcile(c) PROVE DispatchBehind'
  BY <1>13 DEF Reconcile
<1>14. ASSUME NEW c \in Calls, FinalizeDispatch(c) PROVE DispatchBehind'
  BY <1>14 DEF FinalizeDispatch, SettledStatus, KeepsReservation
<1>15. ASSUME NEW c \in Calls, Fail(c) PROVE DispatchBehind'
  BY <1>15 DEF Fail
<1>16. ASSUME NEW a \in Actions, PlanAction(a) PROVE DispatchBehind'
  BY <1>16 DEF PlanAction
<1>17. ASSUME NEW a \in Actions, LeaseExpires(a) PROVE DispatchBehind'
  BY <1>17 DEF LeaseExpires
<1>18. ASSUME NEW a \in Actions, EffectLands(a) PROVE DispatchBehind'
  BY <1>18 DEF EffectLands
<1>19. ASSUME NEW a \in Actions, RequestLost(a) PROVE DispatchBehind'
  BY <1>19 DEF RequestLost
<1>20. ASSUME NEW t \in Targets, Drift(t) PROVE DispatchBehind'
  BY <1>20 DEF Drift
<1>21. CASE UNCHANGED vars
  BY <1>21 DEF vars
<1> QED
  BY <1>1, <1>2, <1>3, <1>4, <1>5, <1>6, <1>7, <1>8, <1>9, <1>10, <1>11, <1>12, <1>13, <1>14, <1>15, <1>16, <1>17, <1>18, <1>19, <1>20, <1>21 DEF Next, Execute, Environment

(* A reservation is released before the mutation or after its conclusion. *)
THEOREM ReleaseJustified == Spec => []ReleaseIsJustified
<1>1. Init => ClaimInv /\ DispatchBehind
  BY ActuatorAssumption DEF Init, ClaimInv, ClaimPassed, DispatchBehind, AfterDispatch
<1>2. TypeInv /\ FenceInv /\ ClaimInv /\ DispatchBehind => ReleaseIsJustified
  <2> SUFFICES ASSUME TypeInv, FenceInv, ClaimInv, DispatchBehind,
                      NEW a \in Actions, reservation[a] = "released",
                      receipt[a] \notin {"SUCCEEDED", "FAILED"}
               PROVE  /\ dispatch[a] = "none"
                      /\ mutateCalls[a] = 0
                      /\ \A c \in Calls : act[c] = a =>
                            pc[c] \notin {"claim", "mutate", "returning"}
    BY DEF ReleaseIsJustified
  <2>1. dispatch[a] = "none"
    BY DEF TypeInv, TypeOK, FenceInv, OpenDispatchIsHeld, SettledTogether, Outstanding
  <2>2. mutateCalls[a] = 0
    BY <2>1 DEF ClaimInv, ClaimPassed
  <2>3. \A c \in Calls : act[c] = a => pc[c] \notin {"claim", "mutate", "returning"}
    BY <2>1 DEF DispatchBehind, AfterDispatch
  <2> QED
    BY <2>1, <2>2, <2>3
<1> QED
  BY <1>1, <1>2, TypeInit, TypeStep, ClaimStep, DispatchBehindStep, FenceAlways, PTL DEF Spec

(* A receipt is written once, under the live lease of the call that writes it. *)
THEOREM ReceiptFinal == Spec => ReceiptIsFinal
<1>1. TypeInv /\ [Next]_vars =>
        [\A a \in Actions : receipt'[a] # receipt[a] =>
           /\ receipt[a] = "none"
           /\ leaseLive[a]
           /\ pc[holder[a]] = "finalize"]_vars
  <2> SUFFICES ASSUME TypeInv, [Next]_vars, NEW a \in Actions, receipt'[a] # receipt[a]
               PROVE  receipt[a] = "none" /\ leaseLive[a] /\ pc[holder[a]] = "finalize"
    OBVIOUS
  <2>1. PICK c \in Calls : FinalizeDispatch(c)
    BY DEF Next, Execute, Environment, vars, actionRows, targetRows, leaseRows, settleRows,
           ClaimRecovery, AcquireStale, AcquireReservation, AuthorizeForExecution,
           CheckPreconditions, ReleaseBeforeMutation, PrepareDispatch,
           AuthorizePreparedDispatch, ClaimMutation, Mutate, ConnectorReturns,
           RecordConnectorAck, Reconcile, Fail, PlanAction, LeaseExpires, EffectLands,
           RequestLost, Drift
  <2>2. act[c] = a /\ receipt[a] = "none" /\ HoldsLive(c)
    BY <2>1 DEF FinalizeDispatch, TypeInv, TypeOK
  <2> QED
    BY <2>1, <2>2 DEF FinalizeDispatch, HoldsLive
<1> QED
  BY <1>1, TypeInit, TypeStep, PTL DEF Spec, ReceiptIsFinal

-----------------------------------------------------------------------------
(* Each step moves at most one action of the fence, and only along its rules. *)
LEMMA FenceStepSimulates ==
  TypeInv /\ FenceInv /\ [Next]_vars => [Fence!Next]_FencePhase
<1> SUFFICES ASSUME TypeInv, FenceInv, [Next]_vars PROVE [Fence!Next]_FencePhase
  OBVIOUS
<1> USE ActuatorAssumption DEF TypeInv, TypeOK, FenceInv, FencePhase, Goto, Target,
      Outstanding, actionRows, targetRows, leaseRows, settleRows, provider, locals
<1>0. ASSUME UNCHANGED <<reservation, dispatch>> PROVE UNCHANGED FencePhase
  BY <1>0
<1>1. ASSUME NEW c \in Calls, ClaimRecovery(c) PROVE UNCHANGED FencePhase
  BY <1>0, <1>1 DEF ClaimRecovery
<1>2. ASSUME NEW c \in Calls, AcquireStale(c) PROVE UNCHANGED FencePhase
  BY <1>0, <1>2 DEF AcquireStale
<1>3. ASSUME NEW c \in Calls, AuthorizeForExecution(c) PROVE UNCHANGED FencePhase
  BY <1>0, <1>3 DEF AuthorizeForExecution
<1>4. ASSUME NEW c \in Calls, CheckPreconditions(c) PROVE UNCHANGED FencePhase
  BY <1>0, <1>4 DEF CheckPreconditions
<1>5. ASSUME NEW c \in Calls, AuthorizePreparedDispatch(c) PROVE UNCHANGED FencePhase
  BY <1>0, <1>5 DEF AuthorizePreparedDispatch
<1>6. ASSUME NEW c \in Calls, Mutate(c) PROVE UNCHANGED FencePhase
  BY <1>0, <1>6 DEF Mutate
<1>7. ASSUME NEW c \in Calls, ConnectorReturns(c) PROVE UNCHANGED FencePhase
  BY <1>0, <1>7 DEF ConnectorReturns
<1>8. ASSUME NEW c \in Calls, Reconcile(c) PROVE UNCHANGED FencePhase
  BY <1>0, <1>8 DEF Reconcile
<1>9. ASSUME NEW c \in Calls, Fail(c) PROVE UNCHANGED FencePhase
  BY <1>0, <1>9 DEF Fail
<1>10. ASSUME NEW a \in Actions, PlanAction(a) PROVE UNCHANGED FencePhase
  BY <1>0, <1>10 DEF PlanAction
<1>11. ASSUME NEW a \in Actions, LeaseExpires(a) PROVE UNCHANGED FencePhase
  BY <1>0, <1>11 DEF LeaseExpires
<1>12. ASSUME NEW a \in Actions, EffectLands(a) PROVE UNCHANGED FencePhase
  BY <1>0, <1>12 DEF EffectLands
<1>13. ASSUME NEW a \in Actions, RequestLost(a) PROVE UNCHANGED FencePhase
  BY <1>0, <1>13 DEF RequestLost
<1>14. ASSUME NEW t \in Targets, Drift(t) PROVE UNCHANGED FencePhase
  BY <1>0, <1>14 DEF Drift
<1>15. ASSUME UNCHANGED vars PROVE UNCHANGED FencePhase
  BY <1>0, <1>15 DEF vars
<1>16. ASSUME NEW c \in Calls, AcquireReservation(c) PROVE Fence!Next
  <2> DEFINE a == act[c]
  <2>1. /\ a \in Actions /\ reservation[a] = "none" /\ dispatch[a] = "none"
        /\ reservation' = [reservation EXCEPT ![a] = "held"] /\ dispatch' = dispatch
    BY <1>16 DEF AcquireReservation, TargetFree, AuthorizedIsFresh
  <2>2. FencePhase[a] = "idle" /\ FencePhase' = [FencePhase EXCEPT ![a] = "reserved"]
    BY <2>1
  <2>3. Fence!TargetFree(TargetOf[a])
    BY <1>16, <2>1 DEF AcquireReservation, TargetFree, Fence!TargetFree, Fence!Owns, Fence!Owning,
       OpenDispatchIsHeld
  <2> QED
    BY <2>1, <2>2, <2>3 DEF Fence!Next, Fence!Reserve, Fence!MoveTo
<1>17. ASSUME NEW c \in Calls, ReleaseBeforeMutation(c) PROVE Fence!Next
  <2> DEFINE a == act[c]
  <2>1. /\ a \in Actions /\ reservation[a] = "held" /\ dispatch[a] = "none"
        /\ reservation' = [reservation EXCEPT ![a] = "released"] /\ dispatch' = dispatch
    BY <1>17 DEF ReleaseBeforeMutation, ReleasedStatus, HolderBeforeDispatch, BeforeDispatch
  <2>2. FencePhase[a] = "reserved" /\ FencePhase' = [FencePhase EXCEPT ![a] = "abandoned"]
    BY <2>1
  <2> QED
    BY <2>1, <2>2 DEF Fence!Next, Fence!Abandon, Fence!MoveTo
<1>18. ASSUME NEW c \in Calls, PrepareDispatch(c) PROVE UNCHANGED FencePhase
  <2>1. /\ act[c] \in Actions /\ reservation[act[c]] = "held" /\ dispatch[act[c]] = "none"
        /\ dispatch' = [dispatch EXCEPT ![act[c]] = "PREPARED"] /\ reservation' = reservation
    BY <1>18 DEF PrepareDispatch, HoldsLive
  <2> QED
    BY <2>1
<1>19. ASSUME NEW c \in Calls, ClaimMutation(c) PROVE Fence!Next
  <2> DEFINE a == act[c]
  <2>1. /\ a \in Actions /\ reservation[a] = "held" /\ dispatch[a] = "PREPARED"
        /\ dispatch' = [dispatch EXCEPT ![a] = "MUTATION_ISSUED"] /\ reservation' = reservation
    BY <1>19 DEF ClaimMutation, HoldsLive
  <2>2. FencePhase[a] = "reserved" /\ FencePhase' = [FencePhase EXCEPT ![a] = "claimed"]
    BY <2>1
  <2> QED
    BY <2>1, <2>2 DEF Fence!Next, Fence!ClaimMutation, Fence!MoveTo
<1>20. ASSUME NEW c \in Calls, RecordConnectorAck(c) PROVE UNCHANGED FencePhase
  <2>1. /\ act[c] \in Actions /\ reservation[act[c]] = "held"
        /\ dispatch[act[c]] \in {"MUTATION_ISSUED", "RECONCILING"}
        /\ dispatch' = [dispatch EXCEPT ![act[c]] = "RECONCILING"] /\ reservation' = reservation
    BY <1>20 DEF RecordConnectorAck, HoldsLive
  <2> QED
    BY <2>1
<1>21. ASSUME NEW c \in Calls, FinalizeDispatch(c) PROVE Fence!Next
  <2> DEFINE a == act[c]
  <2>1. /\ a \in Actions /\ carry[c] \in Results
        /\ dispatch[a] = "RECONCILING" /\ reservation[a] = "held"
    BY <1>21 DEF FinalizeDispatch, SettledStatus, KeepsReservation, HoldsLive, CarriedIsReady
  <2>2. FencePhase[a] = "claimed"
    BY <2>1
  <2>3. CASE carry[c] = "AMBIGUOUS"
    <3>1. /\ dispatch' = [dispatch EXCEPT ![a] = "AMBIGUOUS"]
          /\ reservation' = reservation
      BY <1>21, <2>3 DEF FinalizeDispatch, SettledStatus, KeepsReservation
    <3>2. FencePhase' = [FencePhase EXCEPT ![a] = "ambiguous"]
      BY <2>1, <3>1
    <3> QED
      BY <2>1, <2>2, <3>2 DEF Fence!Next, Fence!SettleAmbiguous, Fence!MoveTo
  <2>4. CASE carry[c] \in {"SUCCEEDED", "FAILED"}
    <3>1. /\ dispatch' = [dispatch EXCEPT ![a] = "EXECUTED"]
          /\ reservation' = [reservation EXCEPT ![a] = "released"]
      BY <1>21, <2>4 DEF FinalizeDispatch, SettledStatus, KeepsReservation
    <3>2. FencePhase' = [FencePhase EXCEPT ![a] = "settled"]
      BY <2>1, <3>1
    <3> QED
      BY <2>1, <2>2, <3>2 DEF Fence!Next, Fence!Settle, Fence!MoveTo
  <2> QED
    BY <2>1, <2>3, <2>4 DEF Results
<1> QED
  BY <1>1, <1>2, <1>3, <1>4, <1>5, <1>6, <1>7, <1>8, <1>9, <1>10, <1>11, <1>12, <1>13, <1>14, <1>15, <1>16, <1>17, <1>18, <1>19, <1>20, <1>21 DEF Next, Execute, Environment

(* The protocol implements the fence: one owner of a target at a time, one
   claim of the mutation call, and no way out of an ambiguous outcome. *)
THEOREM Implementation == Spec => ImplementsFence
<1>1. Init => Fence!Init
  BY DEF Init, Fence!Init, FencePhase
<1> QED
  BY <1>1, FenceAlways, FenceStepSimulates, PTL DEF Spec, ImplementsFence, Fence!Spec

-----------------------------------------------------------------------------
(* What a crash leaves behind.  A call that has ended does nothing more, and
   an action is only ever executed by the calls that were made for it. *)
EndedStays ==
  /\ act' = act
  /\ \A d \in Calls : pc[d] = "done" => pc'[d] = "done"

LEMMA CallsEnd == TypeInv /\ [Next]_vars => EndedStays
<1> SUFFICES ASSUME TypeInv, [Next]_vars PROVE EndedStays
  OBVIOUS
<1> USE DEF EndedStays, TypeInv, TypeOK, Goto, locals
<1>1. ASSUME NEW c \in Calls, ClaimRecovery(c) PROVE EndedStays
  BY <1>1 DEF ClaimRecovery
<1>2. ASSUME NEW c \in Calls, AcquireStale(c) PROVE EndedStays
  BY <1>2 DEF AcquireStale
<1>3. ASSUME NEW c \in Calls, AcquireReservation(c) PROVE EndedStays
  BY <1>3 DEF AcquireReservation
<1>4. ASSUME NEW c \in Calls, AuthorizeForExecution(c) PROVE EndedStays
  BY <1>4 DEF AuthorizeForExecution
<1>5. ASSUME NEW c \in Calls, CheckPreconditions(c) PROVE EndedStays
  BY <1>5 DEF CheckPreconditions
<1>6. ASSUME NEW c \in Calls, ReleaseBeforeMutation(c) PROVE EndedStays
  BY <1>6 DEF ReleaseBeforeMutation
<1>7. ASSUME NEW c \in Calls, PrepareDispatch(c) PROVE EndedStays
  BY <1>7 DEF PrepareDispatch
<1>8. ASSUME NEW c \in Calls, AuthorizePreparedDispatch(c) PROVE EndedStays
  BY <1>8 DEF AuthorizePreparedDispatch
<1>9. ASSUME NEW c \in Calls, ClaimMutation(c) PROVE EndedStays
  BY <1>9 DEF ClaimMutation
<1>10. ASSUME NEW c \in Calls, Mutate(c) PROVE EndedStays
  BY <1>10 DEF Mutate
<1>11. ASSUME NEW c \in Calls, ConnectorReturns(c) PROVE EndedStays
  BY <1>11 DEF ConnectorReturns
<1>12. ASSUME NEW c \in Calls, RecordConnectorAck(c) PROVE EndedStays
  BY <1>12 DEF RecordConnectorAck
<1>13. ASSUME NEW c \in Calls, Reconcile(c) PROVE EndedStays
  BY <1>13 DEF Reconcile
<1>14. ASSUME NEW c \in Calls, FinalizeDispatch(c) PROVE EndedStays
  BY <1>14 DEF FinalizeDispatch
<1>15. ASSUME NEW c \in Calls, Fail(c) PROVE EndedStays
  BY <1>15 DEF Fail
<1>16. ASSUME NEW a \in Actions, PlanAction(a) PROVE EndedStays
  BY <1>16 DEF PlanAction
<1>17. ASSUME NEW a \in Actions, LeaseExpires(a) PROVE EndedStays
  BY <1>17 DEF LeaseExpires
<1>18. ASSUME NEW a \in Actions, EffectLands(a) PROVE EndedStays
  BY <1>18 DEF EffectLands
<1>19. ASSUME NEW a \in Actions, RequestLost(a) PROVE EndedStays
  BY <1>19 DEF RequestLost
<1>20. ASSUME NEW t \in Targets, Drift(t) PROVE EndedStays
  BY <1>20 DEF Drift
<1>21. CASE UNCHANGED vars
  BY <1>21 DEF vars
<1> QED
  BY <1>1, <1>2, <1>3, <1>4, <1>5, <1>6, <1>7, <1>8, <1>9, <1>10, <1>11, <1>12, <1>13, <1>14, <1>15, <1>16, <1>17, <1>18, <1>19, <1>20, <1>21 DEF Next, Execute, Environment

(* Only three things move the rows of an action: the insert of its reservation
   into a free target, and the steps of a call that is still running, which
   either took the reservation itself or recovers an outstanding dispatch. *)
RowsStay(a) ==
  /\ reservation'[a] = reservation[a]
  /\ holder'[a] = holder[a]
  /\ dispatch'[a] = dispatch[a]
  /\ receipt'[a] = receipt[a]

Acquirable(a) == \E d \in Calls : act[d] = a /\ pc[d] = "acquire" /\ TargetFree(a)

Driven(a) ==
  \E d \in Calls :
    /\ act[d] = a
    /\ pc[d] # "done"
    /\ reservation[a] = "held"
    /\ dispatch[a] \in Outstanding \/ holder[a] = d

RowsMove == \A b \in Actions : RowsStay(b) \/ Acquirable(b) \/ Driven(b)

LEMMA RowMoves == TypeInv /\ [Next]_vars => RowsMove
<1> SUFFICES ASSUME TypeInv, [Next]_vars PROVE RowsMove
  OBVIOUS
<1> USE DEF RowsMove, RowsStay, Acquirable, Driven, TypeInv, TypeOK, Goto,
      leaseRows, settleRows
<1>1. ASSUME NEW c \in Calls, ClaimRecovery(c) PROVE RowsMove
  BY <1>1 DEF ClaimRecovery
<1>2. ASSUME NEW c \in Calls, AcquireStale(c) PROVE RowsMove
  BY <1>2 DEF AcquireStale
<1>3. ASSUME NEW c \in Calls, AcquireReservation(c) PROVE RowsMove
  BY <1>3 DEF AcquireReservation, TargetFree
<1>4. ASSUME NEW c \in Calls, AuthorizeForExecution(c) PROVE RowsMove
  BY <1>4 DEF AuthorizeForExecution, HoldsLive
<1>5. ASSUME NEW c \in Calls, CheckPreconditions(c) PROVE RowsMove
  BY <1>5 DEF CheckPreconditions
<1>6. ASSUME NEW c \in Calls, ReleaseBeforeMutation(c) PROVE RowsMove
  BY <1>6 DEF ReleaseBeforeMutation, HoldsLive
<1>7. ASSUME NEW c \in Calls, PrepareDispatch(c) PROVE RowsMove
  BY <1>7 DEF PrepareDispatch, HoldsLive
<1>8. ASSUME NEW c \in Calls, AuthorizePreparedDispatch(c) PROVE RowsMove
  BY <1>8 DEF AuthorizePreparedDispatch, HoldsLive
<1>9. ASSUME NEW c \in Calls, ClaimMutation(c) PROVE RowsMove
  BY <1>9 DEF ClaimMutation, HoldsLive
<1>10. ASSUME NEW c \in Calls, Mutate(c) PROVE RowsMove
  BY <1>10 DEF Mutate
<1>11. ASSUME NEW c \in Calls, ConnectorReturns(c) PROVE RowsMove
  BY <1>11 DEF ConnectorReturns
<1>12. ASSUME NEW c \in Calls, RecordConnectorAck(c) PROVE RowsMove
  BY <1>12 DEF RecordConnectorAck, HoldsLive
<1>13. ASSUME NEW c \in Calls, Reconcile(c) PROVE RowsMove
  BY <1>13 DEF Reconcile
<1>14. ASSUME NEW c \in Calls, FinalizeDispatch(c) PROVE RowsMove
  BY <1>14 DEF FinalizeDispatch, HoldsLive
<1>15. ASSUME NEW c \in Calls, Fail(c) PROVE RowsMove
  BY <1>15 DEF Fail
<1>16. ASSUME NEW a \in Actions, PlanAction(a) PROVE RowsMove
  BY <1>16 DEF PlanAction
<1>17. ASSUME NEW a \in Actions, LeaseExpires(a) PROVE RowsMove
  BY <1>17 DEF LeaseExpires
<1>18. ASSUME NEW a \in Actions, EffectLands(a) PROVE RowsMove
  BY <1>18 DEF EffectLands
<1>19. ASSUME NEW a \in Actions, RequestLost(a) PROVE RowsMove
  BY <1>19 DEF RequestLost
<1>20. ASSUME NEW t \in Targets, Drift(t) PROVE RowsMove
  BY <1>20 DEF Drift
<1>21. CASE UNCHANGED vars
  BY <1>21 DEF vars
<1> QED
  BY <1>1, <1>2, <1>3, <1>4, <1>5, <1>6, <1>7, <1>8, <1>9, <1>10, <1>11, <1>12, <1>13, <1>14, <1>15, <1>16, <1>17, <1>18, <1>19, <1>20, <1>21 DEF Next, Execute, Environment

(* A dispatch appears only when none is outstanding anywhere; it moves, and its
   receipt is written, only while it is outstanding. *)
DispatchMove ==
  \A b \in Actions :
    \/ dispatch'[b] = dispatch[b] /\ receipt'[b] = receipt[b]
    \/ /\ dispatch[b] \in Outstanding
       /\ \E d \in Calls : act[d] = b /\ pc[d] # "done"
    \/ /\ \A d \in Actions : dispatch[d] \notin Outstanding
       /\ \A d \in Actions \ {b} : dispatch'[d] = dispatch[d]

LEMMA DispatchMoves == TypeInv /\ [Next]_vars => DispatchMove
<1> SUFFICES ASSUME TypeInv, [Next]_vars PROVE DispatchMove
  OBVIOUS
<1> USE DEF DispatchMove, TypeInv, TypeOK, Goto, Outstanding, settleRows
<1>1. ASSUME NEW c \in Calls, ClaimRecovery(c) PROVE DispatchMove
  BY <1>1 DEF ClaimRecovery
<1>2. ASSUME NEW c \in Calls, AcquireStale(c) PROVE DispatchMove
  BY <1>2 DEF AcquireStale
<1>3. ASSUME NEW c \in Calls, AcquireReservation(c) PROVE DispatchMove
  BY <1>3 DEF AcquireReservation
<1>4. ASSUME NEW c \in Calls, AuthorizeForExecution(c) PROVE DispatchMove
  BY <1>4 DEF AuthorizeForExecution
<1>5. ASSUME NEW c \in Calls, CheckPreconditions(c) PROVE DispatchMove
  BY <1>5 DEF CheckPreconditions
<1>6. ASSUME NEW c \in Calls, ReleaseBeforeMutation(c) PROVE DispatchMove
  BY <1>6 DEF ReleaseBeforeMutation
<1>7. ASSUME NEW c \in Calls, PrepareDispatch(c) PROVE DispatchMove
  BY <1>7 DEF PrepareDispatch
<1>8. ASSUME NEW c \in Calls, AuthorizePreparedDispatch(c) PROVE DispatchMove
  BY <1>8 DEF AuthorizePreparedDispatch
<1>9. ASSUME NEW c \in Calls, ClaimMutation(c) PROVE DispatchMove
  BY <1>9 DEF ClaimMutation
<1>10. ASSUME NEW c \in Calls, Mutate(c) PROVE DispatchMove
  BY <1>10 DEF Mutate
<1>11. ASSUME NEW c \in Calls, ConnectorReturns(c) PROVE DispatchMove
  BY <1>11 DEF ConnectorReturns
<1>12. ASSUME NEW c \in Calls, RecordConnectorAck(c) PROVE DispatchMove
  BY <1>12 DEF RecordConnectorAck
<1>13. ASSUME NEW c \in Calls, Reconcile(c) PROVE DispatchMove
  BY <1>13 DEF Reconcile
<1>14. ASSUME NEW c \in Calls, FinalizeDispatch(c) PROVE DispatchMove
  BY <1>14 DEF FinalizeDispatch
<1>15. ASSUME NEW c \in Calls, Fail(c) PROVE DispatchMove
  BY <1>15 DEF Fail
<1>16. ASSUME NEW a \in Actions, PlanAction(a) PROVE DispatchMove
  BY <1>16 DEF PlanAction
<1>17. ASSUME NEW a \in Actions, LeaseExpires(a) PROVE DispatchMove
  BY <1>17 DEF LeaseExpires
<1>18. ASSUME NEW a \in Actions, EffectLands(a) PROVE DispatchMove
  BY <1>18 DEF EffectLands
<1>19. ASSUME NEW a \in Actions, RequestLost(a) PROVE DispatchMove
  BY <1>19 DEF RequestLost
<1>20. ASSUME NEW t \in Targets, Drift(t) PROVE DispatchMove
  BY <1>20 DEF Drift
<1>21. CASE UNCHANGED vars
  BY <1>21 DEF vars
<1> QED
  BY <1>1, <1>2, <1>3, <1>4, <1>5, <1>6, <1>7, <1>8, <1>9, <1>10, <1>11, <1>12, <1>13, <1>14, <1>15, <1>16, <1>17, <1>18, <1>19, <1>20, <1>21 DEF Next, Execute, Environment

-----------------------------------------------------------------------------
(* The actuator-wide index: one outstanding dispatch among all actions. *)
OneOutstanding ==
  \A a, b \in Actions :
    (dispatch[a] \in Outstanding /\ dispatch[b] \in Outstanding) => a = b

LEMMA OneOutstandingStep ==
  TypeInv /\ OneOutstanding /\ [Next]_vars => OneOutstanding'
<1> SUFFICES ASSUME TypeInv, OneOutstanding, [Next]_vars,
                    NEW a \in Actions, NEW b \in Actions,
                    dispatch'[a] \in Outstanding, dispatch'[b] \in Outstanding
             PROVE  a = b
  BY DEF OneOutstanding
<1>1. DispatchMove
  BY DispatchMoves
<1>2. CASE \A d \in Actions : dispatch[d] \notin Outstanding
  BY <1>1, <1>2 DEF DispatchMove
<1>3. CASE \E d \in Actions : dispatch[d] \in Outstanding
  <2>1. dispatch[a] \in Outstanding /\ dispatch[b] \in Outstanding
    BY <1>1, <1>3 DEF DispatchMove
  <2> QED
    BY <2>1 DEF OneOutstanding
<1> QED
  BY <1>2, <1>3

(* A reservation whose call ended before prepare_dispatch: no dispatch exists
   that claim_recovery could take over. *)
Orphaned(a) ==
  /\ reservation[a] = "held"
  /\ dispatch[a] = "none"
  /\ holder[a] \in Calls
  /\ pc[holder[a]] = "done"

(* An orphaned reservation is never released, and it stops its target: no
   action of the target is reserved, dispatched or settled any more. *)
OrphanBlocks ==
  \A a \in Actions : Orphaned(a) =>
    /\ Orphaned(a)'
    /\ \A b \in Actions : TargetOf[b] = TargetOf[a] =>
         /\ reservation'[b] = reservation[b]
         /\ dispatch'[b] = dispatch[b]
         /\ receipt'[b] = receipt[b]

(* A call that ends between acquire_reservation and prepare_dispatch leaves a
   reservation that nothing releases: the expiry is no way out, recovery starts
   from a dispatch, and the unique index refuses every later reservation. *)
THEOREM OrphanedReservationIsForEver == Spec => [][OrphanBlocks]_vars
<1>1. TypeInv /\ FenceInv /\ [Next]_vars => OrphanBlocks
  <2> SUFFICES ASSUME TypeInv, FenceInv, [Next]_vars, NEW a \in Actions, Orphaned(a)
               PROVE  /\ Orphaned(a)'
                      /\ \A b \in Actions : TargetOf[b] = TargetOf[a] => RowsStay(b)
    BY DEF OrphanBlocks, RowsStay
  <2>1. ASSUME NEW b \in Actions, TargetOf[b] = TargetOf[a] PROVE RowsStay(b)
    <3>1. ~Acquirable(b)
      BY <2>1 DEF Acquirable, TargetFree, Target, Orphaned
    <3>2. ~Driven(b)
      BY <2>1 DEF Driven, Orphaned, FenceInv, HeldIsExclusive, Outstanding
    <3> QED
      BY <3>1, <3>2, RowMoves DEF RowsMove
  <2>2. RowsStay(a)
    BY <2>1
  <2>3. pc'[holder[a]] = "done"
    BY CallsEnd DEF EndedStays, Orphaned
  <2>4. Orphaned(a)'
    BY <2>2, <2>3 DEF Orphaned, RowsStay
  <2> QED
    BY <2>1, <2>4
<1>2. TypeInv /\ FenceInv /\ [Next]_vars => [OrphanBlocks]_vars
  BY <1>1
<1> QED
  BY <1>2, FenceAlways, PTL DEF Spec

(* An outstanding dispatch whose calls have all ended. *)
Stranded(a) ==
  /\ dispatch[a] \in Outstanding
  /\ \A d \in Calls : act[d] = a => pc[d] = "done"

(* A stranded dispatch stops the whole actuator: no dispatch of any action of
   any target is created or moved, and no receipt is written. *)
StrandBlocks ==
  \A a \in Actions : Stranded(a) =>
    /\ Stranded(a)'
    /\ dispatch' = dispatch
    /\ receipt' = receipt

(* Only a new call for the same action gets an outstanding dispatch out of the
   way: the index on outstanding dispatches spans every target, so that calls
   for other actions can neither finish it nor begin their own. *)
THEOREM StrandedDispatchBlocksAll == Spec => [][StrandBlocks]_vars
<1>1. Init => OneOutstanding
  BY DEF Init, OneOutstanding, Outstanding
<1>2. TypeInv /\ TypeInv' /\ OneOutstanding /\ [Next]_vars => [StrandBlocks]_vars
  <2> SUFFICES ASSUME TypeInv, TypeInv', OneOutstanding, [Next]_vars,
                      NEW a \in Actions, Stranded(a)
               PROVE  Stranded(a)' /\ dispatch' = dispatch /\ receipt' = receipt
    BY DEF StrandBlocks
  <2>1. ASSUME NEW b \in Actions
        PROVE  dispatch'[b] = dispatch[b] /\ receipt'[b] = receipt[b]
    BY DispatchMoves DEF DispatchMove, OneOutstanding, Stranded
  <2>2. dispatch' = dispatch /\ receipt' = receipt
    BY <2>1 DEF TypeInv, TypeOK
  <2>3. Stranded(a)'
    BY <2>2, CallsEnd DEF EndedStays, Stranded
  <2> QED
    BY <2>2, <2>3
<1> QED
  BY <1>1, <1>2, TypeInit, TypeStep, OneOutstandingStep, PTL DEF Spec

=============================================================================
