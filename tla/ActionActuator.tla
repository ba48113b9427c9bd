---------------------------- MODULE ActionActuator ----------------------------
(***************************************************************************)
(* The governed-action execution protocol: ActionActuator.execute running  *)
(* against PostgresActionStore, one transaction per store method, and a    *)
(* mutation connector whose provider may answer late or not at all.        *)
(*                                                                         *)
(* A call is one invocation of execute: it draws its own lease tokens, so  *)
(* the call itself stands for the token.  Database rows are functions of   *)
(* the action: there is at most one dispatch per action (unique key) and   *)
(* at most one reservation (an action whose reservation was released is    *)
(* never AUTHORIZED again).                                                *)
(***************************************************************************)
EXTENDS Naturals

CONSTANTS
  Actions,         \* governed actions, each planned at most once
  Targets,         \* target keys (rows of target_epochs)
  Versions,        \* versions a target can be observed at
  Calls,           \* invocations of ActionActuator.execute
  NoCall,          \* no token has been drawn for the row
  TargetOf,        \* the target an action mutates
  KnownGood,       \* the version the action's mutation establishes
  InitialVersion   \* version of each target before the first action

ASSUME ActuatorAssumption ==
  /\ TargetOf \in [Actions -> Targets]
  /\ KnownGood \in [Actions -> Versions]
  /\ InitialVersion \in [Targets -> Versions]
  /\ NoCall \notin Calls

VARIABLES
  status,       \* actions.status
  bound,        \* actions.expected_target_epoch and expected_target_version
  epoch,        \* target_epochs.epoch
  observed,     \* target_epochs.last_observed_version
  reservation,  \* target_reservations: no row, released_at NULL, released_at set
  holder,       \* the call whose lease tokens are in the reservation and dispatch rows
  leaseLive,    \* expires_at >= now(); both rows are always extended together
  dispatch,     \* actuator_dispatches.status
  receipt,      \* execution_receipts.result
  live,         \* the version the provider really serves
  request,      \* the provider's handling of the action's mutation request
  mutateCalls,  \* how often connector.mutate was called for the action
  pc,           \* where a call stands
  act,          \* the action a call executes
  carry,        \* release reason or execution result a call carries to its next step
  seen          \* target version a call's reconciliation read

actionRows == <<status, bound>>
targetRows == <<epoch, observed>>
leaseRows  == <<reservation, holder, leaseLive>>
settleRows == <<dispatch, receipt>>
provider   == <<live, request, mutateCalls>>
locals     == <<act, carry, seen>>
vars == <<actionRows, targetRows, leaseRows, settleRows, provider, pc, locals>>

Outstanding == {"PREPARED", "MUTATION_ISSUED", "RECONCILING"}
Results     == {"SUCCEEDED", "FAILED", "AMBIGUOUS"}
Reasons     == {"AUTHORIZATION_FAILED", "PRECONDITION_FAILED", "DRY_RUN_MISMATCH"}
Statuses    == {"none", "AUTHORIZED", "EXECUTING", "INVALIDATED", "DRY_RUN_MISMATCH"}
               \cup Results
Places      == {"start", "acquire", "authorize", "observe", "release", "prepare",
                "claim", "mutate", "returning", "acknowledge", "reconcile",
                "finalize", "reauthorize", "done"}

TypeOK ==
  /\ status \in [Actions -> Statuses]
  /\ bound \in [Actions -> [epoch : Nat, version : Versions]]
  /\ epoch \in [Targets -> Nat]
  /\ observed \in [Targets -> Versions]
  /\ reservation \in [Actions -> {"none", "held", "released"}]
  /\ holder \in [Actions -> Calls \cup {NoCall}]
  /\ leaseLive \in [Actions -> BOOLEAN]
  /\ dispatch \in [Actions -> {"none", "EXECUTED", "AMBIGUOUS"} \cup Outstanding]
  /\ receipt \in [Actions -> {"none"} \cup Results]
  /\ live \in [Targets -> Versions]
  /\ request \in [Actions -> {"none", "sent", "landed", "lost"}]
  /\ mutateCalls \in [Actions -> Nat]
  /\ pc \in [Calls -> Places]
  /\ act \in [Calls -> Actions]
  /\ carry \in [Calls -> {"none"} \cup Reasons \cup Results]
  /\ seen \in [Calls -> Versions]

Init ==
  /\ status = [a \in Actions |-> "none"]
  /\ bound = [a \in Actions |-> [epoch |-> 0, version |-> InitialVersion[TargetOf[a]]]]
  /\ epoch = [t \in Targets |-> 0]
  /\ observed = InitialVersion
  /\ reservation = [a \in Actions |-> "none"]
  /\ holder = [a \in Actions |-> NoCall]
  /\ leaseLive = [a \in Actions |-> FALSE]
  /\ dispatch = [a \in Actions |-> "none"]
  /\ receipt = [a \in Actions |-> "none"]
  /\ live = InitialVersion
  /\ request = [a \in Actions |-> "none"]
  /\ mutateCalls = [a \in Actions |-> 0]
  /\ pc = [c \in Calls |-> "start"]
  /\ act \in [Calls -> Actions]
  /\ carry = [c \in Calls |-> "none"]
  /\ seen = [c \in Calls |-> InitialVersion[TargetOf[act[c]]]]

-----------------------------------------------------------------------------
Goto(c, place) == pc' = [pc EXCEPT ![c] = place]

Target(a) == TargetOf[a]

(* Deviation: the token fence without the expiry. *)
HoldsToken(c) == reservation[act[c]] = "held" /\ holder[act[c]] = c

(* The action's reservation is live under the tokens this call drew. *)
HoldsLive(c) ==
  /\ reservation[act[c]] = "held"
  /\ holder[act[c]] = c
  /\ leaseLive[act[c]]

(* validate_execution_authority: target epoch and version still those bound
   into the action, as advanced by its own reservation. *)
AuthorityCurrent(a) ==
  /\ epoch[Target(a)] = bound[a].epoch + 1
  /\ observed[Target(a)] = bound[a].version

(* Deviation: an index per action instead of per target. *)
ActionFree(a) == reservation[a] # "held"

(* The unique index on unreleased reservations of a target. *)
TargetFree(a) ==
  \A b \in Actions : TargetOf[b] = Target(a) => reservation[b] # "held"

(* Deviation: the release reason written into the status column. *)
ReasonAsStatus(reason) == reason

(* What an action becomes when its reservation is released unused. *)
ReleasedStatus(reason) ==
  IF reason = "DRY_RUN_MISMATCH" THEN "DRY_RUN_MISMATCH" ELSE "INVALIDATED"

(* Deviation: an action whose outcome is unknown left executing. *)
ConclusiveStatus(a, result) ==
  IF status[a] = "EXECUTING" /\ result # "AMBIGUOUS" THEN result ELSE status[a]

(* settle_action: the outcome becomes the status of an executing action. *)
SettledStatus(a, result) == IF status[a] = "EXECUTING" THEN result ELSE status[a]

(* Deviation: every outcome releases the target. *)
NeverKeeps(result) == FALSE

(* An ambiguous outcome does not release the target. *)
KeepsReservation(result) == result = "AMBIGUOUS"

(* Planning: the planner binds the target row it reads into a new action,
   which standing authority or an approval makes AUTHORIZED. *)
PlanAction(a) ==
  /\ status[a] = "none"
  /\ observed[Target(a)] # KnownGood[a]
  /\ status' = [status EXCEPT ![a] = "AUTHORIZED"]
  /\ bound' = [bound EXCEPT ![a] = [epoch |-> epoch[Target(a)],
                                    version |-> observed[Target(a)]]]
  /\ UNCHANGED <<targetRows, leaseRows, settleRows, provider, pc, locals>>

(* claim_recovery: take over an outstanding dispatch whose lease expired. *)
ClaimRecovery(c) ==
  LET a == act[c] IN
  /\ pc[c] = "start"
  /\ \/ /\ dispatch[a] \notin Outstanding
        /\ Goto(c, "acquire")
        /\ UNCHANGED leaseRows
     \/ /\ dispatch[a] \in Outstanding
        /\ ~leaseLive[a]
        /\ reservation[a] = "held"
        /\ holder' = [holder EXCEPT ![a] = c]
        /\ leaseLive' = [leaseLive EXCEPT ![a] = TRUE]
        /\ Goto(c, IF dispatch[a] = "PREPARED" THEN "reauthorize" ELSE "acknowledge")
        /\ UNCHANGED reservation
  /\ UNCHANGED <<actionRows, targetRows, settleRows, provider, locals>>

(* acquire_reservation, first outcome: the epoch or version moved since the
   action was planned, and the action is invalidated. *)
AcquireStale(c) ==
  LET a == act[c] IN
  /\ pc[c] = "acquire"
  /\ status[a] = "AUTHORIZED"
  /\ \/ epoch[Target(a)] # bound[a].epoch
     \/ observed[Target(a)] # bound[a].version
  /\ status' = [status EXCEPT ![a] = "INVALIDATED"]
  /\ Goto(c, "done")
  /\ UNCHANGED <<bound, targetRows, leaseRows, settleRows, provider, locals>>

(* acquire_reservation, second outcome: the unique index on unreleased rows
   lets the insert through and the epoch advances. *)
AcquireReservation(c) ==
  LET a == act[c] IN
  /\ pc[c] = "acquire"
  /\ status[a] = "AUTHORIZED"
  /\ epoch[Target(a)] = bound[a].epoch
  /\ observed[Target(a)] = bound[a].version
  /\ TargetFree(a)
  /\ reservation' = [reservation EXCEPT ![a] = "held"]
  /\ holder' = [holder EXCEPT ![a] = c]
  /\ leaseLive' = [leaseLive EXCEPT ![a] = TRUE]
  /\ epoch' = [epoch EXCEPT ![Target(a)] = @ + 1]
  /\ Goto(c, "authorize")
  /\ UNCHANGED <<actionRows, observed, settleRows, provider, locals>>

(* authorize_for_execution: claim execution under the live reservation, or
   refuse (authority revoked or expired, reservation lost). *)
AuthorizeForExecution(c) ==
  LET a == act[c] IN
  /\ pc[c] = "authorize"
  /\ \/ /\ HoldsLive(c)
        /\ status[a] = "AUTHORIZED"
        /\ AuthorityCurrent(a)
        /\ status' = [status EXCEPT ![a] = "EXECUTING"]
        /\ Goto(c, "observe")
        /\ UNCHANGED carry
     \/ /\ carry' = [carry EXCEPT ![c] = "AUTHORIZATION_FAILED"]
        /\ Goto(c, "release")
        /\ UNCHANGED status
  /\ UNCHANGED <<bound, targetRows, leaseRows, settleRows, provider, act, seen>>

(* observe, dry_run and the pre-mutation gates: reads only. *)
CheckPreconditions(c) ==
  LET a == act[c] IN
  /\ pc[c] = "observe"
  /\ \/ /\ live[Target(a)] = bound[a].version
        /\ Goto(c, "prepare")
        /\ UNCHANGED carry
     \/ /\ live[Target(a)] # bound[a].version
        /\ carry' = [carry EXCEPT ![c] = "PRECONDITION_FAILED"]
        /\ Goto(c, "release")
     \/ /\ live[Target(a)] = bound[a].version
        /\ \E reason \in {"DRY_RUN_MISMATCH", "AUTHORIZATION_FAILED"} :
             carry' = [carry EXCEPT ![c] = reason]
        /\ Goto(c, "release")
  /\ UNCHANGED <<actionRows, targetRows, leaseRows, settleRows, provider, act, seen>>

(* release_before_mutation: token-fenced, and only without a receipt. *)
ReleaseBeforeMutation(c) ==
  LET a == act[c] IN
  /\ pc[c] = "release"
  /\ reservation[a] = "held"
  /\ holder[a] = c
  /\ receipt[a] = "none"
  /\ reservation' = [reservation EXCEPT ![a] = "released"]
  /\ status' = IF status[a] \in {"AUTHORIZED", "EXECUTING"}
               THEN [status EXCEPT ![a] = ReleasedStatus(carry[c])]
               ELSE status
  /\ Goto(c, "done")
  /\ UNCHANGED <<bound, targetRows, holder, leaseLive, settleRows, provider, locals>>

(* prepare_dispatch: one dispatch per action, one outstanding per actuator. *)
PrepareDispatch(c) ==
  LET a == act[c] IN
  /\ pc[c] = "prepare"
  /\ HoldsLive(c)
  /\ dispatch[a] = "none"
  /\ \A b \in Actions : dispatch[b] \notin Outstanding
  /\ dispatch' = [dispatch EXCEPT ![a] = "PREPARED"]
  /\ Goto(c, "claim")
  /\ UNCHANGED <<actionRows, targetRows, leaseRows, receipt, provider, locals>>

(* authorize_prepared_dispatch and the gates, for a recovered PREPARED row. *)
AuthorizePreparedDispatch(c) ==
  /\ pc[c] = "reauthorize"
  /\ HoldsLive(c)
  /\ status[act[c]] = "EXECUTING"
  /\ AuthorityCurrent(act[c])
  /\ Goto(c, "claim")
  /\ UNCHANGED <<actionRows, targetRows, leaseRows, settleRows, provider, locals>>

(* Deviation: the claim is not durable when the provider is called. *)
ClaimUnrecorded(c) ==
  /\ pc[c] = "claim"
  /\ dispatch[act[c]] = "PREPARED"
  /\ HoldsLive(c)
  /\ Goto(c, "mutate")
  /\ UNCHANGED <<actionRows, targetRows, leaseRows, settleRows, provider, locals>>

(* claim_mutation: the single claim of the mutation call. *)
ClaimMutation(c) ==
  LET a == act[c] IN
  /\ pc[c] = "claim"
  /\ dispatch[a] = "PREPARED"
  /\ HoldsLive(c)
  /\ dispatch' = [dispatch EXCEPT ![a] = "MUTATION_ISSUED"]
  /\ Goto(c, "mutate")
  /\ UNCHANGED <<actionRows, targetRows, leaseRows, receipt, provider, locals>>

(* connector.mutate leaves the process: nothing fences it in the database. *)
Mutate(c) ==
  LET a == act[c] IN
  /\ pc[c] = "mutate"
  /\ mutateCalls' = [mutateCalls EXCEPT ![a] = @ + 1]
  /\ request' = [request EXCEPT ![a] = "sent"]
  /\ Goto(c, "returning")
  /\ UNCHANGED <<actionRows, targetRows, leaseRows, settleRows, live, locals>>

(* The call returns, or times out as AmbiguousMutation while the request is
   still under way; either way the acknowledgement is recorded next. *)
ConnectorReturns(c) ==
  /\ pc[c] = "returning"
  /\ Goto(c, "acknowledge")
  /\ UNCHANGED <<actionRows, targetRows, leaseRows, settleRows, provider, locals>>

(* record_connector_ack: fenced on the live dispatch token. *)
RecordConnectorAck(c) ==
  LET a == act[c] IN
  /\ pc[c] = "acknowledge"
  /\ dispatch[a] \in {"MUTATION_ISSUED", "RECONCILING"}
  /\ HoldsLive(c)
  /\ dispatch' = [dispatch EXCEPT ![a] = "RECONCILING"]
  /\ Goto(c, "reconcile")
  /\ UNCHANGED <<actionRows, targetRows, leaseRows, receipt, provider, locals>>

(* connector.reconcile, then the customer audit write.  Cloud Run compares the
   live revision with the known good and the expected one; the payments admin
   looks the action's own record up and knows nothing when there is none. *)
Reconcile(c) ==
  LET a == act[c]
      version == live[Target(a)]
      recorded == request[a] = "landed" IN
  /\ pc[c] = "reconcile"
  /\ \E result \in Results :
       /\ result = "SUCCEEDED" => version = KnownGood[a] \/ recorded
       /\ result = "FAILED" => version = bound[a].version
       /\ result = "AMBIGUOUS" => ~recorded \/ version \notin {KnownGood[a], bound[a].version}
       /\ carry' = [carry EXCEPT ![c] = result]
       /\ seen' = [seen EXCEPT ![c] = IF result = "SUCCEEDED" THEN KnownGood[a] ELSE version]
  /\ Goto(c, "finalize")
  /\ UNCHANGED <<actionRows, targetRows, leaseRows, settleRows, provider, act>>

(* finalize_dispatch: receipt, dispatch, action, reservation and observed
   version in one transaction; ambiguity keeps the reservation. *)
FinalizeDispatch(c) ==
  LET a == act[c]
      result == carry[c] IN
  /\ pc[c] = "finalize"
  /\ dispatch[a] = "RECONCILING"
  /\ HoldsLive(c)
  /\ receipt[a] = "none"
  /\ receipt' = [receipt EXCEPT ![a] = result]
  /\ dispatch' = [dispatch EXCEPT ![a] = IF result = "AMBIGUOUS" THEN "AMBIGUOUS"
                                                                 ELSE "EXECUTED"]
  /\ status' = [status EXCEPT ![a] = SettledStatus(a, result)]
  /\ IF KeepsReservation(result)
     THEN UNCHANGED <<reservation, observed>>
     ELSE /\ reservation' = [reservation EXCEPT ![a] = "released"]
          /\ observed' = IF epoch[Target(a)] = bound[a].epoch + 1
                         THEN [observed EXCEPT ![Target(a)] = seen[c]]
                         ELSE observed
  /\ Goto(c, "done")
  /\ UNCHANGED <<bound, epoch, holder, leaseLive, provider, locals>>

(* The call ends without a further database change: a refused fence, a
   conflict, a connector or audit error, or the process dying. *)
Fail(c) ==
  /\ pc[c] # "done"
  /\ Goto(c, "done")
  /\ UNCHANGED <<actionRows, targetRows, leaseRows, settleRows, provider, locals>>

(* Deviation: a reaper releases the reservation whose lease expires. *)
LeaseReaped(a) ==
  /\ reservation[a] = "held"
  /\ leaseLive[a]
  /\ leaseLive' = [leaseLive EXCEPT ![a] = FALSE]
  /\ reservation' = [reservation EXCEPT ![a] = "released"]
  /\ UNCHANGED <<actionRows, targetRows, holder, settleRows, provider, pc, locals>>

(* Database time passes the expiry of the reservation and dispatch leases. *)
LeaseExpires(a) ==
  /\ reservation[a] = "held"
  /\ leaseLive[a]
  /\ leaseLive' = [leaseLive EXCEPT ![a] = FALSE]
  /\ UNCHANGED <<actionRows, targetRows, reservation, holder, settleRows, provider,
                 pc, locals>>

(* The provider applies a request, at any delay, only to the version the
   action expects (expected_pool_generation, the service etag). *)
EffectLands(a) ==
  /\ request[a] = "sent"
  /\ live[Target(a)] = bound[a].version
  /\ request' = [request EXCEPT ![a] = "landed"]
  /\ live' = [live EXCEPT ![Target(a)] = KnownGood[a]]
  /\ UNCHANGED <<actionRows, targetRows, leaseRows, settleRows, mutateCalls, pc, locals>>

(* The provider rejects the request, or it is lost on the way. *)
RequestLost(a) ==
  /\ request[a] = "sent"
  /\ request' = [request EXCEPT ![a] = "lost"]
  /\ UNCHANGED <<actionRows, targetRows, leaseRows, settleRows, live, mutateCalls,
                 pc, locals>>

(* The target changes outside any governed action. *)
Drift(t) ==
  /\ \E v \in Versions \ {live[t]} : live' = [live EXCEPT ![t] = v]
  /\ UNCHANGED <<actionRows, targetRows, leaseRows, settleRows, request, mutateCalls,
                 pc, locals>>

Execute(c) ==
  \/ ClaimRecovery(c)
  \/ AcquireStale(c)
  \/ AcquireReservation(c)
  \/ AuthorizeForExecution(c)
  \/ CheckPreconditions(c)
  \/ ReleaseBeforeMutation(c)
  \/ PrepareDispatch(c)
  \/ AuthorizePreparedDispatch(c)
  \/ ClaimMutation(c)
  \/ Mutate(c)
  \/ ConnectorReturns(c)
  \/ RecordConnectorAck(c)
  \/ Reconcile(c)
  \/ FinalizeDispatch(c)
  \/ Fail(c)

Environment(a) ==
  \/ PlanAction(a)
  \/ LeaseExpires(a)
  \/ EffectLands(a)
  \/ RequestLost(a)

Next ==
  \/ \E c \in Calls : Execute(c)
  \/ \E a \in Actions : Environment(a)
  \/ \E t \in Targets : Drift(t)

Spec == Init /\ [][Next]_vars

-----------------------------------------------------------------------------
(* INV-T-20: whatever crashes, expires or is recovered, connector.mutate is
   called at most once for an action. *)
AtMostOneMutationCall == \A a \in Actions : mutateCalls[a] <= 1

(* The mutation of an action is open from its claim until a conclusive
   receipt; an ambiguous one stays open. *)
MutationOpen(a) == dispatch[a] \in {"MUTATION_ISSUED", "RECONCILING", "AMBIGUOUS"}

(* Two actions never have an open mutation on the same target, although they
   are planned, reserved and recovered independently. *)
OneOpenMutationPerTarget ==
  \A a, b \in Actions :
    (TargetOf[a] = TargetOf[b] /\ MutationOpen(a) /\ MutationOpen(b)) => a = b

(* An action with a dispatch that can still mutate or settle was planned
   against the newest epoch of its target: no other action reserved the
   target since, so the mutation is not based on a superseded plan. *)
NoSupersededPlanMutates ==
  \A a \in Actions :
    (dispatch[a] \in Outstanding \/ MutationOpen(a)) =>
      epoch[Target(a)] = bound[a].epoch + 1

(* A released reservation is justified: either the action never reached the
   provider and no call can still take it there, or a conclusive receipt
   exists.  release_before_mutation itself checks only for a receipt. *)
ReleaseIsJustified ==
  \A a \in Actions : reservation[a] = "released" =>
    \/ receipt[a] \in {"SUCCEEDED", "FAILED"}
    \/ /\ dispatch[a] = "none"
       /\ mutateCalls[a] = 0
       /\ \A c \in Calls : act[c] = a => pc[c] \notin {"claim", "mutate", "returning"}

(* The three records of an outcome agree: once a receipt exists the action and
   the dispatch carry the same outcome. *)
OutcomeRecordsAgree ==
  \A a \in Actions : receipt[a] # "none" =>
    /\ status[a] = receipt[a]
    /\ dispatch[a] = IF receipt[a] = "AMBIGUOUS" THEN "AMBIGUOUS" ELSE "EXECUTED"

(* A receipt is written once, by the call that holds the live lease. *)
ReceiptIsFinal ==
  [][\A a \in Actions : receipt'[a] # receipt[a] =>
       /\ receipt[a] = "none"
       /\ leaseLive[a]
       /\ pc[holder[a]] = "finalize"]_vars

(* The protocol implements the abstract fence. *)
FencePhase == [a \in Actions |->
  IF reservation[a] = "none" THEN "idle"
  ELSE IF dispatch[a] = "EXECUTED" THEN "settled"
  ELSE IF dispatch[a] = "AMBIGUOUS" THEN "ambiguous"
  ELSE IF dispatch[a] \in {"MUTATION_ISSUED", "RECONCILING"} THEN "claimed"
  ELSE IF reservation[a] = "held" THEN "reserved" ELSE "abandoned"]

Fence == INSTANCE TargetFence WITH phase <- FencePhase

ImplementsFence == Fence!Spec

=============================================================================
