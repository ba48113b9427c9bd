---------------------------- MODULE ReleaseRollout ----------------------------
(***************************************************************************)
(* One approved release on one target: the coordinator's delivery ticks    *)
(* propose private commands and deliver them over HTTP; the deployment     *)
(* controller starts the rollout, changes the traffic of the Cloud Run     *)
(* service stage by stage or back, and closes it; the release verifier     *)
(* judges every stage and the rollback.                                    *)
(*                                                                         *)
(* Ticks overlap, and a tick that gives up on a slow handler leaves it     *)
(* running, so several handlers of one command can be at work.  A handler  *)
(* is the sequence of its transactions and provider calls; one that is     *)
(* refused or raises answers with an error, which ends its tick.           *)
(*                                                                         *)
(* Every prepare of a tick is written as a transaction of its own.  On the *)
(* tick's connection it is none: the query before it has begun one that    *)
(* ends with the tick, and the prepare is a savepoint of it.  Ambient says *)
(* which of the two is modelled; the theorems hold of both.                *)
(***************************************************************************)
EXTENDS Naturals

CONSTANTS
  Ticks,     \* coordinator ticks that may overlap
  Ambient,   \* TRUE: a tick is one transaction, as deployed; FALSE: every prepare is one
  Stages,    \* number of canary stages of the target profile
  Faults,    \* the kinds of fault this instance meets
  MaxFaults, \* bound: faults of one behavior, deadlines aside
  None       \* no command

ASSUME ReleaseAssumption ==
  /\ Ambient \in BOOLEAN
  /\ Stages \in Nat /\ Stages >= 2
  /\ Faults \subseteq {"stop", "timeout", "drift", "provider", "expiry"}
  /\ MaxFaults \in Nat

\* An effect names its operation and the assignment of traffic it asks for:
\* 0 is the predeploy assignment (ROLLBACK_RELEASE), 1 the first canary
\* (PREPARE_CANARY), the others are PROMOTE_CANARY.
Effects == 0..Stages
Assignments == 0..(Stages + 1)  \* Stages + 1: any assignment nobody asked for

Start == <<"START_ROLLOUT", 0>>
Effect(e) == <<"EFFECT", e>>
Verify(s) == <<"VERIFY", s>>     \* s = 0: VERIFY_ROLLBACK_EFFECT
Fail(s) == <<"REGISTER_VERIFICATION_FAILURE", s>>
Finalize(s) == <<"FINALIZE", s>> \* s = 0: FINALIZE_ROLLBACK

Verifications == {Verify(s) : s \in Effects}
Commands == {Start, Finalize(0), Finalize(Stages)} \cup Verifications
              \cup {Effect(e) : e \in Effects} \cup {Fail(s) : s \in 1..Stages}

ASSUME NoneAssumption == None \notin Commands

VARIABLES
  request,     \* code_change_requests.state
  rollout,     \* deployment_rollouts.status; "none" before the row exists
  reservation, \* release_target_reservations.status
  command,     \* private_command_dispatches.status
  op,          \* deployment_rollout_operations.status
  handle,      \* operations whose provider_request_id is recorded
  receipt,     \* result of the verification receipt of a stage (0: rollback)
  judgedAt,    \* observed_target_version of the newest stage receipt
  approved,    \* the rollback decision is APPROVED
  expired,     \* deadlines that are past
  target,      \* the service's assignment of traffic
  generation,  \* the service's generation; its etag changes with it
  lro,         \* the provider's long-running operation of an effect
  sent,        \* PATCHes of an effect the provider accepted
  phase,       \* what a tick is delivering
  queue,       \* the commands it has yet to deliver
  call,        \* the command of a tick's handler
  pc,          \* where that handler stands
  seen,        \* the generation it observed
  faults       \* faults so far

rows == <<request, rollout, reservation, command, op, handle, receipt, judgedAt>>
cloud == <<target, generation, lro, sent>>
world == <<approved, expired, faults>>
tick == <<phase, queue>>
handler == <<call, pc, seen>>
vars == <<rows, cloud, world, tick, handler>>

Open == {"PREPARED", "ISSUED"}  \* RECONCILING is read wherever ISSUED is
Live == {"PREPARED", "ISSUED", "RECONCILING"}
Final == {"PROMOTED", "ROLLED_BACK", "AMBIGUOUS"}

RequestStates ==
  {"DEPLOYMENT_APPROVAL_PENDING", "CANARY_DEPLOYING", "VERIFYING", "PROMOTED",
   "ROLLBACK_APPROVAL_PENDING", "ROLLING_BACK", "ROLLED_BACK", "BLOCKED",
   "ROLLBACK_AMBIGUOUS"}

RolloutStates ==
  {"none", "CANARY_DEPLOYING", "CANARY_READY", "PROMOTING", "VERIFICATION_FAILED",
   "ROLLING_BACK", "ROLLBACK_PENDING"} \cup Final

EffectSteps == {"observing", "observed", "fenced", "accepted", "lost", "adopting",
                "polling", "settling", "ambiguous"}
Steps == {"none", "answering", "verifying", "passed", "failed", "closing", "reclosing"}
           \cup EffectSteps

TypeOK ==
  /\ request \in RequestStates
  /\ rollout \in RolloutStates
  /\ reservation \in {"none", "HELD", "RECONCILING", "RELEASED"}
  /\ command \in [Commands -> {"none", "SUCCEEDED", "AMBIGUOUS"} \cup Open]
  /\ op \in [Effects -> {"none", "SUCCEEDED", "AMBIGUOUS"} \cup Live]
  /\ handle \subseteq Effects
  /\ receipt \in [Effects -> {"none", "VERIFIED", "FAILED"}]
  /\ judgedAt \in Nat
  /\ approved \in BOOLEAN
  /\ expired \subseteq {"start", "lease", "rollback"}
  /\ target \in Assignments
  /\ generation \in Nat
  /\ lro \in [Effects -> {"none", "running", "done", "failed"}]
  /\ sent \in [Effects -> Nat]
  /\ phase \in [Ticks -> {"idle", "controller", "verifier"}]
  /\ queue \in [Ticks -> SUBSET Commands]
  /\ call \in [Ticks -> Commands \cup {None}]
  /\ pc \in [Ticks -> Steps]
  /\ seen \in [Ticks -> Nat]
  /\ faults \in 0..MaxFaults

Init ==
  /\ request = "DEPLOYMENT_APPROVAL_PENDING"
  /\ rollout = "none"
  /\ reservation = "none"
  /\ command = [k \in Commands |-> "none"]
  /\ op = [e \in Effects |-> "none"]
  /\ handle = {}
  /\ receipt = [s \in Effects |-> "none"]
  /\ judgedAt = 0
  /\ approved = FALSE
  /\ expired = {}
  /\ target = 0
  /\ generation = 0
  /\ lro = [e \in Effects |-> "none"]
  /\ sent = [e \in Effects |-> 0]
  /\ phase = [t \in Ticks |-> "idle"]
  /\ queue = [t \in Ticks |-> {}]
  /\ call = [t \in Ticks |-> None]
  /\ pc = [t \in Ticks |-> "none"]
  /\ seen = [t \in Ticks |-> 0]
  /\ faults = 0

-------------------------------------------------------------------------------
(* What the queries select *)

Leased == reservation \in {"HELD", "RECONCILING"} /\ "lease" \notin expired

\* Stage s is the newest one with a receipt; the newest one that is settled.
LatestJudged(s) ==
  receipt[s] # "none" /\ \A r \in (s + 1)..Stages : receipt[r] = "none"

LatestSettled(s) ==
  op[s] = "SUCCEEDED" /\ \A r \in (s + 1)..Stages : op[r] # "SUCCEEDED"

\* Deviation: a settled stage that has not failed counts as verified.
JudgedBySilence(s, result) ==
  /\ rollout = "CANARY_READY"
  /\ Leased
  /\ LatestSettled(s)
  /\ IF result = "VERIFIED" THEN receipt[s] # "FAILED" ELSE receipt[s] = "FAILED"

Judged(s, result) ==
  /\ rollout = "CANARY_READY"
  /\ Leased
  /\ LatestJudged(s)
  /\ receipt[s] = result

RollbackJudged ==
  /\ rollout = "ROLLBACK_PENDING"
  /\ request = "ROLLING_BACK"
  /\ Leased
  /\ receipt[0] = "VERIFIED"

\* What each effect needs of the rollout to be prepared, in the names of the
\* store's methods: prepare_canary_operation and its two siblings.
PrepareCanary == rollout = "CANARY_DEPLOYING" /\ Leased

PreparePromotion(s) == Judged(s, "VERIFIED")

PrepareRollback ==
  /\ approved
  /\ "rollback" \notin expired
  /\ rollout = "VERIFICATION_FAILED"
  /\ request = "ROLLBACK_APPROVAL_PENDING"

RollbackSettled ==
  /\ rollout = "ROLLBACK_PENDING"
  /\ Leased
  /\ op[0] = "SUCCEEDED"

NoneOpen(ks) == \A k \in ks : command[k] \notin Open

Advancements == {Effect(e) : e \in 2..Stages} \cup {Finalize(Stages)}

\* The command that follows the verdict of stage s.
Advancement(s) == IF s = Stages THEN Finalize(Stages) ELSE Effect(s + 1)

\* What the coordinator proposes.  Most proposals are made once; a verification
\* is proposed again while none is open, an advancement and a failure too,
\* whatever became of the ones before.
RolloutCandidate ==
  /\ command[Start] = "none"
  /\ rollout = "none"
  /\ request = "DEPLOYMENT_APPROVAL_PENDING"
  /\ "start" \notin expired

CanaryCandidate == command[Effect(1)] = "none" /\ PrepareCanary /\ op[1] = "none"

AdvancementCandidate(s) == Judged(s, "VERIFIED") /\ NoneOpen(Advancements)

VerificationCandidate(s) ==
  /\ rollout = "CANARY_READY"
  /\ Leased
  /\ LatestSettled(s)
  /\ receipt[s] = "none"
  /\ NoneOpen({Verify(r) : r \in 1..Stages})

FailureCandidate(s) ==
  Judged(s, "FAILED") /\ NoneOpen({Fail(r) : r \in 1..Stages})

RollbackCandidate == command[Effect(0)] = "none" /\ PrepareRollback

RollbackVerificationCandidate ==
  NoneOpen({Verify(0)}) /\ RollbackSettled /\ receipt[0] = "none"

RollbackFinalizationCandidate == command[Finalize(0)] = "none" /\ RollbackJudged

Candidate(k) ==
  \/ k = Start /\ RolloutCandidate
  \/ k = Effect(1) /\ CanaryCandidate
  \/ \E s \in 1..Stages :
       \/ k = Advancement(s) /\ AdvancementCandidate(s)
       \/ k = Verify(s) /\ VerificationCandidate(s)
       \/ k = Fail(s) /\ FailureCandidate(s)
  \/ k = Effect(0) /\ RollbackCandidate
  \/ k = Verify(0) /\ RollbackVerificationCandidate
  \/ k = Finalize(0) /\ RollbackFinalizationCandidate

Deadline(k) ==
  CASE k = Start -> "start" [] k = Effect(0) -> "rollback" [] OTHER -> "lease"

\* The open commands of ks a dispatch query returns.
Dispatchable(ks, status) ==
  {k \in ks : status[k] \in Open /\ Deadline(k) \notin expired}

-------------------------------------------------------------------------------
(* The coordinator's delivery tick *)

\* Every prepare is an insert guarded by the unique idempotency key of its
\* command (delivery_command_store.py:38-93): a proposal made before conflicts,
\* and the conflict ends the tick.
\* What an ambient transaction inserts is the tick's alone: it delivers what no
\* other session can see, and its end by an error takes everything back.
\* (Two ticks that propose at once differ from this only in who conflicts.)
Plan(t) ==
  LET proposals == {k \in Commands : Candidate(k)}
      fresh == {k \in proposals : command[k] = "none"}
      inserted == [k \in Commands |-> IF k \in fresh THEN "PREPARED" ELSE command[k]]
      invisible == IF Ambient THEN fresh ELSE {}
  IN  /\ phase[t] = "idle"
      /\ pc[t] = "none"
      /\ command' = IF Ambient THEN command ELSE inserted
      /\ IF fresh # proposals
         THEN UNCHANGED tick
         ELSE /\ phase' = [phase EXCEPT ![t] = "controller"]
              /\ queue' = [queue EXCEPT ![t] =
                   Dispatchable(Commands \ Verifications, inserted) \cup invisible]
      /\ UNCHANGED <<request, rollout, reservation, op, handle, receipt, judgedAt,
                     cloud, world, handler>>

Delivered(t) == phase[t] # "idle" /\ queue[t] = {} /\ pc[t] = "none"

TurnToVerifier(t) ==
  /\ phase[t] = "controller"
  /\ Delivered(t)
  /\ phase' = [phase EXCEPT ![t] = "verifier"]
  /\ queue' = [queue EXCEPT ![t] = Dispatchable(Verifications, command)]
  /\ UNCHANGED <<rows, cloud, world, handler>>

\* Deviation: the second transition, to ROLLBACK_APPROVAL_PENDING, is missing.
MarkedHalf ==
  IF rollout = "VERIFICATION_FAILED" /\ request = "VERIFYING"
  THEN "VERIFICATION_FAILED" ELSE request

PromotedRequest ==
  request = "VERIFYING" /\ rollout = "PROMOTED" /\ receipt[Stages] = "VERIFIED"

FailedRequest ==
  /\ request = "VERIFYING" /\ rollout = "VERIFICATION_FAILED"
  /\ \E s \in 1..Stages : LatestJudged(s) /\ receipt[s] = "FAILED"

\* mark_request_promoted, mark_request_rollback_pending
Marked ==
  CASE PromotedRequest -> "PROMOTED"
    [] FailedRequest -> "ROLLBACK_APPROVAL_PENDING"
    [] OTHER -> request

Finish(t) ==
  /\ phase[t] = "verifier"
  /\ Delivered(t)
  /\ request' = Marked
  /\ phase' = [phase EXCEPT ![t] = "idle"]
  /\ UNCHANGED <<rollout, reservation, command, op, handle, receipt, judgedAt, queue,
                 cloud, world, handler>>

\* The tick ends and leaves what it had not delivered to a later one.
EndTick(t) ==
  /\ phase' = [phase EXCEPT ![t] = "idle"]
  /\ queue' = [queue EXCEPT ![t] = {}]

-------------------------------------------------------------------------------
(* Handlers *)

Rest(t) ==
  /\ pc' = [pc EXCEPT ![t] = "none"]
  /\ call' = [call EXCEPT ![t] = None]
  /\ seen' = [seen EXCEPT ![t] = 0]

Return(t) == Rest(t) /\ UNCHANGED tick
Raise(t) == Rest(t) /\ EndTick(t)

Goto(t, step) ==
  /\ pc' = [pc EXCEPT ![t] = step]
  /\ UNCHANGED <<call, seen, tick>>

\* The handler of k is at work and stands at step.
Deliver(t, k, step) ==
  /\ k \in queue[t]
  /\ pc[t] = "none"
  /\ queue' = [queue EXCEPT ![t] = @ \ {k}]
  /\ call' = [call EXCEPT ![t] = k]
  /\ pc' = [pc EXCEPT ![t] = step]
  /\ UNCHANGED <<phase, seen>>

Issued(k) == [command EXCEPT ![k] = "ISSUED"]

\* The effect's command is PREPARED and has no operation yet.
MayBegin(e) ==
  /\ command[Effect(e)] = "PREPARED"
  /\ Leased
  /\ CASE e = 0 -> PrepareRollback
       [] e = 1 -> PrepareCanary
       [] OTHER -> PreparePromotion(e - 1)

LoadCanary == rollout = "CANARY_DEPLOYING"
LoadPromotion == rollout = "PROMOTING" /\ Leased
LoadRollback == rollout = "ROLLING_BACK"

MayResume(e) ==
  /\ command[Effect(e)] = "ISSUED"
  /\ op[e] \in Live
  /\ CASE e = 0 -> LoadRollback
       [] e = 1 -> LoadCanary
       [] OTHER -> LoadPromotion

MayVerify(s) ==
  /\ command[Verify(s)] \in Open
  /\ IF s = 0 THEN RollbackSettled ELSE rollout = "CANARY_READY" /\ LatestSettled(s)

\* What the handler of k accepts, besides replaying a recorded response.
Admits(k) ==
  /\ Deadline(k) \notin expired
  /\ \/ k = Start /\ (rollout # "none" \/ request = "DEPLOYMENT_APPROVAL_PENDING")
     \/ \E e \in Effects :
          k = Effect(e) /\ (MayBegin(e) \/ MayResume(e) \/ op[e] = "SUCCEEDED")
     \/ \E s \in Effects : k = Verify(s) /\ MayVerify(s)
     \/ \E s \in 1..Stages : k = Fail(s) /\ Judged(s, "FAILED")
     \/ k = Finalize(0) /\ RollbackJudged
     \/ /\ k = Finalize(Stages)
        /\ target = Stages
        /\ \/ Judged(Stages, "VERIFIED")
           \/ /\ rollout = "PROMOTED" /\ request = "VERIFYING"
              /\ receipt[Stages] = "VERIFIED"

\* A command that has its response is answered with it.
Replay(t, k) ==
  /\ k \in queue[t]
  /\ pc[t] = "none"
  /\ Deadline(k) \notin expired
  /\ command[k] \in {"SUCCEEDED", "AMBIGUOUS"}
  /\ queue' = [queue EXCEPT ![t] = @ \ {k}]
  /\ UNCHANGED <<phase, rows, cloud, world, handler>>

\* The error answer to a command the handler does not admit, or whose row its
\* session does not see.
Refuse(t, k) ==
  /\ k \in queue[t]
  /\ pc[t] = "none"
  /\ \/ command[k] = "none"
     \/ Deadline(k) \in expired
     \/ command[k] \in Open /\ ~Admits(k)
  /\ EndTick(t)
  /\ UNCHANGED <<rows, cloud, world, handler>>

\* The rollout, its reservation and the request's transition in one
\* transaction; one that exists already is only answered.
StartRollout(t) ==
  /\ command[Start] \in Open
  /\ Admits(Start)
  /\ Deliver(t, Start, "answering")
  /\ command' = Issued(Start)
  /\ IF rollout = "none"
     THEN /\ rollout' = "CANARY_DEPLOYING"
          /\ reservation' = "HELD"
          /\ request' = "CANARY_DEPLOYING"
     ELSE UNCHANGED <<rollout, reservation, request>>
  /\ UNCHANGED <<op, handle, receipt, judgedAt, cloud, world>>

\* The operation is inserted and its command claimed in one transaction.
BeginEffect(t, e) ==
  /\ Deadline(Effect(e)) \notin expired
  /\ MayBegin(e)
  /\ Deliver(t, Effect(e), "observing")
  /\ command' = Issued(Effect(e))
  /\ op' = [op EXCEPT ![e] = "PREPARED"]
  /\ rollout' = CASE e = 0 -> "ROLLING_BACK" [] e = 1 -> rollout [] OTHER -> "PROMOTING"
  /\ request' = IF e = 0 THEN "ROLLING_BACK" ELSE request
  /\ UNCHANGED <<reservation, handle, receipt, judgedAt, cloud, world>>

\* A redelivery goes by the operation's row: nothing issued yet, a provider
\* handle to poll, or none to be found.
ResumeEffect(t, e) ==
  /\ Deadline(Effect(e)) \notin expired
  /\ MayResume(e)
  /\ Deliver(t, Effect(e),
             CASE op[e] = "PREPARED" -> "observing"
               [] e \in handle -> "polling"
               [] OTHER -> "lost")
  /\ UNCHANGED <<rows, cloud, world>>

\* completed_operation: the effect is settled, only the answer is missing.
AnswerSettled(t, e) ==
  /\ Deadline(Effect(e)) \notin expired
  /\ command[Effect(e)] = "ISSUED"
  /\ op[e] = "SUCCEEDED"
  /\ Deliver(t, Effect(e), "answering")
  /\ UNCHANGED <<rows, cloud, world>>

BeginVerify(t, s) ==
  /\ Deadline(Verify(s)) \notin expired
  /\ MayVerify(s)
  /\ Deliver(t, Verify(s), IF receipt[s] = "none" THEN "verifying" ELSE "answering")
  /\ command' = Issued(Verify(s))
  /\ UNCHANGED <<request, rollout, reservation, op, handle, receipt, judgedAt, cloud, world>>

\* The commands that only close something read their authority first and
\* write later; FINALIZE_ROLLOUT also observes the target and is recoverable.
BeginClosing(t, k) ==
  /\ k \in {Finalize(0), Finalize(Stages)} \cup {Fail(s) : s \in 1..Stages}
  /\ command[k] \in Open
  /\ Admits(k)
  /\ Deliver(t, k, IF command[k] = "PREPARED" THEN "closing" ELSE "reclosing")
  /\ UNCHANGED <<rows, cloud, world>>

-------------------------------------------------------------------------------
(* The steps of a handler at work *)

At(t, step, k) == pc[t] = step /\ call[t] = k

\* What the target must look like before the effect is requested: the approved
\* generation, the generation the failed stage was judged at, or the traffic
\* of the stage before.
Unchanged(e) ==
  CASE e = 0 -> generation = judgedAt
    [] e = 1 -> generation = 0
    [] OTHER -> target = e - 1

\* Deviation: the PATCH is sent without the etag.
CanPatchBlindly(t) == pc[t] = "fenced"

\* The provider takes a PATCH only with the current etag.
CanPatch(t) == pc[t] = "fenced" /\ seen[t] = generation

Unrecorded(e) == op[e] = "ISSUED" /\ e \notin handle

\* Deviation: the completion does not look at the operation's status.
MaySettleTwice(e) ==
  /\ Leased
  /\ rollout \in IF e = 0 THEN {"ROLLING_BACK"} ELSE {"CANARY_DEPLOYING", "PROMOTING"}

MaySettle(e) ==
  /\ op[e] = "RECONCILING"
  /\ Leased
  /\ IF e = 0 THEN rollout = "ROLLING_BACK"
     ELSE /\ rollout \in {"CANARY_DEPLOYING", "PROMOTING"}
          /\ request \in {"CANARY_DEPLOYING", "VERIFYING"}

\* Deviation: the claim does not look at the operation's status.
MayFenceAgain(e) == op[e] \in Live

MayFence(e) == op[e] = "PREPARED"

Observe(t, e) ==
  /\ At(t, "observing", Effect(e))
  /\ Unchanged(e)
  /\ pc' = [pc EXCEPT ![t] = "observed"]
  /\ seen' = [seen EXCEPT ![t] = generation]
  /\ UNCHANGED <<rows, cloud, world, tick, call>>

\* claim_canary: one handler crosses the fence of the operation.
Fence(t, e) ==
  /\ At(t, "observed", Effect(e))
  /\ MayFence(e)
  /\ op' = [op EXCEPT ![e] = "ISSUED"]
  /\ Goto(t, "fenced")
  /\ UNCHANGED <<request, rollout, reservation, command, handle, receipt, judgedAt,
                 cloud, world>>

Patch(t, e) ==
  /\ At(t, "fenced", Effect(e))
  /\ CanPatch(t)
  /\ target' = e
  /\ generation' = generation + 1
  /\ lro' = [lro EXCEPT ![e] = "running"]
  /\ sent' = [sent EXCEPT ![e] = @ + 1]
  /\ Goto(t, "accepted")
  /\ UNCHANGED <<rows, world>>

\* record_provider_operation; the command is answered RECONCILING.
RecordHandle(t, e) ==
  /\ At(t, "accepted", Effect(e))
  /\ Unrecorded(e)
  /\ op' = [op EXCEPT ![e] = "RECONCILING"]
  /\ handle' = handle \cup {e}
  /\ Return(t)
  /\ UNCHANGED <<request, rollout, reservation, command, receipt, judgedAt, cloud, world>>

\* No handle: only a target that is exactly the intended one is a success.
ObserveLost(t, e) ==
  /\ At(t, "lost", Effect(e))
  /\ Goto(t, IF target = e THEN "adopting" ELSE "ambiguous")
  /\ UNCHANGED <<rows, cloud, world>>

\* begin_reconciliation_without_provider_handle
Adopt(t, e) ==
  /\ At(t, "adopting", Effect(e))
  /\ Unrecorded(e)
  /\ op' = [op EXCEPT ![e] = "RECONCILING"]
  /\ Goto(t, "settling")
  /\ UNCHANGED <<request, rollout, reservation, command, handle, receipt, judgedAt,
                 cloud, world>>

\* Still running: the command is answered RECONCILING once more.
Poll(t, e) ==
  /\ At(t, "polling", Effect(e))
  /\ IF lro[e] = "running" THEN Return(t)
     ELSE Goto(t, IF lro[e] = "done" /\ target = e THEN "settling" ELSE "ambiguous")
  /\ UNCHANGED <<rows, cloud, world>>

\* complete_canary, complete_rollback_effect
Settle(t, e) ==
  /\ At(t, "settling", Effect(e))
  /\ MaySettle(e)
  /\ op' = [op EXCEPT ![e] = "SUCCEEDED"]
  /\ rollout' = IF e = 0 THEN "ROLLBACK_PENDING" ELSE "CANARY_READY"
  /\ request' = IF request = "CANARY_DEPLOYING" THEN "VERIFYING" ELSE request
  /\ Goto(t, "answering")
  /\ UNCHANGED <<reservation, command, handle, receipt, judgedAt, cloud, world>>

\* Deviation: ambiguity is recorded over a settled operation, too.
MayMarkSettled(e) ==
  /\ op[e] \in {"ISSUED", "RECONCILING", "SUCCEEDED"}
  /\ reservation \in {"HELD", "RECONCILING"}
  /\ command[Effect(e)] \in Open

MayMark(e) ==
  /\ op[e] \in {"ISSUED", "RECONCILING"}
  /\ reservation \in {"HELD", "RECONCILING"}
  /\ request \in {"CANARY_DEPLOYING", "VERIFYING", "ROLLING_BACK"}
  /\ command[Effect(e)] \in Open

\* mark_operation_ambiguous and the command's response, in one transaction.
\* The reservation's deadline does not stand in its way.
MarkAmbiguous(t, e) ==
  /\ At(t, "ambiguous", Effect(e))
  /\ MayMark(e)
  /\ op' = [op EXCEPT ![e] = "AMBIGUOUS"]
  /\ rollout' = "AMBIGUOUS"
  /\ reservation' = "RECONCILING"
  /\ request' = IF request = "ROLLING_BACK" THEN "ROLLBACK_AMBIGUOUS" ELSE "BLOCKED"
  /\ command' = [command EXCEPT ![Effect(e)] = "AMBIGUOUS"]
  /\ Return(t)
  /\ UNCHANGED <<handle, receipt, judgedAt, cloud, world>>

\* complete: the first response stays, the same one again is no conflict.
Answer(t) ==
  /\ pc[t] = "answering"
  /\ command[call[t]] \in Open \cup {"SUCCEEDED"}
  /\ command' = [command EXCEPT ![call[t]] = "SUCCEEDED"]
  /\ Return(t)
  /\ UNCHANGED <<request, rollout, reservation, op, handle, receipt, judgedAt, cloud, world>>

\* A target other than the stage's own is INCONCLUSIVE, which every reader
\* takes as FAILED; the rollback is judged by the target alone.
Judge(t, s) ==
  /\ At(t, "verifying", Verify(s))
  /\ \E verdict \in {"passed", "failed"} :
       /\ verdict = "passed" => target = s
       /\ verdict = "failed" => target # s \/ s > 0
       /\ pc' = [pc EXCEPT ![t] = verdict]
  /\ seen' = [seen EXCEPT ![t] = generation]
  /\ UNCHANGED <<rows, cloud, world, tick, call>>

\* record: one receipt per stage, a second verifier's differs and conflicts.
RecordReceipt(t, s) ==
  /\ pc[t] \in {"passed", "failed"}
  /\ call[t] = Verify(s)
  /\ receipt[s] = "none"
  /\ receipt' = [receipt EXCEPT ![s] = IF pc[t] = "passed" THEN "VERIFIED" ELSE "FAILED"]
  /\ judgedAt' = IF s = 0 THEN judgedAt ELSE seen[t]
  /\ pc' = [pc EXCEPT ![t] = "answering"]
  /\ seen' = [seen EXCEPT ![t] = 0]
  /\ UNCHANGED <<request, rollout, reservation, command, op, handle, cloud, world, tick, call>>

MayRegister(s) ==
  /\ command[Fail(s)] = "PREPARED"
  /\ rollout = "CANARY_READY"
  /\ Leased

RegisterFailure(t, s) ==
  /\ At(t, "closing", Fail(s))
  /\ MayRegister(s)
  /\ rollout' = "VERIFICATION_FAILED"
  /\ command' = [command EXCEPT ![Fail(s)] = "SUCCEEDED"]
  /\ Return(t)
  /\ UNCHANGED <<request, reservation, op, handle, receipt, judgedAt, cloud, world>>

MayFinalize(t) ==
  /\ \/ pc[t] = "closing" /\ command[Finalize(Stages)] = "PREPARED"
     \/ pc[t] = "reclosing"
  /\ rollout = "PROMOTED" \/ (rollout = "CANARY_READY" /\ Leased)

FinalizeRollout(t) ==
  /\ call[t] = Finalize(Stages)
  /\ MayFinalize(t)
  /\ rollout' = "PROMOTED"
  /\ reservation' = "RELEASED"
  /\ command' = IF command[Finalize(Stages)] = "PREPARED"
                THEN Issued(Finalize(Stages)) ELSE command
  /\ Goto(t, "answering")
  /\ UNCHANGED <<request, op, handle, receipt, judgedAt, cloud, world>>

MayWithdraw ==
  /\ command[Finalize(0)] = "PREPARED"
  /\ rollout = "ROLLBACK_PENDING"
  /\ Leased

FinalizeRollback(t) ==
  /\ At(t, "closing", Finalize(0))
  /\ MayWithdraw
  /\ rollout' = "ROLLED_BACK"
  /\ reservation' = "RELEASED"
  /\ request' = "ROLLED_BACK"
  /\ command' = [command EXCEPT ![Finalize(0)] = "SUCCEEDED"]
  /\ Return(t)
  /\ UNCHANGED <<op, handle, receipt, judgedAt, cloud, world>>

\* The next step of the handler is refused by the database or the provider.
Refused(t) ==
  \/ \E e \in Effects :
       /\ call[t] = Effect(e)
       /\ \/ pc[t] = "observing" /\ ~Unchanged(e)
          \/ pc[t] = "observed" /\ ~MayFence(e)
          \/ pc[t] = "fenced" /\ ~CanPatch(t)
          \/ pc[t] \in {"accepted", "adopting"} /\ ~Unrecorded(e)
          \/ pc[t] = "settling" /\ ~MaySettle(e)
          \/ pc[t] = "ambiguous" /\ ~MayMark(e)
  \/ \E s \in Effects :
       call[t] = Verify(s) /\ pc[t] \in {"passed", "failed"} /\ receipt[s] # "none"
  \/ \E s \in 1..Stages : At(t, "closing", Fail(s)) /\ ~MayRegister(s)
  \/ At(t, "closing", Finalize(0)) /\ ~MayWithdraw
  \/ call[t] = Finalize(Stages) /\ pc[t] \in {"closing", "reclosing"} /\ ~MayFinalize(t)

Conflict(t) ==
  /\ Refused(t)
  /\ Raise(t)
  /\ UNCHANGED <<rows, cloud, world>>

-------------------------------------------------------------------------------
(* The provider, the operators, the clock and the faults *)

ProviderDone(e) ==
  /\ lro[e] = "running"
  /\ lro' = [lro EXCEPT ![e] = "done"]
  /\ UNCHANGED <<rows, target, generation, sent, world, tick, handler>>

Approve ==
  /\ request = "ROLLBACK_APPROVAL_PENDING"
  /\ ~approved
  /\ approved' = TRUE
  /\ UNCHANGED <<rows, cloud, expired, faults, tick, handler>>

Unanswered(k) ==
  command[k] \in Open \cup {"none"} /\ \A t \in Ticks : call[t] # k

\* A deadline passes.  One that only its own command reads may wait until no
\* handler is at work on it, and does not matter once it has its response.
Expire(d) ==
  /\ "expiry" \in Faults
  /\ CASE d = "lease" -> reservation # "none"
       [] d = "start" -> Unanswered(Start)
       [] d = "rollback" -> approved /\ Unanswered(Effect(0))
  /\ d \notin expired
  /\ expired' = expired \cup {d}
  /\ UNCHANGED <<rows, cloud, approved, faults, tick, handler>>

Fault(kind) ==
  /\ kind \in Faults
  /\ faults < MaxFaults
  /\ faults' = faults + 1
  /\ UNCHANGED <<rows, approved, expired>>

\* A handler dies, or one of its reads fails: the tick gets an error.
Stop(t) ==
  /\ pc[t] # "none"
  /\ Fault("stop")
  /\ Raise(t)
  /\ UNCHANGED cloud

\* The client's timeout, or the coordinator dies: the handler goes on.
Abandon(t) ==
  /\ phase[t] # "idle"
  /\ Fault("timeout")
  /\ EndTick(t)
  /\ UNCHANGED <<cloud, handler>>

ProviderFail(e) ==
  /\ lro[e] = "running"
  /\ Fault("provider")
  /\ lro' = [lro EXCEPT ![e] = "failed"]
  /\ UNCHANGED <<target, generation, sent, tick, handler>>

\* Somebody else assigns the service's traffic.
Drift(x) ==
  /\ Fault("drift")
  /\ target' = x
  /\ generation' = generation + 1
  /\ UNCHANGED <<lro, sent, tick, handler>>

-------------------------------------------------------------------------------
(* The specification *)

Receive(t) ==
  \/ StartRollout(t)
  \/ \E k \in Commands : Replay(t, k) \/ Refuse(t, k) \/ BeginClosing(t, k)
  \/ \E e \in Effects : BeginEffect(t, e) \/ ResumeEffect(t, e) \/ AnswerSettled(t, e)
  \/ \E s \in Effects : BeginVerify(t, s)

Work(t) ==
  \/ Answer(t) \/ FinalizeRollout(t) \/ FinalizeRollback(t) \/ Conflict(t)
  \/ \E e \in Effects :
       \/ Observe(t, e) \/ Fence(t, e) \/ Patch(t, e) \/ RecordHandle(t, e)
       \/ ObserveLost(t, e) \/ Adopt(t, e) \/ Poll(t, e)
       \/ Settle(t, e) \/ MarkAmbiguous(t, e)
  \/ \E s \in Effects : Judge(t, s) \/ RecordReceipt(t, s)
  \/ \E s \in 1..Stages : RegisterFailure(t, s)

Environment ==
  \/ Approve
  \/ \E d \in {"start", "lease", "rollback"} : Expire(d)
  \/ \E e \in Effects : ProviderDone(e) \/ ProviderFail(e)
  \/ \E t \in Ticks : Stop(t) \/ Abandon(t)
  \/ \E x \in Assignments : Drift(x)

Next ==
  \/ \E t \in Ticks : Plan(t) \/ TurnToVerifier(t) \/ Finish(t) \/ Receive(t) \/ Work(t)
  \/ Environment

Spec == Init /\ [][Next]_vars

\* Ticks are scheduled again and again and go through their queues, handlers
\* come to an end, the provider finishes its operations and time passes.  No
\* fairness for the operators who approve, nor for faults.
Fairness ==
  /\ \A t \in Ticks :
       /\ WF_vars(Plan(t)) /\ WF_vars(TurnToVerifier(t)) /\ WF_vars(Finish(t))
       /\ WF_vars(Receive(t)) /\ WF_vars(Work(t))
  /\ \A e \in Effects : WF_vars(ProviderDone(e))
  /\ \A d \in {"start", "lease", "rollback"} : WF_vars(Expire(d))

FairSpec == Spec /\ Fairness

-------------------------------------------------------------------------------
(* Properties *)

\* Production is changed at most once for each operation, whatever is
\* redelivered, stopped or left running: Cloud Run has no idempotency key for a
\* PATCH, so claim_canary is the only thing between a redelivery and a second
\* mutation.
OneMutation == \A e \in Effects : sent[e] <= 1

InFlight == {e \in Effects : op[e] \in Live}

\* The rollout, its reservation, the request's lifecycle, the operations, the
\* receipts and the commands are written by different transactions of three
\* services; they tell the same story all the same.
ReservationAgrees ==
  /\ rollout = "none" <=> reservation = "none"
  /\ reservation = "RELEASED" <=> rollout \in {"PROMOTED", "ROLLED_BACK"}
  /\ rollout = "AMBIGUOUS" => reservation = "RECONCILING"

RequestAgrees ==
  /\ rollout = "none" => request = "DEPLOYMENT_APPROVAL_PENDING"
  /\ rollout = "CANARY_DEPLOYING" => request = "CANARY_DEPLOYING"
  /\ rollout \in {"CANARY_READY", "PROMOTING"} => request = "VERIFYING"
  /\ rollout = "PROMOTED" => request \in {"VERIFYING", "PROMOTED"}
  /\ rollout = "VERIFICATION_FAILED" => request \in {"VERIFYING", "ROLLBACK_APPROVAL_PENDING"}
  /\ rollout \in {"ROLLING_BACK", "ROLLBACK_PENDING"} => request = "ROLLING_BACK"
  /\ rollout = "ROLLED_BACK" => request = "ROLLED_BACK"
  /\ rollout = "AMBIGUOUS" => request \in {"BLOCKED", "ROLLBACK_AMBIGUOUS"}

\* The rollout's state while operation e is in flight.
Under(e) ==
  CASE e = 0 -> "ROLLING_BACK" [] e = 1 -> "CANARY_DEPLOYING" [] OTHER -> "PROMOTING"

OperationsAgree ==
  /\ \A e, f \in InFlight : e = f
  /\ \A e \in InFlight : rollout = Under(e) /\ command[Effect(e)] = "ISSUED"
  /\ \A e \in Effects :
       /\ op[e] = "AMBIGUOUS" <=> command[Effect(e)] = "AMBIGUOUS"
       /\ op[e] = "AMBIGUOUS" => rollout = "AMBIGUOUS"
       /\ command[Effect(e)] = "SUCCEEDED" => op[e] = "SUCCEEDED"
       /\ receipt[e] # "none" => op[e] = "SUCCEEDED"

RecordsAgree == ReservationAgrees /\ RequestAgrees /\ OperationsAgree

\* Once the reservation is released the target belongs to whoever reserves it
\* next: no handler of this rollout, however late, can still change it.  (When
\* somebody restores the predeploy traffic by hand, a late ROLLBACK_RELEASE can
\* still ask for the traffic that is there already.)
TargetIsQuiet ==
  reservation = "RELEASED" => \A t \in Ticks : CanPatch(t) => call[t] = Effect(target)

\* What is settled stays settled: a receipt, an operation's or a command's
\* outcome, the rollout's end.  A late handler or verifier rewrites none.
SettledStays ==
  /\ rollout \in Final => rollout' = rollout
  /\ \A e \in Effects :
       /\ op[e] \in {"SUCCEEDED", "AMBIGUOUS"} => op'[e] = op[e]
       /\ receipt[e] # "none" => receipt'[e] = receipt[e]
  /\ \A k \in Commands :
       command[k] \in {"SUCCEEDED", "AMBIGUOUS"} => command'[k] = command[k]

TerminalIsFinal == [][SettledStays]_vars

\* What the release promises about production traffic (StagedExposure): every
\* stage is raised on the verdicts before it, withdrawal is for good, and an
\* ambiguous or closed rollout raises nothing else.
Raised == {e \in Effects : sent[e] > 0}

Unknowable == {e \in Effects : op[e] = "AMBIGUOUS"}
Sealed == IF Unknowable = {} THEN Stages + 1 ELSE CHOOSE e \in Unknowable : TRUE

Outcome ==
  CASE rollout = "PROMOTED" -> "promoted"
    [] rollout = "ROLLED_BACK" -> "withdrawn"
    [] OTHER -> "open"

Exposure == INSTANCE StagedExposure WITH
  raised <- Raised, verdict <- receipt, sealed <- Sealed, outcome <- Outcome

ImplementsExposure == Exposure!Spec

\* "Persist command material before dispatch and complete it exactly once"
\* (persistence/delivery_command_store.py:33): a command that a tick
\* delivers gets its response.
DispatchedIsCompleted ==
  \A k \in Commands :
    (\E t \in Ticks : k \in queue[t]) ~> command[k] \in {"SUCCEEDED", "AMBIGUOUS"}
===============================================================================
