# Solvan: TLA+ models, checks and proofs

Solvan detects a degradation in a customer's production estate, opens an
incident, investigates it with model-driven agents, executes a policy-authorized
mitigation through a fenced actuator, verifies the recovery and keeps the
incident in a reliability case. Several stateless services (coordinator,
actuator, publisher, verifier, relay control, deployment controller, ...) share
one PostgreSQL database, are started by HTTP requests, schedules and Pub/Sub
pushes, and may run in several copies. All coordination is in rows: lease
tokens with an expiry, claim tokens with an attempt budget, unique indexes,
epochs and state columns. These are the parts this project models.

## 1. Inventory

| Component | State it keeps | Operations | What must hold |
|---|---|---|---|
| **Governed action execution** `application/actuator.py`, `persistence/action_store.py`, `action_release.py`, `actuator_dispatch_*.py` | `actions`, `target_epochs`, `target_reservations`, `actuator_dispatches`, `execution_receipts` | recover, reserve, authorize, observe, dry-run, release, prepare, claim, mutate, acknowledge, reconcile, finalize | one provider call per action; a target has one owner; no mutation from a superseded plan; one final receipt the other records agree with |
| **Actuator route** `apps/actuator/main.py`, `persistence/action_invocation.py`, `platform/database.py` | the request's database session and its transaction | admit a request, execute, commit or roll back | a retry does not mutate again; no receipt after the coordinator has given up |
| **Durable outbox and publisher** `persistence/claim_sql.py`, `outbox_store.py`, `apps/publisher/main.py` | `outbox_events`: token, expiry, attempts, published, quarantined | claim a batch, load, publish, complete, quarantine | nothing lost silently, duplicates bounded by attempts, every row settles |
| **Inbox, intake, entry commands** `persistence/inbox_store.py`, `workflow_ingress.py`, `postgres.py`, `application/incidents.py`, `apps/coordinator/main.py`, `event_handlers.py` | `inbox_events`, `incidents`, lease, the commands in the outbox | ingest, claim, detect, fire, transition under lease, acknowledge, hand back | each event applied once, one incident per key, no transition without its command |
| **Planning, approval, mitigation** `persistence/mitigation_*.py`, `approval_store.py` | hypotheses, actions, approvals, budgets | plan, challenge, approve, expire | an action binds the target it was planned against; attempts bounded |
| **Mutation verification** `persistence/verification_store.py`, `apps/verifier` | `verification_runs`: one verdict for an action | reserve, sample, complete | an incident recovers only on an independent verdict |
| **Agent runtime runs** `persistence/runtime_*.py`, `apps/coordinator/runtime_*.py`, `action_polling.py` | `agent_runs`, the incident and its lease | reserve, invoke, record, fail, adopt, expire, poll, complete | the incident leaves the state in which it waits, with the outcome there is, and leaves no authority behind |
| **Investigation plans** `persistence/investigation_*.py` | plans, steps, results | create, dispatch, record | a step's result is recorded once, for the current plan |
| **Reliability cases** `persistence/case_store.py`, `case_wakeups.py` | cases, wake-ups with claims | open, schedule, claim, heartbeat, defer, complete, close | a due wake-up is handled once and not forgotten |
| **Relay** `persistence/relay_store.py`, `apps/relay_control`, `apps/solvant_relay` | enrollments, jobs, attempts, grants; the ledger on the customer's disk | author, claim, read, grant, settle, report, acknowledge, expire, reconcile, disable, revoke | a job is read under one claim, bound to one result, settled once; the evidence is not let go before |
| **Release rollout** `persistence/release_rollout_store.py` and its neighbours, `apps/deployment_controller`, `apps/release_verifier`, `apps/coordinator/code_change_delivery.py` | request, rollout, reservation, operations, receipts, private commands; the service's traffic | start, canary, promote, verify, register a failure, roll back, finalize, mark ambiguous | one PATCH per operation, each stage on the verdicts of all before it, records that agree, a quiet target at the end |
| **Code changes and GitHub delivery** `persistence/code_change_*.py` | decisions, operations, merges | qualify, deliver, merge | the merged head is the qualified one |
| **Alert triage** `persistence/alert_triage*.py` | alerts, leases, admissions | ingest, claim, complete, retry | as the inbox |
| **Liaison channels** `persistence/liaison_*.py` | conversations, turns, parked work | post, claim a turn, complete, resume | turns are applied in order |
| **SaaS scale admission** `persistence/saas_scale*.py` | capacity tokens, cursors | admit, return, move | capacity is never exceeded |
| **Trigger policies, catalogues, identity, console, detectors** | versioned content, sessions, read models | author, evaluate, project | content validation, authentication, pure input and output |

How they interact. A detector or a trigger scheduler inserts an inbox row. A
coordinator tick claims it, opens or attaches to the incident, and writes the
incident's first command into the outbox in the same transaction. The publisher
hands outbox rows to Pub/Sub, whose push endpoint inserts them into the inbox
again. The coordinator's tick then moves the incident, under the incident's
lease, and every move writes the next command. The same tick runs sweeps that
start agent runs, mitigation and verification, and poll them. An execution agent
calls the actuator's HTTP route, which runs the execution protocol against the
target and leaves a receipt; the coordinator reads the receipt and moves the
incident on.

Where it is hard. Every actor is replicated and may die between any two
statements; leases and claims expire under a live owner; delivery is at least
once; a provider may apply a request after its caller has given up; and a
psycopg connection that is not in autocommit mode turns a `transaction()` block
into a savepoint whenever an earlier statement has already begun a transaction,
so what the text of the code commits is not always what is committed. The
`hazards` of PROJECT.json list each such place by line.

## 2. Plan

Built, in this order:

1. `TargetFence` (abstract), `ActionActuator` (detailed), the refinement, the
   proofs. This is the part where an error changes a customer's production.
2. `ActuatorRoute`: the same protocol as it is deployed, with the transaction
   the route really has, and the coordinator that reads its outcome.
3. `OutboxPublisher`, then `IncidentIntake`, which takes the outbox at what
   `OutboxPublisher` shows of it.
4. The proofs of these modules' safety properties.
5. `RelayJobs` with its abstract promise `CollectionPromise`, and the proofs.
6. `ReleaseRollout` with `StagedExposure`, the part that changes a customer's
   production traffic without an actuator, and the proofs.
7. `RuntimeRuns`, the life of the execution and the verification run, composed
   with the route and the verifier in `ActuatorRoute`; the proofs anew.
8. `MitigationPromise` and `IntakePromise`, which the route and the intake are
   shown to implement, and the theorems about states nothing leads out of.

Left, most important first:

9. `ActionRecovery`: route and actuator protocol composed, to state what the
   route would promise if `count_dispatches_in_window` ran inside a transaction
   of its own. Theorem: the composition still implements `TargetFence`.
10. `CaseWakeups`: claim, heartbeat, deferral, completion by the transition the
   wake-up caused, and case closure. Abstract specification: each due wake-up is
   handled once.
11. `MitigationLoop`: planning, approval sequences, attempt budget and cooldown
    before the execution run, and the rollback action a failed verification
    authors. Liveness: the incident ends in a terminal state or in ESCALATED.
12. The runs of the supervisor and the specialists, and the investigation steps
    that hang on them, as further kinds of `RuntimeRuns`.

## 3. The modules

Definitions carry the names of the functions they model. Most modules
have operators marked "Deviation": a changed form of the definition that
follows it, as a plausible slip in that code would have it, used to show that the
properties notice (PROJECT.json `mutants`). They are not part of `Next`.

### TargetFence and ActionActuator

`ActionActuator` is `ActionActuator.execute` with each method of
`PostgresActionStore` as one atomic step, since each is one `transaction()`
block. A *call* is one invocation of `execute`. It draws fresh lease tokens, so
`holder[a] = c` says that the reservation and dispatch rows of `a` carry the
tokens of `c`; the two rows always get their tokens and expiries together, so
one `leaseLive` stands for both. `pc` is the next store method or connector call
of the call, `carry` the release reason or result it brings to it.

| TLA+ | code |
|---|---|
| `ClaimRecovery` | `claim_recovery`: no outstanding dispatch, so acquire; or an expired one, taken over |
| `AcquireStale`, `AcquireReservation` | the two committed outcomes of `acquire_reservation` |
| `AuthorizeForExecution` | `authorize_for_execution`; its refusal is always possible (authority revoked, expired, budget) |
| `CheckPreconditions` | observe, dry run and the gates of `execute` before dispatch |
| `ReleaseBeforeMutation` | `release_before_mutation` |
| `PrepareDispatch`, `AuthorizePreparedDispatch`, `ClaimMutation` | `prepare_dispatch`, `authorize_prepared_dispatch`, `claim_mutation` |
| `Mutate`, `ConnectorReturns`, `RecordConnectorAck`, `Reconcile`, `FinalizeDispatch` | `_issue_and_reconcile`, `_reconcile_and_finalize`; the settlement is one step because it is one transaction |
| `Fail` | any refused fence, conflict or exception, and the death of the process |
| `LeaseExpires`, `EffectLands`, `RequestLost`, `Drift` | database time; a provider that applies a request late, only to the version it names, or never; changes made by others |

Time appears only as `LeaseExpires`, which may happen at any moment. A
reconciliation may return anything its connector could conclude from what the
provider shows at that moment, `NO_EFFECT` while the request is still under way
included. `heartbeat` and `record_execution` are not modelled: `execute` calls
neither. The incident's attempt counter and the approval records are left to the
mitigation loop.

`TargetFence` says what the protocol is for, without tables, leases or calls: an
action owns its target from reservation to a conclusive outcome, claims the one
mutation only while it owns it, and keeps it for ever when the outcome is
ambiguous. `FencePhase` maps the rows to its one variable.

### RuntimeRuns and ActuatorRoute

One action, the two runs it needs, the coordinator's ticks that keep them, the
HTTP requests of the execution agent and the calls of the verification agent.

`RuntimeRuns` has the ticks. A run is looked for, reserved under the incident's
lease, handed to the Agent Runtime and recorded as dispatched, each step in a
transaction of its own; a tick may die between any two and its lease may run out.

| TLA+ | code |
|---|---|
| `Queue`, `AcquireLease`, `Reserve`, `NothingToDo` | `actions_needing_execution` / `..._verification`, `acquire_lease`, `reserve_execution` / `reserve_verification`, the lease given back |
| `BindingRefused` | the Tool profile of an execution cannot be frozen: the action is INVALIDATED |
| `Invoke` | `_invoke_with_partial_receipt`: a complete answer, an incomplete one (`known`), none |
| `RecordDispatch`, `FailCreated` | `record_dispatch` and `release_lease` in one transaction; `fail_created` with the escalation |
| `AdoptCreated`, `FindExpired`, `ExpireCreated` | the three ways of `_recover_expired_created_runs` |
| `ReadOutcome`, `CompleteRun`, `FailRun` | `_poll_execution_run`, `_poll_verification_run` |
| `EndRun` | the run's end, `commit_transition` and `release_lease`, one transaction everywhere |
| `TickEnds` | no lease, a lock timeout, a conflict, a crash |

DISPATCHED stands for RUNNING too, FAILED for TIMED_OUT, and the verdict FAILED
for INCONCLUSIVE: the code treats them alike. The minute of grace the sweep adds
to a run's deadline is part of `DeadlinePasses`. The ticks are those of the
release profile, where each `transaction()` block is durable. In the target
profile `apps/coordinator/alert_triage.py:326` has begun a transaction with a SELECT
before the runs are started, so that a reservation becomes visible only when the
tick has ended.

`ActuatorRoute` EXTENDS it with the requests and the verifier. The route calls
`count_dispatches_in_window` on its connection outside a `transaction()` block;
psycopg begins a transaction with that SELECT, so all store methods of the
request are savepoints of one transaction which commits when the connection
closes. Hence `Commit` is one step, `Abort` undoes everything, and what the
request has done in between is visible only to itself (`request`, `result`) and
to others as a row lock (`rowLock`), taken by the UPDATE in
`require_execution_invocation`. `SessionEnds` is
`idle_in_transaction_session_timeout` (30 s) or a lost connection, while the
request waits for a connector whose read timeout is 35 s. The steps of
`ActionActuator` between `Enter` and `Commit` are contracted to those that touch
the provider. The verifier has two transactions, `ReserveVerification` and
`CompleteVerification`; the second asks neither for the run nor for the incident
again, and only the index `verification_runs_one_mitigation_result` keeps the
verdict single.

`MitigationPromise` says what is left of all this when runs, requests, leases and
row locks are taken away: an action is executed once, while the incident is
MITIGATING and the action AUTHORIZED; it is judged once, and only after it
succeeded (a judgement may come when the incident has escalated meanwhile); the
incident moves only on that receipt or verdict, or to a person, who finds no
authority left. The mapping is the identity on four variables.

### OutboxPublisher

The rows of `outbox_events`, scheduled ticks that claim a batch, and the broker.
`claim[e]` is a tick while the row carries that tick's live token, `Gone` when
the tick is over but its claim has not expired, and `Nobody` when there is no
token or an expired one (the SQL treats these alike). A tick has no
per-event error handling: `Raise` and `Crash` end it with all its claims.

### IncidentIntake

One incident and the events about it. `Deliver` is `ingest_event` for detections,
firings and for commands that come back through the broker. `ClaimBatch` is
`claim_inbox`; the actions of `Handle` are the branches of
`_apply_inbox_claim`. `process_trigger` is called after a SELECT outside a
transaction, so its writes stay in the tick's open transaction: `Fire` only puts
the firing into `held[t]`, and the next `Load` commits it, or a stale load, a
failing sweep or a crash discards it. A command's event type is a name and, for
a transition, the source event appended to it: `Plain` and `TransitionKey` keep
the two apart, which is all that the dispatch on the event type depends on.

`IntakePromise` is the intake without claims, tokens, attempts and open
transactions: an alert takes effect once, in the step that completes it, and its
effect is the incident it opens or joins; a command exists for each state entered;
the first one moves the incident in the step that uses it up; what is parked has
no effect. It admits several alerts, or several parked rows, in one step: one
commit makes all firings of an open transaction durable, and one claim statement
quarantines all exhausted rows. `Standing` maps a row to what it means there.

### CollectionPromise and RelayJobs

One enrollment, its jobs, the coordinator's sweeps and the Relay's cycles. A
request of a cycle is put on `wire`, and either handled by the control plane or
lost, when its cycle may be gone. What ends a cycle early (a crash, a refusal,
a failed read) is `Stop`; a cycle is a process and never resumes. `Boot` and
`Host` say which cycles share a boot id (`infra/customer-relay/cloud-run-job.yaml:33`
and `onprem-compose.yaml:22` make it a constant of the template) and which share a
ledger directory: overlapping cycles with one boot id get one claim.

| TLA+ | code |
|---|---|
| `CreateJob`, `Cancel`, `Disable`, `Revoke`, `Reenable` | `relay_job_authoring.py`, the administrator's routes |
| `Poll`, `AcceptClaim`, `RepeatClaim` | the poll, `claim_job`, its replay for the same boot id |
| `RecordStart`, `ReadProvider`, `StoreResult`, `RecordAcknowledged`, `AcknowledgeTerminalOutcomes` | `runtime.py` and `ledger.py` |
| `GrantUpload`, `AcceptReceipt`, `HandleOutcome` | `create_upload_grant`, `commit_success_receipt`, `record_retryable_attempt_failure` |
| `ExpireUnclaimedJobs`, `ReconcileExpiredClaims` | the two sweeps of a coordinator tick |

A result is identified by the cycle that collected it. Registration, profiles,
readiness challenges and signatures end in a refusal and are part of `Lose` and
`Stop`; a sweep takes all due rows (the batch limit and SKIP LOCKED only delay
it). `CollectionPromise` is what the Tool call may rely on.

### StagedExposure and ReleaseRollout

One approved release. A delivery tick proposes every command that is due (`Plan`,
with the queries of the candidates as `Candidate`), sends the controller's
commands one after the other, then the verifier's; a tick that gives up after 60 s
leaves its handler running (`Abandon`), so several handlers of one command may be
at work. A handler goes through its transactions and provider calls: an effect is
`Observe`, `Fence` (`claim_canary` and its siblings), `Patch`, `RecordHandle`,
`Poll`, `Settle`, or after a lost answer `ObserveLost` and `Adopt` or
`MarkAmbiguous`. `judgedAt` and `generation` carry the target's version: a PATCH
names the generation it observed. `Drift` is everybody else who writes the
service. `StagedExposure` says what the release promises about production traffic: a stage
is raised only when every stage before it was verified and none has failed.

The constant `Ambient` says what a tick's transactions are. The SELECT of
`pr_command_candidates` (`code_change_delivery.py:82`) runs outside a `transaction()`
block on the connection of `run_inbox_tick`, which is not in autocommit mode, and
nothing commits between it and the tick's end; so each
`with connection.transaction(): commands.prepare(...)` is a savepoint, rolled back
when the tick raises. The schema `solvan_delivery` exists in the target profile only,
and there is no other configuration of this code.

* `Ambient = TRUE` is the deployed code. What `Plan` inserts is in the tick's queue
  and in no row: the tick sees it and delivers it in the same run (its deadline was
  tested at the same instant), the controller or verifier looks for the row in a
  session of its own, and `Refuse` is the 409 that ends the tick and takes the
  insert back. Verifications wait in the same queue: whatever is delivered first is
  refused, so the order between the two receivers makes no difference. A conflict
  takes back all inserts of the plan.
* `Ambient = FALSE` is what the text of the code says: each prepare commits as its
  block ends. It is the protocol behind finding 6, and the one to look at when that
  is repaired. All handlers, the fence, verification and rollback are the same in
  both, so the safety run explores them here; they are out of reach as deployed.

The theorems hold for both values. Either way the model begins with an approved
release whose request is DEPLOYMENT_APPROVAL_PENDING. How a request gets there is
not modelled: CREATE_PR, MERGE_PR and the observations before the approval are
prepared and delivered by the same tick in the same transaction, so as deployed they
meet the refusal of finding 6 first.

RECONCILING of a command reads wherever ISSUED does and is folded into it;
INCONCLUSIVE is a FAILED verdict. The observation windows, the freshness of a
failed receipt, verifier key rotation and the rejection of a rollback are not
modelled.

## 4. The runs

Each MC module EXTENDS its specification; the cfg gives the constants.

| run | instance | distinct states | question |
|---|---|---|---|
| `action_actuator` | 2 actions, 1 target, 3 calls, 3 versions | 717,246 | does the protocol, with every method its own transaction, keep its promises and implement `TargetFence`? |
| `actuator_route` | 2 requests, 2 ticks, 2 verification calls at a time | 320,940 | does the incident leave each state in which it waits for a run, on an outcome that has its row, with no authority and no late receipt behind, and is `MitigationPromise` kept? |
| `route_one_mutation` | same | violation | one mutation call per action, as deployed |
| `route_failed_run` | same | violation | a failed run has no receipt |
| `outbox_publisher` | 3 events, one of them refused by the broker, 2 ticks, batch 2, budget 2 | 398,880 | is an event lost, sent too often, or stuck? |
| `outbox_parked` | same, prompt ticks | violation | is every parked event one that was offered to the broker? |
| `incident_intake` | 1 detection, 1 firing, 3 commands, 2 ticks, budget 2 | 276,988 | is each event applied once, one incident opened and triaged, and `IntakePromise` kept? |
| `intake_commands` | same | violation | does a completed command move its incident? |
| `relay_jobs` | 2 jobs, 3 cycles on 2 ledgers with 2 boot ids, 2 attempts, ledger of 1, 2 epochs | 913,541 | is a job read under one claim, bound to one result, settled once or fenced, and is `CollectionPromise` kept? |
| `relay_outcome` | same | violation | is a retryable failure under a live claim recorded? |
| `release_rollout` | `Ambient = FALSE`, 2 ticks, 2 stages, 1 fault of any kind | 809,248 | one PATCH per operation, records that agree, a final end, `StagedExposure` kept? |
| `release_delivery` | `Ambient = TRUE`, 1 tick, 2 stages, no fault | violation | as deployed, does a command that is delivered get its response? |

Bounds, and why they suffice:

* `action_actuator`. The fence is between a call, the one that recovers from it
  and one for the other action, so three calls and two actions. Both actions
  share a target: two targets do not interact except through the index that
  allows one outstanding dispatch per actuator, whose guard
  (`\A b : dispatch[b] \notin Outstanding`) is not stressed across targets here.
  Three versions let a target be at the planned version, at the known good one,
  or at neither. Each action is planned at most once, which also bounds the
  epochs. Calls are symmetric: `act` is chosen for each of them in `Init`, no
  other definition distinguishes them, and the run checks no liveness.
* `actuator_route`. A request and its retry; a tick and one that overlaps it (one
  that has reserved or read, and one that reaps or polls); a verification call and
  its retry, each of which may be made again any number of times. Symmetry is not
  used because a liveness property is checked.
* `outbox_publisher`. A refused event with one event behind it in the batch and
  one beyond the batch; two attempts are the smallest budget with a retry.
* `relay_jobs`. Two jobs compete for the one active place of the enrollment. The
  first cycle that polls makes the enrollment READY, any two of the three then
  meet over the jobs: two with one boot id and different ledgers, two with one
  ledger and different boot ids. `MaxEpoch` bounds re-enabling; the capacity of 1
  makes a full ledger happen.
* `release_rollout`. Two stages are a canary and one promotion, with either as the
  one that fails. Two overlapping ticks put two handlers before one effect without
  a fault; the one fault may stop a handler, time out a tick, change the service,
  fail the provider's operation or end a deadline early. Ticks are symmetric; the
  run checks safety only.
* `release_delivery`. The most favourable case: nobody interferes, nothing fails, no
  deadline passes. The graph of states is small because nothing gets beyond the
  refusal; that more ticks, stages or faults do not change this is the theorem
  `AmbientTicksStartNothing`.
* `incident_intake`. The two ways to open an incident, on the same incident.

`outbox_parked` runs under `PromptSpec`: no tick dies and no claim expires under a
live tick, so nothing but the refused event can be the cause of what it finds.

Deadlock is checked in `action_actuator` and in the release runs. The other instances come to an end when
all requests, events and ticks are done, so their cfgs switch the check off;
there liveness properties say that they do not end too early.

Mutants. For each property of a passing run PROJECT.json names a definition and a
changed form of it under which TLC finds the property violated in the same run.

### Fairness

* `OutboxPublisher`: weak fairness of claiming (a scheduler starts ticks for
  ever), of each step of a running tick (`Advance`, which includes raising: a
  tick finishes or fails), and of expiry (database time advances). Nothing is
  assumed of the broker: a publication may raise every time.
* `IncidentIntake`: the same for its ticks, `Handle(t) \/ Raise(t)`, and for the
  lease's expiry; weak fairness of delivering what is in the outbox, which is
  what `EventsSettle` shows of the publisher short of quarantine. Nothing makes
  detections arrive. `DetectedIsTriaged` excepts behaviours in which another
  coordinator holds the lease again and again.
* `ActuatorRoute`: requests end (`Abort` included, the HTTP timeout), deadlines
  and leases run out, and ticks sweep overdue runs. Strong fairness of
  `AcquireLease` and `Decide` is needed because a tick may end early, when it
  loses the lease or meets a locked row, infinitely often; the scheduler repeats
  the attempt without bound, so one that is possible again and again succeeds.
  Nothing makes a tick start a run, the Runtime answer or the verifier return:
  `IncidentMovesOn` speaks of runs that were reserved.
* `RelayJobs`: the two sweeps, which every coordinator tick runs, and time. Nothing
  is assumed of the Relay or the administrator.
* `ReleaseRollout` (`FairSpec`, for `release_delivery` only): planning, each
  step of a tick's handler, the provider and deadlines; none for the approver. That
  the run still finds its violation shows that trying again does not help. With
  `Ambient = FALSE` and nothing else changed TLC finds none: the open transaction
  alone is the cause.

### What the passing runs show

* `action_actuator`: `AtMostOneMutationCall`, `OneOpenMutationPerTarget`,
  `NoSupersededPlanMutates`, `ReleaseIsJustified`, `OutcomeRecordsAgree`,
  `ReceiptIsFinal` and the refinement hold with calls dying anywhere. Two guards
  the code does not have turn out to be unnecessary only because of the order of
  the calls: `release_before_mutation` checks for a receipt and not for a
  dispatch, and `claim_mutation` does not look at the action's status.
* `actuator_route`: although the request is one transaction, the row lock on the
  run orders it against the coordinator, so no receipt appears once the incident has
  left MITIGATING (`NoReceiptAfterFailure`), and the incident claims no outcome
  without its row. The sweep may fence a run the provider works on; its late tool
  call is then refused. However a run ends, it takes the incident with it and
  leaves no AUTHORIZED action (`NobodyWaitsForDeadRun`, `NoAuthorityLeftBehind`).
  Together it is one execution and one verdict (`ImplementsMitigation`).
* `relay_jobs`: overlapping cycles with one boot id do read for one job twice, but
  only the result the grant was bound to is ever accepted; a job that was read
  never fails its Tool call.
* `release_rollout`: the fence keeps several handlers of one command to one PATCH,
  and the etag keeps a late one from changing a target released meanwhile. One
  exception is stated in `TargetIsQuiet` and in `StagedExposure!Withdraw`: when
  somebody restores the predeploy traffic by hand, a late ROLLBACK_RELEASE may ask
  once more for the traffic that is there.
* `outbox_publisher`: stale ticks are fenced out, and each send is paid for by
  an attempt.
* `incident_intake`: deduplication, takeover and uncommitted firings together
  apply each event once, and to the incident each looks like one step
  (`ImplementsIntake`); contention refunds the attempt, so it alone never parks a
  command.

### Findings

1. **The actuator route's dispatch record is not durable when the provider is
   called** (`route_one_mutation`). `apps/actuator/main.py:231` runs a query
   outside a transaction block on a connection that is not in autocommit mode. If
   the session or the process ends after `connector.mutate`, everything is rolled
   back, the action is AUTHORIZED again, and a retry calls the provider again.
   `specs/13-tenant-integration.md:889` (INV-T-20) and the docstring at
   `actuator_dispatch_store.py:41-43` promise the contrary. `AtMostOneMutationCall`
   holds, and is proved, for the protocol with each store method committed:
   opening that query in a transaction of its own restores the assumption. A
   retry would then be refused, not reconciled: the route admits only AUTHORIZED
   actions, so once EXECUTING is committed no HTTP request reaches the recovery
   path. That composition is the next module of the plan.
2. **A run is failed though its receipt exists** (`route_failed_run`).
   `action_polling.py:61-62` reads the outcome before it takes the lease and
   before the run's row lock is granted, and does not read it again; the
   escalation it writes (lines 150-153) says there is no receipt.
3. **One unpublishable event parks its neighbours** (`outbox_parked`).
   `apps/publisher/main.py:69-82` handles a batch without isolating one event from
   the next. `specs/04-data-event-api.md:138-142` and `claim_sql.py:3-6` say only
   the unpublishable row is parked.
4. **The TRIAGING command is never recognised** (`intake_commands`).
   `persistence/postgres.py:331` writes the transition key,
   `TRIAGE_STARTED:<event>`, as the event type; `apps/coordinator/main.py:185`
   looks for the exact key `TRIAGE_STARTED` in `_ENTRY_TRANSITIONS`
   (`contracts.py:267-270`). The command is acknowledged and the incident stays in
   TRIAGING, unless something outside the modelled code moves it.
5. **A retryable Relay failure is never recorded** (`relay_outcome`).
   `relay_store.py:2196` wants the job EXECUTING; `claim_job` commits CLAIMED, and
   the one statement that enters EXECUTING leaves it in the same transaction.
   Every outcome is refused, the job becomes AMBIGUOUS when its lease ends, no code
   leaves AMBIGUOUS, and the index that allows one active job blocks the enrollment.
   `specs/artifacts/relay-api.md:166-168` and `runtime.py:324` say it is recorded.
   The run takes `claim_job` as it is meant. As written, its own query
   (`relay_store.py:2603-2619`) locks `FOR UPDATE OF j,a` with `a` on the nullable side
   of a LEFT JOIN, which PostgreSQL refuses: the deployed code accepts no claim and
   fails before it comes to line 2196, whose guard is a defect of its own behind that
   one.
6. **A delivered command is not durable, and no release starts**
   (`release_delivery`). `code_change_delivery.py:82` runs a query outside a
   transaction block on the tick's connection (`coordinator/main.py:261`, `354`), so
   all prepares that follow are savepoints of a transaction that ends with the tick.
   The tick delivers START_ROLLOUT before that; the controller does not find the
   command (`deployment_controller/main.py:134-142`) and answers 409, the client raises
   (`platform/deployment_controller.py:53-54`), and the insert is rolled back. Every
   later tick repeats it. `delivery_command_store.py:33` says "Persist command
   material before dispatch and complete it exactly once."

### Remarks

Met while modelling; the models contain the behaviour, no property forbids it.

* Runtime runs. A run is reserved only while the action has not expired and the
  verification profile is APPROVED; when that ends first, the incident stays in
  MITIGATING or VERIFYING_MITIGATION and no sweep looks for it. `record_dispatch` is
  rolled back when another tick has taken the lease, so that a run the provider
  works on stays CREATED until it is reaped. The window of finding 2 exists for the
  verdict as well: VERIFIED may be written after the incident has escalated for
  want of it.
* Relay. `AcceptClaim` is the claim `claim_job` means to make; PostgreSQL refuses its
  query (finding 5). As deployed no job is claimed, so the model has more behaviours
  than the code: its safety properties and theorems hold of the code, which uses few
  of them. Cancelling a PENDING job leaves its Tool
  call RESERVED. A replayed receipt gets a conflict where the docs say the
  committed outcome. A lost cycle leaves its RESULT_STORED job for good. Two cycles
  with one boot id and one ledger may overwrite LOCAL_RESULT_STORED by STARTED
  (`HasTwin`).
* Release, with every prepare durable (behind finding 6).
  `release_rollout_store.py:828` leaves a promotion out of the candidates only while a
  command for it is open. After its response the newest receipt is still the one
  before it, so the same promotion is proposed again, `prepare` raises a conflict, and
  the tick ends before it dispatches the verification of the new stage; so does every
  later tick that does not overlap another (`SequentialTicksNeverPromote`). CCR-023 of
  `specs/artifacts/code-change-release-acceptance.yaml:186-189` says otherwise; it is a
  defect to repair together with finding 6.
  A redelivered command may mark its operation AMBIGUOUS while the first
  handler's PATCH is completed. A handler that stops between
  `begin_reconciliation_without_provider_handle` and the completion leaves an
  operation RECONCILING that every redelivery conflicts with. The reservation's
  lease and the command's deadline are one instant, so the command that could
  settle an issued effect after the lease is refused as late, and nothing expires
  the reservation. A verifier that stops between its receipt and its answer leaves a
  verification that ends each tick until its deadline.

## 5. The proofs

`ActionActuatorProofs`, `ActuatorRouteProofs`, `OutboxPublisherProofs`,
`IncidentIntakeProofs`, `RelayJobsProofs` and `ReleaseRolloutProofs` (which
`ReleaseRolloutDeadEnds` continues) prove, for every value of the constants allowed by the
`...Assumption` of their module, all the safety properties that the passing runs
check on their instances, the five refinements among them. The assumptions say
that the tables of constants are functions on their domains and that the special values are not calls, ticks or
events; the only set that has to be finite is the ticks of `OutboxPublisher`.

**ActionActuator.** `TypeCorrect` needs `CarriedIsReady`: what `finalize_dispatch`
writes is a result because of where the call got it. `AtMostOneCall` rests on
`ClaimInv`: PREPARED is left by `claim_mutation` and never entered again, so at most
one call per action is between claim and mutation, and once a call was made the
dispatch is past PREPARED. The leases play no part in it. The others rest on
`FenceInv`, in seven parts. The properties are not inductive on their own, because
they say nothing of a call that holds tokens and has not used them yet:
`HolderBeforeDispatch` supplies that (the token holder before its dispatch has
written none), `AuthorizedIsFresh` and `ReservedIsPlanned` make the reservation of
an action happen once, `HeldIsCurrent` and `HeldIsExclusive` tie the
reservation to the epoch and the target, `OpenDispatchIsHeld` and `SettledTogether`
tie dispatch, receipt and action to the reservation. `ReleaseJustified` adds
`DispatchBehind`, a call past its dispatch really has one. `Implementation` shows
that each action maps to one step of `TargetFence` or to a stutter.

Two theorems say how final two crashes are, for any number of later calls.
`OrphanedReservationIsForEver`: when the call that holds a reservation has ended
without a dispatch, the reservation stays and no action of the target moves again.
It follows from `FenceInv` and two lemmas on who may move a row: `RowMoves` (the
insert into a free target, or a running call) and `CallsEnd` (an ended call stays
ended). `StrandedDispatchBlocksAll`: while an outstanding dispatch has no running
call, nothing is dispatched or settled on any target. It needs `OneOutstanding`, the
invariant the actuator-wide index keeps.

**ActuatorRoute** (with RuntimeRuns). `NobodyWaits` and `FailureIsFinal` rest on
`RunInv`, two orders over the same rows. `HolderWorksOnOpenRun`: whoever has the lock
of the run row works on a run that is DISPATCHED and an action that is AUTHORIZED,
because the coordinator cannot end the run while the lock is held and a request
cannot get it afterwards. `OpenRunIsHome`: while a run is CREATED or DISPATCHED the
incident is in the state that waits for it; so at most one run is open
(`OnlyOpenRun`), a tick that ends the verification run meets no request at all, and
nothing holds the row once the incident has left MITIGATING. `ProgressReceipt` and
`NoAuthorityLeft` add `SeenIsTrue`: receipt and verdict are written once, so that what
a tick has read still holds when it acts on it. Nothing of the kind holds of a tick
that has read *no* outcome: that is finding 2. `KeepsMitigationPromise` needs one fact
more, `ObservedSucceeded`: a verification call past its reservation judges an action
whose receipt is SUCCEEDED.

**OutboxPublisher.** `SettledFinal` needs that a settled row carries no token.
`SendsPaid` needs more than its statement: a tick that has claimed an event will
send it under an attempt it has already spent, even when the claim is over. So
`PaidInv` counts what was sent and the ticks that may still send, which together
never exceed the attempts: a claim adds one to both sides, a publication turns
a tick that may send into a send.

`SingleRowsParkOnlyOffered` isolates the cause of finding 3: under `PromptSpec`
and with a batch of one (`BatchSize = 1`; the code passes 50) every parked event was
taken to the broker, whatever the broker refuses. An attempt not yet offered then
belongs to the one tick that is about to load the row (`SpentOnOffer`).

**IncidentIntake.** `LedgerTrue` rests on `LedgerInv`: a firing in an open transaction
is still PROCESSING (nobody can settle a locked row), and one transaction at a
time holds one (`HeldByOne`), so that committing it settles it for the first
time. `SingleIncident` and `CommandsMatch` rest on `IncidentInv`, the number of
inserted incidents and the commands written as functions of the state.
`TransitionsEntry` and `OnlyOpeningIsEntry`, part of `TypeInv`, say which commands
the handler recognises: only the one written when the incident is opened. From it
follows `NeverInvestigated`: finding 4 is not an accident of one instance; no
number of events, ticks or attempts takes the incident to INVESTIGATING through
its command. `KeepsIntakePromise` is the refinement. Beyond the other invariants it needs
`CommandInv`, which ties the first command to the incident: its row is COMPLETED
exactly when the incident is TRIAGING, so that it is never merely acknowledged.

**RelayJobs.** The inductive `ClaimInv` ties the three places a collection lives in:
the job's row (a claim exists exactly in the claimed states, and a bound grant stays),
the cycle (from its claim on it holds the job's only claim, `CycleHoldsClaim`), and
the ledger (a result somebody may still bind is on the disk, `UploadIsKept`). From it
follow `ReadersHoldTheClaim`, `OutcomeIsOne`, `EvidenceRetained`, `BoundOnce` and the
refinement `KeepsPromise`, for any numbers of jobs, cycles, boot ids and ledgers.
`NoSecondAttempt` generalises finding 5: a job is never EXECUTING between two
transactions, so no attempt is ever recorded as retryable and none is followed by a
second, whatever `maximum_attempts`. `AmbiguityIsTheLastJob` is its consequence
together with the one-active-job index (`OneActive`): after one AMBIGUOUS job the
enrollment never claims or completes another, re-enabling included.

**ReleaseRollout.** The rows are written only by the steps of the services'
transactions, and `RecordsTellOneStory` shows that `RecordsAgree`, strengthened by
where each handler stands, is inductive over them. `ProductionChangesOnce` counts: one
handler at the fence at a time, nothing sent before it, at most one after.
`ReleasedTargetIsQuiet` follows from the etag: who holds the current generation past
the fence has an operation that is still open, or has nothing to change.
`RolloutImplementsExposure` needs the ladder of stages (`StageInv`): which operations
are behind a receipt, that nothing is raised above a failed stage, and that an
AMBIGUOUS operation is the last.

`ReleaseRolloutDeadEnds` has what a release does not get out of.
`AmbientTicksStartNothing` is finding 6 for any number of ticks, stages and faults:
under `Ambient` no command becomes durable, no rollout exists and production is never
changed. Its invariant (`Untouched`) says that the rows are those of the approved
release and no handler is at work; only `Plan` could change that, and it changes no row.
`SequentialTicksNeverPromote` is what waits behind it (the remark on
`release_rollout_store.py:828`), for any number of stages: under the one
assumption that there is one tick at a time and no handler dies (`Sequential`), no
second stage is verified and no release promoted, drift, provider failures and
timeouts notwithstanding. Its invariant is `LoneInv`: a settled effect has its
answer or is about to give it, so the promotion is proposed again by every plan
that could reach the verification of stage 2, and the conflict ends the plan
(`SecondIsBarred`).
`OrphanedAdoptionIsNeverSettled` and `ExpiredLeaseIsForEver` prove that two states
of the remarks above have no way out: the adoption without a handle (a drift may
end it as AMBIGUOUS), and the reservation whose lease is over.

Only model-checked: liveness (`IncidentMovesOn`, `EventsSettle`, `AlertsSettle`,
`DetectedIsTriaged`, `EveryJobIsSettledOrFenced`), which is about fairness and ENABLED, out of the prover's
reach. Induction over data and recursive operators, which it could not handle
either, do not occur: no module uses a recursive operator. The number of rows in
a batch (`Cardinality` in `First`) plays no part in the proofs, they hold for
whatever part of the ready rows a tick claims.

## 6. Not modelled

* Planning, approval and the mitigation budget beyond `PlanAction`, the runs of the
  supervisor, the specialists and the workspace agent, cases and wake-ups: planned
  (section 2).
* Code changes, alert triage, liaison and SaaS scale: separate product areas with
  schemas of their own. Alert triage repeats the inbox's claim pattern.
* Trigger policy authoring, catalogues, memory, workspaces, operator identity:
  content validation, hashing and authentication, with little concurrent control.
* Console, API projections, detectors, infrastructure: read models, pure input
  and output, deployment descriptions.
* Within the modelled parts: the kill switch, rate budgets and caller
  authentication of the actuator route (each is a refusal before any write,
  contained in `Abort`); the earned-autonomy and production-graph gates beyond
  their refusal; liaison steer events; the sweeps of a coordinator tick, except
  that one may fail while a firing is uncommitted.
* A provider that applies a timed-out Cloud Run change after `reconcile` has reported
  `NO_EFFECT`. The model contains that behaviour, the repository promises nothing
  about it, and no property forbids it.
