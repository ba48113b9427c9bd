----------------------------- MODULE RuntimeRuns -----------------------------
(***************************************************************************)
(* The runtime runs of one governed action, as coordinator ticks keep      *)
(* them: the execution run that performs it while the incident is          *)
(* MITIGATING, and the verification run that judges it while the incident  *)
(* is VERIFYING_MITIGATION.  Both are reserved, handed to the Agent        *)
(* Runtime, recorded as dispatched or failed, swept when the dispatch was  *)
(* not recorded, and polled for an outcome an agent's tool call left in    *)
(* the database.                                                           *)
(*                                                                         *)
(* A tick works in several transactions under the incident's lease.  It    *)
(* may die between any two, and its lease may run out under it.  The       *)
(* actions say nothing of the variables other modules declare.             *)
(***************************************************************************)
CONSTANTS
  Requests,   \* HTTP requests to execute the action, retries included
  Ticks,      \* coordinator ticks
  Nobody      \* no transaction holds the run row, no tick holds the lease

ASSUME RunsAssumption == Nobody \notin Requests \cup Ticks

VARIABLES
  run,        \* agent_runs.status of either run; RUNNING reads as DISPATCHED
  overdue,    \* the run's deadline has passed
  known,      \* a CREATED run's row names the provider's operation
  action,     \* actions.status, as committed
  receipt,    \* execution_receipts.result, as committed
  verdict,    \* verification_runs.verdict, as committed
  incident,   \* incidents.state
  lease,      \* the tick whose token is on the incident
  leaseLive,  \* that token has not expired
  rowLock,    \* the request whose open transaction holds the execution run's row
  at,         \* where a tick stands
  kind,       \* the run it works on
  seen        \* the outcome it read before it asked for the lease

outcomes == <<action, receipt, verdict>>
leases   == <<lease, leaseLive>>
ticks    == <<at, kind, seen>>
runsVars == <<run, overdue, known, outcomes, incident, leases, rowLock, ticks>>

Kinds == {"execution", "verification"}
Results == {"SUCCEEDED", "FAILED", "AMBIGUOUS"}
Verdicts == {"VERIFIED", "FAILED"}      \* INCONCLUSIVE is treated as FAILED
Over == {"SUCCEEDED", "FAILED"}         \* TIMED_OUT is treated as FAILED

(* The state of the incident in which it waits for the run. *)
Home(k) == IF k = "execution" THEN "MITIGATING" ELSE "VERIFYING_MITIGATION"

RunsTypeOK ==
  /\ run \in [Kinds -> {"none", "CREATED", "DISPATCHED"} \cup Over]
  /\ overdue \in [Kinds -> BOOLEAN] /\ known \in [Kinds -> BOOLEAN]
  /\ action \in {"AUTHORIZED", "INVALIDATED"} \cup Results
  /\ receipt \in {"none"} \cup Results
  /\ verdict \in {"none"} \cup Verdicts
  /\ incident \in {"MITIGATING", "VERIFYING_MITIGATION", "MITIGATION_PROPOSED",
                   "AWAITING_APPROVAL", "MITIGATED", "ESCALATED"}
  /\ lease \in Ticks \cup {Nobody} /\ leaseLive \in BOOLEAN
  /\ rowLock \in Requests \cup {Nobody}
  /\ at \in [Ticks -> {"idle", "queued", "starting", "reserved", "accepted", "refused",
                       "read", "deciding", "expired", "reaping"}]
  /\ kind \in [Ticks -> Kinds]
  /\ seen \in [Ticks -> {"none"} \cup Results \cup Verdicts]

RunsInit ==
  /\ run = [k \in Kinds |-> "none"]
  /\ overdue = [k \in Kinds |-> FALSE] /\ known = [k \in Kinds |-> FALSE]
  /\ action = "AUTHORIZED" /\ receipt = "none" /\ verdict = "none"
  /\ incident = "MITIGATING"
  /\ lease = Nobody /\ leaseLive = FALSE
  /\ rowLock = Nobody
  /\ at = [p \in Ticks |-> "idle"]
  /\ kind = [p \in Ticks |-> "execution"]
  /\ seen = [p \in Ticks |-> "none"]

-----------------------------------------------------------------------------
(* Turning to a run, going on with it, and going back to the next sweep. *)
Turn(p, place, k, x) ==
  /\ at' = [at EXCEPT ![p] = place]
  /\ kind' = [kind EXCEPT ![p] = k]
  /\ seen' = [seen EXCEPT ![p] = x]

Goto(p, place) == at' = [at EXCEPT ![p] = place] /\ UNCHANGED <<kind, seen>>

Leave(p) == Turn(p, "idle", "execution", "none")

GiveBack == lease' = Nobody /\ leaseLive' = FALSE

(* commit_transition: the lease is live and the incident still waits for the run. *)
MayMove(p) == lease = p /\ leaseLive /\ incident = Home(kind[p])

(* Deviation: the run ends even when the incident may no longer be moved. *)
EndRunAnyway(p, status, state) ==
  /\ run' = [run EXCEPT ![kind[p]] = status]
  /\ incident' = IF MayMove(p) THEN state ELSE incident
  /\ GiveBack
  /\ Leave(p)

(* The run ends, the incident moves and the lease is released in one
   transaction. *)
EndRun(p, status, state) ==
  /\ MayMove(p)
  /\ run' = [run EXCEPT ![kind[p]] = status]
  /\ incident' = state
  /\ GiveBack
  /\ Leave(p)

(* Deviation: the incident escalates and leaves the action as it is. *)
LeftAuthorized(k) == action

(* What becomes of the action when its run ends without a receipt. *)
Fenced(k) == IF k = "execution" /\ action = "AUTHORIZED" THEN "AMBIGUOUS" ELSE action

(* actions_needing_execution, actions_needing_verification *)
Needed(k) ==
  /\ run[k] = "none"
  /\ incident = Home(k)
  /\ IF k = "execution" THEN action = "AUTHORIZED"
     ELSE action = "SUCCEEDED" /\ receipt = "SUCCEEDED"

-----------------------------------------------------------------------------
Queue(p, k) ==
  /\ at[p] = "idle"
  /\ Needed(k)
  /\ Turn(p, "queued", k, "none")
  /\ UNCHANGED <<run, overdue, known, outcomes, incident, leases, rowLock>>

(* acquire_lease.  When the incident has moved on by now, its version is no
   longer the run's and the lease is given back without effect. *)
AcquireLease(p) ==
  /\ lease = Nobody \/ ~leaseLive
  /\ incident = Home(kind[p])
  /\ \E step \in {<<"queued", "starting">>, <<"read", "deciding">>, <<"expired", "reaping">>} :
       at[p] = step[1] /\ Goto(p, step[2])
  /\ lease' = p /\ leaseLive' = TRUE
  /\ UNCHANGED <<run, overdue, known, outcomes, incident, rowLock>>

(* reserve_execution, reserve_verification: at most one run of a kind. *)
Reserve(p) ==
  /\ at[p] = "starting"
  /\ MayMove(p)
  /\ Needed(kind[p])
  /\ run' = [run EXCEPT ![kind[p]] = "CREATED"]
  /\ Goto(p, "reserved")
  /\ UNCHANGED <<overdue, known, outcomes, incident, leases, rowLock>>

(* Another tick has reserved the run, or the sweep found it no longer CREATED. *)
NothingToDo(p) ==
  /\ lease = p
  /\ \/ at[p] = "starting" /\ run[kind[p]] # "none"
     \/ at[p] = "reaping" /\ run[kind[p]] # "CREATED"
  /\ GiveBack
  /\ Leave(p)
  /\ UNCHANGED <<run, overdue, known, outcomes, incident, rowLock>>

(* The execution agent's tool profile cannot be bound: nothing was sent. *)
BindingRefused(p) ==
  /\ at[p] = "reserved" /\ kind[p] = "execution"
  /\ run["execution"] = "CREATED"
  /\ EndRun(p, "FAILED", "ESCALATED")
  /\ action' = IF action = "AUTHORIZED" THEN "INVALIDATED" ELSE action
  /\ UNCHANGED <<overdue, known, receipt, verdict, rowLock>>

(* runtime.invoke.  The Runtime's answer is complete, or it is incomplete and
   record_partial_receipt keeps what it names, or there is none; without a
   complete one nobody knows whether an agent runs. *)
Invoke(p) ==
  /\ at[p] = "reserved"
  /\ \/ Goto(p, "accepted") /\ UNCHANGED known
     \/ Goto(p, "refused") /\ UNCHANGED known
     \/ /\ run[kind[p]] = "CREATED"
        /\ Goto(p, "refused")
        /\ known' = [known EXCEPT ![kind[p]] = TRUE]
  /\ UNCHANGED <<run, overdue, outcomes, incident, leases, rowLock>>

(* The compare-and-swap of every statement that takes a run out of CREATED. *)
IfCreated(k) == run[k] = "CREATED"

(* record_dispatch, then release_lease: the token may have expired, but
   when another tick has taken the lease the dispatch is rolled back. *)
RecordDispatch(p) ==
  /\ at[p] = "accepted"
  /\ IfCreated(kind[p])
  /\ lease = p
  /\ run' = [run EXCEPT ![kind[p]] = "DISPATCHED"]
  /\ GiveBack
  /\ Leave(p)
  /\ UNCHANGED <<overdue, known, outcomes, incident, rowLock>>

(* fail_created, with the escalation: "automatic retry is forbidden". *)
FailCreated(p) ==
  /\ at[p] = "refused"
  /\ IfCreated(kind[p])
  /\ EndRun(p, "FAILED", "ESCALATED")
  /\ action' = Fenced(kind[p])
  /\ UNCHANGED <<overdue, known, receipt, verdict, rowLock>>
-----------------------------------------------------------------------------
(* _recover_expired_created_runs: a run that is CREATED past its deadline is
   adopted when the Runtime shows the operation its row names, *)
AdoptCreated(p, k) ==
  /\ at[p] = "idle"
  /\ IfCreated(k) /\ overdue[k] /\ known[k]
  /\ run' = [run EXCEPT ![k] = "DISPATCHED"]
  /\ UNCHANGED <<overdue, known, outcomes, incident, leases, rowLock, ticks>>

(* and otherwise cancelled at the Runtime, *)
FindExpired(p, k) ==
  /\ at[p] = "idle"
  /\ IfCreated(k) /\ overdue[k]
  /\ Turn(p, "expired", k, "none")
  /\ UNCHANGED <<run, overdue, known, outcomes, incident, leases, rowLock>>

(* and fenced, with the escalation, under the incident's lease. *)
ExpireCreated(p) ==
  /\ at[p] = "reaping"
  /\ IfCreated(kind[p])
  /\ EndRun(p, "FAILED", "ESCALATED")
  /\ action' = Fenced(kind[p])
  /\ UNCHANGED <<overdue, known, receipt, verdict, rowLock>>

-----------------------------------------------------------------------------
(* The row an agent's tool leaves for the coordinator. *)
Outcome(k) == IF k = "execution" THEN receipt ELSE verdict

(* _poll_execution_run, _poll_verification_run: the deadline has passed, or the
   Runtime reports the operation over, which it may do while the tool is still
   at work.  The outcome is read in a transaction of its own. *)
ReadOutcome(p, k) ==
  /\ at[p] = "idle"
  /\ run[k] = "DISPATCHED"
  /\ Turn(p, "read", k, Outcome(k))
  /\ UNCHANGED <<run, overdue, known, outcomes, incident, leases, rowLock>>

(* Deviation: an unknown outcome is sent to verification. *)
NextStatesOptimistic(k, x) ==
  IF k = "execution"
  THEN IF x = "FAILED" THEN {"MITIGATION_PROPOSED"} ELSE {"VERIFYING_MITIGATION"}
  ELSE {"MITIGATED"}

(* Deviation: an event name where a state belongs. *)
NextStatesByEvent(k, x) ==
  IF x = "FAILED" THEN {"MUTATION_FAILED_RETRYABLE"} ELSE {"MITIGATED", "VERIFYING_MITIGATION"}

(* The states an outcome may lead to.  A failed verification has a rollback
   planned for approval, or escalates when none can be planned. *)
NextStates(k, x) ==
  CASE k = "execution" /\ x = "SUCCEEDED"   -> {"VERIFYING_MITIGATION"}
    [] k = "execution" /\ x = "FAILED"      -> {"MITIGATION_PROPOSED"}
    [] k = "execution" /\ x = "AMBIGUOUS"   -> {"ESCALATED"}
    [] k = "verification" /\ x = "VERIFIED" -> {"MITIGATED"}
    [] k = "verification" /\ x = "FAILED"   -> {"AWAITING_APPROVAL", "ESCALATED"}

(* Deviation: statements that do not wait for the run row. *)
NoRowLock == TRUE

(* A statement on the execution run's row waits for the transaction that
   changed it. *)
RunRowFree == rowLock = Nobody

(* Deviation: only an ambiguous receipt makes the coordinator fail the run. *)
AmbiguousRead(p) == seen[p] = "AMBIGUOUS"

NoOutcomeRead(p) == seen[p] = "none"

(* complete_execution or complete_verification, and the move the outcome names. *)
CompleteRun(p) ==
  /\ at[p] = "deciding"
  /\ seen[p] # "none"
  /\ kind[p] = "execution" => RunRowFree
  /\ run[kind[p]] = "DISPATCHED"
  /\ \E state \in NextStates(kind[p], seen[p]) : EndRun(p, "SUCCEEDED", state)
  /\ UNCHANGED <<overdue, known, outcomes, rowLock>>

(* No outcome was read: the run fails, its action becomes AMBIGUOUS unless it
   is settled by now, and the incident escalates.  The run row's lock is waited
   for, the outcome is not read again. *)
FailRun(p) ==
  /\ at[p] = "deciding"
  /\ NoOutcomeRead(p)
  /\ kind[p] = "execution" => RunRowFree
  /\ run[kind[p]] = "DISPATCHED"
  /\ EndRun(p, "FAILED", "ESCALATED")
  /\ action' = Fenced(kind[p])
  /\ UNCHANGED <<overdue, known, receipt, verdict, rowLock>>

-----------------------------------------------------------------------------
(* The tick goes on or ends early: no lease, a lock timeout, a conflict or a
   crash.  Its lease stays until it expires. *)
TickEnds(p) ==
  /\ at[p] # "idle"
  /\ Leave(p)
  /\ UNCHANGED <<run, overdue, known, outcomes, incident, leases, rowLock>>

DeadlinePasses(k) ==
  /\ run[k] \in {"CREATED", "DISPATCHED"}
  /\ ~overdue[k]
  /\ overdue' = [overdue EXCEPT ![k] = TRUE]
  /\ UNCHANGED <<run, known, outcomes, incident, leases, rowLock, ticks>>

LeaseExpires ==
  /\ leaseLive
  /\ leaseLive' = FALSE
  /\ UNCHANGED <<run, overdue, known, outcomes, incident, lease, rowLock, ticks>>

Start(p) ==
  \/ Reserve(p)
  \/ NothingToDo(p)
  \/ BindingRefused(p)
  \/ Invoke(p)
  \/ RecordDispatch(p)
  \/ FailCreated(p)

Decide(p) == CompleteRun(p) \/ FailRun(p) \/ ExpireCreated(p)

Tick(p) ==
  \/ \E k \in Kinds : Queue(p, k) \/ AdoptCreated(p, k) \/ FindExpired(p, k) \/ ReadOutcome(p, k)
  \/ AcquireLease(p)
  \/ Start(p)
  \/ Decide(p)
  \/ TickEnds(p)

RunsNext ==
  \/ \E p \in Ticks : Tick(p)
  \/ \E k \in Kinds : DeadlinePasses(k)
  \/ LeaseExpires

=============================================================================
