---------------------------- MODULE ActuatorRoute ----------------------------
(***************************************************************************)
(* The deployed composition of one governed action: the coordinator's      *)
(* ticks over its two runs (RuntimeRuns), the HTTP requests of the         *)
(* execution agent to the actuator's execute route, and the calls of the   *)
(* verification agent to the independent verifier.                         *)
(*                                                                         *)
(* The route counts recent dispatches on its connection before it opens a  *)
(* transaction.  The connection is not in autocommit mode, so that SELECT  *)
(* begins one transaction which lasts until the connection closes: every   *)
(* store method of the request is a savepoint in it, and the request       *)
(* commits as a whole or not at all.  Its first write locks the run's row. *)
(* The verifier issues no statement outside a transaction block, so its    *)
(* two transactions are two.                                               *)
(***************************************************************************)
EXTENDS RuntimeRuns, Naturals, FiniteSets

CONSTANT Calls   \* calls of the verification tool at work at a time, retries included

VARIABLES
  request,    \* where a request stands
  result,     \* what the request's reconciliation concluded
  sent,       \* the requests whose mutation call has gone to the provider
  applied,    \* the provider has applied one of them
  observing   \* the verification calls admitted and not yet over

requests == <<request, result, sent, applied>>
vars == <<runsVars, requests, observing>>

TypeOK ==
  /\ RunsTypeOK
  /\ request \in [Requests -> {"start", "observe", "mutate", "returning", "finalize",
                               "done"}]
  /\ result \in [Requests -> {"none"} \cup Results]
  /\ sent \in SUBSET Requests /\ applied \in BOOLEAN
  /\ observing \in SUBSET Calls

Init ==
  /\ RunsInit
  /\ request = [r \in Requests |-> "start"]
  /\ result = [r \in Requests |-> "none"]
  /\ sent = {} /\ applied = FALSE
  /\ observing = {}

-----------------------------------------------------------------------------
Proceed(r, place) ==
  /\ request' = [request EXCEPT ![r] = place]
  /\ UNCHANGED <<run, overdue, known, outcomes, incident, leases, ticks, observing>>

(* require_execution_invocation: the run, action and incident admit the call.
   The UPDATE waits while another transaction holds the run row. *)
Enter(r) ==
  /\ request[r] = "start"
  /\ RunRowFree
  /\ run["execution"] = "DISPATCHED" /\ ~overdue["execution"]
  /\ action = "AUTHORIZED"
  /\ incident = "MITIGATING"
  /\ rowLock' = r
  /\ Proceed(r, "observe")
  /\ UNCHANGED <<result, sent, applied>>

(* Reservation, authority, observation and dry run succeed, then the dispatch
   is written and claimed; the version must still be the planned one. *)
ClaimMutation(r) ==
  /\ request[r] = "observe"
  /\ rowLock = r
  /\ ~applied
  /\ Proceed(r, "mutate")
  /\ UNCHANGED <<rowLock, result, sent, applied>>

(* connector.mutate sends the change; it needs no database session. *)
Mutate(r) ==
  /\ request[r] = "mutate"
  /\ sent' = sent \cup {r}
  /\ Proceed(r, "returning")
  /\ UNCHANGED <<rowLock, result, applied>>

(* The connector returns, or is ambiguous; record_connector_ack, then reconcile
   concludes from what the provider shows. *)
Reconcile(r) ==
  /\ request[r] = "returning"
  /\ rowLock = r
  /\ \E x \in Results :
       /\ x = "SUCCEEDED" => applied
       /\ x = "FAILED" => ~applied
       /\ result' = [result EXCEPT ![r] = x]
  /\ Proceed(r, "finalize")
  /\ UNCHANGED <<rowLock, sent, applied>>

(* finalize_dispatch, then the connection closes without an error: everything
   the request wrote becomes visible at once. *)
Commit(r) ==
  /\ request[r] = "finalize"
  /\ rowLock = r
  /\ receipt' = result[r]
  /\ action' = result[r]
  /\ rowLock' = Nobody
  /\ request' = [request EXCEPT ![r] = "done"]
  /\ result' = [result EXCEPT ![r] = "none"]
  /\ UNCHANGED <<run, overdue, known, verdict, incident, leases, ticks, sent, applied, observing>>

(* Any exception, refusal or crash: the connection rolls everything back. *)
Abort(r) ==
  /\ request[r] # "done"
  /\ rowLock' = IF rowLock = r THEN Nobody ELSE rowLock
  /\ result' = [result EXCEPT ![r] = "none"]
  /\ Proceed(r, "done")
  /\ UNCHANGED <<sent, applied>>

(* idle_in_transaction_session_timeout (30 s) ends the session while the
   request waits for a connector (35 s read timeout); the request goes on. *)
SessionEnds(r) ==
  /\ rowLock = r
  /\ rowLock' = Nobody
  /\ UNCHANGED <<run, overdue, known, outcomes, incident, leases, ticks, requests, observing>>

(* The provider applies a request only to the version it names, late or never. *)
EffectLands ==
  /\ sent # {}
  /\ ~applied
  /\ applied' = TRUE
  /\ UNCHANGED <<runsVars, request, result, sent, observing>>

-----------------------------------------------------------------------------
(* PostgresVerificationStore.reserve admits a call of a live run; a call that
   finds the action's verdict returns it and writes nothing. *)
ReserveVerification(c) ==
  /\ c \notin observing
  /\ run["verification"] = "DISPATCHED" /\ ~overdue["verification"]
  /\ action = "SUCCEEDED" /\ receipt = "SUCCEEDED"
  /\ incident = "VERIFYING_MITIGATION"
  /\ verdict = "none"
  /\ observing' = observing \cup {c}
  /\ UNCHANGED <<runsVars, requests>>

(* Deviation: nothing keeps a second verdict of the action out. *)
CompleteVerificationAgain(c) ==
  /\ c \in observing
  /\ verdict' \in Verdicts
  /\ observing' = observing \ {c}
  /\ UNCHANGED <<run, overdue, known, action, receipt, incident, leases, rowLock, ticks, requests>>

(* PostgresVerificationStore.complete, after the signals were sampled.  It asks
   neither for the run nor for the incident again; a second verdict of the
   action is refused by the index verification_runs_one_mitigation_result. *)
CompleteVerification(c) ==
  /\ c \in observing
  /\ verdict = "none"
  /\ verdict' \in Verdicts
  /\ observing' = observing \ {c}
  /\ UNCHANGED <<run, overdue, known, action, receipt, incident, leases, rowLock, ticks, requests>>

(* Any refusal, exception or crash of the verifier. *)
CallEnds(c) ==
  /\ c \in observing
  /\ observing' = observing \ {c}
  /\ UNCHANGED <<runsVars, requests>>

-----------------------------------------------------------------------------
Handle(r) ==
  \/ Enter(r)
  \/ ClaimMutation(r)
  \/ Mutate(r)
  \/ Reconcile(r)
  \/ Commit(r)
  \/ Abort(r)

Verify(c) == ReserveVerification(c) \/ CompleteVerification(c) \/ CallEnds(c)

toolsUnchanged == UNCHANGED <<requests, observing>>

Next ==
  \/ RunsNext /\ toolsUnchanged
  \/ \E r \in Requests : Handle(r) \/ SessionEnds(r)
  \/ EffectLands
  \/ \E c \in Calls : Verify(c)

(* Requests, deadlines and leases run out, the scheduler keeps sweeping overdue
   runs, and a tick that can again and again decide does so.  Nobody has to
   start a run, and no call of the verifier has to return. *)
Fairness ==
  /\ \A r \in Requests : WF_vars(Handle(r))
  /\ WF_vars(LeaseExpires /\ toolsUnchanged)
  /\ \A k \in Kinds : WF_vars(DeadlinePasses(k) /\ toolsUnchanged)
  /\ \A p \in Ticks, k \in Kinds :
       /\ WF_vars(FindExpired(p, k) /\ toolsUnchanged)
       /\ WF_vars(overdue[k] /\ ReadOutcome(p, k) /\ toolsUnchanged)
  /\ \A p \in Ticks :
       /\ WF_vars(TickEnds(p) /\ toolsUnchanged)
       /\ SF_vars(AcquireLease(p) /\ toolsUnchanged)
       /\ SF_vars(Decide(p) /\ toolsUnchanged)

Spec == Init /\ [][Next]_vars /\ Fairness

-----------------------------------------------------------------------------
(* A transition that claims an outcome has the row of that outcome behind it:
   the receipt of an execution (action_polling.py: "derived from the durable
   actuator receipt"), the independent verdict of a recovery ("the model cannot
   calculate or choose the verdict"). *)
ProgressHasReceipt ==
  /\ incident \in {"VERIFYING_MITIGATION", "MITIGATED", "AWAITING_APPROVAL"} => receipt = "SUCCEEDED"
  /\ incident = "MITIGATION_PROPOSED" => receipt = "FAILED"
  /\ incident = "MITIGATED" => verdict = "VERIFIED"
  /\ incident = "AWAITING_APPROVAL" => verdict = "FAILED"

(* Once the incident has left MITIGATING, whether its run was completed, failed,
   fenced by the sweep or never dispatched, no receipt appears and the action
   keeps its status: the request that could write one holds the run row until it
   has, and none is admitted afterwards. *)
NoReceiptAfterFailure ==
  [][incident # "MITIGATING" => receipt' = receipt /\ action' = action]_vars

(* An incident never waits for a run that is over: whatever takes a run to its
   end, polling, a refused dispatch or the sweep of a dispatch nobody recorded,
   moves the incident with it. *)
NobodyWaitsForDeadRun == \A k \in Kinds : run[k] \in Over => incident # Home(k)

(* No authority survives the escalation: an incident that has left MITIGATING,
   by whichever of the six ways, has no AUTHORIZED action that a later tick or
   request could still execute ("automatic retry is forbidden"). *)
NoAuthorityLeftBehind == action = "AUTHORIZED" => incident = "MITIGATING"

(* The whole composition, seen from the incident: ticks, requests and calls of
   the verifier in any interleaving do what MitigationPromise does in a few
   atomic steps, with one receipt and one verdict. *)
Promise == INSTANCE MitigationPromise

ImplementsMitigation == Promise!Spec

(* Whatever is lost, retried or crashes once a run is reserved, the incident
   leaves the state in which it waits for the run; it never returns there. *)
IncidentMovesOn == []<>(\A k \in Kinds : run[k] # "none" => incident # Home(k))

(* specs/13-tenant-integration.md INV-T-20: one action-bound dispatch permits
   one mutation call. *)
OneMutationCall == Cardinality(sent) <= 1

(* What the coordinator writes when it escalates without a receipt: "Execution
   ended without an authoritative receipt". *)
FailedRunHasNoReceipt == run["execution"] = "FAILED" => receipt = "none"

=============================================================================
