------------------------------ MODULE RelayJobs ------------------------------
(***************************************************************************)
(* Collection jobs of one Relay enrollment: the coordinator creates them   *)
(* for reserved Tool calls and sweeps what expired; the control plane      *)
(* leases them, grants one upload and accepts one receipt; the customer's  *)
(* Relay runs bounded cycles that poll, claim, read the provider, keep the *)
(* result in an encrypted ledger on the customer's disk, upload and        *)
(* settle.                                                                 *)
(*                                                                         *)
(* A request is in flight until the control plane handles it or it is      *)
(* lost; its cycle may be gone by then.  A cycle never resumes: whatever   *)
(* stops it (a crash, a refused request, a failed redaction) ends it, and  *)
(* the next cycle is another process.                                      *)
(***************************************************************************)
EXTENDS Naturals, FiniteSets

CONSTANTS
  Jobs,           \* collection jobs, numbered in issued_at order
  Cycles,         \* run_once cycles of the Relay
  Boot,           \* Boot[c]: the SOLVANT_RELAY_PROCESS_BOOT_ID of cycle c
  Host,           \* Host[c]: the ledger directory cycle c runs on
  MaxAttempts,    \* maximum_attempts of a job
  LedgerCapacity, \* max_records of a ledger
  MaxEpoch,       \* bound: epochs the enrollment goes through
  None            \* no holder, no grant, no evidence

Attempts == 1..MaxAttempts
Boots == {Boot[c] : c \in Cycles}
Hosts == {Host[c] : c \in Cycles}

ASSUME RelayAssumption ==
  /\ Jobs \subseteq Nat
  /\ IsFiniteSet(Jobs)
  /\ MaxAttempts \in Nat \ {0}
  /\ LedgerCapacity \in Nat \ {0}
  /\ MaxEpoch \in Nat \ {0}
  /\ None \notin Cycles /\ None \notin Jobs /\ None \notin Boots

VARIABLES
  lifecycle, \* relay_enrollments.lifecycle
  epoch,     \* relay_enrollments.enrollment_epoch
  job,       \* collection_jobs.state; "none" before the row exists
  jobEpoch,  \* collection_jobs.enrollment_epoch
  tried,     \* attempts inserted for the job
  holder,    \* the boot id the claim token was minted for (None: no token)
  attempt,   \* attempt[j][n]: relay_attempts.state
  grant,     \* the cycle whose result the job's upload grant binds
  evidence,  \* the cycle whose result was accepted as evidence
  call,      \* tool_calls.status
  expired,   \* jobs whose expires_at is past
  lapsed,    \* jobs whose lease_expires_at is past
  pc,        \* where a cycle stands
  work,      \* the job a cycle polled
  held,      \* the attempt number its claim returned
  reads,     \* cycles that called the provider
  ledger,    \* ledger[h][<<j, n>>]: the local record of attempt n of job j
  wire       \* requests on their way to the control plane

enrollment == <<lifecycle, epoch>>
rows   == <<job, jobEpoch, tried, holder, attempt, grant, evidence, call>>
clocks == <<expired, lapsed>>
cycles == <<pc, work, held, reads>>
vars   == <<enrollment, rows, clocks, cycles, ledger, wire>>

Terminal == {"ACCEPTED", "REFUSED", "EXPIRED", "CANCELLED"}
Active == {"CLAIMED", "EXECUTING", "RETRY_WAIT", "RESULT_STORED", "AMBIGUOUS"}
JobStates == {"none", "PENDING"} \cup Active \cup Terminal

AttemptStates ==
  {"none", "STARTED", "FAILED_RETRYABLE", "LOCAL_RESULT_STORED", "ACKNOWLEDGED"}

Records == {"none", "STARTED", "LOCAL_RESULT_STORED", "ACKNOWLEDGED"}

Waiting == {"claiming", "granting", "reporting", "settling"}
Running == {"new", "ready", "polled", "claimed", "reading", "collected", "granted",
            "accepted"} \cup Waiting
Steps == Running \cup {"stopped", "refused", "done"}

Requests == {"claim", "upload-grant", "attempt-outcome", "receipt"}

TypeOK ==
  /\ lifecycle \in {"REGISTERED", "READY", "DISABLED", "REVOKED"}
  /\ epoch \in 1..MaxEpoch
  /\ job \in [Jobs -> JobStates]
  /\ jobEpoch \in [Jobs -> 1..MaxEpoch]
  /\ tried \in [Jobs -> 0..MaxAttempts]
  /\ holder \in [Jobs -> Boots \cup {None}]
  /\ attempt \in [Jobs -> [Attempts -> AttemptStates]]
  /\ grant \in [Jobs -> Cycles \cup {None}]
  /\ evidence \in [Jobs -> Cycles \cup {None}]
  /\ call \in [Jobs -> {"none", "RESERVED", "SUCCEEDED", "FAILED"}]
  /\ expired \subseteq Jobs
  /\ lapsed \subseteq Jobs
  /\ pc \in [Cycles -> Steps]
  /\ work \in [Cycles -> Jobs \cup {None}]
  /\ held \in [Cycles -> 0..MaxAttempts]
  /\ reads \subseteq Cycles
  /\ ledger \in [Hosts -> [Jobs \X Attempts -> Records]]
  /\ wire \subseteq Requests \X Cycles

Init ==
  /\ lifecycle = "REGISTERED"
  /\ epoch = 1
  /\ job = [j \in Jobs |-> "none"]
  /\ jobEpoch = [j \in Jobs |-> 1]
  /\ tried = [j \in Jobs |-> 0]
  /\ holder = [j \in Jobs |-> None]
  /\ attempt = [j \in Jobs |-> [n \in Attempts |-> "none"]]
  /\ grant = [j \in Jobs |-> None]
  /\ evidence = [j \in Jobs |-> None]
  /\ call = [j \in Jobs |-> "none"]
  /\ expired = {}
  /\ lapsed = {}
  /\ pc = [c \in Cycles |-> "new"]
  /\ work = [c \in Cycles |-> None]
  /\ held = [c \in Cycles |-> 0]
  /\ reads = {}
  /\ ledger = [h \in Hosts |-> [k \in Jobs \X Attempts |-> "none"]]
  /\ wire = {}

-----------------------------------------------------------------------------
(* Administrator and coordinator.                                          *)

(* The author refuses a job whose enrollment is not READY; the Tool call it
   serves was reserved before.  issued_at orders the jobs. *)
CreateJob(j) ==
  /\ lifecycle = "READY"
  /\ job[j] = "none"
  /\ \A i \in Jobs : i < j => job[i] # "none"
  /\ job' = [job EXCEPT ![j] = "PENDING"]
  /\ jobEpoch' = [jobEpoch EXCEPT ![j] = epoch]
  /\ call' = [call EXCEPT ![j] = "RESERVED"]
  /\ UNCHANGED <<enrollment, tried, holder, attempt, grant, evidence, clocks,
                 cycles, ledger, wire>>

(* transition_enrollment_administratively leaves the jobs alone. *)
Disable ==
  /\ lifecycle \in {"REGISTERED", "READY"}
  /\ lifecycle' = "DISABLED"
  /\ UNCHANGED <<epoch, rows, clocks, cycles, ledger, wire>>

Revoke ==
  /\ lifecycle \in {"REGISTERED", "READY", "DISABLED"}
  /\ lifecycle' = "REVOKED"
  /\ UNCHANGED <<epoch, rows, clocks, cycles, ledger, wire>>

Reenable ==
  /\ lifecycle = "DISABLED"
  /\ epoch < MaxEpoch
  /\ lifecycle' = "REGISTERED"
  /\ epoch' = epoch + 1
  /\ UNCHANGED <<rows, clocks, cycles, ledger, wire>>

(* request_job_cancellation of unclaimed work.  A claimed job only gets a
   cancel_requested_at that nothing but the status answer reads. *)
Cancel(j) ==
  /\ job[j] = "PENDING"
  /\ job' = [job EXCEPT ![j] = "CANCELLED"]
  /\ UNCHANGED <<enrollment, jobEpoch, tried, holder, attempt, grant, evidence,
                 call, clocks, cycles, ledger, wire>>

(* Deviation: the sweep takes every job past its expiry. *)
ExpireAnyJobs ==
  LET due == {j \in expired : job[j] \in {"PENDING", "CLAIMED"}} IN
  /\ due # {}
  /\ job' = [j \in Jobs |-> IF j \in due THEN "EXPIRED" ELSE job[j]]
  /\ call' = [j \in Jobs |-> IF j \in due THEN "FAILED" ELSE call[j]]
  /\ UNCHANGED <<enrollment, jobEpoch, tried, holder, attempt, grant, evidence,
                 clocks, cycles, ledger, wire>>

(* Deviation: the sweep leaves the Tool call open. *)
ExpireJobsAlone ==
  LET due == {j \in expired : job[j] = "PENDING"} IN
  /\ due # {}
  /\ job' = [j \in Jobs |-> IF j \in due THEN "EXPIRED" ELSE job[j]]
  /\ UNCHANGED <<enrollment, jobEpoch, tried, holder, attempt, grant, evidence,
                 call, clocks, cycles, ledger, wire>>

(* expire_unclaimed_jobs: one call without a reservation aborts the sweep. *)
ExpireUnclaimedJobs ==
  LET due == {j \in expired : job[j] = "PENDING"} IN
  /\ due # {}
  /\ \A j \in due : call[j] = "RESERVED"
  /\ job' = [j \in Jobs |-> IF j \in due THEN "EXPIRED" ELSE job[j]]
  /\ call' = [j \in Jobs |-> IF j \in due THEN "FAILED" ELSE call[j]]
  /\ UNCHANGED <<enrollment, jobEpoch, tried, holder, attempt, grant, evidence,
                 clocks, cycles, ledger, wire>>

(* Deviation: the sweep forgets the jobs that were claimed and not started. *)
ReconcileExecuting ==
  LET due == {j \in lapsed : job[j] = "EXECUTING"} IN
  /\ due # {}
  /\ job' = [j \in Jobs |-> IF j \in due THEN "AMBIGUOUS" ELSE job[j]]
  /\ UNCHANGED <<enrollment, jobEpoch, tried, holder, attempt, grant, evidence,
                 call, clocks, cycles, ledger, wire>>

(* reconcile_expired_claims: the read may have happened, so the job is neither
   offered again nor failed. *)
ReconcileExpiredClaims ==
  LET due == {j \in lapsed : job[j] \in {"CLAIMED", "EXECUTING"}} IN
  /\ due # {}
  /\ job' = [j \in Jobs |-> IF j \in due THEN "AMBIGUOUS" ELSE job[j]]
  /\ UNCHANGED <<enrollment, jobEpoch, tried, holder, attempt, grant, evidence,
                 call, clocks, cycles, ledger, wire>>

(* Time passes expires_at of a job, lease_expires_at of a claim.  The lease
   runs from the accepted_at the Relay sent. *)
PassExpiry(j) ==
  /\ job[j] # "none"
  /\ j \notin expired
  /\ expired' = expired \cup {j}
  /\ UNCHANGED <<enrollment, rows, lapsed, cycles, ledger, wire>>

PassLease(j) ==
  /\ holder[j] # None
  /\ j \notin lapsed
  /\ lapsed' = lapsed \cup {j}
  /\ UNCHANGED <<enrollment, rows, expired, cycles, ledger, wire>>

-----------------------------------------------------------------------------
(* The Relay's cycle.                                                      *)

(* resolve_verified_identity knows no disabled or revoked enrollment. *)
IdentityResolves == lifecycle \in {"REGISTERED", "READY"}

(* Deviation: the local record is closed when the job has merely left the
   claimed state. *)
Resolved(j) == job[j] \in Terminal \cup {"RESULT_STORED", "AMBIGUOUS"}

(* The states whose local evidence the Relay may let go. *)
Settled(j) == job[j] \in Terminal

(* acknowledge_terminal_outcomes: ask for the job of every local record that
   is not acknowledged.  Nothing resumes a stored result. *)
AcknowledgeTerminalOutcomes(c) ==
  /\ pc[c] = "new"
  /\ IdentityResolves
  /\ ledger' = [ledger EXCEPT ![Host[c]] =
       [k \in Jobs \X Attempts |->
          IF @[k] # "none" /\ Settled(k[1]) THEN "ACKNOWLEDGED" ELSE @[k]]]
  /\ pc' = [pc EXCEPT ![c] = "ready"]
  /\ UNCHANGED <<enrollment, rows, clocks, work, held, reads, wire>>

(* The jobs the poll may answer with. *)
Offered == {j \in Jobs : job[j] = "PENDING" /\ j \notin expired /\ jobEpoch[j] = epoch}

(* record_poll_readiness turns the enrollment READY, then poll_signed_job shows
   the oldest offered job without leasing it.  Another cycle may see it too. *)
Poll(c) ==
  /\ pc[c] = "ready"
  /\ IdentityResolves
  /\ lifecycle' = "READY"
  /\ \/ /\ Offered = {}
        /\ pc' = [pc EXCEPT ![c] = "done"]
        /\ UNCHANGED work
     \/ \E j \in Offered :
          /\ \A i \in Offered : j <= i
          /\ work' = [work EXCEPT ![c] = j]
          /\ pc' = [pc EXCEPT ![c] = "polled"]
  /\ UNCHANGED <<epoch, rows, clocks, held, reads, ledger, wire>>

Send(c, request, step) ==
  /\ wire' = wire \cup {<<request, c>>}
  /\ pc' = [pc EXCEPT ![c] = step]

(* The envelope was verified against the local policy; accepted_at, the time
   the control plane judges the job's expiry by, is when the claim is sent. *)
SendClaim(c) ==
  /\ pc[c] = "polled"
  /\ work[c] \notin expired
  /\ Send(c, "claim", "claiming")
  /\ UNCHANGED <<enrollment, rows, clocks, work, held, reads, ledger>>

(* ledger.upsert before the provider call.  A full ledger refuses it, after the
   claim was taken: the cycle stops. *)
RecordStart(c) ==
  LET here == ledger[Host[c]]
      key == <<work[c], held[c]>>
  IN /\ pc[c] = "claimed"
     /\ \/ here[key] # "none"
        \/ Cardinality({k \in DOMAIN here : here[k] # "none"}) < LedgerCapacity
     /\ ledger' = [ledger EXCEPT ![Host[c]][key] = "STARTED"]
     /\ pc' = [pc EXCEPT ![c] = "reading"]
     /\ UNCHANGED <<enrollment, rows, clocks, work, held, reads, wire>>

ReadProvider(c) ==
  /\ pc[c] = "reading"
  /\ reads' = reads \cup {c}
  /\ pc' = [pc EXCEPT ![c] = "collected"]
  /\ UNCHANGED <<enrollment, rows, clocks, work, held, ledger, wire>>

(* The provider call fails: report a retryable outcome of the attempt. *)
ReadFails(c) ==
  /\ pc[c] = "reading"
  /\ reads' = reads \cup {c}
  /\ Send(c, "attempt-outcome", "reporting")
  /\ UNCHANGED <<enrollment, rows, clocks, work, held, ledger>>

(* The redacted result is on disk before the control plane hears of it. *)
StoreResult(c) ==
  /\ pc[c] = "collected"
  /\ ledger' = [ledger EXCEPT ![Host[c]][<<work[c], held[c]>>] = "LOCAL_RESULT_STORED"]
  /\ Send(c, "upload-grant", "granting")
  /\ UNCHANGED <<enrollment, rows, clocks, work, held, reads>>

(* The object is uploaded under the granted URL, then the receipt is sent. *)
Upload(c) ==
  /\ pc[c] = "granted"
  /\ Send(c, "receipt", "settling")
  /\ UNCHANGED <<enrollment, rows, clocks, work, held, reads, ledger>>

(* ledger.acknowledge, then the cycle returns. *)
RecordAcknowledged(c) ==
  /\ pc[c] = "accepted"
  /\ ledger' = [ledger EXCEPT ![Host[c]][<<work[c], held[c]>>] = "ACKNOWLEDGED"]
  /\ pc' = [pc EXCEPT ![c] = "done"]
  /\ UNCHANGED <<enrollment, rows, clocks, work, held, reads, wire>>

(* The process dies, times out or raises; a request of it may be in flight. *)
Stop(c) ==
  /\ pc[c] \in Running
  /\ pc' = [pc EXCEPT ![c] = "stopped"]
  /\ UNCHANGED <<enrollment, rows, clocks, work, held, reads, ledger, wire>>

-----------------------------------------------------------------------------
(* The control plane's handlers.  An answer reaches a cycle that still waits
   for it; to the others nothing happens. *)

Answer(c, asked, step) ==
  pc' = [pc EXCEPT ![c] = IF @ = asked THEN step ELSE @]

Handle(request, c) ==
  /\ <<request, c>> \in wire
  /\ wire' = wire \ {<<request, c>>}

(* The request is lost, or refused without effect: either ends the cycle. *)
Lose(request, c) ==
  /\ Handle(request, c)
  /\ pc' = [pc EXCEPT ![c] = IF @ \in Waiting THEN "stopped" ELSE @]
  /\ UNCHANGED <<enrollment, rows, clocks, work, held, reads, ledger>>

(* The unique index relay_one_active_job_per_enrollment. *)
NoneActiveBut(j) == \A i \in Jobs \ {j} : job[i] \notin Active

Eligible(j) == lifecycle = "READY" /\ jobEpoch[j] = epoch

(* claim_job of pending work: a fresh token and lease, and the attempt row.  Its
   query locks FOR UPDATE OF j,a across a LEFT JOIN, which PostgreSQL refuses;
   this is the claim the method means to make. *)
AcceptClaim(c) ==
  LET j == work[c]
      n == tried[j] + 1
  IN /\ Handle("claim", c)
     /\ Eligible(j)
     /\ job[j] = "PENDING"
     /\ n <= MaxAttempts
     /\ NoneActiveBut(j)
     /\ job' = [job EXCEPT ![j] = "CLAIMED"]
     /\ tried' = [tried EXCEPT ![j] = n]
     /\ holder' = [holder EXCEPT ![j] = Boot[c]]
     /\ attempt' = [attempt EXCEPT ![j][n] = "STARTED"]
     /\ lapsed' = lapsed \ {j}
     /\ held' = [held EXCEPT ![c] = n]
     /\ Answer(c, "claiming", "claimed")
     /\ UNCHANGED <<enrollment, jobEpoch, grant, evidence, call, expired, work,
                    reads, ledger>>

(* Deviation: the claim is repeated to whoever asks. *)
RepeatClaimToAnyone(c) ==
  /\ Handle("claim", c)
  /\ Eligible(work[c])
  /\ job[work[c]] = "CLAIMED"
  /\ held' = [held EXCEPT ![c] = tried[work[c]]]
  /\ Answer(c, "claiming", "claimed")
  /\ UNCHANGED <<enrollment, rows, clocks, work, reads, ledger>>

(* claim_job of claimed work: the nonce is made of boot id and job, so every
   cycle with the holder's boot id repeats its claim. *)
RepeatClaim(c) ==
  /\ Handle("claim", c)
  /\ Eligible(work[c])
  /\ job[work[c]] = "CLAIMED"
  /\ holder[work[c]] = Boot[c]
  /\ held' = [held EXCEPT ![c] = tried[work[c]]]
  /\ Answer(c, "claiming", "claimed")
  /\ UNCHANGED <<enrollment, rows, clocks, work, reads, ledger>>

(* The claim token of the request is the job's. *)
HoldsClaim(c) == holder[work[c]] = Boot[c] /\ held[c] = tried[work[c]]

LiveClaim(c) == IdentityResolves /\ HoldsClaim(c) /\ work[c] \notin lapsed

(* Deviation: the job gets the state of its attempt. *)
AttemptStored == "LOCAL_RESULT_STORED"

(* The job's state once its result is bound. *)
Stored == "RESULT_STORED"

(* Deviation: a later request of the same claim binds its own result. *)
RegrantUpload(c) ==
  LET j == work[c] IN
  /\ Handle("upload-grant", c)
  /\ LiveClaim(c)
  /\ job[j] \in {"CLAIMED", Stored}
  /\ job' = [job EXCEPT ![j] = Stored]
  /\ attempt' = [attempt EXCEPT ![j][held[c]] = "LOCAL_RESULT_STORED"]
  /\ grant' = [grant EXCEPT ![j] = c]
  /\ Answer(c, "granting", "granted")
  /\ UNCHANGED <<enrollment, jobEpoch, tried, holder, evidence, call, clocks,
                 work, held, reads, ledger>>

(* create_upload_grant: CLAIMED, EXECUTING and RESULT_STORED follow each other
   in one transaction; the job is left in the last. *)
GrantUpload(c) ==
  LET j == work[c] IN
  /\ Handle("upload-grant", c)
  /\ LiveClaim(c)
  /\ job[j] = "CLAIMED"
  /\ attempt[j][held[c]] = "STARTED"
  /\ job' = [job EXCEPT ![j] = Stored]
  /\ attempt' = [attempt EXCEPT ![j][held[c]] = "LOCAL_RESULT_STORED"]
  /\ grant' = [grant EXCEPT ![j] = c]
  /\ Answer(c, "granting", "granted")
  /\ UNCHANGED <<enrollment, jobEpoch, tried, holder, evidence, call, clocks,
                 work, held, reads, ledger>>

(* commit_success_receipt and relay_commit_success_v1: the bundle commits as
   one.  Neither asks for the lease, the enrollment's state or its epoch. *)
AcceptReceipt(c) ==
  LET j == work[c] IN
  /\ Handle("receipt", c)
  /\ IdentityResolves
  /\ job[j] = "RESULT_STORED"
  /\ HoldsClaim(c)
  /\ grant[j] = c
  /\ attempt[j][held[c]] = "LOCAL_RESULT_STORED"
  /\ call[j] = "RESERVED"
  /\ job' = [job EXCEPT ![j] = "ACCEPTED"]
  /\ attempt' = [attempt EXCEPT ![j][held[c]] = "ACKNOWLEDGED"]
  /\ evidence' = [evidence EXCEPT ![j] = c]
  /\ call' = [call EXCEPT ![j] = "SUCCEEDED"]
  /\ Answer(c, "settling", "accepted")
  /\ UNCHANGED <<enrollment, jobEpoch, tried, holder, grant, clocks, work, held,
                 reads, ledger>>

(* The states record_retryable_attempt_failure accepts an outcome in.  No
   transaction leaves a job in EXECUTING. *)
TakesOutcome(c) ==
  /\ IdentityResolves
  /\ HoldsClaim(c)
  /\ job[work[c]] = "EXECUTING"
  /\ attempt[work[c]][held[c]] = "STARTED"

(* record_retryable_attempt_failure: RETRY_WAIT is passed through in one
   transaction; within the budget the job is offered again without a claim. *)
HandleOutcome(c) ==
  LET j == work[c]
      again == held[c] < MaxAttempts
  IN /\ Handle("attempt-outcome", c)
     /\ IF TakesOutcome(c)
        THEN /\ attempt' = [attempt EXCEPT ![j][held[c]] = "FAILED_RETRYABLE"]
             /\ job' = [job EXCEPT ![j] = IF again THEN "PENDING" ELSE "REFUSED"]
             /\ holder' = [holder EXCEPT ![j] = IF again THEN None ELSE @]
             /\ Answer(c, "reporting", "stopped")
        ELSE /\ UNCHANGED <<attempt, job, holder>>
             /\ Answer(c, "reporting", "refused")
     /\ UNCHANGED <<enrollment, jobEpoch, tried, grant, evidence, call, clocks,
                    work, held, reads, ledger>>

-----------------------------------------------------------------------------
Administer == Disable \/ Revoke \/ Reenable \/ \E j \in Jobs : CreateJob(j) \/ Cancel(j)

Sweep == ExpireUnclaimedJobs \/ ReconcileExpiredClaims

Time == \E j \in Jobs : PassExpiry(j) \/ PassLease(j)

Cycle(c) ==
  \/ AcknowledgeTerminalOutcomes(c) \/ Poll(c) \/ SendClaim(c) \/ RecordStart(c)
  \/ ReadProvider(c) \/ ReadFails(c) \/ StoreResult(c) \/ Upload(c)
  \/ RecordAcknowledged(c) \/ Stop(c)

Control(c) ==
  \/ AcceptClaim(c) \/ RepeatClaim(c) \/ GrantUpload(c) \/ AcceptReceipt(c)
  \/ HandleOutcome(c)
  \/ \E request \in Requests : Lose(request, c)

Next ==
  \/ Administer \/ Sweep \/ Time
  \/ \E c \in Cycles : Cycle(c) \/ Control(c)

Spec == Init /\ [][Next]_vars

(* Time passes, and the coordinator's tick runs both sweeps every time.
   Nothing is assumed of the Relay or of the administrator. *)
Fairness ==
  /\ WF_vars(ExpireUnclaimedJobs)
  /\ WF_vars(ReconcileExpiredClaims)
  /\ \A j \in Jobs : WF_vars(PassExpiry(j)) /\ WF_vars(PassLease(j))

FairSpec == Spec /\ Fairness

-----------------------------------------------------------------------------
(* Properties.                                                             *)

(* What a cycle has read, it read under the claim the job still has: two
   processes with different boot ids never collect for one job, and a job that
   was read is never offered again, cancelled or expired.  That PENDING proves
   nothing was started is what expire_unclaimed_jobs relies on when it fails
   the Tool call (relay_store.py, expire_unclaimed_jobs). *)
ReadsAreClaimed ==
  \A c \in reads :
    /\ work[c] # None
    /\ HoldsClaim(c)
    /\ job[work[c]] \notin {"none", "PENDING", "EXPIRED", "CANCELLED"}

(* commit_success_receipt settles the job, its attempt, the evidence and the
   Tool call together, with the result the upload grant was bound to, and that
   result was read; expire_unclaimed_jobs fails the call with the job. *)
OutcomesAgree ==
  \A j \in Jobs :
    /\ (job[j] = "ACCEPTED") = (call[j] = "SUCCEEDED")
    /\ (job[j] = "EXPIRED") = (call[j] = "FAILED")
    /\ (job[j] = "ACCEPTED") = (evidence[j] # None)
    /\ job[j] = "ACCEPTED" =>
         /\ evidence[j] = grant[j]
         /\ evidence[j] \in reads
         /\ work[evidence[j]] = j
         /\ attempt[j][tried[j]] = "ACKNOWLEDGED"

(* Another cycle with the boot id and the ledger of cycle c. *)
HasTwin(c) == \E d \in Cycles \ {c} : Boot[d] = Boot[c] /\ Host[d] = Host[c]

(* acknowledge_terminal_outcomes and the cycle's own acknowledgement close a
   local record only when the job is settled; while the control plane waits for
   a bound result, the disk of the cycle that collected it still has it. *)
EvidenceIsRetained ==
  /\ \A h \in Hosts, k \in Jobs \X Attempts :
       ledger[h][k] = "ACKNOWLEDGED" => Settled(k[1])
  /\ \A j \in Jobs :
       job[j] = "RESULT_STORED" =>
         LET record == ledger[Host[grant[j]]][<<j, tried[j]>>] IN
         IF HasTwin(grant[j]) THEN record \in {"STARTED", "LOCAL_RESULT_STORED"}
                              ELSE record = "LOCAL_RESULT_STORED"

(* create_upload_grant binds a job to one result for good, and neither a late
   receipt nor a late sweep changes a job that was settled or fenced. *)
ResultIsBoundOnce ==
  [][\A j \in Jobs :
       /\ grant[j] # None => grant'[j] = grant[j]
       /\ job[j] \in Terminal \cup {"AMBIGUOUS"} =>
            UNCHANGED <<job[j], call[j], evidence[j]>>]_vars

(* The whole protocol, seen from the Tool call, keeps the promise. *)
Promise == INSTANCE CollectionPromise WITH
             call <- call, read <- {work[c] : c \in reads}

ImplementsPromise == Promise!Spec

(* The coordinator's sweeps leave no job waiting for a Relay that is gone: it is
   settled, holds a bound result, or is fenced as ambiguous. *)
EveryJobIsSettledOrFenced ==
  \A j \in Jobs :
    job[j] \in {"PENDING", "CLAIMED"} ~>
      job[j] \in Terminal \cup {"RESULT_STORED", "AMBIGUOUS"}

(* relay-api.md, "Attempt outcome": the command records the attempt as
   FAILED_RETRYABLE.  So no outcome that comes under a live claim is refused. *)
RetryableOutcomeIsRecorded ==
  \A c \in Cycles :
    pc[c] = "refused" /\ LiveClaim(c) => attempt[work[c]][held[c]] # "STARTED"
=============================================================================
