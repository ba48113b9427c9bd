--------------------------- MODULE RelayJobsProofs ---------------------------
(***************************************************************************)
(* Theorems about RelayJobs for any number of jobs, cycles, boot ids and   *)
(* ledgers.  The inductive invariant ties the three places a collection    *)
(* lives in: the job's row (a claim exists exactly in the claimed states), *)
(* the cycle (from its claim on it holds the job's only claim) and the     *)
(* ledger (a result somebody may still bind is on the disk).               *)
(***************************************************************************)
EXTENDS RelayJobs, TLAPS

Unclaimed == {"none", "PENDING", "EXPIRED", "CANCELLED"}
Claimed == {"CLAIMED", "RESULT_STORED", "AMBIGUOUS", "ACCEPTED"}

(* The states a cycle has before it called the provider. *)
BeforeWork == {"new", "ready"}
BeforeRead == BeforeWork \cup {"polled", "claiming", "claimed", "reading"}

(* A cycle past its poll, and the sender of any request, polled a job. *)
WorkIsKnown ==
  \A c \in Cycles :
    /\ pc[c] \in Running \ BeforeWork => work[c] # None
    /\ \A r \in Requests : <<r, c>> \in wire => work[c] # None /\ pc[c] \notin BeforeWork

TypeInv == TypeOK /\ WorkIsKnown

Record(c) == ledger[Host[c]][<<work[c], held[c]>>]

(* The record of a result that was stored: a twin may have begun again. *)
Kept(c) ==
  /\ Record(c) # "none"
  /\ ~HasTwin(c) => Record(c) # "STARTED"

(* A token, an attempt number and a grant exist exactly in the states that
   have them; EXECUTING, RETRY_WAIT and REFUSED are never committed. *)
ClaimMatchesJob ==
  \A j \in Jobs :
    /\ job[j] \in Unclaimed \cup Claimed
    /\ job[j] \in Unclaimed => holder[j] = None /\ grant[j] = None
    /\ job[j] \in Claimed => holder[j] # None /\ tried[j] \in Attempts
    /\ job[j] = "CLAIMED" => grant[j] = None
    /\ job[j] = "RESULT_STORED" => grant[j] # None

CallMatchesJob ==
  \A j \in Jobs :
    /\ (job[j] = "none") = (call[j] = "none")
    /\ (job[j] = "ACCEPTED") = (call[j] = "SUCCEEDED")
    /\ (job[j] = "EXPIRED") = (call[j] = "FAILED")
    /\ (job[j] = "ACCEPTED") = (evidence[j] # None)

AcceptedIsBound ==
  \A j \in Jobs :
    job[j] = "ACCEPTED" => evidence[j] = grant[j] /\ attempt[j][tried[j]] = "ACKNOWLEDGED"

(* The cycle a grant binds read for this job, and its disk has the result. *)
GrantIsKept ==
  \A j \in Jobs :
    grant[j] # None => grant[j] \in reads /\ work[grant[j]] = j /\ Kept(grant[j])

(* A cycle holds the claim from its answer on, and reads once. *)
CycleHoldsClaim ==
  \A c \in Cycles :
    /\ c \in reads => pc[c] \notin BeforeRead
    /\ c \in reads \/ pc[c] \in {"claimed", "reading"} => work[c] # None /\ HoldsClaim(c)
    /\ pc[c] = "collected" => c \in reads
    /\ pc[c] = "accepted" => c \in reads /\ job[work[c]] = "ACCEPTED"

(* An upload is asked for after the result was stored. *)
UploadIsKept ==
  \A c \in Cycles : <<"upload-grant", c>> \in wire => c \in reads /\ Kept(c)

AcknowledgedIsSettled ==
  \A h \in Hosts, k \in Jobs \X Attempts :
    ledger[h][k] = "ACKNOWLEDGED" => Settled(k[1])

ClaimInv ==
  /\ ClaimMatchesJob
  /\ CallMatchesJob
  /\ AcceptedIsBound
  /\ GrantIsKept
  /\ CycleHoldsClaim
  /\ UploadIsKept
  /\ AcknowledgedIsSettled

-----------------------------------------------------------------------------
LEMMA TypeInit == Init => TypeInv
<1> SUFFICES ASSUME Init PROVE TypeInv
  OBVIOUS
<1> USE RelayAssumption DEF Init
<1>1. TypeOK
  BY DEF TypeOK, JobStates, Active, Terminal, AttemptStates, Attempts, Steps, Running, Records
<1>2. WorkIsKnown
  BY DEF WorkIsKnown, Running, BeforeWork
<1> QED
  BY <1>1, <1>2 DEF TypeInv

LEMMA TypeOKStep == TypeInv /\ [Next]_vars => TypeOK'
<1> SUFFICES ASSUME TypeInv, [Next]_vars PROVE TypeOK'
  OBVIOUS
<1> USE RelayAssumption DEF TypeInv, TypeOK, enrollment, rows, clocks, cycles
<1>1. CASE Disable \/ Revoke \/ Reenable
  <2>1. CASE Disable
    BY <2>1 DEF Disable
  <2>2. CASE Revoke
    BY <2>2 DEF Revoke
  <2>3. CASE Reenable
    <3>1. epoch' \in 1..MaxEpoch
      BY <2>3 DEF Reenable
    <3>2. UNCHANGED <<rows, clocks, cycles, ledger, wire>> /\ lifecycle' = "REGISTERED"
      BY <2>3 DEF Reenable
    <3> QED
      BY <3>1, <3>2
  <2> QED
    BY <1>1, <2>1, <2>2, <2>3
<1>2. ASSUME NEW j \in Jobs, CreateJob(j) \/ Cancel(j) \/ PassExpiry(j) \/ PassLease(j)
      PROVE  TypeOK'
  <2>1. CASE CreateJob(j)
    BY <2>1 DEF CreateJob, JobStates
  <2>2. CASE Cancel(j)
    BY <2>2 DEF Cancel, JobStates, Terminal
  <2>3. CASE PassExpiry(j)
    BY <2>3 DEF PassExpiry
  <2>4. CASE PassLease(j)
    BY <2>4 DEF PassLease
  <2> QED
    BY <1>2, <2>1, <2>2, <2>3, <2>4
<1>3. CASE ExpireUnclaimedJobs \/ ReconcileExpiredClaims
  <2>1. CASE ExpireUnclaimedJobs
    BY <2>1 DEF ExpireUnclaimedJobs, JobStates, Terminal
  <2>2. CASE ReconcileExpiredClaims
    BY <2>2 DEF ReconcileExpiredClaims, JobStates, Active
  <2> QED
    BY <1>3, <2>1, <2>2
<1>4. ASSUME NEW c \in Cycles, Cycle(c) PROVE TypeOK'
  <2> USE DEF Steps, Running, Waiting, Records
  <2>1. Host[c] \in Hosts
    BY DEF Hosts
  <2>2. CASE AcknowledgeTerminalOutcomes(c)
    <3>1. ledger' \in [Hosts -> [Jobs \X Attempts -> Records]]
      <4> DEFINE L == [k \in Jobs \X Attempts |->
                         IF ledger[Host[c]][k] # "none" /\ Settled(k[1])
                         THEN "ACKNOWLEDGED" ELSE ledger[Host[c]][k]]
      <4>1. L \in [Jobs \X Attempts -> Records]
        BY <2>1
      <4>2. ledger' = [ledger EXCEPT ![Host[c]] = L]
        BY <2>2 DEF AcknowledgeTerminalOutcomes
      <4> HIDE DEF L, Records
      <4> QED
        BY <4>1, <4>2
    <3> QED
      BY <2>2, <3>1 DEF AcknowledgeTerminalOutcomes
  <2>3. CASE Poll(c)
    <3>1. work' \in [Cycles -> Jobs \cup {None}]
      BY <2>3 DEF Poll, Offered
    <3>2. pc' \in [Cycles -> Steps]
      BY <2>3 DEF Poll
    <3> QED
      BY <2>3, <3>1, <3>2 DEF Poll
  <2>4. CASE SendClaim(c) \/ ReadFails(c) \/ Upload(c)
    <3>1. /\ pc' \in [Cycles -> Steps]
          /\ wire' \subseteq Requests \X Cycles
          /\ reads' \subseteq Cycles
      BY <2>4 DEF SendClaim, ReadFails, Upload, Send, Requests
    <3>2. UNCHANGED <<enrollment, rows, clocks, work, held, ledger>>
      BY <2>4 DEF SendClaim, ReadFails, Upload
    <3> QED
      BY <3>1, <3>2
  <2>5. CASE RecordStart(c)
    BY <2>1, <2>5 DEF RecordStart
  <2>6. CASE ReadProvider(c)
    BY <2>6 DEF ReadProvider
  <2>7. CASE StoreResult(c)
    <3>1. /\ pc' \in [Cycles -> Steps]
          /\ wire' \subseteq Requests \X Cycles
      BY <2>7 DEF StoreResult, Send, Requests
    <3>2. ledger' \in [Hosts -> [Jobs \X Attempts -> Records]]
      BY <2>1, <2>7 DEF StoreResult
    <3>3. UNCHANGED <<enrollment, rows, clocks, work, held, reads>>
      BY <2>7 DEF StoreResult
    <3> QED
      BY <3>1, <3>2, <3>3
  <2>8. CASE RecordAcknowledged(c)
    BY <2>1, <2>8 DEF RecordAcknowledged
  <2>9. CASE Stop(c)
    BY <2>9 DEF Stop
  <2> QED
    BY <1>4, <2>2, <2>3, <2>4, <2>5, <2>6, <2>7, <2>8, <2>9 DEF Cycle
<1>5. ASSUME NEW c \in Cycles, Control(c) PROVE TypeOK'
  <2> USE DEF Steps, Running, Waiting
  <2>1. Boot[c] \in Boots
    BY DEF Boots
  <2>2. ASSUME NEW r \in Requests, Lose(r, c) PROVE TypeOK'
    BY <2>2 DEF Lose, Handle
  <2>3. CASE AcceptClaim(c)
    <3>1. work[c] \in Jobs
      BY <2>3 DEF AcceptClaim, Handle, WorkIsKnown, Requests
    <3>2. tried[work[c]] \in Nat /\ tried[work[c]] + 1 <= MaxAttempts
      <4>1. tried[work[c]] \in 0..MaxAttempts
        BY <3>1
      <4>2. tried[work[c]] + 1 <= MaxAttempts
        BY <2>3 DEF AcceptClaim
      <4> QED
        BY <4>1, <4>2
    <3>3. tried[work[c]] + 1 \in Attempts
      BY <3>2 DEF Attempts
    <3>4. attempt' \in [Jobs -> [Attempts -> AttemptStates]]
      BY <2>3, <3>1, <3>3 DEF AcceptClaim, AttemptStates
    <3>5. tried' \in [Jobs -> 0..MaxAttempts] /\ held' \in [Cycles -> 0..MaxAttempts]
      <4>1. tried[work[c]] + 1 \in 0..MaxAttempts
        BY <3>2
      <4>2. tried' = [tried EXCEPT ![work[c]] = tried[work[c]] + 1]
            /\ held' = [held EXCEPT ![c] = tried[work[c]] + 1]
        BY <2>3 DEF AcceptClaim
      <4>3. tried \in [Jobs -> 0..MaxAttempts] /\ held \in [Cycles -> 0..MaxAttempts]
        OBVIOUS
      <4> HIDE DEF TypeInv, TypeOK
      <4> QED
        BY <4>1, <4>2, <4>3
    <3> QED
      BY <2>1, <2>3, <3>1, <3>4, <3>5 DEF AcceptClaim, Answer, Handle, JobStates, Active
  <2>4. CASE RepeatClaim(c)
    <3>1. work[c] \in Jobs
      BY <2>4 DEF RepeatClaim, Handle, WorkIsKnown, Requests
    <3> QED
      BY <2>4, <3>1 DEF RepeatClaim, Answer, Handle
  <2>5. CASE GrantUpload(c)
    BY <2>5 DEF GrantUpload, Answer, Handle, Stored, AttemptStates, JobStates, Active
  <2>6. CASE AcceptReceipt(c)
    BY <2>6 DEF AcceptReceipt, Answer, Handle, AttemptStates, JobStates, Terminal
  <2>7. CASE HandleOutcome(c)
    <3>1. attempt' \in [Jobs -> [Attempts -> AttemptStates]]
      BY <2>7 DEF HandleOutcome, AttemptStates
    <3>2. job' \in [Jobs -> JobStates] /\ holder' \in [Jobs -> Boots \cup {None}]
      BY <2>7 DEF HandleOutcome, JobStates, Terminal
    <3>3. pc' \in [Cycles -> Steps] /\ wire' \subseteq wire
      BY <2>7 DEF HandleOutcome, Answer, Handle
    <3>4. UNCHANGED <<enrollment, jobEpoch, tried, grant, evidence, call, clocks, work, held,
                      reads, ledger>>
      BY <2>7 DEF HandleOutcome
    <3> QED
      BY <3>1, <3>2, <3>3, <3>4
  <2> QED
    BY <1>5, <2>2, <2>3, <2>4, <2>5, <2>6, <2>7 DEF Control
<1>6. CASE UNCHANGED vars
  BY <1>6 DEF vars
<1> QED
  BY <1>1, <1>2, <1>3, <1>4, <1>5, <1>6 DEF Next, Administer, Sweep, Time

(* A request is sent past the poll, and no step goes back behind it. *)
LEMMA WorkStep == TypeInv /\ [Next]_vars => WorkIsKnown'
<1> SUFFICES ASSUME TypeInv, [Next]_vars, NEW d \in Cycles
             PROVE  /\ pc'[d] \in Running \ BeforeWork => work'[d] # None
                    /\ \A r \in Requests : <<r, d>> \in wire' =>
                         work'[d] # None /\ pc'[d] \notin BeforeWork
  BY DEF WorkIsKnown
<1> USE RelayAssumption DEF TypeInv, WorkIsKnown, enrollment, rows, clocks, cycles,
      Running, Waiting, BeforeWork, Requests
<1>1. pc \in [Cycles -> Steps] /\ work \in [Cycles -> Jobs \cup {None}]
  BY DEF TypeOK
<1>2. CASE UNCHANGED <<pc, work, wire>>
  BY <1>2
<1>3. ASSUME NEW c \in Cycles, Cycle(c)
      PROVE  /\ pc'[d] \in Running \ BeforeWork => work'[d] # None
             /\ \A r \in Requests : <<r, d>> \in wire' =>
                  work'[d] # None /\ pc'[d] \notin BeforeWork
  <2>1. CASE AcknowledgeTerminalOutcomes(c) \/ RecordStart(c) \/ ReadProvider(c)
             \/ RecordAcknowledged(c) \/ Stop(c)
    BY <1>1, <2>1 DEF AcknowledgeTerminalOutcomes, RecordStart, ReadProvider,
         RecordAcknowledged, Stop
  <2>2. CASE Poll(c)
    BY <1>1, <2>2 DEF Poll, Offered
  <2>3. CASE SendClaim(c) \/ ReadFails(c) \/ StoreResult(c) \/ Upload(c)
    BY <1>1, <2>3 DEF SendClaim, ReadFails, StoreResult, Upload, Send
  <2> QED
    BY <1>3, <2>1, <2>2, <2>3 DEF Cycle
<1>4. ASSUME NEW c \in Cycles, Control(c)
      PROVE  /\ pc'[d] \in Running \ BeforeWork => work'[d] # None
             /\ \A r \in Requests : <<r, d>> \in wire' =>
                  work'[d] # None /\ pc'[d] \notin BeforeWork
  <2>1. ASSUME NEW r \in Requests, Lose(r, c)
        PROVE  wire' \subseteq wire /\ work' = work
               /\ pc' = [pc EXCEPT ![c] = pc'[c]] /\ pc'[c] \in {pc[c], "stopped"}
    BY <1>1, <2>1 DEF Lose, Handle
  <2>2. CASE AcceptClaim(c) \/ RepeatClaim(c) \/ GrantUpload(c) \/ AcceptReceipt(c)
    BY <1>1, <2>2 DEF AcceptClaim, RepeatClaim, GrantUpload, AcceptReceipt, Answer, Handle
  <2>3. CASE HandleOutcome(c)
    BY <1>1, <2>3 DEF HandleOutcome, Answer, Handle
  <2> QED
    BY <1>1, <1>4, <2>1, <2>2, <2>3 DEF Control
<1> QED
  BY <1>2, <1>3, <1>4 DEF Next, Administer, Sweep, Time, Disable, Revoke, Reenable, CreateJob,
     Cancel, ExpireUnclaimedJobs, ReconcileExpiredClaims, PassExpiry, PassLease, vars

LEMMA TypeStep == TypeInv /\ [Next]_vars => TypeInv'
BY TypeOKStep, WorkStep DEF TypeInv

LEMMA SenderPolled ==
  ASSUME TypeInv, NEW c \in Cycles, NEW r \in Requests, Handle(r, c)
  PROVE  work[c] \in Jobs
BY DEF TypeInv, TypeOK, WorkIsKnown, Handle

LEMMA TypeAlways == Spec => []TypeInv
BY TypeInit, TypeStep, PTL DEF Spec

(* The rows, cycles and ledgers keep their types; no job is tried more often
   than its maximum_attempts. *)
THEOREM TypeCorrect == Spec => []TypeOK
<1>1. TypeInv => TypeOK
  BY DEF TypeInv
<1> QED
  BY <1>1, TypeAlways, PTL

-----------------------------------------------------------------------------
LEMMA ClaimInit == Init => ClaimInv
<1> SUFFICES ASSUME Init PROVE ClaimInv
  OBVIOUS
<1>1. /\ ClaimMatchesJob /\ CallMatchesJob /\ AcceptedIsBound
      /\ GrantIsKept /\ UploadIsKept /\ AcknowledgedIsSettled
  BY DEF Init, ClaimMatchesJob, CallMatchesJob, AcceptedIsBound, GrantIsKept, UploadIsKept,
         AcknowledgedIsSettled, Unclaimed, Claimed
<1>2. CycleHoldsClaim
  BY DEF Init, CycleHoldsClaim, BeforeRead, BeforeWork
<1> QED
  BY <1>1, <1>2 DEF ClaimInv

(* The row, its token and grant, and the Tool call move together. *)
LEMMA RowStep ==
  TypeInv /\ ClaimInv /\ [Next]_vars => ClaimMatchesJob' /\ CallMatchesJob' /\ AcceptedIsBound'
<1> SUFFICES ASSUME TypeInv, ClaimInv, [Next]_vars, NEW j \in Jobs
             PROVE
    /\ /\ job'[j] \in Unclaimed \cup Claimed
       /\ job'[j] \in Unclaimed => holder'[j] = None /\ grant'[j] = None
       /\ job'[j] \in Claimed => holder'[j] # None /\ tried'[j] \in Attempts
       /\ job'[j] = "CLAIMED" => grant'[j] = None
       /\ job'[j] = "RESULT_STORED" => grant'[j] # None
    /\ /\ (job'[j] = "none") = (call'[j] = "none")
       /\ (job'[j] = "ACCEPTED") = (call'[j] = "SUCCEEDED")
       /\ (job'[j] = "EXPIRED") = (call'[j] = "FAILED")
       /\ (job'[j] = "ACCEPTED") = (evidence'[j] # None)
    /\ job'[j] = "ACCEPTED" =>
         evidence'[j] = grant'[j] /\ attempt'[j][tried'[j]] = "ACKNOWLEDGED"
  BY DEF ClaimMatchesJob, CallMatchesJob, AcceptedIsBound
<1> DEFINE Row ==
    /\ /\ job'[j] \in Unclaimed \cup Claimed
       /\ job'[j] \in Unclaimed => holder'[j] = None /\ grant'[j] = None
       /\ job'[j] \in Claimed => holder'[j] # None /\ tried'[j] \in Attempts
       /\ job'[j] = "CLAIMED" => grant'[j] = None
       /\ job'[j] = "RESULT_STORED" => grant'[j] # None
    /\ /\ (job'[j] = "none") = (call'[j] = "none")
       /\ (job'[j] = "ACCEPTED") = (call'[j] = "SUCCEEDED")
       /\ (job'[j] = "EXPIRED") = (call'[j] = "FAILED")
       /\ (job'[j] = "ACCEPTED") = (evidence'[j] # None)
    /\ job'[j] = "ACCEPTED" =>
         evidence'[j] = grant'[j] /\ attempt'[j][tried'[j]] = "ACKNOWLEDGED"
<1> USE DEF TypeInv, TypeOK, ClaimInv, ClaimMatchesJob, CallMatchesJob, AcceptedIsBound,
        Unclaimed, Claimed
<1>1. CASE UNCHANGED rows
  BY <1>1 DEF rows
<1>2. ASSUME NEW i \in Jobs, CreateJob(i) \/ Cancel(i) PROVE Row
  BY <1>2 DEF CreateJob, Cancel
<1>3. CASE ExpireUnclaimedJobs \/ ReconcileExpiredClaims
  <2>1. CASE ExpireUnclaimedJobs
    BY <2>1 DEF ExpireUnclaimedJobs
  <2>2. CASE ReconcileExpiredClaims
    BY <2>2 DEF ReconcileExpiredClaims
  <2> QED
    BY <1>3, <2>1, <2>2
<1>4. ASSUME NEW c \in Cycles, AcceptClaim(c) PROVE Row
  <2>1. work[c] \in Jobs
    BY <1>4, SenderPolled DEF AcceptClaim, Requests
  <2>2. tried[work[c]] + 1 \in Attempts
    <3>1. tried[work[c]] \in 0..MaxAttempts
      BY <2>1
    <3>2. tried[work[c]] + 1 <= MaxAttempts
      BY <1>4 DEF AcceptClaim
    <3> QED
      BY <3>1, <3>2, RelayAssumption DEF Attempts
  <2>3. Boot[c] # None
    BY RelayAssumption DEF Boots
  <2> QED
    BY <1>4, <2>1, <2>2, <2>3 DEF AcceptClaim
<1>5. ASSUME NEW c \in Cycles, GrantUpload(c) PROVE Row
  <2>1. c # None
    BY RelayAssumption
  <2> QED
    BY <1>5, <2>1 DEF GrantUpload, Stored
<1>6. ASSUME NEW c \in Cycles, AcceptReceipt(c) PROVE Row
  <2>1. c # None /\ work[c] \in Jobs
    <3>1. work[c] \in Jobs
      BY <1>6, SenderPolled DEF AcceptReceipt, Requests
    <3> QED
      BY <3>1, RelayAssumption
  <2>2. held[c] = tried[work[c]] /\ tried[work[c]] \in Attempts
    BY <1>6, <2>1 DEF AcceptReceipt, HoldsClaim
  <2> QED
    BY <1>6, <2>1, <2>2 DEF AcceptReceipt
<1>7. ASSUME NEW c \in Cycles, HandleOutcome(c) PROVE Row
  <2>1. work[c] \in Jobs
    BY <1>7, SenderPolled DEF HandleOutcome, Requests
  <2>2. ~TakesOutcome(c)
    BY <2>1 DEF TakesOutcome
  <2> QED
    BY <1>7, <2>2 DEF HandleOutcome
<1>8. UNCHANGED rows \/ \/ \E i \in Jobs : CreateJob(i) \/ Cancel(i)
                        \/ ExpireUnclaimedJobs \/ ReconcileExpiredClaims
                        \/ \E c \in Cycles : \/ AcceptClaim(c) \/ GrantUpload(c)
                                             \/ AcceptReceipt(c) \/ HandleOutcome(c)
  BY DEF Next, Administer, Sweep, Time, Cycle, Control, vars, rows, Disable, Revoke, Reenable,
     PassExpiry, PassLease, AcknowledgeTerminalOutcomes, Poll, SendClaim, RecordStart,
     ReadProvider, ReadFails, StoreResult, Upload, RecordAcknowledged, Stop, Lose, RepeatClaim
<1> QED
  BY <1>1, <1>2, <1>3, <1>4, <1>5, <1>6, <1>7, <1>8

(* A claim is taken once: who holds it, or has read under it, still does. *)
LEMMA HolderStep ==
  ASSUME TypeInv, ClaimInv, [Next]_vars, NEW c \in Cycles, work[c] \in Jobs, HoldsClaim(c),
         pc[c] # "ready"
  PROVE  work'[c] = work[c] /\ held'[c] = held[c] /\ HoldsClaim(c)'
<1> USE DEF TypeInv, TypeOK, HoldsClaim
<1>1. job[work[c]] \in Claimed
  <2>1. Boot[c] # None
    BY RelayAssumption DEF Boots
  <2> QED
    BY <2>1 DEF ClaimInv, ClaimMatchesJob
<1>2. CASE UNCHANGED <<holder, tried, held, work>>
  BY <1>2
<1>3. ASSUME NEW d \in Cycles, AcceptClaim(d)
      PROVE  work'[c] = work[c] /\ held'[c] = held[c] /\ HoldsClaim(c)'
  <2>1. work[d] # work[c] /\ work[d] \in Jobs
    BY <1>1, <1>3, SenderPolled DEF AcceptClaim, Claimed, Requests
  <2> QED
    BY <1>3, <2>1 DEF AcceptClaim
<1>4. ASSUME NEW d \in Cycles, RepeatClaim(d)
      PROVE  work'[c] = work[c] /\ held'[c] = held[c] /\ HoldsClaim(c)'
  BY <1>4 DEF RepeatClaim, rows
<1>5. ASSUME NEW d \in Cycles, Poll(d)
      PROVE  work'[c] = work[c] /\ held'[c] = held[c] /\ HoldsClaim(c)'
  BY <1>5 DEF Poll, rows
<1>6. ASSUME NEW d \in Cycles, HandleOutcome(d)
      PROVE  work'[c] = work[c] /\ held'[c] = held[c] /\ HoldsClaim(c)'
  <2>1. work[d] \in Jobs
    BY <1>6, SenderPolled DEF HandleOutcome, Requests
  <2>2. ~TakesOutcome(d)
    BY <2>1 DEF TakesOutcome, ClaimInv, ClaimMatchesJob, Claimed, Unclaimed
  <2> QED
    BY <1>6, <2>2 DEF HandleOutcome
<1>7. \/ UNCHANGED <<holder, tried, held, work>>
      \/ \E d \in Cycles : AcceptClaim(d) \/ RepeatClaim(d) \/ Poll(d) \/ HandleOutcome(d)
  BY DEF Next, Administer, Sweep, Time, Cycle, Control, vars, rows, cycles, Disable, Revoke,
     Reenable, CreateJob, Cancel, ExpireUnclaimedJobs, ReconcileExpiredClaims, PassExpiry,
     PassLease, AcknowledgeTerminalOutcomes, SendClaim, RecordStart, ReadProvider, ReadFails,
     StoreResult, Upload, RecordAcknowledged, Stop, Lose, GrantUpload, AcceptReceipt
<1> QED
  BY <1>2, <1>3, <1>4, <1>5, <1>6, <1>7

(* What is settled stays settled. *)
LEMMA TerminalStep ==
  ASSUME TypeInv, ClaimInv, [Next]_vars, NEW j \in Jobs, job[j] \in Terminal \cup {"AMBIGUOUS"}
  PROVE  job'[j] = job[j] /\ call'[j] = call[j] /\ evidence'[j] = evidence[j]
<1> USE DEF TypeInv, TypeOK, Terminal
<1>1. CASE UNCHANGED rows
  BY <1>1 DEF rows
<1>2. ASSUME NEW i \in Jobs, CreateJob(i) \/ Cancel(i)
      PROVE  job'[j] = job[j] /\ call'[j] = call[j] /\ evidence'[j] = evidence[j]
  BY <1>2 DEF CreateJob, Cancel
<1>3. CASE ExpireUnclaimedJobs \/ ReconcileExpiredClaims
  BY <1>3 DEF ExpireUnclaimedJobs, ReconcileExpiredClaims
<1>4. ASSUME NEW c \in Cycles, AcceptClaim(c) \/ GrantUpload(c) \/ AcceptReceipt(c)
      PROVE  job'[j] = job[j] /\ call'[j] = call[j] /\ evidence'[j] = evidence[j]
  BY <1>4 DEF AcceptClaim, GrantUpload, AcceptReceipt
<1>5. ASSUME NEW c \in Cycles, HandleOutcome(c)
      PROVE  job'[j] = job[j] /\ call'[j] = call[j] /\ evidence'[j] = evidence[j]
  BY <1>5 DEF HandleOutcome, TakesOutcome
<1> QED
  BY <1>1, <1>2, <1>3, <1>4, <1>5 DEF Next, Administer, Sweep, Time, Cycle, Control, vars, rows,
     Disable, Revoke, Reenable, PassExpiry, PassLease, AcknowledgeTerminalOutcomes, Poll,
     SendClaim, RecordStart, ReadProvider, ReadFails, StoreResult, Upload, RecordAcknowledged,
     Stop, Lose, RepeatClaim

(* A cycle moves only by its own steps and by the answers to its requests. *)
LEMMA OthersStay ==
  ASSUME TypeInv, [Next]_vars, NEW c \in Cycles, ~Cycle(c), ~Control(c)
  PROVE  pc'[c] = pc[c] /\ (c \in reads' <=> c \in reads)
<1> USE DEF TypeInv, TypeOK, cycles
<1>1. CASE UNCHANGED cycles
  BY <1>1
<1>2. ASSUME NEW d \in Cycles, d # c, Cycle(d)
      PROVE  pc'[c] = pc[c] /\ (c \in reads' <=> c \in reads)
  BY <1>2 DEF Cycle, AcknowledgeTerminalOutcomes, Poll, SendClaim, RecordStart, ReadProvider,
     ReadFails, StoreResult, Upload, RecordAcknowledged, Stop, Send
<1>3. ASSUME NEW d \in Cycles, d # c, Control(d)
      PROVE  pc'[c] = pc[c] /\ (c \in reads' <=> c \in reads)
  BY <1>3 DEF Control, AcceptClaim, RepeatClaim, GrantUpload, AcceptReceipt, HandleOutcome,
     Lose, Answer
<1>4. UNCHANGED cycles \/ \E d \in Cycles : Cycle(d) \/ Control(d)
  BY DEF Next, Administer, Sweep, Time, vars, Disable, Revoke, Reenable, CreateJob, Cancel,
     ExpireUnclaimedJobs, ReconcileExpiredClaims, PassExpiry, PassLease
<1> QED
  BY <1>1, <1>2, <1>3, <1>4

(* Where a cycle stands agrees with whether it read; it is told "accepted" by
   the transaction that accepted. *)
LEMMA CycleStep == TypeInv /\ ClaimInv /\ [Next]_vars => CycleHoldsClaim'
<1> SUFFICES ASSUME TypeInv, ClaimInv, [Next]_vars, NEW c \in Cycles
             PROVE
    /\ c \in reads' => pc'[c] \notin BeforeRead
    /\ c \in reads' \/ pc'[c] \in {"claimed", "reading"} => work'[c] # None /\ HoldsClaim(c)'
    /\ pc'[c] = "collected" => c \in reads'
    /\ pc'[c] = "accepted" => c \in reads' /\ job'[work'[c]] = "ACCEPTED"
  BY DEF CycleHoldsClaim
<1> DEFINE Moved ==
    /\ c \in reads' => c \in reads \/ pc[c] = "reading"
    /\ c \in reads' => pc'[c] \notin BeforeRead
    /\ pc'[c] \in {"claimed", "reading"} =>
         pc[c] \in {"claimed", "reading"} \/ AcceptClaim(c) \/ RepeatClaim(c)
    /\ pc'[c] = "collected" => c \in reads'
    /\ c \in reads => c \in reads'
    /\ pc'[c] = "accepted" => pc[c] = "accepted" \/ AcceptReceipt(c)
<1>1. Moved
  <2> USE DEF TypeInv, TypeOK, BeforeRead, BeforeWork, ClaimInv, CycleHoldsClaim
  <2>1. CASE Cycle(c)
    BY <2>1 DEF Cycle, AcknowledgeTerminalOutcomes, Poll, SendClaim, RecordStart, ReadProvider,
       ReadFails, StoreResult, Upload, RecordAcknowledged, Stop, Send
  <2>2. CASE Control(c)
    BY <2>2 DEF Control, AcceptClaim, RepeatClaim, GrantUpload, AcceptReceipt, HandleOutcome,
       Lose, Answer, Waiting
  <2>3. CASE ~Cycle(c) /\ ~Control(c)
    BY <2>3, OthersStay
  <2> QED
    BY <2>1, <2>2, <2>3
<1>2. CASE c \in reads \/ pc[c] \in {"claimed", "reading"}
  <2>1. work[c] \in Jobs /\ HoldsClaim(c) /\ pc[c] # "ready"
    BY <1>2 DEF TypeInv, TypeOK, ClaimInv, CycleHoldsClaim, BeforeRead, BeforeWork
  <2>2. work'[c] = work[c] /\ HoldsClaim(c)'
    BY <2>1, HolderStep
  <2>3. work'[c] # None
    BY <2>1, <2>2, RelayAssumption
  <2>4. ASSUME pc'[c] = "accepted" PROVE c \in reads' /\ job'[work'[c]] = "ACCEPTED"
    <3>1. CASE pc[c] = "accepted"
      BY <1>1, <2>1, <2>2, <3>1, TerminalStep DEF ClaimInv, CycleHoldsClaim, Terminal
    <3>2. CASE AcceptReceipt(c)
      <4>1. job' = [job EXCEPT ![work[c]] = "ACCEPTED"] /\ grant[work[c]] = c
        BY <3>2 DEF AcceptReceipt
      <4>2. c \in reads
        BY <2>1, <4>1, RelayAssumption DEF ClaimInv, GrantIsKept
      <4> QED
        BY <1>1, <2>1, <2>2, <4>1, <4>2 DEF TypeInv, TypeOK
    <3> QED
      BY <1>1, <2>4, <3>1, <3>2
  <2> QED
    BY <1>1, <2>2, <2>3, <2>4
<1>3. CASE ~(c \in reads \/ pc[c] \in {"claimed", "reading"})
  <2>1. c \notin reads'
    BY <1>1, <1>3
  <2>2. ASSUME pc'[c] \in {"claimed", "reading"} PROVE work'[c] # None /\ HoldsClaim(c)'
    <3>1. CASE AcceptClaim(c)
      <4>1. work[c] \in Jobs
        BY <3>1, SenderPolled DEF AcceptClaim, Requests
      <4> QED
        BY <3>1, <4>1, RelayAssumption DEF AcceptClaim, HoldsClaim, TypeInv, TypeOK
    <3>2. CASE RepeatClaim(c)
      <4>1. work[c] \in Jobs
        BY <3>2, SenderPolled DEF RepeatClaim, Requests
      <4> QED
        BY <3>2, <4>1, RelayAssumption DEF RepeatClaim, HoldsClaim, TypeInv, TypeOK, rows
    <3> QED
      BY <1>1, <1>3, <2>2, <3>1, <3>2
  <2>3. pc'[c] # "accepted"
    <3>1. pc[c] # "accepted"
      BY <1>3 DEF ClaimInv, CycleHoldsClaim
    <3>2. ~AcceptReceipt(c)
      <4>1. ASSUME AcceptReceipt(c) PROVE work[c] \in Jobs /\ grant[work[c]] = c
        BY <4>1, SenderPolled DEF AcceptReceipt, Requests
      <4> QED
        BY <1>3, <4>1, RelayAssumption DEF ClaimInv, GrantIsKept
    <3> QED
      BY <1>1, <3>1, <3>2
  <2> QED
    BY <1>1, <2>1, <2>2, <2>3
<1> QED
  BY <1>2, <1>3

-----------------------------------------------------------------------------
(* The attempt a reader holds is one the ledger can record. *)
LEMMA ReaderHolds ==
  ASSUME TypeInv, ClaimInv, NEW c \in Cycles, c \in reads
  PROVE  /\ work[c] \in Jobs /\ HoldsClaim(c) /\ pc[c] \notin BeforeRead
         /\ job[work[c]] \in Claimed /\ <<work[c], held[c]>> \in Jobs \X Attempts
<1>1. work[c] \in Jobs /\ HoldsClaim(c) /\ pc[c] \notin BeforeRead
  BY DEF TypeInv, TypeOK, ClaimInv, CycleHoldsClaim
<1>2. Boot[c] # None
  BY RelayAssumption DEF Boots
<1>3. job[work[c]] \in Claimed /\ tried[work[c]] \in Attempts
  BY <1>1, <1>2 DEF ClaimInv, ClaimMatchesJob, HoldsClaim
<1> QED
  BY <1>1, <1>3 DEF HoldsClaim

(* The steps that write a ledger: only a start overwrites a stored result. *)
LEMMA LedgerStep ==
  ASSUME TypeInv, [Next]_vars, NEW h \in Hosts, NEW k \in Jobs \X Attempts
  PROVE  \/ ledger'[h][k] = ledger[h][k]
         \/ \E d \in Cycles :
              /\ h = Host[d]
              /\ \/ /\ AcknowledgeTerminalOutcomes(d)
                    /\ ledger'[h][k] = "ACKNOWLEDGED"
                    /\ Settled(k[1])
                 \/ /\ RecordStart(d) /\ k = <<work[d], held[d]>>
                    /\ ledger'[h][k] = "STARTED"
                 \/ /\ StoreResult(d) /\ k = <<work[d], held[d]>>
                    /\ ledger'[h][k] = "LOCAL_RESULT_STORED"
                 \/ /\ RecordAcknowledged(d) /\ k = <<work[d], held[d]>>
                    /\ ledger'[h][k] = "ACKNOWLEDGED"
<1> USE DEF TypeInv, TypeOK
<1>1. ASSUME NEW d \in Cycles, AcknowledgeTerminalOutcomes(d)
      PROVE  \/ ledger'[h][k] = ledger[h][k]
             \/ h = Host[d] /\ ledger'[h][k] = "ACKNOWLEDGED" /\ Settled(k[1])
  BY <1>1 DEF AcknowledgeTerminalOutcomes
<1>2. ASSUME NEW d \in Cycles, RecordStart(d)
      PROVE  \/ ledger'[h][k] = ledger[h][k]
             \/ h = Host[d] /\ k = <<work[d], held[d]>> /\ ledger'[h][k] = "STARTED"
  BY <1>2 DEF RecordStart
<1>3. ASSUME NEW d \in Cycles, StoreResult(d)
      PROVE  \/ ledger'[h][k] = ledger[h][k]
             \/ h = Host[d] /\ k = <<work[d], held[d]>>
                /\ ledger'[h][k] = "LOCAL_RESULT_STORED"
  BY <1>3 DEF StoreResult
<1>4. ASSUME NEW d \in Cycles, RecordAcknowledged(d)
      PROVE  \/ ledger'[h][k] = ledger[h][k]
             \/ h = Host[d] /\ k = <<work[d], held[d]>> /\ ledger'[h][k] = "ACKNOWLEDGED"
  BY <1>4 DEF RecordAcknowledged
<1>5. \/ UNCHANGED ledger
      \/ \E d \in Cycles : \/ AcknowledgeTerminalOutcomes(d) \/ RecordStart(d)
                           \/ StoreResult(d) \/ RecordAcknowledged(d)
  BY DEF Next, Administer, Sweep, Time, Cycle, Control, vars, Disable, Revoke, Reenable,
     CreateJob, Cancel, ExpireUnclaimedJobs, ReconcileExpiredClaims, PassExpiry, PassLease,
     Poll, SendClaim, ReadProvider, ReadFails, Upload, Stop, Lose, AcceptClaim, RepeatClaim,
     GrantUpload, AcceptReceipt, HandleOutcome
<1> QED
  BY <1>1, <1>2, <1>3, <1>4, <1>5

(* Only a twin can write over a result that was stored. *)
LEMMA KeptStep ==
  ASSUME TypeInv, ClaimInv, [Next]_vars, NEW c \in Cycles, c \in reads, Kept(c)
  PROVE  Kept(c)'
<1> DEFINE k == <<work[c], held[c]>>
           h == Host[c]
<1>1. /\ work[c] \in Jobs /\ HoldsClaim(c) /\ pc[c] \notin BeforeRead
      /\ k \in Jobs \X Attempts /\ h \in Hosts
  BY ReaderHolds DEF Hosts
<1>2. work'[c] = work[c] /\ held'[c] = held[c]
  BY <1>1, HolderStep DEF BeforeRead, BeforeWork
<1>3. Record(c)' = ledger'[h][k]
  BY <1>2 DEF Record
<1>4. ASSUME NEW d \in Cycles, h = Host[d], RecordStart(d), k = <<work[d], held[d]>>
      PROVE  HasTwin(c)
  <2>1. pc[d] = "claimed" /\ work[d] = work[c]
    BY <1>4 DEF RecordStart
  <2>2. d # c
    BY <1>1, <2>1 DEF BeforeRead
  <2>3. Boot[d] = Boot[c]
    BY <1>1, <2>1 DEF ClaimInv, CycleHoldsClaim, HoldsClaim
  <2> QED
    BY <1>4, <2>2, <2>3 DEF HasTwin
<1>5. \/ ledger'[h][k] = ledger[h][k]
      \/ ledger'[h][k] \in {"ACKNOWLEDGED", "LOCAL_RESULT_STORED"}
      \/ ledger'[h][k] = "STARTED" /\ HasTwin(c)
  BY <1>1, <1>4, LedgerStep
<1>6. ledger[h][k] # "none" /\ (~HasTwin(c) => ledger[h][k] # "STARTED")
  BY DEF Kept, Record
<1>7. ledger'[h][k] # "none" /\ (~HasTwin(c) => ledger'[h][k] # "STARTED")
  BY <1>5, <1>6
<1> QED
  BY <1>3, <1>7 DEF Kept, HasTwin

LEMMA UploadStep == TypeInv /\ ClaimInv /\ [Next]_vars => UploadIsKept'
<1> SUFFICES ASSUME TypeInv, ClaimInv, [Next]_vars, NEW c \in Cycles,
                    <<"upload-grant", c>> \in wire'
             PROVE  c \in reads' /\ Kept(c)'
  BY DEF UploadIsKept
<1>1. c \in reads => c \in reads'
  BY DEF Next, Administer, Sweep, Time, Cycle, Control, vars, cycles, Disable, Revoke, Reenable,
     CreateJob, Cancel, ExpireUnclaimedJobs, ReconcileExpiredClaims, PassExpiry, PassLease,
     AcknowledgeTerminalOutcomes, Poll, SendClaim, RecordStart, ReadProvider, ReadFails,
     StoreResult, Upload, RecordAcknowledged, Stop, Lose, AcceptClaim, RepeatClaim, GrantUpload,
     AcceptReceipt, HandleOutcome
<1>2. <<"upload-grant", c>> \in wire \/ StoreResult(c)
  <2>1. ASSUME NEW d \in Cycles, StoreResult(d)
        PROVE  <<"upload-grant", c>> \in wire \/ StoreResult(c)
    BY <2>1 DEF StoreResult, Send
  <2>2. ASSUME NEW d \in Cycles, SendClaim(d) \/ ReadFails(d) \/ Upload(d)
        PROVE  <<"upload-grant", c>> \in wire
    BY <2>2 DEF SendClaim, ReadFails, Upload, Send
  <2>3. ASSUME NEW d \in Cycles, Control(d)
        PROVE  <<"upload-grant", c>> \in wire
    BY <2>3 DEF Control, Lose, AcceptClaim, RepeatClaim, GrantUpload, AcceptReceipt,
       HandleOutcome, Handle
  <2>4. \/ UNCHANGED wire
        \/ \E d \in Cycles : \/ StoreResult(d) \/ SendClaim(d) \/ ReadFails(d)
                             \/ Upload(d) \/ Control(d)
    BY DEF Next, Administer, Sweep, Time, Cycle, vars, Disable, Revoke, Reenable, CreateJob,
       Cancel, ExpireUnclaimedJobs, ReconcileExpiredClaims, PassExpiry, PassLease,
       AcknowledgeTerminalOutcomes, Poll, RecordStart, ReadProvider, RecordAcknowledged, Stop
  <2> QED
    BY <2>1, <2>2, <2>3, <2>4
<1>3. CASE <<"upload-grant", c>> \in wire
  BY <1>1, <1>3, KeptStep DEF ClaimInv, UploadIsKept
<1>4. CASE StoreResult(c)
  <2>1. c \in reads
    BY <1>4 DEF StoreResult, ClaimInv, CycleHoldsClaim
  <2>2. <<work[c], held[c]>> \in Jobs \X Attempts /\ Host[c] \in Hosts
    BY <2>1, ReaderHolds DEF Hosts
  <2>3. ledger'[Host[c]][<<work[c], held[c]>>] = "LOCAL_RESULT_STORED"
    BY <1>4, <2>2 DEF StoreResult, TypeInv, TypeOK
  <2>4. work' = work /\ held' = held
    BY <1>4 DEF StoreResult
  <2> QED
    BY <1>1, <2>1, <2>3, <2>4 DEF Kept, Record
<1> QED
  BY <1>2, <1>3, <1>4

LEMMA GrantStep == TypeInv /\ ClaimInv /\ [Next]_vars => GrantIsKept'
<1> SUFFICES ASSUME TypeInv, ClaimInv, [Next]_vars, NEW j \in Jobs, grant'[j] # None
             PROVE  grant'[j] \in reads' /\ work'[grant'[j]] = j /\ Kept(grant[j])'
  BY DEF GrantIsKept
<1>1. PICK c \in Cycles : grant'[j] = c /\ c \in reads /\ work[c] = j /\ Kept(c)
  <2>1. grant'[j] = grant[j] \/ \E c \in Cycles : GrantUpload(c)
    BY DEF Next, Administer, Sweep, Time, Cycle, Control, vars, rows, Disable, Revoke, Reenable,
       CreateJob, Cancel, ExpireUnclaimedJobs, ReconcileExpiredClaims, PassExpiry, PassLease,
       AcknowledgeTerminalOutcomes, Poll, SendClaim, RecordStart, ReadProvider, ReadFails,
       StoreResult, Upload, RecordAcknowledged, Stop, Lose, AcceptClaim, RepeatClaim,
       AcceptReceipt, HandleOutcome
  <2>2. CASE grant'[j] = grant[j]
    BY <2>2 DEF ClaimInv, GrantIsKept, TypeInv, TypeOK
  <2>3. ASSUME NEW c \in Cycles, GrantUpload(c), grant'[j] # grant[j]
        PROVE  grant'[j] = c /\ c \in reads /\ work[c] = j /\ Kept(c)
    <3>1. grant'[j] = c /\ work[c] = j
      BY <2>3 DEF GrantUpload, TypeInv, TypeOK
    <3>2. <<"upload-grant", c>> \in wire
      BY <2>3 DEF GrantUpload, Handle
    <3> QED
      BY <3>1, <3>2 DEF ClaimInv, UploadIsKept
  <2> QED
    BY <2>1, <2>2, <2>3
<1>2. Kept(c)'
  BY <1>1, KeptStep
<1>3. work'[c] = work[c]
  BY <1>1, ReaderHolds, HolderStep DEF BeforeRead, BeforeWork
<1>4. c \in reads'
  BY <1>1 DEF Next, Administer, Sweep, Time, Cycle, Control, vars, cycles, Disable, Revoke,
     Reenable, CreateJob, Cancel, ExpireUnclaimedJobs, ReconcileExpiredClaims, PassExpiry,
     PassLease, AcknowledgeTerminalOutcomes, Poll, SendClaim, RecordStart, ReadProvider,
     ReadFails, StoreResult, Upload, RecordAcknowledged, Stop, Lose, AcceptClaim, RepeatClaim,
     GrantUpload, AcceptReceipt, HandleOutcome
<1> QED
  BY <1>1, <1>2, <1>3, <1>4 DEF Kept, Record, HasTwin

LEMMA SettledStep == TypeInv /\ ClaimInv /\ [Next]_vars => AcknowledgedIsSettled'
<1> SUFFICES ASSUME TypeInv, ClaimInv, [Next]_vars, NEW h \in Hosts,
                    NEW k \in Jobs \X Attempts, ledger'[h][k] = "ACKNOWLEDGED"
             PROVE  Settled(k[1])'
  BY DEF AcknowledgedIsSettled
<1>1. k[1] \in Jobs
  OBVIOUS
<1>2. Settled(k[1])
  <2>1. ASSUME NEW d \in Cycles, RecordAcknowledged(d), k = <<work[d], held[d]>>
        PROVE  Settled(k[1])
    BY <2>1 DEF RecordAcknowledged, ClaimInv, CycleHoldsClaim, Settled, Terminal
  <2> QED
    BY <2>1, LedgerStep DEF ClaimInv, AcknowledgedIsSettled
<1> QED
  BY <1>1, <1>2, TerminalStep DEF Settled

LEMMA ClaimStep == TypeInv /\ ClaimInv /\ [Next]_vars => ClaimInv'
<1> SUFFICES ASSUME TypeInv, ClaimInv, [Next]_vars PROVE ClaimInv'
  OBVIOUS
<1> QED
  BY RowStep, GrantStep, CycleStep, UploadStep, SettledStep DEF ClaimInv

LEMMA ClaimAlways == Spec => []ClaimInv
BY ClaimInit, ClaimStep, TypeAlways, PTL DEF Spec

(* Whoever has read holds the job's claim, and a read job was not offered again,
   cancelled or expired: relay_store.py may fail the calls of pending jobs. *)
THEOREM ReadersHoldTheClaim == Spec => []ReadsAreClaimed
<1>1. TypeInv /\ ClaimInv => ReadsAreClaimed
  BY ReaderHolds, RelayAssumption DEF ReadsAreClaimed, Claimed, TypeInv, TypeOK
<1> QED
  BY <1>1, TypeAlways, ClaimAlways, PTL

(* commit_success_receipt: the accepted result is the granted one, was read, and
   settled the attempt and the Tool call with the job. *)
THEOREM OutcomeIsOne == Spec => []OutcomesAgree
<1>1. TypeInv /\ ClaimInv => OutcomesAgree
  <2> SUFFICES ASSUME TypeInv, ClaimInv, NEW j \in Jobs, job[j] = "ACCEPTED"
               PROVE  evidence[j] \in reads /\ work[evidence[j]] = j
    BY DEF OutcomesAgree, ClaimInv, CallMatchesJob, AcceptedIsBound
  <2>1. evidence[j] # None /\ evidence[j] = grant[j]
    BY DEF ClaimInv, CallMatchesJob, AcceptedIsBound
  <2> QED
    BY <2>1 DEF ClaimInv, GrantIsKept
<1> QED
  BY <1>1, TypeAlways, ClaimAlways, PTL

(* While the control plane waits for a bound result, the Relay's disk has it. *)
THEOREM EvidenceRetained == Spec => []EvidenceIsRetained
<1>1. TypeInv /\ ClaimInv => EvidenceIsRetained
  <2> SUFFICES ASSUME TypeInv, ClaimInv, NEW j \in Jobs, job[j] = "RESULT_STORED"
               PROVE  LET record == ledger[Host[grant[j]]][<<j, tried[j]>>] IN
                      IF HasTwin(grant[j]) THEN record \in {"STARTED", "LOCAL_RESULT_STORED"}
                                           ELSE record = "LOCAL_RESULT_STORED"
    BY DEF EvidenceIsRetained, ClaimInv, AcknowledgedIsSettled
  <2>1. PICK c \in Cycles : grant[j] = c /\ c \in reads /\ work[c] = j /\ Kept(c)
    BY DEF ClaimInv, ClaimMatchesJob, GrantIsKept, TypeInv, TypeOK
  <2>2. held[c] = tried[j] /\ <<j, tried[j]>> \in Jobs \X Attempts /\ Host[c] \in Hosts
    BY <2>1, ReaderHolds DEF HoldsClaim, Hosts
  <2>3. ledger[Host[c]][<<j, tried[j]>>] \in Records
    BY <2>2 DEF TypeInv, TypeOK
  <2>4. ledger[Host[c]][<<j, tried[j]>>] # "ACKNOWLEDGED"
    <3>1. ~Settled(<<j, tried[j]>>[1])
      BY DEF Settled, Terminal
    <3> QED
      BY <2>2, <3>1 DEF ClaimInv, AcknowledgedIsSettled
  <2>5. Record(c) = ledger[Host[c]][<<j, tried[j]>>]
    BY <2>1, <2>2 DEF Record
  <2> QED
    BY <2>1, <2>3, <2>4, <2>5 DEF Kept, Records
<1> QED
  BY <1>1, TypeAlways, ClaimAlways, PTL

(* A grant binds one result for good; what is settled or fenced stays so. *)
THEOREM BoundOnce == Spec => ResultIsBoundOnce
<1>1. TypeInv /\ ClaimInv /\ [Next]_vars =>
        [\A j \in Jobs :
           /\ grant[j] # None => grant'[j] = grant[j]
           /\ job[j] \in Terminal \cup {"AMBIGUOUS"} =>
                UNCHANGED <<job[j], call[j], evidence[j]>>]_vars
  <2> SUFFICES ASSUME TypeInv, ClaimInv, [Next]_vars, NEW j \in Jobs
               PROVE  /\ grant[j] # None => grant'[j] = grant[j]
                      /\ job[j] \in Terminal \cup {"AMBIGUOUS"} =>
                           UNCHANGED <<job[j], call[j], evidence[j]>>
    OBVIOUS
  <2>1. ASSUME NEW c \in Cycles, GrantUpload(c), grant[j] # None PROVE grant'[j] = grant[j]
    <3>1. work[c] # j
      BY <2>1 DEF GrantUpload, ClaimInv, ClaimMatchesJob
    <3> QED
      BY <2>1, <3>1 DEF GrantUpload, TypeInv, TypeOK
  <2>2. grant'[j] = grant[j] \/ \E c \in Cycles : GrantUpload(c)
    BY DEF Next, Administer, Sweep, Time, Cycle, Control, vars, rows, Disable, Revoke, Reenable,
       CreateJob, Cancel, ExpireUnclaimedJobs, ReconcileExpiredClaims, PassExpiry, PassLease,
       AcknowledgeTerminalOutcomes, Poll, SendClaim, RecordStart, ReadProvider, ReadFails,
       StoreResult, Upload, RecordAcknowledged, Stop, Lose, AcceptClaim, RepeatClaim,
       AcceptReceipt, HandleOutcome
  <2> QED
    BY <2>1, <2>2, TerminalStep
<1> QED
  BY <1>1, TypeAlways, ClaimAlways, PTL DEF Spec, ResultIsBoundOnce

-----------------------------------------------------------------------------
(* The jobs that were read, as CollectionPromise sees them. *)
ReadJobs == {work[c] : c \in reads}

(* A step that adds no reader leaves the jobs that were read. *)
LEMMA ReadJobsStay ==
  ASSUME TypeInv, ClaimInv, [Next]_vars, reads' = reads
  PROVE  ReadJobs' = ReadJobs
<1>1. ASSUME NEW c \in reads PROVE work'[c] = work[c]
  BY ReaderHolds, HolderStep DEF BeforeRead, BeforeWork, TypeInv, TypeOK
<1> QED
  BY <1>1 DEF ReadJobs

LEMMA PromiseStep ==
  TypeInv /\ ClaimInv /\ [Next]_vars => [Promise!Next]_<<call, ReadJobs>>
<1> SUFFICES ASSUME TypeInv, ClaimInv, [Next]_vars
             PROVE  Promise!Next \/ (call' = call /\ ReadJobs' = ReadJobs)
  OBVIOUS
<1>1. CASE UNCHANGED <<call, reads>>
  BY <1>1, ReadJobsStay
<1>2. ASSUME NEW j \in Jobs, CreateJob(j) PROVE Promise!Reserve(j)
  <2>1. reads' = reads /\ call' = [call EXCEPT ![j] = "RESERVED"]
    BY <1>2 DEF CreateJob, cycles
  <2>2. call[j] = "none"
    BY <1>2 DEF CreateJob, ClaimInv, CallMatchesJob
  <2> QED
    BY <2>1, <2>2, ReadJobsStay DEF Promise!Reserve, ReadJobs
<1>3. ASSUME ExpireUnclaimedJobs PROVE \E S \in SUBSET Jobs : Promise!Fail(S)
  <2> DEFINE S == {j \in expired : job[j] = "PENDING"}
  <2>1. S \in SUBSET Jobs
    BY DEF TypeInv, TypeOK
  <2>2. S # {} /\ (\A j \in S : call[j] = "RESERVED")
        /\ call' = [j \in Jobs |-> IF j \in S THEN "FAILED" ELSE call[j]]
    BY <1>3 DEF ExpireUnclaimedJobs
  <2>3. reads' = reads
    BY <1>3 DEF ExpireUnclaimedJobs, cycles
  <2>4. S \cap ReadJobs = {}
    <3> SUFFICES ASSUME NEW c \in reads PROVE job[work[c]] # "PENDING"
      BY DEF ReadJobs
    <3> QED
      BY ReaderHolds DEF Claimed, TypeInv, TypeOK
  <2>5. ReadJobs' = ReadJobs
    BY <2>3, ReadJobsStay
  <2> HIDE DEF S
  <2>6. Promise!Fail(S)
    BY <2>2, <2>4, <2>5 DEF Promise!Fail, ReadJobs
  <2> QED
    BY <2>1, <2>6
<1>4. ASSUME NEW c \in Cycles, ReadProvider(c) \/ ReadFails(c)
      PROVE  \E j \in Jobs : Promise!Read(j)
  <2>1. reads' = reads \cup {c} /\ work' = work /\ call' = call /\ pc[c] = "reading"
    BY <1>4 DEF ReadProvider, ReadFails, rows
  <2>2. work[c] \in Jobs /\ HoldsClaim(c)
    BY <2>1 DEF TypeInv, TypeOK, ClaimInv, CycleHoldsClaim
  <2>3. job[work[c]] \in Claimed
    <3>1. Boot[c] # None
      BY RelayAssumption DEF Boots
    <3> QED
      BY <2>2, <3>1 DEF ClaimInv, ClaimMatchesJob, HoldsClaim
  <2>4. call[work[c]] \in {"RESERVED", "SUCCEEDED"}
    BY <2>2, <2>3 DEF Claimed, ClaimInv, CallMatchesJob, TypeInv, TypeOK
  <2>5. ReadJobs' = ReadJobs \cup {work[c]}
    BY <2>1 DEF ReadJobs
  <2> QED
    BY <2>1, <2>2, <2>4, <2>5 DEF Promise!Read, ReadJobs
<1>5. ASSUME NEW c \in Cycles, AcceptReceipt(c)
      PROVE  \E j \in Jobs : Promise!Succeed(j)
  <2>1. work[c] \in Jobs
    BY <1>5, SenderPolled DEF AcceptReceipt, Requests
  <2>2. /\ call[work[c]] = "RESERVED" /\ grant[work[c]] = c
        /\ call' = [call EXCEPT ![work[c]] = "SUCCEEDED"] /\ reads' = reads
    BY <1>5 DEF AcceptReceipt
  <2>3. c \in reads
    BY <2>1, <2>2, RelayAssumption DEF ClaimInv, GrantIsKept
  <2>4. work[c] \in ReadJobs
    BY <2>3 DEF ReadJobs
  <2>5. ReadJobs' = ReadJobs
    BY <2>2, ReadJobsStay
  <2>6. Promise!Succeed(work[c])
    BY <2>2, <2>4, <2>5 DEF Promise!Succeed, ReadJobs
  <2> QED
    BY <2>1, <2>6
<1>6. \/ UNCHANGED <<call, reads>> \/ ExpireUnclaimedJobs \/ \E j \in Jobs : CreateJob(j)
      \/ \E c \in Cycles : ReadProvider(c) \/ ReadFails(c) \/ AcceptReceipt(c)
  BY DEF Next, Administer, Sweep, Time, Cycle, Control, vars, rows, cycles, Disable, Revoke,
     Reenable, Cancel, ReconcileExpiredClaims, PassExpiry, PassLease,
     AcknowledgeTerminalOutcomes, Poll, SendClaim, RecordStart, StoreResult, Upload,
     RecordAcknowledged, Stop, Lose, AcceptClaim, RepeatClaim, GrantUpload, HandleOutcome
<1> QED
  BY <1>1, <1>2, <1>3, <1>4, <1>5, <1>6 DEF Promise!Next

(* The whole protocol keeps the promise: a Tool call succeeds once and with a
   result that was read, and fails only if nothing was read. *)
THEOREM KeepsPromise == Spec => ImplementsPromise
<1>1. Init => Promise!Init
  BY DEF Init, Promise!Init
<1>2. TypeInv /\ ClaimInv /\ [Next]_vars => [Promise!Next]_<<call, {work[c] : c \in reads}>>
  BY PromiseStep DEF ReadJobs
<1> QED
  BY <1>1, <1>2, TypeAlways, ClaimAlways, PTL DEF Spec, ImplementsPromise, Promise!Spec
-----------------------------------------------------------------------------
(* One job at a time, one attempt of it, and no way out of ambiguity. *)

OneActive == \A i, j \in Jobs : job[i] \in Active /\ job[j] \in Active => i = j

(* A job is claimed once: nothing ever offers it again. *)
OneAttempt ==
  \A j \in Jobs :
    /\ job[j] \in Unclaimed => tried[j] = 0
    /\ tried[j] <= 1
    /\ \A n \in Attempts : attempt[j][n] # "FAILED_RETRYABLE"

(* A job becomes active by a claim, which finds no other active one. *)
LEMMA ActiveSources ==
  ASSUME TypeInv, ClaimInv, [Next]_vars, NEW j \in Jobs, job'[j] \in Active
  PROVE  job[j] \in Active \/ \E c \in Cycles : AcceptClaim(c) /\ work[c] = j
<1> DEFINE Goal == job[j] \in Active \/ \E c \in Cycles : AcceptClaim(c) /\ work[c] = j
<1> USE DEF TypeInv, TypeOK, Active
<1>1. UNCHANGED rows => Goal
  BY DEF rows
<1>2. ASSUME NEW i \in Jobs, CreateJob(i) \/ Cancel(i) PROVE Goal
  BY <1>2 DEF CreateJob, Cancel
<1>3. ASSUME ExpireUnclaimedJobs \/ ReconcileExpiredClaims PROVE Goal
  BY <1>3 DEF ExpireUnclaimedJobs, ReconcileExpiredClaims
<1>4. ASSUME NEW c \in Cycles, AcceptClaim(c) PROVE Goal
  BY <1>4 DEF AcceptClaim
<1>5. ASSUME NEW c \in Cycles, GrantUpload(c) \/ AcceptReceipt(c) PROVE Goal
  <2>1. job[work[c]] \in Active
    BY <1>5 DEF GrantUpload, AcceptReceipt
  <2>2. \/ j = work[c]
        \/ job'[j] = job[j]
    BY <1>5 DEF GrantUpload, AcceptReceipt
  <2> QED
    BY <2>1, <2>2
<1>6. ASSUME NEW c \in Cycles, HandleOutcome(c) PROVE Goal
  BY <1>6 DEF HandleOutcome, TakesOutcome
<1> HIDE DEF Goal
<1> QED
  BY <1>1, <1>2, <1>3, <1>4, <1>5, <1>6 DEF Goal, Next, Administer, Sweep, Time, Cycle, Control,
     vars, rows, Disable, Revoke, Reenable, PassExpiry, PassLease, AcknowledgeTerminalOutcomes,
     Poll, SendClaim, RecordStart, ReadProvider, ReadFails, StoreResult, Upload,
     RecordAcknowledged, Stop, Lose, RepeatClaim

LEMMA OneActiveStep == TypeInv /\ ClaimInv /\ OneActive /\ [Next]_vars => OneActive'
<1> SUFFICES ASSUME TypeInv, ClaimInv, OneActive, [Next]_vars,
                    NEW i \in Jobs, NEW j \in Jobs,
                    job'[i] \in Active, job'[j] \in Active
             PROVE  i = j
  BY DEF OneActive
<1>1. ASSUME NEW c \in Cycles, AcceptClaim(c), NEW k \in Jobs, job'[k] \in Active
      PROVE  k = work[c]
  BY <1>1 DEF AcceptClaim, NoneActiveBut, TypeInv, TypeOK
<1>2. CASE \E c \in Cycles : AcceptClaim(c)
  BY <1>1, <1>2
<1>3. CASE ~\E c \in Cycles : AcceptClaim(c)
  BY <1>3, ActiveSources DEF OneActive
<1> QED
  BY <1>2, <1>3

LEMMA OneAttemptStep == TypeInv /\ ClaimInv /\ OneAttempt /\ [Next]_vars => OneAttempt'
<1> SUFFICES ASSUME TypeInv, ClaimInv, OneAttempt, [Next]_vars, NEW j \in Jobs
             PROVE  /\ job'[j] \in Unclaimed => tried'[j] = 0
                    /\ tried'[j] <= 1
                    /\ \A n \in Attempts : attempt'[j][n] # "FAILED_RETRYABLE"
  BY DEF OneAttempt
<1> DEFINE Once == /\ job'[j] \in Unclaimed => tried'[j] = 0
                   /\ tried'[j] <= 1
                   /\ \A n \in Attempts : attempt'[j][n] # "FAILED_RETRYABLE"
<1> USE DEF TypeInv, TypeOK, OneAttempt, Unclaimed
<1>1. UNCHANGED rows => Once
  BY DEF rows
<1>2. ASSUME NEW i \in Jobs, CreateJob(i) \/ Cancel(i) PROVE Once
  BY <1>2 DEF CreateJob, Cancel
<1>3. ASSUME ExpireUnclaimedJobs \/ ReconcileExpiredClaims PROVE Once
  BY <1>3 DEF ExpireUnclaimedJobs, ReconcileExpiredClaims
<1>4. ASSUME NEW c \in Cycles, AcceptClaim(c) PROVE Once
  <2>1. work[c] \in Jobs /\ tried[work[c]] = 0
    BY <1>4, SenderPolled DEF AcceptClaim, Requests
  <2> QED
    BY <1>4, <2>1 DEF AcceptClaim
<1>5. ASSUME NEW c \in Cycles, GrantUpload(c) \/ AcceptReceipt(c) PROVE Once
  <2>1. work[c] \in Jobs
    BY <1>5, SenderPolled DEF GrantUpload, AcceptReceipt, Requests
  <2>2. job'[j] \in Unclaimed => job[j] \in Unclaimed
    BY <1>5, <2>1 DEF GrantUpload, AcceptReceipt, Stored
  <2>3. tried'[j] = tried[j]
    BY <1>5 DEF GrantUpload, AcceptReceipt
  <2>4. \A n \in Attempts : attempt'[j][n] # "FAILED_RETRYABLE"
    BY <1>5, <2>1 DEF GrantUpload, AcceptReceipt
  <2> QED
    BY <2>2, <2>3, <2>4
<1>6. ASSUME NEW c \in Cycles, HandleOutcome(c) PROVE Once
  <2>1. work[c] \in Jobs
    BY <1>6, SenderPolled DEF HandleOutcome, Requests
  <2>2. ~TakesOutcome(c)
    BY <2>1 DEF TakesOutcome, ClaimInv, ClaimMatchesJob, Claimed
  <2> QED
    BY <1>6, <2>2 DEF HandleOutcome
<1> HIDE DEF Once
<1>7. Once
  BY <1>1, <1>2, <1>3, <1>4, <1>5, <1>6 DEF Next, Administer, Sweep, Time, Cycle, Control,
     vars, rows, Disable, Revoke, Reenable, PassExpiry, PassLease, AcknowledgeTerminalOutcomes,
     Poll, SendClaim, RecordStart, ReadProvider, ReadFails, StoreResult, Upload,
     RecordAcknowledged, Stop, Lose, RepeatClaim
<1> QED
  BY <1>7 DEF Once

LEMMA OneAlways == Spec => [](OneActive /\ OneAttempt)
<1>1. Init => OneActive /\ OneAttempt
  BY DEF Init, OneActive, OneAttempt, Active
<1> QED
  BY <1>1, OneActiveStep, OneAttemptStep, TypeAlways, ClaimAlways, PTL DEF Spec

(* maximum_attempts is never used: whatever a Relay reports, no job is claimed a
   second time, refused, or left in EXECUTING or RETRY_WAIT, and no attempt is
   recorded as retryable, because the handler of the outcome asks for a state in
   which no transaction leaves a job (relay_store.py:2196). *)
THEOREM NoSecondAttempt ==
  Spec => [](\A j \in Jobs : /\ tried[j] <= 1
                            /\ job[j] \notin {"EXECUTING", "RETRY_WAIT", "REFUSED"}
                            /\ \A n \in Attempts : attempt[j][n] # "FAILED_RETRYABLE")
<1> DEFINE Never == \A j \in Jobs : /\ tried[j] <= 1
                                   /\ job[j] \notin {"EXECUTING", "RETRY_WAIT", "REFUSED"}
                                   /\ \A n \in Attempts : attempt[j][n] # "FAILED_RETRYABLE"
<1>1. ClaimInv /\ OneAttempt => Never
  BY DEF ClaimInv, ClaimMatchesJob, OneAttempt, Unclaimed, Claimed
<1> HIDE DEF Never
<1>2. Spec => []Never
  BY <1>1, ClaimAlways, OneAlways, PTL
<1> QED
  BY <1>2 DEF Never

(* A Tool call succeeds by the receipt of a bound result. *)
LEMMA SuccessSources ==
  ASSUME TypeInv, [Next]_vars, NEW j \in Jobs, call'[j] = "SUCCEEDED"
  PROVE  \/ call[j] = "SUCCEEDED"
         \/ \E c \in Cycles : AcceptReceipt(c) /\ work[c] = j
<1> DEFINE Goal == \/ call[j] = "SUCCEEDED"
                   \/ \E c \in Cycles : AcceptReceipt(c) /\ work[c] = j
<1> USE DEF TypeInv, TypeOK
<1>1. UNCHANGED call => Goal
  OBVIOUS
<1>2. ASSUME NEW i \in Jobs, CreateJob(i) PROVE Goal
  BY <1>2 DEF CreateJob
<1>3. ASSUME ExpireUnclaimedJobs PROVE Goal
  BY <1>3 DEF ExpireUnclaimedJobs
<1>4. ASSUME NEW c \in Cycles, AcceptReceipt(c) PROVE Goal
  BY <1>4 DEF AcceptReceipt
<1> HIDE DEF Goal
<1> QED
  BY <1>1, <1>2, <1>3, <1>4 DEF Goal, Next, Administer, Sweep, Time, Cycle, Control,
     vars, rows, Disable, Revoke, Reenable, Cancel, ReconcileExpiredClaims, PassExpiry,
     PassLease, AcknowledgeTerminalOutcomes, Poll, SendClaim, RecordStart, ReadProvider,
     ReadFails, StoreResult, Upload, RecordAcknowledged, Stop, Lose, AcceptClaim, RepeatClaim,
     GrantUpload, HandleOutcome

(* A job fenced as ambiguous is the enrollment's last: it stays ambiguous, the
   index relay_one_active_job_per_enrollment admits no other claim, and no Tool
   call of the enrollment succeeds any more, whoever polls, uploads or reenables
   the enrollment (reconcile_expired_claims, relay_store.py:2421). *)
THEOREM AmbiguityIsTheLastJob ==
  Spec => [][\A j \in Jobs : job[j] = "AMBIGUOUS" =>
               /\ job'[j] = "AMBIGUOUS"
               /\ \A i \in Jobs : /\ job'[i] = "CLAIMED" => job[i] = "CLAIMED"
                                  /\ call'[i] = "SUCCEEDED" => call[i] = "SUCCEEDED"]_vars
<1>1. ASSUME TypeInv, ClaimInv, ClaimInv', OneActive, OneActive', [Next]_vars,
             NEW j \in Jobs, job[j] = "AMBIGUOUS"
      PROVE  /\ job'[j] = "AMBIGUOUS"
             /\ \A i \in Jobs : /\ job'[i] = "CLAIMED" => job[i] = "CLAIMED"
                                /\ call'[i] = "SUCCEEDED" => call[i] = "SUCCEEDED"
  <2>1. job'[j] = "AMBIGUOUS"
    BY <1>1, TerminalStep
  <2>2. ASSUME NEW i \in Jobs, job'[i] = "CLAIMED" PROVE FALSE
    BY <1>1, <2>1, <2>2 DEF OneActive, Active
  <2>3. ASSUME NEW i \in Jobs, call'[i] = "SUCCEEDED", call[i] # "SUCCEEDED" PROVE FALSE
    <3>1. \E c \in Cycles : AcceptReceipt(c) /\ work[c] = i
      BY <1>1, <2>3, SuccessSources
    <3>2. job[i] = "RESULT_STORED"
      BY <3>1 DEF AcceptReceipt
    <3> QED
      BY <1>1, <3>2 DEF OneActive, Active
  <2> QED
    BY <2>1, <2>2, <2>3
<1>2. TypeInv /\ ClaimInv /\ ClaimInv' /\ OneActive /\ OneActive' /\ [Next]_vars =>
        [\A j \in Jobs : job[j] = "AMBIGUOUS" =>
           /\ job'[j] = "AMBIGUOUS"
           /\ \A i \in Jobs : /\ job'[i] = "CLAIMED" => job[i] = "CLAIMED"
                              /\ call'[i] = "SUCCEEDED" => call[i] = "SUCCEEDED"]_vars
  BY <1>1
<1> QED
  BY <1>2, TypeAlways, ClaimAlways, OneAlways, PTL DEF Spec
=============================================================================
