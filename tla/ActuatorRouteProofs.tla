------------------------- MODULE ActuatorRouteProofs -------------------------
(***************************************************************************)
(* Theorems about ActuatorRoute for any number of requests, ticks and      *)
(* verification calls.  They rest on two orders: whoever holds the lock of *)
(* the execution run's row works on a run that is still open and an action *)
(* without an outcome, and an open run keeps the incident where it waits   *)
(* for that run.                                                           *)
(***************************************************************************)
EXTENDS ActuatorRoute, TLAPS

Open == {"CREATED", "DISPATCHED"}

(* What a request concluded before it reaches finalize_dispatch, and what a
   tick can have read of its run. *)
Concluded == \A r \in Requests : request[r] = "finalize" => result[r] \in Results

SeenOfKind ==
  \A p \in Ticks : seen[p] \in {"none"} \cup (IF kind[p] = "execution" THEN Results ELSE Verdicts)

TypeInv == TypeOK /\ Concluded /\ SeenOfKind

(* The open transaction with the run row's lock is the only writer left. *)
HolderWorksOnOpenRun ==
  rowLock # Nobody => run["execution"] = "DISPATCHED" /\ action = "AUTHORIZED"

OutcomeNeedsSettlement == action = "AUTHORIZED" => receipt = "none"

(* An outcome a tick has read is the outcome. *)
SeenIsTrue == \A p \in Ticks : seen[p] # "none" => seen[p] = Outcome(kind[p])

OpenRunIsHome == \A k \in Kinds : run[k] \in Open => incident = Home(k)

VerificationFollows == incident = "MITIGATING" => run["verification"] = "none"

RunInv ==
  /\ HolderWorksOnOpenRun
  /\ OutcomeNeedsSettlement
  /\ OpenRunIsHome
  /\ VerificationFollows
  /\ NobodyWaitsForDeadRun

OutcomeInv == SeenIsTrue /\ ProgressHasReceipt /\ NoAuthorityLeftBehind

-----------------------------------------------------------------------------
LEMMA TypeInit == Init => TypeInv
<1> SUFFICES ASSUME Init PROVE TypeInv
  OBVIOUS
<1>1. /\ request \in [Requests -> {"start"}]
      /\ result \in [Requests -> {"none"}]
      /\ at \in [Ticks -> {"idle"}] /\ kind \in [Ticks -> {"execution"}]
      /\ seen \in [Ticks -> {"none"}]
      /\ run \in [Kinds -> {"none"}]
      /\ overdue \in [Kinds -> {FALSE}] /\ known \in [Kinds -> {FALSE}]
  BY DEF Init, RunsInit
<1>2. Concluded /\ SeenOfKind
  BY <1>1 DEF Concluded, SeenOfKind
<1>3. leaseLive \in BOOLEAN /\ applied \in BOOLEAN
  BY Zenon DEF Init, RunsInit
<1>4. overdue \in [Kinds -> BOOLEAN] /\ known \in [Kinds -> BOOLEAN]
  BY Zenon DEF Init, RunsInit
<1>5. RunsTypeOK
  BY <1>1, <1>3, <1>4 DEF Init, RunsInit, RunsTypeOK, Kinds
<1> QED
  BY <1>1, <1>2, <1>3, <1>5 DEF Init, TypeInv, TypeOK

(* The moves of a tick keep the types of its own variables. *)
LEMMA EndsTyped ==
  ASSUME TypeInv, NEW p \in Ticks, NEW status \in Over,
         NEW state \in {"VERIFYING_MITIGATION", "MITIGATION_PROPOSED", "AWAITING_APPROVAL",
                        "MITIGATED", "ESCALATED"},
         EndRun(p, status, state)
  PROVE  /\ run' \in [Kinds -> {"none", "CREATED", "DISPATCHED"} \cup Over]
         /\ incident' \in {"MITIGATING", "VERIFYING_MITIGATION", "MITIGATION_PROPOSED",
                           "AWAITING_APPROVAL", "MITIGATED", "ESCALATED"}
         /\ lease' \in Ticks \cup {Nobody} /\ leaseLive' \in BOOLEAN
         /\ at' \in [Ticks -> {"idle", "queued", "starting", "reserved", "accepted", "refused",
                               "read", "deciding", "expired", "reaping"}]
         /\ kind' \in [Ticks -> Kinds]
         /\ seen' \in [Ticks -> {"none"} \cup Results \cup Verdicts]
         /\ SeenOfKind'
<1> USE DEF TypeInv, TypeOK, RunsTypeOK, EndRun, GiveBack, Leave, Turn
<1>1. kind[p] \in Kinds /\ "execution" \in Kinds
  BY DEF Kinds
<1>2. run' \in [Kinds -> {"none", "CREATED", "DISPATCHED"} \cup Over]
  BY <1>1
<1>3. SeenOfKind'
  BY DEF SeenOfKind
<1> QED
  BY <1>1, <1>2, <1>3

LEMMA StatesTyped ==
  ASSUME NEW k \in Kinds,
         NEW x \in (IF k = "execution" THEN Results ELSE Verdicts)
  PROVE  NextStates(k, x) \subseteq {"VERIFYING_MITIGATION", "MITIGATION_PROPOSED",
                                     "AWAITING_APPROVAL", "MITIGATED", "ESCALATED"}
BY DEF NextStates, Kinds, Results, Verdicts

LEMMA TickTyped ==
  ASSUME TypeInv, NEW p \in Ticks, Tick(p), toolsUnchanged PROVE TypeInv'
<1> USE RunsAssumption DEF TypeInv, TypeOK, RunsTypeOK, Concluded, outcomes, leases, ticks,
      requests, toolsUnchanged
<1>0. kind[p] \in Kinds /\ "execution" \in Kinds /\ "verification" \in Kinds
  BY DEF Kinds
<1>1. ASSUME NEW k \in Kinds, Queue(p, k) \/ FindExpired(p, k) PROVE TypeInv'
  BY <1>1 DEF Queue, FindExpired, Turn, SeenOfKind
<1>2. ASSUME NEW k \in Kinds, AdoptCreated(p, k) PROVE TypeInv'
  BY <1>2 DEF AdoptCreated, SeenOfKind
<1>3. ASSUME NEW k \in Kinds, ReadOutcome(p, k) PROVE TypeInv'
  <2>1. Outcome(k) \in {"none"} \cup (IF k = "execution" THEN Results ELSE Verdicts)
    BY DEF Outcome, Kinds
  <2> QED
    BY <1>3, <2>1 DEF ReadOutcome, Turn, SeenOfKind
<1>4. CASE AcquireLease(p)
  BY <1>4 DEF AcquireLease, Goto, SeenOfKind
<1>5. CASE Reserve(p)
  BY <1>5, <1>0 DEF Reserve, Goto, SeenOfKind
<1>6. CASE NothingToDo(p)
  BY <1>6, <1>0 DEF NothingToDo, GiveBack, Leave, Turn, SeenOfKind
<1>7. CASE BindingRefused(p)
  <2>1. EndRun(p, "FAILED", "ESCALATED") /\ "FAILED" \in Over
    BY <1>7 DEF BindingRefused, Over
  <2> QED
    BY <1>7, <2>1, EndsTyped DEF BindingRefused
<1>8. CASE Invoke(p)
  <2>1. known' \in [Kinds -> BOOLEAN]
    <3>1. CASE UNCHANGED known
      BY <3>1
    <3>2. CASE known' = [known EXCEPT ![kind[p]] = TRUE]
      BY <3>2, <1>0, Zenon
    <3> QED
      BY <1>8, <3>1, <3>2 DEF Invoke
  <2>2. /\ UNCHANGED <<run, overdue, outcomes, incident, leases, rowLock, kind, seen>>
        /\ at' \in [Ticks -> {"idle", "queued", "starting", "reserved", "accepted", "refused",
                              "read", "deciding", "expired", "reaping"}]
    BY <1>8 DEF Invoke, Goto
  <2> QED
    BY <2>1, <2>2 DEF SeenOfKind
<1>9. CASE RecordDispatch(p)
  BY <1>9, <1>0 DEF RecordDispatch, GiveBack, Leave, Turn, SeenOfKind
<1>10. CASE FailCreated(p) \/ ExpireCreated(p) \/ FailRun(p)
  <2>1. EndRun(p, "FAILED", "ESCALATED") /\ "FAILED" \in Over
    BY <1>10 DEF FailCreated, ExpireCreated, FailRun, Over
  <2>2. /\ action' = Fenced(kind[p])
        /\ UNCHANGED <<overdue, known, receipt, verdict, rowLock>>
    BY <1>10 DEF FailCreated, ExpireCreated, FailRun
  <2>3. action' \in {"AUTHORIZED", "INVALIDATED"} \cup Results
    BY <2>2 DEF Fenced, Results
  <2> QED
    BY <2>1, <2>2, <2>3, EndsTyped
<1>11. CASE CompleteRun(p)
  <2>1. PICK state \in NextStates(kind[p], seen[p]) : EndRun(p, "SUCCEEDED", state)
    BY <1>11 DEF CompleteRun
  <2>2. seen[p] \in (IF kind[p] = "execution" THEN Results ELSE Verdicts)
    BY <1>11 DEF CompleteRun, SeenOfKind
  <2>3. "SUCCEEDED" \in Over
    BY DEF Over
  <2> QED
    BY <1>11, <1>0, <2>1, <2>2, <2>3, StatesTyped, EndsTyped DEF CompleteRun
<1>12. CASE TickEnds(p)
  BY <1>12, <1>0 DEF TickEnds, Leave, Turn, SeenOfKind
<1> QED
  BY <1>1, <1>2, <1>3, <1>4, <1>5, <1>6, <1>7, <1>8, <1>9, <1>10, <1>11, <1>12
     DEF Tick, Start, Decide

LEMMA TypeStep == TypeInv /\ [Next]_vars => TypeInv'
<1> SUFFICES ASSUME TypeInv, [Next]_vars PROVE TypeInv'
  OBVIOUS
<1> USE RunsAssumption DEF TypeInv, TypeOK, RunsTypeOK, Concluded, SeenOfKind,
      outcomes, leases, ticks, requests, toolsUnchanged, Proceed
<1>1. ASSUME NEW r \in Requests, Handle(r) PROVE TypeInv'
  <2>1. CASE Enter(r)
    BY <2>1 DEF Enter
  <2>2. CASE ClaimMutation(r)
    BY <2>2 DEF ClaimMutation
  <2>3. CASE Mutate(r)
    BY <2>3 DEF Mutate
  <2>4. CASE Reconcile(r)
    BY <2>4 DEF Reconcile
  <2>5. CASE Commit(r)
    BY <2>5 DEF Commit
  <2>6. CASE Abort(r)
    BY <2>6 DEF Abort
  <2> QED
    BY <1>1, <2>1, <2>2, <2>3, <2>4, <2>5, <2>6 DEF Handle
<1>2. ASSUME NEW r \in Requests, SessionEnds(r) PROVE TypeInv'
  BY <1>2 DEF SessionEnds
<1>3. CASE EffectLands
  BY <1>3 DEF EffectLands, runsVars
<1>4. ASSUME NEW c \in Calls, Verify(c) PROVE TypeInv'
  BY <1>4 DEF Verify, ReserveVerification, CompleteVerification, CallEnds, runsVars
<1>5. ASSUME NEW p \in Ticks, Tick(p), toolsUnchanged PROVE TypeInv'
  BY <1>5, TickTyped
<1>6. ASSUME NEW k \in Kinds, DeadlinePasses(k), toolsUnchanged PROVE TypeInv'
  BY <1>6 DEF DeadlinePasses
<1>7. CASE LeaseExpires /\ toolsUnchanged
  BY <1>7 DEF LeaseExpires
<1>8. CASE UNCHANGED vars
  BY <1>8 DEF vars, runsVars
<1> QED
  BY <1>1, <1>2, <1>3, <1>4, <1>5, <1>6, <1>7, <1>8 DEF Next, RunsNext

(* Every variable of the runs, the route and the verifier keeps its type; what
   finalize_dispatch commits is a result, and a tick moves the incident only to
   states its outcome may lead to. *)
THEOREM TypeCorrect == Spec => []TypeOK
<1>1. Spec => []TypeInv
  BY TypeInit, TypeStep, PTL DEF Spec
<1>2. TypeInv => TypeOK
  BY DEF TypeInv
<1> QED
  BY <1>1, <1>2, PTL

-----------------------------------------------------------------------------
LEMMA RunInit == Init => RunInv /\ OutcomeInv
<1> SUFFICES ASSUME Init PROVE RunInv /\ OutcomeInv
  OBVIOUS
<1>1. \A k \in Kinds : run[k] = "none"
  BY DEF Init, RunsInit
<1>2. \A p \in Ticks : seen[p] = "none"
  BY DEF Init, RunsInit
<1>3. run["verification"] = "none"
  BY <1>1 DEF Kinds
<1> QED
  BY <1>1, <1>2, <1>3 DEF Init, RunsInit, RunInv, OutcomeInv, HolderWorksOnOpenRun, OutcomeNeedsSettlement,
     OpenRunIsHome, VerificationFollows, NobodyWaitsForDeadRun, SeenIsTrue, ProgressHasReceipt,
     NoAuthorityLeftBehind, Open, Over

(* While an incident waits for its run, that run is the only one that can be open. *)
LEMMA OnlyOpenRun ==
  ASSUME RunInv, NEW j \in Kinds, NEW k \in Kinds, incident = Home(j), run[k] \in Open
  PROVE  k = j
BY DEF RunInv, OpenRunIsHome, Home, Kinds

(* A run ends only while no request holds the execution run's row. *)
LEMMA RowIsFree ==
  ASSUME RunInv, NEW k \in Kinds, incident = Home(k), k = "execution" => run[k] # "DISPATCHED"
  PROVE  rowLock = Nobody
<1>1. "execution" \in Kinds
  BY DEF Kinds
<1>2. run["execution"] # "DISPATCHED"
  BY <1>1, OnlyOpenRun DEF Open
<1> QED
  BY <1>2 DEF RunInv, HolderWorksOnOpenRun

(* Ending a run with the move of its incident. *)
LEMMA EndKeepsRuns ==
  ASSUME TypeInv, RunInv, NEW p \in Ticks, NEW status \in Over,
         NEW state \in {"VERIFYING_MITIGATION", "MITIGATION_PROPOSED", "AWAITING_APPROVAL",
                        "MITIGATED", "ESCALATED"},
         EndRun(p, status, state),
         state = "VERIFYING_MITIGATION" => kind[p] = "execution"
  PROVE  (OpenRunIsHome /\ VerificationFollows /\ NobodyWaitsForDeadRun)'
<1> USE DEF EndRun, MayMove
<1>1. kind[p] \in Kinds /\ run \in [Kinds -> {"none", "CREATED", "DISPATCHED"} \cup Over]
  BY DEF TypeInv, TypeOK, RunsTypeOK
<1>2. OpenRunIsHome'
  <2> SUFFICES ASSUME NEW k \in Kinds, run'[k] \in Open PROVE FALSE
    BY DEF OpenRunIsHome
  <2>1. k # kind[p]
    BY <1>1 DEF Open, Over
  <2>2. run[k] \in Open
    BY <1>1, <2>1
  <2> QED
    BY <1>1, <2>1, <2>2, OnlyOpenRun
<1>3. VerificationFollows'
  BY DEF VerificationFollows
<1>4. NobodyWaitsForDeadRun'
  <2> SUFFICES ASSUME NEW k \in Kinds, run'[k] \in Over, state = Home(k) PROVE FALSE
    BY DEF NobodyWaitsForDeadRun
  <2>1. k = "verification" /\ kind[p] = "execution"
    BY DEF Home, Kinds
  <2>2. run["verification"] \in Over
    BY <1>1, <2>1
  <2>3. run["verification"] = "none"
    BY <2>1 DEF RunInv, VerificationFollows, Home
  <2> QED
    BY <2>2, <2>3 DEF Over
<1> QED
  BY <1>2, <1>3, <1>4

(* The ends without an outcome: a refused or expired dispatch, a failed run. *)
LEMMA FailureKeepsRuns ==
  ASSUME TypeInv, RunInv, NEW p \in Ticks,
         BindingRefused(p) \/ FailCreated(p) \/ ExpireCreated(p) \/ FailRun(p)
  PROVE  RunInv' /\ (incident # "MITIGATING" => action' = action)
<1>1. EndRun(p, "FAILED", "ESCALATED") /\ "FAILED" \in Over /\ UNCHANGED <<receipt, rowLock>>
  BY DEF BindingRefused, FailCreated, ExpireCreated, FailRun, Over
<1>2. kind[p] \in Kinds /\ incident = Home(kind[p])
  BY <1>1 DEF TypeInv, TypeOK, RunsTypeOK, EndRun, MayMove
<1>3. rowLock = Nobody
  <2>1. CASE BindingRefused(p) \/ FailCreated(p) \/ ExpireCreated(p)
    BY <1>2, <2>1, RowIsFree DEF BindingRefused, FailCreated, ExpireCreated, IfCreated
  <2>2. CASE FailRun(p)
    BY <1>2, <2>2, RowIsFree DEF FailRun, RunRowFree
  <2> QED
    BY <2>1, <2>2
<1>4. /\ action' = "AUTHORIZED" => action = "AUTHORIZED"
      /\ kind[p] # "execution" => action' = action
  <2>1. CASE BindingRefused(p)
    BY <2>1 DEF BindingRefused
  <2>2. CASE FailCreated(p) \/ ExpireCreated(p) \/ FailRun(p)
    BY <2>2 DEF FailCreated, ExpireCreated, FailRun, Fenced
  <2> QED
    BY <2>1, <2>2
<1>5. HolderWorksOnOpenRun' /\ OutcomeNeedsSettlement'
  BY <1>1, <1>3, <1>4 DEF RunInv, HolderWorksOnOpenRun, OutcomeNeedsSettlement
<1>6. incident # "MITIGATING" => action' = action
  BY <1>2, <1>4 DEF Home
<1> QED
  BY <1>1, <1>5, <1>6, EndKeepsRuns DEF RunInv

(* The move a completed run makes. *)
LEMMA CompletionKeepsRuns ==
  ASSUME TypeInv, RunInv, NEW p \in Ticks, CompleteRun(p)
  PROVE  RunInv'
<1>1. PICK state \in NextStates(kind[p], seen[p]) : EndRun(p, "SUCCEEDED", state)
  BY DEF CompleteRun
<1>2. kind[p] \in Kinds /\ incident = Home(kind[p])
  BY <1>1 DEF TypeInv, TypeOK, RunsTypeOK, EndRun, MayMove
<1>3. seen[p] \in (IF kind[p] = "execution" THEN Results ELSE Verdicts)
  BY DEF CompleteRun, TypeInv, SeenOfKind
<1>4. state \in {"VERIFYING_MITIGATION", "MITIGATION_PROPOSED", "AWAITING_APPROVAL",
                 "MITIGATED", "ESCALATED"}
  BY <1>1, <1>2, <1>3, StatesTyped
<1>5. state = "VERIFYING_MITIGATION" => kind[p] = "execution"
  BY <1>1, <1>2, <1>3 DEF NextStates, Kinds, Results, Verdicts
<1>6. rowLock = Nobody
  BY <1>2, RowIsFree DEF CompleteRun, RunRowFree
<1>7. HolderWorksOnOpenRun' /\ OutcomeNeedsSettlement'
  BY <1>6 DEF CompleteRun, outcomes, RunInv, HolderWorksOnOpenRun, OutcomeNeedsSettlement
<1> QED
  BY <1>1, <1>4, <1>5, <1>7, EndKeepsRuns DEF RunInv, Over

LEMMA TickKeepsRuns == ASSUME TypeInv, RunInv, NEW p \in Ticks, Tick(p) PROVE RunInv'
<1> USE DEF RunInv, HolderWorksOnOpenRun, OutcomeNeedsSettlement, OpenRunIsHome,
      VerificationFollows, NobodyWaitsForDeadRun, outcomes, leases, ticks
<1>0. /\ kind[p] \in Kinds /\ "execution" \in Kinds /\ "verification" \in Kinds
      /\ run \in [Kinds -> {"none", "CREATED", "DISPATCHED"} \cup Over]
  BY DEF TypeInv, TypeOK, RunsTypeOK, Kinds
<1>1. ASSUME NEW k \in Kinds, Queue(p, k) \/ FindExpired(p, k) \/ ReadOutcome(p, k) PROVE RunInv'
  BY <1>1 DEF Queue, FindExpired, ReadOutcome
<1>2. ASSUME NEW k \in Kinds, AdoptCreated(p, k) PROVE RunInv'
  BY <1>0, <1>2 DEF AdoptCreated, IfCreated, Open, Over
<1>3. CASE AcquireLease(p) \/ NothingToDo(p) \/ Invoke(p) \/ TickEnds(p)
  BY <1>3 DEF AcquireLease, NothingToDo, Invoke, TickEnds
<1>4. CASE Reserve(p)
  <2>1. run[kind[p]] = "none" /\ incident = Home(kind[p])
    BY <1>4 DEF Reserve, Needed, MayMove
  <2>2. rowLock = Nobody
    BY <1>0, <2>1, RowIsFree
  <2>3. kind[p] = "verification" => incident # "MITIGATING"
    BY <2>1 DEF Home
  <2> QED
    BY <1>0, <1>4, <2>1, <2>2, <2>3 DEF Reserve, Open, Over, Kinds
<1>5. CASE RecordDispatch(p)
  BY <1>0, <1>5 DEF RecordDispatch, IfCreated, Open, Over
<1> QED
  BY <1>1, <1>2, <1>3, <1>4, <1>5, FailureKeepsRuns, CompletionKeepsRuns DEF Tick, Start, Decide

LEMMA RunStep == TypeInv /\ RunInv /\ [Next]_vars => RunInv'
<1> SUFFICES ASSUME TypeInv, RunInv, [Next]_vars PROVE RunInv'
  OBVIOUS
<1>1. ASSUME NEW p \in Ticks, Tick(p) PROVE RunInv'
  BY <1>1, TickKeepsRuns
<1> USE RunsAssumption DEF RunInv, HolderWorksOnOpenRun, OutcomeNeedsSettlement, OpenRunIsHome,
      VerificationFollows, NobodyWaitsForDeadRun, outcomes, leases, ticks, Proceed
<1>2. ASSUME NEW r \in Requests, Handle(r) PROVE RunInv'
  <2>1. CASE Enter(r)
    BY <2>1 DEF Enter
  <2>2. CASE ClaimMutation(r) \/ Mutate(r) \/ Reconcile(r) \/ Abort(r)
    BY <2>2 DEF ClaimMutation, Mutate, Reconcile, Abort
  <2>3. CASE Commit(r)
    <3>1. action' \in Results
      BY <2>3 DEF Commit, TypeInv, Concluded
    <3> QED
      BY <2>3, <3>1 DEF Commit, Results
  <2> QED
    BY <1>2, <2>1, <2>2, <2>3 DEF Handle
<1>3. ASSUME NEW r \in Requests, SessionEnds(r) PROVE RunInv'
  BY <1>3 DEF SessionEnds
<1>4. CASE EffectLands
  BY <1>4 DEF EffectLands, runsVars
<1>5. ASSUME NEW c \in Calls, Verify(c) PROVE RunInv'
  BY <1>5 DEF Verify, ReserveVerification, CompleteVerification, CallEnds, runsVars
<1>6. ASSUME NEW k \in Kinds, DeadlinePasses(k) PROVE RunInv'
  BY <1>6 DEF DeadlinePasses
<1>7. CASE LeaseExpires
  BY <1>7 DEF LeaseExpires
<1>8. CASE UNCHANGED vars
  BY <1>8 DEF vars, runsVars
<1> QED
  BY <1>1, <1>2, <1>3, <1>4, <1>5, <1>6, <1>7, <1>8 DEF Next, RunsNext

-----------------------------------------------------------------------------
(* The steps that move the incident or leave an outcome; every other step keeps
   both, and what a tick has read. *)
LEMMA OutcomeStep == TypeInv /\ RunInv /\ OutcomeInv /\ [Next]_vars => OutcomeInv'
<1> SUFFICES ASSUME TypeInv, RunInv, OutcomeInv, [Next]_vars PROVE OutcomeInv'
  OBVIOUS
<1> USE RunsAssumption DEF OutcomeInv, SeenIsTrue, ProgressHasReceipt, NoAuthorityLeftBehind,
      Outcome, outcomes, leases, ticks, Proceed
<1>0. seen \in [Ticks -> {"none"} \cup Results \cup Verdicts] /\ kind \in [Ticks -> Kinds]
  BY DEF TypeInv, TypeOK, RunsTypeOK
<1>1. ASSUME NEW r \in Requests, Handle(r) PROVE OutcomeInv'
  <2>1. CASE Enter(r) \/ ClaimMutation(r) \/ Mutate(r) \/ Reconcile(r) \/ Abort(r)
    BY <2>1 DEF Enter, ClaimMutation, Mutate, Reconcile, Abort
  <2>2. CASE Commit(r)
    <3>1. action = "AUTHORIZED" /\ run["execution"] = "DISPATCHED"
      BY <2>2 DEF Commit, RunInv, HolderWorksOnOpenRun
    <3>2. incident = "MITIGATING" /\ receipt = "none"
      BY <3>1 DEF RunInv, OutcomeNeedsSettlement, OpenRunIsHome, Home, Kinds, Open
    <3> QED
      BY <2>2, <3>2 DEF Commit
  <2> QED
    BY <1>1, <2>1, <2>2 DEF Handle
<1>2. ASSUME NEW r \in Requests, SessionEnds(r) PROVE OutcomeInv'
  BY <1>2 DEF SessionEnds
<1>3. CASE EffectLands
  BY <1>3 DEF EffectLands, runsVars
<1>4. ASSUME NEW c \in Calls, Verify(c) PROVE OutcomeInv'
  BY <1>4 DEF Verify, ReserveVerification, CompleteVerification, CallEnds, runsVars
<1>5. ASSUME NEW p \in Ticks, Tick(p) PROVE OutcomeInv'
  <2>1. ASSUME NEW k \in Kinds, Queue(p, k) \/ FindExpired(p, k) \/ ReadOutcome(p, k)
        PROVE  OutcomeInv'
    BY <1>0, <2>1 DEF Queue, FindExpired, ReadOutcome, Turn
  <2>2. ASSUME NEW k \in Kinds, AdoptCreated(p, k) PROVE OutcomeInv'
    BY <2>2 DEF AdoptCreated
  <2>3. CASE AcquireLease(p) \/ Reserve(p) \/ Invoke(p)
    BY <2>3 DEF AcquireLease, Reserve, Invoke, Goto
  <2>4. CASE NothingToDo(p) \/ RecordDispatch(p) \/ TickEnds(p)
    BY <1>0, <2>4 DEF NothingToDo, RecordDispatch, TickEnds, Leave, Turn
  <2>5. CASE BindingRefused(p) \/ FailCreated(p) \/ ExpireCreated(p) \/ FailRun(p)
    <3>1. EndRun(p, "FAILED", "ESCALATED") /\ UNCHANGED <<receipt, verdict>>
      BY <2>5 DEF BindingRefused, FailCreated, ExpireCreated, FailRun
    <3>2. kind[p] = "execution" => action' # "AUTHORIZED"
      BY <2>5 DEF BindingRefused, FailCreated, ExpireCreated, FailRun, Fenced
    <3>3. kind[p] # "execution" => action' = action /\ action # "AUTHORIZED"
      BY <1>0, <2>5, <3>1, FailureKeepsRuns DEF EndRun, MayMove, Home
    <3> QED
      BY <1>0, <3>1, <3>2, <3>3 DEF EndRun, Leave, Turn
  <2>6. CASE CompleteRun(p)
    <3>1. PICK state \in NextStates(kind[p], seen[p]) : EndRun(p, "SUCCEEDED", state)
      BY <2>6 DEF CompleteRun
    <3>2. /\ seen[p] = Outcome(kind[p]) /\ kind[p] \in Kinds /\ incident = Home(kind[p])
          /\ seen[p] \in (IF kind[p] = "execution" THEN Results ELSE Verdicts)
      BY <1>0, <2>6, <3>1 DEF CompleteRun, EndRun, MayMove, TypeInv, SeenOfKind
    <3>3. ProgressHasReceipt'
      <4>1. CASE kind[p] = "execution"
        <5>1. \/ state = "VERIFYING_MITIGATION" /\ receipt = "SUCCEEDED"
              \/ state = "MITIGATION_PROPOSED" /\ receipt = "FAILED"
              \/ state = "ESCALATED"
          BY <3>1, <3>2, <4>1 DEF NextStates, Results
        <5> QED
          BY <2>6, <3>1, <5>1 DEF CompleteRun, EndRun
      <4>2. CASE kind[p] = "verification"
        <5>1. \/ state = "MITIGATED" /\ verdict = "VERIFIED"
              \/ state \in {"AWAITING_APPROVAL", "ESCALATED"} /\ verdict = "FAILED"
          BY <3>1, <3>2, <4>2 DEF NextStates, Verdicts
        <5>2. receipt = "SUCCEEDED"
          BY <3>2, <4>2 DEF Home
        <5> QED
          BY <2>6, <3>1, <5>1, <5>2 DEF CompleteRun, EndRun
      <4> QED
        BY <3>2, <4>1, <4>2 DEF Kinds
    <3>4. SeenIsTrue'
      BY <1>0, <2>6, <3>1 DEF CompleteRun, EndRun, Leave, Turn
    <3>5. action' # "AUTHORIZED"
      <4>1. kind[p] = "execution" => receipt \in Results
        BY <3>2
      <4>2. kind[p] = "execution" => action # "AUTHORIZED"
        BY <4>1 DEF Results, RunInv, OutcomeNeedsSettlement
      <4>3. kind[p] # "execution" => action # "AUTHORIZED"
        BY <3>2 DEF Home
      <4> QED
        BY <2>6, <4>2, <4>3 DEF CompleteRun
    <3> QED
      BY <3>3, <3>4, <3>5
  <2> QED
    BY <1>5, <2>1, <2>2, <2>3, <2>4, <2>5, <2>6 DEF Tick, Start, Decide
<1>6. ASSUME NEW k \in Kinds, DeadlinePasses(k) PROVE OutcomeInv'
  BY <1>6 DEF DeadlinePasses
<1>7. CASE LeaseExpires
  BY <1>7 DEF LeaseExpires
<1>8. CASE UNCHANGED vars
  BY <1>8 DEF vars, runsVars
<1> QED
  BY <1>1, <1>2, <1>3, <1>4, <1>5, <1>6, <1>7, <1>8 DEF Next, RunsNext

LEMMA Always == Spec => [](TypeInv /\ RunInv /\ OutcomeInv)
BY TypeInit, TypeStep, RunInit, RunStep, OutcomeStep, PTL DEF Spec

(* The coordinator moves the incident on a claimed outcome only when the row of
   that outcome, the receipt or the verdict, is durable, and that row stays what
   it was. *)
THEOREM ProgressReceipt == Spec => []ProgressHasReceipt
<1>1. OutcomeInv => ProgressHasReceipt
  BY DEF OutcomeInv
<1> QED
  BY <1>1, Always, PTL

(* An incident that has left MITIGATING leaves no action behind that could still
   be executed on the authority given before. *)
THEOREM NoAuthorityLeft == Spec => []NoAuthorityLeftBehind
<1>1. OutcomeInv => NoAuthorityLeftBehind
  BY DEF OutcomeInv
<1> QED
  BY <1>1, Always, PTL

(* Whatever ends a run, completion, failure, a refused dispatch or the sweep of
   an unrecorded one, takes the incident out of the state that waits for it. *)
THEOREM NobodyWaits == Spec => []NobodyWaitsForDeadRun
<1>1. RunInv => NobodyWaitsForDeadRun
  BY DEF RunInv
<1> QED
  BY <1>1, Always, PTL

(* Once the incident has left MITIGATING no request that was still at work
   writes a receipt, and no tick rewrites the action's status. *)
THEOREM FailureIsFinal == Spec => NoReceiptAfterFailure
<1> DEFINE Same == receipt' = receipt /\ action' = action
<1>1. ASSUME TypeInv, RunInv, [Next]_vars PROVE incident # "MITIGATING" => Same
  <2> SUFFICES ASSUME incident # "MITIGATING" PROVE Same
    OBVIOUS
  <2>1. rowLock = Nobody
    BY <1>1 DEF RunInv, HolderWorksOnOpenRun, OpenRunIsHome, Home, Kinds, Open
  <2>2. ASSUME NEW r \in Requests, Handle(r) \/ SessionEnds(r) PROVE Same
    <3>1. ~Commit(r)
      BY <2>1, RunsAssumption DEF Commit
    <3> QED
      BY <2>2, <3>1 DEF Handle, Enter, ClaimMutation, Mutate, Reconcile, Abort, Proceed,
         SessionEnds, outcomes
  <2>3. ASSUME NEW c \in Calls, Verify(c) PROVE Same
    BY <2>3 DEF Verify, ReserveVerification, CompleteVerification, CallEnds, runsVars, outcomes
  <2>4. ASSUME NEW p \in Ticks, Tick(p) PROVE Same
    <3>1. CASE BindingRefused(p) \/ FailCreated(p) \/ ExpireCreated(p) \/ FailRun(p)
      <4>1. receipt' = receipt
        BY <3>1 DEF BindingRefused, FailCreated, ExpireCreated, FailRun
      <4> QED
        BY <1>1, <3>1, <4>1, FailureKeepsRuns
    <3>2. CASE ~(BindingRefused(p) \/ FailCreated(p) \/ ExpireCreated(p) \/ FailRun(p))
      BY <2>4, <3>2 DEF Tick, Start, Decide, Queue, AdoptCreated, FindExpired, ReadOutcome,
         AcquireLease, Reserve, NothingToDo, Invoke, RecordDispatch, CompleteRun, TickEnds, outcomes
    <3> QED
      BY <3>1, <3>2
  <2>5. CASE EffectLands \/ (\E k \in Kinds : DeadlinePasses(k)) \/ LeaseExpires \/ UNCHANGED vars
    BY <2>5 DEF EffectLands, DeadlinePasses, LeaseExpires, vars, runsVars, outcomes
  <2> QED
    BY <1>1, <2>2, <2>3, <2>4, <2>5 DEF Next, RunsNext
<1> QED
  BY <1>1, Always, PTL DEF Spec, NoReceiptAfterFailure

-----------------------------------------------------------------------------
(* The refinement of MitigationPromise. *)

(* A verification call that is still at work judges an action that succeeded, of
   an incident that has left MITIGATING. *)
ObservedSucceeded ==
  observing # {} => receipt = "SUCCEEDED" /\ incident \in {"VERIFYING_MITIGATION", "MITIGATED",
                                                           "AWAITING_APPROVAL", "ESCALATED"}

(* The verifier's calls write the verdict and nothing else writes it; the other
   steps keep the calls at work. *)
LEMMA JudgementStep ==
  ASSUME NEW c \in Calls, Verify(c), ObservedSucceeded, OutcomeInv
  PROVE  [Promise!Next]_(Promise!vars)
<1> USE DEF Promise!vars
<1>1. CASE ReserveVerification(c) \/ CallEnds(c)
  BY <1>1 DEF ReserveVerification, CallEnds, runsVars, outcomes
<1>2. CASE CompleteVerification(c)
  <2>1. verdict = "none" /\ verdict' \in Verdicts /\ UNCHANGED <<incident, action, receipt>>
    BY <1>2 DEF CompleteVerification
  <2>2. receipt = "SUCCEEDED" /\ incident \in {"VERIFYING_MITIGATION", "ESCALATED"}
    BY <1>2, <2>1 DEF CompleteVerification, ObservedSucceeded, OutcomeInv, ProgressHasReceipt
  <2>3. Promise!Judge(verdict')
    BY <2>1, <2>2 DEF Promise!Judge
  <2> QED
    BY <2>1, <2>3 DEF Promise!Next, Verdicts
<1> QED
  BY <1>1, <1>2 DEF Verify

LEMMA RequestStep ==
  ASSUME TypeInv, RunInv, NEW r \in Requests, Handle(r)
  PROVE  [Promise!Next]_(Promise!vars) /\ incident' = incident
<1> USE DEF Promise!vars
<1>1. CASE Enter(r) \/ ClaimMutation(r) \/ Mutate(r) \/ Reconcile(r) \/ Abort(r)
  BY <1>1 DEF Enter, ClaimMutation, Mutate, Reconcile, Abort, Proceed, outcomes
<1>2. CASE Commit(r)
  <2>1. action = "AUTHORIZED" /\ incident = "MITIGATING"
    BY <1>2, RunsAssumption
       DEF Commit, RunInv, HolderWorksOnOpenRun, OpenRunIsHome, Home, Kinds, Open
  <2>2. result[r] \in Results
    BY <1>2 DEF Commit, TypeInv, Concluded
  <2>3. Promise!Execute(result[r])
    BY <1>2, <2>1 DEF Commit, Promise!Execute
  <2>4. incident' = incident
    BY <1>2 DEF Commit
  <2> QED
    BY <2>2, <2>3, <2>4 DEF Promise!Next, Results
<1> QED
  BY <1>1, <1>2 DEF Handle

(* A tick moves the incident to where the outcome it has read leads, which is
   the outcome that is there, or escalates it. *)
LEMMA TickStep ==
  ASSUME TypeInv, RunInv, OutcomeInv, NEW p \in Ticks, Tick(p)
  PROVE  /\ [Promise!Next]_(Promise!vars)
         /\ incident' = incident \/ incident' \in {"VERIFYING_MITIGATION", "MITIGATED",
                                 "MITIGATION_PROPOSED", "AWAITING_APPROVAL", "ESCALATED"}
<1> DEFINE Kept == /\ [Promise!Next]_(Promise!vars)
                   /\ incident' = incident \/ incident' \in {"VERIFYING_MITIGATION", "MITIGATED",
                                 "MITIGATION_PROPOSED", "AWAITING_APPROVAL", "ESCALATED"}
<1>0. kind[p] \in Kinds /\ Home(kind[p]) \in {"MITIGATING", "VERIFYING_MITIGATION"}
  BY DEF TypeInv, TypeOK, RunsTypeOK, Home
<1>1. ASSUME BindingRefused(p) \/ FailCreated(p) \/ ExpireCreated(p) \/ FailRun(p) PROVE Kept
  <2>1. EndRun(p, "FAILED", "ESCALATED") /\ UNCHANGED <<receipt, verdict>>
    BY <1>1 DEF BindingRefused, FailCreated, ExpireCreated, FailRun
  <2>2. incident = Home(kind[p]) /\ incident' = "ESCALATED"
    BY <2>1 DEF EndRun, MayMove
  <2>3. action = "AUTHORIZED" => kind[p] = "execution"
    BY <1>0, <2>2 DEF OutcomeInv, NoAuthorityLeftBehind, Home, Kinds
  <2>4. IF action = "AUTHORIZED" THEN action' \in {"INVALIDATED", "AMBIGUOUS"}
                                 ELSE UNCHANGED action
    BY <1>1, <2>3 DEF BindingRefused, FailCreated, ExpireCreated, FailRun, Fenced
  <2>5. Promise!Escalate
    BY <1>0, <2>1, <2>2, <2>4 DEF Promise!Escalate
  <2> QED
    BY <2>2, <2>5 DEF Promise!Next
<1>2. ASSUME CompleteRun(p) PROVE Kept
  <2>1. PICK state \in NextStates(kind[p], seen[p]) : EndRun(p, "SUCCEEDED", state)
    BY <1>2 DEF CompleteRun
  <2>2. /\ incident = Home(kind[p]) /\ incident' = state
        /\ UNCHANGED <<action, receipt, verdict>>
    BY <1>2, <2>1 DEF CompleteRun, EndRun, MayMove, outcomes
  <2>3. /\ seen[p] = Outcome(kind[p])
        /\ seen[p] \in (IF kind[p] = "execution" THEN Results ELSE Verdicts)
    BY <1>2 DEF CompleteRun, OutcomeInv, SeenIsTrue, TypeInv, SeenOfKind
  <2>4. action # "AUTHORIZED"
    <3>1. CASE kind[p] = "execution"
      BY <2>3, <3>1 DEF Outcome, Results, RunInv, OutcomeNeedsSettlement
    <3>2. CASE kind[p] # "execution"
      BY <2>2, <3>2 DEF Home, OutcomeInv, NoAuthorityLeftBehind
    <3> QED
      BY <3>1, <3>2
  <2>5. state = "ESCALATED" => Promise!Escalate
    BY <1>0, <2>2, <2>4 DEF Promise!Escalate
  <2>6. ASSUME kind[p] = "execution", state # "ESCALATED"
        PROVE  Promise!Advance /\ state \in {"VERIFYING_MITIGATION", "MITIGATION_PROPOSED"}
    <3>1. \/ receipt = "SUCCEEDED" /\ state = "VERIFYING_MITIGATION"
          \/ receipt = "FAILED" /\ state = "MITIGATION_PROPOSED"
      BY <2>1, <2>3, <2>6 DEF NextStates, Results, Outcome
    <3> QED
      BY <2>2, <2>6, <3>1 DEF Home, Promise!Advance, Promise!Move
  <2>7. ASSUME kind[p] = "verification", state # "ESCALATED"
        PROVE  Promise!Advance /\ state \in {"MITIGATED", "AWAITING_APPROVAL"}
    <3>1. \/ verdict = "VERIFIED" /\ state = "MITIGATED"
          \/ verdict = "FAILED" /\ state = "AWAITING_APPROVAL"
      BY <2>1, <2>3, <2>7 DEF NextStates, Verdicts, Outcome
    <3> QED
      BY <2>2, <2>7, <3>1 DEF Home, Promise!Advance, Promise!Move
  <2> QED
    BY <1>0, <2>2, <2>5, <2>6, <2>7 DEF Promise!Next, Kinds
<1>3. \/ BindingRefused(p) \/ FailCreated(p) \/ ExpireCreated(p) \/ FailRun(p) \/ CompleteRun(p)
      \/ UNCHANGED <<incident, action, receipt, verdict>>
  BY DEF Tick, Start, Decide, Queue, AdoptCreated, FindExpired, ReadOutcome, AcquireLease,
     Reserve, NothingToDo, Invoke, RecordDispatch, TickEnds, outcomes
<1> QED
  BY <1>1, <1>2, <1>3 DEF Promise!vars

(* Every step of the route keeps the promise or does not show in it. *)
LEMMA PromiseStep ==
  TypeInv /\ RunInv /\ OutcomeInv /\ ObservedSucceeded /\ [Next]_vars
    => [Promise!Next]_(Promise!vars)
<1> SUFFICES ASSUME TypeInv, RunInv, OutcomeInv, ObservedSucceeded, [Next]_vars
             PROVE  [Promise!Next]_(Promise!vars)
  OBVIOUS
<1>1. (\E r \in Requests : SessionEnds(r)) \/ EffectLands \/ (\E k \in Kinds : DeadlinePasses(k))
        \/ LeaseExpires \/ UNCHANGED vars => UNCHANGED Promise!vars
  BY DEF SessionEnds, EffectLands, DeadlinePasses, LeaseExpires, vars, runsVars, outcomes,
     Promise!vars
<1> QED
  BY <1>1, JudgementStep, RequestStep, TickStep DEF Next, RunsNext

LEMMA ObservedStep ==
  TypeInv /\ RunInv /\ OutcomeInv /\ ObservedSucceeded /\ [Next]_vars => ObservedSucceeded'
<1> SUFFICES ASSUME TypeInv, RunInv, OutcomeInv, ObservedSucceeded, [Next]_vars
             PROVE  ObservedSucceeded'
  OBVIOUS
<1>1. ASSUME NEW c \in Calls, Verify(c) PROVE ObservedSucceeded'
  BY <1>1 DEF ObservedSucceeded, Verify, ReserveVerification, CompleteVerification, CallEnds,
     runsVars, outcomes
<1>2. ASSUME NEW r \in Requests, Handle(r) PROVE ObservedSucceeded'
  <2>1. incident' = incident
    BY <1>2, RequestStep
  <2>2. observing' = observing
    BY <1>2 DEF Handle, Enter, ClaimMutation, Mutate, Reconcile, Commit, Abort, Proceed
  <2>3. incident # "MITIGATING" => receipt' = receipt
    BY <1>2, RunsAssumption DEF Handle, Enter, ClaimMutation, Mutate, Reconcile, Commit, Abort,
       Proceed, outcomes, RunInv, HolderWorksOnOpenRun, OpenRunIsHome, Home, Kinds, Open
  <2> QED
    BY <2>1, <2>2, <2>3 DEF ObservedSucceeded
<1>3. ASSUME NEW p \in Ticks, Tick(p), toolsUnchanged PROVE ObservedSucceeded'
  <2>1. observing' = observing
    BY <1>3 DEF toolsUnchanged
  <2>2. receipt' = receipt
    BY <1>3 DEF Tick, Start, Decide, Queue, AdoptCreated, FindExpired, ReadOutcome, AcquireLease,
       Reserve, NothingToDo, BindingRefused, Invoke, RecordDispatch, FailCreated, ExpireCreated,
       CompleteRun, FailRun, TickEnds, outcomes
  <2>3. receipt = "SUCCEEDED" => incident' # "MITIGATION_PROPOSED" \/ incident = "MITIGATION_PROPOSED"
    <3>1. OutcomeInv'
      BY OutcomeStep
    <3> QED
      BY <2>2, <3>1 DEF OutcomeInv, ProgressHasReceipt
  <2> QED
    BY <1>3, <2>1, <2>2, <2>3, TickStep DEF ObservedSucceeded
<1>4. ASSUME \/ \E r \in Requests : SessionEnds(r)
             \/ EffectLands
             \/ (\E k \in Kinds : DeadlinePasses(k)) /\ toolsUnchanged
             \/ LeaseExpires /\ toolsUnchanged
             \/ UNCHANGED vars
      PROVE  ObservedSucceeded'
  BY <1>4 DEF ObservedSucceeded, SessionEnds, EffectLands, DeadlinePasses, LeaseExpires, vars,
     runsVars, outcomes, toolsUnchanged
<1> QED
  BY <1>1, <1>2, <1>3, <1>4 DEF Next, RunsNext

(* Ticks over two runs with their leases, requests over one row lock and calls of
   the verifier: for any number of each the incident sees one execution, one
   verdict, and a move on nothing else. *)
THEOREM KeepsMitigationPromise == Spec => ImplementsMitigation
<1>1. Init => Promise!Init /\ ObservedSucceeded
  BY DEF Init, RunsInit, Promise!Init, ObservedSucceeded
<1> QED
  BY <1>1, PromiseStep, ObservedStep, Always, PTL DEF Spec, ImplementsMitigation, Promise!Spec

=============================================================================
