--------------------------- MODULE IncidentIntake ---------------------------
(***************************************************************************)
(* From a detection to an investigated incident.  Deduplicated ingestion   *)
(* of events, coordinator ticks that claim inbox rows under a token and    *)
(* handle them one by one, the incident they open, and the state-entry     *)
(* commands that each transition sends back through the outbox.            *)
(*                                                                         *)
(* One incident (one deduplication key) is followed.  The outbox publisher *)
(* is taken at what OutboxPublisher shows of it: a written event is        *)
(* delivered, perhaps more than once.  A tick's batch holds every row it   *)
(* can claim: no instance has more rows than the batch size of twenty.     *)
(***************************************************************************)
EXTENDS Naturals, FiniteSets

CONSTANTS
  Detections,  \* MonitoringThresholdBreached events
  Firings,     \* TRIGGER_FIRING_DUE events
  Ticks,       \* coordinator ticks that may run at the same time
  Budget,      \* INBOX_CLAIM_ATTEMPT_BUDGET
  Nobody,      \* no live token
  Gone,        \* the live token of a tick that no longer runs
  Poller       \* another coordinator holding the incident lease

(* A state-entry command is the outbox row of the transition into a state. *)
Commands == {"DETECTED", "TRIAGING", "INVESTIGATING"}
Events == Detections \cup Firings \cup Commands

ASSUME IntakeAssumption ==
  /\ Detections \cap Firings = {}
  /\ (Detections \cup Firings) \cap Commands = {}
  /\ Budget \in Nat \ {0}
  /\ Ticks \cap {Nobody, Gone, Poller} = {}
  /\ Nobody # Gone /\ Nobody # Poller

VARIABLES
  incident, \* incidents.state, or absent
  opened,   \* how many incident rows were inserted
  lease,    \* who holds the incident's live lease token
  outbox,   \* the event type of each command written so far
  row,      \* inbox_events.processing_state, or absent
  attempts, \* inbox_events.attempts
  claim,    \* the tick whose live token the inbox row carries
  applied,  \* how often the event's effect was committed
  batch,    \* the claims a tick has not handled yet
  step,     \* where a tick stands
  item,     \* the event a tick is handling
  held      \* firings done in the tick's open, uncommitted transaction

aggregate == <<incident, opened, lease, outbox>>
inbox == <<row, attempts, claim, applied>>
ticks == <<batch, step, item, held>>
vars  == <<aggregate, inbox, ticks>>

-----------------------------------------------------------------------------
(* An event type is a name, to which a transition key appends the event that
   caused it; the outbox row of a transition carries its transition key. *)
Plain(name) == [name |-> name, cause |-> "none"]
TransitionKey(name, cause) == [name |-> name, cause |-> cause]

EntryTransitions ==
  [IncidentDetected |-> [from |-> "DETECTED", to |-> "TRIAGING",
                         event |-> "TRIAGE_STARTED"],
   TRIAGE_STARTED   |-> [from |-> "TRIAGING", to |-> "INVESTIGATING",
                         event |-> "INVESTIGATION_STARTED"]]

NotWritten == Plain("none")
EventTypes == {NotWritten, Plain("IncidentDetected")} \cup
  {TransitionKey(EntryTransitions[n].event, c) : n \in DOMAIN EntryTransitions, c \in Commands}

TypeOK ==
  /\ incident \in {"absent"} \cup Commands
  /\ opened \in Nat
  /\ lease \in Ticks \cup {Nobody, Poller}
  /\ outbox \in [Commands -> EventTypes]
  /\ row \in [Events -> {"absent", "PENDING", "PROCESSING", "COMPLETED", "FAILED"}]
  /\ attempts \in [Events -> 0..Budget]
  /\ claim \in [Events -> Ticks \cup {Nobody, Gone}]
  /\ applied \in [Events -> Nat]
  /\ batch \in [Ticks -> SUBSET Events]
  /\ step \in [Ticks -> {"idle", "load", "apply", "transition"}]
  /\ item \in [Ticks -> Events \cup {Nobody}]
  /\ held \in [Ticks -> SUBSET Firings]

Init ==
  /\ incident = "absent" /\ opened = 0 /\ lease = Nobody
  /\ outbox = [c \in Commands |-> NotWritten]
  /\ row = [e \in Events |-> "absent"]
  /\ attempts = [e \in Events |-> 0]
  /\ claim = [e \in Events |-> Nobody]
  /\ applied = [e \in Events |-> 0]
  /\ batch = [t \in Ticks |-> {}]
  /\ step = [t \in Ticks |-> "idle"]
  /\ item = [t \in Ticks |-> Nobody]
  /\ held = [t \in Ticks |-> {}]

-----------------------------------------------------------------------------
(* Deviation: a duplicate delivery makes a settled row pending again. *)
AcceptAgain(e) ==
  /\ row[e] # "PROCESSING"
  /\ row' = [row EXCEPT ![e] = "PENDING"]

(* ingest_event: INSERT ... ON CONFLICT (source, source_event_id) DO NOTHING.
   A duplicate delivery finds its row and changes nothing. *)
Accept(e) ==
  /\ row[e] = "absent"
  /\ row' = [row EXCEPT ![e] = "PENDING"]

(* A detector, a firing or the broker delivers an event, once or again. *)
Deliver(e) ==
  /\ e \in Commands => outbox[e] # NotWritten
  /\ Accept(e)
  /\ UNCHANGED <<aggregate, attempts, claim, applied, ticks>>

(* A row changed in a tick's open transaction is locked: SKIP LOCKED passes it
   by, the quarantine and another incident insert wait for it. *)
Locked(e) == \E t \in Ticks : e \in held[t]

(* Deviation: rows whose claim expired are not reclaimed. *)
PendingOnly(e) == row[e] = "PENDING" /\ claim[e] = Nobody

(* Pending, or processed under a claim that expired. *)
Claimable(e) == row[e] \in {"PENDING", "PROCESSING"} /\ claim[e] = Nobody
Exhausted == {e \in Events : Claimable(e) /\ attempts[e] >= Budget}
(* Deviation: exhausted rows are claimed again. *)
ReadyForEver == {e \in Events : Claimable(e) /\ ~Locked(e)}

Ready == {e \in Events : Claimable(e) /\ attempts[e] < Budget /\ ~Locked(e)}

(* claim_inbox: quarantine, then claim, in one transaction. *)
ClaimBatch(t) ==
  /\ step[t] = "idle"
  /\ Exhausted \cup Ready # {}
  /\ \A e \in Exhausted : ~Locked(e)
  /\ row' = [e \in Events |-> CASE e \in Exhausted -> "FAILED"
                                [] e \in Ready -> "PROCESSING"
                                [] OTHER -> row[e]]
  /\ claim' = [e \in Events |-> IF e \in Ready THEN t ELSE claim[e]]
  /\ attempts' = [e \in Events |-> IF e \in Ready THEN attempts[e] + 1 ELSE attempts[e]]
  /\ batch' = [batch EXCEPT ![t] = Ready]
  /\ step' = [step EXCEPT ![t] = IF Ready = {} THEN "idle" ELSE "load"]
  /\ UNCHANGED <<aggregate, applied, item, held>>

(* Commit the effects and completions of a set of events. *)
Settle(S) ==
  /\ row' = [e \in Events |-> IF e \in S THEN "COMPLETED" ELSE row[e]]
  /\ claim' = [e \in Events |-> IF e \in S THEN Nobody ELSE claim[e]]
  /\ applied' = [e \in Events |-> IF e \in S THEN applied[e] + 1 ELSE applied[e]]

(* Deviations: no unique deduplication key, or no wake-up for the incident. *)
OpenAlways ==
  /\ incident' = "DETECTED" /\ opened' = opened + 1
  /\ outbox' = [outbox EXCEPT !["DETECTED"] = Plain("IncidentDetected")]
OpenSilently ==
  IF incident = "absent"
  THEN incident' = "DETECTED" /\ opened' = opened + 1 /\ UNCHANGED outbox
  ELSE UNCHANGED <<incident, opened, outbox>>

(* open_or_attach_incident: one active incident per deduplication key. *)
OpenOrAttach ==
  IF incident = "absent"
  THEN /\ incident' = "DETECTED" /\ opened' = opened + 1
       /\ outbox' = [outbox EXCEPT !["DETECTED"] = Plain("IncidentDetected")]
  ELSE UNCHANGED <<incident, opened, outbox>>

(* What an earlier firing left in the tick's open transaction is committed. *)
CommitHeld(t) ==
  /\ Settle(held[t])
  /\ held' = [held EXCEPT ![t] = {}]
  /\ IF held[t] # {} THEN OpenOrAttach ELSE UNCHANGED <<incident, opened, outbox>>

-----------------------------------------------------------------------------
NextClaim(t) ==
  /\ batch' = [batch EXCEPT ![t] = @ \ {item[t]}]
  /\ step' = [step EXCEPT ![t] = "load"]
  /\ item' = [item EXCEPT ![t] = Nobody]

(* inbox.load under the live token, then connection.commit(). *)
Load(t) ==
  /\ step[t] = "load"
  /\ \E e \in batch[t] : claim[e] = t /\ item' = [item EXCEPT ![t] = e]
  /\ CommitHeld(t)
  /\ step' = [step EXCEPT ![t] = "apply"]
  /\ UNCHANGED <<lease, attempts, batch>>

(* The claim went stale before its turn; the handler rolls back, and with it
   any firing still uncommitted, and goes on with the next claim. *)
LoadStale(t) ==
  /\ step[t] = "load"
  /\ \E e \in batch[t] : claim[e] # t /\ batch' = [batch EXCEPT ![t] = @ \ {e}]
  /\ held' = [held EXCEPT ![t] = {}]
  /\ UNCHANGED <<aggregate, inbox, step, item>>

(* process_detection: open or attach and complete, atomically, while the claim
   lives; the insert waits for another tick's uncommitted one. *)
Detect(t) ==
  /\ step[t] = "apply"
  /\ item[t] \in Detections
  /\ claim[item[t]] = t
  /\ \A u \in Ticks : held[u] = {}
  /\ OpenOrAttach
  /\ Settle({item[t]})
  /\ NextClaim(t)
  /\ UNCHANGED <<lease, attempts, held>>

(* process_trigger after a SELECT outside any transaction: its transaction is
   a savepoint in the one that SELECT began, which stays open. *)
Fire(t) ==
  /\ step[t] = "apply"
  /\ item[t] \in Firings
  /\ claim[item[t]] = t
  /\ \A u \in Ticks : held[u] = {}
  /\ held' = [held EXCEPT ![t] = {item[t]}]
  /\ NextClaim(t)
  /\ UNCHANGED <<aggregate, inbox>>

(* Deviation: only the commands of transitions are taken for commands. *)
IsTransitionEntry(e) == outbox[e].name \in DOMAIN EntryTransitions /\ outbox[e].cause # "none"

(* The handler dispatches on the exact event type. *)
IsEntry(e) == \E n \in DOMAIN EntryTransitions : outbox[e] = Plain(n)

(* Any other outbox event: acknowledged, nothing done. *)
Acknowledge(t) ==
  /\ step[t] = "apply"
  /\ item[t] \in Commands /\ ~IsEntry(item[t])
  /\ claim[item[t]] = t
  /\ Settle({item[t]})
  /\ NextClaim(t)
  /\ UNCHANGED <<aggregate, attempts, held>>

(* _process_entry_transition takes the incident lease in a transaction... *)
AcquireLease(t) ==
  /\ step[t] = "apply"
  /\ item[t] \in Commands /\ IsEntry(item[t])
  /\ lease = Nobody
  /\ lease' = t
  /\ step' = [step EXCEPT ![t] = "transition"]
  /\ UNCHANGED <<incident, opened, outbox, inbox, batch, item, held>>

(* Deviation: the row is left to be completed by another transaction. *)
TransitionAlone(t) ==
  LET e == item[t]
      entry == EntryTransitions[outbox[e].name]
  IN /\ step[t] = "transition"
     /\ lease = t /\ claim[e] = t
     /\ incident \in {entry.from, entry.to}
     /\ incident' = entry.to
     /\ outbox' = IF incident = entry.from
                  THEN [outbox EXCEPT ![entry.to] = TransitionKey(entry.event, e)]
                  ELSE outbox
     /\ lease' = Nobody
     /\ NextClaim(t)
     /\ UNCHANGED <<inbox, opened, held>>

(* ... and in a second one, under both live tokens, moves the incident, writes
   the next command, completes the row and returns the lease. *)
Transition(t) ==
  LET e == item[t]
      entry == EntryTransitions[outbox[e].name]
  IN /\ step[t] = "transition"
     /\ lease = t /\ claim[e] = t
     /\ incident \in {entry.from, entry.to}
     /\ incident' = entry.to
     /\ outbox' = IF incident = entry.from
                  THEN [outbox EXCEPT ![entry.to] = TransitionKey(entry.event, e)]
                  ELSE outbox
     /\ Settle({e})
     /\ lease' = Nobody
     /\ NextClaim(t)
     /\ UNCHANGED <<opened, attempts, held>>

(* InboxLeaseContention: the live claim is handed back and its attempt
   refunded; a claim that was lost meanwhile stays as it is. *)
Contend(t) ==
  LET e == item[t] IN
  /\ step[t] = "apply"
  /\ e \in Commands /\ IsEntry(e)
  /\ lease # Nobody
  /\ IF claim[e] = t
     THEN /\ row' = [row EXCEPT ![e] = "PENDING"]
          /\ attempts' = [attempts EXCEPT ![e] = @ - 1]
          /\ claim' = [claim EXCEPT ![e] = Nobody]
     ELSE UNCHANGED <<row, attempts, claim>>
  /\ NextClaim(t)
  /\ UNCHANGED <<aggregate, applied, held>>

(* Any other exception while one event is handled: rolled back, the attempt
   stays spent, claim and lease are left to expire. *)
Raise(t) ==
  /\ step[t] \in {"apply", "transition"}
  /\ NextClaim(t)
  /\ UNCHANGED <<aggregate, inbox, held>>

(* The sweeps after the last claim run in whatever transaction a firing left
   open; the tick's connection commits as it closes... *)
EndTick(t) ==
  /\ step[t] = "load" /\ batch[t] = {}
  /\ CommitHeld(t)
  /\ step' = [step EXCEPT ![t] = "idle"]
  /\ UNCHANGED <<lease, attempts, batch, item>>

(* ... unless a sweep raises or the process dies: what it held is lost. *)
Crash(t) ==
  /\ step[t] # "idle"
  /\ claim' = [e \in Events |-> IF claim[e] = t THEN Gone ELSE claim[e]]
  /\ lease' = IF lease = t THEN Poller ELSE lease
  /\ batch' = [batch EXCEPT ![t] = {}]
  /\ step' = [step EXCEPT ![t] = "idle"]
  /\ item' = [item EXCEPT ![t] = Nobody]
  /\ held' = [held EXCEPT ![t] = {}]
  /\ UNCHANGED <<incident, opened, outbox, row, attempts, applied>>

(* A claim's or the lease's time to live ends. *)
ExpireClaim(e) ==
  /\ claim[e] # Nobody
  /\ claim' = [claim EXCEPT ![e] = Nobody]
  /\ UNCHANGED <<aggregate, row, attempts, applied, ticks>>

LeaseEnds ==
  /\ lease # Nobody
  /\ lease' = Nobody
  /\ UNCHANGED <<incident, opened, outbox, inbox, ticks>>

(* Another coordinator works on the incident for a while. *)
PollerLeases ==
  /\ incident # "absent" /\ lease = Nobody
  /\ lease' = Poller
  /\ UNCHANGED <<incident, opened, outbox, inbox, ticks>>

Handle(t) ==
  \/ Load(t) \/ LoadStale(t) \/ Detect(t) \/ Fire(t) \/ Acknowledge(t)
  \/ AcquireLease(t) \/ Transition(t) \/ Contend(t) \/ EndTick(t)

Next ==
  \/ \E e \in Events : Deliver(e) \/ ExpireClaim(e)
  \/ \E t \in Ticks : ClaimBatch(t) \/ Handle(t) \/ Raise(t) \/ Crash(t)
  \/ LeaseEnds \/ PollerLeases

(* Ticks keep being scheduled and take their next step or raise, what is in
   the outbox is delivered, and times to live end. *)
Fairness ==
  /\ WF_vars(\E t \in Ticks : ClaimBatch(t))
  /\ \A t \in Ticks : WF_vars(Handle(t) \/ Raise(t))
  /\ \A e \in Events : WF_vars(ExpireClaim(e)) /\ WF_vars(e \in Commands /\ Deliver(e))
  /\ WF_vars(LeaseEnds)

Spec == Init /\ [][Next]_vars /\ Fairness

-----------------------------------------------------------------------------
(* The ledger tells the truth: across redelivery, expired and taken-over
   claims and uncommitted firings, an event is recorded as completed exactly
   when its effect was committed, and that happened once. *)
LedgerMatchesEffects ==
  \A e \in Events : applied[e] = IF row[e] = "COMPLETED" THEN 1 ELSE 0

(* Duplicate alerts, detected or triggered, by concurrent ticks: one incident. *)
OneIncident == opened <= 1

(* No transition without its wake-up: the command of every state the incident
   entered is in the outbox, and no command of one it did not enter. *)
CommandsMatchIncident ==
  LET reached == CASE incident = "absent" -> {}
                   [] incident = "DETECTED" -> {"DETECTED"}
                   [] incident = "TRIAGING" -> {"DETECTED", "TRIAGING"}
                   [] incident = "INVESTIGATING" -> Commands
  IN \A c \in Commands : outbox[c] # NotWritten <=> c \in reached

(* What became of an event, whoever holds it. *)
Standing(e) ==
  CASE row[e] = "absent"                   -> "none"
    [] row[e] \in {"PENDING", "PROCESSING"} -> "waiting"
    [] row[e] = "COMPLETED"                -> "done"
    [] row[e] = "FAILED"                   -> "parked"

(* Redelivered events, claims that lapse or are handed back, firings in an open
   transaction and ticks that die: seen from the incident, each alert and each
   command takes effect in one step, together with its completion. *)
Promise == INSTANCE IntakePromise WITH
             Alerts <- Detections \cup Firings,
             alert <- [a \in Detections \cup Firings |-> Standing(a)],
             command <- [c \in Commands |-> Standing(c)]

ImplementsIntake == Promise!Spec

(* An accepted detection or firing does not wait for ever: with ticks dying,
   claims lapsing and handlers failing it is completed, or, failing every time
   like a payload that cannot be read, quarantined. *)
AlertsSettle ==
  \A e \in Detections \cup Firings : row[e] = "PENDING" ~> row[e] \in {"COMPLETED", "FAILED"}

(* A detected incident is triaged, unless its command is parked or the lease
   keeps being held by others: contention alone parks nothing. *)
DetectedIsTriaged ==
  \/ incident = "DETECTED" ~> (incident = "TRIAGING" \/ row["DETECTED"] = "FAILED")
  \/ []<>(lease = Poller)

(* A state-entry command recorded as completed has moved the incident on. *)
CommandsAdvance ==
  /\ row["DETECTED"] = "COMPLETED" => incident \in {"TRIAGING", "INVESTIGATING"}
  /\ row["TRIAGING"] = "COMPLETED" => incident = "INVESTIGATING"
=============================================================================
