------------------------ MODULE IncidentIntakeProofs ------------------------
(***************************************************************************)
(* Safety of the intake for any number of detections, firings, ticks and   *)
(* attempts.  The ledger is inductive once it is known that a live claim   *)
(* is on a row in processing, that the rows of an open transaction are     *)
(* still in processing, and that only one tick has such rows.              *)
(***************************************************************************)
EXTENDS IncidentIntake, TLAPS

(* A live token is on a row in processing, whose attempt was counted. *)
ClaimedIsProcessing ==
  \A e \in Events : claim[e] # Nobody => row[e] = "PROCESSING" /\ attempts[e] > 0

(* What a tick did without committing is still open for everybody else. *)
HeldIsProcessing ==
  \A t \in Ticks : \A e \in held[t] : row[e] = "PROCESSING"

(* Two ticks never both have uncommitted firings. *)
HeldByOne == \A t, u \in Ticks : held[t] # {} /\ held[u] # {} => t = u

(* A tick in its second transaction handles a state-entry command. *)
TransitionsEntry ==
  \A t \in Ticks : step[t] = "transition" => item[t] \in Commands /\ IsEntry(item[t])

(* Only the command of an opened incident is written under a type that the
   handler knows: that of a transition carries its cause as well. *)
OnlyOpeningIsEntry == \A c \in Commands : IsEntry(c) => outbox[c] = Plain("IncidentDetected") /\ c = "DETECTED"

TypeInv == TypeOK /\ ClaimedIsProcessing /\ TransitionsEntry /\ OnlyOpeningIsEntry

LedgerInv == HeldIsProcessing /\ HeldByOne /\ LedgerMatchesEffects

OpenedInv == opened = IF incident = "absent" THEN 0 ELSE 1

-----------------------------------------------------------------------------
LEMMA TypeInit == Init => TypeInv
<1> SUFFICES ASSUME Init PROVE TypeInv
  OBVIOUS
<1>1. TypeOK
  BY IntakeAssumption DEF Init, TypeOK, EventTypes
<1>2. ClaimedIsProcessing /\ TransitionsEntry
  BY DEF Init, ClaimedIsProcessing, TransitionsEntry
<1>3. \A c \in Commands : ~IsEntry(c)
  BY DEF Init, IsEntry, NotWritten, Plain, EntryTransitions
<1> QED
  BY <1>1, <1>2, <1>3 DEF TypeInv, OnlyOpeningIsEntry

(* Opening or attaching keeps the incident and its commands typed, and a
   state-entry command stays one. *)
LEMMA OpenKeepsTypes ==
  ASSUME TypeOK, OnlyOpeningIsEntry, OpenOrAttach
  PROVE  /\ OnlyOpeningIsEntry'
         /\ incident' \in {"absent"} \cup Commands
         /\ opened' \in Nat
         /\ outbox' \in [Commands -> EventTypes]
         /\ \A c \in Commands : IsEntry(c) => IsEntry(c)'
<1>1. CASE incident = "absent"
  <2>1. outbox' = [outbox EXCEPT !["DETECTED"] = Plain("IncidentDetected")]
    BY <1>1 DEF OpenOrAttach
  <2>2. Plain("IncidentDetected") \in EventTypes
    BY DEF EventTypes
  <2>3. \A c \in Commands : IsEntry(c) => IsEntry(c)'
    BY <2>1 DEF TypeOK, IsEntry, EntryTransitions
  <2>4. OnlyOpeningIsEntry'
    BY <2>1 DEF TypeOK, OnlyOpeningIsEntry, IsEntry
  <2> QED
    BY <1>1, <2>1, <2>2, <2>3, <2>4 DEF TypeOK, OpenOrAttach, Commands
<1>2. CASE incident # "absent"
  BY <1>2 DEF TypeOK, OpenOrAttach, OnlyOpeningIsEntry, IsEntry
<1> QED
  BY <1>1, <1>2

(* Completing rows keeps the inbox typed. *)
LEMMA SettleKeepsTypes ==
  ASSUME TypeOK, NEW S \in SUBSET Events, Settle(S)
  PROVE  /\ row' \in [Events -> {"absent", "PENDING", "PROCESSING", "COMPLETED", "FAILED"}]
         /\ claim' \in [Events -> Ticks \cup {Nobody, Gone}]
         /\ applied' \in [Events -> Nat]
  BY DEF TypeOK, Settle

(* Completing rows under a live claim, or releasing none, keeps claims on rows
   in processing. *)
LEMMA SettleKeepsClaims ==
  ASSUME ClaimedIsProcessing, NEW S \in SUBSET Events, Settle(S), UNCHANGED attempts
  PROVE  ClaimedIsProcessing'
  BY DEF ClaimedIsProcessing, Settle

(* Committing an open transaction keeps everything it touches typed. *)
LEMMA CommitKeepsTypes ==
  ASSUME TypeOK, OnlyOpeningIsEntry, NEW t \in Ticks, CommitHeld(t)
  PROVE  /\ OnlyOpeningIsEntry'
         /\ incident' \in {"absent"} \cup Commands
         /\ opened' \in Nat
         /\ outbox' \in [Commands -> EventTypes]
         /\ row' \in [Events -> {"absent", "PENDING", "PROCESSING", "COMPLETED", "FAILED"}]
         /\ claim' \in [Events -> Ticks \cup {Nobody, Gone}]
         /\ applied' \in [Events -> Nat]
         /\ held' \in [Ticks -> SUBSET Firings]
         /\ \A c \in Commands : IsEntry(c) => IsEntry(c)'
<1>1. held[t] \in SUBSET Events
  BY DEF TypeOK, Events
<1>2. Settle(held[t])
  BY DEF CommitHeld
<1>3. CASE held[t] # {}
  BY <1>1, <1>2, <1>3, OpenKeepsTypes, SettleKeepsTypes DEF CommitHeld, TypeOK
<1>4. CASE held[t] = {}
  BY <1>1, <1>2, <1>4, SettleKeepsTypes DEF CommitHeld, TypeOK, OnlyOpeningIsEntry, IsEntry
<1> QED
  BY <1>3, <1>4

(* The one transition that handling an entry command makes: the command of the
   next state never is an entry command, so no later one follows. *)
LEMMA TransitionMoves ==
  ASSUME TypeInv, NEW t \in Ticks, Transition(t)
  PROVE  /\ item[t] = "DETECTED"
         /\ incident \in {"DETECTED", "TRIAGING"}
         /\ incident' = "TRIAGING"
         /\ outbox' = IF incident = "DETECTED"
              THEN [outbox EXCEPT !["TRIAGING"] = TransitionKey("TRIAGE_STARTED", "DETECTED")]
              ELSE outbox
<1>1. item[t] = "DETECTED" /\ outbox["DETECTED"] = Plain("IncidentDetected")
  BY DEF TypeInv, TransitionsEntry, OnlyOpeningIsEntry, Transition
<1>2. /\ EntryTransitions[outbox[item[t]].name].from = "DETECTED"
      /\ EntryTransitions[outbox[item[t]].name].to = "TRIAGING"
      /\ EntryTransitions[outbox[item[t]].name].event = "TRIAGE_STARTED"
  BY <1>1 DEF Plain, EntryTransitions
<1> QED
  BY <1>1, <1>2 DEF Transition

LEMMA TypeStep == TypeInv /\ [Next]_vars => TypeInv'
<1> SUFFICES ASSUME TypeInv, [Next]_vars PROVE TypeInv'
  OBVIOUS
<1> USE IntakeAssumption DEF TypeInv, TypeOK, ClaimedIsProcessing, TransitionsEntry,
      OnlyOpeningIsEntry, NextClaim, aggregate, inbox, ticks
<1>1. ASSUME NEW e \in Events, Deliver(e) PROVE TypeInv'
  BY <1>1 DEF Deliver, Accept, IsEntry
<1>2. ASSUME NEW e \in Events, ExpireClaim(e) PROVE TypeInv'
  BY <1>2 DEF ExpireClaim, IsEntry
<1>3. ASSUME NEW t \in Ticks, ClaimBatch(t) PROVE TypeInv'
  BY <1>3 DEF ClaimBatch, Ready, Exhausted, Claimable, IsEntry
<1>4. ASSUME NEW t \in Ticks, Load(t) PROVE TypeInv'
  <2>1. CommitHeld(t) /\ Settle(held[t]) /\ held[t] \in SUBSET Events
    BY <1>4 DEF Load, CommitHeld, Events
  <2>2. ClaimedIsProcessing'
    BY <1>4, <2>1, SettleKeepsClaims DEF Load
  <2>3. /\ OnlyOpeningIsEntry'
        /\ incident' \in {"absent"} \cup Commands
        /\ opened' \in Nat
        /\ outbox' \in [Commands -> EventTypes]
        /\ row' \in [Events -> {"absent", "PENDING", "PROCESSING", "COMPLETED", "FAILED"}]
        /\ claim' \in [Events -> Ticks \cup {Nobody, Gone}]
        /\ applied' \in [Events -> Nat]
        /\ held' \in [Ticks -> SUBSET Firings]
        /\ \A c \in Commands : IsEntry(c) => IsEntry(c)'
    BY <2>1, CommitKeepsTypes
  <2>4. /\ item' \in [Ticks -> Events \cup {Nobody}]
        /\ step' = [step EXCEPT ![t] = "apply"]
        /\ \A u \in Ticks : u # t => item'[u] = item[u]
    BY <1>4 DEF Load
  <2>5. TransitionsEntry'
    BY <2>3, <2>4
  <2> QED
    BY <1>4, <2>2, <2>3, <2>4, <2>5 DEF Load
<1>5. ASSUME NEW t \in Ticks, LoadStale(t) PROVE TypeInv'
  BY <1>5 DEF LoadStale, IsEntry
<1>6. ASSUME NEW t \in Ticks, Detect(t) PROVE TypeInv'
  BY <1>6, OpenKeepsTypes DEF Detect, Settle
<1>7. ASSUME NEW t \in Ticks, Fire(t) PROVE TypeInv'
  BY <1>7 DEF Fire, IsEntry
<1>8. ASSUME NEW t \in Ticks, Acknowledge(t) PROVE TypeInv'
  BY <1>8 DEF Acknowledge, Settle, IsEntry
<1>9. ASSUME NEW t \in Ticks, AcquireLease(t) PROVE TypeInv'
  BY <1>9 DEF AcquireLease, IsEntry
<1>10. ASSUME NEW t \in Ticks, Transition(t) PROVE TypeInv'
  <2>1. /\ item[t] = "DETECTED" /\ outbox["DETECTED"] = Plain("IncidentDetected")
        /\ item[t] \in Events /\ "DETECTED" \in Commands /\ "TRIAGING" \in Commands
    BY <1>10 DEF Transition, Events, Commands
  <2>3. /\ incident' = "TRIAGING"
        /\ outbox' = IF incident = "DETECTED"
             THEN [outbox EXCEPT !["TRIAGING"] = TransitionKey("TRIAGE_STARTED", "DETECTED")]
             ELSE outbox
    BY <1>10, TransitionMoves
  <2>4. TransitionKey("TRIAGE_STARTED", "DETECTED") \in EventTypes
    BY <2>1 DEF EventTypes, EntryTransitions
  <2>5. ClaimedIsProcessing'
    BY <1>10, <2>1, SettleKeepsClaims DEF Transition
  <2>6. /\ row' \in [Events -> {"absent", "PENDING", "PROCESSING", "COMPLETED", "FAILED"}]
        /\ claim' \in [Events -> Ticks \cup {Nobody, Gone}]
        /\ applied' \in [Events -> Nat]
    BY <1>10, <2>1, SettleKeepsTypes DEF Transition
  <2>7. \A c \in Commands : IsEntry(c)' <=> IsEntry(c) /\ ~(c = "TRIAGING" /\ incident = "DETECTED")
    BY <2>1, <2>3 DEF IsEntry, Plain, TransitionKey, EntryTransitions
  <2>8. OnlyOpeningIsEntry' /\ outbox'["DETECTED"] = outbox["DETECTED"]
    BY <2>1, <2>3, <2>7
  <2>9. TransitionsEntry'
    <3>1. \A u \in Ticks : step'[u] = "transition" =>
             u # t /\ step[u] = "transition" /\ item'[u] = item[u]
      BY <1>10 DEF Transition
    <3> SUFFICES ASSUME NEW u \in Ticks, step'[u] = "transition"
                 PROVE  item'[u] \in Commands /\ IsEntry(item[u])' /\ item'[u] = item[u]
      BY <3>1 DEF IsEntry
    <3>2. item'[u] = item[u] /\ item[u] = "DETECTED"
      BY <3>1
    <3> QED
      BY <2>1, <2>8, <3>2 DEF IsEntry, EntryTransitions
  <2> QED
    BY <1>10, <2>1, <2>3, <2>4, <2>5, <2>6, <2>8, <2>9 DEF Transition
<1>11. ASSUME NEW t \in Ticks, Contend(t) PROVE TypeInv'
  BY <1>11 DEF Contend, IsEntry
<1>12. ASSUME NEW t \in Ticks, EndTick(t) PROVE TypeInv'
  <2>1. CommitHeld(t) /\ Settle(held[t]) /\ held[t] \in SUBSET Events
    BY <1>12 DEF EndTick, CommitHeld, Events
  <2>2. ClaimedIsProcessing'
    BY <1>12, <2>1, SettleKeepsClaims DEF EndTick
  <2>3. /\ OnlyOpeningIsEntry'
        /\ incident' \in {"absent"} \cup Commands
        /\ opened' \in Nat
        /\ outbox' \in [Commands -> EventTypes]
        /\ row' \in [Events -> {"absent", "PENDING", "PROCESSING", "COMPLETED", "FAILED"}]
        /\ claim' \in [Events -> Ticks \cup {Nobody, Gone}]
        /\ applied' \in [Events -> Nat]
        /\ held' \in [Ticks -> SUBSET Firings]
        /\ \A c \in Commands : IsEntry(c) => IsEntry(c)'
    BY <2>1, CommitKeepsTypes
  <2>4. TransitionsEntry'
    BY <1>12, <2>3 DEF EndTick
  <2> QED
    BY <1>12, <2>2, <2>3, <2>4 DEF EndTick
<1>13. ASSUME NEW t \in Ticks, Raise(t) PROVE TypeInv'
  BY <1>13 DEF Raise, IsEntry
<1>14. ASSUME NEW t \in Ticks, Crash(t) PROVE TypeInv'
  BY <1>14 DEF Crash, IsEntry
<1>15. CASE LeaseEnds
  BY <1>15 DEF LeaseEnds, IsEntry
<1>16. CASE PollerLeases
  BY <1>16 DEF PollerLeases, IsEntry
<1>17. CASE UNCHANGED vars
  BY <1>17 DEF vars, IsEntry
<1> QED
  BY <1>1, <1>2, <1>3, <1>4, <1>5, <1>6, <1>7, <1>8, <1>9, <1>10, <1>11, <1>12, <1>13,
     <1>14, <1>15, <1>16, <1>17 DEF Next, Handle

(* Every variable keeps its type, whatever the interleaving of ticks. *)
THEOREM TypeCorrect == Spec => []TypeOK
<1>1. Spec => []TypeInv
  BY TypeInit, TypeStep, PTL DEF Spec
<1>2. TypeInv => TypeOK
  BY DEF TypeInv
<1> QED
  BY <1>1, <1>2, PTL

-----------------------------------------------------------------------------
(* Completing rows in processing, with their effects, keeps the ledger true. *)
LEMMA SettleKeepsLedger ==
  ASSUME TypeOK, LedgerMatchesEffects, NEW S \in SUBSET Events, Settle(S),
         \A e \in S : row[e] = "PROCESSING"
  PROVE  LedgerMatchesEffects'
  BY DEF TypeOK, LedgerMatchesEffects, Settle

(* Committing an open transaction settles only its own rows. *)
LEMMA CommitKeepsLedger ==
  ASSUME TypeInv, LedgerInv, NEW t \in Ticks, CommitHeld(t)
  PROVE  LedgerInv'
<1>1. held[t] \in SUBSET Events /\ \A e \in held[t] : row[e] = "PROCESSING"
  BY DEF TypeInv, TypeOK, Events, LedgerInv, HeldIsProcessing
<1>2. LedgerMatchesEffects'
  BY <1>1, SettleKeepsLedger DEF CommitHeld, TypeInv, LedgerInv
<1>3. HeldByOne'
  BY DEF CommitHeld, TypeInv, TypeOK, LedgerInv, HeldByOne
<1>4. HeldIsProcessing'
  <2> SUFFICES ASSUME NEW u \in Ticks, NEW e \in held'[u] PROVE row'[e] = "PROCESSING"
    BY DEF HeldIsProcessing
  <2>1. u # t /\ held[u] = held'[u] /\ e \in Events
    BY DEF CommitHeld, TypeInv, TypeOK, Events
  <2>2. held[t] = {}
    BY <2>1 DEF LedgerInv, HeldByOne
  <2> QED
    BY <2>1, <2>2 DEF CommitHeld, Settle, LedgerInv, HeldIsProcessing
<1> QED
  BY <1>2, <1>3, <1>4 DEF LedgerInv

LEMMA LedgerStep == TypeInv /\ LedgerInv /\ [Next]_vars => LedgerInv'
<1> SUFFICES ASSUME TypeInv, LedgerInv, [Next]_vars PROVE LedgerInv'
  OBVIOUS
<1> USE IntakeAssumption DEF LedgerInv, HeldIsProcessing, HeldByOne, LedgerMatchesEffects
<1>0. /\ \A t \in Ticks : held[t] \in SUBSET Firings
      /\ \A t \in Ticks : \A e \in held[t] : e \in Events /\ e \notin Commands
      /\ \A t \in Ticks, e \in Events : claim[e] = t => row[e] = "PROCESSING"
  BY DEF TypeInv, TypeOK, ClaimedIsProcessing, Events
<1>1. ASSUME NEW e \in Events, Deliver(e) PROVE LedgerInv'
  BY <1>0, <1>1 DEF Deliver, Accept, ticks, TypeInv, TypeOK
<1>2. ASSUME NEW e \in Events, ExpireClaim(e) PROVE LedgerInv'
  BY <1>2 DEF ExpireClaim, ticks
<1>3. ASSUME NEW t \in Ticks, ClaimBatch(t) PROVE LedgerInv'
  BY <1>0, <1>3 DEF ClaimBatch, Exhausted, Ready, Claimable, Locked
<1>4. ASSUME NEW t \in Ticks, Load(t) PROVE LedgerInv'
  BY <1>4, CommitKeepsLedger DEF Load
<1>5. ASSUME NEW t \in Ticks, LoadStale(t) PROVE LedgerInv'
  BY <1>5 DEF LoadStale, inbox, TypeInv, TypeOK
<1>6. ASSUME NEW t \in Ticks, Detect(t) PROVE LedgerInv'
  <2>1. item[t] \in Events /\ row[item[t]] = "PROCESSING"
    BY <1>0, <1>6 DEF Detect, Events
  <2>2. LedgerMatchesEffects'
    BY <1>6, <2>1, SettleKeepsLedger DEF Detect, TypeInv
  <2> QED
    BY <1>6, <2>2 DEF Detect
<1>7. ASSUME NEW t \in Ticks, Fire(t) PROVE LedgerInv'
  BY <1>0, <1>7 DEF Fire, inbox, Events, TypeInv, TypeOK
<1>8. ASSUME NEW t \in Ticks, Acknowledge(t) PROVE LedgerInv'
  <2>1. item[t] \in Events /\ row[item[t]] = "PROCESSING"
    BY <1>0, <1>8 DEF Acknowledge, Events
  <2>2. LedgerMatchesEffects'
    BY <1>8, <2>1, SettleKeepsLedger DEF Acknowledge, TypeInv
  <2> QED
    BY <1>0, <1>8, <2>2 DEF Acknowledge, Settle
<1>9. ASSUME NEW t \in Ticks, AcquireLease(t) PROVE LedgerInv'
  BY <1>9 DEF AcquireLease, inbox
<1>10. ASSUME NEW t \in Ticks, Transition(t) PROVE LedgerInv'
  <2>1. item[t] \in Events /\ item[t] \in Commands /\ row[item[t]] = "PROCESSING"
    BY <1>0, <1>10, TransitionMoves DEF Transition, Events, Commands
  <2>2. LedgerMatchesEffects'
    BY <1>10, <2>1, SettleKeepsLedger DEF Transition, TypeInv
  <2> QED
    BY <1>0, <1>10, <2>1, <2>2 DEF Transition, Settle
<1>11. ASSUME NEW t \in Ticks, Contend(t) PROVE LedgerInv'
  BY <1>0, <1>11 DEF Contend, Events, TypeInv, TypeOK
<1>12. ASSUME NEW t \in Ticks, EndTick(t) PROVE LedgerInv'
  BY <1>12, CommitKeepsLedger DEF EndTick
<1>13. ASSUME NEW t \in Ticks, Raise(t) PROVE LedgerInv'
  BY <1>13 DEF Raise, inbox
<1>14. ASSUME NEW t \in Ticks, Crash(t) PROVE LedgerInv'
  BY <1>14 DEF Crash, TypeInv, TypeOK
<1>15. CASE LeaseEnds
  BY <1>15 DEF LeaseEnds, inbox, ticks
<1>16. CASE PollerLeases
  BY <1>16 DEF PollerLeases, inbox, ticks
<1>17. CASE UNCHANGED vars
  BY <1>17 DEF vars, inbox, ticks
<1> QED
  BY <1>1, <1>2, <1>3, <1>4, <1>5, <1>6, <1>7, <1>8, <1>9, <1>10, <1>11, <1>12, <1>13,
     <1>14, <1>15, <1>16, <1>17 DEF Next, Handle

(* An event is recorded as completed exactly when its effect was committed,
   and it is committed once: no redelivery, lapsed claim, second tick or open
   transaction applies an event twice or completes it without effect. *)
THEOREM LedgerTrue == Spec => []LedgerMatchesEffects
<1>1. Init => TypeInv /\ LedgerInv
  BY TypeInit DEF Init, LedgerInv, HeldIsProcessing, HeldByOne, LedgerMatchesEffects
<1>2. TypeInv /\ LedgerInv /\ [Next]_vars => (TypeInv /\ LedgerInv)'
  BY TypeStep, LedgerStep
<1>3. LedgerInv => LedgerMatchesEffects
  BY DEF LedgerInv
<1> QED
  BY <1>1, <1>2, <1>3, PTL DEF Spec

-----------------------------------------------------------------------------
(* What relates the incident to what was written about it. *)
IncidentInv == OpenedInv /\ CommandsMatchIncident

LEMMA OpenKeepsIncident ==
  ASSUME TypeOK, IncidentInv, OpenOrAttach
  PROVE  IncidentInv'
<1>1. CASE incident = "absent"
  BY <1>1 DEF OpenOrAttach, TypeOK, IncidentInv, OpenedInv, CommandsMatchIncident, Commands,
              NotWritten, Plain
<1>2. CASE incident # "absent"
  <2>1. incident' = incident /\ opened' = opened /\ outbox' = outbox
    BY <1>2 DEF OpenOrAttach
  <2> QED
    BY <2>1 DEF IncidentInv, OpenedInv, CommandsMatchIncident
<1> QED
  BY <1>1, <1>2

LEMMA TransitionKeepsIncident ==
  ASSUME TypeInv, IncidentInv, NEW t \in Ticks, Transition(t)
  PROVE  IncidentInv'
<1>1. TransitionKey("TRIAGE_STARTED", "DETECTED") # NotWritten
  BY DEF TransitionKey, NotWritten, Plain
<1>2. CommandsMatchIncident'
  BY <1>1, TransitionMoves
  DEF TypeInv, TypeOK, IncidentInv, CommandsMatchIncident, Commands
<1> QED
  BY <1>2, TransitionMoves DEF Transition, IncidentInv, OpenedInv

LEMMA IncidentStep == TypeInv /\ IncidentInv /\ [Next]_vars => IncidentInv'
<1> SUFFICES ASSUME TypeInv, IncidentInv, [Next]_vars PROVE IncidentInv'
  OBVIOUS
<1>1. CASE UNCHANGED <<incident, opened, outbox>>
  BY <1>1 DEF IncidentInv, OpenedInv, CommandsMatchIncident
<1>2. CASE OpenOrAttach
  BY <1>2, OpenKeepsIncident DEF TypeInv
<1>3. ASSUME NEW t \in Ticks, Transition(t) PROVE IncidentInv'
  BY <1>3, TransitionKeepsIncident
<1> QED
  BY <1>1, <1>2, <1>3
  DEF Next, Handle, vars, aggregate, Deliver, ExpireClaim, ClaimBatch, Load, LoadStale, Detect,
      Fire, Acknowledge, AcquireLease, Contend, Raise, EndTick, Crash, LeaseEnds, PollerLeases,
      CommitHeld

LEMMA IncidentHolds == Spec => [](TypeInv /\ IncidentInv)
<1>1. Init => TypeInv /\ IncidentInv
  BY TypeInit DEF Init, IncidentInv, OpenedInv, CommandsMatchIncident
<1>2. TypeInv /\ IncidentInv /\ [Next]_vars => (TypeInv /\ IncidentInv)'
  BY TypeStep, IncidentStep
<1> QED
  BY <1>1, <1>2, PTL DEF Spec

(* Whatever number of alerts is delivered, however often, and handled by
   however many ticks at once, one incident row is inserted. *)
THEOREM SingleIncident == Spec => []OneIncident
<1>1. TypeInv /\ IncidentInv => OneIncident
  BY DEF IncidentInv, OpenedInv, OneIncident
<1> QED
  BY <1>1, IncidentHolds, PTL

(* The command of each state the incident entered is in the outbox, and no
   other: a transition and its wake-up are one commit. *)
THEOREM CommandsMatch == Spec => []CommandsMatchIncident
<1>1. TypeInv /\ IncidentInv => CommandsMatchIncident
  BY DEF IncidentInv
<1> QED
  BY <1>1, IncidentHolds, PTL

(* For any number of events and ticks no entry command ever takes the incident
   beyond TRIAGING: the command of that state carries its cause in its type,
   and the handler looks the whole type up among the names of its commands. *)
THEOREM NeverInvestigated == Spec => [](incident # "INVESTIGATING")
<1> DEFINE Before == incident # "INVESTIGATING"
<1>1. Init => Before
  BY DEF Init
<1>2. TypeInv /\ Before /\ [Next]_vars => Before'
  <2> SUFFICES ASSUME TypeInv, Before, [Next]_vars PROVE Before'
    OBVIOUS
  <2>1. CASE UNCHANGED incident \/ OpenOrAttach
    BY <2>1 DEF OpenOrAttach
  <2>2. ASSUME NEW t \in Ticks, Transition(t) PROVE Before'
    BY <2>2, TransitionMoves
  <2> QED
    BY <2>1, <2>2
    DEF Next, Handle, vars, aggregate, Deliver, ExpireClaim, ClaimBatch, Load, LoadStale, Detect,
        Fire, Acknowledge, AcquireLease, Contend, Raise, EndTick, Crash, LeaseEnds, PollerLeases,
        CommitHeld
<1>3. TypeInv /\ IncidentInv => TypeInv
  OBVIOUS
<1> QED
  BY <1>1, <1>2, <1>3, IncidentHolds, PTL DEF Spec

-----------------------------------------------------------------------------
(* The refinement of IntakePromise. *)

(* A command is delivered after it was written, the first one is known to the
   handler, and it is completed exactly when the incident is triaged. *)
CommandInv ==
  /\ \A c \in Commands : row[c] # "absent" => outbox[c] # NotWritten
  /\ outbox["DETECTED"] \in {NotWritten, Plain("IncidentDetected")}
  /\ incident # "INVESTIGATING"
  /\ row["DETECTED"] = "COMPLETED" <=> incident = "TRIAGING"

(* The first command is never merely acknowledged. *)
LEMMA FirstIsEntry ==
  ASSUME CommandInv, NEW t \in Ticks, Acknowledge(t), row[item[t]] # "absent"
  PROVE  item[t] # "DETECTED"
BY DEF CommandInv, Acknowledge, Commands, IsEntry, EntryTransitions

(* What a tick settles is in processing. *)
LEMMA SettledWaited ==
  ASSUME TypeInv, LedgerInv, NEW t \in Ticks
  PROVE  /\ held[t] \subseteq Firings /\ \A e \in held[t] : row[e] = "PROCESSING"
         /\ \A e \in Events : claim[e] = t => row[e] = "PROCESSING"
BY IntakeAssumption DEF TypeInv, TypeOK, LedgerInv, HeldIsProcessing, ClaimedIsProcessing

LEMMA CommandStep ==
  TypeInv /\ LedgerInv /\ CommandInv /\ [Next]_vars => CommandInv'
<1> SUFFICES ASSUME TypeInv, LedgerInv, CommandInv, [Next]_vars PROVE CommandInv'
  OBVIOUS
<1> USE IntakeAssumption DEF CommandInv
<1>0. /\ row \in [Events -> {"absent", "PENDING", "PROCESSING", "COMPLETED", "FAILED"}]
      /\ outbox \in [Commands -> EventTypes]
      /\ "DETECTED" \in Commands /\ "TRIAGING" \in Commands /\ Commands \subseteq Events
      /\ "DETECTED" \notin Detections \cup Firings
  BY DEF TypeInv, TypeOK, Commands, Events
<1>1. ASSUME NEW S \in SUBSET Events, S \cap Commands = {}, Settle(S),
             OpenOrAttach \/ UNCHANGED <<incident, outbox>>
      PROVE  CommandInv'
  <2>1. \A c \in Commands : row'[c] = row[c]
    BY <1>0, <1>1 DEF Settle
  <2>2. CASE UNCHANGED <<incident, outbox>>
    BY <1>0, <2>1, <2>2
  <2>3. CASE OpenOrAttach
    BY <1>0, <2>1, <2>3 DEF OpenOrAttach, Plain, NotWritten
  <2> QED
    BY <1>1, <2>2, <2>3
<1>2. ASSUME NEW e \in Events, Deliver(e) PROVE CommandInv'
  BY <1>0, <1>2 DEF Deliver, Accept, aggregate
<1>3. ASSUME NEW t \in Ticks, ClaimBatch(t) PROVE CommandInv'
  BY <1>0, <1>3 DEF ClaimBatch, Exhausted, Ready, Claimable, aggregate
<1>4. ASSUME NEW t \in Ticks, Load(t) \/ EndTick(t) PROVE CommandInv'
  <2>1. held[t] \in SUBSET Events /\ held[t] \cap Commands = {}
    BY SettledWaited DEF Events
  <2> QED
    BY <1>1, <1>4, <2>1 DEF Load, EndTick, CommitHeld
<1>5. ASSUME NEW t \in Ticks, Detect(t) PROVE CommandInv'
  BY <1>1, <1>5 DEF Detect, Events
<1>6. ASSUME NEW t \in Ticks, Acknowledge(t) PROVE CommandInv'
  <2>1. row[item[t]] = "PROCESSING" /\ item[t] \in Commands
    BY <1>0, <1>6, SettledWaited DEF Acknowledge
  <2>2. item[t] # "DETECTED"
    BY <1>6, <2>1, FirstIsEntry
  <2> QED
    BY <1>0, <1>6, <2>1, <2>2 DEF Acknowledge, Settle, aggregate
<1>7. ASSUME NEW t \in Ticks, Transition(t) PROVE CommandInv'
  <2>1. Settle({"DETECTED"}) /\ row["DETECTED"] = "PROCESSING"
    <3>1. item[t] = "DETECTED"
      BY <1>7, TransitionMoves
    <3>2. Settle({item[t]}) /\ claim[item[t]] = t
      BY <1>7 DEF Transition
    <3> QED
      BY <1>0, <3>1, <3>2, SettledWaited
  <2>2. TransitionKey("TRIAGE_STARTED", "DETECTED") # NotWritten
    BY DEF TransitionKey, NotWritten, Plain
  <2>3. outbox'["DETECTED"] = outbox["DETECTED"]
        /\ \A c \in Commands : outbox[c] # NotWritten => outbox'[c] # NotWritten
    BY <1>0, <1>7, <2>2, TransitionMoves
  <2>4. /\ row'["DETECTED"] = "COMPLETED"
        /\ \A c \in Commands \ {"DETECTED"} : row'[c] = row[c]
    BY <1>0, <2>1 DEF Settle
  <2> QED
    BY <1>0, <1>7, <2>1, <2>3, <2>4, TransitionMoves
<1>8. ASSUME NEW t \in Ticks, Contend(t) PROVE CommandInv'
  <2>1. claim[item[t]] = t => row[item[t]] = "PROCESSING"
    BY <1>0, <1>8, SettledWaited DEF Contend
  <2> QED
    BY <1>0, <1>8, <2>1 DEF Contend, aggregate
<1>9. UNCHANGED <<incident, outbox, row>> => CommandInv'
  OBVIOUS
<1> QED
  BY <1>2, <1>3, <1>4, <1>5, <1>6, <1>7, <1>8, <1>9
  DEF Next, Handle, vars, aggregate, inbox, ExpireClaim, LoadStale, Fire, AcquireLease, Raise,
      Crash, LeaseEnds, PollerLeases

LEMMA IntakeAlways == Spec => [](TypeInv /\ LedgerInv /\ IncidentInv /\ CommandInv)
<1>1. Init => LedgerInv /\ CommandInv
  BY DEF Init, LedgerInv, HeldIsProcessing, HeldByOne, LedgerMatchesEffects, CommandInv, Commands,
     Events
<1> QED
  BY <1>1, LedgerStep, CommandStep, IncidentHolds, PTL DEF Spec

(* Nothing shows of a step that leaves every event its standing. *)
LEMMA Stutters ==
  ASSUME UNCHANGED incident, \A e \in Events : Standing(e)' = Standing(e)
  PROVE  UNCHANGED Promise!vars
BY DEF Promise!vars, Events

(* Alerts settled with the incident they open or join are absorbed. *)
LEMMA Absorbs ==
  ASSUME TypeInv, NEW A \in SUBSET (Detections \cup Firings), A # {},
         \A a \in A : row[a] = "PROCESSING", Settle(A), OpenOrAttach
  PROVE  Promise!Next
<1>1. /\ \A e \in A : Standing(e) = "waiting" /\ Standing(e)' = "done"
      /\ \A e \in Events \ A : Standing(e)' = Standing(e)
  BY DEF Settle, Standing, Events
<1>2. /\ A \cap Commands = {} /\ Detections \cup Firings \subseteq Events
      /\ Commands \subseteq Events
  BY IntakeAssumption DEF Events
<1>3. Promise!Absorb(A)
  BY <1>1, <1>2 DEF Promise!Absorb, OpenOrAttach
<1> QED
  BY <1>3 DEF Promise!Next

LEMMA DeliverStep ==
  ASSUME TypeInv, IncidentInv, CommandInv, NEW e \in Events, Deliver(e)
  PROVE  Promise!Next
<1>1. /\ Standing(e) = "none" /\ Standing(e)' = "waiting" /\ incident' = incident
      /\ \A d \in Events \ {e} : Standing(d)' = Standing(d)
  BY DEF Deliver, Accept, Standing, aggregate, TypeInv, TypeOK
<1>2. CASE e \in Detections \cup Firings
  <2>1. Promise!Raise(e)
    BY <1>1, <1>2, IntakeAssumption DEF Promise!Raise, Events
  <2> QED
    BY <1>2, <2>1 DEF Promise!Next
<1>3. CASE e \in Commands
  <2>1. outbox[e] # NotWritten
    BY <1>3 DEF Deliver
  <2>2. e = incident \/ (e = "DETECTED" /\ incident = "TRIAGING")
    BY <1>3, <2>1
    DEF IncidentInv, CommandsMatchIncident, CommandInv, Commands, TypeInv, TypeOK
  <2>3. Promise!Issue(e)
    BY <1>1, <1>3, <2>2, IntakeAssumption DEF Promise!Issue, Promise!Entered, Events
  <2> QED
    BY <1>3, <2>3 DEF Promise!Next, Promise!Commands, Commands
<1> QED
  BY <1>2, <1>3 DEF Events

(* A claim of a batch parks what is exhausted; what it claims waits on. *)
LEMMA ClaimStep ==
  ASSUME TypeInv, NEW t \in Ticks, ClaimBatch(t)
  PROVE  Promise!Next
<1> DEFINE A == Exhausted \cap (Detections \cup Firings)
           C == Exhausted \cap Commands
<1>1. /\ \A e \in Exhausted : Standing(e) = "waiting" /\ Standing(e)' = "parked"
      /\ \A e \in Events \ Exhausted : Standing(e)' = Standing(e)
  <2> SUFFICES ASSUME NEW e \in Events
               PROVE  /\ e \in Exhausted => Standing(e) = "waiting" /\ Standing(e)' = "parked"
                      /\ e \notin Exhausted => Standing(e)' = Standing(e)
    BY DEF Exhausted
  <2>1. CASE e \in Exhausted
    <3>1. row[e] \in {"PENDING", "PROCESSING"}
      BY <2>1 DEF Exhausted, Claimable
    <3>2. e \notin Ready
      BY <2>1, IntakeAssumption DEF Exhausted, Ready, TypeInv, TypeOK
    <3>3. row'[e] = "FAILED"
      BY <2>1, <3>2 DEF ClaimBatch
    <3> QED
      BY <2>1, <3>1, <3>3 DEF Standing
  <2>2. CASE e \in Ready /\ e \notin Exhausted
    <3>1. row[e] \in {"PENDING", "PROCESSING"} /\ row'[e] = "PROCESSING"
      BY <2>2 DEF ClaimBatch, Ready, Claimable
    <3> QED
      BY <2>2, <3>1 DEF Standing
  <2>3. CASE e \notin Ready /\ e \notin Exhausted
    <3>1. row'[e] = row[e]
      BY <2>3 DEF ClaimBatch
    <3> QED
      BY <2>3, <3>1 DEF Standing
  <2> QED
    BY <2>1, <2>2, <2>3
<1>2. A \in SUBSET (Detections \cup Firings) /\ C \in SUBSET Commands
  OBVIOUS
<1>3. Promise!Park(A, C)
  BY <1>1 DEF Promise!Park, Events, ClaimBatch, aggregate, Promise!Commands, Commands
<1> QED
  BY <1>2, <1>3 DEF Promise!Next, Promise!Commands, Commands

(* The next load, or the end of the tick, commits what a firing left open. *)
LEMMA CommitStep ==
  ASSUME TypeInv, LedgerInv, NEW t \in Ticks, CommitHeld(t)
  PROVE  [Promise!Next]_(Promise!vars)
<1>1. CASE held[t] = {}
  <2>1. UNCHANGED incident /\ \A e \in Events : Standing(e)' = Standing(e)
    BY <1>1 DEF CommitHeld, Settle, Standing
  <2> QED
    BY <2>1, Stutters
<1>2. CASE held[t] # {}
  BY <1>2, Absorbs, SettledWaited DEF CommitHeld
<1> QED
  BY <1>1, <1>2

LEMMA CommandsStep ==
  ASSUME TypeInv, LedgerInv, CommandInv, NEW t \in Ticks, Acknowledge(t) \/ Transition(t)
  PROVE  Promise!Next
<1>1. CASE Acknowledge(t)
  <2>1. PICK c \in Commands : c = item[t] /\ Settle({c}) /\ claim[c] = t
    BY <1>1 DEF Acknowledge
  <2>2. c \in Events /\ row[c] = "PROCESSING"
    BY <2>1, SettledWaited DEF Events
  <2>3. c # "DETECTED"
    BY <1>1, <2>1, <2>2, FirstIsEntry
  <2>4. /\ Standing(c) = "waiting" /\ Standing(c)' = "done"
        /\ \A e \in Events \ {c} : Standing(e)' = Standing(e)
    BY <2>1, <2>2 DEF Settle, Standing
  <2>5. Promise!Note(c)
    BY <1>1, <2>3, <2>4, IntakeAssumption DEF Acknowledge, aggregate, Promise!Note, Events
  <2> QED
    BY <2>1, <2>5 DEF Promise!Next, Promise!Commands, Commands
<1>2. CASE Transition(t)
  <2>1. row["DETECTED"] = "PROCESSING" /\ Settle({"DETECTED"}) /\ "DETECTED" \in Events
    <3>1. item[t] = "DETECTED" /\ "DETECTED" \in Events
      BY <1>2, TransitionMoves DEF Events, Commands
    <3>2. Settle({item[t]}) /\ claim[item[t]] = t
      BY <1>2 DEF Transition
    <3> QED
      BY <3>1, <3>2, SettledWaited
  <2>2. incident = "DETECTED" /\ incident' = "TRIAGING"
    BY <1>2, <2>1, TransitionMoves DEF CommandInv
  <2>3. /\ Standing("DETECTED") = "waiting" /\ Standing("DETECTED")' = "done"
        /\ \A e \in Events \ {"DETECTED"} : Standing(e)' = Standing(e)
    BY <2>1 DEF Settle, Standing
  <2>4. Promise!Triage
    BY <2>2, <2>3, IntakeAssumption DEF Promise!Triage, Events, Commands
  <2> QED
    BY <2>4 DEF Promise!Next
<1> QED
  BY <1>1, <1>2

LEMMA PromiseStep ==
  TypeInv /\ LedgerInv /\ IncidentInv /\ CommandInv /\ [Next]_vars
    => [Promise!Next]_(Promise!vars)
<1> SUFFICES ASSUME TypeInv, LedgerInv, IncidentInv, CommandInv, [Next]_vars
             PROVE  [Promise!Next]_(Promise!vars)
  OBVIOUS
<1>1. ASSUME NEW e \in Events, Deliver(e) PROVE Promise!Next
  BY <1>1, DeliverStep
<1>2. ASSUME NEW t \in Ticks, ClaimBatch(t) PROVE Promise!Next
  BY <1>2, ClaimStep
<1>3. ASSUME NEW t \in Ticks, Load(t) \/ EndTick(t) PROVE [Promise!Next]_(Promise!vars)
  BY <1>3, CommitStep DEF Load, EndTick
<1>4. ASSUME NEW t \in Ticks, Detect(t) PROVE Promise!Next
  <2>1. item[t] \in Detections /\ row[item[t]] = "PROCESSING"
    BY <1>4, SettledWaited DEF Detect, Events
  <2>2. Settle({item[t]}) /\ OpenOrAttach
    BY <1>4 DEF Detect
  <2> QED
    BY <2>1, <2>2, Absorbs
<1>5. ASSUME NEW t \in Ticks, Acknowledge(t) \/ Transition(t) PROVE Promise!Next
  BY <1>5, CommandsStep
<1>6. ASSUME NEW t \in Ticks, Contend(t) PROVE UNCHANGED Promise!vars
  <2>1. incident' = incident
    BY <1>6 DEF Contend, aggregate
  <2>2. ASSUME NEW e \in Events PROVE Standing(e)' = Standing(e)
    <3>1. \/ row'[e] = row[e]
          \/ row'[e] = "PENDING" /\ row[e] = "PROCESSING"
      BY <1>6, SettledWaited DEF Contend, TypeInv, TypeOK
    <3> QED
      BY <3>1 DEF Standing
  <2> QED
    BY <2>1, <2>2, Stutters
<1>7. UNCHANGED <<incident, row>> => UNCHANGED Promise!vars
  BY Stutters DEF Standing
<1> QED
  BY <1>1, <1>2, <1>3, <1>4, <1>5, <1>6, <1>7
  DEF Next, Handle, vars, aggregate, inbox, ExpireClaim, LoadStale, Fire, AcquireLease, Raise,
      Crash, LeaseEnds, PollerLeases

(* For any number of alerts, ticks and attempts the intake keeps its promise: an
   alert takes effect once and with its completion, the first command moves the
   incident and is completed by that step, whatever is redelivered, reclaimed,
   held in an open transaction or lost with a tick. *)
THEOREM KeepsIntakePromise == Spec => ImplementsIntake
<1>1. Init => Promise!Init
  BY DEF Init, Promise!Init, Promise!Commands, Commands, Events, Standing
<1> QED
  BY <1>1, PromiseStep, IntakeAlways, PTL DEF Spec, ImplementsIntake, Promise!Spec
=============================================================================
