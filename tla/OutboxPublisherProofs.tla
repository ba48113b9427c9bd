------------------------ MODULE OutboxPublisherProofs ------------------------
(***************************************************************************)
(* Theorems about OutboxPublisher for any events, any number of ticks, any *)
(* budget and batch size.                                                  *)
(***************************************************************************)
EXTENDS OutboxPublisher, FiniteSetTheorems, TLAPS

(* Where a tick stands says what it works on: an idle one on nothing, a
   publishing or completing one on an event of its batch. *)
StepsMatchItems ==
  \A t \in Ticks :
    /\ step[t] = "idle" => batch[t] = {}
    /\ step[t] \in {"publish", "complete"} => item[t] \in Events /\ item[t] \in batch[t]

TypeInv == TypeOK /\ StepsMatchItems

(* An event is completed only after this tick had it accepted. *)
CompletingWasSent == \A t \in Ticks : step[t] = "complete" => sends[item[t]] > 0

SentInv == CompletingWasSent /\ PublishedWasSent

(* A settled row carries no token. *)
SettledIsUnclaimed ==
  \A e \in Events : row[e] \in {"published", "quarantined"} => claim[e] = Nobody

(* The ticks that claimed the event, paid for it and may still send it. *)
MaySend(t, e) == e \in batch[t] /\ ~(step[t] = "complete" /\ item[t] = e)

Pending(e) == {t \in Ticks : MaySend(t, e)}

(* What was sent and what may still be sent under old claims was paid for. *)
PaidInv == \A e \in Events : sends[e] + Cardinality(Pending(e)) <= attempts[e]

-----------------------------------------------------------------------------
LEMMA TypeInit == Init => TypeInv
BY OutboxAssumption DEF Init, TypeInv, TypeOK, StepsMatchItems

(* A tick that ends leaves its claims to expire and forgets its batch. *)
LEMMA EndKeepsTypes ==
  ASSUME TypeInv, NEW t \in Ticks, EndTick(t)
  PROVE  TypeInv'
BY OutboxAssumption DEF TypeInv, TypeOK, StepsMatchItems, EndTick

LEMMA TypeStep == TypeInv /\ [Next]_vars => TypeInv'
<1> SUFFICES ASSUME TypeInv, [Next]_vars PROVE TypeInv'
  OBVIOUS
<1> USE OutboxAssumption DEF TypeInv, TypeOK, StepsMatchItems, rows, ticks
<1>1. ASSUME NEW e \in Events, Write(e) PROVE TypeInv'
  BY <1>1 DEF Write
<1>2. ASSUME NEW e \in Events, Expire(e) PROVE TypeInv'
  BY <1>2 DEF Expire
<1>3. ASSUME NEW t \in Ticks, ClaimBatch(t) PROVE TypeInv'
  <2>1. First(Ready) \subseteq Ready /\ Ready \subseteq Events
    BY DEF First, Ready
  <2>2. attempts' \in [Events -> 0..Budget]
    <3>1. ASSUME NEW e \in First(Ready) PROVE attempts[e] + 1 \in 0..Budget
      <4>1. e \in Events /\ attempts[e] < Budget
        BY <2>1 DEF Ready
      <4>2. attempts[e] \in 0..Budget /\ Budget \in Nat
        BY <4>1
      <4> QED
        BY <4>1, <4>2
    <3> QED
      BY <1>3, <3>1 DEF ClaimBatch, Spend
  <2>3. row' \in [Events -> {"unwritten", "unpublished", "published", "quarantined"}]
    BY <1>3 DEF ClaimBatch
  <2>4. claim' \in [Events -> Ticks \cup {Nobody, Gone}]
    BY <1>3 DEF ClaimBatch
  <2>5. Ready = {} => First(Ready) = {}
    BY <2>1
  <2>6. /\ batch' \in [Ticks -> SUBSET Events]
        /\ step' \in [Ticks -> {"idle", "load", "publish", "complete"}]
        /\ StepsMatchItems'
    BY <1>3, <2>1, <2>5 DEF ClaimBatch
  <2> QED
    BY <1>3, <2>2, <2>3, <2>4, <2>6 DEF ClaimBatch
<1>4. ASSUME NEW t \in Ticks, Load(t) PROVE TypeInv'
  BY <1>4 DEF Load
<1>5. ASSUME NEW t \in Ticks, Publish(t) PROVE TypeInv'
  <2>1. item[t] \in Events
    BY <1>5 DEF Publish
  <2>2. sends[item[t]] \in Nat
    BY <2>1
  <2>3. sends' \in [Events -> Nat]
    <3>1. sends' = [sends EXCEPT ![item[t]] = sends[item[t]] + 1]
      BY <1>5 DEF Publish
    <3>2. sends[item[t]] + 1 \in Nat
      BY <2>2
    <3>3. sends \in [Events -> Nat]
      OBVIOUS
    <3> HIDE DEF TypeInv, TypeOK
    <3> QED
      BY <3>1, <3>2, <3>3
  <2> QED
    BY <1>5, <2>3 DEF Publish
<1>6. ASSUME NEW t \in Ticks, Complete(t) PROVE TypeInv'
  BY <1>6 DEF Complete
<1>7. ASSUME NEW t \in Ticks, Raise(t) \/ Crash(t) PROVE TypeInv'
  BY <1>7, EndKeepsTypes DEF Raise, Crash
<1>8. CASE UNCHANGED vars
  BY <1>8 DEF vars
<1> QED
  BY <1>1, <1>2, <1>3, <1>4, <1>5, <1>6, <1>7, <1>8 DEF Next, Advance

LEMMA TypeAlways == Spec => []TypeInv
BY TypeInit, TypeStep, PTL DEF Spec

(* Every variable of the outbox keeps its type; attempts stay in the budget. *)
THEOREM TypeCorrect == Spec => []TypeOK
<1>1. TypeInv => TypeOK
  BY DEF TypeInv
<1> QED
  BY <1>1, TypeAlways, PTL

-----------------------------------------------------------------------------
LEMMA SentStep == TypeInv /\ SentInv /\ [Next]_vars => SentInv'
<1> SUFFICES ASSUME TypeInv, SentInv, [Next]_vars PROVE SentInv'
  OBVIOUS
<1> USE OutboxAssumption DEF TypeInv, TypeOK, StepsMatchItems, SentInv, CompletingWasSent,
      PublishedWasSent, rows, ticks
<1>1. ASSUME NEW e \in Events, Write(e) \/ Expire(e) PROVE SentInv'
  BY <1>1 DEF Write, Expire
<1>2. ASSUME NEW t \in Ticks, ClaimBatch(t) PROVE SentInv'
  BY <1>2 DEF ClaimBatch
<1>3. ASSUME NEW t \in Ticks, Load(t) PROVE SentInv'
  BY <1>3 DEF Load
<1>4. ASSUME NEW t \in Ticks, Publish(t) PROVE SentInv'
  <2>1. item[t] \in Events
    BY <1>4 DEF Publish
  <2>2. sends'[item[t]] = sends[item[t]] + 1 /\ sends[item[t]] \in Nat
    BY <1>4, <2>1 DEF Publish
  <2>3. \A e \in Events : sends[e] > 0 => sends'[e] > 0
    BY <1>4, <2>2 DEF Publish
  <2>4. sends'[item[t]] > 0
    BY <2>2
  <2>5. ASSUME NEW u \in Ticks, step'[u] = "complete" PROVE sends'[item'[u]] > 0
    BY <1>4, <2>3, <2>4, <2>5 DEF Publish
  <2>6. ASSUME NEW e \in Events, row'[e] = "published" PROVE sends'[e] > 0
    BY <1>4, <2>3, <2>6 DEF Publish
  <2> QED
    BY <2>5, <2>6
<1>5. ASSUME NEW t \in Ticks, Complete(t) PROVE SentInv'
  BY <1>5 DEF Complete
<1>6. ASSUME NEW t \in Ticks, Raise(t) \/ Crash(t) PROVE SentInv'
  BY <1>6 DEF Raise, Crash, EndTick
<1>7. CASE UNCHANGED vars
  BY <1>7 DEF vars
<1> QED
  BY <1>1, <1>2, <1>3, <1>4, <1>5, <1>6, <1>7 DEF Next, Advance

(* Whatever ticks overlap, raise or die, no event is marked published that
   the broker never accepted. *)
THEOREM PublishedSent == Spec => []PublishedWasSent
<1>1. Init => SentInv
  BY DEF Init, SentInv, CompletingWasSent, PublishedWasSent
<1>2. SentInv => PublishedWasSent
  BY DEF SentInv
<1> QED
  BY <1>1, <1>2, SentStep, TypeAlways, PTL DEF Spec

-----------------------------------------------------------------------------
(* Only rows still open are quarantined or claimed, only claimed rows are
   completed: a settled row is touched by no step. *)
LEMMA SettledStep ==
  ASSUME TypeInv, SettledIsUnclaimed, [Next]_vars,
         NEW e \in Events, row[e] \in {"published", "quarantined"}
  PROVE  row'[e] = row[e] /\ attempts'[e] = attempts[e] /\ claim'[e] = Nobody
<1> USE OutboxAssumption DEF TypeInv, TypeOK, StepsMatchItems, SettledIsUnclaimed, rows, ticks
<1>1. ASSUME NEW d \in Events, Write(d) \/ Expire(d)
      PROVE  row'[e] = row[e] /\ attempts'[e] = attempts[e] /\ claim'[e] = Nobody
  BY <1>1 DEF Write, Expire
<1>2. ASSUME NEW t \in Ticks, ClaimBatch(t)
      PROVE  row'[e] = row[e] /\ attempts'[e] = attempts[e] /\ claim'[e] = Nobody
  <2>1. e \notin Exhausted /\ e \notin First(Ready)
    BY DEF Exhausted, First, Ready, Open
  <2> QED
    BY <1>2, <2>1 DEF ClaimBatch, Spend
<1>3. ASSUME NEW t \in Ticks, Load(t) \/ Publish(t)
      PROVE  row'[e] = row[e] /\ attempts'[e] = attempts[e] /\ claim'[e] = Nobody
  BY <1>3 DEF Load, Publish
<1>4. ASSUME NEW t \in Ticks, Complete(t)
      PROVE  row'[e] = row[e] /\ attempts'[e] = attempts[e] /\ claim'[e] = Nobody
  BY <1>4 DEF Complete
<1>5. ASSUME NEW t \in Ticks, Raise(t) \/ Crash(t)
      PROVE  row'[e] = row[e] /\ attempts'[e] = attempts[e] /\ claim'[e] = Nobody
  BY <1>5 DEF Raise, Crash, EndTick
<1>6. CASE UNCHANGED vars
  BY <1>6 DEF vars
<1> QED
  BY <1>1, <1>2, <1>3, <1>4, <1>5, <1>6 DEF Next, Advance

(* A row that becomes settled does so without a token. *)
LEMMA UnclaimedStep == TypeInv /\ SettledIsUnclaimed /\ [Next]_vars => SettledIsUnclaimed'
<1> SUFFICES ASSUME TypeInv, SettledIsUnclaimed, [Next]_vars,
                    NEW e \in Events, row'[e] \in {"published", "quarantined"}
             PROVE  claim'[e] = Nobody
  BY DEF SettledIsUnclaimed
<1> USE OutboxAssumption DEF TypeInv, TypeOK, StepsMatchItems, rows, ticks
<1>1. CASE row[e] \in {"published", "quarantined"}
  BY <1>1, SettledStep
<1>2. CASE row[e] \notin {"published", "quarantined"}
  <2>1. row'[e] # row[e]
    BY <1>2
  <2>2. ASSUME NEW t \in Ticks, ClaimBatch(t) PROVE claim'[e] = Nobody
    <3>1. e \in Exhausted
      BY <2>1, <2>2 DEF ClaimBatch
    <3>2. e \notin First(Ready) /\ claim[e] = Nobody
      BY <3>1 DEF Exhausted, First, Ready, Open
    <3> QED
      BY <2>2, <3>2 DEF ClaimBatch
  <2>3. ASSUME NEW t \in Ticks, Complete(t) PROVE claim'[e] = Nobody
    BY <2>1, <2>3 DEF Complete
  <2>4. ASSUME NEW t \in Ticks, Load(t) \/ Publish(t) \/ Raise(t) \/ Crash(t) PROVE FALSE
    BY <2>1, <2>4 DEF Load, Publish, Raise, Crash, EndTick
  <2>5. ASSUME NEW d \in Events, Write(d) \/ Expire(d) PROVE FALSE
    BY <1>2, <2>1, <2>5 DEF Write, Expire
  <2>6. CASE UNCHANGED vars
    BY <2>1, <2>6 DEF vars
  <2> QED
    BY <2>2, <2>3, <2>4, <2>5, <2>6 DEF Next, Advance
<1> QED
  BY <1>1, <1>2

(* Publication and quarantine are final, whatever a stale tick does later. *)
THEOREM SettledFinal == Spec => SettledIsFinal
<1> DEFINE A == \A e \in Events : row[e] \in {"published", "quarantined"} =>
                  row'[e] = row[e] /\ attempts'[e] = attempts[e] /\ claim'[e] = Nobody
<1>1. Init => SettledIsUnclaimed
  BY DEF Init, SettledIsUnclaimed
<1>2. Spec => [](TypeInv /\ SettledIsUnclaimed)
  BY <1>1, UnclaimedStep, TypeAlways, PTL DEF Spec
<1>3. ASSUME TypeInv, SettledIsUnclaimed, [Next]_vars PROVE A
  BY <1>3, SettledStep
<1> QED
  BY <1>2, <1>3, PTL DEF Spec, SettledIsFinal

-----------------------------------------------------------------------------
LEMMA PendingFinite ==
  ASSUME NEW e
  PROVE  IsFiniteSet(Pending(e)) /\ Cardinality(Pending(e)) \in Nat
BY OutboxAssumption, FS_Subset, FS_CardinalityType DEF Pending

(* A step that lets no further tick send an event, and neither sends it nor
   takes an attempt back, keeps it paid for. *)
LEMMA FewerPending ==
  ASSUME TypeInv, TypeInv', PaidInv, NEW e \in Events,
         Pending(e)' \subseteq Pending(e), sends'[e] = sends[e], attempts'[e] = attempts[e]
  PROVE  sends'[e] + Cardinality(Pending(e)') <= attempts'[e]
<1>1. /\ IsFiniteSet(Pending(e)) /\ Cardinality(Pending(e)) \in Nat
  BY PendingFinite
<1>2. /\ Cardinality(Pending(e)') <= Cardinality(Pending(e))
      /\ Cardinality(Pending(e)') \in Nat
  BY <1>1, FS_Subset, FS_CardinalityType
<1>3. /\ sends[e] \in Nat /\ attempts[e] \in Nat
      /\ sends[e] + Cardinality(Pending(e)) <= attempts[e]
  BY OutboxAssumption DEF TypeInv, TypeOK, PaidInv
<1> QED
  BY <1>1, <1>2, <1>3

LEMMA PaidInit == Init => PaidInv
<1> SUFFICES ASSUME Init, NEW e \in Events
             PROVE  sends[e] + Cardinality(Pending(e)) <= attempts[e]
  BY DEF PaidInv
<1>1. Pending(e) = {}
  BY DEF Init, Pending, MaySend
<1> QED
  BY <1>1, FS_EmptySet DEF Init

(* A claim adds one tick that may send and one attempt. *)
LEMMA ClaimPays ==
  ASSUME TypeInv, PaidInv, NEW t \in Ticks, ClaimBatch(t), NEW e \in First(Ready)
  PROVE  sends'[e] + Cardinality(Pending(e)') <= attempts'[e]
<1> USE OutboxAssumption DEF TypeInv, TypeOK, StepsMatchItems
<1>1. e \in Events /\ Ready # {}
  BY DEF First, Ready
<1>2. t \notin Pending(e)
  BY DEF ClaimBatch, Pending, MaySend
<1>3. batch'[t] = First(Ready) /\ step'[t] = "load"
  BY <1>1 DEF ClaimBatch
<1>4. \A u \in Ticks \ {t} : batch'[u] = batch[u] /\ step'[u] = step[u] /\ item'[u] = item[u]
  BY DEF ClaimBatch
<1>5. Pending(e)' = Pending(e) \cup {t}
  BY <1>3, <1>4 DEF ClaimBatch, Pending, MaySend
<1>6. IsFiniteSet(Pending(e)) /\ Cardinality(Pending(e)) \in Nat
  BY PendingFinite
<1>7. Cardinality(Pending(e)') = Cardinality(Pending(e)) + 1
  BY <1>2, <1>5, <1>6, FS_AddElement
<1>8. attempts'[e] = attempts[e] + 1 /\ sends'[e] = sends[e]
  BY <1>1 DEF ClaimBatch, Spend
<1>9. sends[e] + Cardinality(Pending(e)) <= attempts[e] /\ sends[e] \in Nat /\ attempts[e] \in Nat
  BY <1>1 DEF PaidInv
<1> QED
  BY <1>6, <1>7, <1>8, <1>9

(* A publication turns a tick that may send into a send. *)
LEMMA PublishSpends ==
  ASSUME TypeInv, PaidInv, NEW t \in Ticks, Publish(t), NEW e \in Events, e = item[t]
  PROVE  sends'[e] + Cardinality(Pending(e)') <= attempts'[e]
<1> USE OutboxAssumption DEF TypeInv, TypeOK, StepsMatchItems
<1>1. t \in Pending(e)
  BY DEF Publish, Pending, MaySend
<1>2. Pending(e)' = Pending(e) \ {t}
  BY DEF Publish, Pending, MaySend
<1>3. IsFiniteSet(Pending(e)) /\ Cardinality(Pending(e)) \in Nat
  BY PendingFinite
<1>4. Cardinality(Pending(e)') = Cardinality(Pending(e)) - 1
  BY <1>1, <1>2, <1>3, FS_RemoveElement
<1>5. sends'[e] = sends[e] + 1 /\ attempts'[e] = attempts[e]
  BY DEF Publish, rows
<1>6. sends[e] + Cardinality(Pending(e)) <= attempts[e] /\ sends[e] \in Nat /\ attempts[e] \in Nat
  BY DEF PaidInv
<1> QED
  BY <1>3, <1>4, <1>5, <1>6

LEMMA PaidStep == TypeInv /\ PaidInv /\ [Next]_vars => PaidInv'
<1> SUFFICES ASSUME TypeInv, PaidInv, [Next]_vars, NEW e \in Events
             PROVE  sends'[e] + Cardinality(Pending(e)') <= attempts'[e]
  BY DEF PaidInv
<1> DEFINE Paid == sends'[e] + Cardinality(Pending(e)') <= attempts'[e]
           Fewer == Pending(e)' \subseteq Pending(e) /\ sends'[e] = sends[e] /\ attempts'[e] = attempts[e]
<1>0. Fewer => Paid
  BY TypeStep, FewerPending
<1> USE OutboxAssumption DEF TypeInv, TypeOK, StepsMatchItems, rows, ticks
<1> HIDE DEF Paid
<1>1. ASSUME NEW d \in Events, Write(d) \/ Expire(d) PROVE Paid
  <2>1. Pending(e)' \subseteq Pending(e)
    BY <1>1 DEF Write, Expire, Pending, MaySend
  <2> QED
    BY <1>0, <1>1, <2>1 DEF Write, Expire
<1>2. ASSUME NEW t \in Ticks, ClaimBatch(t) PROVE Paid
  <2>1. CASE e \in First(Ready)
    BY <1>2, <2>1, ClaimPays DEF Paid
  <2>2. CASE e \notin First(Ready)
    <3>1. Pending(e)' \subseteq Pending(e)
      BY <1>2, <2>2 DEF ClaimBatch, Pending, MaySend
    <3> QED
      BY <1>0, <1>2, <2>2, <3>1 DEF ClaimBatch, Spend
  <2> QED
    BY <2>1, <2>2
<1>3. ASSUME NEW t \in Ticks, Load(t) PROVE Paid
  <2>1. Pending(e)' \subseteq Pending(e)
    BY <1>3 DEF Load, Pending, MaySend
  <2> QED
    BY <1>0, <1>3, <2>1 DEF Load
<1>4. ASSUME NEW t \in Ticks, Publish(t) PROVE Paid
  <2>1. CASE e = item[t]
    BY <1>4, <2>1, PublishSpends DEF Paid
  <2>2. CASE e # item[t]
    <3>1. Pending(e)' \subseteq Pending(e)
      BY <1>4, <2>2 DEF Publish, Pending, MaySend
    <3>2. sends'[e] = sends[e]
      BY <1>4, <2>2 DEF Publish
    <3> QED
      BY <1>0, <1>4, <3>1, <3>2 DEF Publish
  <2> QED
    BY <2>1, <2>2
<1>5. ASSUME NEW t \in Ticks, Complete(t) PROVE Paid
  <2>1. Pending(e)' \subseteq Pending(e)
    BY <1>5 DEF Complete, Pending, MaySend
  <2> QED
    BY <1>0, <1>5, <2>1 DEF Complete
<1>6. ASSUME NEW t \in Ticks, Raise(t) \/ Crash(t) PROVE Paid
  <2>1. EndTick(t)
    BY <1>6 DEF Raise, Crash
  <2>2. Pending(e)' \subseteq Pending(e)
    BY <2>1 DEF EndTick, Pending, MaySend
  <2> QED
    BY <1>0, <2>1, <2>2 DEF EndTick
<1>7. CASE UNCHANGED vars
  <2>1. Pending(e)' \subseteq Pending(e)
    BY <1>7 DEF vars, Pending, MaySend
  <2> QED
    BY <1>0, <1>7, <2>1 DEF vars, Paid
<1> QED
  BY <1>1, <1>2, <1>3, <1>4, <1>5, <1>6, <1>7 DEF Next, Advance, Paid

(* Every send has an attempt of its own behind it, so the budget bounds the
   duplicates, however many ticks send under claims that are over. *)
THEOREM SendsPaid == Spec => []SendsArePaid
<1>1. ASSUME TypeInv, PaidInv PROVE SendsArePaid
  <2> SUFFICES ASSUME NEW e \in Events PROVE sends[e] <= attempts[e]
    BY DEF SendsArePaid
  <2>1. Cardinality(Pending(e)) \in Nat
    BY PendingFinite
  <2>2. /\ sends[e] \in Nat /\ attempts[e] \in Nat
        /\ sends[e] + Cardinality(Pending(e)) <= attempts[e]
    BY <1>1, OutboxAssumption DEF TypeInv, TypeOK, PaidInv
  <2> QED
    BY <2>1, <2>2
<1> QED
  BY <1>1, PaidInit, PaidStep, TypeAlways, PTL DEF Spec

-----------------------------------------------------------------------------
(* What isolating one event from the next would give.  A tick that outlives no
   claim still holds everything it has left to do. *)
HoldsItsBatch == \A t \in Ticks : \A e \in batch[t] : claim[e] = t

(* An attempt of an event not offered yet belongs to the tick that has just
   claimed it and claimed nothing else. *)
JustClaimed(t, e) == step[t] = "load" /\ batch[t] = {e} /\ claim[e] = t

SpentOnOffer ==
  \A e \in Events : attempts[e] > 0 => e \in offered \/ \E t \in Ticks : JustClaimed(t, e)

IsolatedInv == HoldsItsBatch /\ SpentOnOffer /\ ParkedWasOffered

(* Of two rows, LIMIT 1 claims the first. *)
LEMMA SingleRow ==
  ASSUME BatchSize = 1, NEW S \in SUBSET Events, NEW d \in First(S), NEW e \in First(S)
  PROVE  d = e
<1>1. ASSUME NEW x \in First(S), NEW y \in First(S) PROVE ~(x < y)
  <2> DEFINE Below == {z \in S : z < y}
  <2>1. x \in Nat /\ y \in Nat
    BY OutboxAssumption DEF First
  <2>2. IsFiniteSet(0..y)
    BY <2>1, FS_Interval
  <2>3. Below \subseteq 0..y
    <3> SUFFICES ASSUME NEW z \in S, z < y PROVE z \in 0..y
      OBVIOUS
    <3>1. z \in Nat
      BY OutboxAssumption
    <3> QED
      BY <2>1, <3>1
  <2>4. IsFiniteSet(Below) /\ Cardinality(Below) \in Nat
    BY <2>2, <2>3, FS_Subset, FS_CardinalityType
  <2>5. Cardinality(Below) < 1
    BY DEF First
  <2>6. Below = {}
    BY <2>4, <2>5, FS_EmptySet
  <2> QED
    BY <2>6 DEF First
<1>2. d \in Nat /\ e \in Nat
  BY OutboxAssumption DEF First
<1> QED
  BY <1>1, <1>2

(* LIMIT 1 claims one row. *)
LEMMA SingleBatch ==
  ASSUME BatchSize = 1, NEW S \in SUBSET Events, NEW e \in First(S)
  PROVE  First(S) = {e}
<1>1. \A d \in First(S) : d = e
  BY SingleRow
<1>2. First(S) \in SUBSET S
  BY DEF First
<1> QED
  BY <1>1, <1>2

LEMMA IsolatedStep ==
  ASSUME BatchSize = 1
  PROVE  TypeInv /\ IsolatedInv /\ [PromptNext]_vars => IsolatedInv'
<1> SUFFICES ASSUME TypeInv, IsolatedInv, [PromptNext]_vars PROVE IsolatedInv'
  OBVIOUS
<1> USE OutboxAssumption DEF TypeInv, TypeOK, StepsMatchItems, IsolatedInv, HoldsItsBatch,
      SpentOnOffer, JustClaimed, ParkedWasOffered, rows, ticks
<1>1. ASSUME NEW e \in Events, Write(e) PROVE IsolatedInv'
  BY <1>1 DEF Write
<1>2. ASSUME NEW e \in Events, claim[e] = Gone, Expire(e) PROVE IsolatedInv'
  BY <1>2 DEF Expire
<1>3. ASSUME NEW t \in Ticks, ClaimBatch(t) PROVE IsolatedInv'
  <2>1. \A e \in First(Ready) : e \in Events /\ claim[e] = Nobody /\ Ready # {}
    BY DEF First, Ready, Open
  <2>2. batch[t] = {} /\ step[t] = "idle"
    BY <1>3 DEF ClaimBatch
  <2>3. HoldsItsBatch'
    BY <1>3, <2>1 DEF ClaimBatch
  <2>4. ASSUME NEW e \in Events, attempts'[e] > 0
        PROVE  e \in offered' \/ \E u \in Ticks : JustClaimed(u, e)'
    <3>1. CASE e \in First(Ready)
      <4>1. First(Ready) = {e}
        <5>1. Ready \in SUBSET Events
          BY DEF Ready
        <5> QED
          BY <3>1, <5>1, SingleBatch
      <4>2. step'[t] = "load" /\ batch'[t] = {e} /\ claim'[e] = t
        BY <1>3, <2>1, <3>1, <4>1 DEF ClaimBatch
      <4> QED
        BY <4>2
    <3>2. CASE e \notin First(Ready)
      <4>1. attempts[e] > 0
        BY <1>3, <2>4, <3>2 DEF ClaimBatch, Spend
      <4>2. ASSUME NEW u \in Ticks, JustClaimed(u, e) PROVE JustClaimed(u, e)'
        BY <1>3, <2>2, <3>2, <4>2 DEF ClaimBatch
      <4> QED
        BY <1>3, <4>1, <4>2 DEF ClaimBatch
    <3> QED
      BY <3>1, <3>2
  <2>5. ASSUME NEW e \in Events, row'[e] = "quarantined" PROVE e \in offered'
    <3>1. CASE e \in Exhausted
      <4>1. attempts[e] > 0 /\ claim[e] = Nobody
        BY <3>1 DEF Exhausted, Open
      <4> QED
        BY <1>3, <4>1 DEF ClaimBatch
    <3>2. CASE e \notin Exhausted
      BY <1>3, <2>5, <3>2 DEF ClaimBatch
    <3> QED
      BY <3>1, <3>2
  <2> QED
    BY <2>3, <2>4, <2>5
<1>4. ASSUME NEW t \in Ticks, Load(t) PROVE IsolatedInv'
  <2>1. PICK e \in batch[t] : /\ item' = [item EXCEPT ![t] = e]
                              /\ offered' = offered \cup {e}
    BY <1>4 DEF Load
  <2>2. ASSUME NEW d \in Events, NEW u \in Ticks, JustClaimed(u, d)
        PROVE  d \in offered' \/ JustClaimed(u, d)'
    BY <1>4, <2>1, <2>2 DEF Load
  <2> QED
    BY <1>4, <2>1, <2>2 DEF Load
<1>5. ASSUME NEW t \in Ticks, Publish(t) PROVE IsolatedInv'
  BY <1>5 DEF Publish
<1>6. ASSUME NEW t \in Ticks, Complete(t) PROVE IsolatedInv'
  <2>1. item[t] \in Events /\ claim[item[t]] = t /\ step[t] = "complete"
    BY <1>6 DEF Complete
  <2>2. ASSUME NEW d \in Events, NEW u \in Ticks, JustClaimed(u, d) PROVE JustClaimed(u, d)'
    BY <1>6, <2>1, <2>2 DEF Complete
  <2>3. HoldsItsBatch'
    BY <1>6, <2>1 DEF Complete
  <2>4. SpentOnOffer'
    BY <1>6, <2>2 DEF Complete
  <2> QED
    BY <1>6, <2>3, <2>4 DEF Complete
<1>7. ASSUME NEW t \in Ticks, Raise(t) PROVE IsolatedInv'
  <2>1. EndTick(t) /\ step[t] # "load"
    BY <1>7 DEF Raise
  <2>2. ASSUME NEW d \in Events, NEW u \in Ticks, JustClaimed(u, d) PROVE JustClaimed(u, d)'
    BY <2>1, <2>2 DEF EndTick
  <2>3. HoldsItsBatch'
    BY <2>1 DEF EndTick
  <2>4. SpentOnOffer'
    BY <2>1, <2>2 DEF EndTick
  <2> QED
    BY <2>1, <2>3, <2>4 DEF EndTick
<1>8. CASE UNCHANGED vars
  BY <1>8 DEF vars
<1> QED
  BY <1>1, <1>2, <1>3, <1>4, <1>5, <1>6, <1>7, <1>8 DEF PromptNext, Advance

(* With one row to a claim the promise that only an unpublishable row is parked
   is kept by every prompt tick, whatever the broker refuses: what parks events
   that were never offered (run() in publisher/main.py) is the batch alone. *)
THEOREM SingleRowsParkOnlyOffered ==
  ASSUME BatchSize = 1
  PROVE  PromptSpec => []ParkedWasOffered
<1>1. Init => IsolatedInv
  BY DEF Init, IsolatedInv, HoldsItsBatch, SpentOnOffer, ParkedWasOffered
<1>2. [PromptNext]_vars => [Next]_vars
  BY DEF PromptNext, Next
<1>3. IsolatedInv => ParkedWasOffered
  BY DEF IsolatedInv
<1> QED
  BY <1>1, <1>2, <1>3, TypeInit, TypeStep, IsolatedStep, PTL DEF PromptSpec

=============================================================================
