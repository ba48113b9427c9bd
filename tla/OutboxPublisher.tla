-------------------------- MODULE OutboxPublisher --------------------------
(***************************************************************************)
(* The durable outbox: rows written by workflow transactions, scheduled    *)
(* publisher ticks that claim a batch under a token and a time to live,    *)
(* hand each event to the broker and mark it published, and the bounded    *)
(* attempt budget that ends in quarantine.                                 *)
(*                                                                         *)
(* A tick handles its batch without isolating one event from the next: any *)
(* exception ends the tick, and what it had claimed waits for the claims   *)
(* to expire, its attempts spent.                                          *)
(***************************************************************************)
EXTENDS Naturals, FiniteSets

CONSTANTS
  Events,        \* outbox rows, numbered in (created_at, id) order
  Ticks,         \* publisher ticks that may run at the same time
  Budget,        \* OUTBOX_PUBLISH_ATTEMPT_BUDGET
  BatchSize,     \* rows a tick claims at most
  Unpublishable, \* events the broker refuses however often it is asked
  Nobody,        \* no claim token, or one whose time to live is over
  Gone           \* the live token of a tick that no longer runs

ASSUME OutboxAssumption ==
  /\ Events \subseteq Nat
  /\ Budget \in Nat \ {0}
  /\ BatchSize \in Nat \ {0}
  /\ Unpublishable \subseteq Events
  /\ Nobody # Gone
  /\ IsFiniteSet(Ticks)
  /\ Ticks \cap {Nobody, Gone} = {}

VARIABLES
  row,      \* unwritten, unpublished, published (published_at), quarantined
  attempts, \* publish_attempts
  claim,    \* the tick whose live token the row carries
  batch,    \* the claims a tick has not finished with
  step,     \* where a tick stands
  item,     \* the event a tick is publishing
  sends,    \* how often the broker accepted the event
  offered   \* events some tick took as far as the broker

rows  == <<row, attempts, claim>>
ticks == <<batch, step, item>>
vars  == <<rows, ticks, sends, offered>>

TypeOK ==
  /\ row \in [Events -> {"unwritten", "unpublished", "published", "quarantined"}]
  /\ attempts \in [Events -> 0..Budget]
  /\ claim \in [Events -> Ticks \cup {Nobody, Gone}]
  /\ batch \in [Ticks -> SUBSET Events]
  /\ step \in [Ticks -> {"idle", "load", "publish", "complete"}]
  /\ item \in [Ticks -> Events \cup {Nobody}]
  /\ sends \in [Events -> Nat]
  /\ offered \subseteq Events

Init ==
  /\ row = [e \in Events |-> "unwritten"]
  /\ attempts = [e \in Events |-> 0]
  /\ claim = [e \in Events |-> Nobody]
  /\ batch = [t \in Ticks |-> {}]
  /\ step = [t \in Ticks |-> "idle"]
  /\ item = [t \in Ticks |-> Nobody]
  /\ sends = [e \in Events |-> 0]
  /\ offered = {}

-----------------------------------------------------------------------------
(* Deviation: any written row without a live claim. *)
Unclaimed(e) == row[e] # "unwritten" /\ claim[e] = Nobody

(* Neither published nor quarantined, and no token or an expired one: the rows
   both the quarantine and the claim statement look at. *)
Open(e) == row[e] = "unpublished" /\ claim[e] = Nobody

(* Deviations: exhausted rows left where they are, or claimed again. *)
NoneExhausted == {}
ReadyForEver == {e \in Events : Open(e)}

Exhausted == {e \in Events : Open(e) /\ attempts[e] >= Budget}
Ready == {e \in Events : Open(e) /\ attempts[e] < Budget}

(* ORDER BY created_at, id ... LIMIT batch_size *)
First(S) == {e \in S : Cardinality({d \in S : d < e}) < BatchSize}

(* Deviation: a claim costs nothing. *)
SpendNothing(S) == attempts' = attempts

(* Each claim consumes one attempt. *)
Spend(S) == attempts' = [e \in Events |-> IF e \in S THEN attempts[e] + 1 ELSE attempts[e]]

(* A workflow transaction commits its outbox row.  created_at is the start of
   that transaction, so rows need not become visible in order. *)
Write(e) ==
  /\ row[e] = "unwritten"
  /\ row' = [row EXCEPT ![e] = "unpublished"]
  /\ UNCHANGED <<attempts, claim, ticks, sends, offered>>

(* claim_outbox: quarantine what exhausted its budget, then claim a batch
   under one fresh token, in one transaction. *)
ClaimBatch(t) ==
  /\ step[t] = "idle"
  /\ Exhausted \cup Ready # {}
  /\ row' = [e \in Events |-> IF e \in Exhausted THEN "quarantined" ELSE row[e]]
  /\ claim' = [e \in Events |-> IF e \in First(Ready) THEN t ELSE claim[e]]
  /\ Spend(First(Ready))
  /\ batch' = [batch EXCEPT ![t] = First(Ready)]
  /\ step' = [step EXCEPT ![t] = IF Ready = {} THEN "idle" ELSE "load"]
  /\ UNCHANGED <<item, sends, offered>>

(* Deviation: the row is completed before it is published. *)
LoadUnsent(t) ==
  /\ step[t] = "load"
  /\ \E e \in batch[t] : claim[e] = t /\ item' = [item EXCEPT ![t] = e]
  /\ step' = [step EXCEPT ![t] = "complete"]
  /\ UNCHANGED <<rows, batch, sends, offered>>

(* The row is read only under the live token.  UPDATE ... RETURNING promises
   no order, so the tick may take its claims in any. *)
Load(t) ==
  /\ step[t] = "load"
  /\ \E e \in batch[t] :
       /\ claim[e] = t
       /\ item' = [item EXCEPT ![t] = e]
       /\ offered' = offered \cup {e}
  /\ step' = [step EXCEPT ![t] = "publish"]
  /\ UNCHANGED <<rows, batch, sends>>

(* The broker accepts the event; the tick holds no transaction meanwhile. *)
Publish(t) ==
  /\ step[t] = "publish"
  /\ item[t] \notin Unpublishable
  /\ sends' = [sends EXCEPT ![item[t]] = @ + 1]
  /\ step' = [step EXCEPT ![t] = "complete"]
  /\ UNCHANGED <<rows, batch, item, offered>>

(* complete_outbox marks the row published under the live token only. *)
Complete(t) ==
  LET e == item[t] IN
  /\ step[t] = "complete"
  /\ claim[e] = t
  /\ row' = [row EXCEPT ![e] = "published"]
  /\ claim' = [claim EXCEPT ![e] = Nobody]
  /\ batch' = [batch EXCEPT ![t] = @ \ {e}]
  /\ step' = [step EXCEPT ![t] = IF batch[t] = {e} THEN "idle" ELSE "load"]
  /\ item' = [item EXCEPT ![t] = Nobody]
  /\ UNCHANGED <<attempts, sends, offered>>

(* The tick is over; nothing returns the claims it still holds. *)
EndTick(t) ==
  /\ claim' = [e \in Events |-> IF claim[e] = t THEN Gone ELSE claim[e]]
  /\ batch' = [batch EXCEPT ![t] = {}]
  /\ step' = [step EXCEPT ![t] = "idle"]
  /\ item' = [item EXCEPT ![t] = Nobody]
  /\ UNCHANGED <<row, attempts, sends, offered>>

(* An exception: a stale claim on load, a broker that refuses or is out, a
   claim lost before completion. *)
Raise(t) ==
  /\ \/ step[t] = "load" /\ \E e \in batch[t] : claim[e] # t
     \/ step[t] = "publish"
     \/ step[t] = "complete" /\ claim[item[t]] # t
  /\ EndTick(t)

(* The process dies, or the broker's answer is lost. *)
Crash(t) == step[t] # "idle" /\ EndTick(t)

(* claim_expires_at passes.  An expired token is fenced out everywhere a
   missing one is, so the row counts as unclaimed. *)
Expire(e) ==
  /\ claim[e] # Nobody
  /\ claim' = [claim EXCEPT ![e] = Nobody]
  /\ UNCHANGED <<row, attempts, ticks, sends, offered>>

Advance(t) == Load(t) \/ Publish(t) \/ Complete(t) \/ Raise(t)

Next ==
  \/ \E e \in Events : Write(e) \/ Expire(e)
  \/ \E t \in Ticks : ClaimBatch(t) \/ Advance(t) \/ Crash(t)

(* The scheduler keeps ticking, a running tick takes its next step or dies,
   and a claim's time to live ends. *)
Fairness ==
  /\ WF_vars(\E t \in Ticks : ClaimBatch(t))
  /\ \A t \in Ticks : WF_vars(Advance(t))
  /\ \A e \in Events : WF_vars(Expire(e))

Spec == Init /\ [][Next]_vars /\ Fairness

(* The behaviours in which no tick dies and none outlives its claims: a claim
   expires only after the tick that held it raised an exception. *)
PromptNext ==
  \/ \E e \in Events : Write(e) \/ (claim[e] = Gone /\ Expire(e))
  \/ \E t \in Ticks : ClaimBatch(t) \/ Advance(t)

PromptSpec == Init /\ [][PromptNext]_vars

-----------------------------------------------------------------------------
(* No event is marked published that the broker never accepted, whichever of
   several ticks claimed, published and completed it. *)
PublishedWasSent == \A e \in Events : row[e] = "published" => sends[e] > 0

(* Every delivery was paid for by a claim of its own: late, crashed and
   superseded ticks together never send an event more often than its attempt
   counter says, so the budget bounds the duplicates consumers see. *)
SendsArePaid == \A e \in Events : sends[e] <= attempts[e]

(* Publication and quarantine are final: whatever a stale tick does later, a
   settled row stays as it is and is never claimed again. *)
SettledIsFinal ==
  [][\A e \in Events : row[e] \in {"published", "quarantined"} =>
       row'[e] = row[e] /\ attempts'[e] = attempts[e] /\ claim'[e] = Nobody]_vars

(* A written event does not stay in the outbox for ever: lost ticks, refused
   publications and lost claims all end in publication or in quarantine. *)
EventsSettle ==
  \A e \in Events : row[e] = "unpublished" ~> row[e] \in {"published", "quarantined"}

(* "An unpublishable row that exhausts the budget is parked": what is parked
   was at least once taken to the broker. *)
ParkedWasOffered == \A e \in Events : row[e] = "quarantined" => e \in offered
=============================================================================
