---------------------------- MODULE StagedExposure ----------------------------
(***************************************************************************)
(* What a staged release promises about production traffic, whatever       *)
(* crashes, redelivery and operators do around it: a stage is exposed only *)
(* on the verdicts of all stages before it, a release that failed is       *)
(* withdrawn and never raised again, an effect nobody can account for is   *)
(* the last one, and a closed release changes nothing any more.            *)
(***************************************************************************)
EXTENDS Naturals

CONSTANT Stages  \* number of canary stages

Nobody == Stages + 1  \* no effect is unaccounted for

VARIABLES
  raised,   \* effects that reached production; 0 is the withdrawal
  verdict,  \* verdict[s] of stage s; 0 is the withdrawal
  sealed,   \* the effect declared unknowable (Nobody: none)
  outcome   \* "open", "promoted" or "withdrawn"

vars == <<raised, verdict, sealed, outcome>>

Init ==
  /\ raised = {}
  /\ verdict = [s \in 0..Stages |-> "none"]
  /\ sealed = Nobody
  /\ outcome = "open"

MayReach(e) ==
  /\ outcome = "open"
  /\ sealed \in {e, Nobody}
  /\ 0 \notin raised

\* A stage is raised once every stage before it has been verified.
Raise(s) ==
  /\ MayReach(s)
  /\ \A before \in 1..(s - 1) : verdict[before] = "VERIFIED"
  /\ \A later \in s..Stages : verdict[later] # "FAILED"
  /\ raised' = raised \cup {s}
  /\ UNCHANGED <<verdict, sealed, outcome>>

\* Only a failed stage is withdrawn.  The request may still arrive when the
\* release counts as withdrawn already, somebody else having restored traffic.
Withdraw ==
  /\ outcome # "promoted"
  /\ sealed \in {0, Nobody}
  /\ \E s \in 1..Stages : verdict[s] = "FAILED"
  /\ raised' = raised \cup {0}
  /\ UNCHANGED <<verdict, sealed, outcome>>

\* One verdict for a stage, and none for a stage after a failed one.
Judge(s, result) ==
  /\ verdict[s] = "none"
  /\ outcome = "open"
  /\ s > 0 => \A before \in 1..Stages : verdict[before] # "FAILED"
  /\ verdict' = [verdict EXCEPT ![s] = result]
  /\ UNCHANGED <<raised, sealed, outcome>>

Seal(e) ==
  /\ outcome = "open"
  /\ sealed = Nobody
  /\ sealed' = e
  /\ UNCHANGED <<raised, verdict, outcome>>

\* Promoted on the last stage's verdict, withdrawn on the withdrawal's.
Close ==
  /\ outcome = "open"
  /\ sealed = Nobody
  /\ \/ outcome' = "promoted" /\ \A s \in 1..Stages : verdict[s] = "VERIFIED"
     \/ outcome' = "withdrawn" /\ verdict[0] = "VERIFIED"
  /\ UNCHANGED <<raised, verdict, sealed>>

Next ==
  \/ Withdraw
  \/ Close
  \/ \E e \in 0..Stages : Seal(e)
  \/ \E s \in 1..Stages : Raise(s)
  \/ \E s \in 0..Stages, result \in {"VERIFIED", "FAILED"} : Judge(s, result)

Spec == Init /\ [][Next]_vars
===============================================================================
