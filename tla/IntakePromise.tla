---------------------------- MODULE IntakePromise ----------------------------
(***************************************************************************)
(* What the intake makes of alerts and of the incident's own commands,     *)
(* without claims, tokens, attempts or open transactions: an alert takes   *)
(* effect once, and that effect is the incident it opens or joins; a       *)
(* command exists for every state the incident entered; the first command  *)
(* moves the incident and is used up by the same step.  What is parked has *)
(* no effect, ever.                                                        *)
(***************************************************************************)
CONSTANTS Alerts

Commands == {"DETECTED", "TRIAGING", "INVESTIGATING"}

VARIABLES
  alert,   \* alert[a]: none yet, waiting, done or parked
  command, \* command[c]: the same, of the command of entering state c
  incident \* the incident's state, or absent

vars == <<alert, command, incident>>

Init ==
  /\ alert = [a \in Alerts |-> "none"]
  /\ command = [c \in Commands |-> "none"]
  /\ incident = "absent"

Raise(a) ==
  /\ alert[a] = "none"
  /\ alert' = [alert EXCEPT ![a] = "waiting"]
  /\ UNCHANGED <<command, incident>>

\* Alerts take effect: the first ones open the incident.
Absorb(A) ==
  /\ A # {}
  /\ \A a \in A : alert[a] = "waiting"
  /\ alert' = [a \in Alerts |-> IF a \in A THEN "done" ELSE alert[a]]
  /\ incident' = IF incident = "absent" THEN "DETECTED" ELSE incident
  /\ UNCHANGED command

\* The incident has been in the state the command tells of.
Entered(c) == c = incident \/ (c = "DETECTED" /\ incident = "TRIAGING")

Issue(c) ==
  /\ command[c] = "none"
  /\ Entered(c)
  /\ command' = [command EXCEPT ![c] = "waiting"]
  /\ UNCHANGED <<alert, incident>>

Triage ==
  /\ command["DETECTED"] = "waiting"
  /\ incident = "DETECTED"
  /\ command' = [command EXCEPT !["DETECTED"] = "done"]
  /\ incident' = "TRIAGING"
  /\ UNCHANGED alert

\* Every other command is taken note of.
Note(c) ==
  /\ c # "DETECTED"
  /\ command[c] = "waiting"
  /\ command' = [command EXCEPT ![c] = "done"]
  /\ UNCHANGED <<alert, incident>>

Park(A, C) ==
  /\ \A a \in A : alert[a] = "waiting"
  /\ \A c \in C : command[c] = "waiting"
  /\ alert' = [a \in Alerts |-> IF a \in A THEN "parked" ELSE alert[a]]
  /\ command' = [c \in Commands |-> IF c \in C THEN "parked" ELSE command[c]]
  /\ UNCHANGED incident

Next ==
  \/ Triage
  \/ \E a \in Alerts : Raise(a)
  \/ \E A \in SUBSET Alerts : Absorb(A)
  \/ \E c \in Commands : Issue(c) \/ Note(c)
  \/ \E A \in SUBSET Alerts, C \in SUBSET Commands : Park(A, C)

Spec == Init /\ [][Next]_vars
=============================================================================
