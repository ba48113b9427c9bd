-------------------------- MODULE MitigationPromise --------------------------
(***************************************************************************)
(* What one governed action promises the incident it is to mitigate,       *)
(* without runs, requests, leases and row locks: it is executed once and   *)
(* on its authority, judged once and after it succeeded, and the incident  *)
(* leaves a state in which it waits for one of these only with that very   *)
(* outcome or to a person, who finds no authority left behind.             *)
(***************************************************************************)
VARIABLES
  incident, \* where the incident stands; it starts out being mitigated
  action,   \* the action's authority, or what became of it
  receipt,  \* what the action was found to have done
  verdict   \* the independent judgement of the mitigation

vars == <<incident, action, receipt, verdict>>

Init ==
  /\ incident = "MITIGATING"
  /\ action = "AUTHORIZED"
  /\ receipt = "none"
  /\ verdict = "none"

Execute(x) ==
  /\ incident = "MITIGATING"
  /\ action = "AUTHORIZED"
  /\ action' = x
  /\ receipt' = x
  /\ UNCHANGED <<incident, verdict>>

\* A judgement may still come when the incident was escalated meanwhile.
Judge(v) ==
  /\ incident \in {"VERIFYING_MITIGATION", "ESCALATED"}
  /\ receipt = "SUCCEEDED"
  /\ verdict = "none"
  /\ verdict' = v
  /\ UNCHANGED <<incident, action, receipt>>

Move(from, to) ==
  /\ incident = from
  /\ incident' = to
  /\ UNCHANGED <<action, receipt, verdict>>

Advance ==
  \/ receipt = "SUCCEEDED" /\ Move("MITIGATING", "VERIFYING_MITIGATION")
  \/ receipt = "FAILED" /\ Move("MITIGATING", "MITIGATION_PROPOSED")
  \/ verdict = "VERIFIED" /\ Move("VERIFYING_MITIGATION", "MITIGATED")
  \/ verdict = "FAILED" /\ Move("VERIFYING_MITIGATION", "AWAITING_APPROVAL")

Escalate ==
  /\ incident \in {"MITIGATING", "VERIFYING_MITIGATION"}
  /\ incident' = "ESCALATED"
  /\ IF action = "AUTHORIZED" THEN action' \in {"INVALIDATED", "AMBIGUOUS"}
                              ELSE UNCHANGED action
  /\ UNCHANGED <<receipt, verdict>>

Next ==
  \/ Advance
  \/ Escalate
  \/ \E x \in {"SUCCEEDED", "FAILED", "AMBIGUOUS"} : Execute(x)
  \/ \E v \in {"VERIFIED", "FAILED"} : Judge(v)

Spec == Init /\ [][Next]_vars
=============================================================================
