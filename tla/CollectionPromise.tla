-------------------------- MODULE CollectionPromise --------------------------
(***************************************************************************)
(* What a Relay collection job promises the Tool call it serves: the call  *)
(* succeeds at most once and only with a result that was read in the       *)
(* customer's environment, and it is failed only if nothing was read and   *)
(* nothing ever will be.                                                   *)
(***************************************************************************)
CONSTANTS Jobs

VARIABLES
  call, \* the Tool call: none, RESERVED, SUCCEEDED or FAILED
  read  \* jobs for which the provider was read

Init ==
  /\ call = [j \in Jobs |-> "none"]
  /\ read = {}

Reserve(j) ==
  /\ call[j] = "none"
  /\ call' = [call EXCEPT ![j] = "RESERVED"]
  /\ UNCHANGED read

(* A result collected after the call succeeded changes nothing any more. *)
Read(j) ==
  /\ call[j] \in {"RESERVED", "SUCCEEDED"}
  /\ read' = read \cup {j}
  /\ UNCHANGED call

Succeed(j) ==
  /\ call[j] = "RESERVED"
  /\ j \in read
  /\ call' = [call EXCEPT ![j] = "SUCCEEDED"]
  /\ UNCHANGED read

(* One sweep may close several calls. *)
Fail(S) ==
  /\ S # {}
  /\ S \cap read = {}
  /\ \A j \in S : call[j] = "RESERVED"
  /\ call' = [j \in Jobs |-> IF j \in S THEN "FAILED" ELSE call[j]]
  /\ UNCHANGED read

Next ==
  \/ \E j \in Jobs : Reserve(j) \/ Read(j) \/ Succeed(j)
  \/ \E S \in SUBSET Jobs : Fail(S)

Spec == Init /\ [][Next]_<<call, read>>
=============================================================================
