----------------------------- MODULE TargetFence -----------------------------
(***************************************************************************)
(* What the governed-action protocol promises, without its tables, leases  *)
(* or workers: an action owns its target from its reservation until a      *)
(* conclusive outcome, may claim the one mutation call only while it owns  *)
(* the target, and keeps the target for ever when the outcome is unknown.  *)
(***************************************************************************)

CONSTANTS Actions, Targets, TargetOf

VARIABLE phase

Phases == {"idle", "reserved", "claimed", "settled", "ambiguous", "abandoned"}

Owning == {"reserved", "claimed", "ambiguous"}

TypeOK == phase \in [Actions -> Phases]

Owns(a) == phase[a] \in Owning

TargetFree(t) == \A b \in Actions : TargetOf[b] = t => ~Owns(b)

MoveTo(a, from, to) ==
  /\ phase[a] = from
  /\ phase' = [phase EXCEPT ![a] = to]

Reserve(a) ==
  /\ TargetFree(TargetOf[a])
  /\ MoveTo(a, "idle", "reserved")

ClaimMutation(a) == MoveTo(a, "reserved", "claimed")

Abandon(a) == MoveTo(a, "reserved", "abandoned")

Settle(a) == MoveTo(a, "claimed", "settled")

SettleAmbiguous(a) == MoveTo(a, "claimed", "ambiguous")

Init == phase = [a \in Actions |-> "idle"]

Next == \E a \in Actions :
  \/ Reserve(a)
  \/ ClaimMutation(a)
  \/ Abandon(a)
  \/ Settle(a)
  \/ SettleAmbiguous(a)

Spec == Init /\ [][Next]_phase

(* A target never has two owners. *)
ExclusiveOwner ==
  \A a, b \in Actions :
    (TargetOf[a] = TargetOf[b] /\ Owns(a) /\ Owns(b)) => a = b

=============================================================================
