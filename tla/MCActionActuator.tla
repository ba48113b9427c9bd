-------------------------- MODULE MCActionActuator --------------------------
(* Small instance of ActionActuator: two actions on one shared target. *)
EXTENDS ActionActuator, TLC

CONSTANTS a1, a2, t1, c1, c2, c3, v0, v1, v2

MCTargetOf == (a1 :> t1) @@ (a2 :> t1)
MCKnownGood == (a1 :> v1) @@ (a2 :> v2)
MCInitialVersion == (t1 :> v0)
CallSymmetry == Permutations(Calls)

=============================================================================
