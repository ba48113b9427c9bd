--------------------------- MODULE MCActuatorRoute ---------------------------
(* Small instance of ActuatorRoute: a request, its retry, two ticks, and a
   verification call and its retry. *)
EXTENDS ActuatorRoute

CONSTANTS r1, r2, p1, p2, c1, c2

=============================================================================
