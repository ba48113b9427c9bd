------------------------- MODULE MCOutboxPublisher -------------------------
(* Three rows, the oldest of which the broker refuses, two overlapping ticks. *)
EXTENDS OutboxPublisher
=============================================================================
