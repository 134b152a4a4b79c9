---------------------------- MODULE MCRingBuffer ----------------------------
(* RingBuffer on a small instance: enough cells that both parts of a       *)
(* wrapped buffer can hold more than one byte.                             *)
EXTENDS RingBuffer

BothWays == (-Cap..Cap) \ {0}
=============================================================================
