------------------------------ MODULE MCPoller ------------------------------
(* Poller on a small instance: fewer descriptors and addresses than        *)
(* connections, so that both are used again, and two sends, of two         *)
(* connections or of one that sends again after its bytes are gone.        *)
EXTENDS Poller
=============================================================================
