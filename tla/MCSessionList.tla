--------------------------- MODULE MCSessionList ---------------------------
(* SessionList on a small instance: three clients' addresses and a wheel   *)
(* of two lists, so that a list has up to three entries, with deadlines of *)
(* different rounds of the wheel; and memory for one entry that leaked.    *)
EXTENDS SessionList
=============================================================================
