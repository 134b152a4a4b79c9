------------------------------ MODULE MCRelay ------------------------------
(* Relay on a small instance: a client at either of two addresses, one of  *)
(* which has 15 characters, so that a packet for a session that is missing *)
(* is an error or the end of the process; two endpoints, two datagrams to  *)
(* the server and an answer.                                               *)
EXTENDS Relay
=============================================================================
