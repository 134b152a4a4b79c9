------------------------------- MODULE MCSudp -------------------------------
(* Sudp on a small instance: packets that are empty, that just fit the     *)
(* bytes that are asked of the socket, and that do not; and datagrams of   *)
(* no peer that are shorter than, as long as and longer than iv and tag.   *)
EXTENDS Sudp
=============================================================================
