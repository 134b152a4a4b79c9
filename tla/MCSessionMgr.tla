---------------------------- MODULE MCSessionMgr ----------------------------
(* SessionMgr on a small instance: deadlines more than one round of the    *)
(* wheel ahead, a clock that passes two of them, and an update() that may  *)
(* come late by more than a round.                                         *)
EXTENDS SessionMgr
=============================================================================
