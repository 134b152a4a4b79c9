----------------------------- MODULE MCTcpConn -----------------------------
(* TcpConn on a small instance: sends shorter than, as long as and longer  *)
(* than a buffer that is just long enough for append to leave the array.   *)
EXTENDS TcpConn

MCByte == 0..MaxBytes
=============================================================================
