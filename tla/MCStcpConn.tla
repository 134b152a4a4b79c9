----------------------------- MODULE MCStcpConn -----------------------------
(* StcpConn on a small instance: a head of two bytes and bodies of one to  *)
(* six, tag included: shorter than a head, as long as the read buffer of   *)
(* four bytes, and longer than it.                                         *)
EXTENDS StcpConn

MaxLength == CHOOSE n \in Lengths : \A m \in Lengths : m <= n

MCByte ==
  [id : RecordId, at : 1..(MaxLength + HeadSize + IvSize)] \cup {Garbage}
=============================================================================
