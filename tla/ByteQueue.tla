----------------------------- MODULE ByteQueue -----------------------------
(***************************************************************************)
(* What ring_buffer promises its callers: a queue of at most Cap bytes     *)
(* with two ends, and bulk operations that append at the back and hand out *)
(* from the front, in order.                                               *)
(***************************************************************************)
EXTENDS Integers, Sequences

CONSTANTS
  Byte,  \* the values of a byte
  Cap    \* the capacity

VARIABLES
  queue,  \* the bytes, oldest first
  data    \* the bytes that the last call took in or handed out

vars == <<queue, data>>

Init == queue = <<>> /\ data = <<>>

PushBack(b) ==
  /\ Len(queue) < Cap
  /\ queue' = Append(queue, b)
  /\ data' = <<b>>

PushFront(b) ==
  /\ Len(queue) < Cap
  /\ queue' = <<b>> \o queue
  /\ data' = <<b>>

PopBack ==
  /\ queue # <<>>
  /\ queue' = SubSeq(queue, 1, Len(queue) - 1)
  /\ data' = <<>>

PopFront ==
  /\ queue # <<>>
  /\ queue' = Tail(queue)
  /\ data' = <<>>

Peek ==
  /\ queue # <<>>
  /\ data' \in {<<queue[1]>>, <<queue[Len(queue)]>>}
  /\ UNCHANGED queue

AppendAll(bytes) ==
  /\ Len(queue) + Len(bytes) <= Cap
  /\ queue' = queue \o bytes
  /\ data' = bytes

Poll(n) ==
  /\ n <= Len(queue)
  /\ queue' = SubSeq(queue, n + 1, Len(queue))
  /\ data' = SubSeq(queue, 1, n)

Next ==
  \/ \E b \in Byte : PushBack(b) \/ PushFront(b)
  \/ PopBack
  \/ PopFront
  \/ Peek
  \/ \E n \in 0..Cap : Poll(n) \/ \E bytes \in [1..n -> Byte] : AppendAll(bytes)

Spec == Init /\ [][Next]_vars
=============================================================================
