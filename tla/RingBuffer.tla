----------------------------- MODULE RingBuffer -----------------------------
(***************************************************************************)
(* A ring_buffer and a caller of it that makes any sequence of calls; the  *)
(* operations are those of RingOps, with the asserts that guard them.      *)
(***************************************************************************)
EXTENDS RingOps

CONSTANTS
  Strides,  \* the n with which the caller moves an iterator
  NoIter    \* "the caller holds no iterator"

ASSUME IterAssumption == Strides \subseteq Int /\ NoIter \notin Int

VARIABLES
  ring,     \* the buffer
  data,     \* the bytes that the last call took in or handed out
  it,       \* the offset of the caller's iterator, or NoIter
  pos,      \* how many bytes are before it, as the caller counts
  aborted   \* the kind of call whose assert failed, or "no"

ring_vars == <<ring, data, it, pos, aborted>>

\* new uint8_t[n + 1] leaves the cells uninitialized.
RingInit ==
  /\ ring \in [cells : [Offset -> Byte], front : {0}, back : {0}]
  /\ data = <<>>
  /\ it = NoIter
  /\ pos = 0
  /\ aborted = "no"

Abort(kind) == aborted' = kind /\ UNCHANGED <<ring, data, it, pos>>

\* A call that changes the buffer; the caller gives up its iterator.
Changes(r, bytes) ==
  ring' = r /\ data' = bytes /\ it' = NoIter /\ pos' = 0 /\ UNCHANGED aborted

PushBack(b) ==
  IF Full(ring) THEN Abort("push") ELSE Changes(PushedBack(ring, b), <<b>>)

PushFront(b) ==
  IF Full(ring) THEN Abort("push") ELSE Changes(PushedFront(ring, b), <<b>>)

PopBack ==
  IF Empty(ring) THEN Abort("pop") ELSE Changes(PoppedBack(ring), <<>>)

PopFront ==
  IF Empty(ring) THEN Abort("pop") ELSE Changes(PoppedFront(ring), <<>>)

Front ==
  /\ ~Empty(ring)
  /\ data' = <<ring.cells[ring.front]>>
  /\ UNCHANGED <<ring, it, pos, aborted>>

Back ==
  /\ ~Empty(ring)
  /\ data' = <<ring.cells[Before(ring.back)]>>
  /\ UNCHANGED <<ring, it, pos, aborted>>

AppendData(bytes) ==
  IF HasRoom(ring, Len(bytes))
  THEN Changes(Appended(ring, bytes), bytes)
  ELSE Abort("append")

Poll(len) ==
  IF HasBytes(ring, len)
  THEN Changes(Polled(ring, len).buf, Polled(ring, len).data)
  ELSE Abort("poll")

PollBy(n, m) ==
  Changes(PolledBy(ring, n, m).buf, PolledBy(ring, n, m).data)

IterAt(c, n) == it' = c /\ pos' = n /\ UNCHANGED <<ring, data, aborted>>

IterBegin == IterAt(ring.front, 0)
IterEnd == IterAt(ring.back, Occupied(ring))

IterIncrement ==
  IF it = ring.back THEN Abort("iter") ELSE IterAt(Wrap(it + 1), pos + 1)

IterDecrement ==
  IF it = ring.front THEN Abort("iter") ELSE IterAt(Before(it), pos - 1)

IterMove(n) ==
  IF MoveAllowed(ring, it, n) THEN IterAt(Moved(it, n), pos + n) ELSE Abort("iter")

\* An iterator that has left the array is of no more use.
ReadOnly ==
  \/ Front
  \/ Back
  \/ IterBegin
  \/ IterEnd
  \/ /\ it # NoIter /\ it >= 0
     /\ \/ pos < Occupied(ring) /\ IterIncrement
        \/ pos > 0 /\ IterDecrement
        \/ \E n \in Strides : pos + n \in 0..Occupied(ring) /\ IterMove(n)

\* The calls of a caller that knows how many bytes there are.
Call ==
  LET room == Cap - Occupied(ring)
  IN  \/ room > 0 /\ \E b \in Byte : PushBack(b) \/ PushFront(b)
      \/ room < Cap /\ (PopBack \/ PopFront)
      \/ \E n \in 0..room : \E bytes \in [1..n -> Byte] : AppendData(bytes)
      \/ \E n \in 0..Occupied(ring) : Poll(n)
      \/ \E n \in 0..Offered(ring) : \E m \in 0..OfferedNext(ring, n) : PollBy(n, m)
      \/ ReadOnly

RingNext == aborted = "no" /\ Call

RingSpec == RingInit /\ [][RingNext]_ring_vars

\* A caller that appends whatever the assert of append lets through.
TrustingNext ==
  /\ aborted = "no"
  /\ \/ Call
     \/ \E n \in 0..Cap : \E bytes \in [1..n -> Byte] : AppendData(bytes)

TrustingSpec == RingInit /\ [][TrustingNext]_ring_vars

-----------------------------------------------------------------------------

(* Every variable holds values of its type: in particular no call leaves   *)
(* an offset one past the last cell.                                       *)
RingTypeOK ==
  /\ ring \in Buffer
  /\ data \in UNION {[1..n -> Byte] : n \in 0..Cap}
  /\ it \in Int \cup {NoIter}
  /\ pos \in 0..Cap
  /\ aborted \in {"no", "push", "pop", "append", "poll", "iter"}

(* For a caller that asks for no more than there is, the asserts of the    *)
(* single-byte calls and of append never fail, and those that measure with *)
(* index() fail only while the bytes wrap round the end of the array.      *)
AssertsFailOnlyWrapped ==
  aborted # "no" =>
    aborted \in {"poll", "iter"} /\ ring.back < ring.front

(* An iterator stands where the caller counts it, however it was moved --  *)
(* but for a stride backwards over the start of the array, which leaves it *)
(* before the array and not before its end.                                *)
IterAtItsPlace ==
  it # NoIter => it = Place(ring, pos) \/ it < 0

Queue == INSTANCE ByteQueue WITH queue <- Content(ring)

(* The ring implements a queue of Cap bytes: every order of single-byte    *)
(* and bulk calls, wherever the array's end falls in them.                 *)
QueueSpec == Queue!Spec

(* What append's assert is there for: an append that it lets through keeps *)
(* the bytes that are still unread.                                        *)
AppendKeepsUnread ==
  [][\A n \in 0..Cap : \A bytes \in [1..n -> Byte] :
       (AppendData(bytes) /\ aborted' = "no") => Content(ring') = Content(ring) \o bytes]_ring_vars
=============================================================================
