------------------------------ MODULE RingOps ------------------------------
(***************************************************************************)
(* ring_buffer (src/ring_buffer.h, src/ring_buffer.cc): Cap bytes in an    *)
(* array of one cell more, between a front and a back offset that go round *)
(* it.  A pointer is its offset from m_base, and m_last is Cells.  Here    *)
(* are its operations, on the buffer as a record; RingBuffer and TcpConn   *)
(* are state machines that use them.                                       *)
(***************************************************************************)
EXTENDS Integers, Sequences

CONSTANTS
  Byte,  \* the values of a byte
  Cap    \* the capacity, n of the constructor

ASSUME CapAssumption == Cap \in Nat \ {0}

Cells == Cap + 1
Offset == 0..Cap
Buffer == [cells : [Offset -> Byte], front : Offset, back : Offset]

Least(a, b) == IF a <= b THEN a ELSE b

\* Variant: the offset goes round one cell late.
WrapLate(c) == IF c > Cells THEN 0 ELSE c

\* if (++p == m_last) p = m_base, and its opposite.
Wrap(c) == IF c = Cells THEN 0 ELSE c
Before(c) == IF c = 0 THEN Cells - 1 ELSE c - 1

\* ring_buffer_iterator::index.
Index(r, c) ==
  IF c >= r.front THEN c - r.front ELSE (Cells - r.front) - c

\* end() - begin(), before the conversion to size_t makes a huge number of a
\* negative one.
Size(r) == Index(r, r.back) - Index(r, r.front)

Empty(r) == r.front = r.back

Full(r) == Wrap(r.back + 1) = r.front

\* Variants: one byte short; any length while the buffer is not full.
HasRoomStrict(r, len) == Cap - Size(r) > len
HasRoomForOne(r, len) == Cap - Size(r) > 0

\* capacity() - size() >= len and size() >= len, in size_t.
HasRoom(r, len) == Cap - Size(r) >= len
HasBytes(r, len) == Size(r) < 0 \/ Size(r) >= len

PushedBack(r, b) ==
  [r EXCEPT !.cells[r.back] = b, !.back = Wrap(r.back + 1)]

PushedFront(r, b) ==
  [r EXCEPT !.cells[Before(r.front)] = b, !.front = Before(r.front)]

PoppedBack(r) == [r EXCEPT !.back = Before(r.back)]

PoppedFront(r) == [r EXCEPT !.front = Wrap(r.front + 1)]

\* memcpy of data to, and of n bytes from, the cells that start at c.
Stored(cells, c, data) ==
  [i \in Offset |-> IF i \in c..(c + Len(data) - 1) THEN data[i - c + 1] ELSE cells[i]]

Loaded(cells, c, n) == [i \in 1..n |-> cells[c + i - 1]]

\* Variant: the part that does not fit before the end is left out.
AppendedOnce(r, data) ==
  LET n == Least(Len(data), Cells - r.back)
  IN  [r EXCEPT !.cells = Stored(r.cells, r.back, SubSeq(data, 1, n)),
                !.back = Wrap(r.back + n)]

Appended(r, data) ==
  LET n == Least(Len(data), Cells - r.back)
      c == Wrap(r.back + n)
      head == SubSeq(data, 1, n)
      rest == SubSeq(data, n + 1, Len(data))
  IN  [r EXCEPT !.cells = Stored(Stored(r.cells, r.back, head), c, rest),
                !.back = c + Len(rest)]

\* The second memcpy of append ends past m_last, or at it, where m_back is then
\* left and no later push_back finds the end of the array; so does that of poll.
AppendOverruns(r, len) ==
  LET n == Least(len, Cells - r.back)
  IN  len > n /\ len - n >= Cells - Wrap(r.back + n)

PollOverruns(r, len) ==
  LET n == Least(len, Cells - r.front)
  IN  len > n /\ len - n >= Cells - Wrap(r.front + n)

Polled(r, len) ==
  LET n == Least(len, Cells - r.front)
      c == Wrap(r.front + n)
  IN  [buf |-> [r EXCEPT !.front = c + (len - n)],
       data |-> Loaded(r.cells, r.front, n) \o Loaded(r.cells, c, len - n)]

\* poll(f): f is offered the bytes up to the back or to the end of the array
\* and takes n of them; if it takes all up to the end of the array it is
\* offered the rest, and takes m.  (A second f that throws leaves the same
\* buffer as m = 0, a first one that of n = 0.)
Offered(r) == IF r.front <= r.back THEN r.back - r.front ELSE Cells - r.front

OfferedNext(r, n) ==
  IF r.front > r.back /\ r.front + n = Cells THEN r.back ELSE 0

PolledBy(r, n, m) ==
  [buf |-> [r EXCEPT !.front = Wrap(r.front + n) + m],
   data |-> Loaded(r.cells, r.front, n) \o Loaded(r.cells, 0, m)]

\* Variant: one cell too far after the end of the array.
MovedPastBase(c, n) ==
  LET m == Least(Cells - c - 1, n)
  IN  IF n - m # 0 THEN n - m ELSE c + m

\* ring_buffer_iterator::move, forwards and backwards.
Moved(c, n) ==
  IF n >= 0
  THEN LET m == Least(Cells - c - 1, n)
       IN  IF n - m # 0 THEN n - m - 1 ELSE c + m
  ELSE LET m == IF -c >= n THEN -c ELSE n
       IN  IF n - m # 0 THEN n - m ELSE c + m

MoveAllowed(r, c, n) ==
  IF n >= 0 THEN Index(r, r.back) - Index(r, c) >= n
            ELSE Index(r, r.front) - Index(r, c) <= n

-----------------------------------------------------------------------------
(* What the buffer holds *)

Occupied(r) ==
  IF r.front <= r.back THEN r.back - r.front ELSE Cells - r.front + r.back

\* The offset of the byte number i from the front.
Place(r, i) ==
  IF r.front + i < Cells THEN r.front + i ELSE r.front + i - Cells

Content(r) == [i \in 1..Occupied(r) |-> r.cells[Place(r, i - 1)]]

-----------------------------------------------------------------------------
(* What its owner promises *)

\* tcp_conn::send takes the first n of size bytes.  It throws when those are
\* not all; a send that fits the write buffer it takes whole or not at all.
Takes(n, size) == n \in {0, size} \/ (n < size /\ size > Cap)
=============================================================================
