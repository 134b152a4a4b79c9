----------------------------- MODULE RingProofs -----------------------------
(***************************************************************************)
(* Proofs about the operations of RingOps, the state machine RingBuffer    *)
(* that calls them, and the connection TcpConn that sends from such a      *)
(* buffer, for any capacity and any set of bytes.                          *)
(***************************************************************************)
EXTENDS RingBuffer, TcpConn, SequenceTheorems, TLAPS

-----------------------------------------------------------------------------
(* Sequences that are written as functions *)

\* A function on 1..n is a sequence of length n.
LEMMA FunctionIsSeq ==
  ASSUME NEW S, NEW n \in Nat, NEW f \in [1..n -> S]
  PROVE  f \in Seq(S) /\ Len(f) = n
<1>1. f \in Seq(S)
  BY SeqDef
<1>2. Len(f) = n
  BY <1>1, LenProperties
<1>3. QED
  BY <1>1, <1>2

-----------------------------------------------------------------------------
(* What a buffer holds *)

\* The ranges of a buffer's fields, and the cells that its bytes lie in.
LEMMA BufferFields ==
  ASSUME NEW r \in Buffer
  PROVE  /\ r.cells \in [Offset -> Byte]
         /\ r.front \in 0..Cap /\ r.back \in 0..Cap
         /\ r.front \in Offset /\ r.back \in Offset
         /\ Cap \in Nat \ {0} /\ Cells = Cap + 1
         /\ Occupied(r) \in 0..Cap
         /\ \A i \in 0..(Occupied(r) - 1) : Place(r, i) \in Offset
<1> DEFINE f == r.front
           b == r.back
           n == Occupied(r)
<1>1. r.cells \in [Offset -> Byte] /\ f \in Offset /\ b \in Offset
  BY DEF Buffer
<1>2. f \in 0..Cap /\ b \in 0..Cap /\ Cap \in Nat \ {0} /\ Cells = Cap + 1
  BY <1>1, CapAssumption DEF Offset, Cells
<1>3. n = IF f <= b THEN b - f ELSE Cells - f + b
  BY DEF Occupied
<1>4. \A i : Place(r, i) = IF f + i < Cells THEN f + i ELSE f + i - Cells
  BY DEF Place
<1> HIDE DEF f, b, n
<1>5. n \in 0..Cap
  BY <1>2, <1>3
<1>6. ASSUME NEW i \in 0..(n - 1) PROVE Place(r, i) \in Offset
  BY <1>2, <1>3, <1>4 DEF Offset
<1>7. QED
  BY <1>1, <1>2, <1>5, <1>6 DEF f, b, n

\* The content is the sequence of those cells, from the front on.
LEMMA ContentIsSeq ==
  ASSUME NEW r \in Buffer
  PROVE  /\ Content(r) \in Seq(Byte)
         /\ Len(Content(r)) = Occupied(r)
         /\ \A i \in 1..Occupied(r) : Content(r)[i] = r.cells[Place(r, i - 1)]
<1>1. Content(r) \in [1..Occupied(r) -> Byte]
  BY BufferFields DEF Content
<1>2. QED
  BY <1>1, BufferFields, FunctionIsSeq DEF Content

\* The first part of the content goes up to the back or the end of the array,
\* the second from its start to the back.
LEMMA EmptyContent ==
  ASSUME NEW r \in Buffer
  PROVE  Empty(r) <=> Content(r) = <<>>
BY ContentIsSeq, BufferFields, EmptySeq DEF Occupied, Empty

-----------------------------------------------------------------------------
(* append *)

\* What copying into the array changes, and what it leaves.
LEMMA StoredCells ==
  ASSUME NEW cells \in [Offset -> Byte], NEW c \in Nat, NEW s \in Seq(Byte)
  PROVE  /\ Stored(cells, c, s) \in [Offset -> Byte]
         /\ \A i \in Offset : (i < c \/ i >= c + Len(s)) => Stored(cells, c, s)[i] = cells[i]
         /\ \A i \in Offset : (i >= c /\ i < c + Len(s)) => Stored(cells, c, s)[i] = s[i - c + 1]
BY CapAssumption, ElementOfSeq, LenProperties DEF Stored, Offset

\* Bytes that end before the last cell go behind the back;
LEMMA AppendedStraight ==
  ASSUME NEW r \in Buffer, NEW s \in Seq(Byte), r.back + Len(s) < Cells
  PROVE  /\ Appended(r, s) \in Buffer
         /\ Appended(r, s).front = r.front /\ Appended(r, s).back = r.back + Len(s)
         /\ \A i \in Offset : Appended(r, s).cells[i] =
              IF i >= r.back /\ i < r.back + Len(s) THEN s[i - r.back + 1] ELSE r.cells[i]
<1> DEFINE b == r.back
           old == r.cells
           once == Stored(old, b, s)
           cells == Stored(once, b + Len(s), <<>>)
<1>1. b \in Offset /\ old \in [Offset -> Byte] /\ r.front \in Offset
  BY BufferFields
<1>2. Len(s) \in Nat /\ Least(Len(s), Cells - b) = Len(s) /\ Wrap(b + Len(s)) = b + Len(s)
      /\ b + Len(s) \in Offset /\ b \in Nat
  BY <1>1, LenProperties, CapAssumption DEF Least, Wrap, Offset, Cells
<1>3. SubSeq(s, 1, Len(s)) = s /\ SubSeq(s, Len(s) + 1, Len(s)) = <<>>
  BY <1>2, SubSeqFull, SubSeqEmpty
<1>4. Appended(r, s) = [r EXCEPT !.cells = cells, !.back = b + Len(s)]
  <2>1. b + Len(s) + Len(<<>>) = b + Len(s)
    BY <1>2, EmptySeq
  <2>2. Appended(r, s) = [r EXCEPT !.cells = cells, !.back = b + Len(s) + Len(<<>>)]
    BY <1>2, <1>3 DEF Appended
  <2>3. QED
    BY <2>1, <2>2
<1> HIDE DEF b, old
<1>5. /\ once \in [Offset -> Byte]
      /\ \A i \in Offset : once[i] = IF i >= b /\ i < b + Len(s) THEN s[i - b + 1] ELSE old[i]
  BY <1>1, <1>2, StoredCells
<1> HIDE DEF once
<1>6. Len(<<>>) = 0 /\ <<>> \in Seq(Byte)
  BY EmptySeq
<1>7. cells \in [Offset -> Byte] /\ \A i \in Offset : cells[i] = once[i]
  <2> DEFINE c == b + Len(s)
  <2>1. /\ cells = Stored(once, c, <<>>)
        /\ c \in Nat /\ \A i \in Offset : i < c \/ i >= c + Len(<<>>)
    BY <1>2, <1>6 DEF Offset
  <2> HIDE DEF c, cells
  <2>2. QED
    BY <1>5, <1>6, <2>1, StoredCells
<1> HIDE DEF cells
<1>8. /\ Appended(r, s) \in Buffer /\ Appended(r, s).front = r.front
      /\ Appended(r, s).back = b + Len(s) /\ Appended(r, s).cells = cells
  BY <1>2, <1>4, <1>7 DEF Buffer
<1>9. QED
  BY <1>5, <1>7, <1>8 DEF b, old

\* others go round its end.
LEMMA AppendedRound ==
  ASSUME NEW r \in Buffer, NEW s \in Seq(Byte), r.back + Len(s) >= Cells,
         r.back + Len(s) < 2 * Cells
  PROVE  LET n == Cells - r.back
         IN  /\ Appended(r, s) \in Buffer
             /\ Appended(r, s).front = r.front /\ Appended(r, s).back = Len(s) - n
             /\ \A i \in Offset : Appended(r, s).cells[i] =
                  IF i < Len(s) - n THEN s[n + i + 1]
                  ELSE IF i >= r.back THEN s[i - r.back + 1] ELSE r.cells[i]
<1> DEFINE b == r.back
           old == r.cells
           n == Cells - b
           head == SubSeq(s, 1, n)
           rest == SubSeq(s, n + 1, Len(s))
           once == Stored(old, b, head)
           cells == Stored(once, 0, rest)
<1>1. b \in Offset /\ old \in [Offset -> Byte] /\ r.front \in Offset
  BY BufferFields
<1>2. /\ Len(s) \in Nat /\ b \in Nat /\ n \in 1..Len(s) /\ b + n = Cells
      /\ Len(s) - n \in Offset /\ Offset = 0..(Cells - 1)
      /\ Least(Len(s), n) = n /\ Wrap(b + n) = 0
  <2>1. Len(s) \in Nat /\ b \in 0..Cap /\ Cells = Cap + 1 /\ Cap \in Nat
    BY <1>1, LenProperties, CapAssumption DEF Offset, Cells
  <2>2. b + Len(s) >= Cells /\ b + Len(s) < 2 * Cells
    OBVIOUS
  <2> HIDE DEF b
  <2>3. n \in 1..Len(s) /\ b + n = Cells /\ Len(s) - n \in 0..Cap
    BY <2>1, <2>2
  <2> HIDE DEF n
  <2>4. Least(Len(s), n) = n /\ Wrap(b + n) = 0
    BY <2>1, <2>3 DEF Least, Wrap
  <2>5. QED
    BY <2>1, <2>3, <2>4 DEF Offset
<1>3. \A i \in 1..Len(s) : s[i] \in Byte
  BY ElementOfSeq
<1>4. Appended(r, s) = [r EXCEPT !.cells = cells, !.back = 0 + Len(rest)]
  BY <1>2 DEF Appended
<1> HIDE DEF b, old, n, cells
<1>5. head \in Seq(Byte) /\ Len(head) = n /\ \A i \in 1..n : head[i] = s[i]
  BY <1>2, <1>3, SubSeqProperties
<1>6. /\ rest \in Seq(Byte) /\ Len(rest) = Len(s) - n
      /\ \A i \in 1..(Len(s) - n) : rest[i] = s[n + i]
  BY <1>2, <1>3, SubSeqProperties
<1> HIDE DEF head, rest, once
<1>7. /\ once \in [Offset -> Byte]
      /\ \A i \in Offset : once[i] = IF i >= b THEN s[i - b + 1] ELSE old[i]
  <2>1. /\ once \in [Offset -> Byte]
        /\ \A i \in Offset : i < b \/ i >= b + Len(head) => once[i] = old[i]
        /\ \A i \in Offset : i >= b /\ i < b + Len(head) => once[i] = head[i - b + 1]
    <3>1. old \in [Offset -> Byte] /\ b \in Nat /\ head \in Seq(Byte)
      BY <1>1, <1>2, <1>5
    <3>2. QED
      BY <3>1, StoredCells DEF once
  <2>2. \A i \in Offset : i < b + n /\ (i >= b => i - b + 1 \in 1..n)
    BY <1>2
  <2>3. ASSUME NEW i \in Offset PROVE once[i] = IF i >= b THEN s[i - b + 1] ELSE old[i]
    <3>1. i < b \/ i >= b
      BY <1>2
    <3>2. CASE i < b
      <4>1. ~(i >= b)
        BY <1>2, <3>2
      <4>2. QED
        BY <2>1, <3>2, <4>1
    <3>3. CASE i >= b
      <4>1. once[i] = head[i - b + 1]
        BY <1>5, <2>1, <2>2, <3>3
      <4>2. head[i - b + 1] = s[i - b + 1]
        BY <1>5, <2>2, <3>3
      <4>3. QED
        BY <3>3, <4>1, <4>2
    <3>4. QED
      BY <3>1, <3>2, <3>3
  <2>4. QED
    BY <2>1, <2>3
<1>8. /\ cells \in [Offset -> Byte]
      /\ \A i \in Offset : cells[i] = IF i < Len(s) - n THEN s[n + i + 1] ELSE once[i]
  <2>1. /\ cells \in [Offset -> Byte]
        /\ \A i \in Offset : i < 0 \/ i >= 0 + Len(rest) => cells[i] = once[i]
        /\ \A i \in Offset : i >= 0 /\ i < 0 + Len(rest) => cells[i] = rest[i - 0 + 1]
    BY <1>6, <1>7, StoredCells DEF cells
  <2>2. ASSUME NEW i \in Offset
        PROVE  cells[i] = IF i < Len(s) - n THEN s[n + i + 1] ELSE once[i]
    <3>1. i \in Nat /\ 0 + Len(rest) = Len(s) - n
      BY <1>2, <1>6
    <3>2. CASE i < Len(s) - n
      <4>1. i + 1 \in 1..(Len(s) - n) /\ i - 0 + 1 = i + 1 /\ n + (i + 1) = n + i + 1
        BY <1>2, <3>1, <3>2
      <4>2. cells[i] = rest[i + 1]
        BY <2>1, <3>1, <3>2, <4>1
      <4>3. QED
        BY <1>6, <3>2, <4>1, <4>2
    <3>3. CASE ~(i < Len(s) - n)
      BY <1>2, <2>1, <3>1, <3>3
    <3>4. QED
      BY <3>2, <3>3
  <2>3. QED
    BY <2>1, <2>2
<1>9. /\ Appended(r, s) \in Buffer
      /\ Appended(r, s).front = r.front /\ Appended(r, s).back = Len(s) - n
      /\ Appended(r, s).cells = cells
  <2> DEFINE back == Len(s) - n
  <2>1. 0 + Len(rest) = back
    BY <1>2, <1>6
  <2>2. Appended(r, s) = [r EXCEPT !.cells = cells, !.back = back]
    BY <1>4, <2>1
  <2>3. back \in Offset
    BY <1>2
  <2> HIDE DEF back
  <2>4. QED
    BY <1>8, <2>2, <2>3 DEF Buffer, back
<1>10. QED
  BY <1>7, <1>8, <1>9 DEF n, b, old

\* Bytes for which there is room follow those that wait.
LEMMA AppendedFits ==
  ASSUME NEW r \in Buffer, NEW s \in Seq(Byte), Occupied(r) + Len(s) <= Cap
  PROVE  /\ Appended(r, s) \in Buffer
         /\ Content(Appended(r, s)) = Content(r) \o s
<1> DEFINE f == r.front
           b == r.back
           L == Len(s)
           n == Occupied(r)
           a == Appended(r, s)
           At(i) == IF f + (i - 1) < Cells THEN f + (i - 1) ELSE f + (i - 1) - Cells
<1>1. /\ f \in 0..Cap /\ b \in 0..Cap /\ L \in Nat /\ n \in 0..Cap /\ n + L <= Cap
      /\ Cap \in Nat /\ Cells = Cap + 1
      /\ n = IF f <= b THEN b - f ELSE Cells - f + b
  BY BufferFields, LenProperties DEF Occupied
<1>2. \A i \in 1..(n + L) : Place(r, i - 1) = At(i) /\ At(i) \in Offset
  <2>1. \A i \in 1..(n + L) : Place(r, i - 1) = At(i)
    BY <1>1 DEF Place
  <2> HIDE DEF f, b, n, L
  <2>2. \A i \in 1..(n + L) : At(i) \in Offset
    BY <1>1 DEF Offset
  <2> HIDE DEF At
  <2>3. QED
    BY <2>1, <2>2
<1>3. /\ a \in Buffer /\ a.front = f /\ Occupied(a) = n + L
      /\ \A i \in 1..n : a.cells[At(i)] = r.cells[At(i)]
      /\ \A i \in (n + 1)..(n + L) : a.cells[At(i)] = s[i - n]
  <2>1. CASE b + L < Cells
    <3>1. /\ a \in Buffer /\ a.front = f /\ a.back = b + L
          /\ \A q \in Offset : a.cells[q] =
               IF q >= b /\ q < b + L THEN s[q - b + 1] ELSE r.cells[q]
      BY <2>1, AppendedStraight
    <3> HIDE DEF a, f, b, L, n
    <3>2. Occupied(a) = n + L
      BY <1>1, <2>1, <3>1 DEF Occupied
    <3>3. \A i \in 1..n : ~(At(i) >= b /\ At(i) < b + L)
      BY <1>1, <2>1
    <3>4. \A i \in (n + 1)..(n + L) :
            At(i) >= b /\ At(i) < b + L /\ At(i) - b + 1 = i - n
      BY <1>1, <2>1
    <3> HIDE DEF At
    <3>5. 1..n \subseteq 1..(n + L) /\ (n + 1)..(n + L) \subseteq 1..(n + L)
      BY <1>1
    <3>6. QED
      BY <1>2, <3>1, <3>2, <3>3, <3>4, <3>5
  <2>2. CASE b + L >= Cells
    <3>1. b + L < 2 * Cells /\ f <= b /\ b + L - Cells < f
      BY <1>1, <2>2
    <3>2. /\ a \in Buffer /\ a.front = f /\ a.back = L - (Cells - b)
          /\ \A q \in Offset : a.cells[q] =
               IF q < L - (Cells - b) THEN s[(Cells - b) + q + 1]
               ELSE IF q >= b THEN s[q - b + 1] ELSE r.cells[q]
      BY <2>2, <3>1, AppendedRound
    <3> HIDE DEF a, f, b, L, n
    <3>3. Occupied(a) = n + L
      <4> DEFINE c == L - (Cells - b)
      <4>1. Occupied(a) = IF f <= c THEN c - f ELSE Cells - f + c
        BY <3>2 DEF Occupied
      <4>2. QED
        BY <1>1, <2>2, <3>1, <4>1
    <3>4. \A i \in 1..n : ~(At(i) < L - (Cells - b)) /\ ~(At(i) >= b)
      BY <1>1, <2>2, <3>1
    <3>5. \A i \in (n + 1)..(n + L) :
            \/ At(i) < L - (Cells - b) /\ (Cells - b) + At(i) + 1 = i - n
            \/ ~(At(i) < L - (Cells - b)) /\ At(i) >= b /\ At(i) - b + 1 = i - n
      BY <1>1, <2>2, <3>1
    <3> HIDE DEF At
    <3>6. 1..n \subseteq 1..(n + L) /\ (n + 1)..(n + L) \subseteq 1..(n + L)
      BY <1>1
    <3>7. QED
      BY <1>2, <3>2, <3>3, <3>4, <3>5, <3>6
  <2> HIDE DEF a, f, b, L, n
  <2>3. QED
    BY <1>1, <2>1, <2>2
<1>4. /\ Content(a) \in Seq(Byte) /\ Len(Content(a)) = n + L
      /\ \A i \in 1..(n + L) : Content(a)[i] = a.cells[At(i)]
  <2>1. \A i \in 1..(n + L) : Place(a, i - 1) = At(i)
    BY <1>1, <1>2, <1>3 DEF Place
  <2> HIDE DEF a, n, L, At
  <2>2. QED
    BY <1>3, <2>1, ContentIsSeq
<1>5. /\ Content(r) \in Seq(Byte) /\ Len(Content(r)) = n
      /\ \A i \in 1..n : Content(r)[i] = r.cells[At(i)]
  <2>1. /\ Content(r) \in Seq(Byte) /\ Len(Content(r)) = n
        /\ \A i \in 1..n : Content(r)[i] = r.cells[Place(r, i - 1)]
    BY ContentIsSeq
  <2> HIDE DEF n, L, At
  <2>2. 1..n \subseteq 1..(n + L)
    BY <1>1
  <2>3. QED
    BY <1>2, <2>1, <2>2
<1> HIDE DEF a, n, L, At
<1>6. /\ Content(r) \o s \in Seq(Byte) /\ Len(Content(r) \o s) = n + L
      /\ \A i \in 1..(n + L) : (Content(r) \o s)[i] = IF i <= n THEN Content(r)[i] ELSE s[i - n]
  BY <1>5, ConcatProperties DEF L
<1>7. ASSUME NEW i \in 1..(n + L) PROVE Content(a)[i] = (Content(r) \o s)[i]
  <2>1. i \in 1..n \/ (i \in (n + 1)..(n + L) /\ ~(i <= n))
    BY <1>1
  <2>2. CASE i \in 1..n
    <3>1. Content(a)[i] = a.cells[At(i)] /\ Content(r)[i] = r.cells[At(i)]
      BY <2>2, <1>4, <1>5
    <3>2. (Content(r) \o s)[i] = Content(r)[i]
      BY <2>2, <1>6
    <3>3. a.cells[At(i)] = r.cells[At(i)]
      BY <2>2, <1>3
    <3>4. QED
      BY <3>1, <3>2, <3>3
  <2>3. CASE i \in (n + 1)..(n + L) /\ ~(i <= n)
    <3>1. Content(a)[i] = a.cells[At(i)]
      BY <1>4
    <3>2. (Content(r) \o s)[i] = s[i - n]
      BY <2>3, <1>6
    <3>3. a.cells[At(i)] = s[i - n]
      BY <2>3, <1>3
    <3>4. QED
      BY <3>1, <3>2, <3>3
  <2>4. QED
    BY <2>1, <2>2, <2>3
<1>8. Content(a) = Content(r) \o s
  BY <1>4, <1>6, <1>7, SeqEqual
<1>9. QED
  BY <1>3, <1>8 DEF a

\* The first bytes of a buffer that has wrapped may be overwritten: then what
\* is left are the last bytes that were appended.
LEMMA AppendedLapped ==
  ASSUME NEW r \in Buffer, NEW s \in Seq(Byte), r.back < r.front,
         r.back + Len(s) >= r.front, r.back + Len(s) < 2 * Cells
  PROVE  /\ Appended(r, s) \in Buffer
         /\ \E m \in 0..Len(s) :
              /\ Len(Content(Appended(r, s))) = m
              /\ \A i \in 1..m : Content(Appended(r, s))[i] = s[(Len(s) - m) + i]
<1> DEFINE f == r.front
           b == r.back
           L == Len(s)
           a == Appended(r, s)
           m == Occupied(a)
           At(i) == IF f + (i - 1) < Cells THEN f + (i - 1) ELSE f + (i - 1) - Cells
<1>1. /\ f \in 0..Cap /\ b \in 0..Cap /\ L \in Nat /\ b < f /\ b + L >= f
      /\ b + L < 2 * Cells /\ Cap \in Nat /\ Cells = Cap + 1
  BY BufferFields, LenProperties
<1>2. /\ a \in Buffer /\ a.front = f /\ m \in 0..L
      /\ \A i \in 1..m : At(i) \in Offset => a.cells[At(i)] = s[(L - m) + i]
  <2>1. CASE b + L < Cells
    <3>1. /\ a \in Buffer /\ a.front = f /\ a.back = b + L
          /\ \A q \in Offset : a.cells[q] =
               IF q >= b /\ q < b + L THEN s[q - b + 1] ELSE r.cells[q]
      BY <2>1, AppendedStraight
    <3> HIDE DEF a, f, b, L
    <3>2. m = (b + L) - f
      BY <1>1, <2>1, <3>1 DEF Occupied
    <3> HIDE DEF m
    <3>3. \A i \in 1..m : At(i) >= b /\ At(i) < b + L /\ At(i) - b + 1 = (L - m) + i
      BY <1>1, <2>1, <3>2
    <3>4. m \in 0..L
      BY <1>1, <3>2
    <3> HIDE DEF At
    <3>5. QED
      BY <3>1, <3>3, <3>4
  <2>2. CASE b + L >= Cells
    <3>1. /\ a \in Buffer /\ a.front = f /\ a.back = L - (Cells - b)
          /\ \A q \in Offset : a.cells[q] =
               IF q < L - (Cells - b) THEN s[(Cells - b) + q + 1]
               ELSE IF q >= b THEN s[q - b + 1] ELSE r.cells[q]
      BY <2>2, AppendedRound
    <3> HIDE DEF a, f, b, L
    <3>2. m = IF f <= L - (Cells - b) THEN L - (Cells - b) - f
              ELSE Cells - f + (L - (Cells - b))
      BY <3>1 DEF Occupied
    <3> HIDE DEF m
    <3>3. \A i \in 1..m :
            \/ At(i) < L - (Cells - b) /\ (Cells - b) + At(i) + 1 = (L - m) + i
            \/ ~(At(i) < L - (Cells - b)) /\ At(i) >= b /\ At(i) - b + 1 = (L - m) + i
      BY <1>1, <2>2, <3>2
    <3>4. m \in 0..L
      BY <1>1, <2>2, <3>2
    <3> HIDE DEF At
    <3>5. QED
      BY <3>1, <3>3, <3>4
  <2> HIDE DEF a, f, b, L, m, At
  <2>3. b + L < Cells \/ b + L >= Cells
    BY <1>1
  <2>4. QED
    BY <2>1, <2>2, <2>3
<1>3. \A i \in 1..m : Place(a, i - 1) = At(i)
  BY <1>1, <1>2 DEF Place
<1> HIDE DEF a, f, b, At
<1>4. /\ Len(Content(a)) = m
      /\ \A i \in 1..m : At(i) \in Offset /\ Content(a)[i] = a.cells[At(i)]
  <2>1. \A i \in 1..m : i - 1 \in 0..(m - 1)
    BY <1>1, <1>2
  <2>2. QED
    BY <1>2, <1>3, <2>1, BufferFields, ContentIsSeq
<1> HIDE DEF m, L
<1>5. /\ Len(Content(a)) = m
      /\ \A i \in 1..m : Content(a)[i] = s[(L - m) + i]
  BY <1>2, <1>4
<1>6. QED
  BY <1>2, <1>5 DEF a, L

\* What append does to what waits, if its assert holds by size() and it stays
\* in the array.
LEMMA AppendedContent ==
  ASSUME NEW r \in Buffer, NEW s \in Seq(Byte),
         HasRoom(r, Len(s)), ~AppendOverruns(r, Len(s))
  PROVE  /\ Appended(r, s) \in Buffer
         /\ \/ Content(Appended(r, s)) = Content(r) \o s
            \/ /\ 0 < r.back /\ r.back < r.front
               /\ \E m \in 0..Len(s) :
                    /\ Len(Content(Appended(r, s))) = m
                    /\ \A i \in 1..m : Content(Appended(r, s))[i] = s[(Len(s) - m) + i]
<1> DEFINE f == r.front
           b == r.back
           L == Len(s)
<1>1. f \in 0..Cap /\ b \in 0..Cap /\ L \in Nat /\ Cap \in Nat /\ Cells = Cap + 1
  BY BufferFields, LenProperties
<1>2. Cap - (IF b >= f THEN b - f ELSE (Cells - f) - b) >= L
  <2>1. Index(r, f) = 0 /\ Index(r, b) = IF b >= f THEN b - f ELSE (Cells - f) - b
    BY <1>1 DEF Index
  <2> HIDE DEF f, b, L
  <2>2. Size(r) = Index(r, b) - 0 /\ Index(r, b) \in Int
    BY <1>1, <2>1 DEF Size, f, b
  <2>3. Cap - Size(r) >= L
    BY DEF HasRoom, L
  <2>4. QED
    BY <1>1, <2>1, <2>2, <2>3
<1>3. b + L < 2 * Cells
  <2>1. ~(L > Least(L, Cells - b) /\ L - Least(L, Cells - b) >= Cells - Wrap(b + Least(L, Cells - b)))
    BY DEF AppendOverruns
  <2> HIDE DEF f, b, L
  <2>2. CASE L > Cells - b
    <3>1. Least(L, Cells - b) = Cells - b /\ Wrap(b + (Cells - b)) = 0
      BY <1>1, <2>2 DEF Least, Wrap
    <3>2. L - (Cells - b) < Cells - 0
      BY <1>1, <2>1, <2>2, <3>1
    <3>3. QED
      BY <1>1, <3>2
  <2>3. CASE L <= Cells - b
    BY <1>1, <2>3
  <2>4. QED
    BY <1>1, <2>2, <2>3
<1>4. CASE b < f /\ b + L >= f
  <2>1. 0 < b
    <3> HIDE DEF f, b, L
    <3>1. QED
      BY <1>1, <1>2, <1>4
  <2>2. QED
    BY <1>3, <1>4, <2>1, AppendedLapped
<1>5. CASE ~(b < f /\ b + L >= f)
  <2>1. Occupied(r) = IF f <= b THEN b - f ELSE Cells - f + b
    BY DEF Occupied
  <2>2. Occupied(r) + L <= Cap
    <3> HIDE DEF f, b, L
    <3>1. QED
      BY <1>1, <1>2, <1>5, <2>1
  <2>3. QED
    BY <2>2, AppendedFits
<1>6. QED
  BY <1>4, <1>5

\* append leaves the array only if the buffer has wrapped.
LEMMA OverrunsWrapped ==
  ASSUME NEW r \in Buffer, NEW len \in Nat, HasRoom(r, len), AppendOverruns(r, len)
  PROVE  0 < r.back /\ r.back < r.front
<1> DEFINE f == r.front
           b == r.back
<1>1. f \in 0..Cap /\ b \in 0..Cap /\ Cap \in Nat /\ Cells = Cap + 1
  BY BufferFields
<1>2. Cap - (IF b >= f THEN b - f ELSE (Cells - f) - b) >= len
  <2>1. Index(r, f) = 0 /\ Index(r, b) = IF b >= f THEN b - f ELSE (Cells - f) - b
    BY <1>1 DEF Index
  <2> HIDE DEF f, b
  <2>2. Size(r) = Index(r, b) - 0 /\ Index(r, b) \in Int
    BY <1>1, <2>1 DEF Size, f, b
  <2>3. QED
    BY <1>1, <2>1, <2>2 DEF HasRoom
<1>3. len >= Cells
  <2>1. /\ len > Least(len, Cells - b)
        /\ len - Least(len, Cells - b) >= Cells - Wrap(b + Least(len, Cells - b))
    BY DEF AppendOverruns
  <2> HIDE DEF f, b
  <2>2. Least(len, Cells - b) = Cells - b /\ Wrap(b + (Cells - b)) = 0
    BY <1>1, <2>1 DEF Least, Wrap
  <2>3. QED
    BY <1>1, <2>1, <2>2
<1> HIDE DEF f, b
<1>4. 0 < b /\ b < f
  BY <1>1, <1>2, <1>3
<1>5. QED
  BY <1>4 DEF f, b

-----------------------------------------------------------------------------
(* Taking bytes from the front *)

\* The front moves on by k bytes: the others stay.
LEMMA AdvancedContent ==
  ASSUME NEW r \in Buffer, NEW k \in 0..Occupied(r), NEW c, c = Place(r, k)
  PROVE  /\ [r EXCEPT !.front = c] \in Buffer
         /\ Content([r EXCEPT !.front = c]) = SubSeq(Content(r), k + 1, Len(Content(r)))
<1> DEFINE f == r.front
           b == r.back
           n == Occupied(r)
           a == [r EXCEPT !.front = c]
<1>1. /\ f \in 0..Cap /\ b \in 0..Cap /\ n \in 0..Cap /\ k \in 0..n /\ Cap \in Nat
      /\ Cells = Cap + 1 /\ n = IF f <= b THEN b - f ELSE Cells - f + b
      /\ c = IF f + k < Cells THEN f + k ELSE f + k - Cells
  BY BufferFields DEF Occupied, Place
<1>2. c \in Offset
  <2> HIDE DEF f, b, n
  <2>1. QED
    BY <1>1 DEF Offset
<1>3. a \in Buffer /\ a.front = c /\ a.back = b /\ a.cells = r.cells
  BY <1>2 DEF Buffer
<1> HIDE DEF a
<1>4. Occupied(a) = n - k
  <2>1. Occupied(a) = IF c <= b THEN b - c ELSE Cells - c + b
    BY <1>3 DEF Occupied
  <2> HIDE DEF f, b, n
  <2>2. QED
    BY <1>1, <2>1
<1>5. \A i \in 1..(n - k) : Place(a, i - 1) = Place(r, (k + i) - 1)
  <2>1. \A i \in 1..(n - k) :
          (IF c + (i - 1) < Cells THEN c + (i - 1) ELSE c + (i - 1) - Cells)
             = IF f + ((k + i) - 1) < Cells THEN f + ((k + i) - 1)
               ELSE f + ((k + i) - 1) - Cells
    <3> HIDE DEF f, b, n
    <3>1. QED
      BY <1>1
  <2>2. QED
    BY <1>3, <2>1 DEF Place
<1>6. /\ Content(a) \in Seq(Byte) /\ Len(Content(a)) = n - k
      /\ \A i \in 1..(n - k) : Content(a)[i] = r.cells[Place(r, (k + i) - 1)]
  BY <1>3, <1>4, <1>5, ContentIsSeq
<1>7. /\ Content(r) \in Seq(Byte) /\ Len(Content(r)) = n
      /\ \A i \in 1..n : Content(r)[i] = r.cells[Place(r, i - 1)]
  BY ContentIsSeq
<1> HIDE DEF n
<1>8. /\ SubSeq(Content(r), k + 1, n) \in Seq(Byte)
      /\ Len(SubSeq(Content(r), k + 1, n)) = n - k
      /\ \A i \in 1..(n - k) : SubSeq(Content(r), k + 1, n)[i] = Content(r)[k + i]
  <2>1. \A i \in (k + 1)..n : Content(r)[i] \in Byte
    BY <1>1, <1>7, ElementOfSeq
  <2>2. /\ k + 1 \in Int /\ n \in Int /\ n - (k + 1) + 1 = n - k
        /\ (k + 1 <= n \/ n - k = 0)
        /\ \A i \in 1..(n - k) : (k + 1) + i - 1 = k + i
    BY <1>1
  <2>3. QED
    BY <2>1, <2>2, SubSeqProperties
<1>9. \A i \in 1..(n - k) : k + i \in 1..n
  BY <1>1
<1>10. Content(a) = SubSeq(Content(r), k + 1, n)
  <2> DEFINE t == SubSeq(Content(r), k + 1, n)
  <2>1. /\ t \in Seq(Byte) /\ Len(t) = Len(Content(a))
        /\ \A i \in 1..Len(Content(a)) : Content(a)[i] = t[i]
    BY <1>6, <1>7, <1>8, <1>9
  <2> HIDE DEF t
  <2>2. QED
    BY <1>6, <2>1, SeqEqual DEF t
<1>11. QED
  BY <1>3, <1>7, <1>10 DEF a

\* Two loads, up to the end of the array and from its start, are the first bytes.
LEMMA LoadedFront ==
  ASSUME NEW r \in Buffer, NEW n \in Nat, NEW m \in Nat, n + m <= Occupied(r),
         r.front + n <= Cells, m = 0 \/ r.front + n = Cells
  PROVE  Loaded(r.cells, r.front, n) \o Loaded(r.cells, 0, m) = SubSeq(Content(r), 1, n + m)
<1> DEFINE f == r.front
           b == r.back
           k == Occupied(r)
           one == Loaded(r.cells, f, n)
           two == Loaded(r.cells, 0, m)
<1>1. /\ f \in 0..Cap /\ b \in 0..Cap /\ k \in 0..Cap /\ n + m <= k /\ Cap \in Nat
      /\ Cells = Cap + 1 /\ k = IF f <= b THEN b - f ELSE Cells - f + b
      /\ f + n <= Cells /\ (m = 0 \/ f + n = Cells)
      /\ r.cells \in [Offset -> Byte] /\ Offset = 0..Cap
  BY BufferFields DEF Occupied, Offset
<1>2. /\ Content(r) \in Seq(Byte) /\ Len(Content(r)) = k
      /\ \A i \in 1..k : Content(r)[i] = r.cells[Place(r, i - 1)]
  BY ContentIsSeq
<1>3. /\ \A i \in 1..n : Place(r, i - 1) = f + i - 1 /\ f + i - 1 \in Offset
      /\ \A i \in (n + 1)..(n + m) :
           Place(r, i - 1) = 0 + (i - n) - 1 /\ 0 + (i - n) - 1 \in Offset
  <2>1. \A i \in 1..(n + m) : Place(r, i - 1) =
          IF f + (i - 1) < Cells THEN f + (i - 1) ELSE f + (i - 1) - Cells
    BY DEF Place
  <2>2. /\ f \in 0..Cap /\ b \in 0..Cap /\ n + m <= k /\ Cap \in Nat
        /\ Cells = Cap + 1 /\ k = IF f <= b THEN b - f ELSE Cells - f + b
        /\ f + n <= Cells /\ (m = 0 \/ f + n = Cells)
    BY <1>1
  <2> HIDE DEF f, b, k
  <2>3. ASSUME NEW i \in 1..n
        PROVE  /\ i \in 1..(n + m) /\ f + (i - 1) < Cells
               /\ f + (i - 1) = f + i - 1 /\ f + i - 1 \in 0..Cap
    BY <2>2
  <2>4. ASSUME NEW i \in (n + 1)..(n + m)
        PROVE  /\ i \in 1..(n + m) /\ ~(f + (i - 1) < Cells)
               /\ f + (i - 1) - Cells = 0 + (i - n) - 1 /\ 0 + (i - n) - 1 \in 0..Cap
    BY <2>2
  <2>5. QED
    BY <1>1, <2>1, <2>3, <2>4
<1> HIDE DEF f, b, k
<1>4. /\ one \in Seq(Byte) /\ Len(one) = n
      /\ \A i \in 1..n : one[i] = r.cells[f + i - 1]
  <2>1. one = [i \in 1..n |-> r.cells[f + i - 1]]
    BY DEF Loaded
  <2> HIDE DEF one
  <2>2. one \in [1..n -> Byte]
    BY <1>1, <1>3, <2>1
  <2>3. QED
    BY <2>1, <2>2, FunctionIsSeq
<1>5. /\ two \in Seq(Byte) /\ Len(two) = m
      /\ \A i \in 1..m : two[i] = r.cells[0 + i - 1]
  <2>1. two = [i \in 1..m |-> r.cells[0 + i - 1]]
    BY DEF Loaded
  <2> HIDE DEF two
  <2>2. \A i \in 1..m : 0 + i - 1 \in Offset
    BY <1>1
  <2>3. two \in [1..m -> Byte]
    BY <1>1, <2>1, <2>2
  <2>4. QED
    BY <2>1, <2>3, FunctionIsSeq
<1> HIDE DEF one, two
<1>6. /\ one \o two \in Seq(Byte) /\ Len(one \o two) = n + m
      /\ \A i \in 1..(n + m) : (one \o two)[i] = IF i <= n THEN one[i] ELSE two[i - n]
  BY <1>4, <1>5, ConcatProperties
<1> DEFINE t == SubSeq(Content(r), 1, n + m)
<1>7. /\ t \in Seq(Byte) /\ Len(t) = n + m /\ \A i \in 1..(n + m) : t[i] = Content(r)[i]
  <2>1. \A i \in 1..(n + m) : Content(r)[i] \in Byte /\ 1 + i - 1 = i
    BY <1>1, <1>2, ElementOfSeq
  <2>2. 1 \in Int /\ n + m \in Int /\ (1 <= n + m \/ n + m = 0) /\ (n + m) - 1 + 1 = n + m
    BY <1>1
  <2>3. QED
    BY <2>1, <2>2, SubSeqProperties
<1> HIDE DEF t
<1>8. \A i \in 1..(n + m) : (one \o two)[i] = t[i]
  <2>1. ASSUME NEW i \in 1..(n + m) PROVE (one \o two)[i] = t[i]
    <3>1. i \in 1..k
      BY <1>1
    <3>2. CASE i <= n
      <4>1. i \in 1..n
        BY <3>2
      <4>2. QED
        BY <1>2, <1>3, <1>4, <1>6, <1>7, <3>1, <3>2, <4>1
    <3>3. CASE ~(i <= n)
      <4>1. i \in (n + 1)..(n + m) /\ i - n \in 1..m
        BY <3>3
      <4>2. QED
        BY <1>2, <1>3, <1>5, <1>6, <1>7, <3>1, <3>3, <4>1
    <3>4. QED
      BY <3>2, <3>3
  <2>2. QED
    BY <2>1
<1>9. one \o two = t
  BY <1>6, <1>7, <1>8, SeqEqual
<1>10. QED
  BY <1>9 DEF one, two, t, f

\* poll(f): what f takes are the first bytes, and the others stay.
LEMMA PolledByContent ==
  ASSUME NEW r \in Buffer, NEW n \in 0..Offered(r), NEW m \in 0..OfferedNext(r, n)
  PROVE  /\ PolledBy(r, n, m).buf \in Buffer
         /\ n + m \in 0..Len(Content(r))
         /\ PolledBy(r, n, m).data = SubSeq(Content(r), 1, n + m)
         /\ Content(PolledBy(r, n, m).buf) = SubSeq(Content(r), n + m + 1, Len(Content(r)))
<1> DEFINE f == r.front
           b == r.back
           k == Occupied(r)
<1>1. /\ f \in 0..Cap /\ b \in 0..Cap /\ k \in 0..Cap /\ Cap \in Nat
      /\ Cells = Cap + 1 /\ k = IF f <= b THEN b - f ELSE Cells - f + b
      /\ Len(Content(r)) = k
  BY BufferFields, ContentIsSeq DEF Occupied
<1>2. /\ n \in 0..(IF f <= b THEN b - f ELSE Cells - f)
      /\ m \in 0..(IF f > b /\ f + n = Cells THEN b ELSE 0)
  BY DEF Offered, OfferedNext
<1>3. Wrap(f + n) = IF f + n = Cells THEN 0 ELSE f + n
  BY DEF Wrap
<1>4. Place(r, n + m) = IF f + (n + m) < Cells THEN f + (n + m) ELSE f + (n + m) - Cells
  BY DEF Place
<1>5. /\ n \in Nat /\ m \in Nat /\ n + m \in 0..k /\ f + n <= Cells
      /\ m = 0 \/ f + n = Cells
      /\ Wrap(f + n) + m = Place(r, n + m)
  <2> HIDE DEF f, b, k
  <2>1. QED
    BY <1>1, <1>2, <1>3, <1>4
<1>6. /\ PolledBy(r, n, m).buf = [r EXCEPT !.front = Place(r, n + m)]
      /\ PolledBy(r, n, m).data = Loaded(r.cells, r.front, n) \o Loaded(r.cells, 0, m)
  BY <1>5 DEF PolledBy
<1> DEFINE taken == n + m
           c == Place(r, taken)
<1>7. /\ n \in Nat /\ m \in Nat /\ n + m <= Occupied(r) /\ r.front + n <= Cells
      /\ m = 0 \/ r.front + n = Cells
      /\ taken \in 0..Occupied(r) /\ Len(Content(r)) = Occupied(r)
  BY <1>1, <1>5
<1>8. /\ PolledBy(r, n, m).buf = [r EXCEPT !.front = c]
      /\ PolledBy(r, n, m).data = SubSeq(Content(r), 1, n + m)
  BY <1>6, <1>7, LoadedFront
<1>9. c = Place(r, taken)
  OBVIOUS
<1> HIDE DEF f, b, k, taken, c
<1>10. /\ [r EXCEPT !.front = c] \in Buffer
       /\ Content([r EXCEPT !.front = c]) = SubSeq(Content(r), taken + 1, Len(Content(r)))
  BY <1>7, <1>9, AdvancedContent
<1>11. QED
  BY <1>7, <1>8, <1>10 DEF taken

\* poll(len): the first len bytes, when there are as many.
LEMMA PolledContent ==
  ASSUME NEW r \in Buffer, NEW len \in 0..Occupied(r)
  PROVE  /\ Polled(r, len).buf \in Buffer
         /\ Polled(r, len).data = SubSeq(Content(r), 1, len)
         /\ Content(Polled(r, len).buf) = SubSeq(Content(r), len + 1, Len(Content(r)))
<1> DEFINE f == r.front
           b == r.back
           k == Occupied(r)
           n == Least(len, Cells - f)
           c == Wrap(f + n)
           m == len - n
<1>1. /\ f \in 0..Cap /\ b \in 0..Cap /\ k \in 0..Cap /\ Cap \in Nat /\ len \in 0..k
      /\ Cells = Cap + 1 /\ k = IF f <= b THEN b - f ELSE Cells - f + b
  BY BufferFields DEF Occupied
<1>2. /\ n = IF len <= Cells - f THEN len ELSE Cells - f
      /\ c = IF f + n = Cells THEN 0 ELSE f + n
      /\ Place(r, len) = IF f + len < Cells THEN f + len ELSE f + len - Cells
  BY DEF Least, Wrap, Place
<1>3. /\ n \in Nat /\ m \in Nat /\ n + m = len /\ f + n <= Cells
      /\ m = 0 \/ (f + n = Cells /\ c = 0)
      /\ c + m = Place(r, len)
  <2> HIDE DEF f, b, k, n, c
  <2>1. QED
    BY <1>1, <1>2
<1>4. /\ Polled(r, len).buf = [r EXCEPT !.front = c + m]
      /\ Polled(r, len).data = Loaded(r.cells, f, n) \o Loaded(r.cells, c, m)
  BY DEF Polled
<1> DEFINE d == Place(r, len)
<1>5. /\ n \in Nat /\ m \in Nat /\ n + m <= Occupied(r) /\ r.front + n <= Cells
      /\ m = 0 \/ r.front + n = Cells
      /\ n + m = len /\ (m = 0 \/ c = 0)
      /\ Polled(r, len).buf = [r EXCEPT !.front = d]
      /\ Polled(r, len).data = Loaded(r.cells, r.front, n) \o Loaded(r.cells, c, m)
  <2>1. c + m = d
    BY <1>3
  <2> HIDE DEF k, n, c, m, d
  <2>2. n + m <= k
    BY <1>1, <1>3
  <2>3. QED
    BY <1>3, <1>4, <2>1, <2>2 DEF k
<1>6. d = Place(r, len)
  OBVIOUS
<1> HIDE DEF f, b, k, n, c, m, d
<1>7. Loaded(r.cells, c, m) = Loaded(r.cells, 0, m)
  <2>1. CASE c = 0
    BY <2>1
  <2>2. CASE m = 0
    <3>1. 1..m = {}
      BY <2>2
    <3>2. QED
      BY <3>1 DEF Loaded
  <2>3. QED
    BY <1>5, <2>1, <2>2
<1>8. Loaded(r.cells, r.front, n) \o Loaded(r.cells, 0, m) = SubSeq(Content(r), 1, n + m)
  BY <1>5, LoadedFront
<1>9. /\ [r EXCEPT !.front = d] \in Buffer
      /\ Content([r EXCEPT !.front = d]) = SubSeq(Content(r), len + 1, Len(Content(r)))
  BY <1>6, AdvancedContent
<1>10. QED
  BY <1>5, <1>7, <1>8, <1>9

-----------------------------------------------------------------------------
(* Single bytes *)

\* A sequence of the right length with the right bytes is the content.
LEMMA ContentEquals ==
  ASSUME NEW r \in Buffer, NEW s \in Seq(Byte), Len(s) = Occupied(r),
         \A i \in 1..Occupied(r) : s[i] = r.cells[Place(r, i - 1)]
  PROVE  Content(r) = s
<1>1. /\ Content(r) \in Seq(Byte) /\ Len(Content(r)) = Occupied(r)
      /\ \A i \in 1..Occupied(r) : Content(r)[i] = r.cells[Place(r, i - 1)]
  BY ContentIsSeq
<1>2. QED
  BY <1>1, SeqEqual

\* The tests of the single-byte calls count right, wherever the bytes are.
LEMMA EmptyAndFull ==
  ASSUME NEW r \in Buffer
  PROVE  /\ Empty(r) <=> Occupied(r) = 0
         /\ Full(r) <=> Occupied(r) = Cap
<1> DEFINE f == r.front
           b == r.back
<1>1. /\ f \in 0..Cap /\ b \in 0..Cap /\ Cap \in Nat \ {0} /\ Cells = Cap + 1
      /\ Occupied(r) = IF f <= b THEN b - f ELSE Cells - f + b
      /\ (Empty(r) <=> f = b)
      /\ (Full(r) <=> (IF b + 1 = Cells THEN 0 ELSE b + 1) = f)
  BY BufferFields DEF Occupied, Empty, Full, Wrap
<1> HIDE DEF f, b
<1>2. QED
  BY <1>1

\* push_back puts the byte behind the content;
LEMMA PushedBackContent ==
  ASSUME NEW r \in Buffer, NEW byte \in Byte, Occupied(r) < Cap
  PROVE  /\ PushedBack(r, byte) \in Buffer
         /\ Content(PushedBack(r, byte)) = Append(Content(r), byte)
<1> DEFINE f == r.front
           b == r.back
           n == Occupied(r)
           c == Wrap(b + 1)
           old == r.cells
           cells == [old EXCEPT ![b] = byte]
           a == [r EXCEPT !.cells = cells, !.back = c]
           s == Append(Content(r), byte)
<1>1. /\ f \in 0..Cap /\ b \in 0..Cap /\ n \in 0..(Cap - 1) /\ Cap \in Nat
      /\ Cells = Cap + 1 /\ n = IF f <= b THEN b - f ELSE Cells - f + b
      /\ c = IF b + 1 = Cells THEN 0 ELSE b + 1
  BY BufferFields DEF Occupied, Wrap
<1>2. old \in [Offset -> Byte] /\ b \in Offset /\ c \in Offset
  <2>1. old \in [Offset -> Byte] /\ Offset = 0..Cap
    BY BufferFields DEF Offset
  <2> HIDE DEF f, b, n, c, old
  <2>2. QED
    BY <1>1, <2>1
<1>3. PushedBack(r, byte) = a
  BY DEF PushedBack
<1> HIDE DEF cells, c
<1>4. a.cells = cells /\ a.front = f /\ a.back = c
  BY DEF Buffer
<1>5. cells \in [Offset -> Byte] /\ \A q \in Offset : cells[q] = IF q = b THEN byte ELSE old[q]
  <2> HIDE DEF old, b
  <2>1. QED
    BY <1>2 DEF cells
<1>6. a \in Buffer
  BY <1>2, <1>5 DEF Buffer
<1> HIDE DEF a
<1>7. Occupied(a) = n + 1
  <2>1. Occupied(a) = IF f <= c THEN c - f ELSE Cells - f + c
    BY <1>4 DEF Occupied
  <2> HIDE DEF f, b, n
  <2>2. QED
    BY <1>1, <2>1
<1>8. /\ \A i \in 1..n : Place(a, i - 1) = Place(r, i - 1) /\ Place(r, i - 1) \in Offset
                         /\ Place(r, i - 1) # b
      /\ Place(a, (n + 1) - 1) = b
  <2>1. \A i \in 1..(n + 1) :
          /\ Place(a, i - 1) = IF f + (i - 1) < Cells THEN f + (i - 1) ELSE f + (i - 1) - Cells
          /\ Place(r, i - 1) = IF f + (i - 1) < Cells THEN f + (i - 1) ELSE f + (i - 1) - Cells
    BY <1>4 DEF Place
  <2>2. \A i \in 1..n : Place(r, i - 1) \in Offset
    BY BufferFields
  <2> HIDE DEF f, b, n
  <2>3. ASSUME NEW i \in 1..n
        PROVE  /\ i \in 1..(n + 1)
               /\ (IF f + (i - 1) < Cells THEN f + (i - 1) ELSE f + (i - 1) - Cells) # b
    BY <1>1
  <2>4. /\ n + 1 \in 1..(n + 1)
        /\ (IF f + ((n + 1) - 1) < Cells THEN f + ((n + 1) - 1)
            ELSE f + ((n + 1) - 1) - Cells) = b
    BY <1>1
  <2>5. QED
    BY <2>1, <2>2, <2>3, <2>4
<1>9. /\ Content(r) \in Seq(Byte) /\ Len(Content(r)) = n
      /\ \A i \in 1..n : Content(r)[i] = old[Place(r, i - 1)]
  BY ContentIsSeq
<1> HIDE DEF n, f, b, old
<1>10. /\ s \in Seq(Byte) /\ Len(s) = n + 1
       /\ \A i \in 1..n : s[i] = Content(r)[i]
       /\ s[n + 1] = byte
  <2> DEFINE t == Content(r)
  <2>1. t \in Seq(Byte) /\ Len(t) = n
    BY <1>9
  <2> HIDE DEF t
  <2>2. /\ Append(t, byte) \in Seq(Byte) /\ Len(Append(t, byte)) = Len(t) + 1
        /\ \A i \in 1..Len(t) : Append(t, byte)[i] = t[i]
        /\ Append(t, byte)[Len(t) + 1] = byte
    BY <2>1, AppendProperties
  <2> DEFINE u == Append(t, byte)
  <2>3. /\ u \in Seq(Byte) /\ Len(u) = n + 1
        /\ \A i \in 1..n : u[i] = t[i]
        /\ u[n + 1] = byte
    <3> HIDE DEF u
    <3>1. QED
      BY <2>1, <2>2 DEF u
  <2>4. QED
    BY <2>3 DEF t
<1> HIDE DEF s
<1>11. \A i \in 1..(n + 1) : s[i] = a.cells[Place(a, i - 1)]
  <2>1. ASSUME NEW i \in 1..(n + 1), i # n + 1 PROVE s[i] = a.cells[Place(a, i - 1)]
    <3>1. i \in 1..n
      BY <1>1, <2>1
    <3>2. QED
      BY <1>4, <1>5, <1>8, <1>9, <1>10, <3>1
  <2>2. s[n + 1] = a.cells[Place(a, (n + 1) - 1)]
    BY <1>2, <1>4, <1>5, <1>8, <1>10
  <2>3. QED
    BY <2>1, <2>2
<1>12. Content(a) = s
  BY <1>6, <1>7, <1>10, <1>11, ContentEquals
<1>13. QED
  BY <1>3, <1>6, <1>12 DEF s

\* push_front puts it before the content;
LEMMA PushedFrontContent ==
  ASSUME NEW r \in Buffer, NEW byte \in Byte, Occupied(r) < Cap
  PROVE  /\ PushedFront(r, byte) \in Buffer
         /\ Content(PushedFront(r, byte)) = <<byte>> \o Content(r)
<1> DEFINE f == r.front
           b == r.back
           n == Occupied(r)
           c == Before(f)
           old == r.cells
           cells == [old EXCEPT ![c] = byte]
           a == [r EXCEPT !.cells = cells, !.front = c]
           s == <<byte>> \o Content(r)
<1>1. /\ f \in 0..Cap /\ b \in 0..Cap /\ n \in 0..(Cap - 1) /\ Cap \in Nat
      /\ Cells = Cap + 1 /\ n = IF f <= b THEN b - f ELSE Cells - f + b
      /\ c = IF f = 0 THEN Cells - 1 ELSE f - 1
  BY BufferFields DEF Occupied, Before
<1>2. old \in [Offset -> Byte] /\ c \in Offset
  <2>1. old \in [Offset -> Byte] /\ Offset = 0..Cap
    BY BufferFields DEF Offset
  <2> HIDE DEF f, b, n, c, old
  <2>2. QED
    BY <1>1, <2>1
<1>3. PushedFront(r, byte) = a
  BY DEF PushedFront
<1> HIDE DEF cells, c
<1>4. a.cells = cells /\ a.front = c /\ a.back = b
  BY DEF Buffer
<1>5. cells \in [Offset -> Byte] /\ \A q \in Offset : cells[q] = IF q = c THEN byte ELSE old[q]
  <2> HIDE DEF old
  <2>1. QED
    BY <1>2 DEF cells
<1>6. a \in Buffer
  BY <1>2, <1>5 DEF Buffer
<1> HIDE DEF a
<1>7. Occupied(a) = n + 1
  <2>1. Occupied(a) = IF c <= b THEN b - c ELSE Cells - c + b
    BY <1>4 DEF Occupied
  <2> HIDE DEF f, b, n
  <2>2. QED
    BY <1>1, <2>1
<1>8. /\ \A i \in 1..n : Place(a, (i + 1) - 1) = Place(r, i - 1) /\ Place(r, i - 1) \in Offset
                         /\ Place(r, i - 1) # c
      /\ Place(a, 1 - 1) = c
  <2>1. /\ \A i \in 1..n :
             /\ Place(a, (i + 1) - 1) =
                  IF c + ((i + 1) - 1) < Cells THEN c + ((i + 1) - 1)
                  ELSE c + ((i + 1) - 1) - Cells
             /\ Place(r, i - 1) =
                  IF f + (i - 1) < Cells THEN f + (i - 1) ELSE f + (i - 1) - Cells
        /\ Place(a, 1 - 1) = IF c + (1 - 1) < Cells THEN c + (1 - 1) ELSE c + (1 - 1) - Cells
    BY <1>4 DEF Place
  <2>2. \A i \in 1..n : Place(r, i - 1) \in Offset
    BY BufferFields
  <2> HIDE DEF f, b, n
  <2>3. ASSUME NEW i \in 1..n
        PROVE  /\ (IF f + (i - 1) < Cells THEN f + (i - 1) ELSE f + (i - 1) - Cells) # c
               /\ (IF f + (i - 1) < Cells THEN f + (i - 1) ELSE f + (i - 1) - Cells)
                    = IF c + ((i + 1) - 1) < Cells THEN c + ((i + 1) - 1)
                      ELSE c + ((i + 1) - 1) - Cells
    BY <1>1
  <2>4. (IF c + (1 - 1) < Cells THEN c + (1 - 1) ELSE c + (1 - 1) - Cells) = c
    BY <1>1
  <2>5. QED
    BY <2>1, <2>2, <2>3, <2>4
<1>9. /\ Content(r) \in Seq(Byte) /\ Len(Content(r)) = n
      /\ \A i \in 1..n : Content(r)[i] = old[Place(r, i - 1)]
  BY ContentIsSeq
<1> HIDE DEF n, f, b, old
<1>10. /\ s \in Seq(Byte) /\ Len(s) = n + 1
       /\ \A i \in 2..(n + 1) : s[i] = Content(r)[i - 1]
       /\ s[1] = byte
  <2> DEFINE first == <<byte>>
  <2>1. first \in Seq(Byte) /\ Len(first) = 1 /\ first[1] = byte
    OBVIOUS
  <2> HIDE DEF first
  <2> DEFINE t == Content(r)
             u == first \o t
  <2>2. t \in Seq(Byte) /\ Len(t) = n
    BY <1>9
  <2> HIDE DEF t
  <2>3. /\ u \in Seq(Byte) /\ Len(u) = Len(first) + Len(t)
        /\ \A i \in 1..(Len(first) + Len(t)) : u[i] =
             IF i <= Len(first) THEN first[i] ELSE t[i - Len(first)]
    BY <2>1, <2>2, ConcatProperties
  <2> HIDE DEF u
  <2>4. /\ 1 + n = n + 1 /\ 1 \in 1..(n + 1)
        /\ \A i \in 2..(n + 1) : i \in 1..(n + 1) /\ ~(i <= 1)
    BY <1>1
  <2>5. /\ u \in Seq(Byte) /\ Len(u) = n + 1 /\ u[1] = byte
        /\ \A i \in 2..(n + 1) : u[i] = t[i - 1]
    BY <2>1, <2>2, <2>3, <2>4
  <2>6. s = u
    BY DEF first, t, u
  <2> HIDE DEF s
  <2>7. QED
    BY <2>5, <2>6 DEF t
<1> HIDE DEF s
<1>11. \A i \in 1..(n + 1) : s[i] = a.cells[Place(a, i - 1)]
  <2>1. ASSUME NEW i \in 1..(n + 1), i # 1 PROVE s[i] = a.cells[Place(a, i - 1)]
    <3> DEFINE j == i - 1
    <3>1. i \in 2..(n + 1) /\ j \in 1..n /\ i - 1 = j /\ (j + 1) - 1 = i - 1
      BY <1>1, <2>1
    <3> HIDE DEF j
    <3>2. s[i] = Content(r)[j] /\ Place(a, i - 1) = Place(r, j - 1)
      BY <1>8, <1>10, <3>1
    <3>3. QED
      BY <1>4, <1>5, <1>8, <1>9, <3>1, <3>2
  <2>2. s[1] = a.cells[Place(a, 1 - 1)]
    BY <1>2, <1>4, <1>5, <1>8, <1>10
  <2>3. QED
    BY <2>1, <2>2
<1>12. Content(a) = s
  BY <1>6, <1>7, <1>10, <1>11, ContentEquals
<1>13. QED
  BY <1>3, <1>6, <1>12 DEF s

\* pop_back takes the last byte,
LEMMA PoppedBackContent ==
  ASSUME NEW r \in Buffer, Occupied(r) > 0
  PROVE  /\ PoppedBack(r) \in Buffer
         /\ Content(PoppedBack(r)) = SubSeq(Content(r), 1, Len(Content(r)) - 1)
<1> DEFINE f == r.front
           b == r.back
           n == Occupied(r)
           c == Before(b)
           a == [r EXCEPT !.back = c]
           s == SubSeq(Content(r), 1, n - 1)
<1>1. /\ f \in 0..Cap /\ b \in 0..Cap /\ n \in 1..Cap /\ Cap \in Nat
      /\ Cells = Cap + 1 /\ n = IF f <= b THEN b - f ELSE Cells - f + b
      /\ c = IF b = 0 THEN Cells - 1 ELSE b - 1
  BY BufferFields DEF Occupied, Before
<1>2. c \in Offset
  <2> HIDE DEF f, b, n, c
  <2>1. QED
    BY <1>1 DEF Offset
<1>3. PoppedBack(r) = a
  BY DEF PoppedBack
<1> HIDE DEF c
<1>4. a \in Buffer /\ a.cells = r.cells /\ a.front = f /\ a.back = c
  BY <1>2 DEF Buffer
<1> HIDE DEF a
<1>5. Occupied(a) = n - 1
  <2>1. Occupied(a) = IF f <= c THEN c - f ELSE Cells - f + c
    BY <1>4 DEF Occupied
  <2> HIDE DEF f, b, n
  <2>2. QED
    BY <1>1, <2>1
<1>6. /\ Content(r) \in Seq(Byte) /\ Len(Content(r)) = n
      /\ \A i \in 1..n : Content(r)[i] = r.cells[Place(r, i - 1)]
  BY ContentIsSeq
<1>7. \A i \in 1..(n - 1) : Place(a, i - 1) = Place(r, i - 1)
  BY <1>4 DEF Place
<1> HIDE DEF n
<1>8. s \in Seq(Byte) /\ Len(s) = n - 1 /\ \A i \in 1..(n - 1) : s[i] = Content(r)[i]
  <2> DEFINE last == n - 1
  <2>1. /\ 1 \in Int /\ last \in Int /\ (1 <= last \/ last = 0) /\ last - 1 + 1 = last
        /\ \A i \in 1..last : i \in 1..n /\ 1 + i - 1 = i
    BY <1>1
  <2>2. \A i \in 1..last : Content(r)[i] \in Byte
    BY <1>6, <2>1, ElementOfSeq
  <2> HIDE DEF last
  <2>3. /\ SubSeq(Content(r), 1, last) \in Seq(Byte)
        /\ Len(SubSeq(Content(r), 1, last)) = last
        /\ \A i \in 1..last : SubSeq(Content(r), 1, last)[i] = Content(r)[i]
    BY <1>6, <2>1, <2>2, SubSeqProperties
  <2>4. QED
    BY <2>3 DEF last
<1> HIDE DEF s
<1>9. \A i \in 1..(n - 1) : i \in 1..n
  BY <1>1
<1>10. Content(a) = s
  BY <1>4, <1>5, <1>6, <1>7, <1>8, <1>9, ContentEquals
<1>11. QED
  BY <1>3, <1>4, <1>6, <1>10 DEF s

\* and pop_front the first.
LEMMA PoppedFrontContent ==
  ASSUME NEW r \in Buffer, Occupied(r) > 0
  PROVE  /\ PoppedFront(r) \in Buffer
         /\ Content(PoppedFront(r)) = Tail(Content(r))
<1> DEFINE c == Place(r, 1)
<1>1. /\ Occupied(r) \in 1..Cap /\ Len(Content(r)) = Occupied(r) /\ Content(r) \in Seq(Byte)
      /\ r.front \in 0..Cap /\ Cells = Cap + 1 /\ Cap \in Nat
  BY BufferFields, ContentIsSeq
<1>2. PoppedFront(r) = [r EXCEPT !.front = c]
  <2>1. Wrap(r.front + 1) = c
    BY <1>1 DEF Wrap, Place
  <2>2. QED
    BY <2>1 DEF PoppedFront
<1>3. 1 \in 0..Occupied(r) /\ c = Place(r, 1) /\ 1 + 1 = 2
  BY <1>1
<1> HIDE DEF c
<1>4. /\ [r EXCEPT !.front = c] \in Buffer
      /\ Content([r EXCEPT !.front = c]) = SubSeq(Content(r), 2, Len(Content(r)))
  BY <1>3, AdvancedContent
<1>5. Content(r) # <<>>
  BY <1>1, EmptySeq
<1>6. QED
  BY <1>1, <1>2, <1>4, <1>5, TailIsSubSeq

\* front() and back() are the first and the last byte.
LEMMA EndsOfContent ==
  ASSUME NEW r \in Buffer, Occupied(r) > 0
  PROVE  /\ r.cells[r.front] = Content(r)[1]
         /\ r.cells[Before(r.back)] = Content(r)[Len(Content(r))]
         /\ r.cells[r.front] \in Byte /\ r.cells[Before(r.back)] \in Byte
<1> DEFINE f == r.front
           b == r.back
           n == Occupied(r)
<1>1. /\ f \in 0..Cap /\ b \in 0..Cap /\ n \in 1..Cap /\ Cap \in Nat
      /\ Cells = Cap + 1 /\ n = IF f <= b THEN b - f ELSE Cells - f + b
      /\ Before(b) = IF b = 0 THEN Cells - 1 ELSE b - 1
      /\ Place(r, 1 - 1) = IF f + (1 - 1) < Cells THEN f + (1 - 1) ELSE f + (1 - 1) - Cells
      /\ Place(r, n - 1) = IF f + (n - 1) < Cells THEN f + (n - 1) ELSE f + (n - 1) - Cells
  BY BufferFields DEF Occupied, Before, Place
<1>2. /\ Content(r) \in Seq(Byte) /\ Len(Content(r)) = n
      /\ \A i \in 1..n : Content(r)[i] = r.cells[Place(r, i - 1)]
  BY ContentIsSeq
<1> HIDE DEF f, b, n
<1>3. Place(r, 1 - 1) = f /\ Place(r, n - 1) = Before(b) /\ 1 \in 1..n /\ n \in 1..n
  BY <1>1
<1>4. QED
  BY <1>2, <1>3, ElementOfSeq DEF f, b

-----------------------------------------------------------------------------
(* Iterators and the asserts *)

\* A step goes from the place of one byte to that of the next, and back.
LEMMA PlaceSteps ==
  ASSUME NEW r \in Buffer, NEW i \in 0..Cap
  PROVE  /\ Place(r, i) \in Offset
         /\ i < Cap => Wrap(Place(r, i) + 1) = Place(r, i + 1)
         /\ i > 0 => Before(Place(r, i)) = Place(r, i - 1) /\ Place(r, i) # r.front
         /\ i < Occupied(r) => Place(r, i) # r.back
         /\ Place(r, 0) = r.front /\ Place(r, Occupied(r)) = r.back
<1> DEFINE f == r.front
           b == r.back
           n == Occupied(r)
<1>1. /\ f \in 0..Cap /\ b \in 0..Cap /\ n \in 0..Cap /\ Cap \in Nat
      /\ Cells = Cap + 1 /\ n = IF f <= b THEN b - f ELSE Cells - f + b
  BY BufferFields DEF Occupied
<1>2. /\ Place(r, i) = IF f + i < Cells THEN f + i ELSE f + i - Cells
      /\ Place(r, i + 1) = IF f + (i + 1) < Cells THEN f + (i + 1) ELSE f + (i + 1) - Cells
      /\ Place(r, i - 1) = IF f + (i - 1) < Cells THEN f + (i - 1) ELSE f + (i - 1) - Cells
      /\ Place(r, 0) = IF f + 0 < Cells THEN f + 0 ELSE f + 0 - Cells
      /\ Place(r, n) = IF f + n < Cells THEN f + n ELSE f + n - Cells
  BY DEF Place
<1> DEFINE p == Place(r, i)
<1>3. /\ Wrap(p + 1) = IF p + 1 = Cells THEN 0 ELSE p + 1
      /\ Before(p) = IF p = 0 THEN Cells - 1 ELSE p - 1
  BY DEF Wrap, Before
<1> HIDE DEF f, b, n
<1>4. /\ p \in Offset
      /\ i < Cap => Wrap(p + 1) = Place(r, i + 1)
      /\ i > 0 => Before(p) = Place(r, i - 1) /\ p # f
      /\ i < n => p # b
      /\ Place(r, 0) = f /\ Place(r, n) = b
  BY <1>1, <1>2, <1>3 DEF Offset
<1>5. QED
  BY <1>4 DEF f, b, n

\* move goes to its place, or backwards over the start of the array.
LEMMA MovedPlace ==
  ASSUME NEW r \in Buffer, NEW i \in 0..Cap, NEW n \in Int, i + n \in 0..Cap
  PROVE  /\ Moved(Place(r, i), n) \in Int
         /\ Moved(Place(r, i), n) = Place(r, i + n) \/ Moved(Place(r, i), n) < 0
<1> DEFINE f == r.front
           p == Place(r, i)
           room == Cells - p - 1
           m == Least(room, n)
           back == IF -p >= n THEN -p ELSE n
<1>1. f \in 0..Cap /\ Cap \in Nat /\ Cells = Cap + 1
  BY BufferFields
<1>2. /\ p = IF f + i < Cells THEN f + i ELSE f + i - Cells
      /\ Place(r, i + n) = IF f + (i + n) < Cells THEN f + (i + n) ELSE f + (i + n) - Cells
      /\ m = IF room <= n THEN room ELSE n
  BY DEF Place, Least
<1>3. Moved(p, n) = IF n >= 0 THEN (IF n - m # 0 THEN n - m - 1 ELSE p + m)
                    ELSE (IF n - back # 0 THEN n - back ELSE p + back)
  BY DEF Moved
<1> HIDE DEF f, p, m
<1>4. QED
  BY <1>1, <1>2, <1>3 DEF p

\* While the bytes do not wrap, index() counts right.
LEMMA StraightAsserts ==
  ASSUME NEW r \in Buffer, r.front <= r.back
  PROVE  /\ \A len \in 0..Occupied(r) : HasBytes(r, len)
         /\ \A i \in 0..Occupied(r), n \in Int :
              i + n \in 0..Occupied(r) => MoveAllowed(r, Place(r, i), n)
<1> DEFINE f == r.front
           b == r.back
<1>1. /\ f \in 0..Cap /\ b \in 0..Cap /\ Cap \in Nat /\ Cells = Cap + 1 /\ f <= b
      /\ Occupied(r) = b - f
  BY BufferFields DEF Occupied
<1>2. \A i \in 0..(b - f) : Index(r, Place(r, i)) = i
  <2>1. ASSUME NEW i \in 0..(b - f) PROVE Index(r, Place(r, i)) = i
    <3>1. Place(r, i) = f + i
      <4>1. Place(r, i) = IF f + i < Cells THEN f + i ELSE f + i - Cells
        BY DEF Place
      <4> HIDE DEF f, b
      <4>2. QED
        BY <1>1, <4>1
    <3>2. Index(r, f + i) = IF f + i >= f THEN (f + i) - f ELSE (Cells - f) - (f + i)
      BY DEF Index
    <3> HIDE DEF f, b
    <3>3. QED
      BY <1>1, <3>1, <3>2
  <2>2. QED
    BY <2>1
<1>3. Index(r, b) = b - f /\ Index(r, f) = 0
  BY <1>1 DEF Index
<1>4. Size(r) = b - f
  BY <1>1, <1>3 DEF Size
<1>5. \A len \in 0..(b - f) : HasBytes(r, len)
  <2> HIDE DEF f, b
  <2>1. QED
    BY <1>1, <1>4 DEF HasBytes
<1>6. ASSUME NEW i \in 0..(b - f), NEW n \in Int, i + n \in 0..(b - f)
      PROVE  MoveAllowed(r, Place(r, i), n)
  <2>1. MoveAllowed(r, Place(r, i), n) <=>
          IF n >= 0 THEN (b - f) - i >= n ELSE 0 - i <= n
    BY <1>2, <1>3 DEF MoveAllowed
  <2> HIDE DEF f, b
  <2>2. QED
    BY <1>1, <1>6, <2>1
<1>7. QED
  BY <1>1, <1>5, <1>6

\* What fits is never refused: size() counts no more than there is.
LEMMA RoomForFree ==
  ASSUME NEW r \in Buffer, NEW len \in 0..(Cap - Occupied(r))
  PROVE  HasRoom(r, len)
<1> DEFINE f == r.front
           b == r.back
<1>1. /\ f \in 0..Cap /\ b \in 0..Cap /\ Cap \in Nat /\ Cells = Cap + 1
      /\ Occupied(r) = IF f <= b THEN b - f ELSE Cells - f + b
  BY BufferFields DEF Occupied
<1>2. /\ Index(r, f) = IF f >= f THEN f - f ELSE (Cells - f) - f
      /\ Index(r, b) = IF b >= f THEN b - f ELSE (Cells - f) - b
      /\ Size(r) = Index(r, b) - Index(r, f)
  BY DEF Index, Size
<1> HIDE DEF f, b
<1>3. QED
  BY <1>1, <1>2 DEF HasRoom

\* The queue's inputs are those that fit.
LEMMA ShortSequence ==
  ASSUME NEW s \in Seq(Byte), Len(s) <= Cap
  PROVE  s \in UNION {[1..n -> Byte] : n \in 0..Cap}
<1>1. Len(s) \in 0..Cap /\ s \in [1..Len(s) -> Byte]
  BY LenProperties, CapAssumption
<1>2. QED
  BY <1>1

-----------------------------------------------------------------------------
(* RingBuffer: the ring and a caller that makes any sequence of calls *)

\* What holds in every state: types, and where the iterator can be.
RingInv ==
  /\ ring \in Buffer
  /\ data \in UNION {[1..n -> Byte] : n \in 0..Cap}
  /\ it \in Int \cup {NoIter}
  /\ pos \in 0..Occupied(ring)
  /\ it # NoIter => it = Place(ring, pos) \/ it < 0
  /\ aborted \in {"no", "poll", "iter"}
  /\ aborted # "no" => ring.back < ring.front

QueueStep == [Queue!Next]_(Queue!vars)

\* The steps of the queue, said of the content of the ring.
LEMMA QueueSteps ==
  LET q == Content(ring)
      r == Content(ring')
  IN  /\ q = r /\ data' = data => QueueStep
      /\ \A b \in Byte : Len(q) < Cap /\ r = Append(q, b) /\ data' = <<b>> => QueueStep
      /\ \A b \in Byte : Len(q) < Cap /\ r = <<b>> \o q /\ data' = <<b>> => QueueStep
      /\ q # <<>> /\ r = SubSeq(q, 1, Len(q) - 1) /\ data' = <<>> => QueueStep
      /\ q # <<>> /\ r = Tail(q) /\ data' = <<>> => QueueStep
      /\ q # <<>> /\ r = q /\ data' \in {<<q[1]>>, <<q[Len(q)]>>} => QueueStep
      /\ \A n \in 0..Cap : \A bytes \in [1..n -> Byte] :
           Len(q) + Len(bytes) <= Cap /\ r = q \o bytes /\ data' = bytes => QueueStep
      /\ \A n \in 0..Cap : n <= Len(q) /\ r = SubSeq(q, n + 1, Len(q))
                             /\ data' = SubSeq(q, 1, n) => QueueStep
<1> DEFINE q == Content(ring)
           r == Content(ring')
<1>1. Content(ring) = q /\ Content(ring') = r
  OBVIOUS
<1> HIDE DEF q, r
<1>2. q = r /\ data' = data => QueueStep
  BY <1>1 DEF QueueStep, Queue!vars
<1>3. \A b \in Byte : Len(q) < Cap /\ r = Append(q, b) /\ data' = <<b>> => QueueStep
  BY <1>1 DEF QueueStep, Queue!Next, Queue!PushBack
<1>4. \A b \in Byte : Len(q) < Cap /\ r = <<b>> \o q /\ data' = <<b>> => QueueStep
  BY <1>1 DEF QueueStep, Queue!Next, Queue!PushFront
<1>5. q # <<>> /\ r = SubSeq(q, 1, Len(q) - 1) /\ data' = <<>> => QueueStep
  BY <1>1 DEF QueueStep, Queue!Next, Queue!PopBack
<1>6. q # <<>> /\ r = Tail(q) /\ data' = <<>> => QueueStep
  BY <1>1 DEF QueueStep, Queue!Next, Queue!PopFront
<1>7. q # <<>> /\ r = q /\ data' \in {<<q[1]>>, <<q[Len(q)]>>} => QueueStep
  BY <1>1 DEF QueueStep, Queue!Next, Queue!Peek
<1>8. \A n \in 0..Cap : \A bytes \in [1..n -> Byte] :
        Len(q) + Len(bytes) <= Cap /\ r = q \o bytes /\ data' = bytes => QueueStep
  BY <1>1 DEF QueueStep, Queue!Next, Queue!AppendAll
<1>9. \A n \in 0..Cap : n <= Len(q) /\ r = SubSeq(q, n + 1, Len(q))
                          /\ data' = SubSeq(q, 1, n) => QueueStep
  BY <1>1 DEF QueueStep, Queue!Next, Queue!Poll
<1>10. QED
  BY <1>2, <1>3, <1>4, <1>5, <1>6, <1>7, <1>8, <1>9 DEF q, r

\* A call that changes the ring leaves the invariant.
LEMMA ChangesKeepInv ==
  ASSUME NEW r \in Buffer, NEW bytes \in Seq(Byte), Len(bytes) <= Cap,
         aborted = "no", Changes(r, bytes)
  PROVE  RingInv'
<1>1. ring' = r /\ data' = bytes /\ it' = NoIter /\ pos' = 0 /\ aborted' = "no"
  BY DEF Changes
<1>2. bytes \in UNION {[1..n -> Byte] : n \in 0..Cap} /\ Occupied(r) \in 0..Cap
      /\ 0 \in 0..Occupied(r)
  BY ShortSequence, BufferFields
<1>3. QED
  BY <1>1, <1>2 DEF RingInv

\* A failed assertion changes no buffer: the queue sees no step;
LEMMA AbortKeepsInv ==
  ASSUME NEW kind \in {"poll", "iter"}, RingInv, ring.back < ring.front, Abort(kind)
  PROVE  RingInv' /\ QueueStep
<1>1. aborted' = kind /\ ring' = ring /\ data' = data /\ it' = it /\ pos' = pos
  BY DEF Abort
<1>2. RingInv'
  BY <1>1 DEF RingInv
<1>3. Content(ring') = Content(ring)
  BY <1>1
<1>4. QED
  BY <1>1, <1>2, <1>3, QueueSteps

\* nor does it see an iterator that is placed.
LEMMA IterAtKeepsInv ==
  ASSUME NEW c \in Int, NEW n \in 0..Occupied(ring), c = Place(ring, n) \/ c < 0,
         RingInv, IterAt(c, n)
  PROVE  RingInv' /\ QueueStep
<1>1. aborted' = aborted /\ ring' = ring /\ data' = data /\ it' = c /\ pos' = n
  BY DEF IterAt
<1>2. RingInv'
  BY <1>1 DEF RingInv
<1>3. Content(ring') = Content(ring)
  BY <1>1
<1>4. QED
  BY <1>1, <1>2, <1>3, QueueSteps

\* The single-byte calls,
LEMMA SingleCalls ==
  ASSUME RingInv, aborted = "no"
  PROVE  /\ \A b \in Byte : Occupied(ring) < Cap /\ (PushBack(b) \/ PushFront(b))
              => RingInv' /\ QueueStep
         /\ Occupied(ring) > 0 /\ (PopBack \/ PopFront) => RingInv' /\ QueueStep
<1> DEFINE q == Content(ring)
           n == Occupied(ring)
<1>1. /\ ring \in Buffer /\ n \in 0..Cap /\ Cap \in Nat \ {0} /\ q \in Seq(Byte) /\ Len(q) = n
      /\ Full(ring) <=> n = Cap
      /\ Empty(ring) <=> n = 0
      /\ n > 0 => q # <<>>
  <2>1. ring \in Buffer
    BY DEF RingInv
  <2>2. n \in 0..Cap /\ Cap \in Nat \ {0} /\ q \in Seq(Byte) /\ Len(q) = n
    BY <2>1, BufferFields, ContentIsSeq
  <2>3. (Full(ring) <=> n = Cap) /\ (Empty(ring) <=> n = 0)
    BY <2>1, EmptyAndFull
  <2>4. n > 0 => q # <<>>
    BY <2>2, EmptySeq
  <2>5. QED
    BY <2>1, <2>2, <2>3, <2>4
<1>2. /\ <<>> \in Seq(Byte) /\ Len(<<>>) <= Cap
      /\ \A b \in Byte : <<b>> \in Seq(Byte) /\ Len(<<b>>) <= Cap
  <2>1. \A b \in Byte : Len(<<b>>) = 1 /\ <<b>> \in Seq(Byte)
    OBVIOUS
  <2>2. QED
    BY <1>1, <2>1, EmptySeq
<1> HIDE DEF n, q
<1>3. ASSUME NEW b \in Byte, n < Cap, PushBack(b) PROVE RingInv' /\ QueueStep
  <2> DEFINE r == PushedBack(ring, b)
  <2>1. Changes(r, <<b>>)
    BY <1>1, <1>3 DEF PushBack
  <2>2. r \in Buffer /\ Content(r) = Append(q, b)
    BY <1>1, <1>3, PushedBackContent DEF n, q
  <2> HIDE DEF r
  <2>3. ring' = r /\ data' = <<b>>
    BY <2>1 DEF Changes
  <2>4. RingInv'
    BY <1>2, <2>1, <2>2, ChangesKeepInv
  <2>5. Len(q) < Cap /\ Content(ring') = Append(q, b)
    BY <1>1, <1>3, <2>2, <2>3
  <2>6. QueueStep
    BY <2>3, <2>5, QueueSteps DEF q
  <2>7. QED
    BY <2>4, <2>6
<1>4. ASSUME NEW b \in Byte, n < Cap, PushFront(b) PROVE RingInv' /\ QueueStep
  <2> DEFINE r == PushedFront(ring, b)
  <2>1. Changes(r, <<b>>)
    BY <1>1, <1>4 DEF PushFront
  <2>2. r \in Buffer /\ Content(r) = <<b>> \o q
    BY <1>1, <1>4, PushedFrontContent DEF n, q
  <2> HIDE DEF r
  <2>3. ring' = r /\ data' = <<b>>
    BY <2>1 DEF Changes
  <2>4. RingInv'
    BY <1>2, <2>1, <2>2, ChangesKeepInv
  <2>5. Len(q) < Cap /\ Content(ring') = <<b>> \o q
    BY <1>1, <1>4, <2>2, <2>3
  <2>6. QueueStep
    BY <2>3, <2>5, QueueSteps DEF q
  <2>7. QED
    BY <2>4, <2>6
<1>5. ASSUME n > 0, PopBack PROVE RingInv' /\ QueueStep
  <2> DEFINE r == PoppedBack(ring)
  <2>1. Changes(r, <<>>)
    BY <1>1, <1>5 DEF PopBack
  <2>2. r \in Buffer /\ Content(r) = SubSeq(q, 1, Len(q) - 1)
    BY <1>1, <1>5, PoppedBackContent DEF n, q
  <2> HIDE DEF r
  <2>3. ring' = r /\ data' = <<>>
    BY <2>1 DEF Changes
  <2>4. RingInv'
    BY <1>2, <2>1, <2>2, ChangesKeepInv
  <2>5. q # <<>> /\ Content(ring') = SubSeq(q, 1, Len(q) - 1)
    BY <1>1, <1>5, <2>2, <2>3
  <2>6. QueueStep
    BY <2>3, <2>5, QueueSteps DEF q
  <2>7. QED
    BY <2>4, <2>6
<1>6. ASSUME n > 0, PopFront PROVE RingInv' /\ QueueStep
  <2> DEFINE r == PoppedFront(ring)
  <2>1. Changes(r, <<>>)
    BY <1>1, <1>6 DEF PopFront
  <2>2. r \in Buffer /\ Content(r) = Tail(q)
    BY <1>1, <1>6, PoppedFrontContent DEF n, q
  <2> HIDE DEF r
  <2>3. ring' = r /\ data' = <<>>
    BY <2>1 DEF Changes
  <2>4. RingInv'
    BY <1>2, <2>1, <2>2, ChangesKeepInv
  <2>5. q # <<>> /\ Content(ring') = Tail(q)
    BY <1>1, <1>6, <2>2, <2>3
  <2>6. QueueStep
    BY <2>3, <2>5, QueueSteps DEF q
  <2>7. QED
    BY <2>4, <2>6
<1>7. QED
  BY <1>3, <1>4, <1>5, <1>6 DEF n

\* append,
LEMMA AppendCall ==
  ASSUME RingInv, aborted = "no", NEW n \in 0..(Cap - Occupied(ring)),
         NEW bytes \in [1..n -> Byte], AppendData(bytes)
  PROVE  RingInv' /\ QueueStep
<1> DEFINE r == Appended(ring, bytes)
           q == Content(ring)
<1>1. /\ ring \in Buffer /\ Occupied(ring) \in 0..Cap /\ Cap \in Nat
      /\ q \in Seq(Byte) /\ Len(q) = Occupied(ring)
  <2>1. ring \in Buffer
    BY DEF RingInv
  <2>2. QED
    BY <2>1, BufferFields, ContentIsSeq
<1>2. n \in Nat /\ n \in 0..Cap /\ Occupied(ring) + n <= Cap
  <2> HIDE DEF q, r
  <2>1. QED
    BY <1>1
<1>3. bytes \in Seq(Byte) /\ Len(bytes) = n
  BY <1>2, FunctionIsSeq
<1>4. Changes(r, bytes)
  <2>1. HasRoom(ring, Len(bytes))
    BY <1>1, <1>3, RoomForFree
  <2>2. QED
    BY <2>1 DEF AppendData
<1>5. r \in Buffer /\ Content(r) = q \o bytes
  BY <1>1, <1>2, <1>3, AppendedFits
<1> HIDE DEF q, r
<1>6. ring' = r /\ data' = bytes
  BY <1>4 DEF Changes
<1>7. RingInv'
  BY <1>2, <1>3, <1>4, <1>5, ChangesKeepInv
<1>8. QueueStep
  <2>1. Len(q) + Len(bytes) <= Cap /\ Content(ring') = q \o bytes
    BY <1>1, <1>2, <1>3, <1>5, <1>6
  <2>2. QED
    BY <1>2, <1>6, <2>1, QueueSteps DEF q
<1>9. QED
  BY <1>7, <1>8

\* poll(len) and poll(f),
LEMMA PollCall ==
  ASSUME RingInv, aborted = "no", NEW n \in 0..Occupied(ring), Poll(n)
  PROVE  RingInv' /\ QueueStep
<1> DEFINE r == Polled(ring, n).buf
           s == Polled(ring, n).data
           q == Content(ring)
<1>1. /\ ring \in Buffer /\ Occupied(ring) \in 0..Cap /\ Cap \in Nat
      /\ q \in Seq(Byte) /\ Len(q) = Occupied(ring)
  <2>1. ring \in Buffer
    BY DEF RingInv
  <2>2. QED
    BY <2>1, BufferFields, ContentIsSeq
<1>2. r \in Buffer /\ s = SubSeq(q, 1, n) /\ Content(r) = SubSeq(q, n + 1, Len(q))
  BY <1>1, PolledContent
<1>3. CASE HasBytes(ring, n)
  <2>1. Changes(r, s)
    BY <1>3 DEF Poll
  <2> HIDE DEF r, s, q
  <2>2. n \in 0..Cap /\ n <= Len(q) /\ n <= Cap
    BY <1>1
  <2>3. s \in Seq(Byte) /\ Len(s) = n
    <3>1. \A i \in 1..n : q[i] \in Byte
      BY <1>1, <2>2, ElementOfSeq
    <3>2. 1 \in Int /\ n \in Int /\ (IF 1 <= n THEN n - 1 + 1 ELSE 0) = n
      BY <2>2
    <3>3. QED
      BY <1>2, <3>1, <3>2, SubSeqProperties
  <2>4. ring' = r /\ data' = s
    BY <2>1 DEF Changes
  <2>5. RingInv'
    BY <1>2, <2>1, <2>2, <2>3, ChangesKeepInv
  <2>6. QueueStep
    <3>1. Content(ring') = SubSeq(q, n + 1, Len(q)) /\ data' = SubSeq(q, 1, n)
      BY <1>2, <2>4
    <3>2. QED
      BY <2>2, <3>1, QueueSteps DEF q
  <2>7. QED
    BY <2>5, <2>6
<1>4. CASE ~HasBytes(ring, n)
  <2>1. Abort("poll")
    BY <1>4 DEF Poll
  <2>2. ring.back < ring.front
    <3>1. ~(ring.front <= ring.back)
      BY <1>1, <1>4, StraightAsserts
    <3>2. ring.front \in Int /\ ring.back \in Int
      BY <1>1, BufferFields
    <3>3. QED
      BY <3>1, <3>2
  <2>3. QED
    BY <2>1, <2>2, AbortKeepsInv
<1>5. QED
  BY <1>3, <1>4

\* poll, for each number of bytes that the peer takes, removes those bytes.
LEMMA PollByCall ==
  ASSUME RingInv, aborted = "no", NEW n \in 0..Offered(ring), NEW m \in 0..OfferedNext(ring, n),
         PollBy(n, m)
  PROVE  RingInv' /\ QueueStep
<1> DEFINE r == PolledBy(ring, n, m).buf
           s == PolledBy(ring, n, m).data
           q == Content(ring)
           k == n + m
<1>1. /\ ring \in Buffer /\ Occupied(ring) \in 0..Cap /\ Cap \in Nat
      /\ q \in Seq(Byte) /\ Len(q) = Occupied(ring)
  <2>1. ring \in Buffer
    BY DEF RingInv
  <2>2. QED
    BY <2>1, BufferFields, ContentIsSeq
<1>2. /\ r \in Buffer /\ k \in 0..Len(q) /\ s = SubSeq(q, 1, k)
      /\ Content(r) = SubSeq(q, k + 1, Len(q))
  BY <1>1, PolledByContent
<1>3. Changes(r, s)
  BY DEF PollBy
<1> HIDE DEF r, s, q, k
<1>4. k \in 0..Cap /\ k <= Len(q) /\ k <= Cap
  BY <1>1, <1>2
<1>5. s \in Seq(Byte) /\ Len(s) = k
  <2>1. \A i \in 1..k : q[i] \in Byte
    BY <1>1, <1>2, <1>4, ElementOfSeq
  <2>2. 1 \in Int /\ k \in Int /\ (IF 1 <= k THEN k - 1 + 1 ELSE 0) = k
    BY <1>4
  <2>3. QED
    BY <1>2, <2>1, <2>2, SubSeqProperties
<1>6. ring' = r /\ data' = s
  BY <1>3 DEF Changes
<1>7. RingInv'
  BY <1>2, <1>3, <1>4, <1>5, ChangesKeepInv
<1>8. QueueStep
  <2>1. Content(ring') = SubSeq(q, k + 1, Len(q)) /\ data' = SubSeq(q, 1, k)
    BY <1>2, <1>6
  <2>2. QED
    BY <1>4, <2>1, QueueSteps DEF q
<1>9. QED
  BY <1>7, <1>8

\* and those that only read, or move the iterator.
LEMMA ReadCall ==
  ASSUME RingInv, aborted = "no", ReadOnly
  PROVE  RingInv' /\ QueueStep
<1> DEFINE q == Content(ring)
           n == Occupied(ring)
<1>1. /\ ring \in Buffer /\ n \in 0..Cap /\ Cap \in Nat /\ q \in Seq(Byte) /\ Len(q) = n
      /\ Place(ring, 0) = ring.front /\ Place(ring, n) = ring.back
      /\ Empty(ring) <=> n = 0
  <2>1. ring \in Buffer
    BY DEF RingInv
  <2>2. n \in 0..Cap /\ Cap \in Nat /\ q \in Seq(Byte) /\ Len(q) = n
    BY <2>1, BufferFields, ContentIsSeq
  <2>3. Place(ring, 0) = ring.front /\ Place(ring, n) = ring.back
    BY <2>1, <2>2, PlaceSteps
  <2>4. Empty(ring) <=> n = 0
    BY <2>1, EmptyAndFull
  <2>5. QED
    BY <2>1, <2>2, <2>3, <2>4
<1>2. ring.front \in Int /\ ring.back \in Int
  BY <1>1, BufferFields
<1>3. CASE Front \/ Back
  <2>1. n > 0
    <3>1. n # 0
      BY <1>1, <1>3 DEF Front, Back
    <3> HIDE DEF n
    <3>2. QED
      BY <1>1, <3>1
  <2>2. /\ ring.cells[ring.front] = q[1] /\ ring.cells[Before(ring.back)] = q[Len(q)]
        /\ ring.cells[ring.front] \in Byte /\ ring.cells[Before(ring.back)] \in Byte
    BY <1>1, <2>1, EndsOfContent
  <2>3. /\ \E b \in {q[1], q[Len(q)]} : b \in Byte /\ data' = <<b>>
        /\ ring' = ring /\ it' = it /\ pos' = pos /\ aborted' = aborted
    BY <1>3, <2>2 DEF Front, Back
  <2>4. PICK b \in {q[1], q[Len(q)]} : b \in Byte /\ data' = <<b>>
    BY <2>3
  <2>5. data' \in UNION {[1..k -> Byte] : k \in 0..Cap}
    <3>1. <<b>> \in Seq(Byte) /\ Len(<<b>>) = 1
      BY <2>4
    <3>2. Len(<<b>>) <= Cap
      BY <3>1, CapAssumption
    <3>3. QED
      BY <2>4, <3>1, <3>2, ShortSequence
  <2>6. RingInv'
    BY <2>3, <2>5 DEF RingInv
  <2>7. /\ q # <<>> /\ Content(ring') = q
        /\ data' \in {<<q[1]>>, <<q[Len(q)]>>}
    <3>1. q # <<>>
      BY <1>1, <2>1, EmptySeq
    <3>2. QED
      BY <2>3, <2>4, <3>1
  <2>8. QueueStep
    BY <2>7, QueueSteps
  <2>9. QED
    BY <2>6, <2>8
<1>4. CASE IterBegin
  <2>1. IterAt(ring.front, 0) /\ 0 \in 0..n
    BY <1>1, <1>4 DEF IterBegin
  <2>2. QED
    BY <1>1, <1>2, <2>1, IterAtKeepsInv
<1>5. CASE IterEnd
  <2>1. IterAt(ring.back, n) /\ n \in 0..n
    BY <1>1, <1>5 DEF IterEnd
  <2>2. QED
    BY <1>1, <1>2, <2>1, IterAtKeepsInv
<1>6. ASSUME it # NoIter, it >= 0
      PROVE  it = Place(ring, pos) /\ it \in Int /\ pos \in 0..n /\ pos \in 0..Cap
  <2>1. /\ it \in Int /\ (it = Place(ring, pos) \/ it < 0) /\ pos \in 0..n
    BY <1>6 DEF RingInv
  <2> HIDE DEF n
  <2>2. QED
    BY <1>1, <1>6, <2>1
<1>7. CASE it # NoIter /\ it >= 0 /\ pos < n /\ IterIncrement
  <2>1. it = Place(ring, pos) /\ it \in Int /\ pos \in 0..n /\ pos \in 0..Cap
    BY <1>6, <1>7
  <2>2. pos < n /\ IterIncrement
    BY <1>7
  <2> DEFINE c == Place(ring, pos + 1)
  <2>3. pos < Cap /\ pos + 1 \in 0..n /\ pos + 1 \in 0..Cap
    <3> HIDE DEF n
    <3>1. QED
      BY <1>1, <2>1, <2>2
  <2>4. it # ring.back /\ Wrap(it + 1) = c /\ c \in Int
    <3>1. it # ring.back /\ Wrap(it + 1) = c
      BY <1>1, <2>1, <2>2, <2>3, PlaceSteps
    <3>2. c \in Offset /\ Offset \subseteq Int
      BY <1>1, <2>3, PlaceSteps DEF Offset
    <3>3. QED
      BY <3>1, <3>2
  <2>5. IterAt(c, pos + 1)
    BY <2>2, <2>4 DEF IterIncrement
  <2> HIDE DEF n
  <2>6. c = Place(ring, pos + 1)
    OBVIOUS
  <2> HIDE DEF c
  <2>7. QED
    BY <2>3, <2>4, <2>5, <2>6, IterAtKeepsInv DEF n
<1>8. CASE it # NoIter /\ it >= 0 /\ pos > 0 /\ IterDecrement
  <2>1. it = Place(ring, pos) /\ it \in Int /\ pos \in 0..n /\ pos \in 0..Cap
    BY <1>6, <1>8
  <2>2. pos > 0 /\ IterDecrement
    BY <1>8
  <2> DEFINE c == Place(ring, pos - 1)
  <2>3. pos - 1 \in 0..n /\ pos - 1 \in 0..Cap
    <3> HIDE DEF n
    <3>1. QED
      BY <1>1, <2>1, <2>2
  <2>4. it # ring.front /\ Before(it) = c /\ c \in Int
    <3>1. it # ring.front /\ Before(it) = c
      BY <1>1, <2>1, <2>2, PlaceSteps
    <3>2. c \in Offset /\ Offset \subseteq Int
      BY <1>1, <2>3, PlaceSteps DEF Offset
    <3>3. QED
      BY <3>1, <3>2
  <2>5. IterAt(c, pos - 1)
    BY <2>2, <2>4 DEF IterDecrement
  <2>6. c = Place(ring, pos - 1)
    OBVIOUS
  <2> HIDE DEF c, n
  <2>7. QED
    BY <2>3, <2>4, <2>5, <2>6, IterAtKeepsInv DEF n
<1>9. ASSUME it # NoIter, it >= 0, NEW k \in Strides, pos + k \in 0..n, IterMove(k)
      PROVE  RingInv' /\ QueueStep
  <2>1. /\ it = Place(ring, pos) /\ it \in Int /\ pos \in 0..n /\ pos \in 0..Cap
        /\ k \in Int /\ pos + k \in 0..Cap
    <3>1. it = Place(ring, pos) /\ it \in Int /\ pos \in 0..n /\ pos \in 0..Cap
      BY <1>6, <1>9
    <3>2. k \in Int
      BY IterAssumption
    <3> HIDE DEF n
    <3>3. QED
      BY <1>1, <1>9, <3>1, <3>2
  <2>2. CASE MoveAllowed(ring, it, k)
    <3> DEFINE c == Moved(it, k)
    <3>1. IterAt(c, pos + k)
      BY <1>9, <2>2 DEF IterMove
    <3>2. c \in Int /\ (c = Place(ring, pos + k) \/ c < 0)
      BY <1>1, <2>1, MovedPlace
    <3> HIDE DEF c
    <3>3. QED
      BY <1>9, <3>1, <3>2, IterAtKeepsInv
  <2>3. CASE ~MoveAllowed(ring, it, k)
    <3>1. Abort("iter")
      BY <1>9, <2>3 DEF IterMove
    <3>2. ~(ring.front <= ring.back)
      BY <1>1, <1>9, <2>1, <2>3, StraightAsserts
    <3>3. ring.back < ring.front
      BY <1>2, <3>2
    <3>4. QED
      BY <3>1, <3>3, AbortKeepsInv
  <2>4. QED
    BY <2>2, <2>3
<1>10. QED
  BY <1>3, <1>4, <1>5, <1>7, <1>8, <1>9 DEF ReadOnly

\* The buffer starts empty, as the queue does.
LEMMA RingStart ==
  ASSUME RingInit
  PROVE  RingInv /\ Queue!Init
<1>1. /\ ring \in [cells : [Offset -> Byte], front : {0}, back : {0}]
      /\ data = <<>> /\ it = NoIter /\ pos = 0 /\ aborted = "no"
  BY DEF RingInit
<1>2. ring \in Buffer /\ ring.front = 0 /\ ring.back = 0
  <2>1. 0 \in Offset
    BY CapAssumption DEF Offset
  <2>2. QED
    BY <1>1, <2>1 DEF Buffer
<1>3. Occupied(ring) = 0
  BY <1>2 DEF Occupied
<1>4. Content(ring) = <<>>
  BY <1>2, EmptyContent DEF Empty
<1>5. data \in UNION {[1..n -> Byte] : n \in 0..Cap}
  <2>1. <<>> \in Seq(Byte) /\ Len(<<>>) = 0
    BY EmptySeq
  <2>2. Len(<<>>) <= Cap
    BY <2>1, CapAssumption
  <2>3. QED
    BY <1>1, <2>1, <2>2, ShortSequence
<1>6. RingInv
  BY <1>1, <1>2, <1>3, <1>5 DEF RingInv
<1>7. QED
  BY <1>1, <1>4, <1>6 DEF Queue!Init

\* Every call keeps the invariant and is the queue's call, or no step of it.
LEMMA RingStep ==
  ASSUME RingInv, [RingNext]_ring_vars
  PROVE  RingInv' /\ QueueStep
<1> DEFINE n == Occupied(ring)
<1>1. n \in 0..Cap /\ Cap \in Nat /\ Occupied(ring) = n
  BY BufferFields DEF RingInv
<1>2. CASE UNCHANGED ring_vars
  <2>1. ring' = ring /\ data' = data /\ it' = it /\ pos' = pos /\ aborted' = aborted
    BY <1>2 DEF ring_vars
  <2>2. RingInv'
    BY <2>1 DEF RingInv
  <2>3. Content(ring') = Content(ring)
    BY <2>1
  <2>4. QED
    BY <2>1, <2>2, <2>3, QueueSteps
<1>3. CASE RingNext
  <2>1. aborted = "no" /\ Call
    BY <1>3 DEF RingNext
  <2>2. ASSUME Cap - n > 0, NEW b \in Byte, PushBack(b) \/ PushFront(b)
        PROVE  RingInv' /\ QueueStep
    <3>1. n < Cap
      <4> HIDE DEF n
      <4>1. QED
        BY <1>1, <2>2
    <3>2. QED
      BY <2>1, <2>2, <3>1, SingleCalls
  <2>3. ASSUME Cap - n < Cap, PopBack \/ PopFront
        PROVE  RingInv' /\ QueueStep
    <3>1. n > 0
      <4> HIDE DEF n
      <4>1. QED
        BY <1>1, <2>3
    <3>2. QED
      BY <2>1, <2>3, <3>1, SingleCalls
  <2>4. ASSUME NEW k \in 0..(Cap - n), NEW bytes \in [1..k -> Byte], AppendData(bytes)
        PROVE  RingInv' /\ QueueStep
    BY <2>1, <2>4, AppendCall
  <2>5. ASSUME NEW k \in 0..n, Poll(k) PROVE RingInv' /\ QueueStep
    BY <2>1, <2>5, PollCall
  <2>6. ASSUME NEW k \in 0..Offered(ring), NEW m \in 0..OfferedNext(ring, k), PollBy(k, m)
        PROVE  RingInv' /\ QueueStep
    BY <2>1, <2>6, PollByCall
  <2>7. ASSUME ReadOnly PROVE RingInv' /\ QueueStep
    BY <2>1, <2>7, ReadCall
  <2>8. \/ Cap - n > 0 /\ \E b \in Byte : PushBack(b) \/ PushFront(b)
        \/ Cap - n < Cap /\ (PopBack \/ PopFront)
        \/ \E k \in 0..(Cap - n) : \E bytes \in [1..k -> Byte] : AppendData(bytes)
        \/ \E k \in 0..n : Poll(k)
        \/ \E k \in 0..Offered(ring) : \E m \in 0..OfferedNext(ring, k) : PollBy(k, m)
        \/ ReadOnly
    BY <1>1, <2>1 DEF Call
  <2>9. QED
    BY <2>2, <2>3, <2>4, <2>5, <2>6, <2>7, <2>8
<1>4. QED
  BY <1>2, <1>3

(* The ring buffer is always within its array, an iterator stands on the   *)
(* byte it counts or before the array, and an assertion has failed only    *)
(* in poll or in an iterator over a buffer that wraps.                     *)
THEOREM RingInvariant ==
  RingSpec => []RingInv
<1>1. RingInit => RingInv
  BY RingStart
<1>2. RingInv /\ [RingNext]_ring_vars => RingInv'
  BY RingStep
<1>3. QED
  BY <1>1, <1>2, PTL DEF RingSpec

\* Every offset is one of the array's, whatever calls are made.
THEOREM RingTypes ==
  RingSpec => []RingTypeOK
<1>1. RingInv => RingTypeOK
  <2> SUFFICES ASSUME RingInv PROVE RingTypeOK
    OBVIOUS
  <2>1. ring \in Buffer /\ pos \in 0..Occupied(ring)
    BY DEF RingInv
  <2>2. Occupied(ring) \in 0..Cap /\ Cap \in Nat
    BY <2>1, BufferFields
  <2>3. pos \in 0..Cap
    BY <2>1, <2>2
  <2>4. QED
    BY <2>3 DEF RingInv, RingTypeOK
<1>2. QED
  BY <1>1, RingInvariant, PTL

\* The asserts of the single-byte calls and of append never fail, the others
\* only while the bytes wrap round the end of the array.
THEOREM RingAsserts ==
  RingSpec => []AssertsFailOnlyWrapped
<1>1. RingInv => AssertsFailOnlyWrapped
  BY DEF RingInv, AssertsFailOnlyWrapped
<1>2. QED
  BY <1>1, RingInvariant, PTL

\* An iterator is where the caller counts it, or before the array.
THEOREM RingIterators ==
  RingSpec => []IterAtItsPlace
<1>1. RingInv => IterAtItsPlace
  BY DEF RingInv, IterAtItsPlace
<1>2. QED
  BY <1>1, RingInvariant, PTL

\* The ring implements the queue: every call is one of the queue's operations
\* on the content, or leaves content and data alone.
THEOREM RingImplementsQueue ==
  RingSpec => QueueSpec
<1>1. RingInit => Queue!Init
  BY RingStart
<1>2. RingInv /\ [RingNext]_ring_vars => [Queue!Next]_(Queue!vars)
  BY RingStep DEF QueueStep
<1>3. QED
  BY <1>1, <1>2, RingInvariant, PTL DEF RingSpec, QueueSpec, Queue!Spec

-----------------------------------------------------------------------------
(* tcp_conn *)

\* Adjacent elements are not enough for the induction: what an append leaves
\* of the buffer follows bytes that were not next to it before.
Increasing(s) == \A i, j \in 1..Len(s) : i < j => s[i] < s[j]

\* The inductive invariant.  That bytes are numbers up to passed is what makes
\* new ones larger than all before.
TcpInv ==
  /\ m_write_buffer \in Buffer
  /\ error \in {"none", "closed", "overrun"}
  /\ passed \in 0..MaxBytes
  /\ wire \in Seq(1..passed)
  /\ Content(m_write_buffer) \in Seq(1..passed)
  /\ accepted \in Seq(1..passed)
  /\ lapped \in BOOLEAN
  /\ Increasing(Pending)
  /\ ~lapped => Pending = accepted
  /\ error = "overrun" => lapped

-----------------------------------------------------------------------------
(* Sequences of numbered bytes *)

\* A sequence may be retyped by its elements.
LEMMA SeqOfElements ==
  ASSUME NEW S, NEW T, NEW s \in Seq(S), \A i \in 1..Len(s) : s[i] \in T
  PROVE  s \in Seq(T)
<1>1. Len(s) \in Nat /\ s \in [1..Len(s) -> T]
  BY LenProperties
<1>2. QED
  BY <1>1, FunctionIsSeq

\* Moving bytes from the buffer to the wire leaves their concatenation alone.
LEMMA Regrouped ==
  ASSUME NEW S, NEW s \in Seq(S), NEW t \in Seq(S), NEW u \in Seq(S),
         NEW v, v = s \o t, NEW w, w = t \o u
  PROVE  v \o u = s \o w
BY ConcatAssociative

\* Bytes that were passed before stay bytes that were passed.
LEMMA GrownBound ==
  ASSUME NEW a \in Nat, NEW b \in Nat, a <= b, NEW s \in Seq(1..a)
  PROVE  s \in Seq(1..b)
<1>1. 1..a \subseteq 1..b
  OBVIOUS
<1>2. QED
  BY <1>1, SeqMonotonic

\* The bytes of one send;
LEMMA NumberedBytes ==
  ASSUME NEW a \in Nat, NEW b \in a..MaxBytes
  PROVE  /\ Numbered(a, b) \in Seq(1..b) /\ Numbered(a, b) \in Seq(Byte)
         /\ Len(Numbered(a, b)) = b - a
         /\ \A i \in 1..(b - a) : Numbered(a, b)[i] = a + i
<1> DEFINE n == b - a
           s == Numbered(a, b)
<1>1. n \in Nat /\ b \in Nat /\ \A i \in 1..n : a + i \in 1..b
  BY TcpAssumption
<1>2. 1..b \subseteq Byte
  BY TcpAssumption
<1>3. s = [i \in 1..n |-> a + i]
  BY DEF Numbered
<1> HIDE DEF n, s
<1>4. s \in [1..n -> 1..b] /\ \A i \in 1..n : s[i] = a + i
  BY <1>1, <1>3
<1>5. s \in Seq(1..b) /\ Len(s) = n
  BY <1>1, <1>4, FunctionIsSeq
<1>6. s \in Seq(Byte)
  BY <1>2, <1>5, SeqMonotonic
<1>7. QED
  BY <1>4, <1>5, <1>6 DEF n, s

\* no byte at all;
LEMMA NothingNumbered ==
  ASSUME NEW a \in Nat, NEW S, NEW s \in Seq(S)
  PROVE  s \o Numbered(a, a) = s
<1>1. a - a = 0 /\ 1..0 = {}
  OBVIOUS
<1>2. Numbered(a, a) = <<>>
  BY <1>1 DEF Numbered
<1>3. QED
  BY <1>2, ConcatEmptySeq

\* two sends in a row are one longer send.
LEMMA NumberedAdjacent ==
  ASSUME NEW a \in Nat, NEW b \in Nat, NEW c \in Nat, a <= b, b <= c, c <= MaxBytes
  PROVE  Numbered(a, b) \o Numbered(b, c) = Numbered(a, c)
<1> DEFINE s == Numbered(a, b)
           t == Numbered(b, c)
           u == Numbered(a, c)
<1>1. b \in a..MaxBytes /\ c \in b..MaxBytes /\ c \in a..MaxBytes
  BY TcpAssumption
<1>2. /\ s \in Seq(1..b) /\ Len(s) = b - a /\ \A i \in 1..(b - a) : s[i] = a + i
      /\ t \in Seq(1..c) /\ Len(t) = c - b /\ \A i \in 1..(c - b) : t[i] = b + i
      /\ u \in Seq(1..c) /\ Len(u) = c - a /\ \A i \in 1..(c - a) : u[i] = a + i
  BY <1>1, NumberedBytes
<1> HIDE DEF s, t, u
<1>3. s \in Seq(1..c)
  BY <1>2, GrownBound
<1>4. /\ s \o t \in Seq(1..c) /\ Len(s \o t) = Len(s) + Len(t)
      /\ \A i \in 1..(Len(s) + Len(t)) :
           (s \o t)[i] = IF i <= Len(s) THEN s[i] ELSE t[i - Len(s)]
  BY <1>2, <1>3, ConcatProperties
<1> DEFINE v == s \o t
<1> HIDE DEF v
<1>5. /\ v \in Seq(1..c) /\ Len(v) = c - a
      /\ \A i \in 1..(c - a) : v[i] = IF i <= b - a THEN s[i] ELSE t[i - (b - a)]
  <2>1. (b - a) + (c - b) = c - a
    OBVIOUS
  <2>2. QED
    BY <1>2, <1>4, <2>1 DEF v
<1>6. \A i \in 1..(c - a) : v[i] = u[i]
  <2>1. ASSUME NEW i \in 1..(c - a), i <= b - a PROVE v[i] = a + i
    <3>1. i \in 1..(b - a)
      BY <2>1
    <3>2. QED
      BY <1>2, <1>5, <2>1, <3>1
  <2>2. ASSUME NEW i \in 1..(c - a), ~(i <= b - a) PROVE v[i] = a + i
    <3>1. i - (b - a) \in 1..(c - b) /\ b + (i - (b - a)) = a + i
      BY <2>2
    <3>2. QED
      BY <1>2, <1>5, <2>2, <3>1
  <2>3. QED
    BY <1>2, <2>1, <2>2
<1>7. v = u
  BY <1>2, <1>5, <1>6, SeqEqual
<1>8. QED
  BY <1>7 DEF v, s, t, u

\* Bytes above a follow bytes up to a.
LEMMA IncreasingConcat ==
  ASSUME NEW a \in Nat, NEW b \in Nat, a <= b,
         NEW s \in Seq(1..a), Increasing(s), NEW t \in Seq(1..b), Increasing(t),
         \A i \in 1..Len(t) : t[i] > a
  PROVE  Increasing(s \o t)
<1> DEFINE u == s \o t
           m == Len(s)
           n == Len(t)
<1>1. s \in Seq(1..b) /\ m \in Nat /\ n \in Nat
  BY GrownBound, LenProperties
<1>2. /\ Len(u) = m + n
      /\ \A i \in 1..(m + n) : u[i] = IF i <= m THEN s[i] ELSE t[i - m]
  BY <1>1, ConcatProperties
<1>3. /\ \A i \in 1..m : s[i] \in 1..a
      /\ \A i \in 1..n : t[i] \in 1..b /\ t[i] > a
      /\ \A i, j \in 1..m : i < j => s[i] < s[j]
      /\ \A i, j \in 1..n : i < j => t[i] < t[j]
  BY ElementOfSeq DEF Increasing
<1> HIDE DEF u, m, n
<1>4. ASSUME NEW i \in 1..(m + n), NEW j \in 1..(m + n), i < j
      PROVE  u[i] < u[j]
  <2>1. CASE j <= m
    <3>1. i \in 1..m /\ j \in 1..m /\ i <= m
      BY <1>1, <1>4, <2>1
    <3>2. QED
      BY <1>2, <1>3, <1>4, <2>1, <3>1
  <2>2. CASE ~(j <= m) /\ i <= m
    <3>1. i \in 1..m /\ j - m \in 1..n
      BY <1>1, <1>4, <2>2
    <3>2. u[i] = s[i] /\ u[j] = t[j - m]
      BY <1>2, <2>2
    <3>3. u[i] \in 1..a /\ u[j] \in 1..b /\ u[j] > a
      BY <1>3, <3>1, <3>2
    <3>4. QED
      BY <3>3
  <2>3. CASE ~(j <= m) /\ ~(i <= m)
    <3>1. i - m \in 1..n /\ j - m \in 1..n /\ i - m < j - m
      BY <1>1, <1>4, <2>3
    <3>2. u[i] = t[i - m] /\ u[j] = t[j - m]
      BY <1>2, <2>3
    <3>3. QED
      BY <1>3, <3>1, <3>2
  <2>4. QED
    BY <2>1, <2>2, <2>3
<1>5. QED
  BY <1>2, <1>4 DEF Increasing, u

\* The last m of the bytes a+1 to b.
LEMMA LastNumbered ==
  ASSUME NEW a \in Nat, NEW b \in a..MaxBytes, NEW m \in 0..(b - a),
         NEW S, NEW t \in Seq(S), Len(t) = m,
         \A i \in 1..m : t[i] = Numbered(a, b)[((b - a) - m) + i]
  PROVE  t \in Seq(1..b) /\ Increasing(t) /\ \A i \in 1..Len(t) : t[i] > a
<1>1. b \in Nat /\ \A i \in 1..(b - a) : Numbered(a, b)[i] = a + i
  <2>1. b \in Nat
    BY TcpAssumption
  <2>2. QED
    BY <2>1, NumberedBytes
<1>2. \A i \in 1..m : t[i] = (b - m) + i /\ t[i] \in 1..b /\ t[i] > a
  <2>1. ASSUME NEW i \in 1..m PROVE t[i] = (b - m) + i /\ t[i] \in 1..b /\ t[i] > a
    <3>1. /\ ((b - a) - m) + i \in 1..(b - a) /\ a + (((b - a) - m) + i) = (b - m) + i
          /\ (b - m) + i \in 1..b /\ (b - m) + i > a
      BY <1>1
    <3>2. t[i] = (b - m) + i
      BY <1>1, <3>1
    <3>3. QED
      BY <3>1, <3>2
  <2>2. QED
    BY <2>1
<1>3. t \in Seq(1..b)
  BY <1>2, SeqOfElements
<1>4. \A i, j \in 1..m : i < j => (b - m) + i < (b - m) + j
  BY <1>1
<1>5. Increasing(t)
  BY <1>2, <1>4 DEF Increasing
<1>6. QED
  BY <1>2, <1>3, <1>5

-----------------------------------------------------------------------------
(* The steps *)

\* write_to_buffer with the bytes a+1 to b, where none of those that the kernel
\* has (w) and that wait is above a.
LEMMA ToBufferGrows ==
  ASSUME NEW a \in Nat, NEW b \in a..MaxBytes, NEW w \in Seq(1..a),
         m_write_buffer \in Buffer, Content(m_write_buffer) \in Seq(1..a),
         Increasing(w \o Content(m_write_buffer)), lapped \in BOOLEAN,
         ToBuffer(Numbered(a, b))
  PROVE  /\ m_write_buffer' \in Buffer
         /\ Content(m_write_buffer') \in Seq(1..b)
         /\ Increasing(w \o Content(m_write_buffer'))
         /\ lapped' \in BOOLEAN
         /\ ~lapped' => /\ ~lapped
                        /\ w \o Content(m_write_buffer')
                             = (w \o Content(m_write_buffer)) \o Numbered(a, b)
         /\ error' = error \/ (error' = "overrun" /\ lapped')
         /\ lapped => lapped'
<1> DEFINE r == m_write_buffer
           s == Numbered(a, b)
           old == Content(m_write_buffer)
           new == Content(m_write_buffer')
<1>1. b \in Nat /\ a <= b /\ b <= MaxBytes
  BY TcpAssumption
<1>2. /\ s \in Seq(1..b) /\ s \in Seq(Byte) /\ Len(s) = b - a /\ Len(s) \in Nat
  BY <1>1, NumberedBytes
<1>3. /\ HasRoom(r, Len(s)) /\ lapped' = (lapped \/ Lapping(r))
      /\ IF AppendOverruns(r, Len(s)) THEN error' = "overrun" /\ r' = r
         ELSE r' = Appended(r, s) /\ error' = error
  BY DEF ToBuffer
<1>4. lapped' \in BOOLEAN /\ (lapped => lapped') /\ (~lapped' => ~lapped /\ ~Lapping(r))
  BY <1>3
<1>5. w \in Seq(1..b) /\ old \in Seq(1..b)
  BY <1>1, GrownBound
<1> HIDE DEF s
<1>6. CASE AppendOverruns(r, Len(s))
  <2>1. Lapping(r)
    BY <1>2, <1>3, <1>6, OverrunsWrapped DEF Lapping
  <2>2. m_write_buffer' = m_write_buffer /\ error' = "overrun" /\ lapped'
    BY <1>3, <1>6, <2>1
  <2>3. new = old
    BY <2>2
  <2>4. QED
    BY <1>4, <1>5, <2>2, <2>3
<1>7. CASE ~AppendOverruns(r, Len(s))
  <2>1. r' = Appended(r, s) /\ error' = error
    BY <1>3, <1>7
  <2>2. /\ r' \in Buffer
        /\ \/ new = old \o s
           \/ /\ Lapping(r)
              /\ \E m \in 0..Len(s) :
                   /\ Len(new) = m
                   /\ \A i \in 1..m : new[i] = s[(Len(s) - m) + i]
    BY <1>2, <1>3, <1>7, <2>1, AppendedContent DEF Lapping
  <2> HIDE DEF old, new
  <2>3. CASE new = old \o s
    <3>1. new \in Seq(1..b)
      BY <1>2, <1>5, <2>3, ConcatProperties
    <3>2. w \o new = (w \o old) \o s
      <4> DEFINE v == w \o old
                 T == 1..b
      <4>1. w \in Seq(T) /\ old \in Seq(T) /\ s \in Seq(T) /\ v = w \o old /\ new = old \o s
        BY <1>2, <1>5, <2>3 DEF old
      <4> HIDE DEF v, T
      <4>2. v \o s = w \o new
        BY <4>1, Regrouped, SMTT(60)
      <4>3. QED
        BY <4>2 DEF v
    <3>3. Increasing(s) /\ \A i \in 1..Len(s) : s[i] > a
      <4>1. (b - a) \in 0..(b - a) /\ Len(s) = b - a
            /\ \A i \in 1..(b - a) : s[i] = s[((b - a) - (b - a)) + i]
        BY <1>1, <1>2
      <4>2. QED
        BY <1>1, <1>2, <4>1, LastNumbered DEF s
    <3>4. Increasing(w \o new)
      <4>1. w \o old \in Seq(1..a)
        BY ConcatProperties DEF old
      <4>2. QED
        BY <1>1, <1>2, <3>2, <3>3, <4>1, IncreasingConcat DEF old
    <3>5. QED
      BY <1>4, <2>1, <2>2, <3>1, <3>2, <3>4 DEF old, new, s
  <2>4. CASE ~(new = old \o s)
    <3>1. Lapping(r)
      BY <2>2, <2>4
    <3>2. PICK m \in 0..Len(s) : /\ Len(new) = m
                                 /\ \A i \in 1..m : new[i] = s[(Len(s) - m) + i]
      BY <2>2, <2>4
    <3>3. new \in Seq(Byte)
      BY <2>2, ContentIsSeq DEF new
    <3>4. new \in Seq(1..b) /\ Increasing(new) /\ \A i \in 1..Len(new) : new[i] > a
      <4>1. m \in 0..(b - a) /\ \A i \in 1..m : new[i] = s[((b - a) - m) + i]
        BY <1>2, <3>2
      <4>2. QED
        BY <1>1, <3>2, <3>3, <4>1, LastNumbered DEF s
    <3>5. Increasing(w)
      <4>1. /\ Len(w) \in Nat /\ Len(old) \in Nat /\ Len(w \o old) = Len(w) + Len(old)
            /\ \A i \in 1..(Len(w) + Len(old)) :
                 (w \o old)[i] = IF i <= Len(w) THEN w[i] ELSE old[i - Len(w)]
        BY LenProperties, ConcatProperties DEF old
      <4>2. \A i \in 1..Len(w) : i \in 1..Len(w \o old) /\ (w \o old)[i] = w[i]
        BY <4>1
      <4>3. \A i, j \in 1..Len(w \o old) : i < j => (w \o old)[i] < (w \o old)[j]
        BY DEF Increasing, old
      <4>4. QED
        BY <4>2, <4>3 DEF Increasing
    <3>6. Increasing(w \o new)
      BY <1>1, <3>4, <3>5, IncreasingConcat
    <3>7. lapped'
      BY <1>3, <3>1
    <3>8. QED
      BY <1>4, <2>1, <2>2, <3>4, <3>6, <3>7 DEF new
  <2>5. QED
    BY <2>3, <2>4
<1>8. QED
  BY <1>6, <1>7

\* Nothing is passed, pending or on the wire at first.
LEMMA TcpInit ==
  ASSUME Init
  PROVE  TcpInv
<1>1. m_write_buffer \in Buffer
  <2>1. 0 \in Offset /\ 0 \in Byte
    BY CapAssumption, TcpAssumption DEF Offset
  <2>2. QED
    BY <2>1 DEF Init, Buffer
<1>2. Content(m_write_buffer) = <<>>
  BY <1>1, EmptyContent DEF Init, Empty
<1>3. passed = 0 /\ wire = <<>> /\ accepted = <<>> /\ 0 \in 0..MaxBytes
  BY TcpAssumption DEF Init
<1>4. <<>> \in Seq(1..passed) /\ <<>> \o <<>> = <<>> /\ Len(<<>>) = 0
  BY EmptySeq, ConcatEmptySeq
<1>5. Pending = <<>>
  BY <1>2, <1>3, <1>4 DEF Pending
<1>6. Increasing(Pending)
  BY <1>4, <1>5 DEF Increasing
<1>7. QED
  BY <1>1, <1>2, <1>3, <1>4, <1>5, <1>6 DEF Init, TcpInv

\* An empty buffer counts nothing, wherever its offsets stand.
LEMMA EmptyBuffer ==
  ASSUME NEW r \in Buffer, Empty(r)
  PROVE  /\ Content(r) = <<>> /\ ~Lapping(r)
         /\ \A len \in Int : HasRoom(r, len) <=> Cap >= len
<1>1. Content(r) = <<>>
  BY EmptyContent
<1>2. r.front = r.back /\ r.front \in Int /\ Cap \in Nat
  BY BufferFields DEF Empty
<1>3. Size(r) = 0
  BY <1>2 DEF Size, Index
<1>4. QED
  BY <1>1, <1>2, <1>3 DEF HasRoom, Lapping

\* send with bytes waiting,
LEMMA BufferedStep ==
  ASSUME TcpInv, error = "none", NEW len \in Lengths, passed + len <= MaxBytes,
         passed' = passed + len, SendBuffered(len)
  PROVE  TcpInv'
<1> DEFINE a == passed
           b == passed + len
           s == Numbered(a, b)
           old == Content(m_write_buffer)
           new == Content(m_write_buffer')
<1>1. /\ a \in Nat /\ b \in a..MaxBytes /\ b \in Nat /\ a <= b /\ b \in 0..MaxBytes
      /\ wire \in Seq(1..a) /\ old \in Seq(1..a) /\ accepted \in Seq(1..a)
      /\ m_write_buffer \in Buffer /\ Increasing(wire \o old) /\ lapped \in BOOLEAN
  BY TcpAssumption DEF TcpInv, Pending
<1>2. /\ ToBuffer(s) /\ accepted' = accepted \o s /\ wire' = wire
  BY DEF SendBuffered
<1> HIDE DEF a, b
<1>3. /\ m_write_buffer' \in Buffer /\ new \in Seq(1..b) /\ Increasing(wire \o new)
      /\ lapped' \in BOOLEAN
      /\ ~lapped' => ~lapped /\ wire \o new = (wire \o old) \o s
      /\ error' = error \/ (error' = "overrun" /\ lapped')
      /\ lapped => lapped'
  BY <1>1, <1>2, ToBufferGrows
<1>4. wire \in Seq(1..b) /\ accepted \o s \in Seq(1..b)
  <2>1. wire \in Seq(1..b) /\ accepted \in Seq(1..b)
    BY <1>1, GrownBound
  <2>2. s \in Seq(1..b)
    BY <1>1, NumberedBytes
  <2>3. QED
    BY <2>1, <2>2, ConcatProperties
<1>5. ~lapped' => wire \o new = accepted \o s
  <2>1. ~lapped => wire \o old = accepted
    BY DEF TcpInv, Pending
  <2>2. QED
    BY <1>3, <2>1
<1> HIDE DEF s
<1>6. passed' = b /\ Pending' = wire \o new
  BY <1>2 DEF b, Pending
<1>7. QED
  BY <1>1, <1>2, <1>3, <1>4, <1>5, <1>6 DEF TcpInv

\* or refused;
LEMMA RefusedStep ==
  ASSUME TcpInv, NEW len \in Lengths, passed + len <= MaxBytes,
         passed' = passed + len, SendRefused(len)
  PROVE  TcpInv'
<1>1. /\ passed \in Nat /\ passed' \in Nat /\ passed <= passed' /\ passed' \in 0..MaxBytes
  BY TcpAssumption DEF TcpInv
<1>2. /\ m_write_buffer' = m_write_buffer /\ wire' = wire /\ error' = error
      /\ accepted' = accepted /\ lapped' = lapped
  BY DEF SendRefused
<1>3. /\ wire \in Seq(1..passed') /\ Content(m_write_buffer) \in Seq(1..passed')
      /\ accepted \in Seq(1..passed')
  BY <1>1, GrownBound DEF TcpInv
<1>4. Content(m_write_buffer') = Content(m_write_buffer) /\ Pending' = Pending
  BY <1>2 DEF Pending
<1>5. QED
  BY <1>1, <1>2, <1>3, <1>4 DEF TcpInv

\* with nothing waiting, where the kernel takes the first n bytes:
LEMMA KernelTakes ==
  ASSUME TcpInv, Empty(m_write_buffer), NEW mid \in passed..MaxBytes
  PROVE  /\ wire \o Numbered(passed, mid) \in Seq(1..mid)
         /\ accepted \o Numbered(passed, mid) \in Seq(1..mid)
         /\ Increasing(wire \o Numbered(passed, mid))
         /\ ~lapped => wire = accepted
         /\ Content(m_write_buffer) = <<>>
<1> DEFINE a == passed
           s == Numbered(a, mid)
<1>1. /\ a \in Nat /\ mid \in a..MaxBytes /\ mid \in Nat /\ a <= mid
      /\ wire \in Seq(1..a) /\ accepted \in Seq(1..a) /\ m_write_buffer \in Buffer
  BY TcpAssumption DEF TcpInv
<1>2. Content(m_write_buffer) = <<>>
  BY <1>1, EmptyBuffer
<1>3. wire \o <<>> = wire
  BY <1>1, ConcatEmptySeq
<1>4. Increasing(wire) /\ (~lapped => wire = accepted)
  BY <1>2, <1>3 DEF TcpInv, Pending
<1> HIDE DEF a
<1>5. s \in Seq(1..mid) /\ Len(s) = mid - a
  BY <1>1, NumberedBytes
<1>6. Increasing(s) /\ \A i \in 1..Len(s) : s[i] > a
  <2>1. (mid - a) \in 0..(mid - a) /\ \A i \in 1..(mid - a) : s[i] = s[((mid - a) - (mid - a)) + i]
    BY <1>1
  <2>2. QED
    BY <1>1, <1>5, <2>1, LastNumbered
<1>7. wire \o s \in Seq(1..mid) /\ accepted \o s \in Seq(1..mid)
  <2>1. wire \in Seq(1..mid) /\ accepted \in Seq(1..mid)
    BY <1>1, GrownBound
  <2>2. QED
    BY <1>5, <2>1, ConcatProperties
<1> HIDE DEF s
<1>8. Increasing(wire \o s)
  BY <1>1, <1>4, <1>5, <1>6, IncreasingConcat
<1>9. QED
  BY <1>2, <1>4, <1>7, <1>8 DEF a, s

\* A send on an empty buffer: the kernel takes a part, the rest is buffered.
LEMMA DirectStep ==
  ASSUME TcpInv, error = "none", NEW len \in Lengths, passed + len <= MaxBytes,
         passed' = passed + len, NEW n \in 0..len, SendDirect(len, n)
  PROVE  TcpInv'
<1> DEFINE a == passed
           mid == passed + n
           b == passed + len
           s == Numbered(a, mid)
           t == Numbered(mid, b)
           w == wire \o s
           new == Content(m_write_buffer')
<1>1. /\ a \in Nat /\ mid \in a..MaxBytes /\ b \in mid..MaxBytes /\ b \in Nat /\ mid \in Nat
      /\ a <= mid /\ mid <= b /\ b <= MaxBytes /\ b \in 0..MaxBytes
      /\ m_write_buffer \in Buffer /\ lapped \in BOOLEAN
  <2>1. a \in 0..MaxBytes /\ MaxBytes \in Nat /\ len \in Nat \ {0} /\ b <= MaxBytes
    BY TcpAssumption DEF TcpInv
  <2>2. m_write_buffer \in Buffer /\ lapped \in BOOLEAN
    BY DEF TcpInv
  <2> HIDE DEF a
  <2>3. QED
    BY <2>1, <2>2 DEF a
<1>2. /\ Empty(m_write_buffer) /\ wire' = w
      /\ accepted' = accepted \o Numbered(a, b)
      /\ \/ n = len /\ m_write_buffer' = m_write_buffer /\ error' = error /\ lapped' = lapped
         \/ n # len /\ ToBuffer(t)
  BY DEF SendDirect
<1>3. /\ w \in Seq(1..mid) /\ accepted \o s \in Seq(1..mid) /\ Increasing(w)
      /\ ~lapped => wire = accepted
      /\ Content(m_write_buffer) = <<>>
  BY <1>1, <1>2, KernelTakes
<1>4. w \o <<>> = w /\ <<>> \in Seq(1..mid)
  BY <1>3, ConcatEmptySeq, EmptySeq
<1>5. accepted \o Numbered(a, b) \in Seq(1..b) /\ w \in Seq(1..b) /\ t \in Seq(1..b)
  <2>1. accepted \in Seq(1..a)
    BY DEF TcpInv
  <2> HIDE DEF a, mid, b
  <2>2. b \in a..MaxBytes
    BY <1>1, TcpAssumption
  <2>3. accepted \in Seq(1..b) /\ Numbered(a, b) \in Seq(1..b)
    BY <1>1, <2>1, <2>2, GrownBound, NumberedBytes
  <2>4. w \in Seq(1..b) /\ t \in Seq(1..b)
    BY <1>1, <1>3, GrownBound, NumberedBytes
  <2>5. QED
    BY <2>3, <2>4, ConcatProperties
<1>6. (accepted \o s) \o t = accepted \o Numbered(a, b)
  <2>1. accepted \in Seq(1..a)
    BY DEF TcpInv
  <2> HIDE DEF a, mid, b
  <2>2. s \o t = Numbered(a, b)
    BY <1>1, NumberedAdjacent
  <2>3. accepted \in Seq(1..b)
    BY <1>1, <2>1, GrownBound
  <2>4. s \in Seq(1..b)
    <3>1. s \in Seq(1..mid)
      BY <1>1, NumberedBytes
    <3>2. QED
      BY <1>1, <3>1, GrownBound
  <2> DEFINE v == accepted \o s
             u == Numbered(a, b)
  <2>5. v = accepted \o s /\ u = s \o t /\ t \in Seq(1..b)
    BY <1>5, <2>2
  <2> HIDE DEF s, t, u, v
  <2>6. v \o t = accepted \o u
    BY <2>3, <2>4, <2>5, Regrouped
  <2>7. QED
    BY <2>6 DEF u, v
<1>7. passed' = b
  OBVIOUS
<1> HIDE DEF a, b, mid
<1>8. CASE n = len
  <2>1. m_write_buffer' = m_write_buffer /\ error' = error /\ lapped' = lapped
    BY <1>2, <1>8
  <2>2. t = <<>>
    <3>1. mid = b
      BY <1>8 DEF mid, b
    <3>2. Len(t) = 0
      BY <1>1, <3>1, NumberedBytes
    <3>3. QED
      BY <1>5, <3>2, EmptySeq
  <2>3. (accepted \o s) \o <<>> = accepted \o s
    BY <1>3, ConcatEmptySeq
  <2>4. accepted' = accepted \o s
    BY <1>2, <1>6, <2>2, <2>3
  <2> HIDE DEF s, t
  <2>5. ~lapped => w = accepted'
    BY <1>3, <2>4
  <2> HIDE DEF w
  <2>6. new = <<>> /\ Pending' = w
    BY <1>2, <1>3, <1>4, <2>1 DEF Pending
  <2>7. <<>> \in Seq(1..b)
    BY EmptySeq
  <2>8. QED
    BY <1>1, <1>2, <1>3, <1>5, <1>7, <2>1, <2>5, <2>6, <2>7 DEF TcpInv
<1>9. CASE n # len
  <2>1. ToBuffer(t)
    BY <1>2, <1>9
  <2> DEFINE old == Content(m_write_buffer)
  <2>2. old = <<>>
    BY <1>3
  <2> HIDE DEF w, s
  <2>3. old \in Seq(1..mid) /\ Increasing(w \o old)
    BY <1>3, <1>4, <2>2
  <2>4. /\ m_write_buffer' \in Buffer /\ new \in Seq(1..b) /\ Increasing(w \o new)
        /\ lapped' \in BOOLEAN
        /\ ~lapped' => ~lapped /\ w \o new = (w \o old) \o t
        /\ error' = error \/ (error' = "overrun" /\ lapped')
        /\ lapped => lapped'
    BY <1>1, <1>3, <2>1, <2>3, ToBufferGrows
  <2> HIDE DEF t, old
  <2>5. ~lapped' => w \o new = accepted'
    <3>1. ~lapped => w = accepted \o s
      BY <1>3 DEF w
    <3>2. QED
      BY <1>2, <1>4, <1>6, <2>2, <2>4, <3>1
  <2>6. Pending' = w \o new
    BY <1>2 DEF Pending
  <2>7. QED
    BY <1>1, <1>2, <1>5, <1>7, <2>4, <2>5, <2>6 DEF TcpInv
<1>10. QED
  BY <1>8, <1>9

\* with no room for the rest;
LEMMA TornStep ==
  ASSUME TcpInv, NEW len \in Lengths, passed + len <= MaxBytes,
         passed' = passed + len, NEW n \in 0..len, SendTorn(len, n)
  PROVE  TcpInv'
<1> DEFINE a == passed
           mid == passed + n
           b == passed + len
           s == Numbered(a, mid)
           w == wire \o s
<1>1. /\ mid \in a..MaxBytes /\ b \in Nat /\ mid \in Nat /\ mid <= b /\ b \in 0..MaxBytes
        <2>1. a \in 0..MaxBytes /\ MaxBytes \in Nat /\ len \in Nat \ {0} /\ b <= MaxBytes
    BY TcpAssumption DEF TcpInv
  <2> HIDE DEF a
  <2>2. QED
    BY <2>1, CapAssumption DEF a
<1>2. /\ Empty(m_write_buffer) /\ ~HasRoom(m_write_buffer, len - n)
      /\ wire' = w /\ accepted' = accepted \o s
      /\ m_write_buffer' = m_write_buffer /\ error' = error /\ lapped' = lapped
  BY DEF SendTorn
<1>3. /\ w \in Seq(1..mid) /\ accepted \o s \in Seq(1..mid) /\ Increasing(w)
      /\ ~lapped => wire = accepted
      /\ Content(m_write_buffer) = <<>>
  BY <1>1, <1>2, KernelTakes
<1>4. passed' = b
  OBVIOUS
<1> HIDE DEF a, mid, b, s
<1>5. w \in Seq(1..b) /\ accepted \o s \in Seq(1..b) /\ <<>> \in Seq(1..b) /\ w \o <<>> = w
  BY <1>1, <1>3, GrownBound, EmptySeq, ConcatEmptySeq
<1>6. ~lapped => w = accepted'
  BY <1>2, <1>3
<1> HIDE DEF w
<1>7. Content(m_write_buffer') = <<>> /\ Pending' = w
  BY <1>2, <1>3, <1>5 DEF Pending
<1>8. QED
  BY <1>1, <1>2, <1>3, <1>4, <1>5, <1>6, <1>7 DEF TcpInv

\* and the kernel takes what waits.
LEMMA WritableStep ==
  ASSUME TcpInv, NEW n \in 0..Offered(m_write_buffer),
         NEW m \in 0..OfferedNext(m_write_buffer, n), OnWritable(n, m)
  PROVE  TcpInv'
<1> DEFINE r == m_write_buffer
           c == Content(r)
           k == n + m
           p == PolledBy(r, n, m)
           first == SubSeq(c, 1, k)
           rest == SubSeq(c, k + 1, Len(c))
           S == 1..passed
<1>1. r \in Buffer /\ c \in Seq(S) /\ wire \in Seq(S)
  BY DEF TcpInv
<1>2. p.buf \in Buffer /\ k \in 0..Len(c) /\ p.data = first /\ Content(p.buf) = rest
  BY <1>1, PolledByContent
<1>3. /\ r' = p.buf /\ wire' = wire \o p.data /\ error' = error /\ passed' = passed
      /\ accepted' = accepted /\ lapped' = lapped
  BY DEF OnWritable
<1> HIDE DEF p, k, c, S
<1>4. Len(c) \in Nat /\ \A i \in 1..Len(c) : c[i] \in S
  BY <1>1, LenProperties, ElementOfSeq
<1>5. first \in Seq(S) /\ rest \in Seq(S)
  <2>1. /\ 1 \in Int /\ k \in Int /\ k + 1 \in Int /\ Len(c) \in Int
        /\ \A i \in 1..k : c[i] \in S
        /\ \A i \in (k + 1)..Len(c) : c[i] \in S
    BY <1>2, <1>4
  <2>2. QED
    BY <2>1, SubSeqProperties
<1>6. first \o rest = c
  <2>1. /\ 1 \in 1..(Len(c) + 1) /\ k \in (1 - 1)..Len(c) /\ Len(c) \in k..Len(c)
    BY <1>2, <1>4
  <2>2. SubSeq(c, 1, Len(c)) = c
    BY <1>1, SubSeqFull
  <2>3. SubSeq(c, 1, k) \o SubSeq(c, k + 1, Len(c)) = SubSeq(c, 1, Len(c))
    BY <1>1, <2>1, ConcatAdjacentSubSeq
  <2>4. QED
    BY <2>2, <2>3
<1> HIDE DEF first, rest
<1>7. (wire \o first) \o rest = wire \o c
  <2> DEFINE v == wire \o first
  <2>1. v = wire \o first /\ c = first \o rest
    BY <1>6
  <2> HIDE DEF v
  <2>2. v \o rest = wire \o c
    BY <1>1, <1>5, <2>1, Regrouped
  <2>3. QED
    BY <2>2 DEF v
<1>8. Content(m_write_buffer') = rest /\ Pending' = (wire \o first) \o rest
  BY <1>2, <1>3 DEF Pending
<1>9. Pending' = Pending
  BY <1>7, <1>8 DEF Pending, c
<1>10. wire' \in Seq(S)
  BY <1>1, <1>2, <1>3, <1>5, ConcatProperties
<1>11. QED
  BY <1>2, <1>3, <1>5, <1>8, <1>9, <1>10 DEF TcpInv, S

\* Every step keeps the invariant.
LEMMA TcpStep ==
  ASSUME TcpInv, [Next]_vars
  PROVE  TcpInv'
<1>1. CASE UNCHANGED vars
  <2>1. /\ m_write_buffer' = m_write_buffer /\ wire' = wire /\ error' = error
        /\ passed' = passed /\ accepted' = accepted /\ lapped' = lapped
    BY <1>1 DEF vars
  <2>2. Pending' = Pending
    BY <2>1 DEF Pending
  <2>3. QED
    BY <2>1, <2>2 DEF TcpInv
<1>2. ASSUME NEW len \in Lengths, Send(len) PROVE TcpInv'
  <2>1. error = "none" /\ passed + len <= MaxBytes /\ passed' = passed + len
    BY <1>2 DEF Send
  <2>2. CASE SendBuffered(len)
    BY <2>1, <2>2, BufferedStep
  <2>3. CASE SendRefused(len)
    BY <2>1, <2>3, RefusedStep
  <2>4. ASSUME NEW n \in 0..len, SendDirect(len, n) PROVE TcpInv'
    BY <2>1, <2>4, DirectStep
  <2>5. ASSUME NEW n \in 0..len, SendTorn(len, n) PROVE TcpInv'
    BY <2>1, <2>5, TornStep
  <2>6. QED
    BY <1>2, <2>2, <2>3, <2>4, <2>5 DEF Send
<1>3. CASE Fails
  <2>1. /\ m_write_buffer' = m_write_buffer /\ wire' = wire /\ error' = "closed"
        /\ passed' = passed /\ accepted' = accepted /\ lapped' = lapped
    BY <1>3 DEF Fails
  <2>2. Pending' = Pending
    BY <2>1 DEF Pending
  <2>3. QED
    BY <2>1, <2>2 DEF TcpInv
<1>4. ASSUME NEW n \in 0..Offered(m_write_buffer),
             NEW m \in 0..OfferedNext(m_write_buffer, n), OnWritable(n, m)
      PROVE  TcpInv'
  BY <1>4, WritableStep
<1>5. QED
  BY <1>1, <1>2, <1>3, <1>4 DEF Next

(* The strengthening of the four properties below holds whatever the       *)
(* kernel takes of each send, however long the sends are.                  *)
THEOREM TcpInvariant == Spec => []TcpInv
<1>1. Init => TcpInv
  BY TcpInit
<1>2. TcpInv /\ [Next]_vars => TcpInv'
  BY TcpStep
<1>3. QED
  BY <1>1, <1>2, PTL DEF Spec

\* The peer receives the bytes in the order of the sends, and none twice, even
\* when append overwrites bytes that wait.
THEOREM TcpInOrder == Spec => []InOrder
<1>1. TcpInv => InOrder
  <2> SUFFICES ASSUME TcpInv PROVE InOrder
    OBVIOUS
  <2>1. Len(Pending) \in Nat
    BY ConcatProperties, LenProperties DEF TcpInv, Pending
  <2>2. \A i, j \in 1..Len(Pending) : i < j => Pending[i] < Pending[j]
    BY DEF TcpInv, Increasing
  <2>3. \A i \in 1..(Len(Pending) - 1) :
          i \in 1..Len(Pending) /\ i + 1 \in 1..Len(Pending) /\ i < i + 1
    BY <2>1
  <2>4. QED
    BY <2>2, <2>3 DEF InOrder
<1>2. QED
  BY <1>1, TcpInvariant, PTL

\* What send accepted is with the kernel or waits, until an append meets a
\* buffer that has wrapped.
THEOREM TcpNothingMissing == Spec => []NothingMissing
<1>1. TcpInv => NothingMissing
  BY DEF TcpInv, NothingMissing
<1>2. QED
  BY <1>1, TcpInvariant, PTL

\* What a step passes and what of it is accepted.
LEMMA StepAccepts ==
  ASSUME TcpInv, Next
  PROVE  \E n \in 0..(passed' - passed) :
           /\ Takes(n, passed' - passed)
           /\ accepted' = accepted \o Numbered(passed, passed + n)
<1>1. passed \in Nat /\ accepted \in Seq(1..passed) /\ m_write_buffer \in Buffer
  BY DEF TcpInv
<1>2. ASSUME passed' = passed, accepted' = accepted
      PROVE  \E n \in 0..(passed' - passed) :
               /\ Takes(n, passed' - passed)
               /\ accepted' = accepted \o Numbered(passed, passed + n)
  <2>1. 0 \in 0..(passed' - passed) /\ passed' - passed = 0 /\ passed + 0 = passed
    BY <1>1, <1>2
  <2>2. Takes(0, passed' - passed)
    BY <2>1 DEF Takes
  <2>3. accepted \o Numbered(passed, passed + 0) = accepted
    BY <1>1, <2>1, NothingNumbered
  <2>4. QED
    BY <1>2, <2>1, <2>2, <2>3
<1>3. ASSUME NEW len \in Lengths, Send(len)
      PROVE  \E n \in 0..(passed' - passed) :
               /\ Takes(n, passed' - passed)
               /\ accepted' = accepted \o Numbered(passed, passed + n)
  <2>1. len \in Nat /\ passed' - passed = len /\ 0 \in 0..len /\ len \in 0..len /\ passed + 0 = passed
    BY <1>1, <1>3, TcpAssumption DEF Send
  <2>2. CASE SendBuffered(len) \/ \E n \in 0..len : SendDirect(len, n)
    <3>1. Takes(len, len) /\ accepted' = accepted \o Numbered(passed, passed + len)
      BY <2>2 DEF SendBuffered, SendDirect, Takes
    <3>2. QED
      BY <2>1, <3>1
  <2>3. CASE SendRefused(len)
    <3>1. Takes(0, len) /\ accepted' = accepted
      BY <2>3 DEF SendRefused, Takes
    <3>2. accepted \o Numbered(passed, passed + 0) = accepted
      BY <1>1, <2>1, NothingNumbered
    <3>3. QED
      BY <2>1, <3>1, <3>2
  <2>4. ASSUME NEW n \in 0..len, SendTorn(len, n)
        PROVE  Takes(n, len) /\ accepted' = accepted \o Numbered(passed, passed + n)
    <3>1. /\ Empty(m_write_buffer) /\ ~HasRoom(m_write_buffer, len - n)
          /\ accepted' = accepted \o Numbered(passed, passed + n)
      BY <2>4 DEF SendTorn
    <3>2. len - n \in Int /\ n <= len /\ Cap \in Nat
      BY <2>1, CapAssumption
    <3>3. ~(Cap >= len - n)
      BY <1>1, <3>1, <3>2, EmptyBuffer
    <3>4. n < len /\ len > Cap
      BY <2>1, <3>2, <3>3
    <3>5. QED
      BY <3>1, <3>4 DEF Takes
  <2>5. QED
    BY <1>3, <2>1, <2>2, <2>3, <2>4 DEF Send
<1>4. CASE Fails
  BY <1>2, <1>4 DEF Fails
<1>5. ASSUME NEW n \in 0..Offered(m_write_buffer),
             NEW m \in 0..OfferedNext(m_write_buffer, n), OnWritable(n, m)
      PROVE  passed' = passed /\ accepted' = accepted
  BY <1>5 DEF OnWritable
<1>6. QED
  BY <1>2, <1>3, <1>4, <1>5 DEF Next

\* An append to a wrapped buffer is not forgotten.
LEMMA LappedStays ==
  ASSUME Next, lapped
  PROVE  lapped'
<1>1. ASSUME NEW len \in Lengths, Send(len) PROVE lapped'
  BY <1>1 DEF Send, SendBuffered, SendRefused, SendDirect, SendTorn, ToBuffer
<1>2. CASE Fails
  BY <1>2 DEF Fails
<1>3. ASSUME NEW n \in 0..Offered(m_write_buffer),
             NEW m \in 0..OfferedNext(m_write_buffer, n), OnWritable(n, m)
      PROVE  lapped'
  BY <1>3 DEF OnWritable
<1>4. QED
  BY <1>1, <1>2, <1>3 DEF Next

\* send is what stcp_conn takes it for: of a send all, none or, when it is
\* longer than the write buffer, the first bytes join what the kernel and the
\* buffer hold, and nothing else changes that until an append meets a buffer
\* that has wrapped.
THEOREM TcpSendTakes == Spec => SendTakes
<1>1. ASSUME TcpInv, TcpInv', Next
      PROVE  \E n \in 0..(passed' - passed) :
               LET took == Numbered(passed, passed + n)
               IN  /\ Takes(n, passed' - passed)
                   /\ accepted' = accepted \o took
                   /\ ~lapped' => Pending' = Pending \o took
  <2>1. PICK n \in 0..(passed' - passed) :
          /\ Takes(n, passed' - passed)
          /\ accepted' = accepted \o Numbered(passed, passed + n)
    BY <1>1, StepAccepts
  <2>2. ~lapped' => ~lapped
    BY <1>1, LappedStays
  <2>3. (~lapped => Pending = accepted) /\ (~lapped' => Pending' = accepted')
    BY <1>1 DEF TcpInv
  <2>4. QED
    BY <2>1, <2>2, <2>3
<1>2. TcpInv /\ TcpInv' /\ [Next]_vars =>
        [\E n \in 0..(passed' - passed) :
           LET took == Numbered(passed, passed + n)
           IN  /\ Takes(n, passed' - passed)
               /\ accepted' = accepted \o took
               /\ ~lapped' => Pending' = Pending \o took]_vars
  BY <1>1
<1>3. QED
  BY <1>2, TcpInvariant, PTL DEF Spec, SendTakes

\* append leaves the array only after an append met a buffer that has wrapped,
\* and the variables keep their types throughout.
THEOREM TcpOverruns == Spec => []OverrunOnlyLapped
<1>1. TcpInv => OverrunOnlyLapped
  <2> SUFFICES ASSUME TcpInv PROVE OverrunOnlyLapped
    OBVIOUS
  <2>1. passed \in Nat /\ MaxBytes \in Nat /\ passed <= MaxBytes
    BY TcpAssumption DEF TcpInv
  <2>2. wire \in Seq(1..MaxBytes) /\ accepted \in Seq(1..MaxBytes)
    BY <2>1, GrownBound DEF TcpInv
  <2>3. QED
    BY <2>2 DEF TcpInv, OverrunOnlyLapped, TypeOK
<1>2. QED
  BY <1>1, TcpInvariant, PTL
=============================================================================
