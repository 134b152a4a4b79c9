--------------------------- MODULE StcpConnProofs ---------------------------
(***************************************************************************)
(* Proofs about StcpConn, for any lengths of messages, any number of them, *)
(* any sizes of the records' parts and of the read buffer, and either      *)
(* cipher where none is named.                                             *)
(***************************************************************************)
EXTENDS StcpConn, SequenceTheorems, FiniteSetTheorems, TLAPS

-----------------------------------------------------------------------------
(* A buffer of bytes that are known *)

\* A buffer whose cells hold values of S.
Holds(S) == [cells : [Offset -> S], front : Offset, back : Offset]

\* The numbers that the code computes.
LEMMA BufferNumbers ==
  ASSUME NEW S, NEW r \in Holds(S)
  PROVE  /\ r.cells \in [Offset -> S] /\ r.front \in 0..Cap /\ r.back \in 0..Cap
         /\ Cap \in Nat \ {0} /\ Cells = Cap + 1
         /\ Size(r) = IF r.back >= r.front THEN r.back - r.front ELSE (Cells - r.front) - r.back
         /\ Occupied(r) \in 0..Cap /\ Size(r) \in Int /\ Size(r) <= Occupied(r)
<1>1. /\ r.cells \in [Offset -> S] /\ r.front \in 0..Cap /\ r.back \in 0..Cap
      /\ Cap \in Nat \ {0} /\ Cells = Cap + 1
  BY CapAssumption DEF Holds, Offset, Cells
<1>2. Index(r, r.front) = 0
  BY <1>1 DEF Index
<1>3. Size(r) = IF r.back >= r.front THEN r.back - r.front ELSE (Cells - r.front) - r.back
  BY <1>1, <1>2 DEF Size, Index
<1>4. Occupied(r) = IF r.front <= r.back THEN r.back - r.front ELSE Cells - r.front + r.back
  BY DEF Occupied
<1> DEFINE f == r.front
           b == r.back
<1> HIDE DEF f, b
<1>5. Occupied(r) \in 0..Cap /\ Size(r) \in Int /\ Size(r) <= Occupied(r)
  <2>1. /\ f \in 0..Cap /\ b \in 0..Cap /\ Cap \in Nat /\ Cells = Cap + 1
        /\ Size(r) = IF b >= f THEN b - f ELSE (Cells - f) - b
        /\ Occupied(r) = IF f <= b THEN b - f ELSE Cells - f + b
    BY <1>1, <1>3, <1>4 DEF f, b
  <2>2. QED
    BY <2>1
<1>6. QED
  BY <1>1, <1>3, <1>5

\* A function on 1..n is a sequence of length n.
LEMMA SeqOfFunction ==
  ASSUME NEW S, NEW n \in Nat, NEW f \in [1..n -> S]
  PROVE  f \in Seq(S) /\ Len(f) = n
<1>1. f \in Seq(S)
  BY SeqDef
<1>2. QED
  BY <1>1, LenProperties

\* The content is a sequence of what the cells hold.
LEMMA ContentHeld ==
  ASSUME NEW S, NEW r \in Holds(S)
  PROVE  Content(r) \in Seq(S) /\ Len(Content(r)) = Occupied(r)
<1>1. ASSUME NEW i \in 1..Occupied(r) PROVE Place(r, i - 1) \in Offset
  <2> DEFINE f == r.front
             b == r.back
             n == Occupied(r)
  <2>1. /\ f \in 0..Cap /\ b \in 0..Cap /\ Cap \in Nat /\ Cells = Cap + 1 /\ n \in 0..Cap
        /\ i \in 1..n
    BY BufferNumbers
  <2>2. Place(r, i - 1) = IF f + (i - 1) < Cells THEN f + (i - 1) ELSE f + (i - 1) - Cells
    BY DEF Place
  <2> HIDE DEF f, b, n
  <2>3. QED
    BY <2>1, <2>2 DEF Offset
<1>2. Content(r) \in [1..Occupied(r) -> S]
  BY <1>1, BufferNumbers DEF Content
<1>3. QED
  BY <1>2, BufferNumbers, SeqOfFunction

\* append leaves a buffer of the values it had and those that were appended;
LEMMA AppendHeld ==
  ASSUME NEW S, NEW r \in Holds(S), NEW s \in Seq(S), ~AppendOverruns(r, Len(s))
  PROVE  Appended(r, s) \in Holds(S) /\ Appended(r, s).front = r.front
<1> DEFINE b == r.back
           L == Len(s)
           n == Least(L, Cells - b)
           c == Wrap(b + n)
           head == SubSeq(s, 1, n)
           rest == SubSeq(s, n + 1, L)
<1>1. /\ b \in 0..Cap /\ L \in Nat /\ Cap \in Nat /\ Cells = Cap + 1
      /\ n = (IF L <= Cells - b THEN L ELSE Cells - b)
      /\ c = (IF b + n = Cells THEN 0 ELSE b + n)
      /\ ~(L > n /\ L - n >= Cells - c)
  BY BufferNumbers, LenProperties DEF Least, Wrap, AppendOverruns
<1> HIDE DEF b, L, n, c
<1>2. n \in 0..L /\ c \in 0..Cap /\ c + (L - n) \in 0..Cap
  BY <1>1
<1>3. /\ head \in Seq(S) /\ Len(head) = n
      /\ rest \in Seq(S) /\ Len(rest) = L - n
  <2>1. \A i \in 1..L : s[i] \in S
    BY ElementOfSeq DEF L
  <2>2. (\A i \in 1..n : s[i] \in S) /\ (\A i \in (n + 1)..L : s[i] \in S)
    BY <1>1, <1>2, <2>1
  <2>3. /\ n \in Int /\ L \in Int /\ n + 1 \in Int /\ 1 \in Int
        /\ (IF 1 <= n THEN n - 1 + 1 ELSE 0) = n
        /\ (IF n + 1 <= L THEN L - (n + 1) + 1 ELSE 0) = L - n
    BY <1>1, <1>2
  <2>4. QED
    BY <2>2, <2>3, SubSeqProperties
<1>4. ASSUME NEW cells \in [Offset -> S], NEW d \in 0..Cap, NEW t \in Seq(S)
      PROVE  Stored(cells, d, t) \in [Offset -> S]
  <2>1. Len(t) \in Nat /\ d \in Nat
    BY LenProperties, <1>1
  <2>2. ASSUME NEW i \in Offset, i \in d..(d + Len(t) - 1) PROVE t[i - d + 1] \in S
    <3>1. i - d + 1 \in 1..Len(t)
      BY <2>1, <2>2
    <3>2. QED
      BY <3>1, ElementOfSeq
  <2>3. QED
    BY <2>2 DEF Stored
<1>5. /\ Appended(r, s) = [r EXCEPT !.cells = Stored(Stored(r.cells, b, head), c, rest),
                                    !.back = c + Len(rest)]
  BY DEF Appended, L, b, n, c
<1>6. Stored(Stored(r.cells, b, head), c, rest) \in [Offset -> S]
  <2>1. Stored(r.cells, b, head) \in [Offset -> S]
    BY <1>1, <1>3, <1>4, BufferNumbers
  <2>2. QED
    BY <1>2, <1>3, <1>4, <2>1
<1> HIDE DEF head, rest
<1>7. c + Len(rest) \in Offset
  BY <1>2, <1>3 DEF Offset
<1>8. QED
  BY <1>5, <1>6, <1>7 DEF Holds

\* and poll takes some of those, and leaves a buffer.
LEMMA PollHeld ==
  ASSUME NEW S, NEW r \in Holds(S), NEW len \in Nat, ~PollOverruns(r, len)
  PROVE  /\ Polled(r, len).buf \in Holds(S)
         /\ Polled(r, len).data \in Seq(S) /\ Len(Polled(r, len).data) = len
<1> DEFINE f == r.front
           n == Least(len, Cells - f)
           c == Wrap(f + n)
<1>1. /\ f \in 0..Cap /\ Cap \in Nat /\ Cells = Cap + 1
      /\ n = (IF len <= Cells - f THEN len ELSE Cells - f)
      /\ c = (IF f + n = Cells THEN 0 ELSE f + n)
      /\ ~(len > n /\ len - n >= Cells - c)
  BY BufferNumbers DEF Least, Wrap, PollOverruns
<1>2. /\ Polled(r, len).buf = [r EXCEPT !.front = c + (len - n)]
      /\ Polled(r, len).data = Loaded(r.cells, f, n) \o Loaded(r.cells, c, len - n)
  BY DEF Polled
<1>3. r.cells \in [Offset -> S]
  BY BufferNumbers
<1> HIDE DEF f, n, c
<1>4. /\ n \in 0..len /\ len - n \in Nat /\ c + (len - n) \in Offset
      /\ f + n <= Cells /\ c + (len - n) <= Cells /\ c \in 0..Cap
  BY <1>1 DEF Offset
<1>5. ASSUME NEW d \in 0..Cap, NEW m \in Nat, d + m <= Cells
      PROVE  Loaded(r.cells, d, m) \in Seq(S) /\ Len(Loaded(r.cells, d, m)) = m
  <2>1. \A i \in 1..m : d + i - 1 \in Offset
    BY <1>1, <1>5 DEF Offset
  <2>2. Loaded(r.cells, d, m) \in [1..m -> S]
    BY <1>3, <2>1 DEF Loaded
  <2>3. QED
    BY <2>2, SeqOfFunction
<1>6. /\ Loaded(r.cells, f, n) \in Seq(S) /\ Len(Loaded(r.cells, f, n)) = n
      /\ Loaded(r.cells, c, len - n) \in Seq(S) /\ Len(Loaded(r.cells, c, len - n)) = len - n
  <2>1. f \in 0..Cap /\ n \in Nat /\ f + n <= Cells
    BY <1>1, <1>4
  <2>2. Loaded(r.cells, f, n) \in Seq(S) /\ Len(Loaded(r.cells, f, n)) = n
    BY <1>5, <2>1
  <2>3. c \in 0..Cap /\ len - n \in Nat /\ c + (len - n) <= Cells
    BY <1>4
  <2>4. Loaded(r.cells, c, len - n) \in Seq(S) /\ Len(Loaded(r.cells, c, len - n)) = len - n
    BY <1>5, <2>3
  <2>5. QED
    BY <2>2, <2>4
<1>7. Polled(r, len).data \in Seq(S) /\ Len(Polled(r, len).data) = len
  <2>1. n + (len - n) = len
    BY <1>4
  <2>2. QED
    BY <1>2, <1>6, <2>1, ConcatProperties
<1>8. QED
  BY <1>2, <1>4, <1>7 DEF Holds

\* A part of a sequence, by its length and its bytes.
LEMMA FirstPart ==
  ASSUME NEW S, NEW s \in Seq(S), NEW n \in 0..Len(s)
  PROVE  /\ SubSeq(s, 1, n) \in Seq(S) /\ Len(SubSeq(s, 1, n)) = n
         /\ \A i \in 1..n : SubSeq(s, 1, n)[i] = s[i]
<1>1. Len(s) \in Nat
  BY LenProperties
<1>2. \A i \in 1..n : s[i] \in S
  BY <1>1, ElementOfSeq
<1>3. /\ 1 \in Int /\ n \in Int /\ n - 1 + 1 = n
      /\ (IF 1 <= n THEN n - 1 + 1 ELSE 0) = n /\ \A i \in 1..n : 1 + i - 1 = i
  BY <1>1
<1>4. QED
  BY <1>2, <1>3, SubSeqProperties

LEMMA LastPart ==
  ASSUME NEW S, NEW s \in Seq(S), NEW n \in 0..Len(s)
  PROVE  /\ SubSeq(s, n + 1, Len(s)) \in Seq(S) /\ Len(SubSeq(s, n + 1, Len(s))) = Len(s) - n
         /\ \A i \in 1..(Len(s) - n) : SubSeq(s, n + 1, Len(s))[i] = s[n + i]
<1> DEFINE L == Len(s)
<1>1. L \in Nat
  BY LenProperties
<1>2. \A i \in (n + 1)..L : s[i] \in S
  BY <1>1, ElementOfSeq
<1> HIDE DEF L
<1>3. /\ n + 1 \in Int /\ L \in Int /\ L - (n + 1) + 1 = L - n
      /\ (IF n + 1 <= L THEN L - (n + 1) + 1 ELSE 0) = L - n
      /\ \A i \in 1..(L - n) : (n + 1) + i - 1 = n + i
  BY <1>1 DEF L
<1>4. /\ SubSeq(s, n + 1, L) \in Seq(S) /\ Len(SubSeq(s, n + 1, L)) = L - n
      /\ \A i \in 1..(L - n) : SubSeq(s, n + 1, L)[i] = s[n + i]
  BY <1>2, <1>3, SubSeqProperties
<1>5. QED
  BY <1>4 DEF L

\* While a record fits the buffer, what read keeps of it has room, and what it
\* takes is there.
LEMMA RecordFits ==
  ASSUME NEW S, NEW r \in Holds(S), NEW len \in 0..Cap
  PROVE  /\ HasBytes(r, len) => ~PollOverruns(r, len)
         /\ ~HasBytes(r, len) => Size(r) \in 0..Occupied(r) /\ Size(r) < len
         /\ \A k \in Nat : ~HasBytes(r, len) /\ k < len - Size(r) =>
              HasRoom(r, k) /\ ~AppendOverruns(r, k)
<1> DEFINE f == r.front
           b == r.back
           z == Size(r)
           o == Occupied(r)
<1>1. /\ f \in 0..Cap /\ b \in 0..Cap /\ Cap \in Nat /\ Cells = Cap + 1
      /\ z = (IF b >= f THEN b - f ELSE (Cells - f) - b)
      /\ z \in Int /\ z <= o /\ o \in Nat
  BY BufferNumbers
<1>2. HasBytes(r, len) <=> (z < 0 \/ z >= len)
  BY DEF HasBytes
<1>3. ASSUME NEW k \in Nat
      PROVE  /\ HasRoom(r, k) <=> Cap - z >= k
             /\ AppendOverruns(r, k) <=>
                  LET n == IF k <= Cells - b THEN k ELSE Cells - b
                      c == IF b + n = Cells THEN 0 ELSE b + n
                  IN  k > n /\ k - n >= Cells - c
  BY DEF HasRoom, AppendOverruns, Least, Wrap
<1>4. PollOverruns(r, len) <=>
        LET n == IF len <= Cells - f THEN len ELSE Cells - f
            c == IF f + n = Cells THEN 0 ELSE f + n
        IN  len > n /\ len - n >= Cells - c
  BY DEF PollOverruns, Least, Wrap
<1> HIDE DEF f, b, z, o
<1>5. ~PollOverruns(r, len)
  BY <1>1, <1>4
<1>6. ~HasBytes(r, len) => z \in 0..o /\ z < len
  BY <1>1, <1>2
<1>7. ASSUME NEW k \in Nat, ~HasBytes(r, len), k < len - z
      PROVE  HasRoom(r, k) /\ ~AppendOverruns(r, k)
  BY <1>1, <1>2, <1>3, <1>7
<1>8. QED
  BY <1>5, <1>6, <1>7 DEF z, o

-----------------------------------------------------------------------------
(* The invariant *)

Written == [id : RecordId, at : Nat]

\* The counter with which call k of send began, and that of the next call.
Iv(k) == IF k \in 1..Len(sent) THEN sent[k].iv ELSE m_enc_iv

\* Call k sealed its length and its body.
Out(k) == k \in 1..Len(sent) /\ Iv(k + 1) = Iv(k) + 2

\* The bytes that can be on the stream, of start values and of messages that
\* were sealed; the memory of the receiver holds those and garbage.
Told == {b \in Written : b.id.kind = "iv" \/ Out(b.id.msg)}
Known == Told \cup {Garbage}

\* The counters of the calls: 0 up to the first after the start value went
\* out, which u calls failed to bring about, and increasing from there.
Opened(u) ==
  /\ u \in 0..Len(sent)
  /\ m_send_flag => u < Len(sent)
  /\ ~m_send_flag => u = Len(sent)
  /\ \A i \in 1..(u + 1) : Iv(i) = 0
  /\ \A i, j \in 1..(Len(sent) + 1) :
       i < j => Iv(i) <= Iv(j) /\ (u < i => Iv(i) < Iv(j))

\* Between messages, and when the next one's length was read: recv has
\* returned n messages, those after u, and its counter says so.
Between(n) == m_dec_iv = 2 * n /\ m_body_size = 0 /\ pc = "idle"

Within(u, n) ==
  /\ m_dec_iv = 2 * n + 1
  /\ Out(u + n + 1)
  /\ m_body_size = sent[u + n + 1].len

Astray(n) == m_dec_iv = -1 /\ m_body_size = 0 /\ pc = "idle" /\ n = 0

InStep(u) ==
  LET n == Len(delivered)
  IN  /\ u + n <= Len(sent)
      /\ Iv(u + n + 1) = 2 * n
      /\ \A k \in 1..n : delivered[k] = Id(u + k, "body")
      /\ ~m_recv_flag => n = 0 /\ Between(n)
      /\ Between(n) \/ Within(u, n) \/ Astray(n)

Orderly == \E u \in Nat : Opened(u) /\ (~failed => InStep(u))

StreamInv ==
  /\ TypeOK
  /\ Len(sent) <= MaxMessages
  /\ wire \in Seq(Told)
  /\ m_read_buffer \in Holds(Known)
  /\ Orderly

\* What the calls of one kind, or of none, leave alone.
LEMMA StepTypes ==
  ASSUME StreamInv
  PROVE  /\ Len(sent) \in Nat /\ sent \in Seq([len : Lengths, iv : Nat])
         /\ DOMAIN sent = 1..Len(sent)
         /\ \A k \in 1..Len(sent) : sent[k].len \in Lengths /\ sent[k].iv \in Nat
         /\ \A k \in Int : Iv(k) \in Nat
         /\ Len(wire) \in Nat /\ Len(delivered) \in Nat
         /\ Lengths \subseteq Nat /\ m_body_size \in Nat
         /\ MaxMessages \in Nat /\ Cap \in Nat
         /\ IvSize \in 1..Cap /\ HeadSize \in 1..Cap /\ HeadSize = LenSize + TagSize
         /\ LenSize \in Nat \ {0} /\ TagSize \in Nat \ {0}
         /\ Told \subseteq Written /\ Garbage \notin Written
<1>1. /\ TypeOK /\ Len(sent) <= MaxMessages
  BY DEF StreamInv
<1>2. /\ sent \in Seq([len : Lengths, iv : Nat])
      /\ Len(sent) \in Nat /\ DOMAIN sent = 1..Len(sent)
      /\ Len(wire) \in Nat /\ Len(delivered) \in Nat
  BY <1>1, LenProperties DEF TypeOK
<1>3. \A k \in 1..Len(sent) : sent[k] \in [len : Lengths, iv : Nat]
  BY <1>2, ElementOfSeq
<1>4. \A k \in 1..Len(sent) : sent[k].len \in Lengths /\ sent[k].iv \in Nat
  BY <1>3
<1>5. \A k \in Int : Iv(k) \in Nat
  BY <1>1, <1>4 DEF TypeOK, Iv
<1>6. /\ Lengths \subseteq Nat /\ m_body_size \in Nat /\ MaxMessages \in Nat /\ Cap \in Nat
      /\ IvSize \in Nat \ {0} /\ TagSize \in Nat \ {0} /\ LenSize \in Nat \ {0}
      /\ HeadSize = LenSize + TagSize /\ IvSize <= Cap /\ HeadSize <= Cap
  BY <1>1, StcpAssumption, CapAssumption DEF TypeOK, HeadSize
<1>7. IvSize \in 1..Cap /\ HeadSize \in 1..Cap
  BY <1>6
<1>8. Told \subseteq Written /\ Garbage \notin Written
  BY StcpAssumption DEF Told, Written
<1>9. QED
  BY <1>2, <1>4, <1>5, <1>6, <1>7, <1>8

LEMMA InitIsStream == Init => StreamInv
<1> SUFFICES ASSUME Init
             PROVE  StreamInv
  OBVIOUS
<1>1. TypeOK
  BY StcpAssumption, CapAssumption, EmptySeq DEF Init, TypeOK, Offset
<1>2. Len(sent) = 0 /\ Len(delivered) = 0 /\ MaxMessages \in Nat
  BY StcpAssumption, EmptySeq DEF Init
<1>3. Garbage \in Known
  BY DEF Known
<1>4. wire \in Seq(Told)
  BY EmptySeq DEF Init
<1>5. m_read_buffer \in Holds(Known)
  BY <1>3, CapAssumption DEF Init, Holds, Offset
<1>6. \A k \in Int : Iv(k) = 0
  BY <1>2 DEF Iv, Init
<1>7. Opened(0)
  BY <1>2, <1>6 DEF Opened, Init
<1>8. InStep(0)
  BY <1>2, <1>6 DEF InStep, Between, Init
<1>9. QED
  BY <1>1, <1>2, <1>4, <1>5, <1>7, <1>8 DEF StreamInv, Orderly

-----------------------------------------------------------------------------
(* send *)

LEMMA NotOpened == StreamInv /\ ~m_send_flag => m_enc_iv = 0
<1> SUFFICES ASSUME StreamInv, ~m_send_flag
             PROVE  m_enc_iv = 0
  OBVIOUS
<1>1. PICK u \in Nat : Opened(u)
  BY DEF StreamInv, Orderly
<1>2. u = Len(sent) /\ Len(sent) \in Nat /\ Iv(u + 1) = 0
  BY <1>1, StepTypes DEF Opened
<1>3. QED
  BY <1>2 DEF Iv

\* A call of send whose nonces are d values of the counter.
Sealing(len, d) ==
  /\ sent' = Append(sent, [len |-> len, iv |-> m_enc_iv])
  /\ m_enc_iv' = m_enc_iv + d
  /\ d = 0 => m_send_flag = FALSE /\ m_send_flag' = FALSE
  /\ d # 0 => m_send_flag' = TRUE
  /\ UNCHANGED receiver

\* It leaves the counters of the calls before it as they were,
LEMMA SealingCounters ==
  ASSUME StreamInv, NEW len \in Lengths, NEW d \in 0..2, Sealing(len, d),
         NEW L \in Nat, L = Len(sent)
  PROVE  /\ sent' \in Seq([len : Lengths, iv : Nat])
         /\ Len(sent)' = L + 1
         /\ \A k \in 1..(L + 1) : Iv(k)' = Iv(k)
         /\ Iv(L + 2)' = m_enc_iv + d
         /\ \A k \in 1..L : sent'[k] = sent[k]
         /\ \A k \in 1..L : Out(k) => Out(k)'
         /\ d = 2 => Out(L + 1)'
         /\ Told \subseteq Told'
<1> DEFINE e == [len |-> len, iv |-> m_enc_iv]
<1>1. m_enc_iv \in Nat /\ sent \in Seq([len : Lengths, iv : Nat])
  BY StepTypes DEF StreamInv, TypeOK
<1>2. e \in [len : Lengths, iv : Nat] /\ sent' = Append(sent, e)
  BY <1>1 DEF Sealing
<1>3. /\ sent' \in Seq([len : Lengths, iv : Nat]) /\ Len(sent)' = L + 1
      /\ \A k \in 1..L : sent'[k] = sent[k]
      /\ sent'[L + 1] = e
  BY <1>1, <1>2, AppendProperties
<1> HIDE DEF e
<1>4. m_enc_iv' = m_enc_iv + d /\ e.iv = m_enc_iv
  BY DEF Sealing, e
<1>5. ASSUME NEW k \in 1..(L + 1) PROVE Iv(k)' = Iv(k)
  <2>1. CASE k \in 1..L
    <3>1. k \in 1..(L + 1) /\ sent'[k] = sent[k]
      BY <2>1, <1>1, <1>3
    <3>2. QED
      BY <3>1, <2>1, <1>3 DEF Iv
  <2>2. CASE k = L + 1
    <3>1. ~(k \in 1..L) /\ k \in 1..(L + 1)
      BY <2>2, <1>1
    <3>2. QED
      BY <3>1, <2>2, <1>3, <1>4 DEF Iv
  <2>3. QED
    BY <2>1, <2>2, <1>1
<1>6. Iv(L + 2)' = m_enc_iv + d
  <2>1. ~(L + 2 \in 1..(L + 1))
    BY <1>1
  <2>2. QED
    BY <2>1, <1>3, <1>4 DEF Iv
<1>7. Iv(L + 1) = m_enc_iv
  BY <1>1 DEF Iv
<1>8. \A k \in 1..L : k + 1 \in 1..(L + 1) /\ k \in 1..(L + 1)
  BY <1>1
<1>9. ASSUME NEW k \in 1..L, Out(k) PROVE Out(k)'
  BY <1>3, <1>5, <1>8, <1>9 DEF Out
<1>10. ASSUME d = 2 PROVE Out(L + 1)'
  <2>1. L + 1 \in 1..(L + 1) /\ (L + 1) + 1 = L + 2
    BY <1>1
  <2>2. Iv(L + 2)' = Iv(L + 1)' + 2
    BY <1>5, <1>6, <1>7, <1>10, <2>1
  <2>3. QED
    BY <2>1, <2>2, <1>3 DEF Out
<1>11. Told \subseteq Told'
  <2>1. \A k : Out(k) => k \in 1..L
    BY DEF Out
  <2>2. \A k : Out(k) => Out(k)'
    BY <2>1, <1>9
  <2>3. QED
    BY <2>2 DEF Told, Written
<1>12. QED
  BY <1>1, <1>3, <1>5, <1>6, <1>9, <1>10, <1>11

\* and keeps their order and the receiver's place in them.
LEMMA SealingOrderly ==
  ASSUME StreamInv, NEW len \in Lengths, NEW d \in 0..2, Sealing(len, d)
  PROVE  Orderly'
<1>0. PICK L \in Nat : L = Len(sent)
  BY StepTypes
<1>1. PICK u \in Nat : Opened(u) /\ (~failed => InStep(u))
  BY DEF StreamInv, Orderly
<1>2. L \in Nat /\ L = Len(sent)
  BY <1>0
<1>3. /\ Len(sent)' = L + 1
      /\ \A k \in 1..(L + 1) : Iv(k)' = Iv(k)
      /\ Iv(L + 2)' = m_enc_iv + d
      /\ \A k \in 1..L : sent'[k] = sent[k]
      /\ \A k \in 1..L : Out(k) => Out(k)'
  BY <1>2, SealingCounters
<1>4. \A i \in 1..(u + 1) : Iv(i) = 0
  BY <1>1 DEF Opened
<1>5. \A i, j \in 1..(L + 1) : i < j => Iv(i) <= Iv(j) /\ (u < i => Iv(i) < Iv(j))
  BY <1>1, <1>2 DEF Opened
<1>6. \A k \in Int : Iv(k) \in Nat
  BY StepTypes
<1>7. m_enc_iv \in Nat /\ Iv(L + 1) = m_enc_iv
  <2>1. ~(L + 1 \in 1..L) /\ L + 1 \in Int
    BY <1>2
  <2>2. QED
    BY <2>1, <1>2, <1>6 DEF Iv
<1>8. /\ u \in 0..L
      /\ m_send_flag => u < L
      /\ ~m_send_flag => u = L
      /\ d = 0 => ~m_send_flag /\ ~m_send_flag'
      /\ d # 0 => m_send_flag' = TRUE
      /\ d \in 0..2
  BY <1>1, <1>2 DEF Opened, Sealing
<1>9. PICK v \in Nat : v = IF d = 0 THEN u + 1 ELSE u
  OBVIOUS
<1>10. /\ v \in 0..(L + 1)
       /\ m_send_flag' => v < L + 1
       /\ ~m_send_flag' => v = L + 1
       /\ v = u \/ (v = u + 1 /\ d = 0 /\ u = L)
  BY <1>2, <1>8, <1>9
<1>11. Opened(v)'
  <2>1. ASSUME NEW i \in 1..(v + 1) PROVE Iv(i)' = 0
    <3>1. CASE i \in 1..(u + 1)
      <4>1. i \in 1..(L + 1)
        BY <3>1, <1>2, <1>8
      <4>2. QED
        BY <3>1, <4>1, <1>3, <1>4
    <3>2. CASE ~(i \in 1..(u + 1))
      <4>1. d = 0 /\ i = L + 2 /\ L + 1 \in 1..(u + 1)
        BY <3>2, <1>2, <1>8, <1>10
      <4>2. Iv(i)' = m_enc_iv + d /\ m_enc_iv = 0
        BY <4>1, <1>3, <1>4, <1>7
      <4>3. QED
        BY <4>1, <4>2
    <3>3. QED
      BY <3>1, <3>2
  <2>2. ASSUME NEW i \in 1..(L + 2), NEW j \in 1..(L + 2), i < j
        PROVE  Iv(i)' <= Iv(j)' /\ (v < i => Iv(i)' < Iv(j)')
    <3>1. i \in 1..(L + 1) /\ (v < i => u < i)
      BY <2>2, <1>2, <1>10
    <3>2. Iv(i)' = Iv(i) /\ Iv(i) \in Nat
      <4>1. i \in Int
        OBVIOUS
      <4>2. QED
        BY <3>1, <4>1, <1>3, <1>6
    <3>3. CASE j \in 1..(L + 1)
      <4>1. Iv(j)' = Iv(j)
        BY <3>3, <1>3
      <4>2. Iv(i) <= Iv(j) /\ (u < i => Iv(i) < Iv(j))
        BY <2>2, <3>1, <3>3, <1>5
      <4>3. QED
        BY <4>1, <4>2, <3>1, <3>2
    <3>4. CASE j = L + 2
      <4>1. Iv(j)' = m_enc_iv + d
        BY <3>4, <1>3
      <4>2. Iv(i) <= m_enc_iv
        <5>1. CASE i = L + 1
          BY <5>1, <1>7
        <5>2. CASE i < L + 1
          <6>1. L + 1 \in 1..(L + 1)
            BY <1>2
          <6>2. QED
            BY <5>2, <6>1, <3>1, <1>5, <1>7
        <5>3. QED
          BY <5>1, <5>2, <3>1, <1>2
      <4>3. d = 0 => ~(v < i)
        BY <3>1, <1>2, <1>8, <1>10
      <4>4. QED
        BY <3>2, <4>1, <4>2, <4>3, <1>7, <1>8
    <3>5. QED
      BY <3>3, <3>4, <1>2
  <2>3. (L + 1) + 1 = L + 2
    BY <1>2
  <2>4. QED
    BY <2>1, <2>2, <2>3, <1>3, <1>10 DEF Opened
<1>12. ASSUME ~failed' PROVE InStep(v)'
  <2>0. PICK n \in Nat : n = Len(delivered)
    BY StepTypes
  <2>1. /\ InStep(u) /\ UNCHANGED <<m_recv_flag, m_dec_iv, m_body_size, pc, delivered>>
    BY <1>1, <1>12 DEF Sealing, receiver
  <2>2. Iv(u + n + 1) = 2 * n
    BY <2>0, <2>1 DEF InStep
  <2>3. \A k \in 1..n : delivered[k] = Id(u + k, "body")
    BY <2>0, <2>1 DEF InStep
  <2>4. /\ ~m_recv_flag => n = 0 /\ Between(n)
        /\ Between(n) \/ Within(u, n) \/ Astray(n)
    BY <2>0, <2>1 DEF InStep
  <2>5. /\ u + n <= L /\ (v = u \/ (v = u + 1 /\ n = 0)) /\ v + n <= L + 1
        /\ n \in Nat
    <3>1. u + n <= L /\ n \in Nat
      BY <2>0, <2>1, <1>2 DEF InStep
    <3>2. QED
      BY <3>1, <1>2, <1>10
  <2>6. Iv(v + n + 1)' = 2 * n
    <3>1. CASE v = u
      <4>1. u + n + 1 \in 1..(L + 1)
        BY <1>2, <2>5
      <4>2. QED
        BY <3>1, <4>1, <1>3, <2>2
    <3>2. CASE v # u
      <4>1. n = 0 /\ v + n + 1 = v + 1 /\ v + 1 \in 1..(v + 1)
        BY <3>2, <2>5
      <4>2. Iv(v + 1)' = 0
        BY <4>1, <1>11 DEF Opened
      <4>3. QED
        BY <4>1, <4>2
    <3>3. QED
      BY <3>1, <3>2
  <2>7. \A k \in 1..n : delivered[k] = Id(v + k, "body")
    <3>1. v = u \/ 1..n = {}
      BY <2>5
    <3>2. QED
      BY <3>1, <2>3
  <2>8. Between(n)' <=> Between(n)
    BY <2>1 DEF Between
  <2>9. Astray(n)' <=> Astray(n)
    BY <2>1 DEF Astray
  <2>10. ASSUME Within(u, n) PROVE Within(v, n)'
    <3>1. Out(u + n + 1) /\ u + n + 1 \in 1..L
      BY <2>10, <1>2 DEF Within, Out
    <3>2. v = u
      BY <3>1, <1>2, <2>5, <1>10
    <3>3. sent'[u + n + 1] = sent[u + n + 1] /\ Out(u + n + 1)'
      BY <3>1, <1>3
    <3>4. QED
      BY <2>1, <2>10, <3>2, <3>3 DEF Within
  <2>11. (~m_recv_flag)' => n = 0 /\ Between(n)'
    BY <2>1, <2>4, <2>8
  <2>12. Between(n)' \/ Within(v, n)' \/ Astray(n)'
    BY <2>4, <2>8, <2>9, <2>10
  <2>13. Len(delivered)' = n
    BY <2>0, <2>1
  <2>14. QED
    BY <2>1, <2>5, <2>6, <2>7, <2>11, <2>12, <2>13, <1>3 DEF InStep
<1>13. QED
  BY <1>11, <1>12 DEF Orderly

\* The bytes of a record can be on the stream once its call has sealed it.
LEMMA BytesTold ==
  ASSUME NEW k \in 0..MaxMessages, NEW kind \in {"iv", "head", "body"}, NEW size \in Nat,
         kind = "iv" \/ Out(k)'
  PROVE  Bytes(Id(k, kind), size) \in Seq(Told')
<1>1. ASSUME NEW i \in 1..size PROVE [id |-> Id(k, kind), at |-> i] \in Told'
  <2> DEFINE b == [id |-> Id(k, kind), at |-> i]
  <2>1. Id(k, kind) \in RecordId /\ i \in Nat
    BY DEF Id, RecordId
  <2>2. b \in Written /\ b.id = Id(k, kind)
    BY <2>1 DEF Written
  <2>3. b.id.kind = kind /\ b.id.msg = k
    BY <2>2 DEF Id
  <2> HIDE DEF b
  <2>4. b \in Told'
    BY <2>2, <2>3 DEF Told, Written
  <2>5. QED
    BY <2>4 DEF b
<1>2. Bytes(Id(k, kind), size) \in [1..size -> Told']
  BY <1>1 DEF Bytes
<1>3. QED
  BY <1>2, SeqOfFunction

\* What is put on the stream is sealed by the call.
LEMMA SealingStream ==
  ASSUME StreamInv, NEW len \in Lengths, NEW d \in 0..2, Sealing(len, d),
         Len(sent) < MaxMessages, refused' \in BOOLEAN, wire' \in Seq(Told')
  PROVE  StreamInv'
<1>0. PICK L \in Nat : L = Len(sent)
  BY StepTypes
<1>1. Len(sent)' = L + 1 /\ sent' \in Seq([len : Lengths, iv : Nat])
      /\ Told \subseteq Told'
  BY <1>0, SealingCounters
<1>2. (Len(sent) <= MaxMessages)'
  BY <1>0, <1>1, StcpAssumption
<1>3. Orderly'
  BY SealingOrderly
<1>4. m_read_buffer' \in Holds(Known')
  BY <1>1 DEF Sealing, receiver, StreamInv, Holds, Known
<1>5. wire' \in Seq(Written)
  <2>1. Told' \subseteq Written
    BY DEF Told, Written
  <2>2. QED
    BY <2>1, SeqMonotonic
<1>6. m_enc_iv \in Nat /\ m_send_flag \in BOOLEAN
  BY DEF StreamInv, TypeOK
<1>7. /\ m_enc_iv' = m_enc_iv + d /\ d \in Nat
      /\ m_send_flag' \in BOOLEAN
      /\ UNCHANGED receiver
  <2>1. d \in Nat
    OBVIOUS
  <2>2. d = 0 \/ d # 0
    OBVIOUS
  <2>3. QED
    BY <2>1, <2>2 DEF Sealing
<1>8. m_enc_iv' \in Nat /\ m_send_flag' \in BOOLEAN
  BY <1>6, <1>7
<1>9. TypeOK'
  BY <1>1, <1>5, <1>7, <1>8 DEF receiver, StreamInv, TypeOK, Written
<1>10. QED
  BY <1>2, <1>3, <1>4, <1>9 DEF StreamInv

LEMMA SendIsStream ==
  ASSUME StreamInv, NEW len \in Lengths, Send(len)
  PROVE  StreamInv'
<1> DEFINE c == IF m_send_flag THEN m_enc_iv ELSE 0
           iv == IF m_send_flag THEN <<>> ELSE Bytes(Id(0, "iv"), IvSize)
<1>0. PICK L \in Nat : L = Len(sent)
  BY StepTypes
<1>1. /\ L < MaxMessages /\ L + 1 \in 0..MaxMessages /\ L + 1 # 0 /\ 0 \in 0..MaxMessages
      /\ UNCHANGED receiver
  <2>1. L < MaxMessages /\ UNCHANGED receiver /\ MaxMessages \in Nat
    BY <1>0, StcpAssumption DEF Send
  <2>2. QED
    BY <2>1
<1>2. c = m_enc_iv /\ m_enc_iv \in Nat /\ m_send_flag \in BOOLEAN
  BY NotOpened DEF StreamInv, TypeOK
<1>3. /\ IvSize \in Nat /\ HeadSize \in Nat /\ len + TagSize \in Nat
      /\ wire \in Seq(Told) /\ refused \in BOOLEAN /\ len \in Nat
  <2>1. IvSize \in 1..Cap /\ HeadSize \in 1..Cap /\ len \in Nat /\ TagSize \in Nat \ {0}
    BY StepTypes
  <2>2. QED
    BY <2>1 DEF StreamInv, TypeOK
<1>4. ASSUME NEW d \in 0..2, Sealing(len, d)
      PROVE  /\ wire \in Seq(Told')
             /\ wire \o iv \in Seq(Told')
             /\ d = 2 => \A n \in 0..(len + TagSize) :
                  wire \o iv \o Bytes(Id(L + 1, "head"), HeadSize)
                             \o Bytes(Id(L + 1, "body"), n) \in Seq(Told')
  <2>1. Told \subseteq Told' /\ (d = 2 => Out(L + 1)')
    BY <1>0, <1>4, SealingCounters
  <2>2. wire \in Seq(Told')
    BY <2>1, <1>3, SeqMonotonic
  <2>3. iv \in Seq(Told')
    BY <1>1, <1>3, BytesTold, EmptySeq
  <2> HIDE DEF iv
  <2>4. wire \o iv \in Seq(Told')
    BY <2>2, <2>3, ConcatProperties
  <2>5. ASSUME d = 2, NEW n \in 0..(len + TagSize)
        PROVE  wire \o iv \o Bytes(Id(L + 1, "head"), HeadSize)
                          \o Bytes(Id(L + 1, "body"), n) \in Seq(Told')
    <3>1. n \in Nat
      BY <1>3
    <3>2. /\ Bytes(Id(L + 1, "head"), HeadSize) \in Seq(Told')
          /\ Bytes(Id(L + 1, "body"), n) \in Seq(Told')
      BY <3>1, <1>1, <1>3, <2>1, <2>5, BytesTold
    <3>3. wire \o iv \o Bytes(Id(L + 1, "head"), HeadSize) \in Seq(Told')
      BY <2>4, <3>2, ConcatProperties
    <3>4. QED
      BY <3>2, <3>3, ConcatProperties
  <2>6. QED
    BY <2>2, <2>4, <2>5
<1>5. CASE SendAll(len)
  <2>1. Sealing(len, 2)
    BY <1>1, <1>2, <1>5 DEF SendAll, Sealing
  <2>2. len + TagSize \in 0..(len + TagSize)
    BY <1>3
  <2>3. wire' \in Seq(Told') /\ refused' \in BOOLEAN
    BY <1>0, <1>3, <1>4, <1>5, <2>1, <2>2 DEF SendAll
  <2>4. QED
    BY <1>0, <1>1, <2>1, <2>3, SealingStream
<1>6. CASE SendThrowsAtIv(len)
  <2>1. Sealing(len, 0)
    BY <1>1, <1>2, <1>6, NotOpened DEF SendThrowsAtIv, Sealing
  <2>2. wire' \in Seq(Told') /\ refused' \in BOOLEAN
    BY <1>4, <1>6, <2>1 DEF SendThrowsAtIv
  <2>3. QED
    BY <1>0, <1>1, <2>1, <2>2, SealingStream
<1>7. CASE SendThrowsAtHead(len)
  <2>1. Sealing(len, 1)
    BY <1>1, <1>2, <1>7 DEF SendThrowsAtHead, Sealing
  <2>2. wire' \in Seq(Told') /\ refused' \in BOOLEAN
    BY <1>4, <1>7, <2>1 DEF SendThrowsAtHead
  <2>3. QED
    BY <1>0, <1>1, <2>1, <2>2, SealingStream
<1>8. ASSUME NEW n \in 0..(len + TagSize), SendThrowsAtBody(len, n)
      PROVE  StreamInv'
  <2>1. Sealing(len, 2)
    BY <1>1, <1>2, <1>8 DEF SendThrowsAtBody, Sealing
  <2>2. wire' \in Seq(Told') /\ refused' \in BOOLEAN
    BY <1>0, <1>4, <1>8, <2>1 DEF SendThrowsAtBody
  <2>3. QED
    BY <1>0, <1>1, <2>1, <2>2, SealingStream
<1>9. QED
  BY <1>5, <1>6, <1>7, <1>8 DEF Send

-----------------------------------------------------------------------------
(* read *)

\* What is not there to be taken is less than len, and is no more than what
\* the buffer holds.
LEMMA BufferShort ==
  ASSUME NEW S, NEW r \in Holds(S), NEW len \in Nat, ~HasBytes(r, len)
  PROVE  Size(r) \in 0..Occupied(r) /\ Size(r) < len
<1>1. Size(r) \in Int /\ Size(r) <= Occupied(r) /\ Occupied(r) \in Nat
  BY BufferNumbers
<1>2. ~(Size(r) < 0 \/ Size(r) >= len)
  BY DEF HasBytes
<1>3. QED
  BY <1>1, <1>2

\* Whatever part of a record read keeps, and
LEMMA PartHeld ==
  ASSUME StreamInv, NEW len \in Nat, NEW k \in 1..Len(wire), ReadPart(len, k)
  PROVE  /\ wire' \in Seq(Told) /\ m_read_buffer' \in Holds(Known)
         /\ fault' \in {"abort", "overrun"} \/ fault' = fault
<1>1. wire \in Seq(Told) /\ m_read_buffer \in Holds(Known) /\ Len(wire) \in Nat
  BY StepTypes DEF StreamInv
<1>2. k \in 0..Len(wire)
  BY <1>1
<1>3. wire' \in Seq(Told)
  BY <1>1, <1>2, LastPart DEF ReadPart
<1>4. SubSeq(wire, 1, k) \in Seq(Told) /\ Len(SubSeq(wire, 1, k)) = k
  BY <1>1, <1>2, FirstPart
<1>5. SubSeq(wire, 1, k) \in Seq(Known)
  BY <1>4, SeqMonotonic DEF Known
<1>6. ~AppendOverruns(m_read_buffer, k) =>
        Appended(m_read_buffer, SubSeq(wire, 1, k)) \in Holds(Known)
  BY <1>1, <1>4, <1>5, AppendHeld
<1>7. m_read_buffer' \in Holds(Known)
  BY <1>1, <1>6 DEF ReadPart
<1>8. fault' \in {"abort", "overrun"} \/ fault' = fault
  BY DEF ReadPart
<1>9. QED
  BY <1>3, <1>7, <1>8

\* however it completes one, it leaves the rest of the stream and a buffer;
LEMMA ReadHeld ==
  ASSUME StreamInv, NEW len \in Nat, Read(len)
  PROVE  /\ wire' \in Seq(Told) /\ m_read_buffer' \in Holds(Known)
         /\ fragmented' \in BOOLEAN /\ again' \in 0..MaxAgain
<1>1. /\ wire \in Seq(Told) /\ m_read_buffer \in Holds(Known) /\ Len(wire) \in Nat
      /\ fragmented \in BOOLEAN /\ again \in 0..MaxAgain /\ MaxAgain \in Nat
  BY StepTypes, StcpAssumption DEF StreamInv, TypeOK
<1>2. CASE ReadBuffered(len)
  BY <1>1, <1>2, PollHeld DEF ReadBuffered
<1>3. CASE ReadSocket(len)
  <2>1. len - FromBuffer(len) \in 0..Len(wire)
    BY <1>3 DEF ReadSocket
  <2>2. wire' \in Seq(Told)
    BY <1>1, <1>3, <2>1, LastPart DEF ReadSocket
  <2>3. QED
    BY <1>1, <1>3, <2>2 DEF ReadSocket
<1>4. CASE ReadAgain(len)
  BY <1>1, <1>4 DEF ReadAgain
<1>5. QED
  BY <1>2, <1>3, <1>4 DEF Read

\* and what it hands out is len bytes of those in the buffer, of those on the
\* stream and of garbage.
LEMMA BuffersHeld ==
  ASSUME StreamInv, NEW len \in Nat, Read(len), NEW buf \in Buffers(len)
  PROVE  buf \in Seq(Known) /\ Len(buf) = len
<1>1. /\ wire \in Seq(Told) /\ m_read_buffer \in Holds(Known) /\ Len(wire) \in Nat
      /\ Garbage \in Known /\ Told \subseteq Known
  BY StepTypes DEF StreamInv, Known
<1>2. CASE FromBuffer(len) = len
  <2>1. ~PollOverruns(m_read_buffer, len)
    BY <1>2 DEF Read, ReadBuffered, ReadSocket, ReadAgain
  <2>2. buf = Polled(m_read_buffer, len).data
    BY <1>2 DEF Buffers
  <2>3. QED
    BY <1>1, <2>1, <2>2, PollHeld
<1>3. CASE FromBuffer(len) # len
  <2> DEFINE n == FromBuffer(len)
  <2>1. ~HasBytes(m_read_buffer, len) /\ n = Size(m_read_buffer)
    BY <1>3 DEF FromBuffer
  <2>2. n \in 0..Occupied(m_read_buffer) /\ n < len
    BY <1>1, <2>1, BufferShort
  <2>3. n \in Nat /\ len - n \in Nat /\ n + (len - n) = len
    BY <2>2
  <2>4. wire' # wire => len - n \in 0..Len(wire)
    BY <1>1, <1>3 DEF Read, ReadBuffered, ReadSocket, ReadAgain
  <2>5. PICK old \in Leftover(n), came \in {[i \in 1..(len - n) |-> Garbage], SubSeq(wire, 1, len - n)} :
          buf = old \o came /\ (wire' = wire => came = [i \in 1..(len - n) |-> Garbage])
                           /\ (wire' # wire => came = SubSeq(wire, 1, len - n))
    BY <1>3 DEF Buffers
  <2> HIDE DEF n
  <2>6. old \in Seq(Known) /\ Len(old) = n
    <3>1. [i \in 1..n |-> Garbage] \in Seq(Known) /\ Len([i \in 1..n |-> Garbage]) = n
      <4>1. [i \in 1..n |-> Garbage] \in [1..n -> Known]
        BY <1>1
      <4>2. QED
        BY <4>1, <2>3, SeqOfFunction
    <3>2. /\ SubSeq(Content(m_read_buffer), 1, n) \in Seq(Known)
          /\ Len(SubSeq(Content(m_read_buffer), 1, n)) = n
      <4>1. /\ Content(m_read_buffer) \in Seq(Known)
            /\ n \in 0..Len(Content(m_read_buffer))
        BY <1>1, <2>2, ContentHeld
      <4>2. QED
        BY <4>1, FirstPart
    <3>3. QED
      BY <2>5, <3>1, <3>2 DEF Leftover
  <2>7. came \in Seq(Known) /\ Len(came) = len - n
    <3>1. CASE wire' = wire
      <4>1. came \in [1..(len - n) -> Known]
        BY <1>1, <2>5, <3>1
      <4>2. QED
        BY <4>1, <2>3, SeqOfFunction
    <3>2. CASE wire' # wire
      <4>1. wire \in Seq(Known)
        BY <1>1, SeqMonotonic
      <4>2. QED
        BY <4>1, <2>4, <2>5, <3>2, FirstPart
    <3>3. QED
      BY <3>1, <3>2
  <2>8. old \o came \in Seq(Known) /\ Len(old \o came) = Len(old) + Len(came)
    BY <2>6, <2>7, ConcatProperties
  <2>9. QED
    BY <2>3, <2>5, <2>6, <2>7, <2>8
<1>4. QED
  BY <1>2, <1>3

-----------------------------------------------------------------------------
(* recv *)

\* A record that opens is of a message whose two records were sealed.
LEMMA OpensTold ==
  ASSUME StreamInv, NEW len \in Nat, NEW buf \in Seq(Known), Len(buf) = len,
         NEW id \in Opens(buf)
  PROVE  /\ id.msg \in 1..Len(sent) /\ id.kind \in {"head", "body"}
         /\ id = Id(id.msg, id.kind) /\ id \in RecordId
         /\ Out(id.msg) /\ m_dec_iv = Nonce(id) /\ len = SizeOf(id)
<1>1. PICK k \in DOMAIN sent, kind \in {"head", "body"} : id = Id(k, kind)
  BY DEF Opens, Sealed
<1>2. k \in 1..Len(sent) /\ k \in 0..MaxMessages
  <2>1. DOMAIN sent = 1..Len(sent) /\ Len(sent) \in Nat /\ MaxMessages \in Nat
    BY StepTypes
  <2>2. Len(sent) <= MaxMessages
    BY DEF StreamInv
  <2>3. QED
    BY <1>1, <2>1, <2>2
<1>3. id.msg = k /\ id.kind = kind /\ id \in RecordId
  BY <1>1, <1>2 DEF Id, RecordId
<1>4. buf = Bytes(id, SizeOf(id)) /\ m_dec_iv = Nonce(id)
  BY DEF Opens
<1>5. SizeOf(id) \in Nat \ {0}
  <2>1. HeadSize \in 1..Cap /\ TagSize \in Nat \ {0} /\ sent[k].len \in Nat
    BY <1>2, StepTypes
  <2>2. SizeOf(id) = IF kind = "head" THEN HeadSize ELSE sent[k].len + TagSize
    BY <1>3 DEF SizeOf
  <2>3. QED
    BY <2>1, <2>2
<1>6. len = SizeOf(id)
  <2>1. Bytes(id, SizeOf(id)) \in [1..SizeOf(id) -> Written]
    BY <1>3 DEF Bytes, Written
  <2>2. QED
    BY <1>4, <1>5, <2>1, SeqOfFunction
<1>7. buf[1] = [id |-> id, at |-> 1] /\ buf[1] \in Known
  <2>1. 1 \in 1..SizeOf(id)
    BY <1>5
  <2>2. QED
    BY <1>4, <1>6, <2>1, ElementOfSeq DEF Bytes
<1>8. buf[1] \in Written
  BY <1>3, <1>7 DEF Written
<1>9. buf[1] \in Told
  BY <1>7, <1>8, StepTypes DEF Known
<1>10. buf[1].id = id
  BY <1>7
<1>11. Out(k)
  BY <1>1, <1>3, <1>9, <1>10 DEF Told
<1>12. QED
  BY <1>1, <1>2, <1>3, <1>4, <1>6, <1>11

\* No two records have the same counter, and none but the next one's is that
\* of the receiver.
LEMMA NextRecord ==
  ASSUME StreamInv, NEW u \in Nat, NEW n \in Nat, Opened(u), u + n <= Len(sent),
         Iv(u + n + 1) = 2 * n, NEW k \in 1..Len(sent), Out(k)
  PROVE  /\ Iv(k) = 2 * n => k = u + n + 1
         /\ Iv(k) + 1 # 2 * n
         /\ Out(u + n + 1) => Iv(k) # 2 * n + 1
<1>0. PICK L \in Nat : L = Len(sent)
  BY StepTypes
<1>1. PICK m \in Nat : m = u + n + 1
  OBVIOUS
<1>2. /\ k \in 1..(L + 1) /\ k + 1 \in 1..(L + 1) /\ m \in 1..(L + 1)
  BY <1>0, <1>1
<1>3. \A i \in 1..(u + 1) : Iv(i) = 0
  BY DEF Opened
<1>4. \A i, j \in 1..(L + 1) : i < j => Iv(i) <= Iv(j) /\ (u < i => Iv(i) < Iv(j))
  BY <1>0 DEF Opened
<1>5. Iv(k + 1) = Iv(k) + 2 /\ Iv(m) = 2 * n
  BY <1>1 DEF Out
<1>6. Iv(k) \in Nat /\ Iv(k + 1) \in Nat /\ Iv(m) \in Nat /\ Iv(m + 1) \in Nat
  <2>1. k \in Int /\ k + 1 \in Int /\ m \in Int /\ m + 1 \in Int
    BY <1>1
  <2>2. QED
    BY <2>1, StepTypes
<1>7. u < k
  <2>1. SUFFICES ASSUME ~(u < k) PROVE FALSE
    OBVIOUS
  <2>2. k \in 1..(u + 1) /\ k + 1 \in 1..(u + 1)
    BY <2>1
  <2>3. Iv(k) = 0 /\ Iv(k + 1) = 0
    BY <2>2, <1>3
  <2>4. QED
    BY <2>3, <1>5
<1>8. k < m => Iv(k + 1) <= Iv(m)
  <2>1. k < m => k + 1 = m \/ k + 1 < m
    OBVIOUS
  <2>2. QED
    BY <2>1, <1>2, <1>4, <1>6
<1>9. m < k => Iv(m) < Iv(k)
  <2>1. u < m
    BY <1>1
  <2>2. QED
    BY <2>1, <1>2, <1>4
<1>10. Out(m) => Iv(m + 1) = Iv(m) + 2 /\ (m < k => Iv(m + 1) <= Iv(k))
  <2>1. SUFFICES ASSUME Out(m) PROVE Iv(m + 1) = Iv(m) + 2 /\ (m < k => Iv(m + 1) <= Iv(k))
    OBVIOUS
  <2>2. Iv(m + 1) = Iv(m) + 2 /\ m \in 1..L
    BY <2>1, <1>0 DEF Out
  <2>3. m < k => (m + 1 = k \/ m + 1 < k) /\ m + 1 \in 1..(L + 1)
    BY <2>2, <1>1
  <2>4. QED
    BY <2>2, <2>3, <1>2, <1>4, <1>6
<1>11. k < m \/ k = m \/ m < k
  BY <1>1
<1>12. /\ Iv(k) = 2 * n => k = m
       /\ Iv(k) + 1 # 2 * n
       /\ Out(m) => Iv(k) # 2 * n + 1
  <2>1. PICK a \in Nat, b \in Nat : a = Iv(k) /\ b = Iv(m)
    BY <1>6
  <2>2. /\ b = 2 * n
        /\ k < m => a + 2 <= b
        /\ m < k => b < a
        /\ Out(m) /\ m < k => b + 2 <= a
    BY <2>1, <1>5, <1>8, <1>9, <1>10
  <2>3. CASE k < m
    <3>1. a + 2 <= 2 * n
      BY <2>2, <2>3
    <3>2. a # 2 * n /\ a + 1 # 2 * n /\ a # 2 * n + 1
      BY <3>1
    <3>3. QED
      BY <2>1, <3>2
  <2>4. CASE k = m
    <3>1. a = 2 * n
      BY <2>1, <2>2, <2>4
    <3>2. a + 1 # 2 * n /\ a # 2 * n + 1
      BY <3>1
    <3>3. QED
      BY <2>1, <2>4, <3>2
  <2>5. CASE m < k
    <3>1. 2 * n < a /\ (Out(m) => 2 * n + 2 <= a)
      BY <2>2, <2>5
    <3>2. a # 2 * n /\ a + 1 # 2 * n
      BY <3>1
    <3>3. Out(m) => a # 2 * n + 1
      BY <3>1
    <3>4. QED
      BY <2>1, <3>2, <3>3
  <2>6. QED
    BY <1>11, <2>3, <2>4, <2>5
<1>13. QED
  BY <1>1, <1>12

\* A step of the receiver keeps what is said of the calls of send.
LEMMA SenderAlone ==
  ASSUME UNCHANGED sender
  PROVE  /\ Told' = Told /\ Known' = Known
         /\ \A k : Iv(k)' = Iv(k) /\ (Out(k)' <=> Out(k))
         /\ \A u : Opened(u)' <=> Opened(u)
<1>1. sent' = sent /\ m_enc_iv' = m_enc_iv /\ m_send_flag' = m_send_flag
  BY DEF sender
<1>2. \A k : Iv(k)' = Iv(k) /\ (Out(k)' <=> Out(k))
  BY <1>1 DEF Iv, Out
<1>3. Told' = Told
  BY <1>2 DEF Told, Written
<1>4. Known' = Known
  BY <1>3 DEF Known
<1>5. \A u : Opened(u)' <=> Opened(u)
  BY <1>1, <1>2 DEF Opened
<1>6. QED
  BY <1>2, <1>3, <1>4, <1>5

\* To show that it keeps the invariant: the stream, the buffer, the types of
\* what changes, and that recv is still in step.
LEMMA ReceiverStep ==
  ASSUME StreamInv, UNCHANGED sender,
         wire' \in Seq(Told), m_read_buffer' \in Holds(Known),
         m_recv_flag' \in BOOLEAN, m_dec_iv' \in Nat \cup {-1},
         m_body_size' \in Lengths \cup {0}, pc' \in {"idle", "body"},
         delivered' \in Seq(RecordId), fault' \in {"none", "abort", "overrun"},
         failed' \in BOOLEAN, fragmented' \in BOOLEAN, again' \in 0..MaxAgain,
         \A u \in Nat : Opened(u) /\ (~failed => InStep(u)) => (~failed' => InStep(u)')
  PROVE  StreamInv'
<1>1. Told' = Told /\ Known' = Known /\ \A u : Opened(u)' <=> Opened(u)
  BY SenderAlone
<1>2. wire' \in Seq(Written)
  <2>1. Told \subseteq Written
    BY StepTypes
  <2>2. QED
    BY <2>1, SeqMonotonic
<1>3. m_read_buffer'.front \in Offset /\ m_read_buffer'.back \in Offset
  BY DEF Holds
<1>4. TypeOK'
  BY <1>2, <1>3 DEF StreamInv, TypeOK, sender, Written
<1>5. Orderly'
  <2>1. PICK u \in Nat : Opened(u) /\ (~failed => InStep(u))
    BY DEF StreamInv, Orderly
  <2>2. Opened(u)' /\ (~failed' => InStep(u)')
    BY <2>1, <1>1
  <2>3. QED
    BY <2>2 DEF Orderly
<1>6. (Len(sent) <= MaxMessages)'
  BY DEF StreamInv, sender
<1>7. QED
  BY <1>1, <1>4, <1>5, <1>6 DEF StreamInv

\* Steps that read no record leave recv in step.
LEMMA SameStep ==
  ASSUME UNCHANGED sender, UNCHANGED <<m_recv_flag, m_dec_iv, m_body_size, delivered>>,
         pc' = "idle" \/ pc' = pc, NEW u \in Nat, InStep(u)
  PROVE  InStep(u)'
<1>0. PICK n : n = Len(delivered)
  OBVIOUS
<1>1. \A k : Iv(k)' = Iv(k) /\ (Out(k)' <=> Out(k))
  BY SenderAlone
<1>2. sent' = sent
  BY DEF sender
<1>3. (Between(n) => Between(n)') /\ (Astray(n) => Astray(n)')
  BY DEF Between, Astray
<1>4. Within(u, n) => Within(u, n)'
  BY <1>1, <1>2 DEF Within
<1>5. /\ u + n <= Len(sent) /\ Iv(u + n + 1) = 2 * n
      /\ \A k \in 1..n : delivered[k] = Id(u + k, "body")
      /\ ~m_recv_flag => n = 0 /\ Between(n)
      /\ Between(n) \/ Within(u, n) \/ Astray(n)
  BY <1>0 DEF InStep
<1>6. /\ u + n <= Len(sent)' /\ Iv(u + n + 1)' = 2 * n
      /\ \A k \in 1..n : delivered'[k] = Id(u + k, "body")
      /\ ~m_recv_flag' => n = 0 /\ Between(n)'
      /\ Between(n)' \/ Within(u, n)' \/ Astray(n)'
  BY <1>1, <1>2, <1>3, <1>4, <1>5
<1>7. Len(delivered)' = n
  BY <1>0
<1>8. QED
  BY <1>6, <1>7 DEF InStep

LEMMA RecvPartIsStream == StreamInv /\ fault = "none" /\ RecvPart => StreamInv'
<1> SUFFICES ASSUME StreamInv, fault = "none", RecvPart
             PROVE  StreamInv'
  OBVIOUS
<1>1. PICK k \in 1..Len(wire) : ReadPart(Wanted, k)
  BY DEF RecvPart
<1>2. Wanted \in Nat
  <2>1. /\ IvSize \in 1..Cap /\ HeadSize \in 1..Cap /\ m_body_size \in Nat
        /\ TagSize \in Nat \ {0}
    BY StepTypes
  <2>2. m_body_size + TagSize \in Nat
    BY <2>1
  <2>3. QED
    BY <2>1, <2>2 DEF Wanted
<1>3. /\ wire' \in Seq(Told) /\ m_read_buffer' \in Holds(Known)
      /\ fault' \in {"abort", "overrun"} \/ fault' = fault
  BY <1>1, <1>2, PartHeld
<1>4. /\ UNCHANGED sender /\ pc' = "idle" /\ failed' = failed
      /\ UNCHANGED <<m_recv_flag, m_dec_iv, m_body_size, delivered>>
      /\ UNCHANGED <<fragmented, again>>
  BY DEF RecvPart
<1>5. \A u \in Nat : Opened(u) /\ (~failed => InStep(u)) => (~failed' => InStep(u)')
  BY <1>4, SameStep
<1>6. QED
  BY <1>3, <1>4, <1>5, ReceiverStep DEF StreamInv, TypeOK

LEMMA RecvOverrunIsStream == StreamInv /\ RecvOverrun => StreamInv'
<1> SUFFICES ASSUME StreamInv, RecvOverrun
             PROVE  StreamInv'
  OBVIOUS
<1>1. /\ UNCHANGED sender /\ pc' = pc /\ failed' = failed /\ fault' = "overrun"
      /\ UNCHANGED <<m_recv_flag, m_dec_iv, m_body_size, delivered>>
      /\ UNCHANGED <<wire, m_read_buffer, fragmented, again>>
  BY DEF RecvOverrun
<1>2. \A u \in Nat : Opened(u) /\ (~failed => InStep(u)) => (~failed' => InStep(u)')
  BY <1>1, SameStep
<1>3. QED
  BY <1>1, <1>2, ReceiverStep DEF StreamInv, TypeOK

LEMMA RecvIvIsStream == StreamInv /\ RecvIv => StreamInv'
<1> SUFFICES ASSUME StreamInv, RecvIv
             PROVE  StreamInv'
  OBVIOUS
<1>1. IvSize \in Nat /\ Read(IvSize)
  BY StcpAssumption DEF RecvIv
<1>2. /\ wire' \in Seq(Told) /\ m_read_buffer' \in Holds(Known)
      /\ fragmented' \in BOOLEAN /\ again' \in 0..MaxAgain
  BY <1>1, ReadHeld
<1>3. /\ ~m_recv_flag /\ m_recv_flag' = TRUE /\ m_dec_iv' \in {0, -1}
      /\ UNCHANGED sender /\ UNCHANGED <<m_body_size, pc, delivered, failed, fault>>
  BY DEF RecvIv
<1>4. ASSUME NEW u \in Nat, InStep(u)
      PROVE  InStep(u)'
  <2>1. /\ u + 0 <= Len(sent) /\ Iv(u + 0 + 1) = 2 * 0 /\ Len(delivered) = 0
        /\ Between(0)
    BY <1>3, <1>4 DEF InStep
  <2>2. sent' = sent /\ delivered' = delivered /\ Iv(u + 0 + 1)' = Iv(u + 0 + 1)
    BY <1>3, SenderAlone DEF sender
  <2>3. Between(0)' \/ Astray(0)'
    BY <1>3, <2>1 DEF Between, Astray
  <2>4. /\ u + 0 <= Len(sent)' /\ Iv(u + 0 + 1)' = 2 * 0 /\ Len(delivered)' = 0
        /\ \A k \in 1..0 : delivered'[k] = Id(u + k, "body")
        /\ m_recv_flag' = TRUE
        /\ Between(0)' \/ Within(u, 0)' \/ Astray(0)'
    BY <1>3, <2>1, <2>2, <2>3
  <2>5. QED
    BY <2>4 DEF InStep
<1>5. \A u \in Nat : Opened(u) /\ (~failed => InStep(u)) => (~failed' => InStep(u)')
  BY <1>3, <1>4
<1>6. m_recv_flag' \in BOOLEAN /\ m_dec_iv' \in Nat \cup {-1}
  BY <1>3
<1>7. QED
  BY <1>2, <1>3, <1>5, <1>6, ReceiverStep DEF StreamInv, TypeOK

\* What opens where recv is in step: a length between messages, and within one
\* its body.
LEMMA OpensInStep ==
  ASSUME StreamInv, NEW u \in Nat, Opened(u), InStep(u), NEW n \in Nat, n = Len(delivered),
         NEW len \in Nat, NEW buf \in Seq(Known), Len(buf) = len, NEW id \in Opens(buf)
  PROVE  /\ ~Astray(n)
         /\ Between(n) => id = Id(u + n + 1, "head") /\ u + n + 1 \in 1..Len(sent) /\ Out(u + n + 1)
         /\ Within(u, n) => id = Id(u + n + 1, "body") /\ len = m_body_size + TagSize
<1>1. PICK k \in 1..Len(sent) : k = id.msg
  BY OpensTold
<1>2. /\ id.kind \in {"head", "body"} /\ id = Id(k, id.kind)
      /\ Out(k) /\ m_dec_iv = Nonce(id) /\ len = SizeOf(id)
  BY <1>1, OpensTold
<1>3. Iv(k) = sent[k].iv /\ Iv(k) \in Nat
  <2>1. k \in Int
    OBVIOUS
  <2>2. QED
    BY <2>1, StepTypes DEF Iv
<1>4. Nonce(id) = IF id.kind = "head" THEN Iv(k) ELSE Iv(k) + 1
  BY <1>1, <1>3 DEF Nonce
<1>5. u + n <= Len(sent) /\ Iv(u + n + 1) = 2 * n
  BY DEF InStep
<1>6. /\ Iv(k) = 2 * n => k = u + n + 1
      /\ Iv(k) + 1 # 2 * n
      /\ Out(u + n + 1) => Iv(k) # 2 * n + 1
  BY <1>2, <1>5, NextRecord
<1>7. ~Astray(n)
  BY <1>2, <1>3, <1>4 DEF Astray
<1>8. ASSUME Between(n)
      PROVE  id = Id(u + n + 1, "head") /\ u + n + 1 \in 1..Len(sent) /\ Out(u + n + 1)
  <2>1. m_dec_iv = 2 * n
    BY <1>8 DEF Between
  <2>2. id.kind = "head" /\ k = u + n + 1
    BY <2>1, <1>2, <1>4, <1>6
  <2>3. QED
    BY <2>2, <1>2
<1>9. ASSUME Within(u, n)
      PROVE  id = Id(u + n + 1, "body") /\ len = m_body_size + TagSize
  <2>1. m_dec_iv = 2 * n + 1 /\ Out(u + n + 1) /\ m_body_size = sent[u + n + 1].len
    BY <1>9 DEF Within
  <2>2. id.kind = "body"
    BY <2>1, <1>2, <1>4, <1>6
  <2>3. Iv(k) = 2 * n
    BY <2>1, <2>2, <1>2, <1>3, <1>4
  <2>4. k = u + n + 1
    BY <2>3, <1>6
  <2>5. len = sent[k].len + TagSize
    BY <2>2, <1>1, <1>2 DEF SizeOf
  <2>6. QED
    BY <2>1, <2>2, <2>4, <2>5, <1>2
<1>10. QED
  BY <1>7, <1>8, <1>9

LEMMA RecvHeadIsStream == StreamInv /\ RecvHead => StreamInv'
<1> SUFFICES ASSUME StreamInv, RecvHead
             PROVE  StreamInv'
  OBVIOUS
<1>1. HeadSize \in Nat /\ Read(HeadSize) /\ TagSize # HeadSize /\ TagSize \in Nat
  <2>1. HeadSize = LenSize + TagSize /\ LenSize \in Nat \ {0} /\ TagSize \in Nat \ {0}
    BY StepTypes
  <2>2. QED
    BY <2>1 DEF RecvHead
<1>2. /\ wire' \in Seq(Told) /\ m_read_buffer' \in Holds(Known)
      /\ fragmented' \in BOOLEAN /\ again' \in 0..MaxAgain
  BY <1>1, ReadHeld
<1>3. /\ m_recv_flag /\ m_body_size = 0 /\ pc = "idle"
      /\ UNCHANGED sender /\ UNCHANGED <<m_recv_flag, delivered, fault>>
      /\ m_dec_iv' = IF m_dec_iv < 0 THEN m_dec_iv ELSE m_dec_iv + 1
  BY DEF RecvHead, Decrypt
<1>4. PICK buf \in Buffers(HeadSize) :
        \/ \E id \in Opens(buf) :
             /\ m_body_size' \in IF id.kind = "head" THEN {sent[id.msg].len} ELSE Lengths
             /\ pc' = "body"
             /\ UNCHANGED failed
        \/ failed' = TRUE /\ UNCHANGED <<m_body_size, pc>>
  BY DEF RecvHead
<1>5. buf \in Seq(Known) /\ Len(buf) = HeadSize
  BY <1>1, BuffersHeld
<1>6. m_dec_iv' \in Nat \cup {-1}
  BY <1>3 DEF StreamInv, TypeOK
<1>7. /\ m_body_size' \in Lengths \cup {0} /\ pc' \in {"idle", "body"}
      /\ failed' \in BOOLEAN
  <2>1. \A id \in Opens(buf) : sent[id.msg].len \in Lengths
    BY <1>1, <1>5, OpensTold, StepTypes
  <2>2. QED
    BY <2>1, <1>4 DEF StreamInv, TypeOK
<1>8. ASSUME NEW u \in Nat, Opened(u), ~failed => InStep(u), ~failed'
      PROVE  InStep(u)'
  <2>0. PICK n \in Nat : n = Len(delivered)
    BY StepTypes
  <2>1. PICK id \in Opens(buf) :
          /\ m_body_size' \in IF id.kind = "head" THEN {sent[id.msg].len} ELSE Lengths
          /\ pc' = "body"
          /\ UNCHANGED failed
    BY <1>4, <1>8
  <2>2. InStep(u)
    BY <2>1, <1>8
  <2>3. /\ ~Astray(n)
        /\ Between(n) => id = Id(u + n + 1, "head") /\ u + n + 1 \in 1..Len(sent) /\ Out(u + n + 1)
        /\ Within(u, n) => id = Id(u + n + 1, "body") /\ HeadSize = m_body_size + TagSize
    BY <2>0, <2>2, <1>1, <1>5, <1>8, OpensInStep
  <2>4. ~Within(u, n)
    BY <2>3, <1>1, <1>3
  <2>5. /\ Between(n) /\ u + n <= Len(sent) /\ Iv(u + n + 1) = 2 * n
        /\ \A k \in 1..n : delivered[k] = Id(u + k, "body")
    BY <2>0, <2>2, <2>3, <2>4 DEF InStep
  <2>6. id.kind = "head" /\ id.msg = u + n + 1 /\ Out(u + n + 1)
    BY <2>3, <2>5 DEF Id
  <2>7. m_body_size' = sent[u + n + 1].len /\ m_dec_iv' = 2 * n + 1
    BY <2>1, <2>5, <2>6, <1>3 DEF Between
  <2>8. /\ sent' = sent /\ delivered' = delivered /\ Iv(u + n + 1)' = Iv(u + n + 1)
        /\ Out(u + n + 1)'
    BY <2>6, <1>3, SenderAlone DEF sender
  <2>9. Within(u, n)'
    BY <2>7, <2>8 DEF Within
  <2>10. /\ u + n <= Len(sent)' /\ Iv(u + n + 1)' = 2 * n /\ Len(delivered)' = n
         /\ \A k \in 1..n : delivered'[k] = Id(u + k, "body")
         /\ m_recv_flag'
    BY <2>0, <2>5, <2>8, <1>3
  <2>11. QED
    BY <2>9, <2>10 DEF InStep
<1>9. /\ m_recv_flag' \in BOOLEAN /\ delivered' \in Seq(RecordId)
      /\ fault' \in {"none", "abort", "overrun"}
  BY <1>3 DEF StreamInv, TypeOK
<1>10. QED
  BY <1>2, <1>3, <1>6, <1>7, <1>8, <1>9, ReceiverStep

LEMMA RecvBodyIsStream == StreamInv /\ RecvBody => StreamInv'
<1> SUFFICES ASSUME StreamInv, RecvBody
             PROVE  StreamInv'
  OBVIOUS
<1> DEFINE len == m_body_size + TagSize
<1>1. len \in Nat /\ Read(len)
  <2>1. m_body_size \in Nat /\ TagSize \in Nat \ {0}
    BY StepTypes
  <2>2. QED
    BY <2>1 DEF RecvBody
<1>2. /\ wire' \in Seq(Told) /\ m_read_buffer' \in Holds(Known)
      /\ fragmented' \in BOOLEAN /\ again' \in 0..MaxAgain
  BY <1>1, ReadHeld
<1>3. /\ m_recv_flag /\ (m_body_size > 0 \/ pc = "body")
      /\ m_body_size' = 0 /\ pc' = "idle"
      /\ UNCHANGED sender /\ UNCHANGED <<m_recv_flag, fault>>
      /\ m_dec_iv' = IF m_dec_iv < 0 THEN m_dec_iv ELSE m_dec_iv + 1
  BY DEF RecvBody, Decrypt
<1>4. PICK buf \in Buffers(len) :
        \/ \E id \in Opens(buf) : delivered' = Append(delivered, id) /\ UNCHANGED failed
        \/ failed' = TRUE /\ UNCHANGED delivered
  BY DEF RecvBody
<1>5. buf \in Seq(Known) /\ Len(buf) = len
  BY <1>1, BuffersHeld
<1> HIDE DEF len
<1>6. m_dec_iv' \in Nat \cup {-1}
  BY <1>3 DEF StreamInv, TypeOK
<1>7. delivered' \in Seq(RecordId) /\ failed' \in BOOLEAN
  <2>1. delivered \in Seq(RecordId) /\ failed \in BOOLEAN
    BY DEF StreamInv, TypeOK
  <2>2. \A id \in Opens(buf) : id \in RecordId
    BY <1>1, <1>5, OpensTold
  <2>3. \A id \in Opens(buf) : Append(delivered, id) \in Seq(RecordId)
    BY <2>1, <2>2, AppendProperties
  <2>4. QED
    BY <2>1, <2>3, <1>4
<1>8. ASSUME NEW u \in Nat, Opened(u), ~failed => InStep(u), ~failed'
      PROVE  InStep(u)'
  <2>0. PICK n \in Nat : n = Len(delivered)
    BY StepTypes
  <2>1. PICK id \in Opens(buf) : delivered' = Append(delivered, id) /\ UNCHANGED failed
    BY <1>4, <1>8
  <2>2. InStep(u)
    BY <2>1, <1>8
  <2>3. Within(u, n) => id = Id(u + n + 1, "body")
    BY <2>0, <2>2, <1>1, <1>5, <1>8, OpensInStep
  <2>4. ~Between(n) /\ ~Astray(n)
    BY <1>3 DEF Between, Astray
  <2>5. /\ Within(u, n) /\ u + n <= Len(sent) /\ Iv(u + n + 1) = 2 * n
        /\ \A k \in 1..n : delivered[k] = Id(u + k, "body")
    BY <2>0, <2>2, <2>4 DEF InStep
  <2>6. m_dec_iv = 2 * n + 1 /\ Out(u + n + 1)
    BY <2>5 DEF Within
  <2>7. u + n + 1 \in 1..Len(sent) /\ Iv(u + n + 1 + 1) = 2 * n + 2
    BY <2>5, <2>6 DEF Out
  <2>8. /\ Len(delivered)' = n + 1
        /\ \A k \in 1..n : delivered'[k] = delivered[k]
        /\ delivered'[n + 1] = Id(u + n + 1, "body")
    <3>1. delivered \in Seq(RecordId) /\ id \in RecordId
      BY <1>1, <1>5, OpensTold DEF StreamInv, TypeOK
    <3>2. QED
      BY <2>0, <2>1, <2>3, <2>5, <3>1, AppendProperties
  <2>9. u + (n + 1) = u + n + 1 /\ u + (n + 1) + 1 = u + n + 1 + 1 /\ 2 * (n + 1) = 2 * n + 2
    OBVIOUS
  <2>10. sent' = sent /\ Iv(u + n + 1 + 1)' = Iv(u + n + 1 + 1)
    BY <1>3, SenderAlone DEF sender
  <2>11. Between(n + 1)'
    BY <2>6, <2>9, <1>3 DEF Between
  <2>12. \A k \in 1..(n + 1) : delivered'[k] = Id(u + k, "body")
    <3>1. ASSUME NEW k \in 1..(n + 1) PROVE k \in 1..n \/ k = n + 1
      OBVIOUS
    <3>2. QED
      BY <2>5, <2>8, <2>9, <3>1
  <2>13. u + (n + 1) <= Len(sent)' /\ Iv(u + (n + 1) + 1)' = 2 * (n + 1)
    BY <2>7, <2>9, <2>10
  <2>14. PICK m : m = n + 1
    OBVIOUS
  <2>15. /\ u + m <= Len(sent)' /\ Iv(u + m + 1)' = 2 * m
         /\ \A k \in 1..m : delivered'[k] = Id(u + k, "body")
         /\ Between(m)'
    BY <2>11, <2>12, <2>13, <2>14
  <2>16. Len(delivered)' = m /\ m_recv_flag'
    <3>1. Len(delivered)' = m
      BY <2>8, <2>14
    <3>2. m_recv_flag'
      BY <1>3
    <3>3. QED
      BY <3>1, <3>2
  <2>17. QED
    BY <2>15, <2>16 DEF InStep
<1>9. /\ m_recv_flag' \in BOOLEAN /\ m_body_size' \in Lengths \cup {0}
      /\ fault' \in {"none", "abort", "overrun"} /\ pc' \in {"idle", "body"}
  BY <1>3 DEF StreamInv, TypeOK
<1>10. QED
  BY <1>2, <1>3, <1>6, <1>7, <1>8, <1>9, ReceiverStep

\* The invariant of every behaviour.
THEOREM StreamInvariant == Spec => []StreamInv
<1>1. StreamInv /\ [Next]_vars => StreamInv'
  <2> SUFFICES ASSUME StreamInv, [Next]_vars
               PROVE  StreamInv'
    OBVIOUS
  <2>1. CASE \E len \in Lengths : Send(len)
    BY <2>1, SendIsStream
  <2>2. CASE fault = "none" /\ (RecvPart \/ RecvOverrun \/ RecvIv \/ RecvHead \/ RecvBody)
    BY <2>2, RecvPartIsStream, RecvOverrunIsStream, RecvIvIsStream, RecvHeadIsStream,
       RecvBodyIsStream
  <2>3. CASE UNCHANGED vars
    <3>1. UNCHANGED sender /\ UNCHANGED receiver /\ wire' = wire
      BY <2>3 DEF vars
    <3>2. \A u \in Nat : Opened(u) /\ (~failed => InStep(u)) => (~failed' => InStep(u)')
      BY <3>1, SameStep DEF receiver
    <3>3. QED
      BY <3>1, <3>2, ReceiverStep DEF receiver, StreamInv, TypeOK
  <2>4. QED
    BY <2>1, <2>2, <2>3 DEF Next
<1>2. QED
  BY <1>1, InitIsStream, PTL DEF Spec

-----------------------------------------------------------------------------
(* The theorems *)

LEMMA OpenedCounts ==
  ASSUME StreamInv, NEW u \in Nat, Opened(u)
  PROVE  Unopened = u
<1>0. PICK L \in Nat : L = Len(sent)
  BY StepTypes
<1>1. CASE ~m_send_flag
  BY <1>1 DEF Opened, Unopened
<1>2. CASE m_send_flag
  <2>1. u < L /\ DOMAIN sent = 1..L
    BY <1>0, <1>2, StepTypes DEF Opened
  <2>2. ASSUME NEW k \in 1..L PROVE sent[k].iv = 0 <=> k \in 1..(u + 1)
    <3>1. sent[k].iv = Iv(k) /\ Iv(k) \in Nat
      <4>1. k \in Int
        OBVIOUS
      <4>2. QED
        BY <4>1, <1>0, StepTypes DEF Iv
    <3>2. \A i \in 1..(u + 1) : Iv(i) = 0
      BY DEF Opened
    <3>3. k \in 1..(u + 1) \/ (u + 1 < k /\ u < u + 1 /\ u + 1 \in 1..(L + 1) /\ k \in 1..(L + 1))
      BY <2>1
    <3>4. ASSUME u + 1 < k, u + 1 \in 1..(L + 1), k \in 1..(L + 1) PROVE Iv(u + 1) <= Iv(k) /\ Iv(k) # 0
      <4>1. \A i, j \in 1..(L + 1) : i < j => Iv(i) <= Iv(j) /\ (u < i => Iv(i) < Iv(j))
        BY <1>0 DEF Opened
      <4>2. u < u + 1 /\ u + 1 \in 1..(u + 1)
        OBVIOUS
      <4>3. Iv(u + 1) = 0 /\ Iv(u + 1) < Iv(k)
        BY <3>2, <3>4, <4>1, <4>2
      <4>4. QED
        BY <3>1, <4>3
    <3>5. QED
      BY <3>1, <3>2, <3>3, <3>4
  <2>3. {k \in DOMAIN sent : sent[k].iv = 0} = 1..(u + 1)
    BY <2>1, <2>2
  <2>4. Cardinality(1..(u + 1)) = u + 1
    BY FS_Interval
  <2>5. Unopened = Cardinality(1..(u + 1)) - 1
    BY <2>3, <1>2 DEF Unopened
  <2>6. QED
    BY <2>4, <2>5
<1>3. QED
  BY <1>1, <1>2

\* What recv has returned, up to its first error.
LEMMA PrefixHolds == StreamInv => PrefixUntilError
<1> SUFFICES ASSUME StreamInv, ~failed
             PROVE  delivered = Bodies(Len(delivered))
  BY DEF PrefixUntilError
<1>1. PICK u \in Nat : Opened(u) /\ InStep(u)
  BY DEF StreamInv, Orderly
<1>2. Unopened = u
  BY <1>1, OpenedCounts
<1>3. PICK n \in Nat : n = Len(delivered)
  BY StepTypes
<1>4. \A k \in 1..n : delivered[k] = Id(u + k, "body")
  BY <1>1, <1>3 DEF InStep
<1>5. delivered \in [1..n -> RecordId]
  BY <1>3, LenProperties DEF StreamInv, TypeOK
<1>6. delivered = [k \in 1..n |-> Id(u + k, "body")]
  BY <1>4, <1>5
<1>7. QED
  BY <1>2, <1>3, <1>6 DEF Bodies

(* Up to its first error recv has returned the first messages of the       *)
(* connection, in order and with none left out, whatever send left on the  *)
(* stream when it threw and however read cut it into pieces.               *)
THEOREM ReceivesPrefix == Spec => []PrefixUntilError
  BY StreamInvariant, PrefixHolds, PTL

\* What is wanted is longer than the buffer only if it is a body.
LEMMA LongIsBody ==
  ASSUME StreamInv, Wanted \in Nat, ~(Wanted \in 0..Cap)
  PROVE  Wanted = m_body_size + TagSize /\ m_body_size + TagSize > Cap
<1>1. /\ IvSize \in 1..Cap /\ HeadSize \in 1..Cap /\ Cap \in Nat
  BY StepTypes
<1>2. Wanted > Cap
  BY <1>1
<1>3. QED
  BY <1>1, <1>2 DEF Wanted

LEMMA WantedNat == StreamInv => Wanted \in Nat
<1>1. ASSUME StreamInv PROVE Wanted \in Nat
  <2>1. /\ IvSize \in 1..Cap /\ HeadSize \in 1..Cap /\ m_body_size \in Nat
        /\ TagSize \in Nat \ {0}
    BY <1>1, StepTypes
  <2>2. m_body_size + TagSize \in Nat
    BY <2>1
  <2>3. QED
    BY <2>1, <2>2 DEF Wanted
<1>2. QED
  BY <1>1

\* Within a message that is longer than the buffer, that message was sent.
LEMMA LongWasSent ==
  ASSUME StreamInv, ~failed, m_body_size + TagSize > Cap
  PROVE  \E k \in DOMAIN sent : sent[k].len = m_body_size
<1>1. PICK u \in Nat : InStep(u)
  BY DEF StreamInv, Orderly
<1>2. m_body_size # 0
  <2>1. HeadSize \in 1..Cap /\ HeadSize = LenSize + TagSize /\ LenSize \in Nat \ {0}
        /\ TagSize \in Nat \ {0} /\ m_body_size \in Nat /\ Cap \in Nat
    BY StepTypes
  <2>2. QED
    BY <2>1
<1>3. Within(u, Len(delivered))
  BY <1>1, <1>2 DEF InStep, Between, Astray
<1>4. QED
  BY <1>3, StepTypes DEF Within, Out

FaultInv == StreamInv /\ (fault # "none" => m_body_size + TagSize > Cap)

(* The assert of append fails, or append or poll leave the array, only     *)
(* while recv waits for a record that is longer than the read buffer, and  *)
(* up to the first error that is one of a message that was sent: the parts *)
(* of records that read never takes off its buffer fit in with every       *)
(* shorter record that is read after them.                                 *)
THEOREM FaultsOnlyForLong == Spec => []FaultsNeedLong
<1>1. Init => FaultInv
  BY InitIsStream DEF FaultInv, Init
<1>2. FaultInv /\ StreamInv' /\ [Next]_vars => FaultInv'
  <2> SUFFICES ASSUME FaultInv, StreamInv', [Next]_vars, fault' # "none"
               PROVE  m_body_size' + TagSize > Cap
    BY DEF FaultInv
  <2>1. CASE fault # "none"
    <3>1. m_body_size' = m_body_size
      BY <2>1 DEF Next, Send, vars, receiver
    <3>2. QED
      BY <2>1, <3>1 DEF FaultInv
  <2>2. CASE fault = "none"
    <3>1. m_body_size' = m_body_size /\ (RecvPart \/ RecvOverrun)
      BY <2>2 DEF Next, Send, vars, receiver, RecvPart, RecvOverrun, RecvIv, RecvHead, RecvBody
    <3>2. StreamInv /\ Wanted \in Nat /\ m_read_buffer \in Holds(Known)
      BY WantedNat DEF FaultInv, StreamInv
    <3>3. ~(Wanted \in 0..Cap)
      <4>1. SUFFICES ASSUME Wanted \in 0..Cap PROVE FALSE
        OBVIOUS
      <4>2. /\ HasBytes(m_read_buffer, Wanted) => ~PollOverruns(m_read_buffer, Wanted)
            /\ ~HasBytes(m_read_buffer, Wanted) =>
                 Size(m_read_buffer) \in Int /\ Size(m_read_buffer) < Wanted
            /\ \A k \in Nat : ~HasBytes(m_read_buffer, Wanted) /\ k < Wanted - Size(m_read_buffer) =>
                 HasRoom(m_read_buffer, k) /\ ~AppendOverruns(m_read_buffer, k)
        BY <3>2, <4>1, RecordFits
      <4>3. CASE RecvOverrun
        <5>1. FromBuffer(Wanted) = Wanted /\ PollOverruns(m_read_buffer, Wanted)
          BY <4>3 DEF RecvOverrun
        <5>2. QED
          BY <4>2, <5>1, <3>2 DEF FromBuffer
      <4>4. CASE RecvPart
        <5>1. PICK k \in 1..Len(wire) : ReadPart(Wanted, k)
          BY <4>4 DEF RecvPart
        <5>2. k \in Nat /\ k > 0
          OBVIOUS
        <5>3. k < Wanted - FromBuffer(Wanted)
          BY <5>1 DEF ReadPart
        <5>4. ~HasBytes(m_read_buffer, Wanted)
          BY <3>2, <5>2, <5>3 DEF FromBuffer
        <5>5. HasRoom(m_read_buffer, k) /\ ~AppendOverruns(m_read_buffer, k)
          BY <4>2, <5>2, <5>3, <5>4 DEF FromBuffer
        <5>6. QED
          BY <5>1, <5>5, <2>2 DEF ReadPart
      <4>5. QED
        BY <3>1, <4>3, <4>4
    <3>4. QED
      BY <3>1, <3>2, <3>3, LongIsBody
  <2>3. QED
    BY <2>1, <2>2
<1>3. FaultInv => FaultsNeedLong
  BY LongWasSent DEF FaultInv, FaultsNeedLong, StreamInv
<1>4. QED
  BY <1>1, <1>2, <1>3, StreamInvariant, PTL DEF Spec

-----------------------------------------------------------------------------
(* The stream as records *)

\* The bytes of message k.
Whole(k) == HeadSize + sent[k].len + TagSize

\* w is made of the messages from n + 1 on, of the first of which it need not
\* hold the length: message k begins after byte start[k].
Cut(start, n, w) ==
  /\ start \in [(n + 1)..(Len(sent) + 1) -> Int]
  /\ start[n + 1] >= -HeadSize
  /\ start[Len(sent) + 1] = Len(w)
  /\ \A k \in (n + 1)..Len(sent) : start[k + 1] = start[k] + Whole(k)
  /\ \A k, j \in (n + 1)..(Len(sent) + 1) : k < j => start[k] + Whole(k) <= start[j]
  /\ \A k \in (n + 1)..Len(sent) : \A i \in 1..HeadSize :
       start[k] + i >= 1 => w[start[k] + i] = [id |-> Id(k, "head"), at |-> i]
  /\ \A k \in (n + 1)..Len(sent) : \A i \in 1..(sent[k].len + TagSize) :
       w[start[k] + HeadSize + i] = [id |-> Id(k, "body"), at |-> i]

\* The bytes of two sequences, one after the other.
LEMMA ConcatBytes ==
  ASSUME NEW S, NEW s \in Seq(S), NEW t \in Seq(S)
  PROVE  /\ s \o t \in Seq(S) /\ Len(s \o t) = Len(s) + Len(t)
         /\ Len(s) \in Nat /\ Len(t) \in Nat
         /\ \A i \in 1..Len(s) : (s \o t)[i] = s[i]
         /\ \A i \in 1..Len(t) : (s \o t)[Len(s) + i] = t[i]
<1> DEFINE a == Len(s)
           b == Len(t)
<1>1. a \in Nat /\ b \in Nat
  BY LenProperties
<1>2. /\ s \o t \in Seq(S) /\ Len(s \o t) = a + b
      /\ \A i \in 1..(a + b) : (s \o t)[i] = IF i <= a THEN s[i] ELSE t[i - a]
  BY ConcatProperties
<1> HIDE DEF a, b
<1>3. \A i \in 1..a : i \in 1..(a + b) /\ i <= a
  BY <1>1
<1>4. \A i \in 1..b : a + i \in 1..(a + b) /\ ~(a + i <= a) /\ (a + i) - a = i
  BY <1>1
<1>5. \A i \in 1..a : (s \o t)[i] = s[i]
  BY <1>2, <1>3
<1>6. \A i \in 1..b : (s \o t)[a + i] = t[i]
  BY <1>2, <1>4
<1>7. QED
  BY <1>1, <1>2, <1>5, <1>6 DEF a, b

\* What is cut off in front.
LEMMA TakeCut ==
  ASSUME StreamInv, NEW w \in Seq(Written), NEW z \in 0..Len(w), NEW n \in Nat, NEW m \in {n, n + 1},
         NEW L \in Nat, L = Len(sent), m <= L, NEW start, Cut(start, n, w),
         start[m + 1] - z >= -HeadSize
  PROVE  Cut([k \in (m + 1)..(L + 1) |-> start[k] - z], m, SubSeq(w, z + 1, Len(w)))
<1> DEFINE s2 == [k \in (m + 1)..(L + 1) |-> start[k] - z]
<1>1. PICK N \in Nat : N = Len(w)
  BY LenProperties
<1>2. PICK v : v = SubSeq(w, z + 1, Len(w))
  OBVIOUS
<1>3. Len(v) = N - z /\ \A i \in 1..(N - z) : v[i] = w[z + i]
  BY <1>1, <1>2, LastPart
<1>4. z \in 0..N /\ HeadSize \in Nat /\ TagSize \in Nat
  <2>1. HeadSize \in 1..Cap /\ TagSize \in Nat \ {0}
    BY StepTypes
  <2>2. QED
    BY <1>1, <2>1
<1>5. \A k \in (m + 1)..(L + 1) : k \in (n + 1)..(L + 1)
  OBVIOUS
<1>6. \A k \in (m + 1)..L : k \in (n + 1)..L /\ k \in (m + 1)..(L + 1) /\ k + 1 \in (m + 1)..(L + 1)
  OBVIOUS
<1>7. /\ start \in [(n + 1)..(L + 1) -> Int] /\ start[L + 1] = N
      /\ \A k \in (n + 1)..L : start[k + 1] = start[k] + Whole(k)
      /\ \A k, j \in (n + 1)..(L + 1) : k < j => start[k] + Whole(k) <= start[j]
  BY <1>1 DEF Cut
<1>8. \A k \in (n + 1)..L : sent[k].len \in Nat /\ Whole(k) \in Nat /\ HeadSize <= Whole(k)
                            /\ HeadSize + (sent[k].len + TagSize) = Whole(k)
  <2>1. ASSUME NEW k \in (n + 1)..L PROVE sent[k].len \in Nat
    <3>1. k \in 1..Len(sent)
      OBVIOUS
    <3>2. QED
      BY <3>1, StepTypes
  <2>2. ASSUME NEW x \in Nat PROVE /\ HeadSize + x + TagSize \in Nat /\ HeadSize <= HeadSize + x + TagSize
                                   /\ HeadSize + (x + TagSize) = HeadSize + x + TagSize
    BY <1>4
  <2>3. QED
    BY <2>1, <2>2 DEF Whole
<1>9. /\ \A k \in (m + 1)..(L + 1) : s2[k] = start[k] - z /\ start[k] \in Int
      /\ s2 \in [(m + 1)..(L + 1) -> Int]
  <2>1. \A k \in (m + 1)..(L + 1) : start[k] \in Int
    BY <1>5, <1>7
  <2>2. QED
    BY <2>1, <1>4
<1> HIDE DEF s2
<1>10. m + 1 \in (m + 1)..(L + 1) /\ L + 1 \in (m + 1)..(L + 1)
  OBVIOUS
<1>11. s2[m + 1] >= -HeadSize /\ s2[L + 1] = N - z
  BY <1>7, <1>9, <1>10
<1>12. ASSUME NEW k \in (m + 1)..L PROVE s2[k + 1] = s2[k] + Whole(k)
  <2>1. start[k + 1] = start[k] + Whole(k) /\ Whole(k) \in Nat
    BY <1>6, <1>7, <1>8
  <2>2. s2[k + 1] = start[k + 1] - z /\ s2[k] = start[k] - z /\ start[k] \in Int
    BY <1>6, <1>9
  <2>3. QED
    BY <2>1, <2>2, <1>4
<1>13. ASSUME NEW k \in (m + 1)..(L + 1), NEW j \in (m + 1)..(L + 1), k < j
       PROVE  s2[k] + Whole(k) <= s2[j]
  <2>1. start[k] + Whole(k) <= start[j] /\ k \in (n + 1)..L
    BY <1>5, <1>7, <1>13
  <2>2. Whole(k) \in Nat
    BY <2>1, <1>8
  <2>3. s2[k] = start[k] - z /\ start[k] \in Int /\ s2[j] = start[j] - z /\ start[j] \in Int
    BY <1>9
  <2>4. PICK a \in Int, b \in Int, c \in Nat : a = start[k] /\ b = start[j] /\ c = Whole(k)
    BY <2>2, <2>3
  <2>5. a + c <= b /\ z \in Int
    BY <2>1, <2>4, <1>1, <1>4
  <2>6. (a - z) + c <= b - z
    BY <2>5
  <2>7. QED
    BY <2>3, <2>4, <2>6
<1>14. ASSUME NEW k \in (m + 1)..L
       PROVE  /\ s2[k] = start[k] - z /\ start[k] \in Int /\ k \in (n + 1)..L
              /\ start[k] + Whole(k) <= N /\ s2[k] >= -HeadSize
  <2>1. start[k] + Whole(k) <= N
    <3>1. k \in (n + 1)..(L + 1) /\ L + 1 \in (n + 1)..(L + 1) /\ k < L + 1
      OBVIOUS
    <3>2. QED
      BY <3>1, <1>7
  <2>2. s2[k] >= -HeadSize
    <3>1. CASE k = m + 1
      BY <3>1, <1>11
    <3>2. CASE k # m + 1
      <4>1. m + 1 < k /\ k \in (m + 1)..(L + 1) /\ m + 1 \in (n + 1)..L /\ m + 1 \in (m + 1)..(L + 1)
        BY <3>2
      <4>2. s2[m + 1] + Whole(m + 1) <= s2[k] /\ Whole(m + 1) \in Nat
        BY <4>1, <1>8, <1>13
      <4>3. s2[m + 1] \in Int /\ s2[k] \in Int
        BY <4>1, <1>9
      <4>4. QED
        BY <4>2, <4>3, <1>4, <1>11
    <3>3. QED
      BY <3>1, <3>2
  <2>3. QED
    BY <2>1, <2>2, <1>6, <1>9
<1>15. ASSUME NEW k \in (m + 1)..L, NEW i \in 1..HeadSize, s2[k] + i >= 1
       PROVE  v[s2[k] + i] = [id |-> Id(k, "head"), at |-> i]
  <2>1. PICK a \in Int : a = start[k]
    BY <1>14
  <2>2. s2[k] = a - z /\ a + Whole(k) <= N /\ k \in (n + 1)..L /\ Whole(k) \in Nat /\ HeadSize <= Whole(k)
    BY <2>1, <1>8, <1>14
  <2>3. (a - z) + i \in 1..(N - z) /\ z + ((a - z) + i) = a + i /\ a + i >= 1
    BY <2>2, <1>4, <1>15
  <2>4. w[a + i] = [id |-> Id(k, "head"), at |-> i]
    BY <2>1, <2>2, <2>3 DEF Cut
  <2>5. QED
    BY <2>2, <2>3, <2>4, <1>3
<1>16. ASSUME NEW k \in (m + 1)..L, NEW i \in 1..(sent[k].len + TagSize)
       PROVE  v[s2[k] + HeadSize + i] = [id |-> Id(k, "body"), at |-> i]
  <2>1. PICK a \in Int : a = start[k]
    BY <1>14
  <2>2. PICK x \in Nat : x = sent[k].len
    BY <1>8, <1>14
  <2>3. /\ s2[k] = a - z /\ a + Whole(k) <= N /\ k \in (n + 1)..L /\ a - z >= -HeadSize
        /\ HeadSize + (x + TagSize) = Whole(k) /\ i \in 1..(x + TagSize)
    BY <2>1, <2>2, <1>8, <1>14
  <2>4. (a - z) + HeadSize + i \in 1..(N - z) /\ z + ((a - z) + HeadSize + i) = a + HeadSize + i
    BY <2>3, <1>4
  <2>5. w[a + HeadSize + i] = [id |-> Id(k, "body"), at |-> i]
    BY <2>1, <2>3, <1>16 DEF Cut
  <2>6. QED
    BY <2>3, <2>4, <2>5, <1>3
<1>17. Cut(s2, m, v)
  BY <1>3, <1>9, <1>11, <1>12, <1>13, <1>15, <1>16 DEF Cut
<1>18. QED
  BY <1>2, <1>17 DEF s2

\* Every message lies in w, but for the length of the first.
LEMMA CutBounds ==
  ASSUME StreamInv, NEW w \in Seq(Written), NEW n \in Nat, NEW L \in Nat, L = Len(sent),
         NEW start, Cut(start, n, w), NEW k \in (n + 1)..L
  PROVE  /\ start[k] \in Int /\ start[k] >= -HeadSize /\ start[k] + Whole(k) <= Len(w)
         /\ sent[k].len \in Nat /\ Whole(k) \in Nat /\ HeadSize <= Whole(k)
         /\ HeadSize + (sent[k].len + TagSize) = Whole(k)
<1>1. /\ start \in [(n + 1)..(L + 1) -> Int] /\ start[L + 1] = Len(w) /\ start[n + 1] >= -HeadSize
      /\ \A i, j \in (n + 1)..(L + 1) : i < j => start[i] + Whole(i) <= start[j]
  BY DEF Cut
<1>2. \A i \in (n + 1)..L : sent[i].len \in Nat /\ Whole(i) \in Nat /\ HeadSize <= Whole(i)
                            /\ HeadSize + (sent[i].len + TagSize) = Whole(i)
  <2>1. ASSUME NEW i \in (n + 1)..L PROVE sent[i].len \in Nat
    <3>1. i \in 1..Len(sent)
      OBVIOUS
    <3>2. QED
      BY <3>1, StepTypes
  <2>2. ASSUME NEW x \in Nat PROVE /\ HeadSize + x + TagSize \in Nat /\ HeadSize <= HeadSize + x + TagSize
                                   /\ HeadSize + (x + TagSize) = HeadSize + x + TagSize
    <3>1. HeadSize \in 1..Cap /\ TagSize \in Nat \ {0}
      BY StepTypes
    <3>2. QED
      BY <3>1
  <2>3. QED
    BY <2>1, <2>2 DEF Whole
<1>3. /\ k \in (n + 1)..(L + 1) /\ L + 1 \in (n + 1)..(L + 1) /\ n + 1 \in (n + 1)..(L + 1)
      /\ n + 1 \in (n + 1)..L /\ k < L + 1 /\ (k = n + 1 \/ n + 1 < k)
  OBVIOUS
<1>4. start[k] \in Int /\ start[n + 1] \in Int
  BY <1>1, <1>3
<1>5. start[k] + Whole(k) <= Len(w)
  BY <1>1, <1>3
<1>6. start[k] >= -HeadSize
  <2>1. CASE k = n + 1
    BY <1>1, <2>1
  <2>2. CASE n + 1 < k
    <3>1. PICK a \in Int, b \in Int, c \in Nat : a = start[n + 1] /\ b = start[k] /\ c = Whole(n + 1)
      BY <1>2, <1>3, <1>4
    <3>2. a + c <= b /\ a >= -HeadSize /\ HeadSize \in 1..Cap
      BY <1>1, <1>3, <2>2, <3>1, StepTypes
    <3>3. b >= -HeadSize
      BY <3>2
    <3>4. QED
      BY <3>1, <3>3
  <2>3. QED
    BY <1>3, <2>1, <2>2
<1>7. QED
  BY <1>2, <1>4, <1>5, <1>6

\* The stream and its cuts after message L + 1.
WithMessage(w, L, len) ==
  w \o Bytes(Id(L + 1, "head"), HeadSize) \o Bytes(Id(L + 1, "body"), len + TagSize)

WithStart(start, n, L, end) ==
  [k \in (n + 1)..(L + 2) |-> IF k = L + 2 THEN end ELSE start[k]]

\* What a call of send puts at the end.
EndsWith(v, N, L, len, w) ==
  /\ \A i \in 1..N : v[i] = w[i]
  /\ \A i \in 1..HeadSize : v[N + i] = [id |-> Id(L + 1, "head"), at |-> i]
  /\ \A i \in 1..(len + TagSize) : v[N + HeadSize + i] = [id |-> Id(L + 1, "body"), at |-> i]

LEMMA MessageBytes ==
  ASSUME StreamInv, NEW len \in Lengths, NEW w \in Seq(Written), NEW N, N = Len(w),
         NEW L \in Nat, L < MaxMessages, NEW w2, w2 = WithMessage(w, L, len)
  PROVE  /\ N \in Nat /\ HeadSize \in Nat /\ TagSize \in Nat /\ len \in Nat /\ len + TagSize \in Nat
         /\ Len(w2) = N + (HeadSize + len + TagSize) /\ Len(w2) \in Nat /\ w2 # <<>>
         /\ EndsWith(w2, N, L, len, w)
<1>1. N \in Nat /\ N = Len(w)
  BY LenProperties
<1>2. HeadSize \in Nat /\ TagSize \in Nat /\ len \in Nat /\ len + TagSize \in Nat
  <2>1. HeadSize \in 1..Cap /\ TagSize \in Nat \ {0} /\ len \in Nat
    BY StepTypes
  <2>2. QED
    BY <2>1
<1>3. PICK hd, bd : /\ hd = Bytes(Id(L + 1, "head"), HeadSize)
                    /\ bd = Bytes(Id(L + 1, "body"), len + TagSize)
  OBVIOUS
<1>4. /\ hd \in Seq(Written) /\ Len(hd) = HeadSize
      /\ bd \in Seq(Written) /\ Len(bd) = len + TagSize
      /\ \A i \in 1..HeadSize : hd[i] = [id |-> Id(L + 1, "head"), at |-> i]
      /\ \A i \in 1..(len + TagSize) : bd[i] = [id |-> Id(L + 1, "body"), at |-> i]
  <2>1. Id(L + 1, "head") \in RecordId /\ Id(L + 1, "body") \in RecordId
    <3>1. L + 1 \in 0..MaxMessages
      BY StcpAssumption
    <3>2. QED
      BY <3>1 DEF Id, RecordId
  <2>2. /\ hd \in [1..HeadSize -> Written]
        /\ bd \in [1..(len + TagSize) -> Written]
    BY <1>3, <2>1 DEF Bytes, Written
  <2>3. /\ hd \in Seq(Written) /\ Len(hd) = HeadSize
        /\ bd \in Seq(Written) /\ Len(bd) = len + TagSize
    BY <1>2, <2>2, SeqOfFunction
  <2>4. QED
    BY <1>3, <2>3 DEF Bytes
<1>5. PICK w1 : w1 = w \o hd
  OBVIOUS
<1>6. /\ w1 \in Seq(Written) /\ Len(w1) = N + HeadSize
      /\ \A i \in 1..N : w1[i] = w[i]
      /\ \A i \in 1..HeadSize : w1[N + i] = hd[i]
  <2>1. w \in Seq(Written) /\ hd \in Seq(Written)
    BY <1>4
  <2>2. /\ w \o hd \in Seq(Written) /\ Len(w \o hd) = Len(w) + Len(hd)
        /\ \A i \in 1..Len(w) : (w \o hd)[i] = w[i]
        /\ \A i \in 1..Len(hd) : (w \o hd)[Len(w) + i] = hd[i]
    BY <2>1, ConcatBytes
  <2>3. QED
    BY <2>2, <1>1, <1>4, <1>5
<1>7. w2 = w1 \o bd
  BY <1>3, <1>5 DEF WithMessage
<1>8. /\ Len(w2) = (N + HeadSize) + (len + TagSize)
      /\ \A i \in 1..(N + HeadSize) : w2[i] = w1[i]
      /\ \A i \in 1..(len + TagSize) : w2[(N + HeadSize) + i] = bd[i]
  <2>0. w1 \in Seq(Written) /\ bd \in Seq(Written)
    BY <1>4, <1>6
  <2>1. /\ Len(w1 \o bd) = Len(w1) + Len(bd)
        /\ \A i \in 1..Len(w1) : (w1 \o bd)[i] = w1[i]
        /\ \A i \in 1..Len(bd) : (w1 \o bd)[Len(w1) + i] = bd[i]
    BY <2>0, ConcatBytes
  <2>2. Len(w1) = N + HeadSize /\ Len(bd) = len + TagSize
    BY <1>4, <1>6
  <2>3. QED
    BY <2>1, <2>2, <1>7
<1>9. /\ \A i \in 1..N : i \in 1..(N + HeadSize)
      /\ \A i \in 1..HeadSize : N + i \in 1..(N + HeadSize)
      /\ N + HeadSize + len + TagSize = (N + HeadSize) + (len + TagSize)
      /\ N + HeadSize + len + TagSize = N + (HeadSize + len + TagSize)
  BY <1>1, <1>2
<1>10. /\ \A i \in 1..N : w2[i] = w[i]
       /\ \A i \in 1..HeadSize : w2[N + i] = [id |-> Id(L + 1, "head"), at |-> i]
       /\ \A i \in 1..(len + TagSize) : w2[N + HeadSize + i] = [id |-> Id(L + 1, "body"), at |-> i]
  BY <1>4, <1>6, <1>8, <1>9
<1>11. /\ Len(w2) = N + (HeadSize + len + TagSize) /\ Len(w2) \in Nat /\ w2 # <<>>
  <2>1. Len(w2) = N + (HeadSize + len + TagSize)
    BY <1>8, <1>9
  <2>2. HeadSize \in 1..Cap
    BY StepTypes
  <2>3. N + (HeadSize + len + TagSize) \in Nat \ {0}
    BY <2>2, <1>1, <1>2
  <2>4. Len(<<>>) = 0
    BY EmptySeq
  <2>5. QED
    BY <2>1, <2>3, <2>4
<1>12. EndsWith(w2, N, L, len, w)
  BY <1>10 DEF EndsWith
<1>13. QED
  BY <1>1, <1>2, <1>11, <1>12

LEMMA AppendCut ==
  ASSUME StreamInv, NEW len \in Lengths, Sealing(len, 2), NEW w \in Seq(Written), NEW n \in Nat,
         NEW L \in Nat, L = Len(sent), L < MaxMessages, n <= L, NEW start, Cut(start, n, w),
         NEW w2, w2 = WithMessage(w, L, len),
         NEW s2, s2 = WithStart(start, n, L, Len(w) + HeadSize + len + TagSize)
  PROVE  Cut(s2, n, w2)'
<1>1. PICK N \in Nat : N = Len(w)
  BY LenProperties
<1>2. HeadSize \in Nat /\ TagSize \in Nat /\ len \in Nat /\ len + TagSize \in Nat
  BY <1>1, MessageBytes
<1>8. Len(w2) = N + (HeadSize + len + TagSize)
  BY <1>1, MessageBytes
<1>9. N + HeadSize + len + TagSize = N + (HeadSize + len + TagSize)
  BY <1>1, <1>2
<1>10. /\ \A i \in 1..N : w2[i] = w[i]
       /\ \A i \in 1..HeadSize : w2[N + i] = [id |-> Id(L + 1, "head"), at |-> i]
       /\ \A i \in 1..(len + TagSize) : w2[N + HeadSize + i] = [id |-> Id(L + 1, "body"), at |-> i]
  <2>1. EndsWith(w2, N, L, len, w)
    BY <1>1, MessageBytes
  <2>2. QED
    BY <2>1 DEF EndsWith
<1>11. /\ Len(sent)' = L + 1
       /\ \A k \in 1..L : sent'[k] = sent[k]
       /\ sent'[L + 1].len = len
  <2>1. /\ sent \in Seq([len : Lengths, iv : Nat]) /\ m_enc_iv \in Nat
    BY DEF StreamInv, TypeOK
  <2>2. [len |-> len, iv |-> m_enc_iv] \in [len : Lengths, iv : Nat]
    BY <2>1
  <2>3. sent' = Append(sent, [len |-> len, iv |-> m_enc_iv])
    BY DEF Sealing
  <2>4. QED
    BY <2>1, <2>2, <2>3, AppendProperties
<1>12. /\ \A k \in (n + 1)..L : Whole(k)' = Whole(k) /\ sent'[k] = sent[k]
       /\ Whole(L + 1)' = HeadSize + len + TagSize
  <2>1. \A k \in (n + 1)..L : k \in 1..L
    OBVIOUS
  <2>2. PICK m : m = L + 1
    OBVIOUS
  <2>3. Whole(m)' = HeadSize + len + TagSize
    BY <2>2, <1>11 DEF Whole
  <2>4. QED
    BY <2>1, <2>2, <2>3, <1>11 DEF Whole
<1>13. /\ start \in [(n + 1)..(L + 1) -> Int] /\ start[L + 1] = N /\ start[n + 1] >= -HeadSize
       /\ \A k \in (n + 1)..L : start[k + 1] = start[k] + Whole(k)
       /\ \A k, j \in (n + 1)..(L + 1) : k < j => start[k] + Whole(k) <= start[j]
  BY <1>1 DEF Cut
<1>14. /\ s2 \in [(n + 1)..(L + 2) -> Int]
       /\ \A k \in (n + 1)..(L + 1) : s2[k] = start[k]
       /\ s2[L + 2] = N + (HeadSize + len + TagSize)
  <2>1. Len(w) + HeadSize + len + TagSize = N + (HeadSize + len + TagSize)
    BY <1>1, <1>9
  <2>2. \A k \in (n + 1)..(L + 1) : k \in (n + 1)..(L + 2) /\ k # L + 2
    OBVIOUS
  <2>3. \A k \in (n + 1)..(L + 2) : k = L + 2 \/ k \in (n + 1)..(L + 1)
    OBVIOUS
  <2>4. N + (HeadSize + len + TagSize) \in Int /\ L + 2 \in (n + 1)..(L + 2)
    BY <1>1, <1>2
  <2>5. QED
    BY <2>1, <2>2, <2>3, <2>4, <1>13 DEF WithStart
<1>0. \A k \in (n + 1)..(L + 1) : k # L + 1 => k \in (n + 1)..L
  OBVIOUS
<1>15. PICK whole \in Nat : whole = HeadSize + len + TagSize
  BY <1>2
<1>16. s2[n + 1] >= -HeadSize /\ s2[L + 2] = Len(w2)
  <2>1. n + 1 \in (n + 1)..(L + 1)
    OBVIOUS
  <2>2. QED
    BY <2>1, <1>8, <1>13, <1>14
<1>17. ASSUME NEW k \in (n + 1)..(L + 1) PROVE s2[k + 1] = s2[k] + Whole(k)'
  <2>1. CASE k = L + 1
    <3>1. k + 1 = L + 2
      BY <2>1
    <3>2. s2[k + 1] = N + whole /\ s2[k] = N
      BY <2>1, <3>1, <1>13, <1>14, <1>15
    <3>3. Whole(k)' = whole
      BY <2>1, <1>12, <1>15
    <3>4. QED
      BY <3>2, <3>3
  <2>2. CASE k # L + 1
    <3>1. k \in (n + 1)..L /\ k + 1 \in (n + 1)..(L + 1)
      BY <2>2
    <3>2. QED
      BY <3>1, <1>12, <1>13, <1>14
  <2>3. QED
    BY <2>1, <2>2
<1>18. ASSUME NEW k \in (n + 1)..(L + 2), NEW j \in (n + 1)..(L + 2), k < j
       PROVE  s2[k] + Whole(k)' <= s2[j]
  <2>1. k \in (n + 1)..(L + 1) /\ s2[k] = start[k]
    BY <1>14, <1>18
  <2>2. CASE k = L + 1
    <3>1. j = L + 2
      BY <2>2, <1>18
    <3>2. s2[k] = N /\ s2[j] = N + whole /\ Whole(k)' = whole
      BY <2>1, <2>2, <3>1, <1>12, <1>13, <1>14, <1>15
    <3>3. QED
      BY <3>2, <1>1
  <2>3. CASE k # L + 1
    <3>1. k \in (n + 1)..L
      BY <2>1, <2>3, <1>0
    <3>2. Whole(k)' = Whole(k)
      BY <3>1, <1>12
    <3>3. CASE j \in (n + 1)..(L + 1)
      <4>1. start[k] + Whole(k) <= start[j] /\ s2[j] = start[j]
        BY <2>1, <3>3, <1>13, <1>14, <1>18
      <4>2. QED
        BY <4>1, <2>1, <3>2
    <3>4. CASE j = L + 2
      <4>1. start[k] + Whole(k) <= N /\ start[k] \in Int /\ Whole(k) \in Nat
        BY <3>1, <1>1, CutBounds
      <4>2. PICK a \in Int, c \in Nat : a = start[k] /\ c = Whole(k)
        BY <4>1
      <4>3. a + c <= N + whole
        <5>1. a + c <= N
          BY <4>1, <4>2
        <5>2. QED
          BY <5>1, <1>1, <1>15
      <4>4. s2[j] = N + whole
        BY <3>4, <1>14, <1>15
      <4>5. QED
        BY <4>2, <4>3, <4>4, <2>1, <3>2
    <3>5. QED
      BY <3>3, <3>4
  <2>4. QED
    BY <2>2, <2>3
<1>19. ASSUME NEW k \in (n + 1)..(L + 1), NEW i \in 1..HeadSize, s2[k] + i >= 1
       PROVE  w2[s2[k] + i] = [id |-> Id(k, "head"), at |-> i]
  <2>1. CASE k = L + 1
    <3>1. s2[k] = N
      BY <2>1, <1>13, <1>14
    <3>2. QED
      BY <2>1, <3>1, <1>10
  <2>2. CASE k # L + 1
    <3>1. k \in (n + 1)..L
      BY <2>2, <1>0
    <3>2. /\ start[k] + Whole(k) <= N /\ start[k] \in Int /\ Whole(k) \in Nat
          /\ HeadSize <= Whole(k) /\ s2[k] = start[k]
      BY <3>1, <1>1, <1>14, CutBounds
    <3>3. start[k] + i \in 1..N
      <4>1. PICK a \in Int, c \in Nat : a = start[k] /\ c = Whole(k)
        BY <3>2
      <4>2. a + i >= 1 /\ a + c <= N /\ HeadSize <= c
        BY <3>2, <4>1, <1>19
      <4>3. a + i \in 1..N
        BY <4>2, <1>1, <1>2
      <4>4. QED
        BY <4>1, <4>3
    <3>4. w[start[k] + i] = [id |-> Id(k, "head"), at |-> i]
      BY <3>1, <3>2, <1>19 DEF Cut
    <3>5. QED
      BY <3>2, <3>3, <3>4, <1>10
  <2>3. QED
    BY <2>1, <2>2
<1>20. ASSUME NEW k \in (n + 1)..(L + 1), NEW i \in 1..(sent'[k].len + TagSize)
       PROVE  w2[s2[k] + HeadSize + i] = [id |-> Id(k, "body"), at |-> i]
  <2>1. CASE k = L + 1
    <3>1. s2[k] = N /\ i \in 1..(len + TagSize)
      BY <2>1, <1>11, <1>13, <1>14
    <3>2. QED
      BY <2>1, <3>1, <1>10
  <2>2. CASE k # L + 1
    <3>1. k \in (n + 1)..L
      BY <2>2, <1>0
    <3>2. i \in 1..(sent[k].len + TagSize) /\ s2[k] = start[k]
      BY <3>1, <1>12, <1>14, <1>20
    <3>3. PICK a \in Int, c \in Nat, x \in Nat : a = start[k] /\ c = Whole(k) /\ x = sent[k].len
      BY <3>1, CutBounds
    <3>4. a + c <= N /\ a >= -HeadSize /\ HeadSize + (x + TagSize) = c /\ i \in 1..(x + TagSize)
      <4>1. /\ start[k] >= -HeadSize /\ start[k] + Whole(k) <= N
            /\ HeadSize + (sent[k].len + TagSize) = Whole(k)
        BY <3>1, <1>1, CutBounds
      <4>2. QED
        BY <4>1, <3>2, <3>3
    <3>5. a + HeadSize + i \in 1..N
      <4>1. PICK y \in Nat, h \in Nat : y = x + TagSize /\ h = HeadSize
        BY <1>2
      <4>2. h + y = c /\ i \in 1..y /\ a + c <= N /\ a >= -h
        BY <3>4, <4>1
      <4>3. a + h + i \in 1..N
        BY <4>2, <1>1
      <4>4. QED
        BY <4>1, <4>3
    <3>6. w[a + HeadSize + i] = [id |-> Id(k, "body"), at |-> i]
      BY <3>1, <3>2, <3>3 DEF Cut
    <3>7. QED
      BY <3>2, <3>3, <3>5, <3>6, <1>10
  <2>3. QED
    BY <2>1, <2>2
<1>21. Cut(s2, n, w2)'
  <2>1. /\ (L + 1) + 1 = L + 2 /\ Len(sent)' = L + 1
    BY <1>11
  <2>2. QED
    BY <2>1, <1>14, <1>16, <1>17, <1>18, <1>19, <1>20 DEF Cut
<1>22. QED
  BY <1>21

-----------------------------------------------------------------------------
(* Nothing is left over *)

Smooth == ~refused /\ ~fragmented /\ again = 0

\* The receiver holds a part of the record it waits for and no more, from the
\* start of the array on.
Straight ==
  ~fragmented /\ again = 0 => m_read_buffer.front = 0 /\ m_read_buffer.back < Wanted

\* Every call sealed its two records.
Regular ==
  ~refused =>
    /\ m_send_flag = (Len(sent) > 0)
    /\ \A k \in 1..(Len(sent) + 1) : Iv(k) = 2 * (k - 1)

\* Where message n + 1 begins on the stream: after the start value, or here, or
\* its length was read.
Lead(n) ==
  IF ~m_recv_flag THEN (IF Len(sent) = 0 THEN 0 ELSE IvSize)
  ELSE IF m_dec_iv = 2 * n + 1 THEN -HeadSize ELSE 0

\* The stream is the records that recv still has to read, from the next one on.
Lined(n) ==
  /\ ~failed
  /\ m_dec_iv >= 0
  /\ m_recv_flag => Len(sent) > 0
  /\ m_dec_iv = 2 * n + 1 => pc = "body"
  /\ ~m_recv_flag /\ Len(sent) > 0 =>
       \A i \in 1..IvSize : wire[i] = [id |-> Id(0, "iv"), at |-> i]
  /\ \E start : Cut(start, n, wire) /\ start[n + 1] = Lead(n)

DeliverInv ==
  /\ StreamInv
  /\ Straight
  /\ Regular
  /\ Smooth /\ m_read_buffer.back = 0 /\ fault = "none" => Lined(Len(delivered))
  /\ Smooth /\ m_read_buffer.back = 0 /\ fault # "none" => wire # <<>>

LEMMA WantedPositive == StreamInv => Wanted \in Nat \ {0}
<1>1. ASSUME StreamInv PROVE Wanted \in Nat \ {0}
  <2>1. /\ IvSize \in 1..Cap /\ HeadSize \in 1..Cap /\ m_body_size \in Nat
        /\ TagSize \in Nat \ {0} /\ Cap \in Nat
    BY <1>1, StepTypes
  <2>2. m_body_size + TagSize \in Nat \ {0}
    BY <2>1
  <2>3. QED
    BY <2>1, <2>2 DEF Wanted
<1>2. QED
  BY <1>1

LEMMA WantedPositiveNext == StreamInv' => (Wanted \in Nat \ {0})'
  BY WantedPositive, PTL

\* No send was refused, so that the first message opens the connection.
LEMMA InStepZero ==
  ASSUME StreamInv, Regular, ~refused, ~failed
  PROVE  InStep(0)
<1>1. PICK u \in Nat : Opened(u) /\ InStep(u)
  BY DEF StreamInv, Orderly
<1>2. PICK L \in Nat : L = Len(sent)
  BY StepTypes
<1>3. u = 0
  <2>1. SUFFICES ASSUME u # 0 PROVE FALSE
    OBVIOUS
  <2>2. u \in 0..L /\ 2 \in 1..(u + 1) /\ 2 \in 1..(L + 1)
    BY <1>1, <1>2, <2>1 DEF Opened
  <2>3. Iv(2) = 0
    BY <1>1, <2>2 DEF Opened
  <2>4. Iv(2) = 2 * (2 - 1)
    BY <1>2, <2>2 DEF Regular
  <2>5. QED
    BY <2>3, <2>4
<1>4. QED
  BY <1>1, <1>3

\* The bytes of a record, cut off in front.
LEMMA FirstBytes ==
  ASSUME NEW w \in Seq(Written), NEW z \in 0..Len(w), NEW id,
         \A i \in 1..z : w[i] = [id |-> id, at |-> i]
  PROVE  SubSeq(w, 1, z) = Bytes(id, z)
<1>1. /\ SubSeq(w, 1, z) \in Seq(Written) /\ Len(SubSeq(w, 1, z)) = z
      /\ \A i \in 1..z : SubSeq(w, 1, z)[i] = w[i]
  BY FirstPart
<1>2. SubSeq(w, 1, z) \in [1..z -> Written]
  BY <1>1, LenProperties
<1>3. QED
  BY <1>1, <1>2 DEF Bytes

\* The record that recv is to read.
Due(n) ==
  IF ~m_recv_flag THEN Id(0, "iv")
  ELSE IF m_dec_iv = 2 * n + 1 THEN Id(n + 1, "body") ELSE Id(n + 1, "head")

\* It is there whole once a byte of it is.
LEMMA DueIsWhole ==
  ASSUME StreamInv, Regular, Smooth, wire # <<>>, NEW n \in Nat, n = Len(delivered), Lined(n),
         NEW L \in Nat, L = Len(sent), NEW start, Cut(start, n, wire), start[n + 1] = Lead(n)
  PROVE  /\ n + 1 <= L /\ Iv(n + 1) = 2 * n
         /\ Wanted \in 0..Len(wire) /\ SubSeq(wire, 1, Wanted) = Bytes(Due(n), Wanted)
         /\ start[n + 1] - Wanted >= -HeadSize \/ (m_recv_flag /\ Within(0, n))
         /\ ~m_recv_flag => n = 0 /\ Wanted = IvSize
         /\ m_recv_flag => Between(n) \/ Within(0, n)
         /\ m_recv_flag /\ Between(n) => Wanted = HeadSize
         /\ m_recv_flag /\ Within(0, n) => Wanted = sent[n + 1].len + TagSize
<1>1. /\ n <= L /\ Iv(n + 1) = 2 * n
      /\ ~m_recv_flag => n = 0 /\ Between(n)
      /\ Between(n) \/ Within(0, n)
  <2>1. InStep(0) /\ m_dec_iv >= 0
    BY InStepZero DEF Smooth, Lined
  <2>2. /\ 0 + n <= L /\ Iv(0 + n + 1) = 2 * n /\ 0 + n + 1 = n + 1 /\ 0 + n = n
        /\ ~m_recv_flag => n = 0 /\ Between(n)
        /\ Between(n) \/ Within(0, n) \/ Astray(n)
    BY <2>1 DEF InStep
  <2>3. ~Astray(n)
    BY <2>1 DEF Astray
  <2>4. QED
    BY <2>2, <2>3
<1>2. PICK N \in Nat : N = Len(wire)
  BY StepTypes
<1>3. wire \in Seq(Written) /\ N > 0
  <2>1. Told \subseteq Written
    BY StepTypes
  <2>2. wire \in Seq(Written)
    BY <2>1, SeqMonotonic DEF StreamInv
  <2>3. QED
    BY <2>2, <1>2, EmptySeq
<1>4. /\ HeadSize \in Nat \ {0} /\ IvSize \in Nat \ {0} /\ TagSize \in Nat \ {0}
  <2>1. HeadSize \in 1..Cap /\ IvSize \in 1..Cap /\ TagSize \in Nat \ {0}
    BY StepTypes
  <2>2. QED
    BY <2>1
<1>5. n + 1 <= L
  <2>1. SUFFICES ASSUME ~(n + 1 <= L) PROVE FALSE
    OBVIOUS
  <2>2. n = L
    BY <2>1, <1>1
  <2>3. Lead(n) = N
    BY <2>2, <1>2 DEF Cut
  <2>4. Lead(n) <= 0
    <3>1. ~m_recv_flag => L = 0
      BY <2>2, <1>1
    <3>2. QED
      BY <3>1, <1>4 DEF Lead
  <2>5. QED
    BY <2>3, <2>4, <1>3
<1>6. n + 1 \in (n + 1)..L
  BY <1>5
<1>7. PICK x \in Nat : x = sent[n + 1].len
  BY <1>6, CutBounds, <1>3
<1>8. Lead(n) \in Int /\ Lead(n) + (HeadSize + x + TagSize) <= N
  <2>1. Whole(n + 1) = HeadSize + x + TagSize
    BY <1>7 DEF Whole
  <2>2. start[n + 1] \in Int /\ start[n + 1] + Whole(n + 1) <= N
    BY <1>2, <1>3, <1>6, CutBounds
  <2>3. QED
    BY <2>1, <2>2
<1>9. CASE ~m_recv_flag
  <2>1. /\ n = 0 /\ Wanted = IvSize /\ Due(n) = Id(0, "iv") /\ Lead(n) = IvSize
    BY <1>1, <1>5, <1>9 DEF Wanted, Due, Lead
  <2>2. Wanted \in 0..N
    BY <2>1, <1>4, <1>8
  <2>3. \A i \in 1..IvSize : wire[i] = [id |-> Id(0, "iv"), at |-> i]
    BY <1>5, <1>9 DEF Lined
  <2>4. SubSeq(wire, 1, Wanted) = Bytes(Due(n), Wanted)
    BY <2>1, <2>2, <2>3, <1>2, <1>3, FirstBytes
  <2>5. start[n + 1] - Wanted >= -HeadSize
    BY <2>1, <1>4
  <2>6. QED
    BY <2>1, <2>2, <2>4, <2>5, <1>1, <1>2, <1>5, <1>9
<1>10. CASE m_recv_flag /\ Between(n)
  <2>1. /\ Wanted = HeadSize /\ Due(n) = Id(n + 1, "head") /\ Lead(n) = 0
        /\ ~Within(0, n)
    BY <1>10 DEF Wanted, Due, Lead, Between, Within
  <2>2. Wanted \in 0..N
    BY <2>1, <1>4, <1>8
  <2>3. \A i \in 1..HeadSize : wire[i] = [id |-> Id(n + 1, "head"), at |-> i]
    <3>1. \A i \in 1..HeadSize : 0 + i >= 1 /\ 0 + i = i
      BY <1>4
    <3>2. \A i \in 1..HeadSize : start[n + 1] + i >= 1 =>
            wire[start[n + 1] + i] = [id |-> Id(n + 1, "head"), at |-> i]
      BY <1>6 DEF Cut
    <3>3. QED
      BY <3>1, <3>2, <2>1
  <2>4. SubSeq(wire, 1, Wanted) = Bytes(Due(n), Wanted)
    BY <2>1, <2>2, <2>3, <1>2, <1>3, FirstBytes
  <2>5. start[n + 1] - Wanted >= -HeadSize
    BY <2>1, <1>4
  <2>6. QED
    BY <2>1, <2>2, <2>4, <2>5, <1>1, <1>2, <1>5, <1>10
<1>11. CASE m_recv_flag /\ Within(0, n)
  <2>1. /\ m_dec_iv = 2 * n + 1 /\ m_body_size = x /\ pc = "body" /\ ~Between(n)
    <3>1. 0 + n + 1 = n + 1
      OBVIOUS
    <3>2. QED
      BY <3>1, <1>7, <1>11 DEF Within, Lined, Between
  <2>2. Wanted = x + TagSize /\ Due(n) = Id(n + 1, "body") /\ Lead(n) = -HeadSize
    BY <2>1, <1>11 DEF Wanted, Due, Lead
  <2>3. Wanted \in 0..N
    <3>1. PICK y \in Nat : y = x + TagSize
      BY <1>4
    <3>2. HeadSize + x + TagSize = HeadSize + y
      BY <3>1, <1>4
    <3>3. -HeadSize + (HeadSize + y) <= N
      BY <3>2, <2>2, <1>8
    <3>4. QED
      BY <3>1, <3>3, <2>2, <1>4
  <2>4. \A i \in 1..(x + TagSize) : wire[i] = [id |-> Id(n + 1, "body"), at |-> i]
    <3>1. \A i \in 1..(x + TagSize) : -HeadSize + HeadSize + i = i
      BY <1>4
    <3>2. \A i \in 1..(x + TagSize) :
            wire[start[n + 1] + HeadSize + i] = [id |-> Id(n + 1, "body"), at |-> i]
      BY <1>6, <1>7 DEF Cut
    <3>3. QED
      BY <3>1, <3>2, <2>2
  <2>5. SubSeq(wire, 1, Wanted) = Bytes(Due(n), Wanted)
    BY <2>2, <2>3, <2>4, <1>2, <1>3, FirstBytes
  <2>6. QED
    BY <2>1, <2>2, <2>3, <2>5, <1>1, <1>2, <1>5, <1>7, <1>11
<1>12. QED
  BY <1>1, <1>9, <1>10, <1>11

\* How much a straight buffer holds.
LEMMA StraightSize ==
  ASSUME StreamInv, Straight, ~fragmented, again = 0
  PROVE  /\ m_read_buffer.front = 0 /\ m_read_buffer.back \in 0..Cap
         /\ m_read_buffer.back < Wanted
         /\ Size(m_read_buffer) = m_read_buffer.back
         /\ ~HasBytes(m_read_buffer, Wanted) /\ FromBuffer(Wanted) = m_read_buffer.back
<1>1. m_read_buffer.front = 0 /\ m_read_buffer.back < Wanted /\ m_read_buffer \in Holds(Known)
  BY DEF Straight, StreamInv
<1>2. /\ m_read_buffer.back \in 0..Cap
      /\ Size(m_read_buffer) = IF m_read_buffer.back >= m_read_buffer.front
                               THEN m_read_buffer.back - m_read_buffer.front
                               ELSE (Cells - m_read_buffer.front) - m_read_buffer.back
  BY <1>1, BufferNumbers
<1>3. Size(m_read_buffer) = m_read_buffer.back
  BY <1>1, <1>2
<1>4. ~HasBytes(m_read_buffer, Wanted)
  BY <1>1, <1>2, <1>3, WantedPositive DEF HasBytes
<1>5. FromBuffer(Wanted) = m_read_buffer.back
  BY <1>3, <1>4 DEF FromBuffer
<1>6. QED
  BY <1>1, <1>2, <1>3, <1>4, <1>5

\* A record that is read in one piece is the first of the stream.
LEMMA ReadsDue ==
  ASSUME StreamInv, Straight, Read(Wanted), ~fragmented', again' = 0
  PROVE  /\ ~fragmented /\ again = 0
         /\ m_read_buffer.back = 0 /\ m_read_buffer.front = 0 /\ m_read_buffer' = m_read_buffer
         /\ wire # <<>>
         /\ wire' = SubSeq(wire, Wanted + 1, Len(wire))
         /\ \A buf \in Buffers(Wanted) : buf = SubSeq(wire, 1, Wanted)
<1>1. again \in Nat /\ fragmented \in BOOLEAN
  BY StcpAssumption DEF StreamInv, TypeOK
<1>2. Wanted \in Nat \ {0}
  BY WantedPositive
<1>3. ~ReadAgain(Wanted)
  BY <1>1 DEF ReadAgain
<1>4. ~fragmented /\ again = 0
  BY <1>1, <1>3 DEF Read, ReadBuffered, ReadSocket
<1>5. /\ m_read_buffer.front = 0 /\ m_read_buffer.back \in 0..Cap
      /\ m_read_buffer.back < Wanted
      /\ FromBuffer(Wanted) = m_read_buffer.back
  BY <1>4, StraightSize
<1>6. ReadSocket(Wanted)
  BY <1>3, <1>5, <1>2 DEF Read, ReadBuffered
<1>7. m_read_buffer.back = 0 /\ FromBuffer(Wanted) = 0
  <2>1. fragmented' = (fragmented \/ FromBuffer(Wanted) > 0)
    BY <1>6, Zenon DEF ReadSocket
  <2>2. ~(FromBuffer(Wanted) > 0)
    BY <2>1, Zenon
  <2>3. QED
    BY <2>2, <1>5
<1>8. Wanted - FromBuffer(Wanted) = Wanted
  BY <1>2, <1>7
<1>9. /\ m_read_buffer' = m_read_buffer /\ Wanted \in 1..Len(wire)
      /\ wire' = SubSeq(wire, Wanted + 1, Len(wire))
  BY <1>6, <1>7, <1>8 DEF ReadSocket
<1>10. wire # <<>> /\ wire' # wire
  <2>1. wire \in Seq(Told) /\ Len(wire) \in Nat /\ Wanted \in 0..Len(wire)
    BY <1>9, StepTypes DEF StreamInv
  <2>2. Len(wire') = Len(wire) - Wanted
    BY <1>9, <2>1, LastPart
  <2>3. QED
    BY <1>2, <1>9, <2>1, <2>2, EmptySeq
<1>11. ASSUME NEW buf \in Buffers(Wanted) PROVE buf = SubSeq(wire, 1, Wanted)
  <2>1. PICK old \in Leftover(0) : buf = old \o SubSeq(wire, 1, Wanted)
    BY <1>2, <1>7, <1>8, <1>10 DEF Buffers
  <2>2. old = <<>>
    <3>1. [i \in 1..0 |-> Garbage] = <<>>
      <4>1. [i \in 1..0 |-> Garbage] \in [1..0 -> {Garbage}]
        OBVIOUS
      <4>2. [i \in 1..0 |-> Garbage] \in Seq({Garbage}) /\ Len([i \in 1..0 |-> Garbage]) = 0
        BY <4>1, SeqOfFunction
      <4>3. QED
        BY <4>2, EmptySeq
    <3>2. SubSeq(Content(m_read_buffer), 1, 0) = <<>>
      BY SubSeqEmpty
    <3>3. QED
      BY <2>1, <3>1, <3>2 DEF Leftover
  <2>3. SubSeq(wire, 1, Wanted) \in Seq(Told)
    <3>1. wire \in Seq(Told) /\ Wanted \in 0..Len(wire)
      BY <1>9 DEF StreamInv
    <3>2. QED
      BY <3>1, FirstPart
  <2>4. QED
    BY <2>1, <2>2, <2>3, ConcatEmptySeq
<1>12. QED
  BY <1>4, <1>5, <1>7, <1>9, <1>10, <1>11

\* A part that is kept is put behind what is there.
LEMMA PartBehind ==
  ASSUME StreamInv, Straight, ~fragmented, again = 0, NEW k \in 1..Len(wire),
         k < Wanted - FromBuffer(Wanted), HasRoom(m_read_buffer, k), NEW S, NEW d \in Seq(S), Len(d) = k
  PROVE  /\ Appended(m_read_buffer, d).front = 0
         /\ Appended(m_read_buffer, d).back = m_read_buffer.back + k
         /\ m_read_buffer.back + k < Wanted /\ m_read_buffer.back + k > 0
<1> DEFINE b == m_read_buffer.back
           n == Least(k, Cells - b)
           c == Wrap(b + n)
           rest == SubSeq(d, n + 1, k)
<1>1. /\ m_read_buffer.front = 0 /\ b \in 0..Cap /\ b < Wanted
      /\ Size(m_read_buffer) = b /\ FromBuffer(Wanted) = b
      /\ Cap \in Nat /\ Cells = Cap + 1 /\ Wanted \in Nat
  BY StraightSize, StepTypes, WantedPositive DEF Cells
<1>2. Cap - b >= k /\ k < Wanted - b /\ k \in Nat /\ k > 0
  BY <1>1 DEF HasRoom
<1>3. /\ n = (IF k <= Cells - b THEN k ELSE Cells - b)
      /\ c = (IF b + n = Cells THEN 0 ELSE b + n)
  BY DEF Least, Wrap
<1>4. /\ Appended(m_read_buffer, d) =
            [m_read_buffer EXCEPT
               !.cells = Stored(Stored(m_read_buffer.cells, b, SubSeq(d, 1, n)), c, rest),
               !.back = c + Len(rest)]
  BY DEF Appended
<1> HIDE DEF b, n, c
<1>5. n = k /\ c = b + k /\ n + 1 > k /\ b + k < Wanted /\ b + k > 0
  BY <1>1, <1>2, <1>3
<1>6. rest = <<>>
  BY <1>2, <1>5, SubSeqEmpty
<1>7. Len(rest) = 0
  BY <1>6, EmptySeq
<1> HIDE DEF rest
<1>8. /\ Appended(m_read_buffer, d).front = m_read_buffer.front
      /\ Appended(m_read_buffer, d).back = c + Len(rest)
  <2>1. m_read_buffer \in Holds(Known)
    BY DEF StreamInv
  <2>2. QED
    BY <2>1, <1>4 DEF Holds
<1>9. c + Len(rest) = b + k
  BY <1>1, <1>2, <1>5, <1>7
<1>10. QED
  BY <1>1, <1>5, <1>8, <1>9 DEF b

LEMMA StraightStep ==
  ASSUME StreamInv, StreamInv', Straight, [Next]_vars
  PROVE  Straight'
<1> SUFFICES ASSUME ~fragmented', again' = 0
             PROVE  m_read_buffer'.front = 0 /\ m_read_buffer'.back < Wanted'
  BY DEF Straight
<1>1. Wanted \in Nat \ {0} /\ Wanted' \in Nat \ {0}
  BY WantedPositive, WantedPositiveNext
<1>2. ASSUME Read(Wanted) PROVE m_read_buffer'.front = 0 /\ m_read_buffer'.back < Wanted'
  BY <1>1, <1>2, ReadsDue
<1>3. CASE \/ \E len \in Lengths : Send(len)
           \/ UNCHANGED vars
           \/ RecvOverrun
  <2>1. /\ fragmented' = fragmented /\ again' = again /\ m_read_buffer' = m_read_buffer
        /\ m_recv_flag' = m_recv_flag /\ m_body_size' = m_body_size /\ pc' = pc
    BY <1>3 DEF Send, vars, receiver, RecvOverrun
  <2>2. Wanted' = Wanted
    BY <2>1 DEF Wanted
  <2>3. QED
    BY <2>1, <2>2 DEF Straight
<1>4. CASE RecvPart
  <2>1. /\ fragmented' = fragmented /\ again' = again /\ pc' = "idle"
        /\ m_recv_flag' = m_recv_flag /\ m_body_size' = m_body_size
    BY <1>4 DEF RecvPart
  <2>2. Wanted <= Wanted'
    <3>1. HeadSize = LenSize + TagSize /\ LenSize \in Nat \ {0} /\ TagSize \in Nat \ {0}
      BY StepTypes
    <3>2. 0 + TagSize <= HeadSize
      BY <3>1
    <3>3. QED
      BY <1>1, <2>1, <3>2 DEF Wanted
  <2>3. PICK k \in 1..Len(wire) : ReadPart(Wanted, k)
    BY <1>4 DEF RecvPart
  <2>4. m_read_buffer.front = 0 /\ m_read_buffer.back \in 0..Cap /\ m_read_buffer.back < Wanted
    BY <2>1, StraightSize
  <2>5. CASE m_read_buffer' = m_read_buffer
    <3>1. m_read_buffer'.front = 0 /\ m_read_buffer'.back = m_read_buffer.back
      BY <2>4, <2>5
    <3>2. m_read_buffer.back \in Int
      BY <2>4
    <3>3. QED
      BY <3>1, <3>2, <1>1, <2>2, <2>4
  <2>6. CASE m_read_buffer' # m_read_buffer
    <3>1. /\ HasRoom(m_read_buffer, k) /\ k < Wanted - FromBuffer(Wanted)
          /\ m_read_buffer' = Appended(m_read_buffer, SubSeq(wire, 1, k))
      BY <2>3, <2>6 DEF ReadPart
    <3>2. SubSeq(wire, 1, k) \in Seq(Told) /\ Len(SubSeq(wire, 1, k)) = k
      <4>1. wire \in Seq(Told) /\ k \in 0..Len(wire)
        BY DEF StreamInv
      <4>2. QED
        BY <4>1, FirstPart
    <3>3. /\ m_read_buffer'.front = 0 /\ m_read_buffer'.back = m_read_buffer.back + k
          /\ m_read_buffer.back + k < Wanted
      BY <2>1, <3>1, <3>2, PartBehind
    <3>4. m_read_buffer.back + k \in Int
      BY <2>4
    <3>5. QED
      BY <1>1, <2>2, <3>3, <3>4
  <2>7. QED
    BY <2>5, <2>6
<1>5. CASE RecvIv
  BY <1>2, <1>5 DEF RecvIv, Wanted
<1>6. CASE RecvHead
  BY <1>2, <1>6 DEF RecvHead, Wanted
<1>7. CASE RecvBody
  <2>1. Wanted = m_body_size + TagSize /\ Read(m_body_size + TagSize)
    BY <1>7 DEF RecvBody, Wanted
  <2>2. QED
    BY <1>2, <2>1
<1>8. QED
  BY <1>3, <1>4, <1>5, <1>6, <1>7 DEF Next

LEMMA RegularStep ==
  ASSUME StreamInv, Regular, [Next]_vars
  PROVE  Regular'
<1> SUFFICES ASSUME ~refused'
             PROVE  /\ m_send_flag' = (Len(sent)' > 0)
                    /\ \A k \in 1..(Len(sent)' + 1) : Iv(k)' = 2 * (k - 1)
  BY DEF Regular
<1>0. PICK L \in Nat : L = Len(sent)
  BY StepTypes
<1>1. CASE UNCHANGED sender
  <2>1. sent' = sent /\ m_send_flag' = m_send_flag /\ ~refused /\ \A k : Iv(k)' = Iv(k)
    BY <1>1, SenderAlone DEF sender
  <2>2. QED
    BY <2>1 DEF Regular
<1>2. ASSUME NEW len \in Lengths, Send(len) PROVE ~refused /\ SendAll(len)
  <2>1. SendAll(len)
    BY <1>2 DEF Send, SendThrowsAtIv, SendThrowsAtHead, SendThrowsAtBody
  <2>2. QED
    BY <2>1 DEF SendAll
<1>3. ASSUME NEW len \in Lengths, Send(len)
      PROVE  /\ m_send_flag' = (Len(sent)' > 0)
             /\ \A k \in 1..(Len(sent)' + 1) : Iv(k)' = 2 * (k - 1)
  <2>1. SendAll(len) /\ UNCHANGED receiver /\ ~refused
    BY <1>2, <1>3 DEF Send
  <2>2. Sealing(len, 2) /\ m_send_flag' = TRUE
    BY <2>1, NotOpened DEF SendAll, Sealing
  <2>3. /\ Len(sent)' = L + 1
        /\ \A k \in 1..(L + 1) : Iv(k)' = Iv(k)
        /\ Iv(L + 2)' = m_enc_iv + 2
    BY <1>0, <2>2, SealingCounters
  <2>4. \A k \in 1..(L + 1) : Iv(k) = 2 * (k - 1)
    BY <1>0, <2>1 DEF Regular
  <2>5. m_enc_iv = 2 * L
    <3>1. Iv(L + 1) = m_enc_iv
      BY <1>0 DEF Iv
    <3>2. L + 1 \in 1..(L + 1) /\ 2 * ((L + 1) - 1) = 2 * L
      OBVIOUS
    <3>3. QED
      BY <2>4, <3>1, <3>2
  <2>6. ASSUME NEW k \in 1..(L + 2) PROVE Iv(k)' = 2 * (k - 1)
    <3>1. CASE k \in 1..(L + 1)
      BY <3>1, <2>3, <2>4
    <3>2. CASE k = L + 2
      <4>1. 2 * (k - 1) = 2 * L + 2
        BY <3>2
      <4>2. QED
        BY <3>2, <4>1, <2>3, <2>5
    <3>3. QED
      BY <3>1, <3>2
  <2>7. (L + 1) + 1 = L + 2 /\ L + 1 > 0
    OBVIOUS
  <2>8. QED
    BY <2>2, <2>3, <2>6, <2>7
<1>4. CASE fault = "none" /\ (RecvPart \/ RecvOverrun \/ RecvIv \/ RecvHead \/ RecvBody)
  BY <1>1, <1>4 DEF RecvPart, RecvOverrun, RecvIv, RecvHead, RecvBody
<1>5. CASE UNCHANGED vars
  BY <1>1, <1>5 DEF vars
<1>6. QED
  BY <1>3, <1>4, <1>5 DEF Next

\* A call of send puts its message after what is there.
LEMMA LinedSend ==
  ASSUME StreamInv, Regular, NEW len \in Lengths, Send(len), ~refused', ~fragmented, again = 0,
         NEW n \in Nat, n = Len(delivered)
  PROVE  /\ wire' # <<>>
         /\ Lined(n) => Lined(n)'
<1>0. PICK L \in Nat : L = Len(sent)
  BY StepTypes
<1>1. /\ SendAll(len) /\ UNCHANGED receiver /\ ~refused /\ L < MaxMessages
  <2>1. SendAll(len)
    BY DEF Send, SendThrowsAtIv, SendThrowsAtHead, SendThrowsAtBody
  <2>2. QED
    BY <1>0, <2>1 DEF SendAll, Send
<1>2. Sealing(len, 2)
  BY <1>1, NotOpened DEF SendAll, Sealing
<1>3. wire \in Seq(Written)
  <2>1. Told \subseteq Written
    BY StepTypes
  <2>2. QED
    BY <2>1, SeqMonotonic DEF StreamInv
<1>4. PICK w : w = IF m_send_flag THEN wire ELSE wire \o Bytes(Id(0, "iv"), IvSize)
  OBVIOUS
<1>5. IvSize \in Nat /\ HeadSize \in Nat
  BY StcpAssumption DEF HeadSize
<1>6. /\ Bytes(Id(0, "iv"), IvSize) \in Seq(Written) /\ Len(Bytes(Id(0, "iv"), IvSize)) = IvSize
      /\ \A i \in 1..IvSize : Bytes(Id(0, "iv"), IvSize)[i] = [id |-> Id(0, "iv"), at |-> i]
  <2>1. Id(0, "iv") \in RecordId
    <3>1. 0 \in 0..MaxMessages
      BY StcpAssumption
    <3>2. QED
      BY <3>1 DEF Id, RecordId
  <2>2. Bytes(Id(0, "iv"), IvSize) \in [1..IvSize -> Written]
    BY <2>1 DEF Bytes, Written
  <2>3. QED
    BY <1>5, <2>2, SeqOfFunction DEF Bytes
<1>7. w \in Seq(Written)
  <2>1. wire \o Bytes(Id(0, "iv"), IvSize) \in Seq(Written)
    BY <1>3, <1>6, ConcatBytes
  <2>2. QED
    BY <1>3, <1>4, <2>1
<1>8. wire' = WithMessage(w, L, len)
  <2>1. CASE m_send_flag
    <3>1. wire \o <<>> = wire
      BY <1>3, ConcatEmptySeq
    <3>2. QED
      BY <1>0, <1>1, <1>4, <2>1, <3>1 DEF SendAll, WithMessage
  <2>2. CASE ~m_send_flag
    BY <1>0, <1>1, <1>4, <2>2 DEF SendAll, WithMessage
  <2>3. QED
    BY <2>1, <2>2
<1>9. PICK w2 : w2 = wire'
  OBVIOUS
<1>10. PICK N \in Nat : N = Len(w)
  BY <1>7, LenProperties
<1>11. w2 # <<>> /\ EndsWith(w2, N, L, len, w)
  BY <1>1, <1>7, <1>8, <1>9, <1>10, MessageBytes
<1>12. ASSUME Lined(n) PROVE Lined(n)'
  <2>1. PICK start : Cut(start, n, wire) /\ start[n + 1] = Lead(n)
    BY <1>12 DEF Lined
  <2>2. ~failed /\ m_dec_iv >= 0 /\ (m_recv_flag => L > 0) /\ (m_dec_iv = 2 * n + 1 => pc = "body")
    BY <1>0, <1>12 DEF Lined
  <2>3. n <= L /\ (~m_recv_flag => n = 0)
    <3>1. InStep(0)
      BY <1>1, <2>2, InStepZero
    <3>2. 0 + n <= L /\ (~m_recv_flag => n = 0)
      BY <1>0, <3>1 DEF InStep
    <3>3. QED
      BY <3>2
  <2>4. (L > 0 => m_send_flag) /\ (~(L > 0) => ~m_send_flag)
    <3>1. m_send_flag = (L > 0)
      BY <1>0, <1>1 DEF Regular
    <3>2. QED
      BY <3>1, Zenon
  <2>5. Len(sent)' = L + 1 /\ L + 1 > 0 /\ L + 1 # 0
    BY <1>0, <1>2, SealingCounters
  <2>6. UNCHANGED <<m_recv_flag, m_dec_iv, pc, failed>>
    BY <1>1 DEF receiver
  <2>7. PICK first : /\ Cut(first, n, w)
                     /\ first[n + 1] = IF ~m_recv_flag THEN IvSize ELSE Lead(n)
    <3>1. CASE L > 0
      <4>1. w = wire /\ (~m_recv_flag => Lead(n) = IvSize)
        BY <1>0, <1>4, <2>4, <3>1 DEF Lead
      <4>2. QED
        BY <2>1, <4>1
    <3>2. CASE ~(L > 0)
      <4>1. L = 0 /\ n = 0 /\ ~m_recv_flag /\ ~m_send_flag
        BY <2>2, <2>3, <2>4, <3>2
      <4>2. Lead(n) = 0 /\ start[1] = 0 /\ start[1] = Len(wire)
        BY <1>0, <2>1, <4>1 DEF Lead, Cut
      <4>3. Len(w) = IvSize
        <5>1. Len(w) = Len(wire) + Len(Bytes(Id(0, "iv"), IvSize))
          BY <1>3, <1>4, <1>6, <4>1, ConcatBytes
        <5>2. QED
          BY <5>1, <4>2, <1>5, <1>6
      <4>4. PICK f : f = [k \in 1..1 |-> IvSize]
        OBVIOUS
      <4>5. /\ f \in [(0 + 1)..(0 + 1) -> Int] /\ f[0 + 1] = IvSize /\ IvSize >= -HeadSize
            /\ (0 + 1)..0 = {} /\ \A k, j \in (0 + 1)..(0 + 1) : ~(k < j)
        BY <1>5, <4>4
      <4>6. Cut(f, 0, w)
        BY <1>0, <4>1, <4>3, <4>5 DEF Cut
      <4>7. QED
        BY <4>1, <4>5, <4>6
    <3>3. QED
      BY <3>1, <3>2
  <2>8. PICK s2 : s2 = WithStart(first, n, L, Len(w) + HeadSize + len + TagSize)
    OBVIOUS
  <2>9. Cut(s2, n, w2)'
    BY <1>0, <1>1, <1>2, <1>7, <1>8, <1>9, <2>3, <2>7, <2>8, AppendCut
  <2>10. s2[n + 1] = first[n + 1]
    <3>1. n + 1 \in (n + 1)..(L + 2) /\ n + 1 # L + 2
      BY <2>3
    <3>2. QED
      BY <3>1, <2>8 DEF WithStart
  <2>11. Lead(n)' = IF ~m_recv_flag THEN IvSize ELSE Lead(n)
    BY <2>5, <2>6 DEF Lead
  <2>12. ASSUME ~m_recv_flag, NEW i \in 1..IvSize
         PROVE  w2[i] = [id |-> Id(0, "iv"), at |-> i]
    <3>1. i \in 1..N /\ w[i] = [id |-> Id(0, "iv"), at |-> i]
      <4>1. CASE L > 0
        <5>1. w = wire /\ wire[i] = [id |-> Id(0, "iv"), at |-> i]
          BY <1>0, <1>4, <1>12, <2>4, <2>12, <4>1 DEF Lined
        <5>2. n = 0 /\ n + 1 \in (n + 1)..L /\ first[n + 1] = IvSize
          BY <2>3, <2>7, <2>12, <4>1
        <5>3. IvSize + Whole(n + 1) <= N /\ Whole(n + 1) \in Nat
          BY <1>0, <1>7, <1>10, <2>7, <5>2, CutBounds
        <5>4. i \in 1..N
          BY <1>5, <1>10, <5>3
        <5>5. QED
          BY <5>1, <5>4
      <4>2. CASE ~(L > 0)
        <5>1. L = 0 /\ n = 0 /\ ~m_send_flag
          BY <2>2, <2>3, <2>4, <2>12, <4>2
        <5>2. Lead(n) = 0 /\ start[1] = 0 /\ start[1] = Len(wire)
          BY <1>0, <2>1, <2>12, <5>1 DEF Lead, Cut
        <5>3. /\ Len(w) = Len(wire) + Len(Bytes(Id(0, "iv"), IvSize))
              /\ \A j \in 1..IvSize : w[Len(wire) + j] = Bytes(Id(0, "iv"), IvSize)[j]
          BY <1>3, <1>4, <1>6, <5>1, ConcatBytes
        <5>4. Len(wire) + i = i /\ N = IvSize
          BY <1>5, <1>6, <1>10, <5>2, <5>3
        <5>5. QED
          BY <1>6, <5>3, <5>4
      <4>3. QED
        BY <4>1, <4>2
    <3>2. QED
      BY <3>1, <1>11 DEF EndsWith
  <2>13. (Cut(s2, n, wire) /\ s2[n + 1] = Lead(n))'
    BY <1>9, <2>7, <2>9, <2>10, <2>11
  <2>14. QED
    BY <1>9, <2>2, <2>5, <2>6, <2>12, <2>13 DEF Lined
<1>13. QED
  BY <1>9, <1>11, <1>12

\* recv finds the record that it is to read, and the stream begins with the next
\* one after it.
LEMMA LinedRead ==
  ASSUME DeliverInv, fault = "none", ~refused, Read(Wanted), ~fragmented', again' = 0, UNCHANGED sender,
         NEW n \in Nat, n = Len(delivered), NEW L \in Nat, L = Len(sent)
  PROVE  /\ Lined(n) /\ n + 1 <= L /\ Iv(n + 1) = 2 * n
         /\ ~m_recv_flag => n = 0 /\ Wanted = IvSize
         /\ m_recv_flag => Between(n) \/ Within(0, n)
         /\ m_recv_flag /\ Within(0, n) => Wanted = sent[n + 1].len + TagSize
         /\ \A buf \in Buffers(Wanted) : buf = Bytes(Due(n), Wanted)
         /\ \A m \in {n, n + 1} : \A lead \in Int :
              /\ m = n => lead = (IF m_recv_flag THEN -HeadSize ELSE 0) /\ ~(m_recv_flag /\ Within(0, n))
              /\ m = n + 1 => lead = 0 /\ m_recv_flag /\ Within(0, n)
              => (\E start : Cut(start, m, wire) /\ start[m + 1] = lead)'
<1>1. StreamInv /\ Straight /\ Regular
  BY DEF DeliverInv
<1>2. /\ ~fragmented /\ again = 0
      /\ m_read_buffer.back = 0
      /\ wire # <<>>
      /\ wire' = SubSeq(wire, Wanted + 1, Len(wire))
      /\ \A buf \in Buffers(Wanted) : buf = SubSeq(wire, 1, Wanted)
  BY <1>1, ReadsDue
<1>3. Smooth /\ Lined(n)
  BY <1>2 DEF DeliverInv, Smooth
<1>4. PICK start : Cut(start, n, wire) /\ start[n + 1] = Lead(n)
  BY <1>3 DEF Lined
<1>5. /\ n + 1 <= L /\ Iv(n + 1) = 2 * n
      /\ Wanted \in 0..Len(wire) /\ SubSeq(wire, 1, Wanted) = Bytes(Due(n), Wanted)
      /\ ~m_recv_flag => n = 0 /\ Wanted = IvSize
      /\ m_recv_flag => Between(n) \/ Within(0, n)
      /\ m_recv_flag /\ Between(n) => Wanted = HeadSize
      /\ m_recv_flag /\ Within(0, n) => Wanted = sent[n + 1].len + TagSize
  BY <1>1, <1>2, <1>3, <1>4, DueIsWhole
<1>6. \A buf \in Buffers(Wanted) : buf = Bytes(Due(n), Wanted)
  BY <1>2, <1>5
<1>7. wire \in Seq(Written)
  <2>1. Told \subseteq Written
    BY <1>1, StepTypes
  <2>2. QED
    BY <2>1, <1>1, SeqMonotonic DEF StreamInv
<1>8. PICK x \in Nat : x = sent[n + 1].len
  <2>1. n + 1 \in 1..Len(sent)
    BY <1>5
  <2>2. QED
    BY <2>1, <1>1, StepTypes
<1>9. HeadSize \in Nat \ {0} /\ IvSize \in Nat /\ TagSize \in Nat
  <2>1. HeadSize \in 1..Cap /\ IvSize \in 1..Cap /\ TagSize \in Nat \ {0}
    BY <1>1, StepTypes
  <2>2. QED
    BY <2>1
<1>10. PICK w, z : w = wire /\ z = Wanted
  OBVIOUS
<1>11. ASSUME NEW m \in {n, n + 1}, NEW lead \in Int,
              m = n => lead = (IF m_recv_flag THEN -HeadSize ELSE 0) /\ ~(m_recv_flag /\ Within(0, n)),
              m = n + 1 => lead = 0 /\ m_recv_flag /\ Within(0, n)
       PROVE  (\E f : Cut(f, m, wire) /\ f[m + 1] = lead)'
  <2>1. start[m + 1] - z = lead /\ m <= L
    <3>1. CASE m = n + 1
      <4>1. m_recv_flag /\ Within(0, n) /\ lead = 0
        BY <1>11, <3>1
      <4>2. Lead(n) = -HeadSize
        BY <4>1 DEF Lead, Within
      <4>3. n + 1 \in (n + 1)..L
        BY <1>5
      <4>4. start[(n + 1) + 1] = start[n + 1] + Whole(n + 1)
        BY <4>3, <1>4 DEF Cut
      <4>5. start[m + 1] = -HeadSize + (HeadSize + x + TagSize) /\ z = x + TagSize
        BY <4>1, <4>2, <4>4, <3>1, <1>4, <1>5, <1>8, <1>10 DEF Whole
      <4>6. PICK h \in Nat, t \in Nat : h = HeadSize /\ t = TagSize
        BY <1>9
      <4>7. PICK y : y = start[m + 1]
        OBVIOUS
      <4>8. y = -h + (h + x + t) /\ z = x + t
        BY <4>5, <4>6, <4>7
      <4>9. y - z = 0
        BY <4>8, <4>6
      <4>10. m <= L
        BY <3>1, <1>5
      <4>11. QED
        BY <4>1, <4>7, <4>9, <4>10
    <3>2. CASE m = n
      <4>1. lead = (IF m_recv_flag THEN -HeadSize ELSE 0) /\ ~(m_recv_flag /\ Within(0, n))
        BY <1>11, <3>2
      <4>2. CASE m_recv_flag
        <5>1. Between(n) /\ lead = -HeadSize /\ z = HeadSize
          BY <4>1, <4>2, <1>5, <1>10
        <5>2. Lead(n) = 0
          BY <5>1, <4>2 DEF Lead, Between
        <5>3. QED
          BY <5>1, <5>2, <3>2, <1>4, <1>5, <1>9
      <4>3. CASE ~m_recv_flag
        <5>1. lead = 0 /\ z = IvSize /\ L # 0
          BY <4>1, <4>3, <1>5, <1>10
        <5>2. Lead(n) = IvSize
          BY <5>1, <4>3 DEF Lead
        <5>3. QED
          BY <5>1, <5>2, <3>2, <1>4, <1>5, <1>9
      <4>4. QED
        BY <4>2, <4>3
    <3>3. QED
      BY <3>1, <3>2
  <2>2. lead >= -HeadSize
    BY <1>9, <1>11
  <2>3. PICK f : f = [k \in (m + 1)..(L + 1) |-> start[k] - z]
    OBVIOUS
  <2>4. PICK v : v = SubSeq(w, z + 1, Len(w))
    OBVIOUS
  <2>5. Cut(f, m, v)
    <3>1. w \in Seq(Written) /\ z \in 0..Len(w) /\ Cut(start, n, w) /\ start[m + 1] - z >= -HeadSize
      BY <1>4, <1>5, <1>7, <1>10, <2>1, <2>2
    <3>2. QED
      BY <3>1, <2>1, <2>3, <2>4, <1>1, TakeCut
  <2>6. f[m + 1] = lead
    <3>1. m + 1 \in (m + 1)..(L + 1)
      BY <2>1
    <3>2. QED
      BY <3>1, <2>1, <2>3
  <2>7. v = wire'
    BY <2>4, <1>2, <1>10
  <2>8. sent' = sent
    BY DEF sender
  <2>9. Cut(f, m, v)'
    BY <2>5, <2>8 DEF Cut, Whole
  <2>10. QED
    BY <2>6, <2>7, <2>9
<1>12. QED
  BY <1>3, <1>5, <1>6, <1>11

LEMMA LinedIv ==
  ASSUME DeliverInv, StreamInv', fault = "none", ~refused', RecvIv, ~fragmented', again' = 0
  PROVE  Lined(Len(delivered))'
<1>1. PICK n \in Nat, L \in Nat : n = Len(delivered) /\ L = Len(sent)
  BY StepTypes DEF DeliverInv
<1>2. Wanted = IvSize /\ Read(Wanted) /\ UNCHANGED sender /\ ~refused
  BY DEF RecvIv, Wanted, sender
<1>3. /\ Lined(n) /\ n + 1 <= L /\ n = 0
      /\ \A buf \in Buffers(Wanted) : buf = Bytes(Due(n), Wanted)
      /\ \A m \in {n, n + 1} : \A lead \in Int :
           /\ m = n => lead = (IF m_recv_flag THEN -HeadSize ELSE 0) /\ ~(m_recv_flag /\ Within(0, n))
           /\ m = n + 1 => lead = 0 /\ m_recv_flag /\ Within(0, n)
           => (\E start : Cut(start, m, wire) /\ start[m + 1] = lead)'
  BY <1>1, <1>2, LinedRead DEF RecvIv
<1>4. ~m_recv_flag
  BY DEF RecvIv
<1>5. (\E start : Cut(start, n, wire) /\ start[n + 1] = 0)'
  BY <1>3, <1>4
<1>6. m_dec_iv' = 0
  BY <1>2, <1>3, <1>4 DEF RecvIv, Due
<1>7. /\ m_recv_flag' = TRUE /\ pc' = pc /\ failed' = failed /\ delivered' = delivered /\ sent' = sent
  BY DEF RecvIv, sender
<1>8. Lead(n)' = 0 /\ 2 * n + 1 # 0
  BY <1>3, <1>6, <1>7 DEF Lead
<1>9. Lined(n)'
  <2>1. ~failed
    BY <1>3 DEF Lined
  <2>2. Len(sent)' > 0
    BY <1>1, <1>3, <1>7
  <2>3. QED
    BY <2>1, <2>2, <1>5, <1>6, <1>7, <1>8 DEF Lined
<1>10. Len(delivered)' = n
  BY <1>1, <1>7
<1>11. QED
  BY <1>9, <1>10

\* The record that recv reads, opens.
LEMMA DueOpens ==
  ASSUME StreamInv, Aead = "aes_128_gcm", m_recv_flag, NEW n \in Nat, n + 1 <= Len(sent),
         Iv(n + 1) = 2 * n, NEW buf, buf = Bytes(Due(n), Wanted),
         Between(n) \/ (Within(0, n) /\ ~(m_body_size = 0 /\ pc = "idle"))
  PROVE  Due(n) \in Opens(buf)
<1>1. n + 1 \in DOMAIN sent /\ n + 1 \in 1..Len(sent)
  <2>1. DOMAIN sent = 1..Len(sent) /\ Len(sent) \in Nat
    BY StepTypes
  <2>2. QED
    BY <2>1
<1>2. sent[n + 1].iv = 2 * n
  BY <1>1 DEF Iv
<1>3. CASE Between(n)
  <2>1. m_dec_iv = 2 * n /\ Wanted = HeadSize /\ ~(m_dec_iv = 2 * n + 1)
    BY <1>3 DEF Between, Wanted
  <2>2. Due(n) = Id(n + 1, "head")
    BY <2>1 DEF Due
  <2>3. /\ Due(n) \in Sealed
        /\ SizeOf(Due(n)) = HeadSize /\ Nonce(Due(n)) = sent[n + 1].iv
    BY <1>1, <2>2 DEF Sealed, Id, SizeOf, Nonce
  <2>4. QED
    BY <1>2, <2>1, <2>3 DEF Opens, CipherOpens
<1>4. CASE Within(0, n) /\ ~(m_body_size = 0 /\ pc = "idle")
  <2>1. m_dec_iv = 2 * n + 1 /\ m_body_size = sent[n + 1].len /\ Due(n) = Id(n + 1, "body")
    <3>1. 0 + n + 1 = n + 1
      OBVIOUS
    <3>2. QED
      BY <1>4, <3>1 DEF Within, Due
  <2>2. Wanted = m_body_size + TagSize
    BY <1>4 DEF Wanted
  <2>3. /\ Due(n) \in Sealed
        /\ SizeOf(Due(n)) = sent[n + 1].len + TagSize /\ Nonce(Due(n)) = sent[n + 1].iv + 1
    BY <1>1, <2>1 DEF Sealed, Id, SizeOf, Nonce
  <2>4. QED
    BY <1>2, <2>1, <2>2, <2>3 DEF Opens, CipherOpens
<1>5. QED
  BY <1>3, <1>4

LEMMA LinedHead ==
  ASSUME DeliverInv, StreamInv', Aead = "aes_128_gcm", fault = "none", ~refused', RecvHead,
         ~fragmented', again' = 0
  PROVE  Lined(Len(delivered))'
<1>1. PICK n \in Nat, L \in Nat : n = Len(delivered) /\ L = Len(sent)
  BY StepTypes DEF DeliverInv
<1>2. Wanted = HeadSize /\ Read(Wanted) /\ UNCHANGED sender /\ ~refused /\ m_recv_flag
  BY DEF RecvHead, Wanted, sender
<1>3. /\ Lined(n) /\ n + 1 <= L /\ Iv(n + 1) = 2 * n
      /\ Between(n) \/ Within(0, n)
      /\ \A buf \in Buffers(Wanted) : buf = Bytes(Due(n), Wanted)
      /\ \A m \in {n, n + 1} : \A lead \in Int :
           /\ m = n => lead = (IF m_recv_flag THEN -HeadSize ELSE 0) /\ ~(m_recv_flag /\ Within(0, n))
           /\ m = n + 1 => lead = 0 /\ m_recv_flag /\ Within(0, n)
           => (\E start : Cut(start, m, wire) /\ start[m + 1] = lead)'
  BY <1>1, <1>2, LinedRead
<1>4. ~Within(0, n) /\ Between(n)
  <2>1. m_dec_iv # 2 * n + 1
    BY <1>3 DEF Lined, RecvHead
  <2>2. QED
    BY <2>1, <1>3 DEF Within
<1>5. -HeadSize \in Int
  <2>1. HeadSize \in 1..Cap
    BY StepTypes DEF DeliverInv
  <2>2. QED
    BY <2>1
<1>6. (\E start : Cut(start, n, wire) /\ start[n + 1] = -HeadSize)'
  BY <1>2, <1>3, <1>4, <1>5
<1>7. pc' = "body" /\ failed' = failed
  <2>1. PICK buf \in Buffers(Wanted) :
          \/ pc' = "body" /\ UNCHANGED failed
          \/ Opens(buf) = {}
    BY <1>2 DEF RecvHead
  <2>2. buf = Bytes(Due(n), Wanted)
    BY <1>3
  <2>3. Due(n) \in Opens(buf)
    BY <2>2, <1>1, <1>2, <1>3, <1>4, DueOpens DEF DeliverInv
  <2>4. QED
    BY <2>1, <2>3
<1>8. m_dec_iv' = 2 * n + 1
  <2>1. m_dec_iv = 2 * n
    BY <1>4 DEF Between
  <2>2. QED
    BY <2>1 DEF RecvHead, Decrypt
<1>9. m_recv_flag' = m_recv_flag /\ delivered' = delivered /\ sent' = sent
  BY DEF RecvHead, sender
<1>10. Lead(n)' = -HeadSize
  BY <1>2, <1>8, <1>9 DEF Lead
<1>11. Lined(n)'
  <2>1. ~failed
    BY <1>3 DEF Lined
  <2>2. Len(sent)' > 0 /\ 2 * n + 1 >= 0
    BY <1>1, <1>3, <1>9
  <2>3. QED
    BY <2>1, <2>2, <1>2, <1>6, <1>7, <1>8, <1>9, <1>10 DEF Lined
<1>12. Len(delivered)' = n
  BY <1>1, <1>9
<1>13. QED
  BY <1>11, <1>12

LEMMA LinedBody ==
  ASSUME DeliverInv, StreamInv', Aead = "aes_128_gcm", fault = "none", ~refused', RecvBody,
         ~fragmented', again' = 0
  PROVE  Lined(Len(delivered))'
<1>1. PICK n \in Nat, L \in Nat : n = Len(delivered) /\ L = Len(sent)
  BY StepTypes DEF DeliverInv
<1>2. /\ Wanted = m_body_size + TagSize /\ Read(Wanted) /\ UNCHANGED sender
      /\ ~refused /\ m_recv_flag /\ ~(m_body_size = 0 /\ pc = "idle")
  <2>1. ~(m_body_size = 0 /\ pc = "idle")
    BY DEF RecvBody
  <2>2. QED
    BY <2>1 DEF RecvBody, Wanted, sender
<1>3. /\ Lined(n) /\ n + 1 <= L /\ Iv(n + 1) = 2 * n
      /\ Between(n) \/ Within(0, n)
      /\ \A buf \in Buffers(Wanted) : buf = Bytes(Due(n), Wanted)
      /\ \A m \in {n, n + 1} : \A lead \in Int :
           /\ m = n => lead = (IF m_recv_flag THEN -HeadSize ELSE 0) /\ ~(m_recv_flag /\ Within(0, n))
           /\ m = n + 1 => lead = 0 /\ m_recv_flag /\ Within(0, n)
           => (\E start : Cut(start, m, wire) /\ start[m + 1] = lead)'
  BY <1>1, <1>2, LinedRead
<1>4. Within(0, n)
  BY <1>2, <1>3 DEF Between
<1>5. (\E start : Cut(start, n + 1, wire) /\ start[(n + 1) + 1] = 0)'
  BY <1>2, <1>3, <1>4
<1>6. failed' = failed /\ Len(delivered)' = n + 1
  <2>1. PICK buf \in Buffers(Wanted) :
          \/ \E id \in Opens(buf) : delivered' = Append(delivered, id) /\ UNCHANGED failed
          \/ Opens(buf) = {}
    BY <1>2 DEF RecvBody
  <2>2. buf = Bytes(Due(n), Wanted)
    BY <1>3
  <2>3. Due(n) \in Opens(buf)
    BY <2>2, <1>1, <1>2, <1>3, <1>4, DueOpens DEF DeliverInv
  <2>4. PICK id \in Opens(buf) : delivered' = Append(delivered, id) /\ failed' = failed
    BY <2>1, <2>3
  <2>5. delivered \in Seq(RecordId) /\ id \in RecordId
    <3>1. StreamInv /\ Wanted \in Nat
      BY WantedPositive DEF DeliverInv
    <3>2. buf \in Seq(Known) /\ Len(buf) = Wanted
      BY <3>1, <1>2, BuffersHeld
    <3>3. QED
      BY <3>1, <3>2, OpensTold DEF StreamInv, TypeOK
  <2>6. QED
    BY <2>4, <2>5, <1>1, AppendProperties
<1>7. m_dec_iv' = 2 * n + 2
  <2>1. m_dec_iv = 2 * n + 1
    BY <1>4 DEF Within
  <2>2. QED
    BY <2>1 DEF RecvBody, Decrypt
<1>8. m_recv_flag' = m_recv_flag /\ sent' = sent
  BY DEF RecvBody, sender
<1>9. PICK m \in Nat : m = n + 1
  OBVIOUS
<1>10. 2 * n + 2 # 2 * m + 1 /\ 2 * n + 2 >= 0
  BY <1>9
<1>11. Lead(m)' = 0
  BY <1>2, <1>7, <1>8, <1>10 DEF Lead
<1>12. (\E start : Cut(start, m, wire) /\ start[m + 1] = 0)'
  BY <1>5, <1>9
<1>13. Lined(m)'
  <2>1. ~failed
    BY <1>3 DEF Lined
  <2>2. Len(sent)' > 0
    BY <1>1, <1>3, <1>8
  <2>3. QED
    BY <2>1, <2>2, <1>2, <1>6, <1>7, <1>8, <1>10, <1>11, <1>12 DEF Lined
<1>14. Len(delivered)' = m
  BY <1>6, <1>9
<1>15. QED
  BY <1>13, <1>14

\* A part of a record that read does not keep is not all there is on the stream.
LEMMA PartIsFault ==
  ASSUME DeliverInv, fault = "none", ~refused, RecvPart, ~fragmented', again' = 0,
         m_read_buffer'.back = 0
  PROVE  fault' # "none" /\ wire' # <<>>
<1>1. /\ StreamInv /\ Straight /\ Regular
      /\ Smooth /\ m_read_buffer.back = 0 => Lined(Len(delivered))
  BY DEF DeliverInv
<1>2. PICK k \in 1..Len(wire) : ReadPart(Wanted, k)
  BY DEF RecvPart
<1>3. ~fragmented /\ again = 0 /\ Smooth
  BY DEF RecvPart, Smooth
<1>4. PICK N \in Nat : N = Len(wire)
  BY <1>1, StepTypes
<1>5. wire \in Seq(Told) /\ k \in 0..Len(wire)
  BY <1>1, <1>4 DEF StreamInv
<1>6. SubSeq(wire, 1, k) \in Seq(Told) /\ Len(SubSeq(wire, 1, k)) = k
  BY <1>5, FirstPart
<1>7. k < Wanted - FromBuffer(Wanted)
  BY <1>2 DEF ReadPart
<1>8. m_read_buffer' = m_read_buffer /\ fault' # "none"
  <2>1. SUFFICES ASSUME m_read_buffer' = Appended(m_read_buffer, SubSeq(wire, 1, k)),
                        HasRoom(m_read_buffer, k)
                 PROVE  FALSE
    BY <1>2 DEF ReadPart
  <2>2. /\ Appended(m_read_buffer, SubSeq(wire, 1, k)).back = m_read_buffer.back + k
        /\ m_read_buffer.back + k > 0
    BY <1>1, <1>3, <1>6, <1>7, <2>1, PartBehind
  <2>3. QED
    BY <2>1, <2>2
<1>9. m_read_buffer.back = 0 /\ FromBuffer(Wanted) = 0
  <2>1. FromBuffer(Wanted) = m_read_buffer.back
    BY <1>1, <1>3, StraightSize
  <2>2. QED
    BY <2>1, <1>8
<1>10. PICK n \in Nat, L \in Nat : n = Len(delivered) /\ L = Len(sent)
  BY <1>1, StepTypes
<1>11. Lined(n)
  BY <1>1, <1>3, <1>9, <1>10
<1>12. PICK start : Cut(start, n, wire) /\ start[n + 1] = Lead(n)
  BY <1>11 DEF Lined
<1>13. wire # <<>>
  BY <1>4, EmptySeq
<1>14. Wanted \in 0..N
  BY <1>1, <1>3, <1>4, <1>10, <1>11, <1>12, <1>13, DueIsWhole
<1>15. N - k > 0
  BY <1>4, <1>7, <1>9, <1>14
<1>16. Len(wire') = N - k
  BY <1>2, <1>4, <1>5, LastPart DEF ReadPart
<1>17. QED
  BY <1>8, <1>15, <1>16, EmptySeq

LEMMA DeliverInit == Init => DeliverInv
<1> SUFFICES ASSUME Init
             PROVE  DeliverInv
  OBVIOUS
<1>1. StreamInv /\ Len(sent) = 0 /\ Len(wire) = 0 /\ Len(delivered) = 0
  BY InitIsStream, EmptySeq DEF Init
<1>2. Straight
  BY <1>1, WantedPositive DEF Straight, Init
<1>3. Regular
  <2>1. \A k \in 1..1 : k - 1 = 0 /\ k \notin 1..0
    OBVIOUS
  <2>2. \A k \in 1..1 : Iv(k) = 2 * (k - 1)
    BY <1>1, <2>1 DEF Iv, Init
  <2>3. m_send_flag = (Len(sent) > 0)
    <3>1. m_send_flag = FALSE
      BY DEF Init
    <3>2. (Len(sent) > 0) = FALSE
      BY <1>1
    <3>3. QED
      BY <3>1, <3>2, Zenon
  <2>4. QED
    BY <1>1, <2>2, <2>3 DEF Regular
<1>4. HeadSize \in Nat
  <2>1. HeadSize \in 1..Cap
    BY <1>1, StepTypes
  <2>2. QED
    BY <2>1
<1>5. PICK f : f = [k \in 1..1 |-> 0]
  OBVIOUS
<1>6. /\ f \in [(0 + 1)..(0 + 1) -> Int] /\ f[0 + 1] = 0 /\ 0 >= -HeadSize
      /\ (0 + 1)..0 = {} /\ \A k, j \in (0 + 1)..(0 + 1) : ~(k < j)
  BY <1>4, <1>5
<1>7. Cut(f, 0, wire)
  BY <1>1, <1>6 DEF Cut
<1>8. Lead(0) = 0
  BY <1>1 DEF Lead, Init
<1>9. Lined(0)
  <2>1. ~failed /\ m_dec_iv = 0 /\ ~m_recv_flag /\ 0 # 2 * 0 + 1 /\ 0 >= 0
    BY DEF Init
  <2>2. QED
    BY <1>1, <1>6, <1>7, <1>8, <2>1 DEF Lined
<1>10. fault = "none"
  BY DEF Init
<1>11. QED
  BY <1>1, <1>2, <1>3, <1>9, <1>10 DEF DeliverInv

LEMMA DeliverStep ==
  ASSUME DeliverInv, StreamInv', [Next]_vars, Aead = "aes_128_gcm"
  PROVE  DeliverInv'
<1>1. /\ StreamInv /\ Straight /\ Regular
      /\ Smooth /\ m_read_buffer.back = 0 /\ fault = "none" => Lined(Len(delivered))
      /\ Smooth /\ m_read_buffer.back = 0 /\ fault # "none" => wire # <<>>
  BY DEF DeliverInv
<1>2. Straight' /\ Regular'
  BY <1>1, StraightStep, RegularStep
<1>3. ASSUME ~refused', ~fragmented', again' = 0, m_read_buffer'.back = 0
      PROVE  /\ fault' = "none" => Lined(Len(delivered))'
             /\ fault' # "none" => wire' # <<>>
  <2>1. ASSUME NEW len \in Lengths, Send(len)
        PROVE  wire' # <<>> /\ (fault' = "none" => Lined(Len(delivered))')
    <3>1. PICK n \in Nat : n = Len(delivered)
      BY <1>1, StepTypes
    <3>2. UNCHANGED receiver
      BY <2>1 DEF Send
    <3>3. /\ fragmented' = fragmented /\ again' = again /\ m_read_buffer' = m_read_buffer
          /\ fault' = fault /\ delivered' = delivered
      BY <3>2 DEF receiver
    <3>4. ~fragmented /\ again = 0 /\ m_read_buffer.back = 0
      BY <1>3, <3>3
    <3>5. /\ wire' # <<>>
          /\ Lined(n) => Lined(n)'
      BY <1>1, <1>3, <2>1, <3>1, <3>4, LinedSend
    <3>6. ~refused
      BY <1>3, <2>1 DEF Send, SendAll, SendThrowsAtIv, SendThrowsAtHead, SendThrowsAtBody
    <3>7. fault' = "none" => Lined(n)
      BY <1>1, <3>1, <3>3, <3>4, <3>6 DEF Smooth
    <3>8. Len(delivered)' = n
      BY <3>1, <3>3
    <3>9. QED
      BY <3>5, <3>7, <3>8
  <2>2. CASE fault = "none" /\ RecvPart
    <3>1. ~refused
      BY <1>3, <2>2 DEF RecvPart, sender
    <3>2. QED
      BY <1>3, <2>2, <3>1, PartIsFault
  <2>3. CASE fault = "none" /\ RecvOverrun
    <3>1. ~fragmented /\ again = 0 /\ FromBuffer(Wanted) = Wanted
      BY <1>3, <2>3 DEF RecvOverrun
    <3>2. /\ FromBuffer(Wanted) = m_read_buffer.back /\ m_read_buffer.back < Wanted
          /\ m_read_buffer.back \in 0..Cap
      BY <1>1, <3>1, StraightSize
    <3>3. QED
      BY <3>1, <3>2
  <2>4. CASE fault = "none" /\ RecvIv
    BY <1>3, <2>4, LinedIv DEF RecvIv
  <2>5. CASE fault = "none" /\ RecvHead
    BY <1>3, <2>5, LinedHead DEF RecvHead
  <2>6. CASE fault = "none" /\ RecvBody
    BY <1>3, <2>6, LinedBody DEF RecvBody
  <2>7. CASE UNCHANGED vars
    <3>1. PICK n \in Nat : n = Len(delivered)
      BY <1>1, StepTypes
    <3>2. /\ UNCHANGED sender /\ wire' = wire /\ UNCHANGED receiver
      BY <2>7 DEF vars
    <3>3. /\ sent' = sent /\ refused' = refused /\ fragmented' = fragmented /\ again' = again
          /\ m_read_buffer' = m_read_buffer /\ fault' = fault /\ delivered' = delivered
          /\ failed' = failed /\ m_dec_iv' = m_dec_iv /\ m_recv_flag' = m_recv_flag /\ pc' = pc
      BY <3>2 DEF sender, receiver
    <3>4. ~refused /\ ~fragmented /\ again = 0 /\ m_read_buffer.back = 0
      BY <1>3, <3>3
    <3>5. fault = "none" => Lined(n)
      BY <1>1, <3>1, <3>4 DEF Smooth
    <3>6. Lined(n) => Lined(n)'
      BY <3>2, <3>3 DEF Lined, Cut, Whole, Lead
    <3>7. Len(delivered)' = n
      BY <3>1, <3>3
    <3>8. fault # "none" => wire # <<>>
      BY <1>1, <3>4 DEF Smooth
    <3>9. QED
      BY <3>2, <3>3, <3>5, <3>6, <3>7, <3>8
  <2>8. QED
    BY <2>1, <2>2, <2>3, <2>4, <2>5, <2>6, <2>7 DEF Next
<1>4. QED
  BY <1>2, <1>3 DEF DeliverInv, Smooth

\* What is left when all is read.
LEMMA NothingLeft == DeliverInv => AllDelivered
<1> SUFFICES ASSUME DeliverInv, wire = <<>>, Empty(m_read_buffer), ~refused, ~fragmented, again = 0
             PROVE  delivered = Bodies(Len(sent)) /\ m_body_size = 0
  BY DEF AllDelivered
<1>1. StreamInv /\ Straight /\ Regular
  BY DEF DeliverInv
<1>2. m_read_buffer.back = 0
  <2>1. m_read_buffer.front = 0
    BY <1>1, StraightSize
  <2>2. QED
    BY <2>1 DEF Empty
<1>3. PICK n \in Nat, L \in Nat : n = Len(delivered) /\ L = Len(sent)
  BY <1>1, StepTypes
<1>4. Lined(n)
  BY <1>2, <1>3 DEF DeliverInv, Smooth
<1>5. InStep(0) /\ ~failed /\ m_dec_iv >= 0
  BY <1>1, <1>4, InStepZero DEF Lined
<1>6. n <= L /\ (Between(n) \/ Within(0, n))
  <2>1. 0 + n <= L /\ (Between(n) \/ Within(0, n) \/ Astray(n))
    BY <1>3, <1>5 DEF InStep
  <2>2. QED
    BY <2>1, <1>5 DEF Astray
<1>7. ~(n < L)
  <2>1. SUFFICES ASSUME n < L PROVE FALSE
    OBVIOUS
  <2>2. n + 1 \in (n + 1)..L
    BY <2>1
  <2>3. PICK start : Cut(start, n, wire)
    BY <1>4 DEF Lined
  <2>4. wire \in Seq(Written) /\ Len(wire) = 0
    BY EmptySeq
  <2>5. /\ start[n + 1] \in Int /\ start[n + 1] >= -HeadSize /\ start[n + 1] + Whole(n + 1) <= 0
        /\ sent[n + 1].len \in Nat
    <3>1. /\ start[n + 1] \in Int /\ start[n + 1] >= -HeadSize
          /\ start[n + 1] + Whole(n + 1) <= Len(wire) /\ sent[n + 1].len \in Nat
      BY <1>1, <1>3, <2>2, <2>3, <2>4, CutBounds
    <3>2. QED
      BY <2>4, <3>1
  <2>6. HeadSize \in 1..Cap /\ TagSize \in Nat \ {0}
    BY <1>1, StepTypes
  <2>7. PICK x \in Nat, y \in Int : x = sent[n + 1].len /\ y = start[n + 1]
    BY <2>5
  <2>8. y >= -HeadSize /\ y + (HeadSize + x + TagSize) <= 0
    BY <2>5, <2>7 DEF Whole
  <2>9. QED
    <3>1. PICK h \in Nat, t \in Nat : h = HeadSize /\ t = TagSize /\ t # 0
      BY <2>6, <1>1, StepTypes
    <3>2. y >= -h /\ y + (h + x + t) <= 0
      BY <2>8, <3>1
    <3>3. QED
      BY <3>1, <3>2
<1>8. n = L
  BY <1>6, <1>7
<1>9. ~Within(0, n)
  <2>1. ~(0 + n + 1 \in 1..L)
    BY <1>8
  <2>2. QED
    BY <2>1, <1>3 DEF Within, Out
<1>10. m_body_size = 0
  BY <1>6, <1>9 DEF Between
<1>11. delivered = Bodies(n)
  BY <1>1, <1>3, <1>5, PrefixHolds DEF PrefixUntilError
<1>12. QED
  BY <1>3, <1>8, <1>10, <1>11

(* With the cipher whose records open, when no send was refused, no record *)
(* came in two pieces and no read found the socket empty, recv has         *)
(* returned every message once all that was sent is read: no byte of a     *)
(* record is lost or left over when the next one is read.                  *)
THEOREM DeliversAll ==
  ASSUME Aead = "aes_128_gcm"
  PROVE  Spec => []AllDelivered
<1>1. Init => DeliverInv
  BY DeliverInit
<1>2. DeliverInv /\ StreamInv' /\ [Next]_vars => DeliverInv'
  BY DeliverStep
<1>3. DeliverInv => AllDelivered
  BY NothingLeft
<1>4. QED
  BY <1>1, <1>2, <1>3, StreamInvariant, PTL DEF Spec
=============================================================================
