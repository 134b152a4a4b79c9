------------------------------ MODULE StcpConn ------------------------------
(***************************************************************************)
(* stcp_conn (src/tcp.h) over one direction of a connection: send() seals  *)
(* a message as two records, its length and its body, the first time after *)
(* the start value of the nonce counter; recv() reads record by record,    *)
(* and read() is meant to keep the part of a record that has come so far   *)
(* in m_read_buffer.                                                       *)
(*                                                                         *)
(* A byte of the stream is known by the message and the record it belongs  *)
(* to and its place in it; the nonce of a record is its counter value.  A  *)
(* record opens only if it is whole and the counters agree (aead_iter).    *)
(* With chacha20_poly1305, which server.cc names, none opens (see Sudp)    *)
(* and recv throws at the first length.                                    *)
(***************************************************************************)
EXTENDS RingOps, FiniteSets

CONSTANTS
  Lengths,      \* the lengths of messages
  MaxMessages,  \* bound on the calls of send
  IvSize, TagSize,  \* 12 and 16
  LenSize,      \* sizeof(uint16_t)
  Aead,         \* the cipher, "aes_128_gcm" or "chacha20_poly1305"
  MaxAgain,     \* bound on the reads that find the socket empty (EAGAIN); 0 when
                \* the socket blocks, as those that the repository makes do
  Garbage       \* a byte of uninitialized memory

HeadSize == LenSize + TagSize

\* A record: the start value, or the length or the body of message k.
RecordId == [msg : 0..MaxMessages, kind : {"iv", "head", "body"}]

ASSUME StcpAssumption ==
  /\ Lengths \subseteq Nat
  /\ {MaxMessages, MaxAgain} \subseteq Nat
  /\ Aead \in {"aes_128_gcm", "chacha20_poly1305"}
  /\ {IvSize, TagSize, LenSize} \subseteq Nat \ {0}
  \* the start value and the length fit the buffers, as they do in the code
  /\ IvSize <= Cap /\ HeadSize <= Cap
  \* memory holds the bytes of a record where they were put and nowhere else
  /\ Garbage \notin [id : RecordId, at : Nat]

Id(k, kind) == [msg |-> k, kind |-> kind]

VARIABLES
  m_send_flag, m_enc_iv,  \* the sender's; the counter starts at 0
  sent,         \* history: for each call of send the length and the counter
  wire,         \* the bytes on their way
  m_recv_flag, m_dec_iv,  \* the receiver's; -1: a counter with a wrong start
  m_body_size,
  m_read_buffer,
  pc,           \* "body" between the two reads of a record's head and body
  delivered,    \* history: the records that recv has returned
  fault,        \* "none"; "abort": append's assert failed; "overrun": append or
                \* poll went past m_last
  refused,      \* history: a send threw
  failed,       \* history: decrypt threw
  fragmented,   \* history: a read that began with bytes in m_read_buffer
                \* was completed from the socket
  again         \* history: the number of reads that found the socket empty

sender == <<m_send_flag, m_enc_iv, sent, refused>>
receiver == <<m_recv_flag, m_dec_iv, m_body_size, m_read_buffer, pc, delivered,
              fault, failed, fragmented, again>>
vars == <<sender, wire, receiver>>

Init ==
  /\ m_send_flag = FALSE
  /\ m_enc_iv = 0
  /\ sent = <<>>
  /\ wire = <<>>
  /\ m_recv_flag = FALSE
  /\ m_dec_iv = 0
  /\ m_body_size = 0
  /\ m_read_buffer = [cells |-> [i \in Offset |-> Garbage], front |-> 0, back |-> 0]
  /\ pc = "idle"
  /\ delivered = <<>>
  /\ fault = "none"
  /\ refused = FALSE
  /\ failed = FALSE
  /\ fragmented = FALSE
  /\ again = 0

-----------------------------------------------------------------------------
(* Records *)

\* The bytes of record id, which is size bytes long.
Bytes(id, size) == [i \in 1..size |-> [id |-> id, at |-> i]]

SizeOf(id) ==
  CASE id.kind = "iv"   -> IvSize
    [] id.kind = "head" -> HeadSize
    [] id.kind = "body" -> sent[id.msg].len + TagSize

Nonce(id) == IF id.kind = "head" THEN sent[id.msg].iv ELSE sent[id.msg].iv + 1

Sealed == {Id(k, kind) : k \in DOMAIN sent, kind \in {"head", "body"}}

\* chacha20_poly1305's decrypt opens nothing, whatever it is given.
CipherOpens == Aead = "aes_128_gcm"

\* Variant: the counter is not looked at.
OpensAnyNonce(buf) == {id \in Sealed : CipherOpens /\ buf = Bytes(id, SizeOf(id))}

\* The record, if any, that aead_iter::decrypt of buf opens.
Opens(buf) ==
  {id \in Sealed : CipherOpens /\ buf = Bytes(id, SizeOf(id)) /\ m_dec_iv = Nonce(id)}

-----------------------------------------------------------------------------
(* send *)

\* All records of the call go out.
SendAll(len) ==
  LET k == Len(sent) + 1
      iv == IF m_send_flag THEN <<>> ELSE Bytes(Id(0, "iv"), IvSize)
      c == IF m_send_flag THEN m_enc_iv ELSE 0
  IN  /\ wire' = wire \o iv \o Bytes(Id(k, "head"), HeadSize)
                      \o Bytes(Id(k, "body"), len + TagSize)
      /\ m_send_flag' = TRUE
      /\ m_enc_iv' = c + 2
      /\ sent' = Append(sent, [len |-> len, iv |-> c])
      /\ UNCHANGED refused

\* The start value is refused; the next send makes another.
SendThrowsAtIv(len) ==
  /\ ~m_send_flag
  /\ m_enc_iv' = 0
  /\ sent' = Append(sent, [len |-> len, iv |-> 0])
  /\ refused' = TRUE
  /\ UNCHANGED <<wire, m_send_flag>>

\* The length was sealed and is refused.
SendThrowsAtHead(len) ==
  LET iv == IF m_send_flag THEN <<>> ELSE Bytes(Id(0, "iv"), IvSize)
      c == IF m_send_flag THEN m_enc_iv ELSE 0
  IN  /\ wire' = wire \o iv
      /\ m_send_flag' = TRUE
      /\ m_enc_iv' = c + 1
      /\ sent' = Append(sent, [len |-> len, iv |-> c])
      /\ refused' = TRUE

\* Length and body were sealed; n bytes of the body go out.
SendThrowsAtBody(len, n) ==
  LET k == Len(sent) + 1
      iv == IF m_send_flag THEN <<>> ELSE Bytes(Id(0, "iv"), IvSize)
      c == IF m_send_flag THEN m_enc_iv ELSE 0
  IN  /\ n < len + TagSize
      /\ Takes(n, len + TagSize)
      /\ wire' = wire \o iv \o Bytes(Id(k, "head"), HeadSize) \o Bytes(Id(k, "body"), n)
      /\ m_send_flag' = TRUE
      /\ m_enc_iv' = c + 2
      /\ sent' = Append(sent, [len |-> len, iv |-> c])
      /\ refused' = TRUE

Send(len) ==
  /\ Len(sent) < MaxMessages
  /\ \/ SendAll(len)
     \/ SendThrowsAtIv(len)
     \/ SendThrowsAtHead(len)
     \/ \E n \in 0..(len + TagSize) : SendThrowsAtBody(len, n)
  /\ UNCHANGED receiver

-----------------------------------------------------------------------------
(* read *)

\* min(len, m_read_buffer.size()), in size_t.
FromBuffer(len) ==
  IF HasBytes(m_read_buffer, len) THEN len ELSE Size(m_read_buffer)

\* Variants: what came is not kept; what was kept is kept again with it.
ReadPartForgets(len, k) ==
  /\ k < len - FromBuffer(len)
  /\ wire' = SubSeq(wire, k + 1, Len(wire))
  /\ UNCHANGED <<m_read_buffer, fault>>

ReadPartTwice(len, k) ==
  LET data == SubSeq(Content(m_read_buffer) \o SubSeq(wire, 1, k), 1, Size(m_read_buffer) + k)
  IN  /\ k < len - FromBuffer(len)
      /\ wire' = SubSeq(wire, k + 1, Len(wire))
      /\ IF ~HasRoom(m_read_buffer, Len(data))
         THEN fault' = "abort" /\ UNCHANGED m_read_buffer
         ELSE m_read_buffer' = Appended(m_read_buffer, data) /\ UNCHANGED fault

\* The socket has k bytes, too few: they are kept, and read returns false.
ReadPart(len, k) ==
  /\ k < len - FromBuffer(len)
  /\ wire' = SubSeq(wire, k + 1, Len(wire))
  /\ IF ~HasRoom(m_read_buffer, k)
     THEN fault' = "abort" /\ UNCHANGED m_read_buffer
     ELSE IF AppendOverruns(m_read_buffer, k)
     THEN fault' = "overrun" /\ UNCHANGED m_read_buffer
     ELSE /\ m_read_buffer' = Appended(m_read_buffer, SubSeq(wire, 1, k))
          /\ UNCHANGED fault

\* What memory can hold where read leaves n bytes of buf as they were: garbage
\* or, when it was buf at the call before, the very bytes that were kept.
Leftover(n) ==
  {[i \in 1..n |-> Garbage], SubSeq(Content(m_read_buffer), 1, n)}

\* What is in buf when read(buf, len) has returned true.  The bytes from the
\* socket, if any came, follow where those of m_read_buffer should be, which are
\* not copied.
Buffers(len) ==
  LET n == FromBuffer(len)
      came == IF wire' = wire THEN [i \in 1..(len - n) |-> Garbage] ELSE SubSeq(wire, 1, len - n)
  IN  IF n = len THEN {Polled(m_read_buffer, len).data}
                 ELSE {old \o came : old \in Leftover(n)}

\* read returns true: all of it was in the buffer;
ReadBuffered(len) ==
  /\ FromBuffer(len) = len
  /\ ~PollOverruns(m_read_buffer, len)
  /\ m_read_buffer' = Polled(m_read_buffer, len).buf
  /\ UNCHANGED <<wire, fragmented, again>>

\* or the socket has what is missing, and m_read_buffer stays as it is;
ReadSocket(len) ==
  LET n == FromBuffer(len)
  IN  /\ len - n \in 1..Len(wire)
      /\ wire' = SubSeq(wire, len - n + 1, Len(wire))
      /\ fragmented' = (fragmented \/ n > 0)
      /\ UNCHANGED <<m_read_buffer, again>>

\* or the socket is empty, because nothing was sent or it has not come yet:
\* receive_socket returns (size_t)-1, which is not less than what is missing.
ReadAgain(len) ==
  /\ FromBuffer(len) < len
  /\ again < MaxAgain
  /\ again' = again + 1
  /\ UNCHANGED <<m_read_buffer, wire, fragmented>>

Read(len) == ReadBuffered(len) \/ ReadSocket(len) \/ ReadAgain(len)

-----------------------------------------------------------------------------
(* recv *)

\* The record that recv is to read next, by its size.
Wanted ==
  IF ~m_recv_flag THEN IvSize
  ELSE IF m_body_size = 0 /\ pc = "idle" THEN HeadSize
  ELSE m_body_size + TagSize

RecvPart ==
  /\ \E k \in 1..Len(wire) : ReadPart(Wanted, k)
  /\ pc' = "idle"
  /\ UNCHANGED <<sender, m_recv_flag, m_dec_iv, m_body_size, delivered, failed,
                 fragmented, again>>

\* poll is asked for more than there is, since size() of a buffer that has
\* wrapped can be huge, and goes past the array.
RecvOverrun ==
  /\ FromBuffer(Wanted) = Wanted
  /\ PollOverruns(m_read_buffer, Wanted)
  /\ fault' = "overrun"
  /\ UNCHANGED <<sender, wire, m_recv_flag, m_dec_iv, m_body_size, m_read_buffer, pc,
                 delivered, failed, fragmented, again>>

RecvIv ==
  /\ ~m_recv_flag
  /\ Read(IvSize)
  /\ \E buf \in Buffers(IvSize) :
       m_dec_iv' = IF buf = Bytes(Id(0, "iv"), IvSize) THEN 0 ELSE -1
  /\ m_recv_flag' = TRUE
  /\ UNCHANGED <<sender, m_body_size, pc, delivered, failed, fault>>

\* decrypt advances the counter before it tries to open the record.
Decrypt ==
  m_dec_iv' = IF m_dec_iv < 0 THEN m_dec_iv ELSE m_dec_iv + 1

\* The length opens, or decrypt throws.  A body that is taken for a length can
\* say anything.
RecvHead ==
  /\ m_recv_flag
  /\ m_body_size = 0 /\ pc = "idle"
  /\ Read(HeadSize)
  /\ Decrypt
  /\ \E buf \in Buffers(HeadSize) :
       \/ \E id \in Opens(buf) :
            /\ m_body_size' \in IF id.kind = "head" THEN {sent[id.msg].len} ELSE Lengths
            /\ pc' = "body"
            /\ UNCHANGED failed
       \/ /\ Opens(buf) = {}
          /\ failed' = TRUE
          /\ UNCHANGED <<m_body_size, pc>>
  /\ UNCHANGED <<sender, m_recv_flag, delivered, fault>>

\* The body opens and is returned, or decrypt throws.
RecvBody ==
  /\ m_recv_flag
  /\ m_body_size > 0 \/ pc = "body"
  /\ Read(m_body_size + TagSize)
  /\ m_body_size' = 0
  /\ pc' = "idle"
  /\ Decrypt
  /\ \E buf \in Buffers(m_body_size + TagSize) :
       \/ \E id \in Opens(buf) : delivered' = Append(delivered, id) /\ UNCHANGED failed
       \/ Opens(buf) = {} /\ failed' = TRUE /\ UNCHANGED delivered
  /\ UNCHANGED <<sender, m_recv_flag, fault>>

Next ==
  \/ \E len \in Lengths : Send(len)
  \/ fault = "none" /\ (RecvPart \/ RecvOverrun \/ RecvIv \/ RecvHead \/ RecvBody)

Spec == Init /\ [][Next]_vars

-----------------------------------------------------------------------------

(* Every variable holds values of its type.                                *)
TypeOK ==
  /\ m_send_flag \in BOOLEAN
  /\ m_enc_iv \in Nat
  /\ sent \in Seq([len : Lengths, iv : Nat])
  /\ wire \in Seq([id : RecordId, at : Nat])
  /\ m_recv_flag \in BOOLEAN
  /\ m_dec_iv \in Nat \cup {-1}
  /\ m_body_size \in Lengths \cup {0}
  /\ m_read_buffer.front \in Offset /\ m_read_buffer.back \in Offset
  /\ pc \in {"idle", "body"}
  /\ delivered \in Seq(RecordId)
  /\ fault \in {"none", "abort", "overrun"}
  /\ refused \in BOOLEAN
  /\ failed \in BOOLEAN
  /\ fragmented \in BOOLEAN
  /\ again \in 0..MaxAgain

\* How many sends were refused before a start value went out.
Unopened ==
  IF m_send_flag THEN Cardinality({k \in DOMAIN sent : sent[k].iv = 0}) - 1 ELSE Len(sent)

\* The first n messages of the connection.
Bodies(n) == [k \in 1..n |-> Id(Unopened + k, "body")]

(* Up to its first error, recv returns the messages in the order in which  *)
(* they were sent, from the first one on and with none left out, however   *)
(* the stream is cut into pieces and whatever send left on it when it      *)
(* threw.                                                                  *)
PrefixUntilError ==
  ~failed => delivered = Bodies(Len(delivered))

(* When no send threw, no record came in two pieces and no read found the *)
(* socket empty, recv has returned all that has come: no byte of a record  *)
(* is lost or left over when the next one is read.                         *)
AllDelivered ==
  (wire = <<>> /\ Empty(m_read_buffer) /\ ~refused /\ ~fragmented /\ again = 0) =>
    /\ delivered = Bodies(Len(sent))
    /\ m_body_size = 0

(* The assert of append fails, or append or poll leave the array, only     *)
(* when recv waits for a record that does not fit the read buffer: the     *)
(* parts of shorter ones, which read never removes when it completes them  *)
(* from the socket, still do not add up to more than it holds.  Up to the  *)
(* first error a message of that length was sent; after it recv can take a *)
(* short message for such a length.                                        *)
FaultsNeedLong ==
  /\ TypeOK
  /\ fault # "none" =>
       /\ m_body_size + TagSize > Cap
       /\ ~failed => \E k \in DOMAIN sent : sent[k].len = m_body_size
=============================================================================
