------------------------------ MODULE TcpConn ------------------------------
(***************************************************************************)
(* The sending side of tcp_conn (src/tcp.h): send() writes to the socket   *)
(* what the kernel takes at once and keeps the rest in m_write_buffer, and *)
(* on_writable(), called from the event loop, hands the kernel more of it. *)
(* Loop and callers are one thread.                                        *)
(*                                                                         *)
(* A byte is its number among all bytes ever passed to send(), so that the *)
(* order and the gaps of what reaches the peer are plain to see.           *)
(***************************************************************************)
EXTENDS RingOps

CONSTANTS
  Lengths,   \* the lengths with which send is called
  MaxBytes   \* bound on the bytes passed to send in all

ASSUME TcpAssumption ==
  /\ Lengths \subseteq Nat \ {0}
  /\ MaxBytes \in Nat
  /\ Byte = 0..MaxBytes

VARIABLES
  m_write_buffer,
  wire,      \* what the kernel has taken, in order
  error,     \* "none"; "closed": the socket failed; "overrun": append wrote
             \* past m_last
  passed,    \* history: how many bytes were passed to send
  accepted,  \* history: the bytes send did not refuse, in order
  lapped     \* history: there was an append to a buffer with bytes at m_base
             \* that precede its front

vars == <<m_write_buffer, wire, error, passed, accepted, lapped>>

Init ==
  /\ m_write_buffer = [cells |-> [i \in Offset |-> 0], front |-> 0, back |-> 0]
  /\ wire = <<>>
  /\ error = "none"
  /\ passed = 0
  /\ accepted = <<>>
  /\ lapped = FALSE

\* The bytes from number a + 1 to number b.
Numbered(a, b) == [i \in 1..(b - a) |-> a + i]

Lapping(r) == 0 < r.back /\ r.back < r.front

\* write_to_buffer, when there is room by its own count.
ToBuffer(data) ==
  /\ HasRoom(m_write_buffer, Len(data))
  /\ lapped' = (lapped \/ Lapping(m_write_buffer))
  /\ IF AppendOverruns(m_write_buffer, Len(data))
     THEN error' = "overrun" /\ UNCHANGED m_write_buffer
     ELSE m_write_buffer' = Appended(m_write_buffer, data) /\ UNCHANGED error

\* send with bytes waiting: all of it goes behind them.
SendBuffered(len) ==
  LET data == Numbered(passed, passed + len)
  IN  /\ ~Empty(m_write_buffer)
      /\ ToBuffer(data)
      /\ accepted' = accepted \o data
      /\ UNCHANGED wire

\* Variant: a send that does not fit with what waits is cut to what fits.
SendCut(len) ==
  LET room == Cap - Size(m_write_buffer)
      data == Numbered(passed, passed + room)
  IN  /\ ~Empty(m_write_buffer)
      /\ room \in 1..(len - 1)
      /\ ToBuffer(data)
      /\ accepted' = accepted \o data
      /\ UNCHANGED wire

\* send with bytes waiting and no room: "write buffer overflow".
SendRefused(len) ==
  /\ ~Empty(m_write_buffer)
  /\ ~HasRoom(m_write_buffer, len)
  /\ UNCHANGED <<m_write_buffer, wire, error, accepted, lapped>>

\* Variant: the kernel is offered the bytes although others are waiting.
SendOvertakes(len, n) ==
  LET mid == passed + n
      end == passed + len
  IN  /\ wire' = wire \o Numbered(passed, mid)
      /\ IF n = len
         THEN UNCHANGED <<m_write_buffer, error, lapped>>
         ELSE ToBuffer(Numbered(mid, end))
      /\ accepted' = accepted \o Numbered(passed, end)

\* send with nothing waiting: the kernel takes n bytes (0 is EAGAIN) and the
\* rest, if any, is buffered.
SendDirect(len, n) ==
  LET mid == passed + n
      end == passed + len
  IN  /\ Empty(m_write_buffer)
      /\ wire' = wire \o Numbered(passed, mid)
      /\ IF n = len
         THEN UNCHANGED <<m_write_buffer, error, lapped>>
         ELSE ToBuffer(Numbered(mid, end))
      /\ accepted' = accepted \o Numbered(passed, end)

\* The same, with no room for the rest: send throws, and the caller does not
\* learn of the n bytes.
SendTorn(len, n) ==
  LET mid == passed + n
  IN  /\ Empty(m_write_buffer)
      /\ ~HasRoom(m_write_buffer, len - n)
      /\ wire' = wire \o Numbered(passed, mid)
      /\ accepted' = accepted \o Numbered(passed, mid)
      /\ UNCHANGED <<m_write_buffer, error, lapped>>

Send(len) ==
  /\ error = "none"
  /\ passed + len <= MaxBytes
  /\ passed' = passed + len
  /\ \/ SendBuffered(len)
     \/ SendRefused(len)
     \/ \E n \in 0..len : SendDirect(len, n) \/ SendTorn(len, n)

\* The socket fails under a send or under on_writable, which throw.
Fails ==
  /\ error = "none"
  /\ error' = "closed"
  /\ UNCHANGED <<m_write_buffer, wire, passed, accepted, lapped>>

\* on_writable: the kernel takes n bytes of the first part and, if that goes
\* up to the end of the array, m of the second.
OnWritable(n, m) ==
  /\ error = "none"
  /\ m_write_buffer' = PolledBy(m_write_buffer, n, m).buf
  /\ wire' = wire \o PolledBy(m_write_buffer, n, m).data
  /\ UNCHANGED <<error, passed, accepted, lapped>>

Next ==
  \/ \E len \in Lengths : Send(len)
  \/ Fails
  \/ \E n \in 0..Offered(m_write_buffer) :
       \E m \in 0..OfferedNext(m_write_buffer, n) : OnWritable(n, m)

Spec == Init /\ [][Next]_vars

-----------------------------------------------------------------------------

(* Every variable holds values of its type.                                *)
TypeOK ==
  /\ m_write_buffer \in Buffer
  /\ wire \in Seq(1..MaxBytes)
  /\ error \in {"none", "closed", "overrun"}
  /\ passed \in 0..MaxBytes
  /\ accepted \in Seq(1..MaxBytes)
  /\ lapped \in BOOLEAN

Pending == wire \o Content(m_write_buffer)

(* What the peer has received and what waits for it come in the order in   *)
(* which they were sent and no byte comes twice, whatever the kernel takes *)
(* of each offer, and even when an append overwrote bytes that waited.     *)
InOrder ==
  \A i \in 1..(Len(Pending) - 1) : Pending[i] < Pending[i + 1]

(* Nothing that send accepted is missing, as long as no append met a       *)
(* buffer that has wrapped: size() counts too little there, and only there.*)
NothingMissing ==
  ~lapped => Pending = accepted

(* send is what stcp_conn takes it for: of its bytes all, none or, when    *)
(* they are more than fit the buffer, the first n (Takes) join the stream, *)
(* behind all that joined it before, and neither on_writable nor an error  *)
(* changes the stream.  Until an append meets a buffer that has wrapped,   *)
(* the stream is what the kernel has taken and what waits.                 *)
SendTakes ==
  [][\E n \in 0..(passed' - passed) :
       LET took == Numbered(passed, passed + n)
       IN  /\ Takes(n, passed' - passed)
           /\ accepted' = accepted \o took
           /\ ~lapped' => Pending' = Pending \o took]_vars

(* append writes past the end of the array only after a send was accepted  *)
(* into a buffer that has wrapped; until then every offset is one of the   *)
(* array's.                                                                *)
OverrunOnlyLapped ==
  /\ TypeOK
  /\ error = "overrun" => lapped
=============================================================================
