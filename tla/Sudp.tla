-------------------------------- MODULE Sudp --------------------------------
(***************************************************************************)
(* sudp (src/udp.h): a UDP socket that seals what is sent and opens what   *)
(* comes, over aead_indep (src/cipher.h) and the calls of an aead into     *)
(* OpenSSL (src/cipher.cc), any of which may fail.  One thread of a relay  *)
(* sends and the other receives.  The contexts of an aead are thread_local *)
(* and its other state is on the stack, so that each call is one step.     *)
(*                                                                         *)
(* A datagram is iv, load and tag.  Here it is the iv in front, the iv and *)
(* the packet that its load and tag were made with, and its length; the    *)
(* key is a constant of the program.  What comes was sealed by a peer, or  *)
(* is a stray: any bytes, and as few as anyone likes.                      *)
(***************************************************************************)
EXTENDS Integers, FiniteSets

CONSTANTS
  Aead,      \* the cipher: "aes_128_gcm" or "chacha20_poly1305"
  Payload,   \* what a packet holds besides its length
  Lengths,   \* the lengths of packets
  Strays,    \* the lengths of stray datagrams
  BuffSize,  \* buff_size of the relay threads
  IvSize, TagSize,
  Iv,        \* the ivs that RAND_bytes draws, each at most once
  NoIv       \* of a context that has none yet

ASSUME SudpAssumption ==
  /\ Aead \in {"aes_128_gcm", "chacha20_poly1305"}
  /\ Lengths \subseteq 0..BuffSize /\ Strays \subseteq Nat
  /\ BuffSize \in Nat /\ IvSize \in Nat /\ TagSize \in Nat
  /\ NoIv \notin Iv

VARIABLES
  enc,     \* the context of encrypt in the thread that sends
  dec,     \* the context of decrypt in the thread that receives
  wire,    \* every datagram sealed and sent: the network may deliver any of them
  last,    \* the last call: what was asked of it, which call failed in it, its outcome
  drawn,   \* history: the ivs drawn so far
  broken,  \* history: the functions whose first Init failed
  unchecked, \* history: RAND_bytes failed
  down       \* the process went down in EVP_DecryptUpdate

vars == <<enc, dec, wire, last, drawn, broken, unchecked, down>>

MinCap == IvSize + TagSize  \* padding_size is 0 for both ciphers
Packet == [data : Payload, len : Lengths]
Size(d) == d.pkt.len + MinCap

\* A datagram that no peer sealed: its load and tag belong to no iv.  One that is
\* shorter than iv and tag has a load of less than no bytes.
Stray == [prefix : Iv, iv : {NoIv},
          pkt : [data : Payload, len : {n - MinCap : n \in Strays}]]

\* The calls of one turn; in a turn at most one of them fails.
Calls == {"new", "init", "key", "update", "ctrl", "final"}
SendFailures == Calls \cup {"none", "rand", "sendto"}
RecvFailures == Calls \cup {"none", "recvfrom"}

Init ==
  /\ enc = [state |-> "null", iv |-> NoIv]
  /\ dec = enc
  /\ wire = {}
  /\ last = [kind |-> "none"]
  /\ drawn = {}
  /\ broken = {}
  /\ unchecked = FALSE
  /\ down = FALSE

-----------------------------------------------------------------------------
(* cipher.cc *)

\* The context after the block `if (!ctx)': a context that was allocated but
\* got no cipher stays, and is not initialized again.
Allocated(c, failed) ==
  IF c.state # "null" THEN c
  ELSE [c EXCEPT !.state = CASE failed = "new" -> "null"
                             [] failed = "init" -> "bare"
                             [] OTHER -> "ready"]

\* Whether the function gets to its return statement.
Succeeds(c, failed) ==
  /\ Allocated(c, failed).state = "ready"
  /\ failed \notin {"key", "update", "ctrl", "final"}

\* Variant: the iv is set with the cipher, in a new context only.
KeyedOnce(c, failed, iv) ==
  LET a == Allocated(c, failed)
  IN  IF a.state = "ready" /\ failed # "key" /\ a.iv = NoIv
      THEN [a EXCEPT !.iv = iv] ELSE a

\* The context once key and iv are set.
Keyed(c, failed, iv) ==
  LET a == Allocated(c, failed)
  IN  IF a.state = "ready" /\ failed # "key" THEN [a EXCEPT !.iv = iv] ELSE a

\* The load and tag that encrypt makes, of a datagram whose front iv is `prefix'.
aes_128_gcm_encrypt(c, failed, iv, p) ==
  [ctx |-> Keyed(c, failed, iv),
   ok |-> Succeeds(c, failed),
   d |-> [prefix |-> iv, iv |-> Keyed(c, failed, iv).iv, pkt |-> p]]

chacha20_poly1305_encrypt(c, failed, iv, p) == aes_128_gcm_encrypt(c, failed, iv, p)

\* Variant: the result of the last Final is not looked at.
DecryptUnchecked(c, failed, d, n) ==
  [ctx |-> Keyed(c, failed, d.prefix),
   ok |-> Succeeds(c, failed),
   pkt |-> [data |-> d.pkt.data, len |-> n - MinCap]]

\* decrypt of the first n bytes of a datagram.  Final compares the tag set by
\* EVP_CTRL_GCM_SET_TAG with that of the load under the iv in front.
aes_128_gcm_decrypt(c, failed, d, n) ==
  [ctx |-> Keyed(c, failed, d.prefix),
   ok |-> /\ Succeeds(c, failed)
          /\ Keyed(c, failed, d.prefix).iv = d.iv
          /\ n = Size(d),
   pkt |-> [data |-> d.pkt.data, len |-> n - MinCap]]

\* EVP_CTRL_AEAD_GET_TAG, which OpenSSL refuses in a context that decrypts.
chacha20_poly1305_decrypt(c, failed, d, n) ==
  [aes_128_gcm_decrypt(c, failed, d, n) EXCEPT !.ok = FALSE]

Encrypt(c, failed, iv, p) ==
  IF Aead = "aes_128_gcm" THEN aes_128_gcm_encrypt(c, failed, iv, p)
                          ELSE chacha20_poly1305_encrypt(c, failed, iv, p)

Decrypt(c, failed, d, n) ==
  IF Aead = "aes_128_gcm" THEN aes_128_gcm_decrypt(c, failed, d, n)
                          ELSE chacha20_poly1305_decrypt(c, failed, d, n)

-----------------------------------------------------------------------------
(* aead_indep and sudp *)

\* Variant: the iv is drawn by the first call only.
RandBytesOnce(failed) ==
  IF failed # "rand" /\ drawn # {} THEN drawn ELSE Iv

\* RAND_bytes into a new buffer.  Its result is not checked: when it fails, the
\* iv is what the heap held there, that of an earlier datagram perhaps.
RandBytes(failed) == IF failed = "rand" THEN Iv ELSE Iv \ drawn

Breaks(c, failed) == Allocated(c, failed).state = "bare"

\* The buffer has len + min_cap bytes, so that no check of cap fails.
SendTo(p, failed) ==
  \E iv \in RandBytes(failed) :
    LET sealed == Encrypt(enc, failed, iv, p)
    IN  /\ ~down
        /\ enc' = sealed.ctx
        /\ wire' = IF sealed.ok /\ failed # "sendto" THEN wire \cup {sealed.d} ELSE wire
        /\ drawn' = drawn \cup {iv}
        /\ unchecked' = (unchecked \/ failed = "rand")
        /\ broken' = IF Breaks(enc, failed) THEN broken \cup {"sendto"} ELSE broken
        /\ last' = [kind |-> "sendto", thrown |-> ~sealed.ok \/ failed = "sendto",
                    failed |-> failed, d |-> sealed.d, pkt |-> p]
        /\ UNCHANGED <<dec, down>>

\* The socket is asked for len - min_cap bytes, and cuts a longer datagram off.
Asked == BuffSize - MinCap
Received(d) == IF Size(d) <= Asked THEN Size(d) ELSE Asked

\* Whether decrypt hands EVP_DecryptUpdate a length below zero, the load's: what
\* recvfrom got is shorter than iv and tag, and no call has failed by then.
BelowZero(d, failed) ==
  /\ Received(d) < MinCap
  /\ Allocated(dec, failed).state = "ready"
  /\ failed \notin {"recvfrom", "key", "update"}

\* OpenSSL refuses a length below zero, or takes it for a large one and the
\* process goes down.
RecvFrom(d, failed) ==
  LET opened == Decrypt(dec, failed, d, Received(d))
  IN  /\ ~down
      /\ dec' = IF failed = "recvfrom" THEN dec ELSE opened.ctx
      /\ broken' = IF failed # "recvfrom" /\ Breaks(dec, failed)
                   THEN broken \cup {"recvfrom"} ELSE broken
      /\ last' = [kind |-> "recvfrom", thrown |-> ~opened.ok \/ failed = "recvfrom",
                  failed |-> failed, d |-> d, pkt |-> opened.pkt]
      /\ down' \in IF BelowZero(d, failed) THEN BOOLEAN ELSE {FALSE}
      /\ UNCHANGED <<enc, wire, drawn, unchecked>>

Next ==
  \/ \E p \in Packet, failed \in SendFailures : SendTo(p, failed)
  \/ \E d \in wire \cup Stray, failed \in RecvFailures : RecvFrom(d, failed)

Spec == Init /\ [][Next]_vars

-----------------------------------------------------------------------------

Context == [state : {"null", "bare", "ready"}, iv : Iv \cup {NoIv}]
Datagram == [prefix : Iv, iv : Iv \cup {NoIv}, pkt : Packet]

(* Every variable holds values of its type.                                *)
TypeOK ==
  /\ enc \in Context /\ dec \in Context
  /\ wire \subseteq Datagram
  /\ last \in [kind : {"none"}]
         \cup [kind : {"sendto"}, thrown : BOOLEAN, failed : SendFailures,
               d : Datagram, pkt : Packet]
         \cup [kind : {"recvfrom"}, thrown : BOOLEAN, failed : RecvFailures,
               d : Datagram \cup Stray, pkt : [data : Payload, len : Int]]
  /\ drawn \subseteq Iv
  /\ broken \subseteq {"sendto", "recvfrom"}
  /\ unchecked \in BOOLEAN
  /\ down \in BOOLEAN

(* A packet that recvfrom returns is one that a peer sealed and sent,      *)
(* whole, and fits the caller's buffer: what the socket cut off is never   *)
(* passed on short, nor is a stray ever taken for a packet.                *)
WholePackets ==
  last.kind = "recvfrom" /\ ~last.thrown =>
    last.d \in wire /\ last.pkt = last.d.pkt /\ last.pkt.len <= BuffSize

(* A call throws only for a reason: a call failed in it, the function's    *)
(* first Init failed in this thread, or the datagram was too long for the  *)
(* receiver or a stray.  No other failure, however early a call it left    *)
(* half done, and no stray makes a later call fail, and what was sealed    *)
(* opens.                                                                  *)
ThrowsForAReason ==
  last.kind # "none" /\ last.thrown =>
    \/ last.failed \notin {"none", "rand"}
    \/ last.kind \in broken
    \/ last.kind = "recvfrom" /\ (Size(last.d) > Asked \/ last.d \in Stray)

(* What is on the wire was sealed under the iv in front of it, and no two  *)
(* packets under one iv, unless RAND_bytes failed.                         *)
NonceOnce ==
  /\ TypeOK
  /\ \A d \in wire : d.iv = d.prefix /\ d.iv \in drawn
  /\ \A d, e \in wire : d.iv = e.iv /\ d # e => unchecked
=============================================================================
