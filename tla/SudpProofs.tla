----------------------------- MODULE SudpProofs -----------------------------
(***************************************************************************)
(* Proofs about Sudp, for every set of ivs and packets and every buffer    *)
(* size.  One inductive invariant carries the three properties: what is on *)
(* the wire was sealed under the iv in front of it, so that its tag is the *)
(* one that Final computes, and a context that got no cipher is one whose  *)
(* first Init failed.                                                      *)
(***************************************************************************)
EXTENDS Sudp, TLAPS

\* A context that was allocated and got no cipher is recorded in broken.
BareIsBroken ==
  /\ enc.state = "bare" => "sendto" \in broken
  /\ dec.state = "bare" => "recvfrom" \in broken

IInv == NonceOnce /\ BareIsBroken

-----------------------------------------------------------------------------
(* The functions of cipher.cc *)

(* The context that encrypt or decrypt leaves is a context, bare only if   *)
(* Init failed now or in an earlier call.                                  *)
LEMMA KeyedContext ==
  ASSUME NEW c \in Context, NEW failed, NEW iv \in Iv \cup {NoIv}
  PROVE  /\ Keyed(c, failed, iv) \in Context
         /\ Keyed(c, failed, iv).state = Allocated(c, failed).state
  BY DEF Context, Keyed, Allocated

(* A call that succeeds has set the iv it was given.                       *)
LEMMA SuccessKeys ==
  ASSUME NEW c \in Context, NEW failed, NEW iv \in Iv \cup {NoIv},
         Succeeds(c, failed)
  PROVE  Keyed(c, failed, iv).iv = iv
  BY DEF Context, Keyed, Allocated, Succeeds

(* A call of which no call into OpenSSL fails succeeds in every context    *)
(* but a bare one.                                                         *)
LEMMA SucceedsUnlessBare ==
  ASSUME NEW c \in Context, NEW failed \in {"none", "rand"}
  PROVE  Succeeds(c, failed) <=> ~Breaks(c, failed)
  BY DEF Context, Allocated, Succeeds, Breaks

(* Whatever the cipher, encrypt keys its context and makes a datagram with *)
(* the iv in front, sealed under that iv if it succeeds.                   *)
LEMMA EncryptSeals ==
  ASSUME NEW c \in Context, NEW failed, NEW iv \in Iv, NEW p \in Packet
  PROVE  LET sealed == Encrypt(c, failed, iv, p)
         IN  /\ sealed.ctx \in Context
             /\ sealed.ctx.state = Allocated(c, failed).state
             /\ sealed.ok = Succeeds(c, failed)
             /\ sealed.ok \in BOOLEAN
             /\ sealed.d \in Datagram
             /\ sealed.d.prefix = iv
             /\ sealed.ok => sealed.d.iv = iv
<1>1. iv \in Iv \cup {NoIv}
  OBVIOUS
<1>2. Encrypt(c, failed, iv, p) = aes_128_gcm_encrypt(c, failed, iv, p)
  BY DEF Encrypt, chacha20_poly1305_encrypt
<1>3. Keyed(c, failed, iv).iv \in Iv \cup {NoIv}
  BY <1>1, KeyedContext DEF Context
<1>4. Succeeds(c, failed) => Keyed(c, failed, iv).iv = iv
  BY <1>1, SuccessKeys
<1>5. Succeeds(c, failed) \in BOOLEAN
  BY DEF Succeeds
<1> QED
  BY <1>1, <1>2, <1>3, <1>4, <1>5, KeyedContext DEF aes_128_gcm_encrypt, Datagram

(* Whatever the cipher, decrypt keys its context, and what it opens is     *)
(* whole and was sealed under the iv in front of it; aes_128_gcm opens     *)
(* whatever is so.                                                         *)
LEMMA DecryptOpens ==
  ASSUME NEW c \in Context, NEW failed, NEW d \in Datagram \cup Stray, NEW n \in Int
  PROVE  LET opened == Decrypt(c, failed, d, n)
         IN  /\ opened.ctx \in Context
             /\ opened.ctx.state = Allocated(c, failed).state
             /\ opened.ok \in BOOLEAN
             /\ opened.pkt = [data |-> d.pkt.data, len |-> n - MinCap]
             /\ opened.ok => n = Size(d) /\ d.prefix = d.iv
             /\ Aead = "aes_128_gcm" /\ Succeeds(c, failed) /\ d.prefix = d.iv
                  /\ n = Size(d) => opened.ok
<1> DEFINE gcm == aes_128_gcm_decrypt(c, failed, d, n)
<1>1. d.prefix \in Iv \cup {NoIv}
  BY DEF Datagram, Stray
<1>2. /\ gcm.ctx = Keyed(c, failed, d.prefix)
      /\ gcm.ok = (Succeeds(c, failed) /\ Keyed(c, failed, d.prefix).iv = d.iv /\ n = Size(d))
      /\ gcm.pkt = [data |-> d.pkt.data, len |-> n - MinCap]
  BY DEF aes_128_gcm_decrypt
<1>3. gcm.ctx \in Context /\ gcm.ctx.state = Allocated(c, failed).state
  BY <1>1, <1>2, KeyedContext
<1>4. Succeeds(c, failed) => Keyed(c, failed, d.prefix).iv = d.prefix
  BY <1>1, SuccessKeys
<1>5. CASE Aead = "aes_128_gcm"
  <2>1. Decrypt(c, failed, d, n) = gcm
    BY <1>5 DEF Decrypt
  <2> HIDE DEF gcm
  <2>2. gcm.ok \in BOOLEAN
    BY <1>2 DEF Succeeds
  <2> QED
    BY <1>2, <1>3, <1>4, <2>1, <2>2
<1>6. CASE Aead # "aes_128_gcm"
  <2>1. Decrypt(c, failed, d, n) = [gcm EXCEPT !.ok = FALSE]
    BY <1>6 DEF Decrypt, chacha20_poly1305_decrypt
  <2>2. /\ Decrypt(c, failed, d, n).ok = FALSE
        /\ Decrypt(c, failed, d, n).ctx = gcm.ctx
        /\ Decrypt(c, failed, d, n).pkt = gcm.pkt
    BY <2>1 DEF aes_128_gcm_decrypt
  <2> HIDE DEF gcm
  <2> QED
    BY <1>2, <1>3, <1>6, <2>2
<1> QED
  BY <1>5, <1>6

-----------------------------------------------------------------------------
(* The inductive invariant *)

LEMMA InitInv == Init => IInv
<1> SUFFICES ASSUME Init PROVE IInv
  OBVIOUS
<1>1. enc \in Context /\ dec \in Context
  BY DEF Init, Context
<1>2. TypeOK
  BY <1>1 DEF Init, TypeOK
<1>3. QED
  BY <1>2 DEF Init, IInv, NonceOnce, BareIsBroken

(* A datagram that goes out is sealed under the iv in front of it, and     *)
(* that iv is new unless RAND_bytes failed.                                *)
LEMMA SendToInv ==
  ASSUME IInv, NEW p \in Packet, NEW failed \in SendFailures, SendTo(p, failed)
  PROVE  IInv'
<1> DEFINE sealed(iv) == Encrypt(enc, failed, iv, p)
<1>1. PICK iv \in RandBytes(failed) :
        /\ enc' = sealed(iv).ctx
        /\ wire' = IF sealed(iv).ok /\ failed # "sendto"
                   THEN wire \cup {sealed(iv).d} ELSE wire
        /\ drawn' = drawn \cup {iv}
        /\ unchecked' = (unchecked \/ failed = "rand")
        /\ broken' = IF Breaks(enc, failed) THEN broken \cup {"sendto"} ELSE broken
        /\ last' = [kind |-> "sendto", thrown |-> ~sealed(iv).ok \/ failed = "sendto",
                    failed |-> failed, d |-> sealed(iv).d, pkt |-> p]
        /\ dec' = dec
        /\ down' = down
  BY DEF SendTo
<1>2. iv \in Iv /\ (failed # "rand" => iv \notin drawn)
  BY DEF RandBytes
<1>3. enc \in Context
  BY DEF IInv, NonceOnce, TypeOK
<1>4. /\ sealed(iv).ctx \in Context
      /\ sealed(iv).ctx.state = Allocated(enc, failed).state
      /\ sealed(iv).ok \in BOOLEAN
      /\ sealed(iv).d \in Datagram
      /\ sealed(iv).d.prefix = iv
      /\ sealed(iv).ok => sealed(iv).d.iv = iv
  BY <1>2, <1>3, EncryptSeals
<1> HIDE DEF sealed
<1>5. TypeOK'
  BY <1>1, <1>2, <1>4 DEF IInv, NonceOnce, TypeOK
<1>6. \A d \in wire' : d.iv = d.prefix /\ d.iv \in drawn'
  BY <1>1, <1>4 DEF IInv, NonceOnce
<1>7. \A d, e \in wire' : d.iv = e.iv /\ d # e => unchecked'
  <2>1. CASE failed = "rand" \/ unchecked
    BY <1>1, <2>1
  <2>2. CASE failed # "rand" /\ ~unchecked
    <3>1. \A d \in wire : d.iv # iv
      BY <1>2, <2>2 DEF IInv, NonceOnce
    <3>2. \A d, e \in wire : d.iv = e.iv => d = e
      BY <2>2 DEF IInv, NonceOnce
    <3>3. \A d \in wire' : d \in wire \/ (d = sealed(iv).d /\ d.iv = iv)
      BY <1>1, <1>4
    <3>4. QED
      BY <3>1, <3>2, <3>3
  <2>3. QED
    BY <2>1, <2>2
<1>8. BareIsBroken'
  BY <1>1, <1>4 DEF IInv, BareIsBroken, Breaks
<1>9. QED
  BY <1>5, <1>6, <1>7, <1>8 DEF IInv, NonceOnce

LEMMA ReceivedLength ==
  ASSUME NEW d \in Datagram
  PROVE  /\ Size(d) \in Nat /\ Received(d) \in Int
         /\ Received(d) = Size(d) <=> Size(d) <= Asked
         /\ d.pkt.len \in Nat /\ d.pkt.len <= BuffSize
         /\ Size(d) - MinCap = d.pkt.len
<1>1. d.pkt \in Packet
  BY DEF Datagram
<1>2. d.pkt.len \in Lengths
  BY <1>1 DEF Packet
<1>3. d.pkt.len \in Nat /\ d.pkt.len <= BuffSize
  <2>1. d.pkt.len \in 0..BuffSize
    BY <1>2, SudpAssumption
  <2>2. QED
    BY <2>1, SudpAssumption
<1>4. MinCap \in Nat /\ Asked \in Int
  BY SudpAssumption DEF MinCap, Asked
<1>5. Size(d) \in Nat /\ Size(d) - MinCap = d.pkt.len
  BY <1>3, <1>4 DEF Size
<1>6. QED
  BY <1>3, <1>4, <1>5 DEF Received

LEMMA StrayLength ==
  ASSUME NEW d \in Stray
  PROVE  /\ d.prefix \in Iv /\ d.iv = NoIv /\ d.prefix # d.iv
         /\ d.pkt.data \in Payload /\ Size(d) \in Nat /\ Received(d) \in Int
<1>1. PICK n \in Strays : d.pkt.len = n - MinCap
  BY DEF Stray
<1>2. n \in Nat /\ MinCap \in Nat /\ Asked \in Int
  BY SudpAssumption DEF MinCap, Asked
<1>3. Size(d) = n
  BY <1>1, <1>2 DEF Size
<1>4. d.prefix \in Iv /\ d.iv = NoIv /\ d.pkt.data \in Payload
  BY DEF Stray
<1>5. d.prefix # d.iv
  BY <1>4, SudpAssumption
<1>6. QED
  BY <1>2, <1>3, <1>4, <1>5 DEF Received

LEMMA RecvFromInv ==
  ASSUME IInv, NEW d \in wire \cup Stray, NEW failed \in RecvFailures, RecvFrom(d, failed)
  PROVE  IInv'
<1> DEFINE opened == Decrypt(dec, failed, d, Received(d))
<1>1. /\ dec' = IF failed = "recvfrom" THEN dec ELSE opened.ctx
      /\ broken' = IF failed # "recvfrom" /\ Breaks(dec, failed)
                   THEN broken \cup {"recvfrom"} ELSE broken
      /\ last' = [kind |-> "recvfrom", thrown |-> ~opened.ok \/ failed = "recvfrom",
                  failed |-> failed, d |-> d, pkt |-> opened.pkt]
      /\ down' \in BOOLEAN
      /\ UNCHANGED <<enc, wire, drawn, unchecked>>
  BY DEF RecvFrom
<1>2. d \in Datagram \cup Stray /\ dec \in Context
  BY DEF IInv, NonceOnce, TypeOK
<1>3. d.pkt.data \in Payload /\ Received(d) \in Int
  BY <1>2, ReceivedLength, StrayLength DEF Datagram, Packet
<1>4. /\ opened.ctx \in Context
      /\ opened.ctx.state = Allocated(dec, failed).state
      /\ opened.pkt = [data |-> d.pkt.data, len |-> Received(d) - MinCap]
  BY <1>2, <1>3, DecryptOpens
<1>5. opened.pkt \in [data : Payload, len : Int]
  BY <1>3, <1>4, SudpAssumption DEF MinCap
<1> HIDE DEF opened
<1>6. TypeOK'
  BY <1>1, <1>2, <1>4, <1>5 DEF IInv, NonceOnce, TypeOK
<1>7. BareIsBroken'
  BY <1>1, <1>4 DEF IInv, BareIsBroken, Breaks
<1>8. QED
  BY <1>1, <1>6, <1>7 DEF IInv, NonceOnce

LEMMA StepInv == IInv /\ [Next]_vars => IInv'
<1> SUFFICES ASSUME IInv, [Next]_vars PROVE IInv'
  OBVIOUS
<1>1. ASSUME NEW p \in Packet, NEW failed \in SendFailures, SendTo(p, failed)
      PROVE  IInv'
  BY <1>1, SendToInv
<1>2. ASSUME NEW d \in wire \cup Stray, NEW failed \in RecvFailures, RecvFrom(d, failed)
      PROVE  IInv'
  BY <1>2, RecvFromInv
<1>3. CASE UNCHANGED vars
  BY <1>3 DEF vars, IInv, NonceOnce, TypeOK, BareIsBroken
<1>4. QED
  BY <1>1, <1>2, <1>3 DEF Next

-----------------------------------------------------------------------------
(* The theorems *)

(* Every datagram is sealed under the iv in front of it, and no two under  *)
(* one iv, unless RAND_bytes failed.                                       *)
THEOREM NoncesOnce == Spec => []NonceOnce
<1>1. IInv => NonceOnce
  BY DEF IInv
<1>2. QED
  BY <1>1, InitInv, StepInv, PTL DEF Spec

(* A packet that recvfrom returns is one that a peer sent, whole.          *)
THEOREM PacketsWhole == Spec => []WholePackets
<1>1. Init => WholePackets
  BY DEF Init, WholePackets
<1>2. IInv /\ WholePackets /\ [Next]_vars => WholePackets'
  <2> SUFFICES ASSUME IInv, WholePackets, [Next]_vars PROVE WholePackets'
    OBVIOUS
  <2>1. ASSUME NEW p \in Packet, NEW failed \in SendFailures, SendTo(p, failed)
        PROVE  WholePackets'
    BY <2>1 DEF SendTo, WholePackets
  <2>2. ASSUME NEW d \in wire \cup Stray, NEW failed \in RecvFailures, RecvFrom(d, failed)
        PROVE  WholePackets'
    <3> DEFINE opened == Decrypt(dec, failed, d, Received(d))
    <3>1. last' = [kind |-> "recvfrom", thrown |-> ~opened.ok \/ failed = "recvfrom",
                   failed |-> failed, d |-> d, pkt |-> opened.pkt]
      BY <2>2 DEF RecvFrom
    <3>2. d \in Datagram \cup Stray /\ dec \in Context /\ wire' = wire
      BY <2>2 DEF RecvFrom, IInv, NonceOnce, TypeOK
    <3>3. /\ opened.pkt = [data |-> d.pkt.data, len |-> Received(d) - MinCap]
          /\ opened.ok => Received(d) = Size(d) /\ d.prefix = d.iv
      BY <3>2, ReceivedLength, StrayLength, DecryptOpens
    <3>4. CASE d \in wire
      <4>1. d.pkt = [data |-> d.pkt.data, len |-> d.pkt.len]
        BY <3>4 DEF IInv, NonceOnce, TypeOK, Datagram, Packet
      <4>2. d.pkt.len <= BuffSize /\ Size(d) - MinCap = d.pkt.len
        BY <3>4, ReceivedLength DEF IInv, NonceOnce, TypeOK
      <4> HIDE DEF opened
      <4>3. QED
        BY <3>1, <3>2, <3>3, <3>4, <4>1, <4>2 DEF WholePackets
    <3>5. CASE d \in Stray
      <4>1. ~opened.ok
        BY <3>3, <3>5, StrayLength
      <4> HIDE DEF opened
      <4>2. QED
        BY <3>1, <4>1 DEF WholePackets
    <3>6. QED
      BY <3>4, <3>5
  <2>3. CASE UNCHANGED vars
    BY <2>3 DEF vars, WholePackets
  <2>4. QED
    BY <2>1, <2>2, <2>3 DEF Next
<1>3. QED
  BY <1>1, <1>2, InitInv, StepInv, PTL DEF Spec

(* With aes_128_gcm a call throws only for a reason, and what was sealed   *)
(* opens: no early failure and no stray makes a later call fail.           *)
THEOREM OpensWhatWasSealed ==
  ASSUME Aead = "aes_128_gcm"
  PROVE  Spec => []ThrowsForAReason
<1>1. Init => ThrowsForAReason
  BY DEF Init, ThrowsForAReason
<1>2. IInv /\ ThrowsForAReason /\ [Next]_vars => ThrowsForAReason'
  <2> SUFFICES ASSUME IInv, ThrowsForAReason, [Next]_vars PROVE ThrowsForAReason'
    OBVIOUS
  <2>1. ASSUME NEW p \in Packet, NEW failed \in SendFailures, SendTo(p, failed)
        PROVE  ThrowsForAReason'
    <3> DEFINE sealed(iv) == Encrypt(enc, failed, iv, p)
    <3>1. PICK iv \in RandBytes(failed) :
            /\ broken' = IF Breaks(enc, failed) THEN broken \cup {"sendto"} ELSE broken
            /\ last' = [kind |-> "sendto", thrown |-> ~sealed(iv).ok \/ failed = "sendto",
                        failed |-> failed, d |-> sealed(iv).d, pkt |-> p]
      BY <2>1 DEF SendTo
    <3>2. enc \in Context /\ iv \in Iv
      BY DEF IInv, NonceOnce, TypeOK, RandBytes
    <3>3. /\ sealed(iv).ok = Succeeds(enc, failed)
          /\ sealed(iv).ok \in BOOLEAN
      BY <3>2, EncryptSeals
    <3>4. CASE failed \in {"none", "rand"}
      <4>1. ~sealed(iv).ok => Breaks(enc, failed)
        BY <3>2, <3>3, <3>4, SucceedsUnlessBare
      <4> HIDE DEF sealed
      <4>2. QED
        BY <3>1, <3>4, <4>1 DEF ThrowsForAReason
    <3>5. CASE failed \notin {"none", "rand"}
      <4> HIDE DEF sealed
      <4>1. QED
        BY <3>1, <3>5 DEF ThrowsForAReason
    <3>6. QED
      BY <3>4, <3>5
  <2>2. ASSUME NEW d \in wire \cup Stray, NEW failed \in RecvFailures, RecvFrom(d, failed)
        PROVE  ThrowsForAReason'
    <3> DEFINE opened == Decrypt(dec, failed, d, Received(d))
    <3>1. /\ broken' = IF failed # "recvfrom" /\ Breaks(dec, failed)
                       THEN broken \cup {"recvfrom"} ELSE broken
          /\ last' = [kind |-> "recvfrom", thrown |-> ~opened.ok \/ failed = "recvfrom",
                      failed |-> failed, d |-> d, pkt |-> opened.pkt]
      BY <2>2 DEF RecvFrom
    <3>2. d \in Stray \/ (d \in Datagram /\ d.prefix = d.iv)
      BY DEF IInv, NonceOnce, TypeOK
    <3>3. dec \in Context
      BY DEF IInv, NonceOnce, TypeOK
    <3>4. CASE d \in Stray
      <4> HIDE DEF opened
      <4>1. QED
        BY <3>1, <3>4 DEF ThrowsForAReason
    <3>5. CASE failed = "none" /\ d \notin Stray
      <4>1. Breaks(dec, failed) \/ Succeeds(dec, failed)
        BY <3>3, <3>5, SucceedsUnlessBare
      <4>2. Size(d) \in Nat /\ Asked \in Int /\ Received(d) \in Int
        BY <3>2, <3>5, ReceivedLength, SudpAssumption DEF Asked, MinCap
      <4>3. Size(d) > Asked \/ Received(d) = Size(d)
        BY <3>2, <3>5, <4>2, ReceivedLength
      <4>4. Succeeds(dec, failed) /\ Received(d) = Size(d) => opened.ok
        BY <3>2, <3>3, <3>5, <4>2, DecryptOpens
      <4> HIDE DEF opened
      <4>5. QED
        BY <3>1, <3>5, <4>1, <4>3, <4>4 DEF ThrowsForAReason
    <3>6. CASE failed # "none"
      <4>1. failed \notin {"none", "rand"}
        BY <3>6 DEF RecvFailures, Calls
      <4> HIDE DEF opened
      <4>2. QED
        BY <3>1, <4>1 DEF ThrowsForAReason
    <3>7. QED
      BY <3>4, <3>5, <3>6
  <2>3. CASE UNCHANGED vars
    BY <2>3 DEF vars, ThrowsForAReason
  <2>4. QED
    BY <2>1, <2>2, <2>3 DEF Next
<1>3. QED
  BY <1>1, <1>2, InitInv, StepInv, PTL DEF Spec
=============================================================================
