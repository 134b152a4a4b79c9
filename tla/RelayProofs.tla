---------------------------- MODULE RelayProofs ----------------------------
(***************************************************************************)
(* The safety of Relay for every number of clients and endpoints, however  *)
(* many datagrams are under way, and every Expire; of Startup, which leads *)
(* up to it, for any platforms and texts; and what the parsers of Addr     *)
(* make of texts of every length.                                          *)
(***************************************************************************)
EXTENDS Relay, Startup, SequenceTheorems, FiniteSetTheorems, WellFoundedInduction, TLAPS

(* What is under way to the server, or already in the thread that read it, *)
(* names an endpoint from which the packet's client has sent.              *)
HeardOnTheWay ==
  /\ \A d \in toServer : d.ep \in sent[d.pkt]
  /\ n2t.pc \in {"put", "tun_write"} => n2t.client \in sent[n2t.pkt]

(* A put keeps its session until Expire seconds later, at least.           *)
PutsLast ==
  \A v \in Vip :
    /\ heard[v] <= clock
    /\ heard[v] >= 0 /\ clock < heard[v] + Expire =>
         session[v] # Absent /\ session[v].t >= heard[v] + Expire

IInv ==
  /\ TypeOK
  /\ HeardOnTheWay
  /\ ReplyWhereHeard
  /\ PutsLast
  /\ n2t.pc = "tun_write" => heard[n2t.pkt] >= 0
  /\ DownOnlyForStrangers

-----------------------------------------------------------------------------

LEMMA InitInv == Init => IInv
<1> SUFFICES ASSUME Init PROVE IInv
  OBVIOUS
<1>1. TypeOK
  <2>1. /\ clock \in 0..MaxTime
        /\ session \in [Vip -> [conn : Endpoint, t : Nat] \cup {Absent}]
        /\ home \in [Vip -> Endpoint \cup {NoEndpoint}]
        /\ sent \in [Vip -> SUBSET Endpoint]
        /\ heard \in [Vip -> -1..MaxTime]
    BY RelayAssumption DEF Init, Table!Init
  <2>2. QED
    BY <2>1 DEF Init, Table!Init, TypeOK
<1>2. HeardOnTheWay /\ ReplyWhereHeard
  BY DEF Init, Table!Init, HeardOnTheWay, ReplyWhereHeard
<1>3. PutsLast
  BY RelayAssumption DEF Init, Table!Init, PutsLast
<1>4. QED
  BY <1>1, <1>2, <1>3 DEF Init, IInv, DownOnlyForStrangers

(* Clients and the network change no session, no thread and no time; a     *)
(* datagram gets its endpoint from where its client is.                    *)
LEMMA OutsideInv ==
  ASSUME IInv,
         \/ Lose
         \/ \E v \in Vip : client(v)
         \/ \E v \in Vip, e \in Endpoint \cup {NoEndpoint} : Roam(v, e)
  PROVE  IInv'
<1>1. CASE Lose
  BY <1>1 DEF Lose, table, IInv, TypeOK, HeardOnTheWay, ReplyWhereHeard, PutsLast,
              DownOnlyForStrangers
<1>2. ASSUME NEW v \in Vip, ClientTun2Net(v)
      PROVE  IInv'
  <2>1. home[v] \in Endpoint
    BY <1>2 DEF ClientTun2Net, IInv, TypeOK
  <2>2. TypeOK'
    BY <1>2, <2>1 DEF ClientTun2Net, table, IInv, TypeOK, Datagram
  <2>3. \A u \in Vip : sent[u] \subseteq sent'[u]
    BY <1>2 DEF ClientTun2Net, IInv, TypeOK
  <2>4. HeardOnTheWay' /\ ReplyWhereHeard'
    BY <1>2, <2>1, <2>3
       DEF ClientTun2Net, table, IInv, TypeOK, Datagram, HeardOnTheWay, ReplyWhereHeard
  <2>5. QED
    BY <1>2, <2>2, <2>4
       DEF ClientTun2Net, table, IInv, PutsLast, DownOnlyForStrangers
<1>3. ASSUME NEW v \in Vip, NEW d \in toClient, NEW kept \in BOOLEAN,
             ClientNet2Tun(v, d, kept)
      PROVE  IInv'
  BY <1>3 DEF ClientNet2Tun, table, IInv, TypeOK, HeardOnTheWay, ReplyWhereHeard,
              PutsLast, DownOnlyForStrangers
<1>4. ASSUME NEW v \in Vip, NEW e \in Endpoint \cup {NoEndpoint}, Roam(v, e)
      PROVE  IInv'
  BY <1>4 DEF Roam, table, network, IInv, TypeOK, HeardOnTheWay, ReplyWhereHeard,
              PutsLast, DownOnlyForStrangers
<1>5. QED
  BY <1>1, <1>2, <1>3, <1>4 DEF client

(* server_net2tun: the session it puts names the datagram's endpoint, and  *)
(* lasts from now on.                                                      *)
LEMMA Net2TunInv ==
  ASSUME IInv, server_net2tun
  PROVE  IInv'
<1>1. ASSUME NEW d \in toServer, NEW kept \in BOOLEAN, NEW opens \in BOOLEAN,
             NetRecv(d, kept, opens)
      PROVE  IInv'
  <2>1. d.ep \in Endpoint /\ d.pkt \in Vip /\ d.ep \in sent[d.pkt]
    BY DEF IInv, TypeOK, Datagram, HeardOnTheWay
  <2>2. TypeOK'
    BY <1>1, <2>1 DEF NetRecv, table, IInv, TypeOK
  <2>3. HeardOnTheWay'
    BY <1>1, <2>1 DEF NetRecv, IInv, HeardOnTheWay
  <2>4. QED
    BY <1>1, <2>2, <2>3
       DEF NetRecv, table, IInv, ReplyWhereHeard, PutsLast, DownOnlyForStrangers
<1>2. CASE NetPut
  <2> DEFINE v == n2t.pkt
  <2>1. v \in Vip /\ n2t.client \in Endpoint /\ n2t.client \in sent[v]
    BY <1>2 DEF NetPut, IInv, TypeOK, HeardOnTheWay
  <2>2. /\ session' = [session EXCEPT ![v] = [conn |-> n2t.client, t |-> clock + Expire]]
        /\ heard' = [heard EXCEPT ![v] = clock]
        /\ [conn |-> n2t.client, t |-> clock + Expire] # Absent
        /\ clock + Expire \in Nat
    BY <1>2, <2>1, RelayAssumption DEF NetPut, Table!Put, IInv, TypeOK
  <2>3. TypeOK'
    BY <1>2, <2>1, <2>2, RelayAssumption DEF NetPut, Table!Put, network, IInv, TypeOK
  <2>4. HeardOnTheWay' /\ ReplyWhereHeard'
    BY <1>2, <2>1, <2>2
       DEF NetPut, network, IInv, TypeOK, HeardOnTheWay, ReplyWhereHeard
  <2>5. PutsLast'
    BY <1>2, <2>1, <2>2, RelayAssumption DEF NetPut, Table!Put, IInv, TypeOK, PutsLast
  <2>6. QED
    BY <1>2, <2>1, <2>2, <2>3, <2>4, <2>5
       DEF NetPut, Table!Put, IInv, TypeOK, DownOnlyForStrangers
<1>3. CASE NetTunWrite
  BY <1>3 DEF NetTunWrite, table, network, IInv, TypeOK, HeardOnTheWay, ReplyWhereHeard,
              PutsLast, DownOnlyForStrangers
<1>4. ASSUME NEW e \in Endpoint, NEW short \in BOOLEAN, NetRecvStray(e, short)
      PROVE  IInv'
  <2>1. /\ n2t' \in [pc : {"recvfrom", "decrypt", "put", "tun_write"},
                     pkt : Vip \cup {NoVip}, client : Endpoint \cup {NoEndpoint}]
        /\ down' \in BOOLEAN
        /\ \/ ~down' /\ n2t'.pc = "recvfrom"
           \/ down' /\ n2t'.pc = "decrypt"
    <3>1. n2t \in [pc : {"recvfrom", "decrypt", "put", "tun_write"},
                   pkt : Vip \cup {NoVip}, client : Endpoint \cup {NoEndpoint}]
      BY DEF IInv, TypeOK
    <3>2. down' \in BOOLEAN
      BY <1>4 DEF NetRecvStray
    <3>3. n2t' = [n2t EXCEPT !.pc = IF down' THEN "decrypt" ELSE "recvfrom", !.client = e]
      BY <1>4 DEF NetRecvStray
    <3>4. CASE down'
      <4>1. n2t' = [n2t EXCEPT !.pc = "decrypt", !.client = e]
        BY <3>3, <3>4
      <4>2. QED
        BY <3>1, <3>2, <3>4, <4>1
    <3>5. CASE ~down'
      <4>1. n2t' = [n2t EXCEPT !.pc = "recvfrom", !.client = e]
        BY <3>3, <3>5
      <4>2. QED
        BY <3>1, <3>2, <3>5, <4>1
    <3>6. QED
      BY <3>4, <3>5
  <2>2. TypeOK'
    BY <1>4, <2>1 DEF NetRecvStray, table, network, IInv, TypeOK
  <2>3. DownOnlyForStrangers'
    BY <2>1 DEF DownOnlyForStrangers
  <2>4. QED
    BY <1>4, <2>1, <2>2, <2>3
       DEF NetRecvStray, table, network, IInv, HeardOnTheWay, ReplyWhereHeard, PutsLast
<1>5. QED
  BY <1>1, <1>2, <1>3, <1>4 DEF server_net2tun

(* server_tun2net: a lookup only makes its session last longer; it misses  *)
(* a client that was heard only when Expire seconds have passed.           *)
LEMMA Tun2NetInv ==
  ASSUME IInv, server_tun2net
  PROVE  IInv'
<1>1. ASSUME NEW v \in Vip, TunRead(v)
      PROVE  IInv'
  BY <1>1 DEF TunRead, table, network, IInv, TypeOK, HeardOnTheWay, ReplyWhereHeard,
              PutsLast, DownOnlyForStrangers
<1>2. CASE TunGet
  <2> DEFINE v == t2n.pkt
  <2>1. v \in Vip /\ session[v] \in [conn : Endpoint, t : Nat]
    BY <1>2 DEF TunGet, Table!Get, IInv, TypeOK
  <2>2. /\ session' = [session EXCEPT ![v] = [session[v] EXCEPT !.t = clock + Expire]]
        /\ clock + Expire \in Nat
    BY <1>2, RelayAssumption DEF TunGet, Table!Get, IInv, TypeOK
  <2>3. /\ session'[v] = [conn |-> session[v].conn, t |-> clock + Expire]
        /\ session'[v] # Absent
        /\ \A u \in Vip : u # v => session'[u] = session[u]
    BY <2>1, <2>2, RelayAssumption DEF IInv, TypeOK
  <2>4. TypeOK'
    <3>1. session' \in [Vip -> [conn : Endpoint, t : Nat] \cup {Absent}]
      BY <2>1, <2>2 DEF IInv, TypeOK
    <3>2. ret' \in Endpoint
      BY <1>2, <2>1 DEF TunGet, Table!Get
    <3>3. QED
      BY <1>2, <2>1, <3>1, <3>2 DEF TunGet, Table!Get, network, IInv, TypeOK
  <2>5. HeardOnTheWay' /\ ReplyWhereHeard'
    <3>1. ret' = session[v].conn /\ session[v].conn \in sent[v]
      BY <1>2 DEF TunGet, Table!Get, IInv, TypeOK, ReplyWhereHeard
    <3>2. QED
      BY <1>2, <2>1, <2>3, <3>1
         DEF TunGet, network, IInv, TypeOK, HeardOnTheWay, ReplyWhereHeard
  <2>6. PutsLast'
    BY <1>2, <2>1, <2>3, RelayAssumption DEF TunGet, Table!Get, IInv, TypeOK, PutsLast
  <2>7. QED
    BY <1>2, <2>4, <2>5, <2>6
       DEF TunGet, Table!Get, IInv, DownOnlyForStrangers
<1>3. CASE TunMiss
  <2>1. /\ t2n.pkt \in Vip
        /\ heard[t2n.pkt] < 0 \/ clock >= heard[t2n.pkt] + Expire
    BY <1>3, RelayAssumption DEF TunMiss, Table!Miss, IInv, TypeOK, PutsLast
  <2>2. TypeOK'
    <3>1. down' \in BOOLEAN
      <4>1. down' = (t2n.pkt \in Long)
        BY <1>3 DEF TunMiss
      <4>2. (t2n.pkt \in Long) \in BOOLEAN
        OBVIOUS
      <4>3. QED
        BY <4>1, <4>2
    <3>2. \/ t2n' = t2n
          \/ t2n' = [t2n EXCEPT !.pc = "tun_read", !.pkt = NoVip]
      BY <1>3 DEF TunMiss
    <3>3. /\ t2n' \in [pc : {"tun_read", "get", "sendto"}, pkt : Vip \cup {NoVip},
                       client : Endpoint \cup {NoEndpoint}]
          /\ t2n'.pc # "tun_read" => t2n'.pkt \in Vip
          /\ t2n'.pc # "sendto"
      BY <1>3, <2>1, <3>2 DEF TunMiss, IInv, TypeOK
    <3>4. /\ clock' = clock /\ session' = session /\ ret' = "not_found"
          /\ UNCHANGED <<home, toServer, toClient, n2t, sent, heard>>
      BY <1>3 DEF TunMiss, Table!Miss, network
    <3>5. (n2t.pc = "decrypt" => down)'
      <4>1. ~down /\ n2t' = n2t
        BY <1>3, <3>4 DEF TunMiss
      <4>2. n2t.pc # "decrypt"
        BY <4>1 DEF IInv, TypeOK
      <4>3. QED
        BY <4>1, <4>2
    <3>6. QED
      BY <3>1, <3>3, <3>4, <3>5, Zenon DEF IInv, TypeOK
  <2>3. DownOnlyForStrangers'
    BY <1>3, <2>1 DEF TunMiss, Table!Miss, DownOnlyForStrangers
  <2>4. HeardOnTheWay' /\ ReplyWhereHeard' /\ PutsLast'
    BY <1>3 DEF TunMiss, Table!Miss, network, IInv, TypeOK, HeardOnTheWay,
                ReplyWhereHeard, PutsLast
  <2>5. QED
    BY <1>3, <2>2, <2>3, <2>4 DEF TunMiss, IInv
<1>4. CASE TunSend
  <2>1. t2n.pkt \in Vip /\ t2n.client \in Endpoint /\ t2n.client \in sent[t2n.pkt]
    BY <1>4 DEF TunSend, IInv, TypeOK, ReplyWhereHeard
  <2>2. TypeOK'
    BY <1>4, <2>1 DEF TunSend, table, IInv, TypeOK, Datagram
  <2>3. ReplyWhereHeard'
    BY <1>4, <2>1 DEF TunSend, table, IInv, ReplyWhereHeard
  <2>4. QED
    BY <1>4, <2>2, <2>3
       DEF TunSend, table, IInv, HeardOnTheWay, PutsLast, DownOnlyForStrangers
<1>5. QED
  BY <1>1, <1>2, <1>3, <1>4 DEF server_tun2net

(* Time, and the expiry, which takes only a session whose time is over.    *)
LEMMA ExpiryInv ==
  ASSUME IInv, Tick \/ \E v \in Vip : Forget(v)
  PROVE  IInv'
<1>1. CASE Tick
  <2>1. clock' = clock + 1 /\ clock' \in 0..MaxTime /\ ~down
    BY <1>1, RelayAssumption DEF Tick, Table!Tick, IInv, TypeOK
  <2>2. PutsLast'
    BY <1>1, <2>1, RelayAssumption DEF Tick, Table!Tick, IInv, TypeOK, PutsLast
  <2>3. QED
    BY <1>1, <2>1, <2>2
       DEF Tick, Table!Tick, network, IInv, TypeOK, HeardOnTheWay, ReplyWhereHeard,
           DownOnlyForStrangers
<1>2. ASSUME NEW v \in Vip, Forget(v)
      PROVE  IInv'
  <2>1. PutsLast'
    BY <1>2, RelayAssumption DEF Forget, Table!Forget, IInv, TypeOK, PutsLast
  <2>2. QED
    BY <1>2, <2>1
       DEF Forget, Table!Forget, network, IInv, TypeOK, HeardOnTheWay, ReplyWhereHeard,
           DownOnlyForStrangers
<1>3. QED
  BY <1>1, <1>2

LEMMA StepInv == IInv /\ [Next]_vars => IInv'
<1> SUFFICES ASSUME IInv, [Next]_vars PROVE IInv'
  OBVIOUS
<1>1. CASE Next
  BY <1>1, OutsideInv, Net2TunInv, Tun2NetInv, ExpiryInv DEF Next
<1>2. CASE UNCHANGED vars
  BY <1>2 DEF vars, IInv, TypeOK, HeardOnTheWay, ReplyWhereHeard, PutsLast,
              DownOnlyForStrangers
<1>3. QED
  BY <1>1, <1>2

LEMMA Invariance == Spec => []IInv
BY InitInv, StepInv, PTL DEF Spec

-----------------------------------------------------------------------------

(* Every variable keeps its type: no thread of the relay ends by itself.   *)
THEOREM TypeCorrect == Spec => []TypeOK
<1>1. IInv => TypeOK
  BY DEF IInv
<1>2. QED
  BY Invariance, <1>1, PTL

(* A packet for a client goes only to endpoints from which it has sent.    *)
THEOREM RepliesWhereHeard == Spec => []ReplyWhereHeard
<1>1. IInv => ReplyWhereHeard
  BY DEF IInv
<1>2. QED
  BY Invariance, <1>1, PTL

(* An answer within Expire seconds of the packet finds its session.        *)
THEOREM AnswersFindSessions == Spec => []AnswerFindsSession
<1>1. IInv => AnswerFindsSession
  BY DEF IInv, PutsLast, AnswerFindsSession
<1>2. QED
  BY Invariance, <1>1, PTL

(* The server goes down only of a datagram shorter than any of a client's, *)
(* or of a packet for an address that is silent or unknown.                *)
THEOREM StrangersOnly == Spec => []DownOnlyForStrangers
<1>1. IInv => DownOnlyForStrangers
  BY DEF IInv
<1>2. QED
  BY Invariance, <1>1, PTL

-----------------------------------------------------------------------------
(* Startup *)

\* Before the socket is made nothing needs it, and no thread runs.
BeforeSocket ==
  pc \in {"init", "arguments", "tun", "address", "socket"} =>
    /\ threads = {}
    /\ sock.fd = "none"
    /\ pc = "socket" => {"tun", "ad"} \subseteq objects

\* From then on the objects are there until the process ends.
WithSocket ==
  pc \in {"connect", "t2n", "n2t", "relays"} =>
    /\ {"tun", "ad", "udp"} \subseteq objects
    /\ sock.fd \in {"open", "failed"}
    /\ pc = "connect" => mode = "client"
    /\ pc \in {"connect", "t2n"} => threads = {}

\* The address is one, from the time it was parsed.
AddressParsed ==
  pc \in {"socket", "connect", "t2n", "n2t", "relays"} =>
    ad = [ip |-> ad.ip, port |-> ad.port]

\* What bind leaves of the address that it was called with.
BoundAsAsked ==
  /\ sock.local = {ad} <=> (failed = {} /\ ad.port # 0)
  /\ failed = {} /\ ~IsZero(ad) => \E b \in sock.local : b.ip = ad.ip

\* Before threads are started the socket is what was asked for.
SocketAsAsked ==
  pc \in {"t2n", "n2t", "relays"} =>
    IF mode = "client" THEN sock.fd = "open" /\ sock.peer = {ad} ELSE BoundAsAsked

Ended ==
  /\ pc = "terminated" => threads = {}
  /\ pc \in {"exit_0", "exit_1"} => threads = {} /\ sock.fd # "open"

StartupInv ==
  /\ pc \in {"init", "arguments", "tun", "address", "socket", "connect", "t2n", "n2t",
             "relays", "terminated", "exit_0", "exit_1"}
  /\ BeforeSocket
  /\ AddressParsed
  /\ WithSocket
  /\ SocketAsAsked
  /\ Ended

-----------------------------------------------------------------------------

LEMMA StartupInitInv == StartupInit => StartupInv
BY DEF StartupInit, NoSocket, StartupInv, BeforeSocket, AddressParsed, WithSocket, SocketAsAsked,
       Ended

\* An exception ends the process, with the socket closed if no thread runs.
LEMMA ThrowInv ==
  ASSUME StartupInv, Throw, UNCHANGED mode
  PROVE  StartupInv'
<1>1. \/ pc' = "terminated" /\ threads' = {}
      \/ pc' = "exit_1" /\ threads' = {} /\ sock'.fd # "open"
  <2>1. CASE threads # {}
    BY <2>1 DEF Throw, Terminate
  <2>2. CASE threads = {} /\ sock.fd = "open"
    <3>1. pc' = "exit_1" /\ threads' = {} /\ sock' = NoSocket("closed")
      BY <2>2 DEF Throw
    <3>2. NoSocket("closed").fd # "open"
      BY DEF NoSocket
    <3>3. QED
      BY <3>1, <3>2
  <2>3. CASE threads = {} /\ sock.fd # "open"
    BY <2>3 DEF Throw
  <2>4. QED
    BY <2>1, <2>2, <2>3
<1>2. QED
  BY <1>1 DEF StartupInv, BeforeSocket, AddressParsed, WithSocket, SocketAsAsked, Ended

\* The steps before there is a socket.
LEMMA EarlyInv ==
  ASSUME StartupInv,
         \/ \E fails \in BOOLEAN : InitPlatform(fails)
         \/ Arguments
         \/ TunAlloc
         \/ TunAllocHalf
         \/ Address
  PROVE  StartupInv'
<1> USE DEF arguments, Terminate, Return, StartupInv, BeforeSocket, AddressParsed, WithSocket,
            SocketAsAsked, Ended
<1>1. ASSUME NEW fails \in BOOLEAN, InitPlatform(fails) PROVE StartupInv'
  BY <1>1 DEF InitPlatform
<1>2. CASE Arguments
  BY <1>2 DEF Arguments
<1>3. CASE TunAlloc
  BY <1>3, ThrowInv DEF TunAlloc
<1>4. CASE TunAllocHalf
  BY <1>4, ThrowInv DEF TunAllocHalf
<1>5. CASE Address
  <2>1. CASE Throw
    BY <1>5, <2>1, ThrowInv DEF Address
  <2>2. CASE /\ AddrIpv4(text) # Refused /\ ad' = AddrIpv4(text) /\ pc' = "socket"
             /\ {"tun", "ad"} \subseteq objects' /\ UNCHANGED <<threads, sock>>
    <3>1. ad' = [ip |-> ad'.ip, port |-> ad'.port]
      BY <2>2 DEF AddrIpv4
    <3>2. QED
      BY <1>5, <2>2, <3>1 DEF Address
  <2>3. QED
    BY <1>5, <2>1, <2>2 DEF Address
<1>6. QED
  BY <1>1, <1>2, <1>3, <1>4, <1>5

\* The kernel chooses a port that is not 0.
LEMMA EphemeralPort == \A p \in Ephemeral : p # 0
BY EphemeralAssumption

\* What make_udp leaves, whichever of its calls fails.
LEMMA SocketMade ==
  ASSUME NEW a, a = [ip |-> a.ip, port |-> a.port], MakeUdp(a)
  PROVE  /\ sock'.fd \in {"open", "failed"}
         /\ sock'.local = {a} <=> (failed' = {} /\ a.port # 0)
         /\ failed' = {} /\ ~IsZero(a) => \E b \in sock'.local : b.ip = a.ip
<1>1. ASSUME NEW fd, NEW local, Made(fd, local)
      PROVE  sock'.fd = fd /\ sock'.local = local
  BY <1>1 DEF Made
<1>2. CASE Made("failed", {}) /\ failed' = {"socket"}
  BY <1>1, <1>2
<1>3. CASE Made("open", {}) /\ failed' = {"bind"}
  BY <1>1, <1>3
<1>4. CASE IsZero(a) /\ Made("open", {}) /\ failed' = {}
  <2>1. a.port = 0
    BY <1>4 DEF IsZero, ZeroAddr
  <2>2. QED
    BY <1>1, <1>4, <2>1
<1>5. ASSUME NEW b \in Bound(a), Made("open", {b}), failed' = {}
      PROVE  /\ sock'.fd \in {"open", "failed"}
             /\ sock'.local = {a} <=> (failed' = {} /\ a.port # 0)
             /\ \E c \in sock'.local : c.ip = a.ip
  <2>1. sock'.fd = "open" /\ sock'.local = {b}
    BY <1>1, <1>5
  <2>2. CASE a.port # 0
    BY <1>5, <2>1, <2>2 DEF Bound
  <2>3. CASE a.port = 0
    <3>1. PICK p \in Ephemeral : b = [a EXCEPT !.port = p]
      BY <2>3 DEF Bound
    <3>2. b.ip = a.ip /\ b.port = p
      BY <3>1
    <3>3. p # 0
      BY EphemeralPort
    <3>4. QED
      BY <1>5, <2>1, <2>3, <3>2, <3>3
  <2>4. QED
    BY <2>2, <2>3
<1>6. QED
  BY <1>2, <1>3, <1>4, <1>5 DEF MakeUdp

LEMMA SocketInv ==
  ASSUME StartupInv, ServerSocket \/ ClientSocket
  PROVE  StartupInv'
<1>1. CASE ServerSocket
  <2>1. ad = [ip |-> ad.ip, port |-> ad.port]
    BY <1>1 DEF ServerSocket, StartupInv, AddressParsed
  <2>2. BoundAsAsked'
    BY <1>1, <2>1, SocketMade DEF ServerSocket, BoundAsAsked
  <2>3. sock'.fd \in {"open", "failed"}
    BY <1>1, <2>1, SocketMade DEF ServerSocket
  <2>4. QED
    BY <1>1, <2>2, <2>3
       DEF ServerSocket, arguments, StartupInv, BeforeSocket, AddressParsed, WithSocket,
           SocketAsAsked, Ended
<1>2. CASE ClientSocket
  <2>1. sock'.fd \in {"open", "failed"}
    BY <1>2, SocketMade DEF ClientSocket, ZeroAddr
  <2>2. QED
    BY <1>2, <2>1
       DEF ClientSocket, arguments, StartupInv, BeforeSocket, AddressParsed, WithSocket,
           SocketAsAsked, Ended
<1>3. QED
  BY <1>1, <1>2

LEMMA ConnectInv ==
  ASSUME StartupInv, Connect
  PROVE  StartupInv'
<1>1. CASE Throw
  BY <1>1, ThrowInv DEF Connect, arguments
<1>2. CASE sock.fd = "open" /\ sock' = [sock EXCEPT !.peer = {ad}] /\ Return("t2n")
  BY <1>2 DEF Connect, arguments, Return, StartupInv, BeforeSocket, AddressParsed, WithSocket,
              SocketAsAsked, Ended
<1>3. QED
  BY <1>1, <1>2 DEF Connect

LEMMA StartThreadInv ==
  ASSUME StartupInv, StartT2N \/ StartN2T
  PROVE  StartupInv'
<1>1. CASE Throw
  BY <1>1, ThrowInv DEF StartT2N, StartN2T, StartThread, arguments
<1>2. CASE ~Throw
  BY <1>2 DEF StartT2N, StartN2T, StartThread, arguments, StartupInv, BeforeSocket,
              AddressParsed, WithSocket, SocketAsAsked, BoundAsAsked, Ended
<1>3. QED
  BY <1>1, <1>2

LEMMA StartupNextInv == StartupInv /\ [StartupNext]_startup_vars => StartupInv'
<1> SUFFICES ASSUME StartupInv, [StartupNext]_startup_vars PROVE StartupInv'
  OBVIOUS
<1>1. CASE UNCHANGED startup_vars
  BY <1>1 DEF startup_vars, arguments, StartupInv, BeforeSocket, AddressParsed, WithSocket,
              SocketAsAsked, BoundAsAsked, Ended
<1>2. CASE StartupNext
  BY <1>2, EarlyInv, SocketInv, ConnectInv, StartThreadInv DEF StartupNext
<1>3. QED
  BY <1>1, <1>2

LEMMA StartupInvariance == StartupSpec => []StartupInv
BY StartupInitInv, StartupNextInv, PTL DEF StartupSpec

(* Once both threads run, a client's socket is connected to the address it *)
(* was given; a server's is bound to it exactly when the calls that nobody *)
(* looks at went well and the port is not 0 in 16 bits.                    *)
THEOREM AlwaysRelaysAsAsked == StartupSpec => []RelaysAsAsked
<1>1. StartupInv => RelaysAsAsked
  BY DEF StartupInv, SocketAsAsked, BoundAsAsked, RelaysAsAsked
<1>2. QED
  BY <1>1, StartupInvariance, PTL

(* As long as a thread runs the objects it points to exist and the socket  *)
(* is not closed; a process that returns from main leaves neither a thread *)
(* nor an open socket, whichever step fails.                               *)
THEOREM ThreadsAlwaysHaveObjects == StartupSpec => []ThreadsHaveObjects
<1>1. StartupInv => ThreadsHaveObjects
  BY DEF StartupInv, BeforeSocket, WithSocket, Ended, ThreadsHaveObjects
<1>2. QED
  BY <1>1, StartupInvariance, PTL

-----------------------------------------------------------------------------
(* Induction over the length of a text *)

\* A set of numbers that is not empty has a least one.
LEMMA NatLeast ==
  ASSUME NEW T \in SUBSET Nat, T # {}
  PROVE  \E x \in T : \A y \in T : x <= y
<1> DEFINE F == {0..i : i \in T}
           R == StrictSubsetOrdering(Nat)
<1>1. F \subseteq FiniteSubsetsOf(Nat) /\ F # {}
  <2>1. \A i \in T : 0..i \subseteq Nat /\ IsFiniteSet(0..i)
    BY FS_Interval
  <2>2. QED
    BY <2>1 DEF FiniteSubsetsOf
<1>2. \E X \in F : \A Y \in F : ~(<<Y, X>> \in R)
  BY <1>1, FS_StrictSubsetOrderingWellFounded, WFMin
<1>3. PICK x \in T : \A y \in T : ~(<<0..y, 0..x>> \in R)
  BY <1>2
<1>4. ASSUME NEW y \in T, ~(x <= y) PROVE FALSE
  <2>1. 0..y \subseteq 0..x /\ x \in 0..x /\ x \notin 0..y
    BY <1>4
  <2>2. <<0..y, 0..x>> \in R
    BY <2>1 DEF StrictSubsetOrdering
  <2>3. QED
    BY <1>3, <2>2
<1>5. QED
  BY <1>4

\* What holds at 0 and goes from each number to the next holds up to n.
LEMMA UpTo ==
  ASSUME NEW n \in Nat, NEW G, 0 \in G, \A k \in 1..n : k - 1 \in G => k \in G
  PROVE  0..n \subseteq G
<1> DEFINE T == (0..n) \ G
<1>1. SUFFICES ASSUME T # {} PROVE FALSE
  OBVIOUS
<1>2. PICK x \in T : \A y \in T : x <= y
  <2>1. T \in SUBSET Nat
    OBVIOUS
  <2> HIDE DEF T
  <2>2. QED
    BY <1>1, <2>1, NatLeast
<1>3. x \in 1..n /\ x \notin G
  OBVIOUS
<1>4. x - 1 \in 0..n /\ ~(x <= x - 1)
  BY <1>3
<1>5. x - 1 \in G
  BY <1>2, <1>4
<1>6. QED
  BY <1>3, <1>5

-----------------------------------------------------------------------------
(* The folds over a text *)

Top(t) == CHOOSE x \in t : \A y \in t : x >= y

LEMMA TopOf ==
  ASSUME NEW k \in Nat, NEW t \in SUBSET (1..k), t # {}
  PROVE  Top(t) \in t /\ \A y \in t : Top(t) >= y
<1> DEFINE T == {k - x : x \in t}
<1>1. T \in SUBSET Nat /\ T # {}
  <2>1. \A x \in 1..k : k - x \in Nat
    OBVIOUS
  <2>2. \A x \in t : k - x \in Nat
    BY <2>1
  <2>3. QED
    BY <2>2
<1> HIDE DEF T
<1>2. PICK m \in T : \A y \in T : m <= y
  BY <1>1, NatLeast
<1>3. PICK x \in t : m = k - x
  BY DEF T
<1>4. ASSUME NEW y \in t PROVE x >= y
  <2>1. k - y \in T
    BY DEF T
  <2>2. k - x <= k - y
    BY <1>2, <1>3, <2>1
  <2>3. x \in Int /\ y \in Int
    OBVIOUS
  <2>4. QED
    BY <2>2, <2>3
<1>5. QED
  BY <1>4 DEF Top

\* The top of a set that does not go up to k lies below k, and without its top
\* no set that does.
LEMMA TopBelow ==
  ASSUME NEW k \in Nat \ {0}, NEW t \in SUBSET (1..k), t # {}
  PROVE  /\ k \in t => Top(t) = k /\ t \ {Top(t)} \subseteq 1..(k - 1)
         /\ k \notin t => t \subseteq 1..(k - 1)
         /\ Top(t) \in 1..k
<1>1. Top(t) \in t /\ \A y \in t : Top(t) >= y
  BY TopOf
<1>2. \A y \in t : y \in 1..k /\ (y # k => y \in 1..(k - 1))
  OBVIOUS
<1>3. ASSUME k \in t PROVE Top(t) = k
  <2>1. PICK x \in 1..k : x = Top(t)
    BY <1>1
  <2>2. x >= k
    BY <1>1, <1>3, <2>1
  <2>3. x = k
    BY <2>2
  <2>4. QED
    BY <2>1, <2>3
<1>4. QED
  BY <1>1, <1>2, <1>3

\* A fold from the left by F: the value of a set of positions is that of the
\* positions before its last one, and the character there.
FoldedBy(F, s, g) ==
  g = [t \in SUBSET DOMAIN s |->
         IF t = {} THEN 0 ELSE F[g[t \ {Top(t)}], s[Top(t)]]]

\* Every fold over a text has its values.
LEMMA FoldExists ==
  ASSUME NEW F \in [Int \X Int -> Int], NEW s \in Seq(Int)
  PROVE  \E g : g \in [SUBSET DOMAIN s -> Int] /\ FoldedBy(F, s, g)
<1>1. PICK n \in Nat : n = Len(s) /\ DOMAIN s = 1..n /\ \A i \in 1..n : s[i] \in Int
  BY LenProperties, ElementOfSeq
<1> DEFINE Upto(k) == {g \in [SUBSET (1..k) -> Int] : \A t \in SUBSET (1..k) :
                         g[t] = IF t = {} THEN 0 ELSE F[g[t \ {Top(t)}], s[Top(t)]]}
           G == {k \in 0..n : Upto(k) # {}}
<1>2. 0 \in G
  <2> DEFINE g == [t \in SUBSET (1..0) |-> 0]
  <2>1. \A t \in SUBSET (1..0) : t = {}
    OBVIOUS
  <2>2. g \in [SUBSET (1..0) -> Int]
    OBVIOUS
  <2>3. \A t \in SUBSET (1..0) :
          g[t] = IF t = {} THEN 0 ELSE F[g[t \ {Top(t)}], s[Top(t)]]
    BY <2>1
  <2> HIDE DEF g
  <2>4. g \in Upto(0)
    BY <2>2, <2>3
  <2>5. 0 \in 0..n
    OBVIOUS
  <2> HIDE DEF Upto
  <2>6. QED
    BY <2>4, <2>5
<1>3. ASSUME NEW k \in 1..n, k - 1 \in G PROVE k \in G
  <2>1. PICK g : g \in Upto(k - 1)
    BY <1>3
  <2>2. /\ g \in [SUBSET (1..(k - 1)) -> Int]
        /\ \A t \in SUBSET (1..(k - 1)) :
             g[t] = IF t = {} THEN 0 ELSE F[g[t \ {Top(t)}], s[Top(t)]]
    BY <2>1
  <2>3. k \in Nat \ {0} /\ k - 1 \in Nat
    OBVIOUS
  <2>4. PICK h : h = [t \in SUBSET (1..k) |->
                        IF k \in t THEN F[g[t \ {k}], s[k]] ELSE g[t]]
    OBVIOUS
  <2>5. ASSUME NEW t \in SUBSET (1..k)
        PROVE  /\ h[t] \in Int
               /\ h[t] = IF t = {} THEN 0 ELSE F[h[t \ {Top(t)}], s[Top(t)]]
    <3>1. CASE k \in t
      <4>1. Top(t) = k /\ t \ {k} \in SUBSET (1..(k - 1)) /\ t # {}
        BY <2>3, <3>1, TopBelow
      <4>2. k \notin t \ {k} /\ t \ {k} \in SUBSET (1..k)
        OBVIOUS
      <4>3. h[t] = F[g[t \ {k}], s[k]] /\ h[t \ {k}] = g[t \ {k}]
        BY <2>4, <3>1, <4>2
      <4>4. g[t \ {k}] \in Int /\ s[k] \in Int
        BY <1>1, <2>2, <4>1
      <4>5. F[g[t \ {k}], s[k]] \in Int
        BY <4>4
      <4>6. QED
        BY <4>1, <4>3, <4>5
    <3>2. CASE k \notin t
      <4>0. t \in SUBSET (1..(k - 1))
        <5>1. \A y \in 1..k : y # k => y \in 1..(k - 1)
          OBVIOUS
        <5>2. QED
          BY <3>2, <5>1
      <4>1. t \in SUBSET (1..(k - 1)) /\ h[t] = g[t]
        BY <2>4, <3>2, <4>0
      <4>2. k \notin t \ {Top(t)} /\ t \ {Top(t)} \in SUBSET (1..k)
        BY <3>2
      <4>3. h[t \ {Top(t)}] = g[t \ {Top(t)}]
        BY <2>4, <4>2
      <4>4. QED
        BY <2>2, <4>1, <4>3
    <3>3. QED
      BY <3>1, <3>2
  <2>6. h \in [SUBSET (1..k) -> Int]
    BY <2>4, <2>5
  <2>7. h \in Upto(k)
    BY <2>5, <2>6
  <2>8. k \in 0..n
    OBVIOUS
  <2>9. QED
    BY <2>7, <2>8
<1> HIDE DEF Upto
<1>4. n \in G
  <2>1. 0..n \subseteq G
    <3> HIDE DEF G
    <3>1. QED
      BY <1>2, <1>3, UpTo
  <2>2. n \in 0..n
    OBVIOUS
  <2>3. QED
    BY <2>1, <2>2
<1>5. PICK g : g \in Upto(n)
  BY <1>4
<1>6. /\ g \in [SUBSET (1..n) -> Int]
      /\ \A t \in SUBSET (1..n) :
           g[t] = IF t = {} THEN 0 ELSE F[g[t \ {Top(t)}], s[Top(t)]]
  BY <1>5 DEF Upto
<1>7. g = [t \in SUBSET (1..n) |-> IF t = {} THEN 0 ELSE F[g[t \ {Top(t)}], s[Top(t)]]]
  BY <1>6
<1>8. QED
  BY <1>1, <1>6, <1>7 DEF FoldedBy

-----------------------------------------------------------------------------
(* The numbers read from a text *)

\* What a uint16_t keeps of a number.
Bits16(n) == n % 65536

DecimalStep(s, g) ==
  g = [t \in SUBSET DOMAIN s |-> IF t = {} THEN 0 ELSE g[t \ {Top(t)}] * 10 + s[Top(t)]]
PortStep(s, g) ==
  g = [t \in SUBSET DOMAIN s |->
         IF t = {} THEN 0 ELSE Bits16(g[t \ {Top(t)}] * 10 + s[Top(t)])]

\* The decimal number, and the port, of each of the text's beginnings.
Decimals(s, v) ==
  /\ v \in [0..Len(s) -> Int]
  /\ v[0] = 0
  /\ \A k \in 1..Len(s) : v[k] = v[k - 1] * 10 + s[k]
Ports(s, v) ==
  /\ v \in [0..Len(s) -> Int]
  /\ v[0] = 0
  /\ \A k \in 1..Len(s) : v[k] = Bits16(v[k - 1] * 10 + s[k])

\* The beginnings of a text, as sets of positions.
LEMMA Beginnings ==
  ASSUME NEW n \in Nat, NEW k \in 1..n
  PROVE  /\ 1..k \in SUBSET (1..n) /\ 1..k # {}
         /\ Top(1..k) = k
         /\ (1..k) \ {k} = 1..(k - 1)
<1>1. 1..k \in SUBSET (1..n) /\ k \in 1..k
  <2>1. \A i \in 1..k : i \in 1..n
    OBVIOUS
  <2>2. k \in 1..k
    OBVIOUS
  <2>3. QED
    BY <2>1, <2>2
<1>2. Top(1..k) = k
  <2>1. k \in Nat \ {0} /\ 1..k \in SUBSET (1..k) /\ 1..k # {}
    BY <1>1
  <2>2. QED
    BY <1>1, <2>1, TopBelow
<1>3. (1..k) \ {k} = 1..(k - 1)
  OBVIOUS
<1>4. QED
  BY <1>1, <1>2, <1>3

\* Decimal reads a text character by character, from the left.
LEMMA DecimalBySteps ==
  ASSUME NEW s \in Seq(Int)
  PROVE  \E v : Decimals(s, v) /\ Decimal(s) = v[Len(s)]
<1> DEFINE F == [p \in Int \X Int |-> p[1] * 10 + p[2]]
<1>1. PICK n \in Nat : n = Len(s) /\ DOMAIN s = 1..n /\ \A i \in 1..n : s[i] \in Int
  BY LenProperties, ElementOfSeq
<1>2. \E g : DecimalStep(s, g)
  <2>1. F \in [Int \X Int -> Int] /\ \A x, y \in Int : F[x, y] = x * 10 + y
    <3>1. \A p \in Int \X Int : p[1] \in Int /\ p[2] \in Int
      OBVIOUS
    <3>2. \A p \in Int \X Int : p[1] * 10 + p[2] \in Int
      BY <3>1
    <3>3. F \in [Int \X Int -> Int]
      BY <3>2
    <3>4. \A x, y \in Int : F[x, y] = x * 10 + y
      OBVIOUS
    <3>5. QED
      BY <3>3, <3>4
  <2> HIDE DEF F
  <2>2. PICK g : g \in [SUBSET DOMAIN s -> Int] /\ FoldedBy(F, s, g)
    BY <2>1, FoldExists
  <2>3. ASSUME NEW t \in SUBSET DOMAIN s, t # {}
        PROVE  F[g[t \ {Top(t)}], s[Top(t)]] = g[t \ {Top(t)}] * 10 + s[Top(t)]
    <3>1. Top(t) \in t
      BY <1>1, <2>3, TopOf
    <3>2. g[t \ {Top(t)}] \in Int /\ s[Top(t)] \in Int
      BY <1>1, <2>2, <3>1
    <3>3. QED
      BY <2>1, <3>2
  <2>4. DecimalStep(s, g)
    BY <2>2, <2>3 DEF FoldedBy, DecimalStep
  <2>5. QED
    BY <2>4
<1>3. PICK g : DecimalStep(s, g) /\ Decimal(s) = g[DOMAIN s]
  <2>1. Decimal(s) = (CHOOSE g : DecimalStep(s, g))[DOMAIN s]
    BY Zenon DEF Decimal, FoldLeft, MapThenFoldSet, Max, Top, DecimalStep
  <2>2. QED
    BY <1>2, <2>1
<1>4. PICK v : v = [k \in 0..n |-> g[1..k]]
  OBVIOUS
<1>5. v[0] = 0 /\ v[n] = g[1..n]
  <2>1. g[{}] = 0 /\ 1..0 = {}
    BY <1>3 DEF DecimalStep
  <2>2. 0 \in 0..n /\ n \in 0..n
    OBVIOUS
  <2>3. QED
    BY <1>4, <2>1, <2>2
<1>6. ASSUME NEW k \in 1..n PROVE v[k] = v[k - 1] * 10 + s[k]
  <2>1. 1..k \in SUBSET (1..n) /\ 1..k # {} /\ Top(1..k) = k
    BY Beginnings
  <2>2. (1..k) \ {k} = 1..(k - 1)
    BY Beginnings
  <2>3. k \in 0..n /\ k - 1 \in 0..n
    OBVIOUS
  <2>4. g[1..k] = g[(1..k) \ {k}] * 10 + s[k]
    BY <1>1, <1>3, <2>1 DEF DecimalStep
  <2>5. QED
    BY <1>4, <2>2, <2>3, <2>4
<1>7. v \in [0..n -> Int]
  <2> DEFINE G == {k \in 0..n : v[k] \in Int}
  <2>1. 0 \in G
    BY <1>5
  <2>2. ASSUME NEW k \in 1..n, k - 1 \in G PROVE k \in G
    <3>1. v[k - 1] \in Int /\ s[k] \in Int /\ k \in 0..n
      BY <1>1, <2>2
    <3>2. v[k - 1] * 10 + s[k] \in Int
      BY <3>1
    <3>3. QED
      BY <1>6, <3>1, <3>2
  <2>3. 0..n \subseteq G
    <3> HIDE DEF G
    <3>1. QED
      BY <2>1, <2>2, UpTo
  <2>4. QED
    BY <1>4, <2>3
<1>8. QED
  BY <1>1, <1>3, <1>5, <1>6, <1>7 DEF Decimals

\* 16 bits of a number are a number.
LEMMA Bits16Int == \A n \in Int : Bits16(n) \in Int
  BY DEF Bits16

\* ReadPort reads a text character by character, in 16 bits.
LEMMA PortBySteps ==
  ASSUME NEW s \in Seq(Int)
  PROVE  \E v : Ports(s, v) /\ ReadPort(s) = v[Len(s)]
<1> DEFINE F == [p \in Int \X Int |-> Bits16(p[1] * 10 + p[2])]
<1>1. PICK n \in Nat : n = Len(s) /\ DOMAIN s = 1..n /\ \A i \in 1..n : s[i] \in Int
  BY LenProperties, ElementOfSeq
<1>2. \E g : PortStep(s, g)
  <2>1. F \in [Int \X Int -> Int] /\ \A x, y \in Int : F[x, y] = Bits16(x * 10 + y)
    <3>1. \A q \in Int \X Int : q[1] \in Int /\ q[2] \in Int
      OBVIOUS
    <3>2. \A q \in Int \X Int : Bits16(q[1] * 10 + q[2]) \in Int
      BY <3>1, Bits16Int
    <3>3. F \in [Int \X Int -> Int]
      BY <3>2
    <3>4. \A x, y \in Int : F[x, y] = Bits16(x * 10 + y)
      OBVIOUS
    <3>5. QED
      BY <3>3, <3>4
  <2> HIDE DEF F
  <2>2. PICK g : g \in [SUBSET DOMAIN s -> Int] /\ FoldedBy(F, s, g)
    BY <2>1, FoldExists
  <2>3. ASSUME NEW t \in SUBSET DOMAIN s, t # {}
        PROVE  F[g[t \ {Top(t)}], s[Top(t)]] = Bits16(g[t \ {Top(t)}] * 10 + s[Top(t)])
    <3>1. Top(t) \in t
      BY <1>1, <2>3, TopOf
    <3>2. g[t \ {Top(t)}] \in Int /\ s[Top(t)] \in Int
      BY <1>1, <2>2, <3>1
    <3>3. QED
      BY <2>1, <3>2
  <2>4. PortStep(s, g)
    BY <2>2, <2>3 DEF FoldedBy, PortStep
  <2>5. QED
    BY <2>4
<1>3. PICK g : PortStep(s, g) /\ ReadPort(s) = g[DOMAIN s]
  <2>1. ReadPort(s) = (CHOOSE g : PortStep(s, g))[DOMAIN s]
    BY DEF ReadPort, Bits16, FoldLeft, MapThenFoldSet, Max, Top, PortStep
  <2>2. QED
    BY <1>2, <2>1
<1>4. PICK v : v = [k \in 0..n |-> g[1..k]]
  OBVIOUS
<1>5. v[0] = 0 /\ v[n] = g[1..n]
  <2>1. g[{}] = 0 /\ 1..0 = {}
    BY <1>3 DEF PortStep
  <2>2. 0 \in 0..n /\ n \in 0..n
    OBVIOUS
  <2>3. QED
    BY <1>4, <2>1, <2>2
<1>6. ASSUME NEW k \in 1..n PROVE v[k] = Bits16(v[k - 1] * 10 + s[k])
  <2>1. 1..k \in SUBSET (1..n) /\ 1..k # {} /\ Top(1..k) = k
    BY Beginnings
  <2>2. (1..k) \ {k} = 1..(k - 1)
    BY Beginnings
  <2>3. k \in 0..n /\ k - 1 \in 0..n
    OBVIOUS
  <2>4. g[1..k] = Bits16(g[(1..k) \ {k}] * 10 + s[k])
    BY <1>1, <1>3, <2>1 DEF PortStep
  <2>5. QED
    BY <1>4, <2>2, <2>3, <2>4
<1>7. v \in [0..n -> Int]
  <2> DEFINE G == {k \in 0..n : v[k] \in Int}
  <2>1. 0 \in G
    BY <1>5
  <2>2. ASSUME NEW k \in 1..n, k - 1 \in G PROVE k \in G
    <3>1. v[k - 1] \in Int /\ s[k] \in Int /\ k \in 0..n
      BY <1>1, <2>2
    <3>2. Bits16(v[k - 1] * 10 + s[k]) \in Int
      <4>1. PICK a \in Int : a = v[k - 1] * 10 + s[k]
        BY <3>1
      <4>2. QED
        BY <4>1, Bits16Int
    <3>3. QED
      BY <1>6, <3>1, <3>2
  <2>3. 0..n \subseteq G
    <3> HIDE DEF G
    <3>1. QED
      BY <2>1, <2>2, UpTo
  <2>4. QED
    BY <1>4, <2>3
<1>8. Ports(s, v)
  BY <1>1, <1>5, <1>6, <1>7 DEF Ports
<1>9. QED
  BY <1>1, <1>3, <1>5, <1>8

\* To reduce a number at each step is to reduce it in the end.
LEMMA ModuloStep ==
  ASSUME NEW a \in Int, NEW c \in Int
  PROVE  Bits16(Bits16(a) * 10 + c) = Bits16(a * 10 + c)
<1>1. PICK q, r \in Int : r = a % 65536 /\ a = q * 65536 + r
  OBVIOUS
<1>2. PICK b \in Int : b = r * 10 + c
  BY <1>1
<1>3. a * 10 + c = (q * 10) * 65536 + b
  BY <1>1, <1>2
<1>4. PICK p \in Int : p = q * 10
  BY <1>1
<1>5. (p * 65536 + b) % 65536 = b % 65536
  BY <1>2, <1>4
<1>6. QED
  BY <1>1, <1>2, <1>3, <1>4, <1>5 DEF Bits16

(* The port that the loop computes in a uint16_t, from any characters, is  *)
(* the decimal number of the whole text modulo 2^16, however long it is:   *)
(* the overflow on the way changes nothing else.                           *)
THEOREM PortModulo ==
  ASSUME NEW s \in Seq(Int)
  PROVE  ReadPort(s) = Decimal(s) % 65536 /\ Decimal(s) \in Int
<1>1. PICK n \in Nat : n = Len(s) /\ \A i \in 1..n : s[i] \in Int
  BY LenProperties, ElementOfSeq
<1>2. PICK v : Decimals(s, v) /\ Decimal(s) = v[n]
  BY <1>1, DecimalBySteps
<1>3. PICK w : Ports(s, w) /\ ReadPort(s) = w[n]
  BY <1>1, PortBySteps
<1> DEFINE G == {k \in 0..n : w[k] = Bits16(v[k])}
<1>4. 0 \in G
  <2>1. v[0] = 0 /\ w[0] = 0 /\ Bits16(0) = 0 /\ 0 \in 0..n
    BY <1>2, <1>3 DEF Decimals, Ports, Bits16
  <2>2. QED
    BY <2>1
<1>5. ASSUME NEW k \in 1..n, k - 1 \in G PROVE k \in G
  <2>1. PICK a \in Int, c \in Int : a = v[k - 1] /\ c = s[k]
    <3>1. k - 1 \in 0..n
      OBVIOUS
    <3>2. v[k - 1] \in Int /\ s[k] \in Int
      BY <1>1, <1>2, <3>1 DEF Decimals
    <3>3. QED
      BY <3>2
  <2>2. v[k] = a * 10 + c
    BY <1>1, <1>2, <2>1 DEF Decimals
  <2>3. w[k] = Bits16(Bits16(a) * 10 + c)
    <3>1. w[k] = Bits16(w[k - 1] * 10 + s[k])
      BY <1>1, <1>3 DEF Ports
    <3>2. w[k - 1] = Bits16(a)
      BY <1>5, <2>1
    <3>3. QED
      BY <2>1, <3>1, <3>2
  <2>4. k \in 0..n
    OBVIOUS
  <2>5. QED
    BY <2>2, <2>3, <2>4, ModuloStep
<1>6. 0..n \subseteq G
  <2> HIDE DEF G
  <2>1. QED
    BY <1>4, <1>5, UpTo
<1>7. n \in 0..n
  OBVIOUS
<1>8. v[n] \in Int /\ w[n] = Bits16(v[n])
  BY <1>1, <1>2, <1>6, <1>7 DEF Decimals
<1>9. QED
  BY <1>2, <1>3, <1>8 DEF Bits16

\* What is written in digits is no negative number.
LEMMA DigitsNatural ==
  ASSUME NEW s \in Seq(Int), Digits(s)
  PROVE  Decimal(s) \in Nat
<1>1. PICK n \in Nat : n = Len(s) /\ \A i \in 1..n : s[i] \in 0..9
  BY LenProperties, ElementOfSeq DEF Digits
<1>2. PICK v : Decimals(s, v) /\ Decimal(s) = v[n]
  BY <1>1, DecimalBySteps
<1> DEFINE G == {k \in 0..n : v[k] \in Nat}
<1>3. 0 \in G
  BY <1>2 DEF Decimals
<1>4. ASSUME NEW k \in 1..n, k - 1 \in G PROVE k \in G
  <2>1. PICK a \in Nat, c \in Nat : a = v[k - 1] /\ c = s[k]
    BY <1>1, <1>4
  <2>2. v[k] = a * 10 + c
    BY <1>1, <1>2, <2>1 DEF Decimals
  <2>3. a * 10 + c \in Nat /\ k \in 0..n
    OBVIOUS
  <2>4. QED
    BY <2>2, <2>3
<1>5. 0..n \subseteq G
  <2> HIDE DEF G
  <2>1. QED
    BY <1>3, <1>4, UpTo
<1>6. n \in 0..n
  OBVIOUS
<1>7. QED
  BY <1>2, <1>5, <1>6

-----------------------------------------------------------------------------
(* The parsers *)

\* Find is the first position of a character, or 0.
LEMMA FindFirst ==
  ASSUME NEW s \in Seq(Int), NEW c
  PROVE  /\ Find(s, c) \in 0..Len(s)
         /\ Find(s, c) = 0 => \A i \in 1..Len(s) : s[i] # c
         /\ Find(s, c) # 0 => /\ s[Find(s, c)] = c
                              /\ \A j \in 1..(Find(s, c) - 1) : s[j] # c
<1>1. PICK n \in Nat : n = Len(s)
  BY LenProperties
<1> DEFINE I == {i \in 1..n : s[i] = c}
<1>2. Find(s, c) = IF I # {} THEN CHOOSE x \in I : \A y \in I : x <= y ELSE 0
  BY <1>1 DEF Find, SelectInSeq, Min
<1>3. CASE I = {}
  <2>1. Find(s, c) = 0 /\ 0 \in 0..n
    BY <1>2, <1>3
  <2>2. QED
    BY <1>1, <1>3, <2>1
<1>4. CASE I # {}
  <2>1. I \in SUBSET Nat
    OBVIOUS
  <2>2. PICK x \in I : x = Find(s, c) /\ \A y \in I : x <= y
    <3> HIDE DEF I
    <3>1. \E x \in I : \A y \in I : x <= y
      BY <1>4, <2>1, NatLeast
    <3>2. QED
      BY <1>2, <1>4, <3>1
  <2>3. x \in 1..n /\ s[x] = c
    OBVIOUS
  <2>4. ASSUME NEW j \in 1..(x - 1) PROVE s[j] # c
    <3>1. j \in 1..n /\ ~(x <= j)
      BY <2>3
    <3>2. QED
      BY <2>2, <3>1
  <2>5. x \in 0..n /\ x # 0
    BY <2>3
  <2>6. QED
    BY <1>1, <2>2, <2>3, <2>4, <2>5
<1>5. QED
  BY <1>3, <1>4

\* A part of a text is a text, and its characters are those of the text.
LEMMA PartOf ==
  ASSUME NEW s \in Seq(Int), NEW i \in Nat \ {0}, NEW j \in Int, j <= Len(s)
  PROVE  /\ SubSeq(s, i, j) \in Seq(Int)
         /\ Len(SubSeq(s, i, j)) = IF i <= j THEN j - i + 1 ELSE 0
         /\ SubSeq(s, i, j) # <<>> <=> i <= j
         /\ \A k \in 1..(j - i + 1) : SubSeq(s, i, j)[k] = s[i + k - 1]
<1>1. PICK n \in Nat : n = Len(s) /\ \A k \in 1..n : s[k] \in Int
  BY LenProperties, ElementOfSeq
<1>2. SubSeq(s, i, j) \in Seq(Int)
  BY <1>1, SubSeqProperties
<1>3. Len(SubSeq(s, i, j)) = IF i <= j THEN j - i + 1 ELSE 0
  BY <1>1, SubSeqProperties
<1>4. \A k \in 1..(j - i + 1) : SubSeq(s, i, j)[k] = s[i + k - 1]
  BY <1>1, SubSeqProperties
<1>5. SubSeq(s, i, j) # <<>> <=> i <= j
  BY <1>2, <1>3, EmptySeq
<1>6. QED
  BY <1>2, <1>3, <1>4, <1>5

\* What Octet takes has digits, and at least one.
LEMMA OctetText ==
  ASSUME NEW s \in Seq(Int), Octet(s)
  PROVE  s # <<>> /\ Len(s) \in Nat \ {0} /\ s[1] \in 0..9 /\ Decimal(s) \in Int
<1>1. s # <<>> /\ \A i \in DOMAIN s : s[i] \in 0..9
  BY DEF Octet, Digits
<1>2. Len(s) \in Nat \ {0} /\ 1 \in DOMAIN s
  BY <1>1, EmptySeq, LenProperties
<1>3. Decimal(s) \in Int
  BY PortModulo
<1>4. QED
  BY <1>1, <1>2, <1>3

\* What inet_pton takes is seven characters long or more, begins with a digit
\* and has a dot, and its result is four numbers.
LEMMA InetPtonText ==
  ASSUME NEW s \in Seq(Int), InetPton(s) # Refused
  PROVE  /\ InetPton(s) \in Seq(Int)
         /\ Len(s) >= 7
         /\ s[1] \in 0..9
         /\ \E i \in 1..Len(s) : s[i] = Dot
<1>1. PICK n \in Nat : n = Len(s) /\ DOMAIN s = 1..n
  BY LenProperties
<1> DEFINE Part(i, j) == SubSeq(s, i + 1, j - 1)
           Dots == {i \in DOMAIN s : s[i] = Dot}
           Splits == {d \in Dots \X Dots \X Dots :
                        /\ Octet(Part(0, d[1])) /\ Octet(Part(d[1], d[2]))
                        /\ Octet(Part(d[2], d[3])) /\ Octet(Part(d[3], Len(s) + 1))}
           e == CHOOSE d \in Splits : TRUE
<1>2. InetPton(s) = IF Splits = {} THEN Refused
                    ELSE <<Decimal(Part(0, e[1])), Decimal(Part(e[1], e[2])),
                           Decimal(Part(e[2], e[3])), Decimal(Part(e[3], Len(s) + 1))>>
  BY Zenon DEF InetPton
<1>3. Splits # {}
  <2> HIDE DEF Splits
  <2>1. QED
    BY <1>2
<1>4. e \in Splits
  <2> HIDE DEF Splits
  <2>1. QED
    BY <1>3
<1>5. PICK a, b, c \in 1..n : /\ a = e[1] /\ b = e[2] /\ c = e[3]
                              /\ s[a] = Dot
                              /\ Octet(Part(0, a)) /\ Octet(Part(a, b))
                              /\ Octet(Part(b, c)) /\ Octet(Part(c, n + 1))
  <2>1. /\ e \in Dots \X Dots \X Dots
        /\ Octet(Part(0, e[1])) /\ Octet(Part(e[1], e[2]))
        /\ Octet(Part(e[2], e[3])) /\ Octet(Part(e[3], Len(s) + 1))
    BY <1>4
  <2> HIDE DEF e
  <2>2. e[1] \in Dots /\ e[2] \in Dots /\ e[3] \in Dots
    BY <2>1
  <2>3. Dots \subseteq 1..n /\ \A i \in Dots : s[i] = Dot
    BY <1>1
  <2> HIDE DEF Dots, Part
  <2>4. QED
    BY <1>1, <2>1, <2>2, <2>3
<1> HIDE DEF e, Splits
<1>6. /\ Part(0, a) \in Seq(Int) /\ Part(a, b) \in Seq(Int)
      /\ Part(b, c) \in Seq(Int) /\ Part(c, n + 1) \in Seq(Int)
      /\ Part(0, a) # <<>> <=> 0 + 1 <= a - 1
      /\ Part(a, b) # <<>> <=> a + 1 <= b - 1
      /\ Part(b, c) # <<>> <=> b + 1 <= c - 1
      /\ Part(c, n + 1) # <<>> <=> c + 1 <= n + 1 - 1
  <2>1. \A i \in 0..n, j \in 1..(n + 1) :
          Part(i, j) \in Seq(Int) /\ (Part(i, j) # <<>> <=> i + 1 <= j - 1)
    <3>1. TAKE i \in 0..n, j \in 1..(n + 1)
    <3>2. i + 1 \in Nat \ {0} /\ j - 1 \in Int /\ j - 1 <= Len(s)
      BY <1>1
    <3>3. QED
      BY <3>2, PartOf
  <2>2. 0 \in 0..n /\ a \in 0..n /\ b \in 0..n /\ c \in 0..n
    OBVIOUS
  <2>3. a \in 1..(n + 1) /\ b \in 1..(n + 1) /\ c \in 1..(n + 1) /\ n + 1 \in 1..(n + 1)
    OBVIOUS
  <2> HIDE DEF Part
  <2>4. Part(0, a) \in Seq(Int) /\ (Part(0, a) # <<>> <=> 0 + 1 <= a - 1)
    BY <2>1, <2>2, <2>3
  <2>5. Part(a, b) \in Seq(Int) /\ (Part(a, b) # <<>> <=> a + 1 <= b - 1)
    BY <2>1, <2>2, <2>3
  <2>6. Part(b, c) \in Seq(Int) /\ (Part(b, c) # <<>> <=> b + 1 <= c - 1)
    BY <2>1, <2>2, <2>3
  <2>7. Part(c, n + 1) \in Seq(Int) /\ (Part(c, n + 1) # <<>> <=> c + 1 <= n + 1 - 1)
    BY <2>1, <2>2, <2>3
  <2>8. QED
    BY <2>4, <2>5, <2>6, <2>7
<1>7. 2 <= a /\ a + 2 <= b /\ b + 2 <= c /\ c + 1 <= n
  <2>1. /\ 0 + 1 <= a - 1 /\ a + 1 <= b - 1 /\ b + 1 <= c - 1
        /\ c + 1 <= n + 1 - 1
    <3> HIDE DEF Part
    <3>1. QED
      BY <1>5, <1>6, OctetText
  <2>2. QED
    BY <2>1
<1>8. s[1] \in 0..9
  <2>1. Part(0, a)[1] \in 0..9
    <3> HIDE DEF Part
    <3>1. QED
      BY <1>5, <1>6, OctetText
  <2>2. 0 + 1 \in Nat \ {0} /\ a - 1 \in Int /\ a - 1 <= Len(s) /\ 1 \in 1..(a - 1 - (0 + 1) + 1)
    BY <1>1, <1>7
  <2>3. Part(0, a)[1] = s[0 + 1 + 1 - 1]
    BY <2>2, PartOf
  <2>4. 0 + 1 + 1 - 1 = 1
    OBVIOUS
  <2> HIDE DEF Part
  <2>5. QED
    BY <2>1, <2>3, <2>4
<1>9. InetPton(s) \in Seq(Int)
  <2>1. /\ Decimal(Part(0, a)) \in Int /\ Decimal(Part(a, b)) \in Int
        /\ Decimal(Part(b, c)) \in Int /\ Decimal(Part(c, n + 1)) \in Int
    <3> HIDE DEF Part
    <3>1. QED
      BY <1>5, <1>6, OctetText
  <2>2. InetPton(s) = <<Decimal(Part(0, a)), Decimal(Part(a, b)),
                        Decimal(Part(b, c)), Decimal(Part(c, n + 1))>>
    <3> HIDE DEF Part
    <3>1. QED
      BY <1>1, <1>2, <1>3, <1>5
  <2> HIDE DEF Part
  <2>3. QED
    BY <2>1, <2>2
<1>10. n >= 7
  BY <1>7
<1>11. \E i \in 1..n : s[i] = Dot
  BY <1>5
<1>12. QED
  BY <1>1, <1>8, <1>9, <1>10, <1>11

\* What says an address and a number is taken for an address of IPv4.
LEMMA WellFormedRead ==
  ASSUME NEW s \in Seq(Int), WellFormed(s)
  PROVE  /\ GuessAddrType(s) = "ipv4"
         /\ AddrIpv4(s) = [ip |-> InetPton(IpText(s)), port |-> ReadPort(PortText(s))]
         /\ AddrIpv4(s) # Refused
         /\ PortText(s) \in Seq(Int) /\ Digits(PortText(s))
<1>1. PICK n \in Nat : n = Len(s)
  BY LenProperties
<1>2. PICK c \in 1..n : c = Find(s, Colon)
  BY <1>1, FindFirst DEF WellFormed
<1>3. PICK ip \in Seq(Int) : ip = SubSeq(s, 1, c - 1) /\ ip = IpText(s)
                             /\ (\A k \in 1..(c - 1) : ip[k] = s[k]) /\ Len(ip) <= c - 1
  <2>1. 1 \in Nat \ {0} /\ c - 1 \in Int /\ c - 1 <= n /\ c - 1 - 1 + 1 = c - 1
    BY <1>2
  <2>2. /\ SubSeq(s, 1, c - 1) \in Seq(Int)
        /\ Len(SubSeq(s, 1, c - 1)) = IF 1 <= c - 1 THEN c - 1 - 1 + 1 ELSE 0
        /\ \A k \in 1..(c - 1 - 1 + 1) : SubSeq(s, 1, c - 1)[k] = s[1 + k - 1]
    BY <1>1, <2>1, PartOf
  <2>3. \A k \in 1..(c - 1) : 1 + k - 1 = k
    OBVIOUS
  <2>4. \A k \in 1..(c - 1) : SubSeq(s, 1, c - 1)[k] = s[k]
    BY <2>1, <2>2, <2>3
  <2>5. Len(SubSeq(s, 1, c - 1)) <= c - 1
    <3>1. PICK m : m = Len(SubSeq(s, 1, c - 1))
      OBVIOUS
    <3>2. m = IF 1 <= c - 1 THEN c - 1 - 1 + 1 ELSE 0
      BY <2>2, <3>1
    <3>3. m <= c - 1
      BY <3>2
    <3>4. QED
      BY <3>1, <3>3
  <2>6. QED
    BY <1>2, <2>2, <2>4, <2>5 DEF IpText
<1>4. /\ InetPton(ip) # Refused /\ InetPton(ip) \in Seq(Int)
      /\ Len(ip) >= 7 /\ ip[1] \in 0..9
      /\ \E i \in 1..Len(ip) : ip[i] = Dot
  BY <1>3, InetPtonText DEF WellFormed
<1>5. PortText(s) = SubSeq(s, c + 1, n) /\ PortText(s) \in Seq(Int)
      /\ (PortText(s) # <<>> <=> c + 1 <= n)
  <2>1. c + 1 \in Nat \ {0} /\ n \in Int /\ n <= n
    OBVIOUS
  <2>2. PortText(s) = SubSeq(s, c + 1, n)
    BY <1>1, <1>2 DEF PortText, From
  <2>3. /\ SubSeq(s, c + 1, n) \in Seq(Int)
        /\ SubSeq(s, c + 1, n) # <<>> <=> c + 1 <= n
    BY <1>1, <2>1, PartOf
  <2>4. QED
    BY <2>2, <2>3
<1>6. Digits(PortText(s)) /\ PortText(s) # <<>>
  BY DEF WellFormed, Digits
<1>7. c # 0 /\ c # n
  BY <1>5, <1>6
<1>8. GuessAddrType(s) = "ipv4"
  <2>1. PICK m \in Nat : m = Len(ip) /\ 7 <= m /\ m <= c - 1
    BY <1>3, <1>4, LenProperties
  <2>2. 7 <= n /\ 1 \in 1..(c - 1)
    BY <2>1
  <2>3. s[1] # Bracket
    <3>1. s[1] \in 0..9
      BY <1>3, <1>4, <2>2
    <3>2. 43 \notin 0..9
      OBVIOUS
    <3>3. QED
      BY <3>1, <3>2 DEF Bracket
  <2>4. PICK i \in 1..m : ip[i] = Dot
    BY <1>4, <2>1
  <2>5. i \in 1..n /\ i \in 1..(c - 1)
    BY <2>1
  <2>6. s[i] = Dot
    BY <1>3, <2>4, <2>5
  <2>7. Find(s, Dot) # 0
    BY <1>1, <2>5, <2>6, FindFirst
  <2>8. ~(n < 7)
    BY <2>2
  <2>9. QED
    BY <1>1, <2>3, <2>7, <2>8 DEF GuessAddrType
<1>9. ParseAddr4(s) = [ip |-> ip, port |-> ReadPort(PortText(s))]
  <2>1. PortText(s) = From(s, c + 1)
    BY <1>1, <1>5 DEF From
  <2>2. QED
    BY <1>1, <1>2, <1>3, <1>7, <2>1 DEF ParseAddr4
<1>10. ReadPort(PortText(s)) \in Int
  <2>1. PICK p \in Seq(Int) : p = PortText(s)
    BY <1>5
  <2>2. PICK d \in Int : d = Decimal(p)
    BY PortModulo
  <2>3. ReadPort(p) = d % 65536
    BY <2>2, PortModulo
  <2>4. QED
    BY <2>1, <2>3
<1>11. ParseAddr4(s) # Refused
  BY <1>9, <1>10, RefusedAssumption
<1>12. AddrIpv4(s) = [ip |-> InetPton(ip), port |-> ReadPort(PortText(s))]
  BY <1>4, <1>9, <1>11 DEF AddrIpv4
<1>13. AddrIpv4(s) # Refused
  BY <1>4, <1>10, <1>12, RefusedAssumption
<1>14. QED
  BY <1>3, <1>5, <1>6, <1>8, <1>12, <1>13

\* The first closing bracket is where the address of IPv6 ends.
LEMMA BracketsRead ==
  ASSUME NEW s \in Seq(Int)
  PROVE  ParseAddr6(s) # Refused <=>
           \E i \in DOMAIN s :
             /\ s[1] = Bracket /\ s[i] = Unbracket
             /\ \A j \in 1..(i - 1) : s[j] # Unbracket
             /\ i + 2 <= Len(s) /\ s[i + 1] = Colon
<1>1. PICK n \in Nat : n = Len(s) /\ DOMAIN s = 1..n
  BY LenProperties
<1>2. PICK c \in 0..n : /\ c = Find(s, Unbracket)
                        /\ c = 0 => \A i \in 1..n : s[i] # Unbracket
                        /\ c # 0 => /\ s[c] = Unbracket
                                    /\ \A j \in 1..(c - 1) : s[j] # Unbracket
  BY <1>1, FindFirst
<1>3. (s # <<>> <=> 1 <= n)
  BY <1>1, EmptySeq
<1>4. \A i \in 1..(n + 2) : From(s, i) \in Seq(Int) /\ (From(s, i) # <<>> <=> i <= n)
  <2>1. TAKE i \in 1..(n + 2)
  <2>2. i \in Nat \ {0} /\ n \in Int /\ n <= n
    OBVIOUS
  <2>3. QED
    BY <1>1, <2>2, PartOf DEF From
<1>5. SubSeq(s, 2, c - 1) # Refused
  <2>1. 2 \in Nat \ {0} /\ c - 1 \in Int /\ c - 1 <= n
    OBVIOUS
  <2>2. SubSeq(s, 2, c - 1) \in Seq(Int)
    BY <1>1, <2>1, PartOf
  <2>3. QED
    BY <2>2, RefusedAssumption
<1>6. ParseAddr6(s) # Refused <=>
        s # <<>> /\ s[1] = Bracket /\ c # 0 /\ From(s, c + 1) # <<>>
          /\ s[c + 1] = Colon /\ From(s, c + 2) # <<>>
  BY Zenon, <1>2, <1>5 DEF ParseAddr6
<1>7. c + 1 \in 1..(n + 2) /\ c + 2 \in 1..(n + 2)
  OBVIOUS
<1>8. ParseAddr6(s) # Refused <=>
        1 <= n /\ s[1] = Bracket /\ c # 0 /\ c + 1 <= n /\ s[c + 1] = Colon /\ c + 2 <= n
  BY <1>3, <1>4, <1>6, <1>7
<1>9. ASSUME ParseAddr6(s) # Refused
      PROVE  \E i \in 1..n :
               /\ s[1] = Bracket /\ s[i] = Unbracket
               /\ \A j \in 1..(i - 1) : s[j] # Unbracket
               /\ i + 2 <= n /\ s[i + 1] = Colon
  <2>1. c \in 1..n
    BY <1>8, <1>9
  <2>2. QED
    BY <1>2, <1>8, <1>9, <2>1
<1>10. ASSUME NEW i \in 1..n, s[1] = Bracket, s[i] = Unbracket,
              \A j \in 1..(i - 1) : s[j] # Unbracket, i + 2 <= n, s[i + 1] = Colon
       PROVE  ParseAddr6(s) # Refused
  <2>1. c # 0
    BY <1>2, <1>10
  <2>2. ~(c < i)
    <3>1. SUFFICES ASSUME c < i PROVE FALSE
      OBVIOUS
    <3>2. c \in 1..(i - 1)
      BY <2>1, <3>1
    <3>3. QED
      BY <1>2, <1>10, <2>1, <3>2
  <2>3. ~(i < c)
    <3>1. SUFFICES ASSUME i < c PROVE FALSE
      OBVIOUS
    <3>2. i \in 1..(c - 1)
      BY <3>1
    <3>3. QED
      BY <1>2, <1>10, <2>1, <3>2
  <2>4. c = i
    BY <2>2, <2>3
  <2>5. 1 <= n /\ i + 1 <= n
    BY <1>10
  <2>6. QED
    BY <1>8, <1>10, <2>1, <2>4, <2>5
<1>11. QED
  BY <1>1, <1>9, <1>10

(* A text of an address, a colon and digits is taken for IPv4 and never    *)
(* refused, and read as that address and, if the number fits 16 bits, that *)
(* port; the parser for IPv6 takes exactly what has brackets, a colon and  *)
(* something behind it.                                                    *)
THEOREM AlwaysReadsAddresses == StartupSpec => []ReadsAddresses
<1> DEFINE ArgumentInv == text \in Seq(Int)
<1>1. StartupInit => ArgumentInv
  BY StartupAssumption DEF StartupInit
<1>2. ArgumentInv /\ [StartupNext]_startup_vars => ArgumentInv'
  <2> SUFFICES ASSUME ArgumentInv, [StartupNext]_startup_vars PROVE ArgumentInv'
    OBVIOUS
  <2>1. UNCHANGED text
    BY DEF StartupNext, startup_vars, arguments, InitPlatform, Arguments, TunAlloc,
           TunAllocHalf, Address, ServerSocket, ClientSocket, Connect, StartT2N, StartN2T,
           StartThread
  <2>2. QED
    BY <2>1
<1>3. ArgumentInv => ReadsAddresses
  <2> SUFFICES ASSUME ArgumentInv, pc = "address" PROVE ReadsAddresses
    BY DEF ReadsAddresses
  <2>1. PICK s \in Seq(Int) : s = text
    OBVIOUS
  <2>2. ASSUME WellFormed(s)
        PROVE  /\ GuessAddrType(s) = "ipv4"
               /\ AddrIpv4(s) # Refused /\ AddrIpv4(s).ip = InetPton(IpText(s))
               /\ (Len(PortText(s)) <= 5 /\ Decimal(PortText(s)) < 65536) =>
                    AddrIpv4(s).port = Decimal(PortText(s))
    <3>1. /\ GuessAddrType(s) = "ipv4"
          /\ AddrIpv4(s) = [ip |-> InetPton(IpText(s)), port |-> ReadPort(PortText(s))]
          /\ AddrIpv4(s) # Refused
          /\ PortText(s) \in Seq(Int) /\ Digits(PortText(s))
      BY <2>2, WellFormedRead
    <3>2. PICK d \in Nat : d = Decimal(PortText(s)) /\ ReadPort(PortText(s)) = d % 65536
      BY <3>1, DigitsNatural, PortModulo
    <3>3. d < 65536 => d % 65536 = d
      OBVIOUS
    <3>4. AddrIpv4(s).ip = InetPton(IpText(s)) /\ AddrIpv4(s).port = ReadPort(PortText(s))
      BY <3>1
    <3>5. QED
      BY <3>1, <3>2, <3>3, <3>4
  <2>3. ParseAddr6(s) # Refused <=>
          \E i \in DOMAIN s :
            /\ s[1] = Bracket /\ s[i] = Unbracket
            /\ \A j \in 1..(i - 1) : s[j] # Unbracket
            /\ i + 2 <= Len(s) /\ s[i + 1] = Colon
    BY BracketsRead
  <2>4. QED
    BY <2>1, <2>2, <2>3 DEF ReadsAddresses
<1>4. QED
  BY <1>1, <1>2, <1>3, PTL DEF StartupSpec
=============================================================================
