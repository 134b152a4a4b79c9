------------------------------- MODULE Relay -------------------------------
(***************************************************************************)
(* The UDP tunnel: a server with its two relay threads and its session     *)
(* table (src/server.cc), clients with their two relay threads             *)
(* (src/client.cc), and the datagram network between them, which loses,    *)
(* duplicates and reorders.  A client is known to the server only by the   *)
(* virtual address its packets carry as source; the endpoint the last      *)
(* datagram came from is where the server sends the answers, and a client  *)
(* may change its endpoint at any time.                                    *)
(*                                                                         *)
(* The session table is SessionTable, which SessionMgr implements: its     *)
(* operations are single steps here.  Of an IP packet the relays look at   *)
(* one address; of a datagram, at whether it is the one that was sealed.   *)
(* Which datagrams are, for their length and cipher, is the subject of     *)
(* Sudp; here any of them may be damaged on the way, and with the cipher   *)
(* of udp_type as it is, chacha20_poly1305, none of them opens.  The       *)
(* server's socket takes what anyone sends, and some of it is no datagram  *)
(* of a client at all, nor as long as the shortest of them.                *)
(***************************************************************************)
EXTENDS Integers, FiniteSets

CONSTANTS
  Aead,        \* the cipher of udp_type
  Vip,         \* virtual addresses, one per client, of as many as there may be
  Endpoint,    \* the address and port a client's datagrams come from
  Long,        \* the addresses whose dotted form has 15 characters
  Expire, MaxTime, Absent,  \* see SessionTable
  MaxInFlight, \* bound on the datagrams under way to the server
  MaxAnswers,  \* bound on the datagrams under way to the clients
  MaxClients,  \* bound on the clients that ever run
  NoEndpoint,  \* a default-constructed addr_ipv4
  NoVip        \* no packet: the thread waits for one

ASSUME RelayAssumption ==
  /\ Aead \in {"aes_128_gcm", "chacha20_poly1305"}
  /\ Long \subseteq Vip
  /\ Expire \in Nat /\ MaxTime \in Nat /\ {MaxInFlight, MaxAnswers, MaxClients} \subseteq Nat
  /\ NoEndpoint \notin Endpoint
  /\ NoVip \notin Vip
  /\ Absent \notin [conn : Endpoint, t : Nat]

VARIABLES
  clock, session, ret,  \* the session table
  home,      \* Vip -> the endpoint its client sends from, if any
  toServer,  \* datagrams under way to the server
  toClient,  \* datagrams under way to the clients
  n2t,       \* the thread server_net2tun: pc and locals
  t2n,       \* the thread server_tun2net: pc and locals
  down,      \* an exception left a thread: std::terminate
  sent,      \* history: Vip -> the endpoints its client has sent from
  heard      \* history: Vip -> the time of the last put for it, or -1

table == <<clock, session, ret>>
network == <<toServer, toClient>>
vars == <<clock, session, ret, home, toServer, toClient, n2t, t2n, down,
          sent, heard>>

Table == INSTANCE SessionTable WITH Conn <- Endpoint

\* A datagram: the client's endpoint, and the virtual address that the server
\* reads from the packet sealed in it.
Datagram == [ep : Endpoint, pkt : Vip]

\* Whether the cipher opens a datagram that was not damaged; see Sudp.
CipherOpens == Aead = "aes_128_gcm"

Init ==
  /\ Table!Init
  /\ home = [v \in Vip |-> NoEndpoint]
  /\ toServer = {}
  /\ toClient = {}
  /\ n2t = [pc |-> "recvfrom", pkt |-> NoVip, client |-> NoEndpoint]
  /\ t2n = [pc |-> "tun_read", pkt |-> NoVip, client |-> NoEndpoint]
  /\ down = FALSE
  /\ sent = [v \in Vip |-> {}]
  /\ heard = [v \in Vip |-> -1]

-----------------------------------------------------------------------------
(* The network and the clients *)

Clients == {v \in Vip : home[v] # NoEndpoint \/ sent[v] # {}}

\* A client gets a new endpoint, or has none for a while: it restarted, or its
\* NAT did.  No two clients have the same endpoint at the same time.
Roam(v, e) ==
  /\ e # NoEndpoint => \A u \in Vip : home[u] # e
  /\ Cardinality(Clients \cup {v}) <= MaxClients
  /\ home' = [home EXCEPT ![v] = e]
  /\ UNCHANGED <<table, network, n2t, t2n, down, sent, heard>>

Lose ==
  /\ \/ \E d \in toServer : toServer' = toServer \ {d} /\ UNCHANGED toClient
     \/ \E d \in toClient : toClient' = toClient \ {d} /\ UNCHANGED toServer
  /\ UNCHANGED <<table, home, n2t, t2n, down, sent, heard>>

\* One turn of client_tun2net.
ClientTun2Net(v) ==
  LET d == [ep |-> home[v], pkt |-> v]
  IN  /\ home[v] # NoEndpoint
      /\ Cardinality(toServer \cup {d}) <= MaxInFlight
      /\ toServer' = toServer \cup {d}
      /\ sent' = [sent EXCEPT ![v] = @ \cup {home[v]}]
      /\ UNCHANGED <<table, home, toClient, n2t, t2n, down, heard>>

\* One turn of client_net2tun: whatever opens is written to the client's tun.
\* The socket is connected, and takes only what comes from the server.
ClientNet2Tun(v, d, kept) ==
  /\ d.ep = home[v]
  /\ toClient' = toClient \ (IF kept THEN {} ELSE {d})
  /\ UNCHANGED <<table, home, toServer, n2t, t2n, down, sent, heard>>

-----------------------------------------------------------------------------
(* server_net2tun *)

\* Variant: the packet is written before its session is put.
NetRecvWritesFirst(d, kept, opens) ==
  /\ ~down
  /\ n2t.pc = "recvfrom"
  /\ opens => CipherOpens
  /\ toServer' = toServer \ (IF kept THEN {} ELSE {d})
  /\ n2t' = [pc |-> IF opens THEN "tun_write" ELSE "recvfrom",
             pkt |-> IF opens THEN d.pkt ELSE NoVip, client |-> d.ep]
  /\ UNCHANGED <<table, home, toClient, t2n, down, sent, heard>>

\* recvfrom, decrypt and parse_src_ip, of what a client sealed.  What was damaged,
\* or is no packet, is logged and dropped, with the sender's address already in
\* the thread's local.
NetRecv(d, kept, opens) ==
  /\ ~down
  /\ n2t.pc = "recvfrom"
  /\ opens => CipherOpens
  /\ toServer' = toServer \ (IF kept THEN {} ELSE {d})
  /\ n2t' = [pc |-> IF opens THEN "put" ELSE "recvfrom",
             pkt |-> IF opens THEN d.pkt ELSE NoVip, client |-> d.ep]
  /\ UNCHANGED <<table, home, toClient, t2n, down, sent, heard>>

\* A datagram that no client sealed does not open.  Of one that is shorter than
\* iv and tag, decrypt takes the tag from before the buffer and a load of less
\* than no bytes: OpenSSL refuses it, or the process goes down there.
NetRecvStray(e, short) ==
  /\ ~down
  /\ n2t.pc = "recvfrom"
  /\ down' \in IF short THEN BOOLEAN ELSE {FALSE}
  /\ n2t' = [n2t EXCEPT !.pc = IF down' THEN "decrypt" ELSE "recvfrom", !.client = e]
  /\ UNCHANGED <<table, home, network, t2n, sent, heard>>

\* Variant: a session that is known keeps its endpoint.
NetPutKeepsConn ==
  LET v == n2t.pkt
  IN  /\ ~down
      /\ n2t.pc = "put"
      /\ Table!Put(v, IF session[v] = Absent THEN n2t.client ELSE session[v].conn)
      /\ heard' = [heard EXCEPT ![v] = clock]
      /\ n2t' = [n2t EXCEPT !.pc = "tun_write"]
      /\ UNCHANGED <<home, network, t2n, down, sent>>

NetPut ==
  /\ ~down
  /\ n2t.pc = "put"
  /\ Table!Put(n2t.pkt, n2t.client)
  /\ heard' = [heard EXCEPT ![n2t.pkt] = clock]
  /\ n2t' = [n2t EXCEPT !.pc = "tun_write"]
  /\ UNCHANGED <<home, network, t2n, down, sent>>

\* tun_write; a failure is logged, and the session stays.
NetTunWrite ==
  /\ ~down
  /\ n2t.pc = "tun_write"
  /\ n2t' = [n2t EXCEPT !.pc = "recvfrom", !.pkt = NoVip]
  /\ UNCHANGED <<table, home, network, t2n, down, sent, heard>>

-----------------------------------------------------------------------------
(* server_tun2net *)

\* tun_read and parse_dst_ip.
TunRead(v) ==
  /\ ~down
  /\ t2n.pc = "tun_read"
  /\ t2n' = [pc |-> "get", pkt |-> v, client |-> NoEndpoint]
  /\ UNCHANGED <<table, home, network, n2t, down, sent, heard>>

TunGet ==
  /\ ~down
  /\ t2n.pc = "get"
  /\ Table!Get(t2n.pkt)
  /\ t2n' = [t2n EXCEPT !.pc = "sendto", !.client = ret']
  /\ UNCHANGED <<home, network, n2t, down, sent, heard>>

\* Variant: the error is not caught inside the loop.
TunMissEndsThread ==
  /\ ~down
  /\ t2n.pc = "get"
  /\ Table!Miss(t2n.pkt)
  /\ t2n' = [t2n EXCEPT !.pc = "ended"]
  /\ UNCHANGED <<home, network, n2t, down, sent, heard>>

\* Variant: get returns a default connection where it should throw.
TunMissFallsThrough ==
  /\ ~down
  /\ t2n.pc = "get"
  /\ Table!Miss(t2n.pkt)
  /\ t2n' = [t2n EXCEPT !.pc = "sendto"]
  /\ UNCHANGED <<home, network, n2t, down, sent, heard>>

\* get throws.  IPv4::to_string has room for 14 characters; for a longer
\* address inet_ntop fails, and building the message from its null pointer
\* throws a logic_error, which the thread does not catch.
TunMiss ==
  /\ ~down
  /\ t2n.pc = "get"
  /\ Table!Miss(t2n.pkt)
  /\ down' = (t2n.pkt \in Long)
  /\ t2n' = IF down' THEN t2n ELSE [t2n EXCEPT !.pc = "tun_read", !.pkt = NoVip]
  /\ UNCHANGED <<home, network, n2t, sent, heard>>

\* sendto; when it fails, the error is logged and the packet is dropped.
TunSend ==
  LET d == [ep |-> t2n.client, pkt |-> t2n.pkt]
  IN  /\ ~down
      /\ t2n.pc = "sendto"
      /\ toClient' \in {toClient, toClient \cup {d}}
      /\ Cardinality(toClient') <= MaxAnswers
      /\ t2n' = [pc |-> "tun_read", pkt |-> NoVip, client |-> NoEndpoint]
      /\ UNCHANGED <<table, home, toServer, n2t, down, sent, heard>>

-----------------------------------------------------------------------------
(* The session table: time, and the main thread's update() *)

Tick ==
  /\ ~down
  /\ Table!Tick
  /\ UNCHANGED <<home, network, n2t, t2n, down, sent, heard>>

\* Variant: a session is dropped before its time.
ForgetEarly(v) ==
  /\ ~down
  /\ session[v] # Absent
  /\ session' = [session EXCEPT ![v] = Absent]
  /\ UNCHANGED <<clock, ret, home, network, n2t, t2n, down, sent, heard>>

Forget(v) ==
  /\ ~down
  /\ Table!Forget(v)
  /\ UNCHANGED <<home, network, n2t, t2n, down, sent, heard>>

-----------------------------------------------------------------------------

server_net2tun ==
  \/ \E d \in toServer, kept, opens \in BOOLEAN : NetRecv(d, kept, opens)
  \/ \E e \in Endpoint, short \in BOOLEAN : NetRecvStray(e, short)
  \/ NetPut
  \/ NetTunWrite

server_tun2net ==
  \/ \E v \in Vip : TunRead(v)
  \/ TunGet
  \/ TunMiss
  \/ TunSend

client(v) ==
  \/ ClientTun2Net(v)
  \/ \E d \in toClient, kept \in BOOLEAN : ClientNet2Tun(v, d, kept)

Next ==
  \/ server_net2tun
  \/ server_tun2net
  \/ Tick
  \/ Lose
  \/ \E v \in Vip :
       \/ client(v)
       \/ Forget(v)
       \/ \E e \in Endpoint \cup {NoEndpoint} : Roam(v, e)

Spec == Init /\ [][Next]_vars

\* Each thread goes on while it can: it is never blocked for ever on m_lock,
\* which SessionList's UpdateReturns shows to be given back.
Threads ==
  /\ WF_vars(NetPut)
  /\ WF_vars(NetTunWrite)
  /\ WF_vars(TunGet \/ TunMiss)
  /\ WF_vars(TunSend)

\* A client that goes on sending over a network that delivers, sooner or
\* later, one of the copies of what is sent again and again.
Talkative ==
  /\ \A v \in Vip : WF_vars(ClientTun2Net(v))
  /\ \A d \in Datagram : SF_vars(d \in toServer /\ NetRecv(d, FALSE, TRUE))

FairSpec == Spec /\ Threads /\ Talkative

-----------------------------------------------------------------------------

(* Every variable holds values of its type.  A thread past its first call  *)
(* has a packet in its buffer, and an endpoint once it was given one.      *)
TypeOK ==
  /\ clock \in 0..MaxTime
  /\ session \in [Vip -> [conn : Endpoint, t : Nat] \cup {Absent}]
  /\ ret \in Endpoint \cup {"void", "not_found"}
  /\ home \in [Vip -> Endpoint \cup {NoEndpoint}]
  /\ toServer \subseteq Datagram
  /\ toClient \subseteq Datagram
  /\ n2t \in [pc : {"recvfrom", "decrypt", "put", "tun_write"},
              pkt : Vip \cup {NoVip}, client : Endpoint \cup {NoEndpoint}]
  /\ n2t.pc \in {"put", "tun_write"} => n2t.pkt \in Vip /\ n2t.client \in Endpoint
  /\ n2t.pc = "decrypt" => down
  /\ t2n \in [pc : {"tun_read", "get", "sendto"}, pkt : Vip \cup {NoVip},
              client : Endpoint \cup {NoEndpoint}]
  /\ t2n.pc # "tun_read" => t2n.pkt \in Vip
  /\ t2n.pc = "sendto" => t2n.client \in Endpoint
  /\ down \in BOOLEAN
  /\ sent \in [Vip -> SUBSET Endpoint]
  /\ heard \in [Vip -> -1..MaxTime]

(* A packet for v goes only to endpoints from which v's client has sent:   *)
(* whatever was lost, duplicated, reordered or cut off, no session, no     *)
(* reply being sent and no reply under way names another one.              *)
ReplyWhereHeard ==
  /\ \A v \in Vip : session[v] # Absent => session[v].conn \in sent[v]
  /\ t2n.pc = "sendto" => t2n.client \in sent[t2n.pkt]
  /\ \A d \in toClient : d.ep \in sent[d.pkt]

(* By the time the server's host gets a packet of v, v has a session, and  *)
(* an answer within Expire seconds of the put finds it: no interleaving    *)
(* with the expiry or the other thread loses it sooner.                    *)
AnswerFindsSession ==
  /\ n2t.pc = "tun_write" => heard[n2t.pkt] >= 0
  /\ \A v \in Vip :
       heard[v] >= 0 /\ clock < heard[v] + Expire => session[v] # Absent

(* No client brings the server down while it is being heard.  The server   *)
(* goes down in decrypt, with a datagram shorter than iv and tag, which no *)
(* client sends; or of the exception that no thread catches, and this      *)
(* comes only of a packet for an address of 15 characters that has been    *)
(* silent for Expire seconds, or for ever.                                 *)
DownOnlyForStrangers ==
  down =>
    \/ n2t.pc = "decrypt"
    \/ /\ t2n.pc = "get" /\ t2n.pkt \in Long
       /\ heard[t2n.pkt] < 0 \/ clock >= heard[t2n.pkt] + Expire

(* Every turn of a relay thread comes to its end, whatever call failed in  *)
(* it, unless the process went down.                                       *)
RelaysGoOn ==
  /\ (n2t.pc # "recvfrom") ~> (n2t.pc = "recvfrom" \/ down)
  /\ (t2n.pc # "tun_read") ~> (t2n.pc = "tun_read" \/ down)

(* A client that moved to another endpoint for good and goes on sending is *)
(* found there again and again, however late its old datagrams arrive.     *)
MovedClientIsFound ==
  \A v \in Vip, e \in Endpoint :
    <>[](home[v] = e) =>
      []<>(down \/ (session[v] # Absent /\ session[v].conn = e))
=============================================================================
