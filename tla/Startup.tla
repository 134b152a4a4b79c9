------------------------------ MODULE Startup ------------------------------
(***************************************************************************)
(* The process from main (src/main.cc) to its two relay threads: the       *)
(* platform's initialization, the arguments, the tun, the address, the     *)
(* socket, the threads (src/client.cc, src/server.cc), and what happens    *)
(* when one of these steps fails.  The system calls may fail at any time.  *)
(***************************************************************************)
EXTENDS Addr

CONSTANTS
  Platform,  \* "linux", "windows"
  Texts,     \* what the user may give as address
  Ephemeral, \* the ports that the kernel chooses from for a socket without one
  NoAddr     \* none parsed yet

ASSUME StartupAssumption == Texts \subseteq Seq(Int)
ASSUME EphemeralAssumption == Ephemeral \subseteq Nat \ {0}

VARIABLES
  platform, mode, text,  \* where the program runs, argv[1] and argv[2]
  pc,       \* main: the step that is next, or how the process ended
  tun,      \* "none", "open"
  adapter,  \* windows: an adapter without a session was left behind
  ad,       \* the address parsed
  sock,     \* the socket: its descriptor, and the addresses that bind and
            \* connect gave it in the kernel
  objects,  \* the objects on main's stack that the threads point to
  threads,  \* the relay threads that run
  failed    \* history: the calls in make_udp that failed

startup_vars == <<platform, mode, text, pc, tun, adapter, ad, sock, objects, threads, failed>>
arguments == <<platform, mode, text>>

\* A socket that does not exist yet, or could not be made, or was closed.
NoSocket(state) == [fd |-> state, local |-> {}, peer |-> {}]

StartupInit ==
  /\ platform \in Platform
  /\ mode \in {"none", "client", "server", "other"}  \* none: argc < 3
  /\ text \in Texts
  /\ pc = "init"
  /\ tun = "none"
  /\ adapter = FALSE
  /\ ad = NoAddr
  /\ sock = NoSocket("none")
  /\ objects = {}
  /\ threads = {}
  /\ failed = {}

\* std::terminate, and return from main.
Terminate == pc' = "terminated" /\ threads' = {} /\ UNCHANGED objects
Return(code) == pc' = code /\ UNCHANGED <<objects, threads>>

-----------------------------------------------------------------------------
(* main *)

\* The exceptions of init_platform leave main: init() is not in the try block.
\* On linux it does nothing.
InitPlatform(fails) ==
  /\ pc = "init"
  /\ IF platform = "windows" /\ fails
     THEN Terminate
     ELSE pc' = "arguments" /\ UNCHANGED <<objects, threads>>
  /\ UNCHANGED <<arguments, failed, tun, adapter, ad, sock>>

\* A first argument that begins with neither c nor s is no error.
Arguments ==
  /\ pc = "arguments"
  /\ CASE mode = "none" -> Return("exit_1")
       [] mode = "other" -> Return("exit_0")
       [] OTHER -> Return("tun")
  /\ UNCHANGED <<arguments, failed, tun, adapter, ad, sock>>

\* Variant: the stack of main is unwound with the threads detached.
ThrowDetached ==
  /\ pc' = "exit_1"
  /\ objects' = {}
  /\ sock' = IF sock.fd = "open" THEN NoSocket("closed") ELSE sock
  /\ UNCHANGED threads

\* A runtime_error (std::system_error is one) out of start_client or
\* start_server.  It destroys the objects of that function in the opposite
\* order: a thread that is still joinable calls std::terminate.
Throw ==
  IF threads # {}
  THEN Terminate /\ UNCHANGED sock
  ELSE /\ pc' = "exit_1"
       /\ objects' = {}
       /\ sock' = IF sock.fd = "open" THEN NoSocket("closed") ELSE sock
       /\ UNCHANGED threads

-----------------------------------------------------------------------------
(* start_client and start_server *)

\* tun_t has no destructor: what is open stays open until the process ends.
TunAlloc ==
  /\ pc = "tun"
  /\ \/ tun' = "open" /\ Return("address") /\ UNCHANGED <<adapter, sock>>
     \/ Throw /\ UNCHANGED <<tun, adapter>>
  /\ UNCHANGED <<arguments, failed, ad>>

\* WintunStartSession fails, and the adapter made before is not closed.
TunAllocHalf ==
  /\ pc = "tun"
  /\ platform = "windows"
  /\ adapter' = TRUE
  /\ Throw
  /\ UNCHANGED <<arguments, failed, tun, ad>>

\* The server has its session manager by now.
Address ==
  /\ pc = "address"
  /\ IF GuessAddrType(text) # "ipv4" \/ AddrIpv4(text) = Refused
     THEN Throw /\ UNCHANGED ad
     ELSE /\ ad' = AddrIpv4(text)
          /\ objects' = IF mode = "server" THEN {"tun", "ad", "smgr"} ELSE {"tun", "ad"}
          /\ pc' = "socket"
          /\ UNCHANGED <<threads, sock>>
  /\ UNCHANGED <<arguments, failed, tun, adapter>>

\* What make_udp leaves, when it binds or not.
Made(fd, local) ==
  sock' = [fd |-> fd, local |-> local, peer |-> {}]

\* The addresses that a socket bound to a may have: for port 0 the kernel
\* chooses one.
Bound(a) == IF a.port # 0 THEN {a} ELSE {[a EXCEPT !.port = p] : p \in Ephemeral}

\* Variant: an address is taken for none when its host is zero.
MakeUdpNeedsHost(a) ==
  \/ Made("failed", {}) /\ failed' = {"socket"}
  \/ a.ip # ZeroAddr.ip /\ Made("open", {}) /\ failed' = {"bind"}
  \/ /\ IF a.ip = ZeroAddr.ip THEN Made("open", {})
                              ELSE \E b \in Bound(a) : Made("open", {b})
     /\ failed' = {}

\* make_udp: the results of socket and bind are not looked at, and an address
\* that is zero is not bound.
MakeUdp(a) ==
  \/ Made("failed", {}) /\ failed' = {"socket"}
  \/ ~IsZero(a) /\ Made("open", {}) /\ failed' = {"bind"}
  \/ /\ IF IsZero(a) THEN Made("open", {}) ELSE \E b \in Bound(a) : Made("open", {b})
     /\ failed' = {}

ServerSocket ==
  /\ pc = "socket"
  /\ mode = "server"
  /\ MakeUdp(ad)
  /\ objects' = objects \cup {"udp"}
  /\ pc' = "t2n"
  /\ UNCHANGED <<arguments, tun, adapter, ad, threads>>

ClientSocket ==
  /\ pc = "socket"
  /\ mode = "client"
  /\ MakeUdp(ZeroAddr)
  /\ objects' = objects \cup {"udp"}
  /\ pc' = "connect"
  /\ UNCHANGED <<arguments, tun, adapter, ad, threads>>

\* connect is checked, and fails for a socket that could not be made.
Connect ==
  /\ pc = "connect"
  /\ \/ /\ sock.fd = "open"
        /\ sock' = [sock EXCEPT !.peer = {ad}]
        /\ Return("t2n")
     \/ Throw
  /\ UNCHANGED <<arguments, failed, tun, adapter, ad>>

StartThread(t, next) ==
  /\ pc = t
  /\ \/ /\ threads' = threads \cup {t}
        /\ pc' = next
        /\ UNCHANGED <<objects, sock>>
     \/ Throw
  /\ UNCHANGED <<arguments, failed, tun, adapter, ad>>

\* The thread t2n is started first; then main joins, or updates the sessions.
StartT2N == StartThread("t2n", "n2t")
StartN2T == StartThread("n2t", "relays")

StartupNext ==
  \/ \E fails \in BOOLEAN : InitPlatform(fails)
  \/ Arguments
  \/ TunAlloc
  \/ TunAllocHalf
  \/ Address
  \/ ServerSocket
  \/ ClientSocket
  \/ Connect
  \/ StartT2N
  \/ StartN2T

StartupSpec == StartupInit /\ [][StartupNext]_startup_vars

-----------------------------------------------------------------------------

\* A text that says an address in dotted form, a colon and a number.
IpText(s) == SubSeq(s, 1, Find(s, Colon) - 1)
PortText(s) == From(s, Find(s, Colon) + 1)

WellFormed(s) ==
  Find(s, Colon) # 0 /\ InetPton(IpText(s)) # Refused /\ Digits(PortText(s))

(* A text that says an address and a number is never refused, and is taken *)
(* for that address, and for that port if the number fits 16 bits.  The    *)
(* parser for IPv6 takes exactly what has brackets, a colon and something  *)
(* behind it.                                                              *)
ReadsAddresses ==
  pc = "address" =>
    /\ WellFormed(text) =>
         LET a == AddrIpv4(text)
         IN  /\ GuessAddrType(text) = "ipv4"
             /\ a # Refused /\ a.ip = InetPton(IpText(text))
             /\ (Len(PortText(text)) <= 5 /\ Decimal(PortText(text)) < 65536) =>
                  a.port = Decimal(PortText(text))
    /\ ParseAddr6(text) # Refused <=>
         \E i \in DOMAIN text :
           /\ text[1] = Bracket /\ text[i] = Unbracket
           /\ \A j \in 1..(i - 1) : text[j] # Unbracket
           /\ i + 2 <= Len(text) /\ text[i + 1] = Colon

(* A client that relays sends to the address it was given.  A server that  *)
(* relays receives at the address it was given exactly when the two calls  *)
(* went well that nobody looks at and the port is not 0 in 16 bits; for    *)
(* port 0 it receives at that host, unless this is 0.0.0.0, but where      *)
(* nobody knows.                                                           *)
RelaysAsAsked ==
  pc = "relays" =>
    IF mode = "client" THEN sock.fd = "open" /\ sock.peer = {ad}
    ELSE /\ sock.local = {ad} <=> (failed = {} /\ ad.port # 0)
         /\ failed = {} /\ ~IsZero(ad) => \E b \in sock.local : b.ip = ad.ip

(* The threads use objects on the stack of main: as long as one runs, they *)
(* are there and the socket is not closed, whichever step fails; and a     *)
(* process that returns from main has no thread, and its socket is closed. *)
ThreadsHaveObjects ==
  /\ threads # {} => {"tun", "ad", "udp"} \subseteq objects /\ sock.fd # "closed"
  /\ pc \in {"exit_0", "exit_1"} => threads = {} /\ sock.fd # "open"
=============================================================================
