# subtun in TLA+

subtun is a small VPN: a client and a server each own a tun device and relay IP
packets between it and sealed UDP datagrams. This directory holds TLA+ models of
its parts, TLC configurations that check them on small instances, and proofs,
checked by TLAPS, of what matters most about its session table and the lists it is
kept in, its relays, its ciphers, its ring buffer and the connections that send from
it, its event loop, its start-up and its handles.

    tlc -config MCSessionMgr.cfg MCSessionMgr     # any of the runs below
    tlapm SessionMgrProofs.tla                    # any of the *Proofs modules

`PROJECT.json` lists the components, the runs with their properties, the code
each definition stands for, the hazards with the properties that cover them, and
the theorems.

## The system

| part | code | state | operations | properties that make it correct |
|---|---|---|---|---|
| session manager | `session_mgr.h` | `m_dict`, the lists of `m_time_wheel`, `m_last`, under `m_lock` | `put`, `has`, `get`, `del`, `update` | a session lives exactly until its deadline is swept; dictionary and wheel agree; `update` ends |
| UDP server | `server.cc` | locals of two threads; the session manager | `server_tun2net`, `server_net2tun`, `update_session_mgr` | answers go where the client was heard; threads survive errors |
| UDP client | `client.cc` | none between turns | `client_tun2net`, `client_net2tun` | it sends where it was told to |
| UDP sockets, ciphers | `udp.h`, `cipher.h`, `cipher.cc` | contexts of OpenSSL, one per function and thread | `sendto`, `recvfrom`, `encrypt`, `decrypt` | packets whole or refused; no nonce twice; what was sealed opens; a failed call spoils no later one |
| ring buffer | `ring_buffer.h`, `ring_buffer.cc` | `m_front`, `m_back`, the cells | queue operations, `append`, `poll`, iterators | a bounded queue; asserts that mean what they say |
| TCP connection | `tcp.h` (`tcp_conn`) | `m_write_buffer` | `send`, `on_writable` | the peer gets the bytes in order, none missing |
| secure TCP connection | `tcp.h` (`stcp_conn`), `cipher.h` (`aead_iter`) | flags, counters, `m_body_size`, `m_read_buffer` | `send`, `recv` | messages arrive in order or an error is raised |
| event loop | `poller.h`, `linux/epoll.h` | `m_fd_data`, entries, the kernel's interest table | `add`, `del`, `wait_write`, `wait` | tables agree; waiting bytes stay watched; no entry is used after its time |
| TCP listener | `tcp.h`, `linux/socket.cc` | a socket | `listen`, `accept` | not modelled |
| addresses, packets | `addr.h`, `utils.h` | none | `parse_addr`, `guess_addr_type`, `is_zero` | an address is read as it is written |
| handles | `utils.h` (`movable_fd`), `udp.h`, `ring_buffer.cc`, `cipher.h` (`aead_iter`) | descriptors, arrays, BIGNUMs | construct, copy, move, assign, destroy | each resource has one owner; a copy or move repeats no nonce |
| tun devices | `linux/tun.cc`, `windows/tun.cc` | a descriptor, or an adapter and a session | `tun_alloc`, read, write | steps of the start-up and of the relays |
| start-up | `main.cc`, `start_client`, `start_udp`, `windows/init.cc` | the objects on main's stack, the socket, the threads | one call after the other | relays with the address it was given; threads never outlive what they use |

How they interact. On the server three threads share one session manager: the
thread from the net puts the sender's endpoint under the packet's source address,
the thread to the net looks the packet's destination up, and the main thread calls
`update` once a second. The lock is held for one call at a time, so everything
between two calls (a `get` and the `sendto` that uses its answer, a `put` and the
`tun_write` that follows it) can be interleaved with the other threads. The TCP
parts are not wired into a program yet (`start_tcp` is not called): an event loop
owns connections, each with a ring buffer for what the socket did not take, and the
secure connection puts records on top.

What is hard in it: deadlines on a wheel that wraps, swept by a thread that may be
late; intrusive lists that are unlinked while they are walked; datagrams that are
lost, duplicated and reordered, from clients that roam; offsets that wrap; sockets
that take a part of what they are offered, or give a part of what was asked;
records whose counters go out of step when a send fails half-way; callbacks that
change the tables that the loop is iterating over; calls into OpenSSL that fail
half-way and leave a context behind; results that nobody looks at; objects that are
moved and assigned while what they owned is handed out again.

## The modules

    SessionTable  <=implements=  SessionMgr  <=implements=  SessionList
         |                           |                          |
         | INSTANCE             SessionMgrProofs        SessionListProofs
       Relay ------ RelayProofs ------ Startup --EXTENDS--> Addr
    ByteQueue  <=implements=  RingBuffer --EXTENDS--> RingOps <--EXTENDS-- TcpConn, StcpConn
                                  |                                           |         |
                              RingProofs  ------------EXTENDS-----------------+   StcpConnProofs
    Sudp --- SudpProofs        Handles --- HandlesProofs        Poller --- PollerProofs

### SessionTable, SessionMgr, SessionList: the session manager

`SessionTable` is the promise: a map from addresses to sessions `[conn, t]`; `put`
and `get` set `t` to now plus `Expire`; a session goes by `del` or, at `t` or
later, by `Forget`. There is no wheel in it.

`SessionMgr` is the code's algorithm. `m_dict`, `wheel` (`m_time_wheel`, a slot
being the set of the sessions linked in it), `m_last` and `now` are the code's
variables; `clock` is `steady_clock` in seconds. `Put`, `Has`, `Get`, `Del`, `Miss`
are the calls, one step each because each holds `m_lock` throughout. `update()` is
`UpdateBegin` (takes the lock, reads the clock), `SweepErase` and `SweepNext`
(turns of its loops) and `UpdateEnd`. The clock moves on between them and the
callers wait.

`del` reads the tree node of an iterator it has erased. That is undefined
behaviour; both outcomes are in the model: the node still holds the pointer and the
entry is unlinked, or it does not and the process goes down (`crashed`).

`SessionList` has the lists themselves: nodes are numbers, `Heads` first, with
`prev` and `next`; `InsertNode` and `RemoveNode` make the assignments of
`insert_node` and `remove_node` one after the other; `update()` has its cursor `p`
(`SlotBegin`, `Visit`, `SlotEnd`). `heap` says which entries are live. An entry that
expires is unlinked and never deleted: it becomes `"leaked"`. This is what the code
does; it keeps the model honest about which addresses `new` can return, and it is
why the run bounds the number of entries. `Ring` is what is met on the way round a
list; `AbsDict` and `AbsWheel` are what dictionary and lists mean to `SessionMgr`.

`StartDelay` states an assumption of all three: the first `update()` comes before a
session can be `Expire` seconds old. `start_udp` starts the relay threads just
before it enters the loop that calls `update()`, and `Expire` is 600 seconds.
Without it a session could have a deadline before `m_last`'s first value.

### Relay: server, clients and the network

`n2t` and `t2n` are the two server threads: a program counter and their locals.
One action per call that touches something shared: `NetRecv` (`recvfrom` and
`parse_src_ip`), `NetPut`, `NetTunWrite`; `TunRead`, `TunGet` or `TunMiss`, `TunSend`.
The session table is `SessionTable`, which `SessionMgr` implements: its `Forget` is
the main thread. A client is `home[v]`, the endpoint it sends from (or none), which
it may change at any time (`Roam`), and one action for a turn of each thread. The
network is two sets of datagrams: any may be lost, delivered late, or delivered and
kept for another time.

A packet is the address the server looks at. A datagram is the packet and the
client's endpoint, and may be damaged on the way (`opens` in `NetRecv`): which
datagrams are cut off or refused for their length is the subject of `Sudp`. The
server's socket takes datagrams from anyone: `NetRecvStray` receives one that no client
sealed. It does not open, and leaves its sender in the thread's local. `decrypt` does
not look whether a datagram has room for iv and tag (`cipher.h:54`): of one that has
not, it copies a tag from before the buffer and hands `EVP_DecryptUpdate` a length below
zero. OpenSSL may refuse that length, or the process goes down in it, before the tag is
compared and so with either cipher; the model has both outcomes (`short`). The clients'
sockets are connected and take datagrams from the server only. `Aead`
is the cipher: with the one that the program uses today nothing opens at all (see
below), and the run takes the one that works.

`Long` are the addresses whose text has 15 characters. `IPv4::to_string` gives
`inet_ntop` room for 14, so that for these the message of the `not found` error
cannot be built, and the `logic_error` that results ends the process (`down`).

### Sudp: sockets and ciphers

One action is one call of `sendto` or `recvfrom`, in which at most one of the calls
below it fails: `failed` names it. The four functions of `cipher.cc` are operators
on their context, which is `null`, `bare` (allocated, but the first `Init` failed)
or `ready`, and remembers the iv it was last given, so that a stale context would
show. A datagram is the iv in front, the iv and the packet it was sealed with, and
its length. `RecvFrom` is given one that a peer sent, or a `Stray`: bytes of no peer, of
any of the lengths `Strays`, sealed under no iv and, when it is shorter than iv and tag,
with a load of a length below zero. If no call failed before, that length reaches
`EVP_DecryptUpdate` (`BelowZero`): an error like others, or the end of the process
(`down`). The socket is asked for `len - min_cap` bytes although the buffer has
`len + min_cap`, so that a packet can be cut off (`Asked`, `Received`); its tag does
not match then. `RAND_bytes` is not checked: when it fails, the iv is anything that
was or was not used before (`RandBytes`). What is on `wire` stays there.

### Handles: who owns what

The objects of one class at a time (`class`): `movable_fd` and `udp` with a
descriptor, `ring_buffer` with an array, `aead_iter` with two BIGNUMs. A resource
that was given back may be handed out again by the next step, so that a double
close or free would hit another object. The faults of the code are in the model:
`init` writes over pointers (`replaced`), `ring_buffer`'s copy assignment frees
before `new` can throw (`dangling`, after which nothing more is said),
`BN_bn2binpad`'s result is not looked at, so that a counter that outgrew the iv
leaves the nonce of the call before (`overflow`), and a copy of an `aead_iter` goes
on from its original's nonce (`copied`).

### Addr, Startup: from main to the threads

`Addr` has the parsers as operators on sequences of characters, with the port in 16
bits and characters subtracted from '0' whatever they are. `Startup` is one action
per call of `main`, `start_client` and `start_udp` (`StartupSpec`); every one may fail. `Throw` is
an exception out of them: it destroys what is on the stack, and if a thread runs by
then its destructor ends the process. `failed` are the calls in `make_udp` whose
result nobody looks at. A socket has the addresses that `bind` and `connect` gave it,
`local` and `peer`, sets of one or none: bound to port 0 it gets one of the kernel's
choice (`Bound`, `Ephemeral`).

### RingOps, ByteQueue, RingBuffer: the ring buffer

`RingOps` has each operation as an operator on the buffer `[cells, front, back]`,
with the code's own arithmetic, the faults included: `Index` subtracts where the
code subtracts, and `Moved` goes on backwards from the wrong end of the array, so
that an iterator can be before it (`it < 0`). `RingBuffer` is a state machine that calls them in any order, with
an iterator and the asserts, and `ByteQueue` is the queue it should be. The caller
of `RingSpec` knows how many bytes there are and asks for no more; the caller of
`TrustingSpec` appends whatever the assert lets through.

### TcpConn, StcpConn: connections

`TcpConn` is the sending side: `send` offers the kernel the bytes, which takes some
number of them (none is `EAGAIN`), and buffers the rest; `on_writable` polls the
buffer into the socket in one or two pieces. A byte is its number in the stream of
all bytes passed to `send`, so order and gaps are visible on `wire`. History:
`accepted`, `lapped` (an append met a wrapped buffer). `SendTakes` is what its callers
can build on: as long as the buffer is not lapped, the bytes that the kernel has and the
bytes that wait are one stream, and only a send changes it, which adds all of its bytes,
none or, when they are more than fit the buffer, the first of them (`Takes`).

`StcpConn` is one direction of a secure connection. `send` makes two records; each
of the three writes of a call may be refused (`SendThrowsAt...`). What happens to
the bytes of a record inside `tcp_conn` is abstracted to that contract of `TcpConn`,
by the same operator: `wire` is the stream, and each of the writes adds as much of its
record as `Takes` allows, so that a long record may be torn. What a lapped buffer makes
of the stream is left to `TcpConn`.
The receiver's `read` is modelled with its fault: when the rest of a record comes,
the part in `m_read_buffer` is neither copied nor removed (`ReadSocket`,
`Leftover`). A socket that does not block and is empty, although bytes may be on their
way, gives `(size_t)-1` (`ReadAgain`);
the sockets of the repository block, so that `MaxAgain = 0` is the program as it is
and a larger value is a caller that makes them non-blocking, which the write buffer
is for. A record opens only if it is whole and the counters agree, and the cipher
can open at all (`CipherOpens`; the run takes one that can).

### Poller: the event loop

Entries at addresses, `m_fd_data`, and the kernel's table `interest`; `EpollWait`
takes a batch of events, `Dispatch` handles one in any order, and while the callback
runs the caller may `Add`, `Del` and `SendWaits`. Addresses and descriptors are used
again. A connection is only the number of bytes waiting in it. `SendWaits` is a send
and the `wait_write` that has to follow it: the repository has no caller yet, and
`need_to_wait_write` exists to ask for it. The callback's `recv` takes what there is.

Nobody looks at the result of `epoll_ctl`, so each call may fail: `Mod` with `works`,
and the two calls of `Add`, of which the kernel takes none, the first or both (`taken`;
`EPOLL_CTL_MOD` cannot work for a socket that was not added). The entry then says
something else than `interest`, and since `set` and `unset` return early by what the
entry says (`Keep`), the refused call is not tried again; the next one that changes the
entry's events sends all of them. `refused` remembers the sockets whose last call failed.

## The runs

| run | configuration | asks |
|---|---|---|
| session_wheel | `MCSessionMgr.cfg` | do wheel and dictionary agree, is no session stranded, is `SessionTable` implemented; are idle sessions forgotten |
| session_list | `MCSessionList.cfg` | are the lists well-formed under every call, is `SessionMgr` implemented, how much does `update` lose, does it return |
| relay | `MCRelay.cfg` | do replies go where the client was heard, does an answer find its session, what can bring the server down, do the threads go on, is a client that moved found |
| ring_buffer | `MCRingBuffer.cfg` | is the ring a queue for a caller that counts, where do iterators stand |
| ring_append_overwrites | `MCRingAppend.cfg` | does the assert of `append` protect unread bytes: **no** |
| tcp_send | `MCTcpConn.cfg` | do bytes arrive in order and complete, what does a send add to the stream, when does `append` leave the array |
| stcp_records | `MCStcpConn.cfg` | what may `recv` return, whatever is cut, refused or missing; what does it take to make the read buffer fail |
| poller | `MCPoller.cfg` | do the tables agree whatever the kernel refuses, are bytes that wait watched, when is an entry stale, are readers and writers served, also when a connection throws |
| sudp | `MCSudp.cfg` | are packets whole and strays refused, does a failed call spoil later ones, is a nonce used once |
| sudp_chacha | `MCSudpChacha.cfg` | does a datagram open that was sealed with the program's cipher: **no** |
| handles | `MCHandles.cfg` | has each resource one owner, is a nonce repeated |
| startup | `MCStartup.cfg` | are addresses read as written, does a process that relays use them, have threads what they point to |

`CHECK_DEADLOCK FALSE` in all: the models stop at their bounds (the clock, the number of
messages or connections), and those in which the process may go down, abort or meet a
fault stop there.

### Disagreements

* `chacha20_poly1305::decrypt` asks for `EVP_CTRL_AEAD_GET_TAG` (`cipher.cc:151`)
  where `aes_128_gcm::decrypt` sets the tag (`EVP_CTRL_GCM_SET_TAG`, `cipher.cc:76`).
  A context that decrypts refuses it, so that the function throws for every datagram
  (sudp_chacha). It is the cipher of the client, the server and `tcp_type`: as it
  stands no packet gets through the tunnel. Calling the function against OpenSSL
  3.0 confirms it (`tag not set'). `Relay` and `StcpConn` are checked with a cipher
  that works, which is what they will be once this line is corrected; what is safe
  there is proved for both (`RelayProofs`).
* `index()` has the wrong sign for a pointer that has wrapped (`ring_buffer.h:180`).
  `size()` is then too small or, as a `size_t`, huge. The assert of `append` admits
  an append over unread bytes (ring_append_overwrites), and `write_to_buffer` of
  `tcp.h` uses the same `size()`, so a connection under load can lose or overrun
  bytes. `NothingMissing`, `OverrunOnlyLapped` and `AssertsFailOnlyWrapped` say
  exactly how far the damage goes: nothing is wrong until a bulk operation meets a
  wrapped buffer.

Two more are stated by properties that hold, as the exact extent of the damage:

* `move()` continues a backward move from the wrong end of the array
  (`ring_buffer.h:198`): `IterAtItsPlace` speaks of iterators that did not cross it.
* `stcp_conn::read` keeps parts of records of up to 16 KB in a buffer of 4 KB
  (`tcp.h:117`): the assert of `append` fails, or in a build without asserts bytes
  are overwritten; `FaultsNeedLong` says that it takes such a record to be waited for,
  and that up to the first error somebody sent it. A receiver that goes on after an
  error can take a short message's body for a length that big.

Things the models show along the way, which no text of the repository denies: a
record that arrives in two pieces is lost unless memory happens to hold its first
piece (`AllDelivered` needs `~fragmented`); after a refused send the counters are
out of step for good, and a receiver that goes on after an error may come into step
again by chance, so that it returns a later message, or even takes a body for a
length (`PrefixUntilError` speaks of the time before the first error); a
connection on which `on_writable` throws can keep the event loop from all others, until
it is deleted (`ReadersServed`); what `epoll_ctl` refused once is not tried again
(`TablesAgree`); a datagram shorter than iv and tag hands OpenSSL a length below zero
(`DownOnlyForStrangers`); a context whose first `Init` fails is kept and fails for ever
(`broken` in `Sudp`); a server whose `bind` fails, or whose port is 0 or 65536, which is
0 in 16 bits, relays on with a socket that nobody can find (`RelaysAsAsked`).

### Bounds

*Session manager.* Two or three addresses. The wheel has 2 or 3 slots and `Expire`
is larger, not a multiple of it, so that a slot holds sessions of several rounds and
`CalcSlot` wraps; the clock runs past two expiries, so sessions expire, are renewed
and come again, and `update` may be late by more than a round. `SessionList` has room
for 4 entries with 3 addresses: lists of three, and up to three leaked entries, as many
as `LeaksAreFew` allows in the time of the run.

*Relay.* One client (`MaxClients`) with either of two addresses; one of
them has 15 characters, so that a packet for a missing session is an error or the end of
the process, and packets for the address without a client come too. Two endpoints, two
datagrams to the server and one answer under way (`MaxInFlight`, `MaxAnswers`), a clock of
two seconds with `Expire = 1`: the client moves while its old datagrams are under way, and
its session expires and comes again. Strays come from either endpoint, also from one the
client never sent from. Clients share nothing in the server but the table, and the safety
properties are proved for any number of them. Datagrams that stay in the network after
delivery stand for any number of duplicates, so that small bounds on the number under way
do not bound how often or how late one arrives.

*Sudp.* A packet that is empty, one that just fits what is asked of the socket and one
that does not, two ivs: enough for one to be drawn twice; strays that are empty, shorter
than iv and tag, as long as these and longer than what is asked. *Handles.* Two objects and
the four resources that they can own at most, counters that run over at 2. *Startup.*
Addresses put together from pieces (`MCStartup`): good and bad numbers, ports that
fit 16 bits, that do not, and that are 0 in them, brackets and missing parts. One port
that the kernel may choose.

*Ring buffer.* Two byte values and four bytes of room: both parts of a wrapped buffer
can hold more than one. In `TcpConn` five bytes of room, the least in which `append`
can leave the array, and sends shorter than, as long as and longer than that. In
`StcpConn` records of one to six bytes and a buffer of four: bodies shorter and
longer than a length record, one that just fits the buffer and one that is too long for
it by two; three messages, enough for one to be lost, one to be misread, one to come
after.

*Poller.* Two descriptors and two addresses for three connections, so both are used
again; batches of two. Two sends that leave a byte waiting each (`MaxSends`, `MaxBytes`):
both connections may have bytes that wait, one may have two that leave one by one, or it
may send again in its callback after `EV_WRITE` was unset. One socket is broken at a time
(`MaxBroken`), and another may be after it was deleted.

### Fairness

`update_session_mgr` is an endless loop on a thread of its own, and the lock is held
for short calls only: `WF(Update)`. The relay threads never wait for anything but the
lock and their input: weak fairness of each of their steps, and none on the steps
that wait for input (`TunRead`, `NetRecv`). `MovedClientIsFound` needs more, about the
environment: the client goes on sending and the network delivers, again and again,
one of the copies (`Talkative`). It is an assumption about clients and networks, not
about the code. The event loop: `WF(Wait)` (the loop calls `wait` for ever and
callbacks return) and peers that read. No code of the repository calls `wait` yet; this
is what its only thread would do. Nothing makes the caller delete a connection that
throws: `ReadersServed` and `WritersServed` except the behaviours in which one is left in
the poller for ever (`<>[]Throwing`), and hold in those in which one threw and was
deleted.

## What is proved

Eight modules prove safety invariants of ten models, and four refinements, for
every value of the constants, from the assumptions that the component's own module
states about them and TLC evaluates.

`SessionMgrProofs`, for any sets of addresses and connections, any number of slots,
any positive `Expire` and any bound of the clock: `TypeCorrect`, `WheelAndDictAgree`
(`WheelIndexesDict`), `NeverStranded` (`NoStranded`) and `ImplementsTable` (`Spec =>
TableSpec`, the time wheel implements the plain table), from `SessionAssumption` (at
least one slot, `Expire > 0`, `StartDelay <= Expire`, `Absent` not a session).
None of the invariants is inductive alone. `NoStranded` (every deadline is at or after
`m_last`) is kept by `put` and `get` because a new deadline is `clock + Expire` and
the cursor is never more than one second past the clock: that is `SweepBounds`, and
it is where `Expire > 0` is used. It is kept by `SweepNext` because what is due at
`m_last` has been erased: everything due is in the slot looked at, which is
`WheelIndexesDict`. It is kept by the first `UpdateBegin`, which sets `m_last` to
the clock, because no deadline is before `Expire` (`DeadlinesAfterExpire`) and the
clock is at most `StartDelay` then. `IInv` is the conjunction, and theorem
`Inductive` has one step per action. For the refinement only `SweepErase` is not
immediate: it is `Forget`, whose guard needs the deadline to be at or before the
clock, which follows from `m_last <= now <= clock`.

`SessionListProofs`, for any number of slots, addresses and entries, from
`ListAssumption`: `ListsStayWhole` (`ListsOK`), `DictStaysExact`
(`DictOwnsEntries`), `CursorStaysSafe` (`CursorSafe`), `ListsImplementWheel`
(`MgrSpec`) and, on top of these, `ListsImplementTable` and `LeaksStayFew`. The
invariant `IInv` says that for each slot there is a way `q` from the head along
`next` back to the head that meets no node twice (`Cycle`) and meets just the live
entries of the slot (`LiveIn`); that `prev` and `next` are inverse and an entry on
no list points to itself (`Lists`); and, while `update()` walks, that the cursor is
on that way and no entry before it is due (`Walking`). The last is what makes the
refinement work: a walk that is back at the head has passed every entry, so that the
slot is left with nothing that is due, which is the guard of `SweepNext`. The
argument goes in three layers. `InsertEffect` and `RemoveEffect` reduce the
assignments of `insert_node` and `remove_node`, done in the code's order, to an
update of two functions; `CycleInsert` and `CycleRemove` say what that does to one
cycle, `CycleOther` that it leaves the others alone; `InsertKeepsLists` and
`RemoveKeepsLists` put the lists together again, and each action then is one or two
of these. `RingFindsList` closes the gap to the recursive function in `ListsOK`:
`Ring` takes enough steps to come round the longest list there can be. It needs an
induction along the list, which is done with the least step at which the claim would
fail (`NatLeast`, from the well-foundedness of strict inclusion of finite sets). For
the refinement, `WheelFromDict` shows that the wheel of sets can be read off the
dictionary, before and after a step, so that each action only has to say what it
does to the dictionary. `ListsImplementTable` (`Spec => Mgr!TableSpec`) puts this
together with `ImplementsTable`, taken through the same mapping (`MgrProofs`): the
linked lists implement the plain table.

`LeaksStayFew` (`LeaksAreFew`, for finitely many addresses) bounds what `update()` drops
and nothing deletes: one entry for each address in `Expire` seconds. The dropped entry is
blank, so that the bound is not inductive by itself; `LeakAccount` gives each lost entry
the address and the deadline it had. The deadlines of one address are `Expire` apart,
because it has one live entry, and that was put after the last one was swept.
`LeakCount` turns the account into an injection into addresses and turns of `Expire`
seconds.

`RelayProofs`: the types (`TypeCorrect`), `RepliesWhereHeard` (`ReplyWhereHeard`),
`AnswersFindSessions` (`AnswerFindsSession`) and `StrangersOnly`
(`DownOnlyForStrangers`), for any number of clients, endpoints and datagrams, with
strays among them, and either cipher. Where a reply goes is inductive once every datagram
under way to the server, and the endpoint beside the packet in `n2t`, is known to be one the client
has sent from. That an answer finds its session needs that a session's deadline is at
least `Expire` after the last put (a lookup only moves it on), so that `Forget` is not
enabled before.

The same module has the theorems about `Startup`, for any texts: `AlwaysRelaysAsAsked`
(`RelaysAsAsked`), `ThreadsAlwaysHaveObjects` (`ThreadsHaveObjects`) and
`AlwaysReadsAddresses` (`ReadsAddresses`). The invariant `StartupInv` follows `pc`: before
the socket is made there is none and no thread, and from the first thread on an exception
finds a thread that is still joinable and ends the process before an object is destroyed.

What the parsers read is an induction over the text, and the theorems of the library that
do inductions take the induction's predicate as a parameter, which no prover here can
instantiate. `UpTo` is induction without it: of the numbers up to `n` that are not in a
set, there would be a least one (`NatLeast`, from the well-foundedness of strict inclusion
of finite sets). `Decimal` and `ReadPort` are folds, which the community modules define
by the choice of a function on the sets of positions; `FoldExists` shows that there is
one, built up from the empty beginning of the text, and `DecimalBySteps` and `PortBySteps`
that any such choice goes through the text from the left. `PortModulo` follows, for texts
of any length and any characters: the port, reduced to 16 bits at each character, is the
number that the text says modulo 2^16. With `FindFirst`, and with what a text must look
like for `inet_pton` to take it (`InetPtonText`: seven characters or more, a digit, a dot),
each text of an address and a number passes `guess_addr_type`. `RefusedAssumption` says
that an exception is not a result, `StartupAssumption` that texts are sequences of
numbers, and `EphemeralAssumption` that the kernel does not choose port 0; nothing else
is assumed.

`SudpProofs`: `NoncesOnce` (`NonceOnce`) and `PacketsWhole` (`WholePackets`) for both
ciphers, `OpensWhatWasSealed` (`ThrowsForAReason`) for aes_128_gcm, with strays of any
lengths. The last needs
that a context is `bare` only where `broken` says so, and that a datagram's iv is the
one in front of it, which is part of `NonceOnce`.

`HandlesProofs`: `SoleOwners` (`OneOwner`) and `NoncesStayFresh` (`NoncesFresh`), for
any number of objects and resources and any width of the counters. Ownership is
inductive as `Sound`, which also says that the two fields of one object differ, and
holds until a pointer dangles. Freshness needs `Ahead`: the number in a live BIGNUM
is past every nonce that was sealed with the same iv, and no iv is in two of them,
until there was a copy or an overflow.

`PollerProofs`: `TablesAlwaysAgree` (`TablesAgree`), `WritersAlwaysWatched`
(`WritersWatched`) and `StaleOnlyByForeignDel` (`StaleNeedsForeignDel`), for any
descriptors, addresses, batches and numbers of sends, and whatever the kernel refuses.
The tables stay in agreement because each entry can be found by its own descriptor and no
two entries have the same number (`EntriesFound`); a change of an entry is one call that
works, one that is refused, or none and then of no event (`Changes`). Bytes that wait
stay watched because their entry asks for it (`WritersAsked`), which is inductive where
what the kernel watches is not. No entry is used after its time because of `BatchLive`:
until a callback deletes a connection that is not its own, each event that is left is for an
entry that is still there under its number, no two are for the same one, and none is
for the connection whose callback runs, so that this one may be deleted.

`RingProofs`, for any capacity, any bytes and any strides of the iterator:
`RingTypes` (`RingTypeOK`), `RingAsserts` (`AssertsFailOnlyWrapped`), `RingIterators`
(`IterAtItsPlace`) and `RingImplementsQueue` (`QueueSpec`, the ring is a queue of `Cap`
bytes). Its first part is lemmas about `RingOps` alone: what each operation makes of the
sequence of bytes that a buffer holds (`PushedBackContent`, `PoppedFrontContent`, ...,
`PolledContent`), each for a buffer whose bytes lie in one piece and for one that wraps,
and where an iterator goes (`MovedPlace`). `AppendedContent` is the exact effect of
`append` where its assert holds and it stays in the array: the bytes follow those that
wait or, if the buffer has wrapped, what is left are the last of those appended.
`RingInv` adds to the types that an iterator is at its place or before the array, and
that only `poll` and iterators have failed, with a buffer that wraps.

The same module has the theorems about `TcpConn`, on these lemmas, from `TcpAssumption`
and `CapAssumption`:
`TcpInOrder` (`InOrder`), `TcpNothingMissing` (`NothingMissing`), `TcpSendTakes`
(`SendTakes`) and `TcpOverruns` (`OverrunOnlyLapped`), for any size of the write
buffer, any lengths of sends and anything the kernel takes of them. That the bytes on
the wire and in the buffer increase is not inductive if it is said of neighbours: what
an `append` over unread bytes leaves stands next to bytes it was not next to before. It
is inductive of all pairs (`Increasing`), with no byte above `passed`, the number of the
last one. Until an `append` meets a wrapped buffer (`lapped`), wire and buffer together
are what was accepted; after that only the order is left. `SendTakes` follows from that
and from what a step makes of `accepted` (`StepAccepts`); it is the premise on which
`StcpConn` stands.

`StcpConnProofs`, for any lengths of messages and any number of them, any sizes of
nonce, length and tag that fit the read buffer, any size of that buffer, blocking
sockets or not: `StreamInvariant`, `ReceivesPrefix` (`PrefixUntilError`) and
`FaultsOnlyForLong` (`FaultsNeedLong`) for both ciphers, and `DeliversAll`
(`AllDelivered`) for aes_128_gcm, since with the other recv throws at the first length.
`StcpAssumption` says of the memory that `read` leaves unwritten that it is not by
accident a byte of a record; that it is, because the caller's array is the one of the
call before, is in the model (`Leftover`).

* `StreamInv` has three parts. The counters with which the calls of send began are 0 up
  to the first after a start value went out, and increase from there (`Opened`): no two
  records have the same nonce. All bytes on the stream, in the read buffer and in what
  `read` hands out are of start values, of messages whose two records were both sealed, or
  garbage (`Told`, `Known`), so that what opens is a record of such a message
  (`OpensTold`). Up to the first error the receiver is between two messages or between a
  length and its body, with the counter that goes with the number of messages returned
  (`InStep`). Together they leave one record that can open, the next (`NextRecord`). What
  is on the stream behind it does not matter: torn records, lost counters and parts taken
  twice only lead to an error.
* That a fault needs a long record is a property of one call once the buffer is one
  (`RecordFits`): `size()` may be wrong, but it is never more than what is there, so that
  for a record that fits, room is left.
* `DeliverInv` is about the whole stream. While no send was refused, no record came in two
  pieces and no read met an empty socket, the stream is the records from the next one on
  (`Cut`, `Lined`): a function gives the place at which each message begins, the first at
  0, after the start value, or before the stream's begin by the length already read. Sends
  extend that function (`AppendCut`), a read shifts it (`TakeCut`), and the record that
  recv asks for is the first on the stream and there to its last byte (`DueIsWhole`). The
  read buffer then starts at 0 and holds less than what is wanted (`Straight`), and a part
  that could not be kept leaves its rest on the stream (`PartIsFault`).

The attempt to prove `FaultsNeedLong` showed that an earlier form of it, which asked for
a long message to have been sent in every case, holds only within the bounds of the run.
With four messages, of lengths 0, 2, 1 and 2, a receiver that goes on after its errors
takes a body for a length.

Only model-checked: the liveness properties (`OverdueForgotten`, `UpdateReturns`,
`RelaysGoOn`, `MovedClientIsFound`, `ReadersServed`, `WritersServed`): fairness and
`ENABLED` are out of the prover's reach. Every invariant and every action property that a
run checks is proved. What does *not* hold has its run: nothing is proved of the caller of
`append` that trusts its assert, nor that anything is delivered under the cipher that
opens nothing.

## What is not modelled

* What OpenSSL and the kernel compute: a sealed packet opens or does not, and what no
  peer sealed does not open. Of a datagram shorter than iv and tag, which bytes before
  the buffer are copied as its tag: what is compared with them never opens.
* Datagrams that somebody else sends to a client in the server's name; to the client they
  are damaged ones, and what becomes of them in `recvfrom` is in `Sudp`.
* `tcp_listener`: `accept_tcp4` and `accept_tcp6` call `accept` on an uninitialized
  variable; reading shows it, and nothing calls them: `start_tcp` is not called.
* The contents of packets beyond one address and a length; a packet that is not
  IPv4 is dropped like one that does not open.
* The functions for IPv6, which are those for IPv4 with other types and which the
  program does not instantiate, but for `parse_addr<IPv6>`.
* Of the windows port: the datagram functions (those of linux over other calls),
  `tun_read`, which waits and tries again, `tun_write`, whose return value is missing
  when the ring is full, and `tun_free`, which nothing calls. `wintun.h` is declarations
  of a library.
* The move assignment of `epoll`, which nothing uses, and the growth of `m_fd_data`.
* Several threads in one event loop: neither class is meant for it.

## Plan

In the order of importance:

1. **Records over a lapped buffer.** `StcpConn` and `TcpConn` meet in `Takes`, which
   holds until an `append` meets a wrapped buffer. One module with the states of both
   would say what becomes of the records after that.
2. **The TCP listener**, once `accept` is called on the listening socket.
