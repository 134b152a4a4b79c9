------------------------------- MODULE Poller -------------------------------
(***************************************************************************)
(* The event loop for TCP connections: poller (src/poller.h) over epoll    *)
(* (src/linux/epoll.h), one thread.  An entry of the heap owns a           *)
(* connection and with it the socket; m_fd_data finds it by the socket's   *)
(* descriptor, and the kernel hands its address back with each event.  The *)
(* callback f of wait() may add, delete and write to any connection while  *)
(* the events of the batch that follow are still to be dispatched.  The    *)
(* kernel may refuse each epoll_ctl, and nobody looks at its result.       *)
(*                                                                         *)
(* The connection, tcp_conn, is how many bytes wait in its write buffer.   *)
(***************************************************************************)
EXTENDS Integers, FiniteSets

CONSTANTS
  Fd,        \* the descriptors that the kernel gives to sockets
  Address,   \* the addresses that `new entry' can return
  MaxBatch,  \* the size of m_events, 64
  MaxConns,  \* bound on the connections ever added
  MaxSends,  \* bound on the sends that the kernel does not take at once
  MaxBytes,  \* bound on the bytes such a send leaves waiting
  MaxBroken, \* bound on the sockets that are broken at a time
  Nil

ASSUME PollerAssumption ==
  /\ MaxBatch \in Nat \ {0}
  /\ {MaxConns, MaxSends, MaxBytes, MaxBroken} \subseteq Nat
  /\ Nil \notin Fd \cup Address

Events == SUBSET {"EV_READ", "EV_WRITE"}

\* A connection is known by its number; an event carries it as history.
Entry == [fd : Fd, events : Events, conn : 1..MaxConns, waiting : Nat]
Interest == [ptr : Address, events : Events]
Event == [ptr : Address, events : Events, conn : 1..MaxConns]

ASSUME NilAssumption == Nil \notin Entry \cup Interest \cup Event

VARIABLES
  m_fd_data,  \* Fd -> the address of its entry, or Nil
  entry,      \* Address -> the entry there, or Nil
  interest,   \* the kernel: Fd -> what epoll watches, or Nil
  readable,   \* the kernel: the sockets with bytes to read
  full,       \* the kernel: the sockets that take no bytes
  broken,     \* the kernel: the sockets on which send fails
  pc,         \* "outside" wait(), "batch" between two events, "callback" in f
  batch,      \* the events of m_events still to be dispatched
  cur,        \* the event whose callback runs, or Nil
  added, sends,  \* how many connections were added, how many sends made to wait
  refused,    \* history: the sockets whose last epoll_ctl failed
  foreign,    \* history: f deleted a connection other than its own
  stale       \* "none"; "freed", "reused": wait() used an entry after its
              \* connection was deleted

kernel == <<readable, full, broken>>
vars == <<m_fd_data, entry, interest, kernel, pc, batch, cur, added, sends,
          refused, foreign, stale>>

Init ==
  /\ m_fd_data = [f \in Fd |-> Nil]
  /\ entry = [a \in Address |-> Nil]
  /\ interest = [f \in Fd |-> Nil]
  /\ readable = {}
  /\ full = {}
  /\ broken = {}
  /\ pc = "outside"
  /\ batch = {}
  /\ cur = Nil
  /\ added = 0
  /\ sends = 0
  /\ refused = {}
  /\ foreign = FALSE
  /\ stale = "none"

Opened == {f \in Fd : m_fd_data[f] # Nil}

\* The caller's code runs: in f, or around wait().
CallerRuns == pc \in {"outside", "callback"}

-----------------------------------------------------------------------------
(* The calls *)

\* What is remembered of an epoll_ctl for f.
Answered(f, works) ==
  refused' = IF works THEN refused \ {f} ELSE refused \cup {f}

\* The entry at a becomes e, and epoll_ctl(EPOLL_CTL_MOD) tells the kernel its
\* events, which it refuses at least when it does not watch the socket.
Mod(a, e, works) ==
  /\ works => interest[e.fd] # Nil
  /\ entry' = [entry EXCEPT ![a] = e]
  /\ interest' = IF works THEN [interest EXCEPT ![e.fd] = [ptr |-> a, events |-> e.events]]
                          ELSE interest
  /\ Answered(e.fd, works)

\* The entry at a becomes e, and the kernel is not called.
Keep(a, e) ==
  /\ entry' = [entry EXCEPT ![a] = e]
  /\ UNCHANGED <<interest, refused>>

\* A new entry e at a; of the two calls that follow, EPOLL_CTL_ADD without events
\* and EPOLL_CTL_MOD with those of e, the kernel takes none, one or both.
New(a, e, taken) ==
  /\ entry' = [entry EXCEPT ![a] = e]
  /\ interest' = [interest EXCEPT ![e.fd] =
                    CASE taken = 0 -> Nil
                      [] taken = 1 -> [ptr |-> a, events |-> {}]
                      [] OTHER -> [ptr |-> a, events |-> e.events]]
  /\ Answered(e.fd, taken = 2)

\* Variant: the socket is added and not set to be read.
AddOnly(f, a, taken) ==
  /\ CallerRuns
  /\ added < MaxConns
  /\ m_fd_data[f] = Nil
  /\ entry[a] = Nil
  /\ m_fd_data' = [m_fd_data EXCEPT ![f] = a]
  /\ New(a, [fd |-> f, events |-> {}, conn |-> added + 1, waiting |-> 0], taken)
  /\ added' = added + 1
  /\ UNCHANGED <<kernel, pc, batch, cur, sends, foreign, stale>>

\* add: epoll::add and set(EV_READ) for a socket just accepted.
Add(f, a, taken) ==
  /\ CallerRuns
  /\ added < MaxConns
  /\ m_fd_data[f] = Nil
  /\ entry[a] = Nil
  /\ m_fd_data' = [m_fd_data EXCEPT ![f] = a]
  /\ New(a, [fd |-> f, events |-> {"EV_READ"}, conn |-> added + 1, waiting |-> 0], taken)
  /\ added' = added + 1
  /\ UNCHANGED <<kernel, pc, batch, cur, sends, foreign, stale>>

\* Variant: the slot of m_fd_data is not cleared.
DelKeepsSlot(f) ==
  LET a == m_fd_data[f]
  IN  /\ CallerRuns
      /\ a # Nil
      /\ entry' = [entry EXCEPT ![a] = Nil]
      /\ interest' = [interest EXCEPT ![f] = Nil]
      /\ readable' = readable \ {f}
      /\ full' = full \ {f}
      /\ broken' = broken \ {f}
      /\ refused' = refused \ {f}
      /\ foreign' = (foreign \/ (pc = "callback" /\ entry[a].conn # cur.conn))
      /\ UNCHANGED <<m_fd_data, pc, batch, cur, added, sends, stale>>

\* del: deleting the entry closes the socket, so that the kernel forgets it;
\* the epoll_ctl(EPOLL_CTL_DEL) that follows fails on a closed descriptor.
Del(f) ==
  LET a == m_fd_data[f]
  IN  /\ CallerRuns
      /\ a # Nil
      /\ m_fd_data' = [m_fd_data EXCEPT ![f] = Nil]
      /\ entry' = [entry EXCEPT ![a] = Nil]
      /\ interest' = [interest EXCEPT ![f] = Nil]
      /\ readable' = readable \ {f}
      /\ full' = full \ {f}
      /\ broken' = broken \ {f}
      /\ refused' = refused \ {f}
      /\ foreign' = (foreign \/ (pc = "callback" /\ entry[a].conn # cur.conn))
      /\ UNCHANGED <<pc, batch, cur, added, sends, stale>>

\* A send of which n bytes have to wait (all of them when others wait already,
\* and else those that the socket does not take; a broken one throws), and the
\* wait_write that need_to_wait_write then asks for.  set returns early if it was
\* asked before, so that what the kernel refused then is not tried again.
SendWaits(f, n, works) ==
  LET a == m_fd_data[f]
      e == [entry[a] EXCEPT !.waiting = @ + n, !.events = @ \cup {"EV_WRITE"}]
  IN  /\ CallerRuns
      /\ sends < MaxSends
      /\ a # Nil
      /\ entry[a].waiting > 0 \/ f \notin broken
      /\ IF "EV_WRITE" \in entry[a].events THEN Keep(a, e) ELSE Mod(a, e, works)
      /\ full' = IF entry[a].waiting = 0 THEN full \cup {f} ELSE full
      /\ sends' = sends + 1
      /\ UNCHANGED <<m_fd_data, readable, broken, pc, batch, cur, added, foreign, stale>>

-----------------------------------------------------------------------------
(* wait *)

Watched(f) == IF interest[f] = Nil THEN {} ELSE interest[f].events

Ready(f) ==
  Watched(f) \cap
    ((IF f \in readable THEN {"EV_READ"} ELSE {})
       \cup (IF f \notin full \/ f \in broken THEN {"EV_WRITE"} ELSE {}))

ReadyFds == {f \in Opened : Ready(f) # {}}

\* epoll_wait fills m_events with the events of as many sockets as fit.
EpollWait(fds) ==
  /\ pc = "outside"
  /\ stale = "none"
  /\ fds # {}
  /\ Cardinality(fds) = MaxBatch \/ (fds = ReadyFds /\ Cardinality(fds) < MaxBatch)
  /\ batch' = {[ptr |-> interest[f].ptr, events |-> Ready(f),
                conn |-> entry[interest[f].ptr].conn] : f \in fds}
  /\ pc' = "batch"
  /\ UNCHANGED <<m_fd_data, entry, interest, kernel, cur, added, sends, refused,
                 foreign, stale>>

\* The address that came with the event no longer holds an entry.
DispatchFreed(ev) ==
  /\ pc = "batch"
  /\ entry[ev.ptr] = Nil
  /\ stale' = "freed"
  /\ batch' = {}
  /\ pc' = "outside"
  /\ UNCHANGED <<m_fd_data, entry, interest, kernel, cur, added, sends, refused,
                 foreign>>

\* f is called when the event says so, and recv takes what there is.
CallBack(ev) ==
  LET called == "EV_READ" \in ev.events
  IN  /\ pc' = IF called THEN "callback" ELSE "batch"
      /\ cur' = IF called THEN ev ELSE Nil
      /\ readable' = IF called THEN readable \ {entry[ev.ptr].fd} ELSE readable

Reused(ev) == IF entry[ev.ptr].conn # ev.conn THEN "reused" ELSE stale

\* Variant: the socket is not watched any more, whatever is left.
WritesOnce(ev, n, works) ==
  LET e == entry[ev.ptr]
  IN  /\ n \in IF e.waiting > 0 /\ e.fd \notin full THEN 1..e.waiting ELSE {0}
      /\ full' = IF n < e.waiting THEN full \cup {e.fd} ELSE full
      /\ Mod(ev.ptr, [e EXCEPT !.waiting = @ - n, !.events = @ \ {"EV_WRITE"}], works)

\* on_writable: the kernel takes n bytes; when none are left, the socket is not
\* watched for writing any more.  unset returns early if it was not by its entry.
Writes(ev, n, works) ==
  LET e == entry[ev.ptr]
      left == [e EXCEPT !.waiting = @ - n]
  IN  /\ n \in IF e.waiting > 0 /\ e.fd \notin full THEN 1..e.waiting ELSE {0}
      /\ full' = IF n < e.waiting THEN full \cup {e.fd} ELSE full
      /\ IF n = e.waiting /\ "EV_WRITE" \in e.events
         THEN Mod(ev.ptr, [left EXCEPT !.events = @ \ {"EV_WRITE"}], works)
         ELSE Keep(ev.ptr, left)

Dispatch(ev) ==
  LET e == entry[ev.ptr]
  IN  /\ pc = "batch"
      /\ e # Nil
      /\ batch' = batch \ {ev}
      /\ stale' = Reused(ev)
      /\ CallBack(ev)
      /\ IF "EV_WRITE" \in ev.events
         THEN /\ ~(e.fd \in broken /\ e.waiting > 0)
              /\ \E n \in 0..e.waiting, works \in BOOLEAN : Writes(ev, n, works)
         ELSE UNCHANGED <<entry, interest, refused, full>>
      /\ UNCHANGED <<m_fd_data, broken, added, sends, foreign>>

\* send fails under on_writable: the exception leaves wait(), and the rest of
\* the batch with it.
DispatchThrows(ev) ==
  LET e == entry[ev.ptr]
  IN  /\ pc = "batch"
      /\ e # Nil
      /\ "EV_WRITE" \in ev.events
      /\ e.fd \in broken /\ e.waiting > 0
      /\ batch' = {}
      /\ pc' = "outside"
      /\ stale' = Reused(ev)
      /\ UNCHANGED <<m_fd_data, entry, interest, kernel, cur, added, sends, refused,
                     foreign>>

\* Variant: the loop looks at the entry again after f.
CallBackEndTouches ==
  /\ pc = "callback"
  /\ pc' = "batch"
  /\ cur' = Nil
  /\ stale' = IF entry[cur.ptr] = Nil THEN "freed" ELSE stale
  /\ UNCHANGED <<m_fd_data, entry, interest, kernel, batch, added, sends, refused,
                 foreign>>

CallBackEnd ==
  /\ pc = "callback"
  /\ pc' = "batch"
  /\ cur' = Nil
  /\ UNCHANGED <<m_fd_data, entry, interest, kernel, batch, added, sends, refused,
                 foreign, stale>>

WaitEnd ==
  /\ pc = "batch"
  /\ batch = {}
  /\ pc' = "outside"
  /\ UNCHANGED <<m_fd_data, entry, interest, kernel, batch, cur, added, sends,
                 refused, foreign, stale>>

Wait ==
  \/ \E fds \in SUBSET ReadyFds : EpollWait(fds)
  \/ \E ev \in batch : Dispatch(ev) \/ DispatchThrows(ev) \/ DispatchFreed(ev)
  \/ CallBackEnd
  \/ WaitEnd

-----------------------------------------------------------------------------
(* The kernel and the peers *)

Arrive(f) ==
  /\ f \in Opened
  /\ readable' = readable \cup {f}
  /\ UNCHANGED <<m_fd_data, entry, interest, full, broken, pc, batch, cur, added,
                 sends, refused, foreign, stale>>

PeerReads(f) ==
  /\ f \in full
  /\ full' = full \ {f}
  /\ UNCHANGED <<m_fd_data, entry, interest, readable, broken, pc, batch, cur,
                 added, sends, refused, foreign, stale>>

Breaks(f) ==
  /\ f \in Opened
  /\ broken' = broken \cup {f}
  /\ Cardinality(broken') <= MaxBroken
  /\ UNCHANGED <<m_fd_data, entry, interest, readable, full, pc, batch, cur, added,
                 sends, refused, foreign, stale>>

Next ==
  \/ Wait
  \/ \E f \in Fd :
       \/ \E a \in Address, taken \in 0..2 : Add(f, a, taken)
       \/ Del(f)
       \/ \E n \in 1..MaxBytes, works \in BOOLEAN : SendWaits(f, n, works)
       \/ Arrive(f)
       \/ PeerReads(f)
       \/ Breaks(f)

Spec == Init /\ [][Next]_vars

\* The loop calls wait() for ever, f returns, and a peer reads what comes.
FairSpec ==
  /\ Spec
  /\ WF_vars(Wait)
  /\ \A f \in Fd : WF_vars(PeerReads(f))

-----------------------------------------------------------------------------

(* Every variable holds values of its type; a callback has its event.      *)
TypeOK ==
  /\ m_fd_data \in [Fd -> Address \cup {Nil}]
  /\ entry \in [Address -> Entry \cup {Nil}]
  /\ interest \in [Fd -> Interest \cup {Nil}]
  /\ readable \subseteq Opened /\ full \subseteq Opened /\ broken \subseteq Opened
  /\ pc \in {"outside", "batch", "callback"}
  /\ batch \subseteq Event
  /\ cur \in Event \cup {Nil}
  /\ pc = "callback" <=> cur # Nil
  /\ added \in 0..MaxConns
  /\ sends \in 0..MaxSends
  /\ refused \subseteq Opened
  /\ foreign \in BOOLEAN
  /\ stale \in {"none", "freed", "reused"}

\* The entry at a is that of f, and the kernel watches f for it as it says, or
\* refused the last call.
AgreeOn(f, a) ==
  /\ entry[a] # Nil
  /\ entry[a].fd = f
  /\ \/ interest[f] = [ptr |-> a, events |-> entry[a].events]
     \/ f \in refused /\ (interest[f] = Nil \/ interest[f].ptr = a)

(* The three tables agree: a socket has an entry, and the entry it, exactly *)
(* while it is open, also when descriptors and addresses are used again;   *)
(* and the kernel watches it for that entry and for the events the entry   *)
(* says.  After a call that the kernel refused, it watches the socket not  *)
(* at all or for other events, but never for another entry, and the next   *)
(* call that it takes sets that right.                                     *)
TablesAgree ==
  /\ TypeOK
  /\ \A f \in Fd :
       IF m_fd_data[f] = Nil THEN interest[f] = Nil ELSE AgreeOn(f, m_fd_data[f])

(* Bytes that wait are never forgotten: as long as a connection has some   *)
(* the kernel watches for the moment it can write, unless it refused to.   *)
WritersWatched ==
  \A f \in Opened \ refused :
    entry[m_fd_data[f]].waiting > 0 => "EV_WRITE" \in Watched(f)

(* wait() uses an entry whose connection was deleted, or another one in    *)
(* its place, only after a callback deleted a connection that was not its  *)
(* own: to delete one's own is safe, and so is any del outside of f.       *)
StaleNeedsForeignDel ==
  stale # "none" => foreign

\* A socket is broken whose connection has bytes that wait: on_writable throws.
Throwing ==
  \E f \in broken : entry[m_fd_data[f]].waiting > 0 /\ "EV_WRITE" \in Watched(f)

(* Bytes that came are read, and bytes that wait are written, if the loop  *)
(* goes on, no entry was used after its time and the kernel did not refuse *)
(* to watch the socket.  A throw takes the rest of the batch away from the *)
(* others, and they are served all the same, unless the caller leaves the  *)
(* connection that throws in the poller for ever.                          *)
ReadersServed ==
  \A f \in Fd :
    \/ (f \in readable) ~> (f \notin readable \/ f \in refused \/ stale # "none")
    \/ <>[]Throwing

WritersServed ==
  \A f \in Fd :
    \/ (f \in Opened /\ entry[m_fd_data[f]].waiting > 0)
         ~> (f \notin Opened \/ entry[m_fd_data[f]].waiting = 0 \/ f \in refused
             \/ stale # "none")
    \/ <>[]Throwing
=============================================================================
