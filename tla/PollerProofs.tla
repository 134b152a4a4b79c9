---------------------------- MODULE PollerProofs ----------------------------
(***************************************************************************)
(* Proofs about Poller, for any descriptors, addresses and sizes of the    *)
(* batch.                                                                  *)
(***************************************************************************)
EXTENDS Poller, TLAPS

\* An entry with bytes that wait asks for the moment its socket can be written.
WritersAsked ==
  \A a \in Address :
    entry[a] # Nil /\ entry[a].waiting > 0 => "EV_WRITE" \in entry[a].events

\* The entry at a can be found by its descriptor, and no other has its number.
EntriesFound ==
  \A a \in Address : entry[a] # Nil =>
    /\ m_fd_data[entry[a].fd] = a
    /\ entry[a].conn <= added
    /\ \A b \in Address : entry[b] # Nil /\ entry[b].conn = entry[a].conn => a = b

\* Until a callback deletes another connection, the events that are left are
\* for connections that are still there, none twice and none the one whose
\* callback runs.
BatchLive ==
  /\ pc = "outside" => batch = {}
  /\ \A ev, ew \in batch : ev.conn = ew.conn => ev = ew
  /\ cur # Nil => \A ev \in batch : ev.conn # cur.conn
  /\ ~foreign =>
       /\ stale = "none"
       /\ \A ev \in batch : entry[ev.ptr] # Nil /\ entry[ev.ptr].conn = ev.conn

IInv ==
  /\ TablesAgree
  /\ WritersAsked
  /\ EntriesFound
  /\ BatchLive

-----------------------------------------------------------------------------

LEMMA InitInv == Init => IInv
<1> SUFFICES ASSUME Init PROVE IInv
  OBVIOUS
<1>1. 0 \in 0..MaxConns /\ 0 \in 0..MaxSends
  BY PollerAssumption
<1>2. TypeOK
  BY <1>1 DEF Init, TypeOK
<1>3. QED
  BY <1>2 DEF Init, IInv, TablesAgree, WritersAsked, EntriesFound, BatchLive, Opened

\* What the invariant says of the entry at an address.
LEMMA AtAddress ==
  ASSUME IInv, NEW a \in Address, entry[a] # Nil
  PROVE  /\ entry[a] \in Entry
         /\ entry[a].fd \in Opened
         /\ m_fd_data[entry[a].fd] = a
<1>1. entry[a] \in Entry
  BY DEF IInv, TablesAgree, TypeOK
<1>2. entry[a].fd \in Fd /\ m_fd_data[entry[a].fd] = a
  BY <1>1 DEF Entry, IInv, EntriesFound
<1>3. QED
  BY <1>1, <1>2, PollerAssumption DEF Opened

\* What the invariant says of an open descriptor.
LEMMA AtDescriptor ==
  ASSUME IInv, NEW f \in Opened
  PROVE  /\ f \in Fd
         /\ m_fd_data[f] \in Address
         /\ entry[m_fd_data[f]] \in Entry
         /\ entry[m_fd_data[f]].fd = f
         /\ interest[f] # Nil => interest[f] \in Interest /\ interest[f].ptr = m_fd_data[f]
<1>1. f \in Fd /\ m_fd_data[f] \in Address
  BY DEF Opened, IInv, TablesAgree, TypeOK
<1>2. /\ entry[m_fd_data[f]] # Nil /\ entry[m_fd_data[f]].fd = f
      /\ interest[f] # Nil => interest[f].ptr = m_fd_data[f]
  <2>1. AgreeOn(f, m_fd_data[f])
    BY <1>1 DEF Opened, IInv, TablesAgree
  <2>2. QED
    BY <2>1 DEF AgreeOn
<1>3. entry[m_fd_data[f]] \in Entry /\ (interest[f] # Nil => interest[f] \in Interest)
  BY <1>1, <1>2 DEF IInv, TablesAgree, TypeOK
<1>4. QED
  BY <1>1, <1>2, <1>3

-----------------------------------------------------------------------------
(* The calls *)

LEMMA AddInv ==
  ASSUME IInv, NEW f \in Fd, NEW a \in Address, NEW taken \in 0..2, Add(f, a, taken)
  PROVE  IInv'
<1> DEFINE e == [fd |-> f, events |-> {"EV_READ"}, conn |-> added + 1, waiting |-> 0]
           i == CASE taken = 0 -> Nil
                  [] taken = 1 -> [ptr |-> a, events |-> {}]
                  [] OTHER -> [ptr |-> a, events |-> e.events]
<1>1. e \in Entry /\ e # Nil
  <2>1. added + 1 \in 1..MaxConns
    BY PollerAssumption DEF Add, IInv, TablesAgree, TypeOK
  <2>2. e \in Entry
    BY <2>1 DEF Entry, Events
  <2>3. QED
    BY <2>2, NilAssumption
<1>2. /\ m_fd_data' = [m_fd_data EXCEPT ![f] = a]
      /\ entry' = [entry EXCEPT ![a] = e]
      /\ interest' = [interest EXCEPT ![f] = i]
      /\ refused' = IF taken = 2 THEN refused \ {f} ELSE refused \cup {f}
      /\ m_fd_data[f] = Nil /\ entry[a] = Nil /\ added' = added + 1
      /\ UNCHANGED <<readable, full, broken, pc, batch, cur, sends, foreign, stale>>
  BY DEF Add, New, Answered, kernel
<1>3. /\ e.fd = f /\ e.conn = added + 1 /\ e.waiting = 0
      /\ i \in Interest \cup {Nil}
      /\ taken = 2 => i = [ptr |-> a, events |-> e.events]
      /\ taken # 2 => i = Nil \/ i.ptr = a
  BY DEF e, i, Interest, Events
<1> HIDE DEF e, i
<1>4. TypeOK'
  <2>1. Opened \subseteq Opened' /\ f \in Opened'
    BY <1>2, PollerAssumption DEF Opened, IInv, TablesAgree, TypeOK
  <2>2. added' \in 0..MaxConns
    BY PollerAssumption DEF Add, IInv, TablesAgree, TypeOK
  <2>3. QED
    BY <1>1, <1>2, <1>3, <2>1, <2>2 DEF IInv, TablesAgree, TypeOK
<1>5. ASSUME NEW g \in Opened PROVE m_fd_data[g] # a
  <2>1. entry[m_fd_data[g]] \in Entry
    BY AtDescriptor
  <2>2. QED
    BY <1>2, <2>1, NilAssumption
<1>6. TablesAgree'
  <2>1. ASSUME NEW g \in Fd, g # f
        PROVE  /\ m_fd_data'[g] = m_fd_data[g] /\ interest'[g] = interest[g]
               /\ g \in refused' <=> g \in refused
               /\ m_fd_data[g] # Nil => entry'[m_fd_data[g]] = entry[m_fd_data[g]]
    BY <1>2, <1>5, <2>1 DEF IInv, TablesAgree, TypeOK, Opened
  <2>2. /\ m_fd_data'[f] = a /\ interest'[f] = i /\ entry'[a] = e /\ a # Nil
        /\ taken # 2 => f \in refused'
    BY <1>2, PollerAssumption DEF IInv, TablesAgree, TypeOK
  <2>3. AgreeOn(f, a)'
    BY <1>1, <1>3, <2>2 DEF AgreeOn
  <2>4. \A g \in Fd : g # f /\ m_fd_data[g] # Nil => AgreeOn(g, m_fd_data[g])'
    BY <2>1 DEF AgreeOn, IInv, TablesAgree
  <2>5. QED
    BY <1>4, <2>1, <2>2, <2>3, <2>4 DEF IInv, TablesAgree
<1>7. WritersAsked'
  BY <1>1, <1>2, <1>3 DEF IInv, WritersAsked, TablesAgree, TypeOK
<1>8. EntriesFound'
  <2>1. added \in Nat
    BY PollerAssumption DEF IInv, TablesAgree, TypeOK
  <2>2. \A b \in Address : b # a /\ entry[b] # Nil =>
          /\ entry'[b] = entry[b] /\ entry[b].conn \in Nat /\ entry[b].conn <= added
          /\ m_fd_data'[entry[b].fd] = b
    BY <1>2, AtAddress, PollerAssumption
       DEF IInv, EntriesFound, Entry, TablesAgree, TypeOK, Opened
  <2>3. entry'[a] = e /\ m_fd_data'[f] = a
    BY <1>2 DEF IInv, TablesAgree, TypeOK
  <2>4. \A b \in Address : b # a => entry'[b] = entry[b]
    BY <1>2 DEF IInv, TablesAgree, TypeOK
  <2>5. QED
    BY <1>1, <1>2, <1>3, <2>1, <2>2, <2>3, <2>4 DEF IInv, EntriesFound
<1>9. BatchLive'
  BY <1>2 DEF IInv, BatchLive, TablesAgree, TypeOK, Event
<1>10. QED
  BY <1>6, <1>7, <1>8, <1>9 DEF IInv

LEMMA DelInv ==
  ASSUME IInv, NEW f \in Fd, Del(f)
  PROVE  IInv'
<1> DEFINE a == m_fd_data[f]
<1>1. /\ m_fd_data' = [m_fd_data EXCEPT ![f] = Nil]
      /\ entry' = [entry EXCEPT ![a] = Nil]
      /\ interest' = [interest EXCEPT ![f] = Nil]
      /\ readable' = readable \ {f} /\ full' = full \ {f} /\ broken' = broken \ {f}
      /\ refused' = refused \ {f}
      /\ foreign' = (foreign \/ (pc = "callback" /\ entry[a].conn # cur.conn))
      /\ UNCHANGED <<pc, batch, cur, added, sends, stale>>
      /\ CallerRuns
  BY DEF Del
<1>2. f \in Opened /\ a \in Address /\ entry[a] \in Entry /\ entry[a].fd = f
  BY AtDescriptor DEF Del, Opened
<1> HIDE DEF a
<1>3. TypeOK'
  BY <1>1, <1>2 DEF IInv, TablesAgree, TypeOK, Opened
<1>4. \A g \in Opened : g # f => m_fd_data[g] # a
  BY <1>2, AtDescriptor
<1>5. TablesAgree'
  <2>1. ASSUME NEW g \in Fd, g # f
        PROVE  /\ m_fd_data'[g] = m_fd_data[g] /\ interest'[g] = interest[g]
               /\ g \in refused' <=> g \in refused
               /\ m_fd_data[g] # Nil => entry'[m_fd_data[g]] = entry[m_fd_data[g]]
    BY <1>1, <1>4, <2>1 DEF IInv, TablesAgree, TypeOK, Opened
  <2>2. m_fd_data'[f] = Nil /\ interest'[f] = Nil
    BY <1>1 DEF IInv, TablesAgree, TypeOK
  <2>3. \A g \in Fd : g # f /\ m_fd_data[g] # Nil => AgreeOn(g, m_fd_data[g])'
    BY <2>1 DEF AgreeOn, IInv, TablesAgree
  <2>4. QED
    BY <1>3, <2>1, <2>2, <2>3 DEF IInv, TablesAgree
<1>6. WritersAsked'
  BY <1>1 DEF IInv, WritersAsked, TablesAgree, TypeOK
<1>7. EntriesFound'
  <2>1. \A b \in Address : entry'[b] # Nil => b # a /\ entry'[b] = entry[b] /\ entry[b] # Nil
    BY <1>1 DEF IInv, TablesAgree, TypeOK
  <2>2. ASSUME NEW b \in Address, b # a, entry[b] # Nil
        PROVE  m_fd_data'[entry[b].fd] = b
    <3>1. m_fd_data[entry[b].fd] = b /\ entry[b].fd \in Fd
      BY <2>2, AtAddress DEF Opened
    <3>2. entry[b].fd # f
      BY <2>2, <3>1 DEF a
    <3>3. QED
      BY <1>1, <3>1, <3>2 DEF IInv, TablesAgree, TypeOK
  <2>3. QED
    BY <1>1, <2>1, <2>2 DEF IInv, EntriesFound
<1>8. BatchLive'
  <2>1. CASE foreign'
    BY <1>1, <2>1 DEF IInv, BatchLive
  <2>2. CASE pc = "outside"
    BY <1>1, <2>2 DEF IInv, BatchLive
  <2>3. ASSUME ~foreign', pc = "callback"
        PROVE  \A ev \in batch : entry'[ev.ptr] # Nil /\ entry'[ev.ptr].conn = ev.conn
    <3>1. ~foreign /\ entry[a].conn = cur.conn
      BY <1>1, <2>3
    <3>2. cur # Nil
      BY <2>3 DEF IInv, TablesAgree, TypeOK
    <3>3. \A ev \in batch : ev.ptr # a
      BY <3>1, <3>2 DEF IInv, BatchLive
    <3>4. \A ev \in batch : ev.ptr \in Address
      BY DEF IInv, TablesAgree, TypeOK, Event
    <3>5. QED
      BY <1>1, <3>1, <3>3, <3>4 DEF IInv, BatchLive, TablesAgree, TypeOK
  <2>4. QED
    BY <1>1, <2>1, <2>2, <2>3 DEF IInv, BatchLive, CallerRuns
<1>9. QED
  BY <1>5, <1>6, <1>7, <1>8 DEF IInv

-----------------------------------------------------------------------------
(* Changes of one entry *)

\* An entry that keeps its descriptor and number may change: with what the kernel
\* makes of the events it says, or with those it said before.
Changes(a, e) ==
  \/ \E works \in BOOLEAN : Mod(a, e, works)
  \/ Keep(a, e) /\ e.events = entry[a].events

LEMMA ChangesType ==
  ASSUME IInv, NEW a \in Address, entry[a] # Nil,
         NEW e \in Entry, e.fd = entry[a].fd, Changes(a, e)
  PROVE  /\ entry' = [entry EXCEPT ![a] = e]
         /\ entry' \in [Address -> Entry \cup {Nil}]
         /\ interest' \in [Fd -> Interest \cup {Nil}]
         /\ refused' \subseteq Opened
<1>1. e.fd \in Opened /\ [ptr |-> a, events |-> e.events] \in Interest
  BY AtAddress DEF Interest, Entry
<1>2. entry' = [entry EXCEPT ![a] = e]
  BY DEF Changes, Mod, Keep
<1>3. entry' \in [Address -> Entry \cup {Nil}]
  BY <1>2 DEF IInv, TablesAgree, TypeOK
<1>4. interest' \in [Fd -> Interest \cup {Nil}] /\ refused' \subseteq Opened
  BY <1>1 DEF Changes, Mod, Keep, Answered, IInv, TablesAgree, TypeOK
<1>5. QED
  BY <1>2, <1>3, <1>4

LEMMA ChangesInv ==
  ASSUME IInv, NEW a \in Address, entry[a] # Nil,
         NEW e \in Entry, e.fd = entry[a].fd, e.conn = entry[a].conn,
         e.waiting > 0 => "EV_WRITE" \in e.events,
         Changes(a, e), UNCHANGED <<m_fd_data, added>>, TypeOK'
  PROVE  TablesAgree' /\ WritersAsked' /\ EntriesFound'
<1> DEFINE f == e.fd
<1>1. f \in Opened /\ f \in Fd /\ m_fd_data[f] = a /\ a # Nil /\ e # Nil
  BY AtAddress, NilAssumption, PollerAssumption DEF Opened
<1>2. \A g \in Opened : g # f => m_fd_data[g] # a
  BY <1>1, AtDescriptor
<1>3. /\ entry'[a] = e
      /\ \A b \in Address : b # a => entry'[b] = entry[b]
  BY ChangesType DEF IInv, TablesAgree, TypeOK
<1>4. TablesAgree'
  <2>1. ASSUME NEW g \in Fd, g # f
        PROVE  /\ interest'[g] = interest[g] /\ (g \in refused' <=> g \in refused)
               /\ m_fd_data[g] # Nil => entry'[m_fd_data[g]] = entry[m_fd_data[g]]
    <3>1. interest'[g] = interest[g] /\ (g \in refused' <=> g \in refused)
      BY <2>1 DEF Changes, Mod, Keep, Answered, IInv, TablesAgree, TypeOK
    <3>2. QED
      BY <1>2, <1>3, <2>1, <3>1 DEF IInv, TablesAgree, TypeOK, Opened
  <2>2. \/ interest[f] = [ptr |-> a, events |-> entry[a].events]
        \/ f \in refused /\ (interest[f] = Nil \/ interest[f].ptr = a)
    BY <1>1 DEF AgreeOn, IInv, TablesAgree
  <2>3. \/ interest'[f] = [ptr |-> a, events |-> e.events]
        \/ f \in refused' /\ (interest'[f] = Nil \/ interest'[f].ptr = a)
    <3>1. CASE Keep(a, e) /\ e.events = entry[a].events
      BY <2>2, <3>1 DEF Keep
    <3>2. CASE Mod(a, e, TRUE)
      BY <1>1, <3>2 DEF Mod, IInv, TablesAgree, TypeOK
    <3>3. CASE Mod(a, e, FALSE)
      <4>1. interest' = interest /\ f \in refused'
        BY <3>3 DEF Mod, Answered
      <4>2. interest[f] = Nil \/ interest[f].ptr = a
        BY <2>2
      <4>3. QED
        BY <4>1, <4>2
    <3>4. QED
      BY <3>1, <3>2, <3>3 DEF Changes
  <2>4. AgreeOn(f, a)'
    BY <1>1, <1>3, <2>3 DEF AgreeOn
  <2>5. \A g \in Fd : g # f /\ m_fd_data[g] # Nil => AgreeOn(g, m_fd_data[g])'
    BY <2>1 DEF AgreeOn, IInv, TablesAgree
  <2>6. QED
    BY <1>1, <2>1, <2>4, <2>5 DEF IInv, TablesAgree
<1>5. WritersAsked'
  BY <1>3 DEF IInv, WritersAsked
<1>6. EntriesFound'
  <2>1. \A b \in Address : entry'[b] # Nil <=> entry[b] # Nil
    BY <1>1, <1>3
  <2>2. \A b \in Address : entry[b] # Nil =>
          entry'[b].fd = entry[b].fd /\ entry'[b].conn = entry[b].conn
    BY <1>3
  <2>3. QED
    BY <2>1, <2>2 DEF IInv, EntriesFound
<1>7. QED
  BY <1>4, <1>5, <1>6

\* Whichever events the batch has, the connections they are for stay.
LEMMA BatchKept ==
  ASSUME IInv, NEW a \in Address, entry[a] # Nil,
         NEW e \in Entry, e.conn = entry[a].conn,
         entry' = [entry EXCEPT ![a] = e]
  PROVE  \A ev \in batch : entry[ev.ptr] # Nil =>
           entry'[ev.ptr] # Nil /\ entry'[ev.ptr].conn = entry[ev.ptr].conn
<1>1. e # Nil
  BY NilAssumption
<1>2. QED
  BY <1>1 DEF IInv, TablesAgree, TypeOK, Event

LEMMA SendWaitsInv ==
  ASSUME IInv, NEW f \in Fd, NEW n \in 1..MaxBytes, NEW works \in BOOLEAN,
         SendWaits(f, n, works)
  PROVE  IInv'
<1> DEFINE a == m_fd_data[f]
           w == entry[a].waiting + n
           v == entry[a].events \cup {"EV_WRITE"}
           e == [entry[a] EXCEPT !.waiting = w, !.events = v]
<1>1. f \in Opened /\ a \in Address /\ entry[a] \in Entry /\ entry[a].fd = f
  BY AtDescriptor DEF SendWaits, Opened
<1>2. entry[a] # Nil
  BY <1>1, NilAssumption
<1>3. /\ IF "EV_WRITE" \in entry[a].events THEN Keep(a, e) ELSE Mod(a, e, works)
      /\ full' \subseteq full \cup {f} /\ sends < MaxSends /\ sends' = sends + 1
      /\ UNCHANGED <<m_fd_data, readable, broken, pc, batch, cur, added, foreign, stale>>
  BY DEF SendWaits
<1>4. /\ e \in Entry /\ e.fd = entry[a].fd /\ e.conn = entry[a].conn
      /\ e.events = v /\ "EV_WRITE" \in e.events
  <2>1. n \in Nat
    BY PollerAssumption
  <2>2. w \in Nat /\ v \in Events /\ "EV_WRITE" \in v
    BY <1>1, <2>1 DEF Entry, Events
  <2>3. e = [entry[a] EXCEPT !.waiting = w, !.events = v]
    OBVIOUS
  <2> HIDE DEF a, w, v, e
  <2>4. QED
    BY <1>1, <2>2, <2>3 DEF Entry
<1>5. Changes(a, e)
  <2>1. "EV_WRITE" \in entry[a].events => e.events = entry[a].events
    BY <1>4
  <2> HIDE DEF a, w, v, e
  <2>2. QED
    BY <1>3, <2>1 DEF Changes
<1> HIDE DEF a, w, v, e
<1>6. TypeOK'
  <2>1. sends' \in 0..MaxSends
    BY <1>3, PollerAssumption DEF IInv, TablesAgree, TypeOK
  <2>2. QED
    BY <1>1, <1>2, <1>3, <1>4, <1>5, <2>1, ChangesType DEF IInv, TablesAgree, TypeOK, Opened
<1>7. TablesAgree' /\ WritersAsked' /\ EntriesFound'
  BY <1>1, <1>2, <1>3, <1>4, <1>5, <1>6, ChangesInv
<1>8. BatchLive'
  BY <1>1, <1>2, <1>3, <1>4, <1>5, ChangesType, BatchKept DEF IInv, BatchLive
<1>9. QED
  BY <1>7, <1>8 DEF IInv

-----------------------------------------------------------------------------
(* wait *)

LEMMA EpollWaitInv ==
  ASSUME IInv, NEW fds \in SUBSET ReadyFds, EpollWait(fds)
  PROVE  IInv'
<1> DEFINE Ev(f) == [ptr |-> interest[f].ptr, events |-> Ready(f),
                     conn |-> entry[interest[f].ptr].conn]
<1> HIDE DEF Ev
<1>1. \A f \in fds : f \in Opened
  BY DEF ReadyFds
<1>2. ASSUME NEW f \in fds
      PROVE  /\ Ev(f) \in Event
             /\ Ev(f).ptr = m_fd_data[f] /\ Ev(f).conn = entry[m_fd_data[f]].conn
             /\ entry[m_fd_data[f]] # Nil
  <2>1. Ready(f) \in Events
    BY DEF Ready, Events
  <2>2. f \in Opened
    BY <1>1
  <2>3. interest[f] # Nil
    BY DEF ReadyFds, Ready, Watched
  <2>4. /\ m_fd_data[f] \in Address /\ entry[m_fd_data[f]] \in Entry
        /\ interest[f].ptr = m_fd_data[f]
    BY <2>2, <2>3, AtDescriptor
  <2>5. QED
    BY <2>1, <2>4, NilAssumption DEF Ev, Event, Entry
<1>3. ASSUME NEW f \in fds, NEW g \in fds, Ev(f).conn = Ev(g).conn
      PROVE  Ev(f) = Ev(g)
  <2>1. f \in Opened /\ g \in Opened
    BY <1>1
  <2>2. m_fd_data[f] \in Address /\ m_fd_data[g] \in Address
    BY <2>1, AtDescriptor
  <2>3. m_fd_data[f] = m_fd_data[g]
    BY <1>2, <1>3, <2>2 DEF IInv, EntriesFound
  <2>4. f = g
    BY <2>1, <2>3, AtDescriptor
  <2>5. QED
    BY <2>4
<1>4. batch' = {Ev(f) : f \in fds} /\ pc = "outside" /\ pc' = "batch" /\ stale = "none"
      /\ UNCHANGED <<m_fd_data, entry, interest, readable, full, broken, cur, added, sends,
                     refused, foreign, stale>>
  BY DEF EpollWait, kernel, Ev
<1>5. cur = Nil
  BY <1>4 DEF IInv, TablesAgree, TypeOK
<1>6. TypeOK'
  BY <1>2, <1>4, <1>5 DEF IInv, TablesAgree, TypeOK, Opened
<1>7. TablesAgree' /\ WritersAsked' /\ EntriesFound'
  BY <1>4, <1>6 DEF IInv, TablesAgree, AgreeOn, WritersAsked, EntriesFound
<1>8. BatchLive'
  BY <1>2, <1>3, <1>4, <1>5 DEF BatchLive
<1>9. QED
  BY <1>7, <1>8 DEF IInv

\* An address that holds no entry was freed by a callback.
LEMMA DispatchFreedInv ==
  ASSUME IInv, NEW ev \in batch, DispatchFreed(ev)
  PROVE  IInv'
<1>1. foreign
  BY DEF DispatchFreed, IInv, BatchLive
<1>2. TypeOK'
  BY DEF DispatchFreed, kernel, IInv, TablesAgree, TypeOK, Opened
<1>3. TablesAgree' /\ WritersAsked' /\ EntriesFound'
  BY <1>2 DEF DispatchFreed, IInv, TablesAgree, AgreeOn, WritersAsked, EntriesFound
<1>4. BatchLive'
  BY <1>1 DEF DispatchFreed, IInv, BatchLive
<1>5. QED
  BY <1>3, <1>4 DEF IInv

\* An entry used after its time needs a callback that deleted another.
LEMMA ReusedNeedsForeign ==
  ASSUME IInv, NEW ev \in batch
  PROVE  ~foreign => Reused(ev) = "none"
BY DEF IInv, BatchLive, Reused

LEMMA DispatchThrowsInv ==
  ASSUME IInv, NEW ev \in batch, DispatchThrows(ev)
  PROVE  IInv'
<1>1. Reused(ev) \in {"none", "freed", "reused"}
  BY DEF Reused, IInv, TablesAgree, TypeOK
<1>2. TypeOK'
  BY <1>1 DEF DispatchThrows, kernel, IInv, TablesAgree, TypeOK, Opened
<1>3. TablesAgree' /\ WritersAsked' /\ EntriesFound'
  BY <1>2 DEF DispatchThrows, IInv, TablesAgree, AgreeOn, WritersAsked, EntriesFound
<1>4. BatchLive'
  BY ReusedNeedsForeign DEF DispatchThrows, IInv, BatchLive
<1>5. QED
  BY <1>3, <1>4 DEF IInv

LEMMA DispatchInv ==
  ASSUME IInv, NEW ev \in batch, Dispatch(ev)
  PROVE  IInv'
<1> DEFINE a == ev.ptr
           e == entry[a]
<1>1. ev \in Event /\ a \in Address /\ e # Nil /\ e \in Entry
  BY AtAddress DEF Dispatch, IInv, TablesAgree, TypeOK, Event
<1>2. e.fd \in Opened
  BY <1>1, AtAddress
<1>3. /\ pc = "batch" /\ batch' = batch \ {ev} /\ stale' = Reused(ev)
      /\ CallBack(ev)
      /\ UNCHANGED <<m_fd_data, broken, added, sends, foreign>>
  BY DEF Dispatch
<1>4. /\ \/ pc' = "callback" /\ cur' = ev
         \/ pc' = "batch" /\ cur' = Nil
      /\ readable' \subseteq readable
  BY <1>3 DEF CallBack
<1>5. Reused(ev) \in {"none", "freed", "reused"}
  BY DEF Reused, IInv, TablesAgree, TypeOK
<1>6. ev # Nil
  BY <1>1, NilAssumption
<1>7. (\A ew \in batch : entry[ew.ptr] # Nil =>
         entry'[ew.ptr] # Nil /\ entry'[ew.ptr].conn = entry[ew.ptr].conn) => BatchLive'
  BY <1>3, <1>4, <1>6, ReusedNeedsForeign DEF IInv, BatchLive
<1>8. ASSUME entry' \in [Address -> Entry \cup {Nil}],
             interest' \in [Fd -> Interest \cup {Nil}],
             refused' \subseteq Opened, full' \subseteq Opened
      PROVE  TypeOK'
  BY <1>1, <1>3, <1>4, <1>5, <1>6, <1>8 DEF IInv, TablesAgree, TypeOK, Opened
<1>9. CASE UNCHANGED <<entry, interest, refused, full>>
  <2>1. TypeOK'
    BY <1>8, <1>9 DEF IInv, TablesAgree, TypeOK
  <2>2. TablesAgree' /\ WritersAsked' /\ EntriesFound'
    BY <1>3, <1>9, <2>1 DEF IInv, TablesAgree, AgreeOn, WritersAsked, EntriesFound
  <2>3. QED
    BY <1>7, <1>9, <2>2 DEF IInv
<1>10. ASSUME NEW n \in 0..e.waiting, NEW works \in BOOLEAN, Writes(ev, n, works)
       PROVE  IInv'
  <2> DEFINE w == e.waiting - n
             v == IF n = e.waiting THEN e.events \ {"EV_WRITE"} ELSE e.events
             y == [e EXCEPT !.waiting = w, !.events = v]
  <2>1. w \in Nat /\ v \in Events /\ (w > 0 => e.waiting > 0 /\ v = e.events)
    BY <1>1 DEF Entry, Events
  <2>2. /\ y \in Entry /\ y.fd = e.fd /\ y.conn = e.conn
        /\ y.waiting = w /\ y.events = v
    <3>1. y = [e EXCEPT !.waiting = w, !.events = v]
      OBVIOUS
    <3> HIDE DEF a, e, w, v, y
    <3>2. QED
      BY <1>1, <2>1, <3>1 DEF Entry
  <2>3. w > 0 => "EV_WRITE" \in v
    BY <1>1, <2>1 DEF IInv, WritersAsked
  <2>4. Changes(a, y)
    <3>1. CASE n = e.waiting /\ "EV_WRITE" \in e.events
      <4>1. y = [[e EXCEPT !.waiting = w] EXCEPT !.events = @ \ {"EV_WRITE"}]
        BY <1>1, <3>1 DEF Entry
      <4>2. Mod(a, y, works)
        BY <1>10, <3>1, <4>1 DEF Writes
      <4>3. QED
        BY <4>2 DEF Changes
    <3>2. CASE ~(n = e.waiting /\ "EV_WRITE" \in e.events)
      <4>1. v = e.events
        BY <3>2
      <4>2. y = [e EXCEPT !.waiting = w]
        BY <1>1, <4>1 DEF Entry
      <4>3. Keep(a, [e EXCEPT !.waiting = w])
        BY <1>10, <3>2 DEF Writes
      <4>4. y.events = entry[a].events
        BY <2>2, <4>1
      <4> HIDE DEF a, e, w, v, y
      <4>5. QED
        BY <4>2, <4>3, <4>4 DEF Changes
    <3>3. QED
      BY <3>1, <3>2
  <2>5. full' \subseteq Opened
    BY <1>2, <1>10 DEF Writes, IInv, TablesAgree, TypeOK
  <2> HIDE DEF y
  <2>6. TypeOK'
    BY <1>1, <1>8, <2>2, <2>4, <2>5, ChangesType
  <2>7. TablesAgree' /\ WritersAsked' /\ EntriesFound'
    BY <1>1, <1>3, <2>2, <2>3, <2>4, <2>6, ChangesInv
  <2>8. BatchLive'
    BY <1>1, <1>7, <2>2, <2>4, ChangesType, BatchKept
  <2>9. QED
    BY <2>7, <2>8 DEF IInv
<1>11. QED
  BY <1>9, <1>10 DEF Dispatch

-----------------------------------------------------------------------------
(* The theorems *)

LEMMA NextInv == IInv /\ [Next]_vars => IInv'
<1> SUFFICES ASSUME IInv, [Next]_vars PROVE IInv'
  OBVIOUS
<1>1. ASSUME CallBackEnd \/ WaitEnd PROVE IInv'
  <2>1. TypeOK'
    BY <1>1 DEF CallBackEnd, WaitEnd, kernel, IInv, TablesAgree, TypeOK, Opened
  <2>2. QED
    BY <1>1, <2>1 DEF CallBackEnd, WaitEnd, kernel, IInv, TablesAgree, AgreeOn, WritersAsked,
                      EntriesFound, BatchLive, Opened
<1>2. ASSUME NEW f \in Fd, Arrive(f) \/ PeerReads(f) \/ Breaks(f) PROVE IInv'
  <2>1. TypeOK'
    BY <1>2 DEF Arrive, PeerReads, Breaks, IInv, TablesAgree, TypeOK, Opened
  <2>2. QED
    BY <1>2, <2>1 DEF Arrive, PeerReads, Breaks, IInv, TablesAgree, AgreeOn, WritersAsked,
                      EntriesFound, BatchLive
<1>3. CASE UNCHANGED vars
  BY <1>3 DEF vars, kernel, IInv, TablesAgree, AgreeOn, TypeOK, WritersAsked, EntriesFound,
              BatchLive, Opened
<1>4. QED
  BY <1>1, <1>2, <1>3, AddInv, DelInv, SendWaitsInv, EpollWaitInv, DispatchInv,
     DispatchThrowsInv, DispatchFreedInv
     DEF Next, Wait

LEMMA Inductive == Spec => []IInv
BY InitInv, NextInv, PTL DEF Spec

(* An open socket has an entry of its own, and the kernel watches it for   *)
(* that entry and its events, or refused the last call for it and watches  *)
(* it at least for no other, however descriptors and addresses are reused. *)
THEOREM TablesAlwaysAgree == Spec => []TablesAgree
<1>1. IInv => TablesAgree
  BY DEF IInv
<1>2. QED
  BY <1>1, Inductive, PTL

(* As long as bytes of a connection wait, the kernel watches for the       *)
(* moment they can be written, unless it refused to.                       *)
THEOREM WritersAlwaysWatched == Spec => []WritersWatched
<1>1. ASSUME IInv, NEW f \in Opened \ refused, entry[m_fd_data[f]].waiting > 0
      PROVE  "EV_WRITE" \in Watched(f)
  <2>1. /\ f \in Fd /\ m_fd_data[f] \in Address
        /\ interest[f] = [ptr |-> m_fd_data[f], events |-> entry[m_fd_data[f]].events]
    BY <1>1, AtDescriptor DEF Opened, AgreeOn, IInv, TablesAgree
  <2>2. interest[f] # Nil /\ entry[m_fd_data[f]] # Nil
    BY <1>1, <2>1, NilAssumption, AtDescriptor DEF Entry, Interest
  <2>3. "EV_WRITE" \in entry[m_fd_data[f]].events
    BY <1>1, <2>1, <2>2 DEF IInv, WritersAsked
  <2>4. QED
    BY <2>1, <2>2, <2>3 DEF Watched
<1>2. IInv => WritersWatched
  BY <1>1 DEF WritersWatched
<1>3. QED
  BY <1>2, Inductive, PTL

(* wait() uses an entry after its time only if a callback deleted another  *)
(* connection than its own.                                                *)
THEOREM StaleOnlyByForeignDel == Spec => []StaleNeedsForeignDel
<1>1. IInv => StaleNeedsForeignDel
  BY DEF IInv, BatchLive, StaleNeedsForeignDel
<1>2. QED
  BY <1>1, Inductive, PTL
=============================================================================
