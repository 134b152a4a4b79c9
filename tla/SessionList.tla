----------------------------- MODULE SessionList -----------------------------
(***************************************************************************)
(* The memory of session_mgr (src/session_mgr.h): the circular, doubly     *)
(* linked lists of the time wheel, the entries linked in them, and the     *)
(* dictionary's pointers to the entries.  It details SessionMgr, where a   *)
(* slot is a set: here insert_node and remove_node assign the pointers one *)
(* by one and update() walks a list with a cursor while it unlinks nodes.  *)
(*                                                                         *)
(* A node is a number: 0..Wheel-1 are the list heads m_time_wheel[0..],    *)
(* the others are the addresses that `new entry' can return.               *)
(***************************************************************************)
EXTENDS Integers, FiniteSets

CONSTANTS
  Vip, Conn, Wheel, Expire, MaxTime, StartDelay,   \* as in SessionMgr
  Absent,      \* "no session", for the refinement
  MaxEntries,  \* bound: entries the heap has room for, leaked ones included
  Nil          \* a vip that m_dict does not hold; an unset field

Heads == 0..(Wheel - 1)
Entry == Wheel..(Wheel + MaxEntries - 1)
Node == Heads \cup Entry

ASSUME ListAssumption ==
  /\ Wheel \in Nat \ {0}
  /\ Expire \in Nat \ {0}
  /\ MaxTime \in Nat
  /\ StartDelay \in 0..Expire
  /\ MaxEntries \in Nat \ {0}
  /\ Nil \notin Entry
  /\ Absent \notin [conn : Conn, t : Nat]

VARIABLES
  clock,
  m_dict,   \* Vip -> the address of its entry, or Nil
  list,     \* the fields prev and next of every node
  entry,    \* the fields vip, conn and t of every entry
  heap,     \* Entry -> "free", "live" or "leaked"
  m_last,
  upd,      \* "idle", "slot" (head of the outer loop) or "walk" (inner loop)
  now,      \* update()'s local, -1 while idle
  p,        \* update()'s cursor, -1 outside the inner loop
  ret,
  crashed

vars == <<clock, m_dict, list, entry, heap, m_last, upd, now, p, ret, crashed>>

Blank == [vip |-> Nil, conn |-> Nil, t |-> -1]

LockFree == upd = "idle" /\ ~crashed

CalcSlot(t) == t % Wheel

-----------------------------------------------------------------------------
(* The list operations, assignment by assignment. *)

\* Variant: the two last assignments in the other order.
InsertNodeSwapped(l, target, n) ==
  LET l1 == [l EXCEPT !.next[n] = l.next[target], !.prev[n] = target]
      l2 == [l1 EXCEPT !.next[target] = n]
  IN  [l2 EXCEPT !.prev[l2.next[target]] = n]

InsertNode(l, target, n) ==
  LET l1 == [l EXCEPT !.next[n] = l.next[target], !.prev[n] = target]
      l2 == [l1 EXCEPT !.prev[l1.next[target]] = n]
  IN  [l2 EXCEPT !.next[target] = n]

RemoveNode(l, n) ==
  LET l1 == [l EXCEPT !.prev[l.next[n]] = l.prev[n]]
      l2 == [l1 EXCEPT !.next[l1.prev[n]] = l1.next[n]]
  IN  [l2 EXCEPT !.next[n] = n, !.prev[n] = n]

-----------------------------------------------------------------------------

Init ==
  /\ clock = 0
  /\ m_dict = [v \in Vip |-> Nil]
  /\ list = [prev |-> [n \in Node |-> n], next |-> [n \in Node |-> n]]
  /\ entry = [n \in Entry |-> Blank]
  /\ heap = [n \in Entry |-> "free"]
  /\ m_last = -1
  /\ upd = "idle"
  /\ now = -1
  /\ p = -1
  /\ ret = "void"
  /\ crashed = FALSE

Tick ==
  /\ ~crashed
  /\ clock < MaxTime
  /\ m_last < 0 => clock < StartDelay
  /\ clock' = clock + 1
  /\ UNCHANGED <<m_dict, list, entry, heap, m_last, upd, now, p, ret, crashed>>

\* The address `new entry' returns: which of the free ones makes no difference.
Fresh == CHOOSE n \in Entry : heap[n] = "free"

PutNew(v, c) ==
  LET expire == clock + Expire
  IN  /\ LockFree
      /\ m_dict[v] = Nil
      /\ \E n \in Entry : heap[n] = "free"
      /\ entry' = [entry EXCEPT ![Fresh] = [vip |-> v, conn |-> c, t |-> expire]]
      /\ heap' = [heap EXCEPT ![Fresh] = "live"]
      /\ list' = InsertNode(list, CalcSlot(expire), Fresh)
      /\ m_dict' = [m_dict EXCEPT ![v] = Fresh]
      /\ ret' = "void"
      /\ UNCHANGED <<clock, m_last, upd, now, p, crashed>>

\* Moves the entry n to the list of its new deadline.
Relink(n) ==
  list' = InsertNode(RemoveNode(list, n), CalcSlot(clock + Expire), n)

PutKnown(v, c) ==
  LET n == m_dict[v]
  IN  /\ LockFree
      /\ n # Nil
      /\ entry' = [entry EXCEPT ![n].conn = c, ![n].t = clock + Expire]
      /\ Relink(n)
      /\ ret' = "void"
      /\ UNCHANGED <<clock, m_dict, heap, m_last, upd, now, p, crashed>>

Has(v) ==
  /\ LockFree
  /\ ret' = IF m_dict[v] = Nil THEN "not_found" ELSE "found"
  /\ UNCHANGED <<clock, m_dict, list, entry, heap, m_last, upd, now, p, crashed>>

Get(v) ==
  LET n == m_dict[v]
  IN  /\ LockFree
      /\ n # Nil
      /\ entry' = [entry EXCEPT ![n].t = clock + Expire]
      /\ Relink(n)
      /\ ret' = entry[n].conn
      /\ UNCHANGED <<clock, m_dict, heap, m_last, upd, now, p, crashed>>

Miss(v) ==
  /\ LockFree
  /\ m_dict[v] = Nil
  /\ ret' = "not_found"
  /\ UNCHANGED <<clock, m_dict, list, entry, heap, m_last, upd, now, p, crashed>>

\* The entry's address is read from a tree node that erase has freed.  It is
\* still there, and the entry is unlinked and deleted, or it is not, and the
\* process goes down.
Del(v) ==
  LET n == m_dict[v]
  IN  /\ LockFree
      /\ n # Nil
      /\ m_dict' = [m_dict EXCEPT ![v] = Nil]
      /\ \/ /\ list' = RemoveNode(list, n)
            /\ entry' = [entry EXCEPT ![n] = Blank]
            /\ heap' = [heap EXCEPT ![n] = "free"]
            /\ crashed' = FALSE
         \/ crashed' = TRUE /\ UNCHANGED <<list, entry, heap>>
      /\ ret' = "void"
      /\ UNCHANGED <<clock, m_last, upd, now, p>>

-----------------------------------------------------------------------------
(* update() *)

UpdateBegin ==
  /\ LockFree
  /\ upd' = "slot"
  /\ now' = clock
  /\ m_last' = IF m_last < 0 THEN clock ELSE m_last
  /\ UNCHANGED <<clock, m_dict, list, entry, heap, p, ret, crashed>>

SlotBegin ==
  /\ upd = "slot"
  /\ m_last <= now
  /\ upd' = "walk"
  /\ p' = list.next[CalcSlot(m_last)]
  /\ UNCHANGED <<clock, m_dict, list, entry, heap, m_last, now, ret, crashed>>

\* Variant: the dictionary keeps the erased vip.
DropKeepsVip(n) ==
  /\ list' = RemoveNode(list, n)
  /\ entry' = [entry EXCEPT ![n] = Blank]
  /\ heap' = [heap EXCEPT ![n] = "leaked"]
  /\ UNCHANGED m_dict

\* The entry n leaves the dictionary and its list; nothing deletes it.
Drop(n) ==
  /\ m_dict' = [m_dict EXCEPT ![entry[n].vip] = Nil]
  /\ list' = RemoveNode(list, n)
  /\ entry' = [entry EXCEPT ![n] = Blank]
  /\ heap' = [heap EXCEPT ![n] = "leaked"]

Keep == UNCHANGED <<m_dict, list, entry, heap>>

Visiting == upd = "walk" /\ p # CalcSlot(m_last)

\* Variants: what is in the slot is dropped in any round; the cursor is advanced
\* after the node was unlinked; the walk stops at the first entry it drops.
VisitAnyRound ==
  /\ Visiting
  /\ p' = list.next[p]
  /\ Drop(p)
  /\ UNCHANGED <<clock, m_last, upd, now, ret, crashed>>

VisitNextAfterRemove ==
  /\ Visiting
  /\ IF entry[p].t = m_last THEN Drop(p) ELSE Keep
  /\ p' = list'.next[p]
  /\ UNCHANGED <<clock, m_last, upd, now, ret, crashed>>

VisitOnce ==
  /\ Visiting
  /\ IF entry[p].t = m_last
     THEN Drop(p) /\ p' = CalcSlot(m_last)
     ELSE Keep /\ p' = list.next[p]
  /\ UNCHANGED <<clock, m_last, upd, now, ret, crashed>>

Visit ==
  /\ Visiting
  /\ p' = list.next[p]
  /\ IF entry[p].t = m_last THEN Drop(p) ELSE Keep
  /\ UNCHANGED <<clock, m_last, upd, now, ret, crashed>>

SlotEnd ==
  /\ upd = "walk"
  /\ p = CalcSlot(m_last)
  /\ m_last' = m_last + 1
  /\ upd' = "slot"
  /\ p' = -1
  /\ UNCHANGED <<clock, m_dict, list, entry, heap, now, ret, crashed>>

UpdateEnd ==
  /\ upd = "slot"
  /\ m_last > now
  /\ upd' = "idle"
  /\ now' = -1
  /\ UNCHANGED <<clock, m_dict, list, entry, heap, m_last, p, ret, crashed>>

Update == UpdateBegin \/ SlotBegin \/ Visit \/ SlotEnd \/ UpdateEnd

Next ==
  \/ Tick
  \/ \E v \in Vip :
       \/ \E c \in Conn : PutNew(v, c) \/ PutKnown(v, c)
       \/ Has(v)
       \/ Get(v)
       \/ Miss(v)
       \/ Del(v)
  \/ Update

Spec == Init /\ [][Next]_vars

\* update() is called for ever by a thread that is always scheduled.
FairSpec == Spec /\ WF_vars(Update)

-----------------------------------------------------------------------------

(* Every variable holds values of its type; m_last never runs more than a  *)
(* second past the clock's bound.                                          *)
TypeOK ==
  /\ clock \in 0..MaxTime
  /\ m_dict \in [Vip -> Entry \cup {Nil}]
  /\ list \in [prev : [Node -> Node], next : [Node -> Node]]
  /\ entry \in [Entry -> [vip : Vip \cup {Nil}, conn : Conn \cup {Nil}, t : Nat \cup {-1}]]
  /\ heap \in [Entry -> {"free", "live", "leaked"}]
  /\ m_last \in -1..(MaxTime + 1)
  /\ upd \in {"idle", "slot", "walk"}
  /\ now \in -1..MaxTime
  /\ p \in Node \cup {-1}
  /\ ret \in Conn \cup {"void", "found", "not_found"}
  /\ crashed \in BOOLEAN

\* The entries met on the way round the list of slot s.
Ring(s) ==
  LET at[k \in 0..MaxEntries] == list.next[IF k = 0 THEN s ELSE at[k - 1]]
  IN  {at[k] : k \in 0..MaxEntries} \cap Entry

(* The lists stay circular and doubly linked, and each of them links the   *)
(* live entries whose deadline falls in its slot and nothing else: no      *)
(* pointer assignment of insert_node and remove_node loses a neighbour.    *)
ListsOK ==
  /\ TypeOK
  /\ \A n \in Node : list.prev[list.next[n]] = n /\ list.next[list.prev[n]] = n
  /\ \A s \in Heads :
       ~crashed => Ring(s) = {n \in Entry : heap[n] = "live" /\ CalcSlot(entry[n].t) = s}

(* The dictionary owns the live entries: it points to no entry that was    *)
(* deleted or dropped, and no live entry is out of its reach.              *)
DictOwnsEntries ==
  /\ \A v \in Vip : m_dict[v] # Nil =>
       heap[m_dict[v]] = "live" /\ entry[m_dict[v]].vip = v
  /\ \A n \in Entry : heap[n] = "live" /\ ~crashed =>
       m_dict[entry[n].vip] = n

(* The walk never stands on a node it has unlinked: the cursor is the head *)
(* of the list under way or a live entry of that list.                     *)
CursorSafe ==
  upd = "walk" => p \in {CalcSlot(m_last)} \cup Ring(CalcSlot(m_last))

(* Nothing deletes what update() drops, but it drops little: what is lost  *)
(* is at most one entry for each address in Expire seconds, however often  *)
(* sessions are put, renewed and deleted meanwhile.                        *)
LeaksAreFew ==
  Cardinality({n \in Entry : heap[n] = "leaked"}) <= Cardinality(Vip) * (clock \div Expire)

\* The sessions as SessionMgr has them, and its sets.
AbsDict == [v \in Vip |->
              IF m_dict[v] = Nil THEN Absent
              ELSE [conn |-> entry[m_dict[v]].conn, t |-> entry[m_dict[v]].t]]

AbsWheel == [s \in Heads |-> {entry[n].vip : n \in Ring(s)}]

Mgr == INSTANCE SessionMgr WITH
  m_dict <- AbsDict, wheel <- AbsWheel, upd <- IF upd = "idle" THEN "idle" ELSE "sweep"

(* The lists implement the wheel of SessionMgr, where a slot is a set; in  *)
(* particular the walk over a slot leaves no entry that is due.            *)
MgrSpec == Mgr!Spec

(* update() comes to an end and releases the lock: the walk over a list    *)
(* that is being unlinked always gets back to the head.                    *)
UpdateReturns == (upd # "idle") ~> (upd = "idle")
=============================================================================
