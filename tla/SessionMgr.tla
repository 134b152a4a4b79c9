----------------------------- MODULE SessionMgr -----------------------------
(***************************************************************************)
(* session_mgr (src/session_mgr.h): a dictionary of sessions and a time    *)
(* wheel that forgets the idle ones.  Each session sits in the slot of its *)
(* deadline modulo Wheel; update() walks the seconds that passed since its *)
(* last call, one slot per second, and forgets those due at that second.   *)
(*                                                                         *)
(* Every operation holds m_lock from its first line to its last, so put,   *)
(* has, get and del are one step each, taken while no update() is in       *)
(* progress.  update() is a loop and is modelled loop turn by loop turn:   *)
(* the clock moves on under it and the callers wait.                       *)
(*                                                                         *)
(* A slot is the set of the sessions linked in it; SessionList models the  *)
(* intrusive lists themselves.                                             *)
(***************************************************************************)
EXTENDS Integers

CONSTANTS
  Vip,         \* virtual addresses, the keys of m_dict
  Conn,        \* connections
  Wheel,       \* number of slots (101 in the server)
  Expire,      \* m_expire (600 in the server)
  MaxTime,     \* bound on the clock
  StartDelay,  \* the first update() runs at this second at the latest
  Absent       \* "no session"

(***************************************************************************)
(* start_udp starts the relay threads just before it enters the loop that  *)
(* calls update(), so the first call comes long before a session can be    *)
(* Expire seconds old.  With Expire = 0 a put right after an update()      *)
(* would be due at a second the wheel already passed.                      *)
(***************************************************************************)
ASSUME SessionAssumption ==
  /\ Wheel \in Nat \ {0}
  /\ Expire \in Nat \ {0}
  /\ MaxTime \in Nat
  /\ StartDelay \in 0..Expire
  /\ Absent \notin [conn : Conn, t : Nat]

VARIABLES
  clock,    \* get_cur_time()
  m_dict,   \* Vip -> [conn, t], or Absent
  wheel,    \* m_time_wheel: slot -> the sessions linked in it
  m_last,   \* the second update() looks at next; -1 before its first call
  upd,      \* "idle", or "sweep" while update() holds m_lock
  now,      \* update()'s local, meaningless (-1) while idle
  ret,      \* what the last call returned
  crashed   \* del used a freed tree node and brought the process down

vars == <<clock, m_dict, wheel, m_last, upd, now, ret, crashed>>

Session == [conn : Conn, t : Nat]
Slot == 0..(Wheel - 1)
Result == Conn \cup {"void", "found", "not_found"}

LockFree == upd = "idle" /\ ~crashed

CalcSlot(t) == t % Wheel

Insert(w, slot, v) == [w EXCEPT ![slot] = @ \cup {v}]
Remove(w, v) == [s \in Slot |-> w[s] \ {v}]

Init ==
  /\ clock = 0
  /\ m_dict = [v \in Vip |-> Absent]
  /\ wheel = [s \in Slot |-> {}]
  /\ m_last = -1
  /\ upd = "idle"
  /\ now = -1
  /\ ret = "void"
  /\ crashed = FALSE

Tick ==
  /\ ~crashed
  /\ clock < MaxTime
  /\ m_last < 0 => clock < StartDelay
  /\ clock' = clock + 1
  /\ UNCHANGED <<m_dict, wheel, m_last, upd, now, ret, crashed>>

Put(v, c) ==
  LET expire == clock + Expire
      unlinked == IF m_dict[v] = Absent THEN wheel ELSE Remove(wheel, v)
  IN  /\ LockFree
      /\ m_dict' = [m_dict EXCEPT ![v] = [conn |-> c, t |-> expire]]
      /\ wheel' = Insert(unlinked, CalcSlot(expire), v)
      /\ ret' = "void"
      /\ UNCHANGED <<clock, m_last, upd, now, crashed>>

Has(v) ==
  /\ LockFree
  /\ ret' = IF m_dict[v] = Absent THEN "not_found" ELSE "found"
  /\ UNCHANGED <<clock, m_dict, wheel, m_last, upd, now, crashed>>

\* Variant: the session is linked into its new slot and not taken from the old.
GetWithoutRemove(v) ==
  /\ LockFree
  /\ m_dict[v] # Absent
  /\ m_dict' = [m_dict EXCEPT ![v].t = clock + Expire]
  /\ wheel' = Insert(wheel, CalcSlot(clock + Expire), v)
  /\ ret' = m_dict[v].conn
  /\ UNCHANGED <<clock, m_last, upd, now, crashed>>

Get(v) ==
  LET expire == clock + Expire
  IN  /\ LockFree
      /\ m_dict[v] # Absent
      /\ m_dict' = [m_dict EXCEPT ![v].t = expire]
      /\ wheel' = Insert(Remove(wheel, v), CalcSlot(expire), v)
      /\ ret' = m_dict[v].conn
      /\ UNCHANGED <<clock, m_last, upd, now, crashed>>

\* del reads the tree node of the erased iterator.  Either the freed memory
\* still holds the entry's address and the entry is unlinked, or it does not
\* and the process goes down with the entry still linked.
Del(v) ==
  /\ LockFree
  /\ m_dict[v] # Absent
  /\ m_dict' = [m_dict EXCEPT ![v] = Absent]
  /\ \/ wheel' = Remove(wheel, v) /\ crashed' = FALSE
     \/ wheel' = wheel /\ crashed' = TRUE
  /\ ret' = "void"
  /\ UNCHANGED <<clock, m_last, upd, now>>

\* get and del of an unknown address throw "not found".
Miss(v) ==
  /\ LockFree
  /\ m_dict[v] = Absent
  /\ ret' = "not_found"
  /\ UNCHANGED <<clock, m_dict, wheel, m_last, upd, now, crashed>>

-----------------------------------------------------------------------------
(* update() *)

\* Variant: every sweep starts at the current second.
UpdateBeginAtNow ==
  /\ LockFree
  /\ upd' = "sweep"
  /\ now' = clock
  /\ m_last' = clock
  /\ UNCHANGED <<clock, m_dict, wheel, ret, crashed>>

UpdateBegin ==
  /\ LockFree
  /\ upd' = "sweep"
  /\ now' = clock
  /\ m_last' = IF m_last < 0 THEN clock ELSE m_last
  /\ UNCHANGED <<clock, m_dict, wheel, ret, crashed>>

\* Variant: everything in the slot is taken for due, whatever its round.
DueAnyRound(v) == v \in wheel[CalcSlot(m_last)]

Due(v) == v \in wheel[CalcSlot(m_last)] /\ m_dict[v].t = m_last

SweepErase(v) ==
  /\ upd = "sweep"
  /\ m_last <= now
  /\ Due(v)
  /\ m_dict' = [m_dict EXCEPT ![v] = Absent]
  /\ wheel' = Remove(wheel, v)
  /\ UNCHANGED <<clock, m_last, upd, now, ret, crashed>>

\* Variants: one second too many; the seconds missed are skipped.
SweepNextPastNow ==
  /\ upd = "sweep"
  /\ m_last <= now + 1
  /\ \A v \in Vip : ~Due(v)
  /\ m_last' = m_last + 1
  /\ UNCHANGED <<clock, m_dict, wheel, upd, now, ret, crashed>>

SweepNextSkipsMissed ==
  /\ upd = "sweep"
  /\ m_last <= now
  /\ \A v \in Vip : ~Due(v)
  /\ m_last' = now + 1
  /\ UNCHANGED <<clock, m_dict, wheel, upd, now, ret, crashed>>

SweepNext ==
  /\ upd = "sweep"
  /\ m_last <= now
  /\ \A v \in Vip : ~Due(v)
  /\ m_last' = m_last + 1
  /\ UNCHANGED <<clock, m_dict, wheel, upd, now, ret, crashed>>

UpdateEnd ==
  /\ upd = "sweep"
  /\ m_last > now
  /\ upd' = "idle"
  /\ now' = -1
  /\ UNCHANGED <<clock, m_dict, wheel, m_last, ret, crashed>>

Update ==
  \/ UpdateBegin
  \/ \E v \in Vip : SweepErase(v)
  \/ SweepNext
  \/ UpdateEnd

Next ==
  \/ Tick
  \/ \E v \in Vip :
       \/ \E c \in Conn : Put(v, c)
       \/ Has(v)
       \/ Get(v)
       \/ Del(v)
       \/ Miss(v)
  \/ Update

Spec == Init /\ [][Next]_vars

\* update_session_mgr calls update() for ever and the main thread is always
\* scheduled; the other threads hold m_lock for one short call at a time.
FairSpec == Spec /\ WF_vars(Update)

-----------------------------------------------------------------------------

(* Every variable holds values of its type; m_last never runs past the     *)
(* second after the last one a sweep was asked for.                        *)
TypeOK ==
  /\ clock \in 0..MaxTime
  /\ m_dict \in [Vip -> Session \cup {Absent}]
  /\ wheel \in [Slot -> SUBSET Vip]
  /\ m_last \in -1..(MaxTime + 1)
  /\ upd \in {"idle", "sweep"}
  /\ now \in -1..MaxTime
  /\ ret \in Result
  /\ crashed \in BOOLEAN

(* The dictionary and the wheel hold the same sessions, each in the one    *)
(* slot of its deadline: put and get must unlink a session from its old    *)
(* slot, and the sweep must erase it from both.                            *)
WheelIndexesDict ==
  ~crashed =>
    \A v \in Vip, s \in Slot :
      v \in wheel[s] <=> (m_dict[v] # Absent /\ s = CalcSlot(m_dict[v].t))

(* No session is stranded: the deadline of every session is a second that  *)
(* update() has still to look at, so the wheel cannot have passed it.      *)
NoStranded ==
  \A v \in Vip : m_dict[v] # Absent => m_dict[v].t >= m_last

Table == INSTANCE SessionTable WITH session <- m_dict

(* The time wheel implements the plain table: a session disappears only by *)
(* del or at a clock past its deadline, renewal counts from the last use,  *)
(* and get returns the connection of the last put.                         *)
TableSpec == Table!Spec

(* A session that nobody uses any more is forgotten: once its deadline has *)
(* come, it is erased unless a put or a get renews it.                     *)
OverdueForgotten ==
  \A v \in Vip :
    (m_dict[v] # Absent /\ m_dict[v].t <= clock)
      ~> (crashed \/ m_dict[v] = Absent \/ m_dict[v].t > clock)
=============================================================================
