-------------------------- MODULE SessionMgrProofs --------------------------
(***************************************************************************)
(* Theorems about SessionMgr, for every set of addresses and connections,  *)
(* every number of slots and every positive Expire.                        *)
(***************************************************************************)
EXTENDS SessionMgr, TLAPS

(* How far the sweep can be: behind the clock by any amount, ahead of it   *)
(* by one second at most, and before its first call only for StartDelay.   *)
SweepBounds ==
  /\ upd = "idle" => m_last <= clock + 1
  /\ upd = "sweep" => now \in 0..clock /\ m_last \in 0..(now + 1) /\ ~crashed
  /\ m_last < 0 => clock <= StartDelay

(* A deadline is at least Expire, the deadline of a put at second 0.       *)
DeadlinesAfterExpire ==
  \A v \in Vip : m_dict[v] # Absent => m_dict[v].t >= Expire

IInv ==
  /\ TypeOK
  /\ SweepBounds
  /\ DeadlinesAfterExpire
  /\ WheelIndexesDict
  /\ NoStranded

-----------------------------------------------------------------------------

(* The slot of any second is one of the wheel's.                           *)
LEMMA CalcSlotInWheel ==
  ASSUME NEW t \in Nat
  PROVE  CalcSlot(t) \in Slot
BY SessionAssumption DEF CalcSlot, Slot

(* Linking v into a slot, after it was unlinked everywhere.                *)
LEMMA RelinkMoves ==
  ASSUME NEW w \in [Slot -> SUBSET Vip], NEW slot \in Slot, NEW v \in Vip
  PROVE  /\ Insert(Remove(w, v), slot, v) \in [Slot -> SUBSET Vip]
         /\ \A u \in Vip, s \in Slot :
              u \in Insert(Remove(w, v), slot, v)[s]
                <=> IF u = v THEN s = slot ELSE u \in w[s]
BY DEF Insert, Remove

(* Linking v into a slot.                                                  *)
LEMMA InsertAdds ==
  ASSUME NEW w \in [Slot -> SUBSET Vip], NEW slot \in Slot, NEW v \in Vip
  PROVE  /\ Insert(w, slot, v) \in [Slot -> SUBSET Vip]
         /\ \A u \in Vip, s \in Slot :
              u \in Insert(w, slot, v)[s]
                <=> (u \in w[s] \/ (u = v /\ s = slot))
BY DEF Insert

(* Unlinking v.                                                            *)
LEMMA RemoveDrops ==
  ASSUME NEW w \in [Slot -> SUBSET Vip], NEW v \in Vip
  PROVE  /\ Remove(w, v) \in [Slot -> SUBSET Vip]
         /\ \A u \in Vip, s \in Slot :
              u \in Remove(w, v)[s] <=> (u \in w[s] /\ u # v)
BY DEF Remove

(* A renewed deadline is a second, with a slot, that no sweep has passed.  *)
LEMMA NewDeadline ==
  ASSUME IInv, LockFree
  PROVE  /\ clock + Expire \in Nat
         /\ clock + Expire >= Expire
         /\ clock + Expire >= m_last
         /\ CalcSlot(clock + Expire) \in Slot
<1>1. /\ clock + Expire \in Nat
      /\ clock + Expire >= Expire
      /\ clock + Expire >= m_last
  BY SessionAssumption DEF IInv, TypeOK, SweepBounds, LockFree
<1>2. QED
  BY <1>1, CalcSlotInWheel

-----------------------------------------------------------------------------

LEMMA InitInv == Init => IInv
<1> SUFFICES ASSUME Init PROVE IInv
  OBVIOUS
<1>1. TypeOK
  <2>1. /\ clock \in 0..MaxTime
        /\ m_last \in -1..(MaxTime + 1)
        /\ now \in -1..MaxTime
    BY SessionAssumption DEF Init
  <2>2. /\ m_dict \in [Vip -> Session \cup {Absent}]
        /\ wheel \in [Slot -> SUBSET Vip]
        /\ upd \in {"idle", "sweep"}
        /\ ret \in Result
    BY DEF Init, Result
  <2>3. crashed \in BOOLEAN
    BY DEF Init
  <2>4. QED
    BY <2>1, <2>2, <2>3 DEF TypeOK
<1>2. SweepBounds
  BY SessionAssumption DEF Init, SweepBounds
<1>3. DeadlinesAfterExpire /\ WheelIndexesDict /\ NoStranded
  BY DEF Init, DeadlinesAfterExpire, WheelIndexesDict, NoStranded
<1>4. QED
  BY <1>1, <1>2, <1>3 DEF IInv

(* put and get share the argument: v gets a new record with the deadline   *)
(* clock + Expire and moves to the slot of that deadline.                  *)
LEMMA RenewInv ==
  ASSUME IInv, LockFree,
         NEW v \in Vip, NEW c \in Conn,
         m_dict' = [m_dict EXCEPT ![v] = [conn |-> c, t |-> clock + Expire]],
         \/ wheel' = Insert(Remove(wheel, v), CalcSlot(clock + Expire), v)
         \/ m_dict[v] = Absent /\ wheel' = Insert(wheel, CalcSlot(clock + Expire), v),
         ret' \in Result,
         UNCHANGED <<clock, m_last, upd, now, crashed>>
  PROVE  IInv'
<1> USE NewDeadline
<1>1. /\ wheel' \in [Slot -> SUBSET Vip]
      /\ \A u \in Vip, s \in Slot :
           u \in wheel'[s] <=> IF u = v THEN s = CalcSlot(clock + Expire)
                                        ELSE u \in wheel[s]
  <2>1. CASE wheel' = Insert(Remove(wheel, v), CalcSlot(clock + Expire), v)
    BY <2>1, RelinkMoves DEF IInv, TypeOK
  <2>2. CASE m_dict[v] = Absent /\ wheel' = Insert(wheel, CalcSlot(clock + Expire), v)
    <3>1. \A s \in Slot : v \notin wheel[s]
      BY <2>2 DEF IInv, WheelIndexesDict, LockFree
    <3>2. QED
      BY <2>2, <3>1, InsertAdds DEF IInv, TypeOK
  <2>3. QED
    BY <2>1, <2>2
<1>2. [conn |-> c, t |-> clock + Expire] \in Session
  BY DEF Session
<1>3. [conn |-> c, t |-> clock + Expire] # Absent
  BY <1>2, SessionAssumption DEF Session
<1>4. \A u \in Vip : m_dict'[u] = IF u = v THEN [conn |-> c, t |-> clock + Expire]
                                           ELSE m_dict[u]
  BY DEF IInv, TypeOK
<1>5. TypeOK'
  BY <1>1, <1>2 DEF IInv, TypeOK
<1>6. SweepBounds'
  BY DEF IInv, SweepBounds
<1>7. DeadlinesAfterExpire' /\ NoStranded'
  BY <1>4 DEF IInv, DeadlinesAfterExpire, NoStranded
<1>8. WheelIndexesDict'
  BY <1>1, <1>3, <1>4 DEF IInv, WheelIndexesDict, LockFree
<1>9. QED
  BY <1>5, <1>6, <1>7, <1>8 DEF IInv

(* Every step of session_mgr keeps the invariant.                          *)
LEMMA NextInv == IInv /\ [Next]_vars => IInv'
<1> SUFFICES ASSUME IInv, [Next]_vars PROVE IInv'
  OBVIOUS
<1>1. CASE Tick
  <2>1. TypeOK'
    BY <1>1, SessionAssumption DEF IInv, TypeOK, Tick
  <2>2. SweepBounds'
    BY <1>1, SessionAssumption DEF IInv, TypeOK, SweepBounds, Tick
  <2>3. DeadlinesAfterExpire' /\ WheelIndexesDict' /\ NoStranded'
    BY <1>1 DEF IInv, DeadlinesAfterExpire, WheelIndexesDict, NoStranded, Tick
  <2>4. QED
    BY <2>1, <2>2, <2>3 DEF IInv
<1>2. ASSUME NEW v \in Vip, NEW c \in Conn, Put(v, c) PROVE IInv'
  <2>1. ret' \in Result
    BY <1>2 DEF Put, Result
  <2>2. QED
    BY <1>2, <2>1, RenewInv DEF Put
<1>3. ASSUME NEW v \in Vip, Has(v) \/ Miss(v) PROVE IInv'
  <2>1. ret' \in Result
    BY <1>3 DEF Has, Miss, Result
  <2>2. UNCHANGED <<clock, m_dict, wheel, m_last, upd, now, crashed>>
    BY <1>3 DEF Has, Miss
  <2>3. QED
    BY <2>1, <2>2
    DEF IInv, TypeOK, SweepBounds, DeadlinesAfterExpire, WheelIndexesDict, NoStranded
<1>4. ASSUME NEW v \in Vip, Get(v) PROVE IInv'
  <2>1. m_dict[v] \in Session /\ m_dict \in [Vip -> Session \cup {Absent}]
    BY <1>4 DEF Get, IInv, TypeOK
  <2>2. /\ m_dict[v].conn \in Conn
        /\ [m_dict[v] EXCEPT !.t = clock + Expire]
             = [conn |-> m_dict[v].conn, t |-> clock + Expire]
    BY <2>1 DEF Session
  <2>3. m_dict' = [m_dict EXCEPT ![v] = [conn |-> m_dict[v].conn, t |-> clock + Expire]]
    BY <1>4, <2>1, <2>2 DEF Get
  <2>4. ret' \in Result
    BY <1>4, <2>2 DEF Get, Result
  <2>5. QED
    BY <1>4, <2>2, <2>3, <2>4, RenewInv DEF Get
<1>5. ASSUME NEW v \in Vip, Del(v) PROVE IInv'
  <2> USE <1>5 DEF Del
  <2>1. TypeOK'
    <3>1. crashed' \in BOOLEAN
      OBVIOUS
    <3>2. wheel' \in [Slot -> SUBSET Vip] /\ ret' \in Result
      BY RemoveDrops DEF IInv, TypeOK, Result
    <3>3. QED
      BY <3>1, <3>2 DEF IInv, TypeOK
  <2>2. SweepBounds'
    BY DEF IInv, SweepBounds, LockFree
  <2>3. DeadlinesAfterExpire' /\ NoStranded'
    BY DEF IInv, TypeOK, DeadlinesAfterExpire, NoStranded
  <2>4. WheelIndexesDict'
    BY RemoveDrops DEF IInv, TypeOK, WheelIndexesDict, LockFree
  <2>5. QED
    BY <2>1, <2>2, <2>3, <2>4 DEF IInv
<1>6. CASE UpdateBegin
  <2> USE <1>6 DEF UpdateBegin
  <2>1. m_last' \in 0..(clock + 1)
    BY DEF IInv, TypeOK, SweepBounds, LockFree
  <2>2. TypeOK'
    BY <2>1, SessionAssumption DEF IInv, TypeOK
  <2>3. SweepBounds'
    BY <2>1 DEF IInv, TypeOK, SweepBounds, LockFree
  <2>4. NoStranded'
    BY SessionAssumption
    DEF IInv, TypeOK, Session, SweepBounds, DeadlinesAfterExpire, NoStranded
  <2>5. DeadlinesAfterExpire' /\ WheelIndexesDict'
    BY DEF IInv, DeadlinesAfterExpire, WheelIndexesDict
  <2>6. QED
    BY <2>2, <2>3, <2>4, <2>5 DEF IInv
<1>7. ASSUME NEW v \in Vip, SweepErase(v) PROVE IInv'
  <2> USE <1>7 DEF SweepErase
  <2>1. TypeOK'
    BY RemoveDrops DEF IInv, TypeOK
  <2>2. SweepBounds'
    BY DEF IInv, SweepBounds
  <2>3. DeadlinesAfterExpire' /\ NoStranded'
    BY DEF IInv, TypeOK, DeadlinesAfterExpire, NoStranded
  <2>4. WheelIndexesDict'
    BY RemoveDrops DEF IInv, TypeOK, WheelIndexesDict
  <2>5. QED
    BY <2>1, <2>2, <2>3, <2>4 DEF IInv
<1>8. CASE SweepNext
  <2> USE <1>8 DEF SweepNext
  <2>1. m_last \in Nat /\ m_last <= now /\ now \in 0..clock /\ ~crashed
    BY DEF IInv, TypeOK, SweepBounds
  <2>2. \A v \in Vip : m_dict[v] # Absent => m_dict[v].t # m_last
    BY <2>1, CalcSlotInWheel DEF IInv, WheelIndexesDict, Due
  <2>3. NoStranded'
    BY <2>1, <2>2 DEF IInv, TypeOK, Session, NoStranded
  <2>4. TypeOK'
    BY <2>1, SessionAssumption DEF IInv, TypeOK
  <2>5. SweepBounds'
    BY <2>1 DEF IInv, SweepBounds
  <2>6. DeadlinesAfterExpire' /\ WheelIndexesDict'
    BY DEF IInv, DeadlinesAfterExpire, WheelIndexesDict
  <2>7. QED
    BY <2>3, <2>4, <2>5, <2>6 DEF IInv
<1>9. CASE UpdateEnd
  <2> USE <1>9 DEF UpdateEnd
  <2>1. SweepBounds'
    BY DEF IInv, TypeOK, SweepBounds
  <2>2. TypeOK'
    BY SessionAssumption DEF IInv, TypeOK
  <2>3. DeadlinesAfterExpire' /\ WheelIndexesDict' /\ NoStranded'
    BY DEF IInv, DeadlinesAfterExpire, WheelIndexesDict, NoStranded
  <2>4. QED
    BY <2>1, <2>2, <2>3 DEF IInv
<1>10. CASE UNCHANGED vars
  BY <1>10 DEF vars, IInv, TypeOK, SweepBounds, DeadlinesAfterExpire,
               WheelIndexesDict, NoStranded
<1>11. QED
  BY <1>1, <1>2, <1>3, <1>4, <1>5, <1>6, <1>7, <1>8, <1>9, <1>10
  DEF Next, Update

-----------------------------------------------------------------------------

(* Every call and every turn of the sweep keeps the wheel, the dictionary  *)
(* and the sweep's second in step.                                         *)
THEOREM Inductive == Spec => []IInv
<1>1. QED
  BY InitInv, NextInv, PTL DEF Spec

(* The state of session_mgr is well typed, whatever the calls.             *)
THEOREM TypeCorrect == Spec => []TypeOK
<1>1. IInv => TypeOK
  BY DEF IInv
<1>2. QED
  BY <1>1, Inductive, PTL

(* The dictionary and the wheel always hold the same sessions.             *)
THEOREM WheelAndDictAgree == Spec => []WheelIndexesDict
<1>1. IInv => WheelIndexesDict
  BY DEF IInv
<1>2. QED
  BY <1>1, Inductive, PTL

(* The wheel never passes the deadline of a session it still holds.        *)
THEOREM NeverStranded == Spec => []NoStranded
<1>1. IInv => NoStranded
  BY DEF IInv
<1>2. QED
  BY <1>1, Inductive, PTL

-----------------------------------------------------------------------------

(* An erased session was overdue: its second has been reached by the clock.*)
LEMMA ErasedIsOverdue ==
  ASSUME IInv, NEW v \in Vip, SweepErase(v)
  PROVE  m_dict[v] # Absent /\ m_dict[v].t <= clock
<1>1. /\ m_last \in Nat /\ m_last <= now
      /\ clock \in Nat /\ now \in 0..clock
      /\ ~crashed
  BY SessionAssumption DEF SweepErase, IInv, TypeOK, SweepBounds
<1>2. m_dict[v] # Absent
  BY <1>1, CalcSlotInWheel DEF SweepErase, Due, IInv, WheelIndexesDict
<1>3. m_dict[v].t <= clock
  BY <1>1 DEF SweepErase, Due
<1>4. QED
  BY <1>2, <1>3

(* session_mgr implements the plain table of sessions: the wheel, its      *)
(* cursor and the lock are never visible to the callers.                   *)
THEOREM ImplementsTable == Spec => TableSpec
<1>1. Init => Table!Init
  BY DEF Init, Table!Init
<1>2. IInv /\ [Next]_vars => [Table!Next]_(Table!vars)
  <2> SUFFICES ASSUME IInv, [Next]_vars PROVE [Table!Next]_(Table!vars)
    OBVIOUS
  <2> USE DEF Table!vars
  <2>1. CASE Tick
    BY <2>1 DEF Tick, Table!Next, Table!Tick
  <2>2. ASSUME NEW v \in Vip, NEW c \in Conn, Put(v, c) PROVE Table!Next
    BY <2>2 DEF Put, Table!Next, Table!Put
  <2>3. ASSUME NEW v \in Vip, Has(v) PROVE Table!Next
    BY <2>3 DEF Has, Table!Next, Table!Has
  <2>4. ASSUME NEW v \in Vip, Get(v) PROVE Table!Next
    BY <2>4 DEF Get, Table!Next, Table!Get
  <2>5. ASSUME NEW v \in Vip, Del(v) PROVE Table!Next
    BY <2>5 DEF Del, Table!Next, Table!Del
  <2>6. ASSUME NEW v \in Vip, Miss(v) PROVE Table!Next
    BY <2>6 DEF Miss, Table!Next, Table!Miss
  <2>7. CASE UpdateBegin \/ SweepNext \/ UpdateEnd
    BY <2>7 DEF UpdateBegin, SweepNext, UpdateEnd
  <2>8. ASSUME NEW v \in Vip, SweepErase(v) PROVE Table!Next
    <3>1. Table!Forget(v)
      BY <2>8, ErasedIsOverdue DEF SweepErase, Table!Forget
    <3>2. QED
      BY <3>1 DEF Table!Next
  <2>9. CASE UNCHANGED vars
    BY <2>9 DEF vars
  <2>10. QED
    BY <2>1, <2>2, <2>3, <2>4, <2>5, <2>6, <2>7, <2>8, <2>9 DEF Next, Update
<1>3. QED
  BY <1>1, <1>2, Inductive, PTL DEF Spec, TableSpec, Table!Spec
=============================================================================
