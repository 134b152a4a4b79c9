---------------------------- MODULE SessionTable ----------------------------
(***************************************************************************)
(* What session_mgr promises the threads of the server, with no time       *)
(* wheel: a map from virtual addresses to connections in which a session   *)
(* is remembered for Expire seconds after it was last put or looked up,    *)
(* is forgotten only once that time is over (or on del), and in which a    *)
(* lookup returns the connection of the last put.                          *)
(***************************************************************************)
EXTENDS Integers

CONSTANTS
  Vip,      \* virtual addresses, the keys
  Conn,     \* connections (for the UDP server: the client's endpoint)
  Expire,   \* seconds a session outlives its last use
  MaxTime,  \* bound on the clock
  Absent    \* "no session"

VARIABLES
  clock,    \* steady_clock, in whole seconds
  session,  \* Vip -> the session, or Absent
  ret       \* what the last call returned

vars == <<clock, session, ret>>

Session == [conn : Conn, t : Nat]

Result == Conn \cup {"void", "found", "not_found"}

Init ==
  /\ clock = 0
  /\ session = [v \in Vip |-> Absent]
  /\ ret = "void"

Tick ==
  /\ clock < MaxTime
  /\ clock' = clock + 1
  /\ UNCHANGED <<session, ret>>

Put(v, c) ==
  /\ session' = [session EXCEPT ![v] = [conn |-> c, t |-> clock + Expire]]
  /\ ret' = "void"
  /\ UNCHANGED clock

Has(v) ==
  /\ ret' = IF session[v] = Absent THEN "not_found" ELSE "found"
  /\ UNCHANGED <<clock, session>>

\* A lookup that finds the session also renews it.
Get(v) ==
  /\ session[v] # Absent
  /\ session' = [session EXCEPT ![v].t = clock + Expire]
  /\ ret' = session[v].conn
  /\ UNCHANGED clock

Del(v) ==
  /\ session[v] # Absent
  /\ session' = [session EXCEPT ![v] = Absent]
  /\ ret' = "void"
  /\ UNCHANGED clock

\* get and del of an unknown address throw and change nothing.
Miss(v) ==
  /\ session[v] = Absent
  /\ ret' = "not_found"
  /\ UNCHANGED <<clock, session>>

\* The only way to lose a session without asking for it: its time is over.
Forget(v) ==
  /\ session[v] # Absent
  /\ session[v].t <= clock
  /\ session' = [session EXCEPT ![v] = Absent]
  /\ UNCHANGED <<clock, ret>>

Next ==
  \/ Tick
  \/ \E v \in Vip :
       \/ \E c \in Conn : Put(v, c)
       \/ Has(v)
       \/ Get(v)
       \/ Del(v)
       \/ Miss(v)
       \/ Forget(v)

Spec == Init /\ [][Next]_vars
=============================================================================
