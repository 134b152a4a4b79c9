------------------------- MODULE SessionListProofs -------------------------
(***************************************************************************)
(* Proofs about SessionList, for any number of lists, sessions and         *)
(* addresses.                                                              *)
(***************************************************************************)
EXTENDS SessionList, FiniteSetTheorems, TLAPS

-----------------------------------------------------------------------------
(* Numbers and nodes *)

\* The least element of a set of numbers, from the well-foundedness of strict
\* inclusion of finite sets: it takes the place of an induction.
LEMMA NatLeast ==
  ASSUME NEW T \in SUBSET Nat, T # {}
  PROVE  \E x \in T : \A y \in T : x <= y
<1> DEFINE F == {0..i : i \in T}
           R == StrictSubsetOrdering(Nat)
<1>1. F \subseteq FiniteSubsetsOf(Nat) /\ F # {}
  <2>1. \A i \in T : 0..i \subseteq Nat /\ IsFiniteSet(0..i)
    BY FS_Interval
  <2>2. QED
    BY <2>1 DEF FiniteSubsetsOf
<1>2. \E X \in F : \A Y \in F : ~(<<Y, X>> \in R)
  BY <1>1, FS_StrictSubsetOrderingWellFounded, WFMin
<1>3. PICK x \in T : \A y \in T : ~(<<0..y, 0..x>> \in R)
  BY <1>2
<1>4. ASSUME NEW y \in T, ~(x <= y) PROVE FALSE
  <2>1. 0..y \subseteq 0..x /\ x \in 0..x /\ x \notin 0..y
    BY <1>4
  <2>2. <<0..y, 0..x>> \in R
    BY <2>1 DEF StrictSubsetOrdering
  <2>3. QED
    BY <1>3, <2>2
<1>5. QED
  BY <1>4

\* Heads and entries are different nodes, and a deadline falls in some list.
LEMMA NodeFacts ==
  /\ Wheel \in Nat \ {0} /\ MaxEntries \in Nat \ {0}
  /\ Heads \cap Entry = {}
  /\ Node = Heads \cup Entry
  /\ Node \subseteq Nat
  /\ \A t \in Nat : CalcSlot(t) \in Heads
BY ListAssumption DEF Heads, Entry, Node, CalcSlot

-----------------------------------------------------------------------------
(* The pointer assignments *)

Links == [prev : [Node -> Node], next : [Node -> Node]]

\* An assignment to one pointer, with the links as two functions.
LEMMA SetLink ==
  ASSUME NEW l, NEW pv, NEW nx, NEW n, NEW x, l = [prev |-> pv, next |-> nx]
  PROVE  /\ [l EXCEPT !.prev[n] = x] = [prev |-> [pv EXCEPT ![n] = x], next |-> nx]
         /\ [l EXCEPT !.next[n] = x] = [prev |-> pv, next |-> [nx EXCEPT ![n] = x]]
OBVIOUS

\* What the assignments of insert_node amount to,
LEMMA InsertEffect ==
  ASSUME NEW l \in Links, NEW s \in Node, NEW n \in Node, n # s
  PROVE  InsertNode(l, s, n) =
           [prev |-> [l.prev EXCEPT ![n] = s, ![l.next[s]] = n],
            next |-> [l.next EXCEPT ![n] = l.next[s], ![s] = n]]
<1> DEFINE pv == l.prev
           nx == l.next
           x == nx[s]
           l0 == [l EXCEPT !.next[n] = x]
           l1 == [l0 EXCEPT !.prev[n] = s]
           pv1 == [pv EXCEPT ![n] = s]
           nx1 == [nx EXCEPT ![n] = x]
           l2 == [l1 EXCEPT !.prev[x] = n]
           pv2 == [pv1 EXCEPT ![x] = n]
<1>1. l = [prev |-> pv, next |-> nx] /\ nx \in [Node -> Node]
  BY DEF Links
<1>2. nx1[s] = x
  BY <1>1
<1>3. pv2 = [pv EXCEPT ![n] = s, ![x] = n] /\ [nx1 EXCEPT ![s] = n] = [nx EXCEPT ![n] = x, ![s] = n]
  OBVIOUS
<1>4. l1 = [prev |-> pv1, next |-> nx1]
  <2> HIDE DEF pv, nx, x
  <2>1. l0 = [prev |-> pv, next |-> nx1]
    BY <1>1, SetLink
  <2> HIDE DEF l0, nx1
  <2>2. QED
    BY <2>1, SetLink
<1>5. InsertNode(l, s, n) = [[l1 EXCEPT !.prev[l1.next[s]] = n] EXCEPT !.next[s] = n]
  BY DEF InsertNode
<1> HIDE DEF l1, pv1, nx1, x
<1>6. l1.next[s] = x
  BY <1>2, <1>4
<1>7. l2 = [prev |-> pv2, next |-> nx1]
  BY <1>4, SetLink
<1>8. InsertNode(l, s, n) = [l2 EXCEPT !.next[s] = n]
  BY <1>5, <1>6
<1> HIDE DEF l2, pv2
<1>9. InsertNode(l, s, n) = [prev |-> pv2, next |-> [nx1 EXCEPT ![s] = n]]
  BY <1>7, <1>8, SetLink
<1>10. QED
  BY <1>3, <1>9 DEF x

\* and those of remove_node.
LEMMA RemoveEffect ==
  ASSUME NEW l \in Links, NEW n \in Node
  PROVE  RemoveNode(l, n) =
           [prev |-> [l.prev EXCEPT ![l.next[n]] = l.prev[n], ![n] = n],
            next |-> [l.next EXCEPT ![l.prev[n]] = l.next[n], ![n] = n]]
<1> DEFINE pv == l.prev
           nx == l.next
           a == pv[n]
           b == nx[n]
           l1 == [l EXCEPT !.prev[b] = a]
           pv1 == [pv EXCEPT ![b] = a]
           l2 == [l1 EXCEPT !.next[a] = b]
           nx2 == [nx EXCEPT ![a] = b]
           l3 == [l2 EXCEPT !.next[n] = n]
<1>1. l = [prev |-> pv, next |-> nx] /\ pv \in [Node -> Node]
  BY DEF Links
<1>2. pv1[n] = a
  BY <1>1
<1>3. /\ [pv1 EXCEPT ![n] = n] = [pv EXCEPT ![b] = a, ![n] = n]
      /\ [nx2 EXCEPT ![n] = n] = [nx EXCEPT ![a] = b, ![n] = n]
  OBVIOUS
<1>4. l1 = [prev |-> pv1, next |-> nx]
  <2> HIDE DEF pv, nx, a, b
  <2>1. QED
    BY <1>1, SetLink
<1>5. RemoveNode(l, n) =
        [[[l1 EXCEPT !.next[l1.prev[n]] = l1.next[n]] EXCEPT !.next[n] = n] EXCEPT !.prev[n] = n]
  BY DEF RemoveNode
<1> HIDE DEF l1, pv1
<1>6. l1.prev[n] = a /\ l1.next[n] = b
  BY <1>2, <1>4
<1> HIDE DEF a, b
<1>7. l2 = [prev |-> pv1, next |-> nx2]
  BY <1>4, SetLink
<1>8. RemoveNode(l, n) = [l3 EXCEPT !.prev[n] = n]
  BY <1>5, <1>6
<1> HIDE DEF l2, nx2
<1>9. RemoveNode(l, n) = [prev |-> [pv1 EXCEPT ![n] = n], next |-> [nx2 EXCEPT ![n] = n]]
  <2>1. l3 = [prev |-> pv1, next |-> [nx2 EXCEPT ![n] = n]]
    BY <1>7, SetLink
  <2> HIDE DEF l3
  <2>2. QED
    BY <1>8, <2>1, SetLink
<1>10. QED
  BY <1>3, <1>9 DEF a, b

-----------------------------------------------------------------------------
(* Going round a list *)

\* q goes from s along nx back to s and meets no node twice.
Cycle(nx, s, q, N) ==
  /\ N \in Nat \ {0}
  /\ q \in [0..N -> Node]
  /\ q[0] = s /\ q[N] = s
  /\ \A i \in 0..(N - 1) : nx[q[i]] = q[i + 1]
  /\ \A i, j \in 0..(N - 1) : q[i] = q[j] => i = j

\* The nodes on the way.
On(q, N) == {q[i] : i \in 1..(N - 1)}

\* A cycle is the same cycle for assignments to other nodes.
LEMMA CycleOther ==
  ASSUME NEW nx, NEW nx2, NEW s, NEW N, NEW q, Cycle(nx, s, q, N),
         nx2[s] = nx[s], \A m \in On(q, N) : nx2[m] = nx[m]
  PROVE  Cycle(nx2, s, q, N)
<1>1. ASSUME NEW i \in 0..(N - 1) PROVE nx2[q[i]] = q[i + 1]
  <2>1. i = 0 \/ i \in 1..(N - 1)
    BY <1>1 DEF Cycle
  <2>2. nx2[q[i]] = nx[q[i]]
    BY <2>1 DEF Cycle, On
  <2>3. QED
    BY <1>1, <2>2 DEF Cycle
<1>2. QED
  BY <1>1 DEF Cycle

\* insert_node puts the node behind the head of a cycle it was not on,
LEMMA CycleInsert ==
  ASSUME NEW nx, NEW s \in Node, NEW n \in Node, NEW N, NEW q,
         Cycle(nx, s, q, N), n # s, n \notin On(q, N),
         NEW nx2, nx2[n] = nx[s], nx2[s] = n, \A m \in Node : m # n /\ m # s => nx2[m] = nx[m]
  PROVE  \E q2 : Cycle(nx2, s, q2, N + 1) /\ On(q2, N + 1) = On(q, N) \cup {n}
<1> DEFINE q2 == [i \in 0..(N + 1) |-> IF i = 0 THEN s ELSE IF i = 1 THEN n ELSE q[i - 1]]
<1>1. /\ N \in Nat \ {0} /\ q[0] = s /\ q[N] = s
      /\ \A i \in 0..N : q[i] \in Node
      /\ \A i \in 0..(N - 1) : nx[q[i]] = q[i + 1]
      /\ \A i, j \in 0..(N - 1) : q[i] = q[j] => i = j
  BY DEF Cycle
<1>2. /\ q2 \in [0..(N + 1) -> Node]
      /\ q2[0] = s /\ q2[1] = n
      /\ \A i \in 2..(N + 1) : q2[i] = q[i - 1]
  BY <1>1
<1>3. nx2[n] = nx[s] /\ nx2[s] = n /\ \A m \in Node : m # n /\ m # s => nx2[m] = nx[m]
  OBVIOUS
<1>4. \A i \in 1..(N - 1) : q[i] # n /\ q[i] # s
  <2>1. \A i \in 1..(N - 1) : q[i] # n
    BY DEF On
  <2>2. \A i \in 1..(N - 1) : q[i] # s
    BY <1>1
  <2>3. QED
    BY <2>1, <2>2
<1> HIDE DEF q2
<1>5. ASSUME NEW i \in 0..N PROVE nx2[q2[i]] = q2[i + 1]
  <2>1. CASE i = 0
    BY <1>2, <1>3, <2>1
  <2>2. CASE i = 1
    <3>1. q2[2] = q[1] /\ q[1] = nx[s]
      BY <1>1, <1>2
    <3>2. QED
      BY <1>2, <1>3, <2>2, <3>1
  <2>3. CASE i \in 2..N
    <3>1. i - 1 \in 1..(N - 1) /\ i - 1 \in 0..N /\ i - 1 \in 0..(N - 1) /\ i \in 2..(N + 1)
          /\ i + 1 \in 2..(N + 1) /\ (i + 1) - 1 = i /\ (i - 1) + 1 = i
      BY <1>1, <2>3
    <3>2. q2[i] = q[i - 1] /\ q2[i + 1] = q[i]
      BY <1>2, <3>1
    <3>3. nx2[q[i - 1]] = nx[q[i - 1]] /\ nx[q[i - 1]] = q[i]
      BY <1>1, <1>3, <1>4, <3>1
    <3>4. QED
      BY <3>2, <3>3
  <2>4. QED
    BY <1>1, <2>1, <2>2, <2>3
<1>6. ASSUME NEW i \in 0..N, NEW j \in 0..N, q2[i] = q2[j] PROVE i = j
  <2>1. \A k \in 2..N : q2[k] = q[k - 1] /\ k - 1 \in 1..(N - 1) /\ q2[k] # s /\ q2[k] # n
    <3>1. \A k \in 2..N : k - 1 \in 1..(N - 1) /\ k \in 2..(N + 1)
      BY <1>1
    <3>2. QED
      BY <1>2, <1>4, <3>1
  <2>2. CASE i \in 2..N /\ j \in 2..N
    <3>1. i - 1 \in 0..(N - 1) /\ j - 1 \in 0..(N - 1)
      BY <1>1, <2>2
    <3>2. q[i - 1] = q[j - 1]
      BY <1>6, <2>1, <2>2
    <3>3. i - 1 = j - 1
      BY <1>1, <3>1, <3>2
    <3>4. QED
      BY <2>2, <3>3
  <2>3. i \in {0, 1} \/ i \in 2..N
    BY <1>1
  <2>4. j \in {0, 1} \/ j \in 2..N
    BY <1>1
  <2>5. QED
    BY <1>2, <1>6, <2>1, <2>2, <2>3, <2>4
<1>7. Cycle(nx2, s, q2, N + 1)
  <2>1. N + 1 \in Nat \ {0} /\ (N + 1) - 1 = N
    BY <1>1
  <2>2. q2[N + 1] = s
    <3>1. N + 1 \in 2..(N + 1) /\ (N + 1) - 1 = N
      BY <1>1
    <3>2. QED
      BY <1>1, <1>2, <3>1
  <2>3. QED
    BY <1>2, <1>5, <1>6, <2>1, <2>2 DEF Cycle
<1>8. On(q2, N + 1) = On(q, N) \cup {n}
  <2>1. (N + 1) - 1 = N /\ 1 \in 1..N
    BY <1>1
  <2>2. \A i \in 2..N : i - 1 \in 1..(N - 1) /\ q2[i] = q[i - 1]
    <3>1. \A i \in 2..N : i - 1 \in 1..(N - 1) /\ i \in 2..(N + 1)
      BY <1>1
    <3>2. QED
      BY <1>2, <3>1
  <2>3. \A i \in 1..(N - 1) : i + 1 \in 2..N /\ i + 1 \in 1..N /\ q2[i + 1] = q[i]
    <3>1. \A i \in 1..(N - 1) : i + 1 \in 2..N /\ i + 1 \in 1..N /\ (i + 1) - 1 = i
      BY <1>1
    <3>2. QED
      BY <2>2, <3>1
  <2>4. \A i \in 1..N : i = 1 \/ i \in 2..N
    BY <1>1
  <2>5. On(q2, N + 1) = {q2[i] : i \in 1..N}
    BY <2>1 DEF On
  <2>6. \A m : m \in {q2[i] : i \in 1..N} => m \in On(q, N) \cup {n}
    BY <1>2, <2>2, <2>4 DEF On
  <2>7. \A m \in On(q, N) : m \in {q2[i] : i \in 1..N}
    BY <2>3 DEF On
  <2>8. n \in {q2[i] : i \in 1..N}
    BY <1>2, <2>1
  <2>9. QED
    BY <2>5, <2>6, <2>7, <2>8
<1>9. QED
  BY <1>7, <1>8

\* Without the node at place k, what was behind it moves up.
Without(q, N, k) == [i \in 0..(N - 1) |-> IF i < k THEN q[i] ELSE q[i + 1]]

\* and remove_node takes out the k-th node of a cycle.
LEMMA CycleRemove ==
  ASSUME NEW nx, NEW s \in Node, NEW N, NEW q, Cycle(nx, s, q, N), NEW k \in 1..(N - 1),
         NEW nx2, nx2[q[k - 1]] = nx[q[k]],
         \A m \in Node : m # q[k] /\ m # q[k - 1] => nx2[m] = nx[m]
  PROVE  /\ Cycle(nx2, s, Without(q, N, k), N - 1)
         /\ On(Without(q, N, k), N - 1) = On(q, N) \ {q[k]}
<1> DEFINE q2 == Without(q, N, k)
           a == q[k - 1]
           n == q[k]
<1>1. /\ N \in Nat \ {0} /\ q[0] = s /\ q[N] = s
      /\ \A i \in 0..N : q[i] \in Node
      /\ \A i \in 0..(N - 1) : nx[q[i]] = q[i + 1]
      /\ \A i, j \in 0..(N - 1) : q[i] = q[j] => i = j
  BY DEF Cycle
<1>2. /\ N - 1 \in Nat \ {0} /\ k \in 0..(N - 1) /\ k - 1 \in 0..(N - 1) /\ k - 1 # k
      /\ k - 1 \in 0..N /\ k \in 0..N /\ k + 1 \in 0..N
  BY <1>1
<1>3. /\ q2 \in [0..(N - 1) -> Node]
      /\ \A i \in 0..(N - 1) : i < k => q2[i] = q[i]
      /\ \A i \in 0..(N - 1) : i >= k => q2[i] = q[i + 1]
  <2>1. \A i \in 0..(N - 1) : i + 1 \in 0..N /\ i \in 0..N /\ i \in Int
    BY <1>1
  <2>2. \A i \in 0..(N - 1) : ~(i < k) <=> i >= k
    BY <1>2, <2>1
  <2>3. q2 = [i \in 0..(N - 1) |-> IF i < k THEN q[i] ELSE q[i + 1]]
    BY DEF Without
  <2> HIDE DEF q2
  <2>4. QED
    BY <1>1, <2>1, <2>2, <2>3
<1>4. a # n /\ a \in Node /\ n \in Node /\ nx[n] = q[k + 1]
  BY <1>1, <1>2
<1>5. nx2[a] = nx[n] /\ \A m \in Node : m # n /\ m # a => nx2[m] = nx[m]
  OBVIOUS
<1> HIDE DEF q2, a, n
<1>6. \A i \in 0..(N - 1) : (q[i] = n => i = k) /\ (q[i] = a => i = k - 1)
  BY <1>1, <1>2 DEF a, n
<1>7. ASSUME NEW i \in 0..(N - 2) PROVE nx2[q2[i]] = q2[i + 1]
  <2>1. CASE i < k - 1
    <3>1. i \in 0..(N - 1) /\ i + 1 \in 0..(N - 1) /\ i < k /\ i + 1 < k /\ i # k /\ i # k - 1
          /\ i \in 0..N
      BY <1>1, <1>2, <2>1
    <3>2. q2[i] = q[i] /\ q2[i + 1] = q[i + 1] /\ q[i] # n /\ q[i] # a /\ q[i] \in Node
      BY <1>1, <1>3, <1>6, <3>1
    <3>3. QED
      BY <1>1, <1>5, <3>1, <3>2
  <2>2. CASE i = k - 1
    <3>1. i \in 0..(N - 1) /\ i + 1 = k /\ i < k /\ k >= k
      BY <1>2, <2>2
    <3>2. q2[i] = q[i] /\ q2[k] = q[k + 1] /\ q[i] = a
      BY <1>2, <1>3, <2>2, <3>1 DEF a
    <3>3. QED
      BY <1>4, <1>5, <3>1, <3>2
  <2>3. CASE i >= k
    <3>1. i \in 0..(N - 1) /\ i + 1 \in 0..(N - 1) /\ i + 1 >= k /\ i + 1 # k /\ i + 1 # k - 1
          /\ i + 1 \in 0..N
      BY <1>1, <1>2, <2>3
    <3>2. q2[i] = q[i + 1] /\ q2[i + 1] = q[(i + 1) + 1] /\ q[i + 1] # n /\ q[i + 1] # a
          /\ q[i + 1] \in Node
      BY <1>1, <1>3, <1>6, <2>3, <3>1
    <3>3. QED
      BY <1>1, <1>5, <3>1, <3>2
  <2>4. QED
    BY <1>2, <2>1, <2>2, <2>3
<1>8. ASSUME NEW i \in 0..(N - 2), NEW j \in 0..(N - 2), q2[i] = q2[j] PROVE i = j
  <2> DEFINE at(x) == IF x < k THEN x ELSE x + 1
  <2>1. \A x \in 0..(N - 2) : x \in 0..(N - 1) /\ at(x) \in 0..(N - 1) /\ (x < k \/ x >= k)
    BY <1>1, <1>2
  <2>2. \A x \in 0..(N - 2) : q2[x] = q[at(x)]
    BY <1>2, <1>3, <2>1
  <2>3. at(i) = at(j)
    <3> HIDE DEF at
    <3>1. QED
      BY <1>1, <1>8, <2>1, <2>2
  <2>4. QED
    BY <1>2, <2>3
<1>9. Cycle(nx2, s, q2, N - 1)
  <2>1. (N - 1) - 1 = N - 2 /\ 0 \in 0..(N - 1) /\ N - 1 \in 0..(N - 1) /\ 0 < k /\ N - 1 >= k
        /\ (N - 1) + 1 = N
    BY <1>1, <1>2
  <2>2. q2[0] = s /\ q2[N - 1] = s
    BY <1>1, <1>3, <2>1
  <2>3. \A i \in 0..((N - 1) - 1) : nx2[q2[i]] = q2[i + 1]
    BY <1>7, <2>1
  <2>4. \A i, j \in 0..((N - 1) - 1) : q2[i] = q2[j] => i = j
    BY <1>8, <2>1
  <2>5. QED
    BY <1>2, <1>3, <2>2, <2>3, <2>4 DEF Cycle
<1>10. On(q2, N - 1) = On(q, N) \ {n}
  <2>1. On(q2, N - 1) = {q2[i] : i \in 1..(N - 2)}
    <3>1. (N - 1) - 1 = N - 2
      BY <1>1
    <3>2. QED
      BY <3>1 DEF On
  <2>2. ASSUME NEW i \in 1..(N - 2) PROVE q2[i] \in On(q, N) \ {n}
    <3>1. CASE i < k
      <4>1. i \in 1..(N - 1) /\ i \in 0..(N - 1) /\ i # k
        BY <1>1, <1>2, <3>1
      <4>2. QED
        BY <1>3, <1>6, <3>1, <4>1 DEF On
    <3>2. CASE i >= k
      <4>1. i + 1 \in 1..(N - 1) /\ i + 1 \in 0..(N - 1) /\ i + 1 # k /\ i \in 0..(N - 1)
        BY <1>1, <1>2, <3>2
      <4>2. q2[i] = q[i + 1] /\ q[i + 1] # n
        BY <1>3, <1>6, <3>2, <4>1
      <4>3. QED
        BY <4>1, <4>2 DEF On
    <3>3. QED
      BY <1>2, <3>1, <3>2
  <2>3. ASSUME NEW i \in 1..(N - 1), q[i] # n PROVE q[i] \in {q2[x] : x \in 1..(N - 2)}
    <3>1. i # k
      BY <2>3 DEF n
    <3>2. CASE i < k
      <4>1. i \in 1..(N - 2) /\ i \in 0..(N - 1)
        BY <1>1, <1>2, <3>2
      <4>2. q2[i] = q[i]
        BY <1>3, <3>2, <4>1
      <4>3. QED
        BY <4>1, <4>2
    <3>3. CASE i > k
      <4>1. i - 1 \in 1..(N - 2) /\ i - 1 \in 0..(N - 1) /\ i - 1 >= k /\ (i - 1) + 1 = i
        BY <1>1, <1>2, <3>3
      <4>2. q2[i - 1] = q[i]
        BY <1>3, <4>1
      <4>3. QED
        BY <4>1, <4>2
    <3>4. QED
      BY <1>2, <3>1, <3>2, <3>3
  <2>4. \A m \in On(q, N) \ {n} : m \in {q2[i] : i \in 1..(N - 2)}
    BY <2>3 DEF On
  <2>5. \A m \in {q2[i] : i \in 1..(N - 2)} : m \in On(q, N) \ {n}
    BY <2>2
  <2>6. QED
    BY <2>1, <2>4, <2>5
<1>11. QED
  BY <1>9, <1>10 DEF q2, a, n

-----------------------------------------------------------------------------
(* All lists *)

\* prev and next are inverse to each other, and every list goes round what L
\* says of it; the other entries are linked to themselves.
Inverse2(l) == \A m \in Node : l.prev[l.next[m]] = m /\ l.next[l.prev[m]] = m

Linked(L, m) == \E s \in Heads : m \in L[s]

Lists(l, L) ==
  /\ l \in Links
  /\ L \in [Heads -> SUBSET Entry]
  /\ \A s, t \in Heads : s # t => L[s] \cap L[t] = {}
  /\ Inverse2(l)
  /\ \A m \in Entry : ~Linked(L, m) => l.next[m] = m /\ l.prev[m] = m
  /\ \A s \in Heads : \E N, q : Cycle(l.next, s, q, N) /\ On(q, N) = L[s]

\* insert_node of an entry that is on no list keeps all the lists whole,
LEMMA InsertKeepsLists ==
  ASSUME NEW l, NEW L, Lists(l, L), NEW s \in Heads, NEW n \in Entry, ~Linked(L, n)
  PROVE  Lists(InsertNode(l, s, n), [L EXCEPT ![s] = @ \cup {n}])
<1> DEFINE l2 == InsertNode(l, s, n)
           L2 == [L EXCEPT ![s] = @ \cup {n}]
           nx == l.next
           pv == l.prev
           x == nx[s]
           nx2 == [nx EXCEPT ![n] = x, ![s] = n]
           pv2 == [pv EXCEPT ![n] = s, ![x] = n]
<1>1. /\ l \in Links /\ nx \in [Node -> Node] /\ pv \in [Node -> Node]
      /\ \A m \in Node : pv[nx[m]] = m /\ nx[pv[m]] = m
      /\ n \in Node /\ s \in Node /\ n # s /\ x \in Node
      /\ nx[n] = n /\ pv[n] = n
  BY NodeFacts DEF Lists, Links, Inverse2
<1>2. l2 = [prev |-> pv2, next |-> nx2]
  BY <1>1, InsertEffect
<1>3. x # n /\ pv[x] = s
  BY <1>1
<1>4. l2.prev = pv2 /\ l2.next = nx2 /\ nx2 \in [Node -> Node] /\ pv2 \in [Node -> Node] /\ l2 \in Links
  <2> HIDE DEF l2, nx, pv, x
  <2>1. nx2 \in [Node -> Node] /\ pv2 \in [Node -> Node]
    BY <1>1
  <2> HIDE DEF nx2, pv2
  <2>2. QED
    BY <1>2, <2>1 DEF Links
<1> HIDE DEF l2, nx, pv, x
<1>5. /\ nx2[n] = x /\ nx2[s] = n /\ \A m \in Node : m # n /\ m # s => nx2[m] = nx[m]
      /\ pv2[x] = n /\ pv2[n] = s /\ \A m \in Node : m # n /\ m # x => pv2[m] = pv[m]
  BY <1>1, <1>3
<1> HIDE DEF nx2, pv2
<1>6. Inverse2(l2)
  <2>1. ASSUME NEW m \in Node PROVE pv2[nx2[m]] = m
    <3>1. CASE m = n \/ m = s
      BY <1>5, <3>1
    <3>2. CASE m # n /\ m # s
      <4>1. nx[m] # x /\ nx[m] # n
        BY <1>1, <1>3, <3>2
      <4>2. nx[m] \in Node
        BY <1>1
      <4>3. QED
        BY <1>1, <1>5, <3>2, <4>1, <4>2
    <3>3. QED
      BY <3>1, <3>2
  <2>2. ASSUME NEW m \in Node PROVE nx2[pv2[m]] = m
    <3>1. CASE m = x \/ m = n
      BY <1>5, <3>1
    <3>2. CASE m # x /\ m # n
      <4>1. pv[m] # s /\ pv[m] # n
        BY <1>1, <3>2 DEF x
      <4>2. pv[m] \in Node
        BY <1>1
      <4>3. QED
        BY <1>1, <1>5, <3>2, <4>1, <4>2
    <3>3. QED
      BY <3>1, <3>2
  <2>3. QED
    BY <1>4, <2>1, <2>2 DEF Inverse2
<1>7. /\ L2 \in [Heads -> SUBSET Entry]
      /\ L2[s] = L[s] \cup {n}
      /\ \A t \in Heads : t # s => L2[t] = L[t]
  BY DEF Lists
<1>8. \A t, u \in Heads : t # u => L[t] \cap L[u] = {}
  BY DEF Lists
<1> HIDE DEF L2
<1>9. \A t, u \in Heads : t # u => L2[t] \cap L2[u] = {}
  BY <1>7, <1>8 DEF Linked
<1>10. ASSUME NEW m \in Entry, ~Linked(L2, m) PROVE l2.next[m] = m /\ l2.prev[m] = m
  <2>1. ~Linked(L, m) /\ m # n
    BY <1>7, <1>10 DEF Linked
  <2>2. nx[m] = m /\ pv[m] = m /\ m \in Node /\ m # s
    BY <2>1, NodeFacts DEF Lists, nx, pv
  <2>3. m # x
    BY <1>3, <2>2
  <2>4. QED
    BY <1>4, <1>5, <2>1, <2>2, <2>3
<1>11. ASSUME NEW t \in Heads PROVE \E N, q : Cycle(l2.next, t, q, N) /\ On(q, N) = L2[t]
  <2>1. PICK N, q : Cycle(nx, t, q, N) /\ On(q, N) = L[t]
    BY DEF Lists, nx
  <2>2. CASE t = s
    <3>1. n \notin On(q, N)
      BY <2>1, <2>2 DEF Linked
    <3>2. Cycle(nx, s, q, N)
      BY <2>1, <2>2
    <3>3. /\ nx2[n] = nx[s] /\ nx2[s] = n
          /\ \A m \in Node : m # n /\ m # s => nx2[m] = nx[m]
      BY <1>5 DEF x
    <3>4. s \in Node /\ n \in Node /\ n # s
      BY <1>1
    <3> HIDE DEF Cycle, On
    <3>5. \E q2 : Cycle(nx2, s, q2, N + 1) /\ On(q2, N + 1) = On(q, N) \cup {n}
      BY <3>1, <3>2, <3>3, <3>4, CycleInsert
    <3>6. QED
      BY <1>4, <1>7, <2>1, <2>2, <3>5
  <2>3. CASE t # s
    <3>1. \A m \in On(q, N) : m \in Node /\ m # n /\ m # s
      BY <2>1, NodeFacts DEF Lists, Linked
    <3>2. t \in Node /\ t # n /\ t # s
      BY <2>3, NodeFacts
    <3>3. nx2[t] = nx[t] /\ \A m \in On(q, N) : nx2[m] = nx[m]
      BY <1>5, <3>1, <3>2
    <3>4. Cycle(nx2, t, q, N)
      BY <2>1, <3>3, CycleOther
    <3>5. QED
      BY <1>4, <1>7, <2>1, <2>3, <3>4
  <2>4. QED
    BY <2>2, <2>3
<1>12. QED
  BY <1>4, <1>6, <1>7, <1>9, <1>10, <1>11 DEF Lists, l2, L2

\* The node before q[k], and what remove_node(q[k]) leaves of the cycle.
LEMMA RemoveAt ==
  ASSUME NEW l \in Links, Inverse2(l), NEW s \in Node, NEW N, NEW q, Cycle(l.next, s, q, N),
         NEW k \in 1..(N - 1)
  PROVE  LET n == q[k]
             a == q[k - 1]
             b == q[k + 1]
             l2 == RemoveNode(l, n)
         IN  /\ n \in Node /\ a \in Node /\ b \in Node /\ a # n /\ b # n
             /\ l.prev[n] = a /\ l.next[n] = b /\ l.next[a] = n
             /\ l2 \in Links
             /\ l2.next[n] = n /\ l2.next[a] = b
             /\ \A m \in Node : m # n /\ m # a => l2.next[m] = l.next[m]
             /\ l2.prev[n] = n /\ l2.prev[b] = a
             /\ \A m \in Node : m # n /\ m # b => l2.prev[m] = l.prev[m]
             /\ Cycle(l2.next, s, Without(q, N, k), N - 1)
             /\ On(Without(q, N, k), N - 1) = On(q, N) \ {n}
<1> DEFINE n == q[k]
           a == q[k - 1]
           b == q[k + 1]
           l2 == RemoveNode(l, n)
           nx == l.next
           pv == l.prev
           nx2 == [nx EXCEPT ![a] = b, ![n] = n]
           pv2 == [pv EXCEPT ![b] = a, ![n] = n]
<1>1. /\ N \in Nat \ {0} /\ k \in 0..(N - 1) /\ k - 1 \in 0..(N - 1) /\ k - 1 # k
      /\ k - 1 \in 0..N /\ k \in 0..N /\ k + 1 \in 0..N /\ (k - 1) + 1 = k
  BY DEF Cycle
<1>2. /\ n \in Node /\ a \in Node /\ b \in Node /\ a # n
      /\ nx[a] = n /\ nx[n] = b
  BY <1>1 DEF Cycle
<1>3. /\ \A m \in Node : pv[nx[m]] = m /\ nx[pv[m]] = m
      /\ nx \in [Node -> Node] /\ pv \in [Node -> Node]
  BY DEF Links, Inverse2
<1>4. l2 = [prev |-> pv2, next |-> nx2]
  <2>1. pv[n] = a
    <3> HIDE DEF n, a, nx, pv
    <3>1. QED
      BY <1>2, <1>3
  <2>2. nx[n] = b
    BY <1>2
  <2>3. l2 = [prev |-> [pv EXCEPT ![nx[n]] = pv[n], ![n] = n], next |-> [nx EXCEPT ![pv[n]] = nx[n], ![n] = n]]
    BY <1>2, RemoveEffect
  <2> HIDE DEF n, a, b, nx, pv, l2
  <2>4. QED
    BY <2>1, <2>2, <2>3
<1> HIDE DEF n, a, b, l2, nx, pv
<1>5. pv[n] = a /\ b # n
  BY <1>2, <1>3
<1>6. /\ nx2 \in [Node -> Node] /\ pv2 \in [Node -> Node]
      /\ nx2[n] = n /\ nx2[a] = b /\ \A m \in Node : m # n /\ m # a => nx2[m] = nx[m]
      /\ pv2[n] = n /\ pv2[b] = a /\ \A m \in Node : m # n /\ m # b => pv2[m] = pv[m]
  BY <1>2, <1>3, <1>5
<1> HIDE DEF nx2, pv2
<1>7. l2.prev = pv2 /\ l2.next = nx2 /\ l2 \in Links
  BY <1>4, <1>6 DEF Links
<1>8. /\ Cycle(nx2, s, Without(q, N, k), N - 1)
      /\ On(Without(q, N, k), N - 1) = On(q, N) \ {n}
  <2>1. nx2[q[k - 1]] = nx[q[k]]
    BY <1>2, <1>6 DEF a, n
  <2>2. \A m \in Node : m # q[k] /\ m # q[k - 1] => nx2[m] = nx[m]
    BY <1>6 DEF a, n
  <2>3. Cycle(nx, s, q, N)
    BY DEF nx
  <2> HIDE DEF Cycle, On, Without
  <2>4. QED
    BY <2>1, <2>2, <2>3, CycleRemove DEF n
<1>9. QED
  BY <1>2, <1>5, <1>6, <1>7, <1>8 DEF n, a, b, l2, nx, pv

\* and remove_node of an entry of some list does.
LEMMA RemoveKeepsLists ==
  ASSUME NEW l, NEW L, Lists(l, L), NEW s \in Heads, NEW n \in L[s]
  PROVE  Lists(RemoveNode(l, n), [L EXCEPT ![s] = @ \ {n}])
<1> DEFINE l2 == RemoveNode(l, n)
           L2 == [L EXCEPT ![s] = @ \ {n}]
<1>1. PICK N, q : Cycle(l.next, s, q, N) /\ On(q, N) = L[s]
  BY DEF Lists
<1>2. PICK k \in 1..(N - 1) : n = q[k]
  BY <1>1 DEF On
<1>3. l \in Links /\ Inverse2(l) /\ s \in Node
  BY NodeFacts DEF Lists
<1> DEFINE a == q[k - 1]
           b == q[k + 1]
<1>4. /\ n \in Node /\ a \in Node /\ b \in Node /\ a # n /\ b # n
      /\ l.prev[n] = a /\ l.next[n] = b /\ l.next[a] = n
      /\ l2 \in Links
      /\ l2.next[n] = n /\ l2.next[a] = b
      /\ \A m \in Node : m # n /\ m # a => l2.next[m] = l.next[m]
      /\ l2.prev[n] = n /\ l2.prev[b] = a
      /\ \A m \in Node : m # n /\ m # b => l2.prev[m] = l.prev[m]
      /\ Cycle(l2.next, s, Without(q, N, k), N - 1)
      /\ On(Without(q, N, k), N - 1) = On(q, N) \ {n}
  BY <1>1, <1>2, <1>3, RemoveAt
<1>5. a \in {s} \cup L[s]
  <2>1. N \in Nat /\ (k - 1 = 0 \/ k - 1 \in 1..(N - 1))
    BY <1>1, <1>2 DEF Cycle
  <2>2. CASE k - 1 = 0
    BY <1>1, <2>2 DEF Cycle
  <2>3. CASE k - 1 \in 1..(N - 1)
    BY <1>1, <2>3 DEF On
  <2>4. QED
    BY <2>1, <2>2, <2>3
<1> HIDE DEF l2, a, b
<1>6. \A m \in Node : l.prev[l.next[m]] = m /\ l.next[l.prev[m]] = m /\ l.next[m] \in Node /\ l.prev[m] \in Node
  BY <1>3 DEF Inverse2, Links
<1>7. Inverse2(l2)
  <2>1. ASSUME NEW m \in Node PROVE l2.prev[l2.next[m]] = m
    <3>1. CASE m = n \/ m = a
      BY <1>4, <3>1
    <3>2. CASE m # n /\ m # a
      <4>1. l.next[m] # b /\ l.next[m] # n /\ l.next[m] \in Node
        BY <1>4, <1>6, <3>2
      <4>2. QED
        BY <1>4, <1>6, <3>2, <4>1
    <3>3. QED
      BY <3>1, <3>2
  <2>2. ASSUME NEW m \in Node PROVE l2.next[l2.prev[m]] = m
    <3>1. CASE m = n \/ m = b
      BY <1>4, <3>1
    <3>2. CASE m # n /\ m # b
      <4>1. l.prev[m] # a /\ l.prev[m] # n /\ l.prev[m] \in Node
        BY <1>4, <1>6, <3>2
      <4>2. QED
        BY <1>4, <1>6, <3>2, <4>1
    <3>3. QED
      BY <3>1, <3>2
  <2>3. QED
    BY <2>1, <2>2 DEF Inverse2
<1>8. /\ L2 \in [Heads -> SUBSET Entry]
      /\ L2[s] = L[s] \ {n}
      /\ \A t \in Heads : t # s => L2[t] = L[t]
      /\ \A t, u \in Heads : t # u => L[t] \cap L[u] = {}
      /\ \A t \in Heads : L[t] \subseteq Entry
  BY DEF Lists
<1> HIDE DEF L2
<1>9. \A t, u \in Heads : t # u => L2[t] \cap L2[u] = {}
  BY <1>8
<1>10. ASSUME NEW m \in Entry, ~Linked(L2, m) PROVE l2.next[m] = m /\ l2.prev[m] = m
  <2>1. CASE m = n
    BY <1>4, <2>1
  <2>2. CASE m # n
    <3>1. ~Linked(L, m)
      BY <1>8, <1>10, <2>2 DEF Linked
    <3>2. l.next[m] = m /\ l.prev[m] = m /\ m \in Node
      BY <3>1, NodeFacts DEF Lists
    <3>3. m # a /\ m # b
      BY <1>4, <1>6, <3>2
    <3>4. QED
      BY <1>4, <2>2, <3>2, <3>3
  <2>3. QED
    BY <2>1, <2>2
<1>11. ASSUME NEW t \in Heads PROVE \E M, r : Cycle(l2.next, t, r, M) /\ On(r, M) = L2[t]
  <2>1. CASE t = s
    <3>1. On(Without(q, N, k), N - 1) = L2[s]
      BY <1>1, <1>4, <1>8
    <3>2. Cycle(l2.next, t, Without(q, N, k), N - 1)
      BY <1>4, <2>1
    <3>3. QED
      BY <2>1, <3>1, <3>2
  <2>2. CASE t # s
    <3>1. PICK M, r : Cycle(l.next, t, r, M) /\ On(r, M) = L[t]
      BY DEF Lists
    <3>2. \A m \in On(r, M) : m \in Node /\ m # n /\ m # a
      BY <1>5, <1>8, <2>2, <3>1, NodeFacts
    <3>3. t \in Node /\ t # n /\ t # a
      BY <1>5, <1>8, <2>2, NodeFacts
    <3>4. l2.next[t] = l.next[t] /\ \A m \in On(r, M) : l2.next[m] = l.next[m]
      BY <1>4, <3>2, <3>3
    <3>5. Cycle(l2.next, t, r, M)
      BY <3>1, <3>4, CycleOther
    <3>6. QED
      BY <1>8, <2>2, <3>1, <3>5
  <2>3. QED
    BY <2>1, <2>2
<1>12. QED
  BY <1>4, <1>7, <1>8, <1>9, <1>10, <1>11 DEF Lists, l2, L2

-----------------------------------------------------------------------------
(* What Ring finds *)

\* There are no more nodes on a list than addresses.
LEMMA CycleFits ==
  ASSUME NEW nx, NEW s, NEW N, NEW q, Cycle(nx, s, q, N), On(q, N) \subseteq Entry
  PROVE  N - 1 <= MaxEntries
<1> DEFINE f == [i \in 1..(N - 1) |-> q[i]]
<1>1. N \in Nat \ {0} /\ \A i \in 1..(N - 1) : i \in 0..(N - 1)
  BY DEF Cycle
<1>2. f \in Injection(1..(N - 1), Entry)
  <2>1. f \in [1..(N - 1) -> Entry]
    BY DEF On
  <2>2. \A i, j \in 1..(N - 1) : f[i] = f[j] => i = j
    BY <1>1 DEF Cycle
  <2>3. QED
    BY <2>1, <2>2 DEF Injection, IsInjective
<1>3. /\ IsFiniteSet(Entry) /\ Cardinality(Entry) = MaxEntries
      /\ Cardinality(1..(N - 1)) = N - 1
  <2>1. Wheel \in Int /\ Wheel + MaxEntries - 1 \in Int /\ MaxEntries \in Nat \ {0}
    BY ListAssumption
  <2>2. IsFiniteSet(Entry) /\ Cardinality(Entry) = MaxEntries
    BY <2>1, FS_Interval DEF Entry
  <2>3. 1 \in Int /\ N - 1 \in Int
    BY <1>1
  <2>4. Cardinality(1..(N - 1)) = IF 1 > N - 1 THEN 0 ELSE (N - 1) - 1 + 1
    BY <2>3, FS_Interval
  <2>5. QED
    BY <1>1, <2>2, <2>4
<1>4. Cardinality(1..(N - 1)) <= Cardinality(Entry)
  BY <1>2, <1>3, FS_Injection
<1>5. QED
  BY <1>3, <1>4

\* There is a function of the kind Ring defines.
LEMMA StepsFromHead ==
  ASSUME NEW nx \in [Node -> Node], NEW s \in Node, NEW M \in Nat
  PROVE  \E f \in [0..M -> Node] : f[0] = nx[s] /\ \A i \in 1..M : f[i] = nx[f[i - 1]]
<1> DEFINE Sol(m) == {f \in [0..m -> Node] : f[0] = nx[s] /\ \A i \in 1..m : f[i] = nx[f[i - 1]]}
           T == {m \in Nat : Sol(m) = {}}
<1>1. ASSUME T # {} PROVE FALSE
  <2>1. PICK x \in T : \A y \in T : x <= y
    <3>1. T \in SUBSET Nat
      OBVIOUS
    <3> HIDE DEF T
    <3>2. QED
      BY <1>1, <3>1, NatLeast
  <2>2. CASE x = 0
    <3> DEFINE f == [i \in 0..0 |-> nx[s]]
    <3>1. f \in Sol(0)
      OBVIOUS
    <3>2. QED
      BY <2>1, <2>2, <3>1
  <2>3. CASE x # 0
    <3>1. x - 1 \in Nat /\ x - 1 \notin T
      <4>1. x \in Nat
        BY <2>1
      <4> HIDE DEF T
      <4>2. x - 1 \in Nat /\ ~(x <= x - 1)
        BY <2>3, <4>1
      <4>3. QED
        BY <2>1, <4>2
    <3>2. PICK g : g \in Sol(x - 1)
      BY <3>1
    <3>3. /\ g \in [0..(x - 1) -> Node] /\ g[0] = nx[s]
          /\ \A i \in 1..(x - 1) : g[i] = nx[g[i - 1]]
      BY <3>2
    <3> DEFINE f == [i \in 0..x |-> IF i = x THEN nx[g[x - 1]] ELSE g[i]]
    <3>4. f \in [0..x -> Node] /\ f[0] = nx[s] /\ f[x] = nx[f[x - 1]]
          /\ \A i \in 0..(x - 1) : f[i] = g[i]
      BY <2>1, <2>3, <3>1, <3>3
    <3> HIDE DEF f
    <3>5. ASSUME NEW i \in 1..x PROVE f[i] = nx[f[i - 1]]
      <4>1. i = x \/ (i \in 1..(x - 1) /\ i \in 0..(x - 1) /\ i - 1 \in 0..(x - 1))
        BY <3>1
      <4>2. QED
        BY <3>3, <3>4, <4>1
    <3>6. f \in Sol(x)
      BY <3>4, <3>5
    <3>7. QED
      BY <2>1, <3>6
  <2>4. QED
    BY <2>2, <2>3
<1>2. Sol(M) # {}
  BY <1>1
<1>3. QED
  BY <1>2

\* Following next from the head finds the entries of the list, and no others:
\* there are not more steps round a list than Ring takes.
LEMMA RingFindsList ==
  ASSUME NEW L, Lists(list, L), NEW s \in Heads
  PROVE  Ring(s) = L[s]
<1> DEFINE nx == list.next
           M == MaxEntries
           D(f) == [k \in 0..M |-> nx[IF k = 0 THEN s ELSE f[k - 1]]]
           at == CHOOSE f : f = D(f)
<1>1. /\ nx \in [Node -> Node] /\ s \in Node /\ M \in Nat
      /\ L[s] \subseteq Entry /\ s \notin Entry /\ Entry \subseteq Node
  BY NodeFacts DEF Lists, Links
<1>2. Ring(s) = {at[k] : k \in 0..M} \cap Entry
  BY DEF Ring
<1> HIDE DEF nx, M
<1>3. \E f : f = D(f)
  <2>1. PICK f \in [0..M -> Node] : f[0] = nx[s] /\ \A i \in 1..M : f[i] = nx[f[i - 1]]
    BY <1>1, StepsFromHead
  <2>2. \A k \in 0..M : f[k] = nx[IF k = 0 THEN s ELSE f[k - 1]]
    <3>1. \A k \in 0..M : k = 0 \/ k \in 1..M
      BY <1>1
    <3>2. QED
      BY <2>1, <3>1
  <2>3. f = D(f)
    BY <2>1, <2>2
  <2>4. QED
    BY <2>3
<1>4. at = D(at)
  BY <1>3
<1> HIDE DEF at
<1>5. at[0] = nx[s] /\ \A k \in 1..M : at[k] = nx[at[k - 1]]
  <2>1. \A k \in 0..M : at[k] = nx[IF k = 0 THEN s ELSE at[k - 1]]
    BY <1>4
  <2> HIDE DEF D
  <2>2. 0 \in 0..M /\ \A k \in 1..M : k \in 0..M /\ k # 0
    BY <1>1
  <2>3. QED
    BY <2>1, <2>2
<1>6. PICK N, q : Cycle(nx, s, q, N) /\ On(q, N) = L[s]
  BY DEF Lists, nx
<1>7. /\ N \in Nat \ {0} /\ q[0] = s /\ q[N] = s
      /\ \A i \in 0..(N - 1) : nx[q[i]] = q[i + 1]
  BY <1>6 DEF Cycle
<1>8. N - 1 <= M
  BY <1>1, <1>6, CycleFits DEF M
<1>9. \A k \in 0..M : \E i \in 0..N : at[k] = q[i]
  <2> DEFINE T == {k \in 0..M : \A i \in 0..N : at[k] # q[i]}
  <2>1. ASSUME T # {} PROVE FALSE
    <3>1. PICK x \in T : \A y \in T : x <= y
      <4>1. T \in SUBSET Nat
        BY <1>1
      <4> HIDE DEF T
      <4>2. QED
        BY <2>1, <4>1, NatLeast
    <3>2. x \in 0..M /\ \A i \in 0..N : at[x] # q[i]
      BY <3>1
    <3>3. CASE x = 0
      <4>1. at[0] = q[1] /\ 1 \in 0..N
        BY <1>5, <1>7
      <4>2. QED
        BY <3>2, <3>3, <4>1
    <3>4. CASE x # 0
      <4>1. x \in 1..M /\ x - 1 \in 0..M /\ ~(x <= x - 1)
        BY <1>1, <3>2, <3>4
      <4>2. PICK i \in 0..N : at[x - 1] = q[i]
        BY <3>1, <4>1
      <4>3. CASE i = N
        <5>1. at[x] = q[1] /\ 1 \in 0..N
          BY <1>5, <1>7, <4>1, <4>2, <4>3
        <5>2. QED
          BY <3>2, <5>1
      <4>4. CASE i # N
        <5>1. i \in 0..(N - 1) /\ i + 1 \in 0..N
          BY <1>7, <4>4
        <5>2. at[x] = q[i + 1]
          BY <1>5, <1>7, <4>1, <4>2, <5>1
        <5>3. QED
          BY <3>2, <5>1, <5>2
      <4>5. QED
        BY <4>3, <4>4
    <3>5. QED
      BY <3>3, <3>4
  <2>2. QED
    BY <2>1
<1>10. \A i \in 1..(N - 1) : i - 1 \in 0..M /\ at[i - 1] = q[i]
  <2> DEFINE T == {k \in Nat : k + 1 \in 1..(N - 1) /\ at[k] # q[k + 1]}
  <2>1. ASSUME T # {} PROVE FALSE
    <3>1. PICK x \in T : \A y \in T : x <= y
      <4>1. T \in SUBSET Nat
        OBVIOUS
      <4> HIDE DEF T
      <4>2. QED
        BY <2>1, <4>1, NatLeast
    <3>2. x \in Nat /\ x + 1 \in 1..(N - 1) /\ at[x] # q[x + 1]
      BY <3>1
    <3>3. CASE x = 0
      BY <1>5, <1>7, <3>2, <3>3
    <3>4. CASE x # 0
      <4>1. x - 1 \in Nat /\ (x - 1) + 1 \in 1..(N - 1) /\ ~(x <= x - 1) /\ (x - 1) + 1 = x
            /\ x \in 0..(N - 1) /\ x \in 1..M
        BY <1>1, <1>7, <1>8, <3>2, <3>4
      <4>2. at[x - 1] = q[x]
        BY <3>1, <4>1
      <4>3. at[x] = q[x + 1]
        BY <1>5, <1>7, <4>1, <4>2
      <4>4. QED
        BY <3>2, <4>3
    <3>5. QED
      BY <3>3, <3>4
  <2>2. ASSUME NEW i \in 1..(N - 1) PROVE i - 1 \in 0..M /\ at[i - 1] = q[i]
    <3>1. i - 1 \in 0..M /\ i - 1 \in Nat /\ (i - 1) + 1 = i
      BY <1>1, <1>7, <1>8
    <3>2. i - 1 \notin T
      BY <2>1
    <3>3. QED
      BY <3>1, <3>2
  <2>3. QED
    BY <2>2
<1>11. \A k \in 0..M : at[k] \in Entry => at[k] \in L[s]
  <2>1. ASSUME NEW k \in 0..M, at[k] \in Entry PROVE at[k] \in L[s]
    <3>1. PICK i \in 0..N : at[k] = q[i]
      BY <1>9
    <3>2. i # 0 /\ i # N
      BY <1>1, <1>7, <2>1, <3>1
    <3>3. i \in 1..(N - 1)
      BY <1>7, <3>2
    <3>4. QED
      BY <1>6, <3>1, <3>3 DEF On
  <2>2. QED
    BY <2>1
<1>12. \A m \in L[s] : m \in Entry /\ m \in {at[k] : k \in 0..M}
  <2>1. ASSUME NEW m \in L[s] PROVE m \in {at[k] : k \in 0..M}
    <3>1. PICK i \in 1..(N - 1) : m = q[i]
      BY <1>6 DEF On
    <3>2. QED
      BY <1>10, <3>1
  <2>2. QED
    BY <1>1, <2>1
<1>13. QED
  BY <1>2, <1>11, <1>12

-----------------------------------------------------------------------------
(* The invariant *)

\* The live entries of each slot.
LiveIn == [s \in Heads |-> {n \in Entry : heap[n] = "live" /\ CalcSlot(entry[n].t) = s}]

LiveEntries == \A n \in Entry : heap[n] = "live" => entry[n] \in [vip : Vip, conn : Conn, t : Nat]

InUpdate ==
  /\ upd # "idle" => ~crashed /\ now \in 0..MaxTime /\ m_last \in Nat
  /\ upd = "walk" => m_last <= now

\* The cursor is on the list under way, and no entry before it is due.
OnTheWay(q, N, k) ==
  /\ Cycle(list.next, CalcSlot(m_last), q, N)
  /\ On(q, N) = LiveIn[CalcSlot(m_last)]
  /\ q[k] = p
  /\ \A i \in 1..(k - 1) : entry[q[i]].t # m_last

Walking == upd = "walk" => \E q, N : \E k \in 1..N : OnTheWay(q, N, k)

IInv ==
  /\ TypeOK
  /\ Lists(list, LiveIn)
  /\ LiveEntries
  /\ DictOwnsEntries
  /\ InUpdate
  /\ Walking

\* An entry becomes live,
LEMMA LiveInNew ==
  ASSUME heap \in [Entry -> {"free", "live", "leaked"}], NEW n \in Entry, heap[n] # "live",
         heap' = [heap EXCEPT ![n] = "live"], \A m \in Entry : m # n => entry'[m] = entry[m]
  PROVE  LiveIn' = [LiveIn EXCEPT ![CalcSlot(entry'[n].t)] = @ \cup {n}]
<1> DEFINE L2 == [LiveIn EXCEPT ![CalcSlot(entry'[n].t)] = @ \cup {n}]
<1>1. /\ heap'[n] = "live" /\ \A m \in Entry : m # n => heap'[m] = heap[m]
  OBVIOUS
<1>2. ASSUME NEW s \in Heads PROVE LiveIn'[s] = L2[s]
  <2>1. LiveIn'[s] = {m \in Entry : heap'[m] = "live" /\ CalcSlot(entry'[m].t) = s}
    BY DEF LiveIn
  <2>2. LiveIn[s] = {m \in Entry : heap[m] = "live" /\ CalcSlot(entry[m].t) = s}
    BY DEF LiveIn
  <2>3. L2[s] = IF s = CalcSlot(entry'[n].t) THEN LiveIn[s] \cup {n} ELSE LiveIn[s]
    BY DEF LiveIn
  <2> HIDE DEF L2, LiveIn
  <2>4. \A m : m \in LiveIn'[s] <=> m \in L2[s]
    BY <1>1, <2>1, <2>2, <2>3
  <2>5. QED
    BY <2>4
<1>3. LiveIn' \in [Heads -> SUBSET Entry] /\ L2 \in [Heads -> SUBSET Entry]
  BY DEF LiveIn
<1> HIDE DEF L2, LiveIn
<1>4. LiveIn' = L2
  BY <1>2, <1>3
<1>5. QED
  BY <1>4 DEF L2

\* moves to the list of another slot,
LEMMA LiveInMoved ==
  ASSUME NEW n \in Entry, heap[n] = "live", heap' = heap,
         \A m \in Entry : m # n => entry'[m] = entry[m]
  PROVE  LiveIn' = [[LiveIn EXCEPT ![CalcSlot(entry[n].t)] = @ \ {n}]
                      EXCEPT ![CalcSlot(entry'[n].t)] = @ \cup {n}]
<1> DEFINE L1 == [LiveIn EXCEPT ![CalcSlot(entry[n].t)] = @ \ {n}]
           L2 == [L1 EXCEPT ![CalcSlot(entry'[n].t)] = @ \cup {n}]
<1>1. ASSUME NEW s \in Heads PROVE LiveIn'[s] = L2[s]
  <2>1. LiveIn'[s] = {m \in Entry : heap[m] = "live" /\ CalcSlot(entry'[m].t) = s}
    BY DEF LiveIn
  <2>2. LiveIn[s] = {m \in Entry : heap[m] = "live" /\ CalcSlot(entry[m].t) = s}
    BY DEF LiveIn
  <2>3. L1[s] = IF s = CalcSlot(entry[n].t) THEN LiveIn[s] \ {n} ELSE LiveIn[s]
    BY DEF LiveIn
  <2>4. L2[s] = IF s = CalcSlot(entry'[n].t) THEN L1[s] \cup {n} ELSE L1[s]
    BY DEF LiveIn
  <2> HIDE DEF L1, L2, LiveIn
  <2>5. \A m : m \in LiveIn'[s] <=> m \in L2[s]
    BY <2>1, <2>2, <2>3, <2>4
  <2>6. QED
    BY <2>5
<1>2. LiveIn' \in [Heads -> SUBSET Entry] /\ L2 \in [Heads -> SUBSET Entry]
  BY DEF LiveIn
<1> HIDE DEF L2, LiveIn
<1>3. LiveIn' = L2
  BY <1>1, <1>2
<1>4. QED
  BY <1>3 DEF L2

\* and is live no more.
LEMMA LiveInGone ==
  ASSUME heap \in [Entry -> {"free", "live", "leaked"}], NEW n \in Entry, heap[n] = "live",
         NEW state, state # "live", heap' = [heap EXCEPT ![n] = state],
         \A m \in Entry : m # n => entry'[m] = entry[m]
  PROVE  LiveIn' = [LiveIn EXCEPT ![CalcSlot(entry[n].t)] = @ \ {n}]
<1> DEFINE L2 == [LiveIn EXCEPT ![CalcSlot(entry[n].t)] = @ \ {n}]
<1>1. /\ heap'[n] # "live" /\ \A m \in Entry : m # n => heap'[m] = heap[m]
  OBVIOUS
<1>2. ASSUME NEW s \in Heads PROVE LiveIn'[s] = L2[s]
  <2>1. LiveIn'[s] = {m \in Entry : heap'[m] = "live" /\ CalcSlot(entry'[m].t) = s}
    BY DEF LiveIn
  <2>2. LiveIn[s] = {m \in Entry : heap[m] = "live" /\ CalcSlot(entry[m].t) = s}
    BY DEF LiveIn
  <2>3. L2[s] = IF s = CalcSlot(entry[n].t) THEN LiveIn[s] \ {n} ELSE LiveIn[s]
    BY DEF LiveIn
  <2> HIDE DEF L2, LiveIn
  <2>4. \A m : m \in LiveIn'[s] <=> m \in L2[s]
    BY <1>1, <2>1, <2>2, <2>3
  <2>5. QED
    BY <2>4
<1>3. LiveIn' \in [Heads -> SUBSET Entry] /\ L2 \in [Heads -> SUBSET Entry]
  BY DEF LiveIn
<1> HIDE DEF L2, LiveIn
<1>4. LiveIn' = L2
  BY <1>2, <1>3
<1>5. QED
  BY <1>4 DEF L2

\* A new deadline, and the list it falls in.
LEMMA Plus ==
  ASSUME TypeOK
  PROVE  clock + Expire \in Nat /\ CalcSlot(clock + Expire) \in Heads
<1>1. clock + Expire \in Nat
  BY ListAssumption DEF TypeOK
<1>2. QED
  BY <1>1, NodeFacts

\* Where a live entry is.
LEMMA LiveIsLinked ==
  ASSUME IInv, NEW n \in Entry, heap[n] = "live"
  PROVE  /\ entry[n] \in [vip : Vip, conn : Conn, t : Nat]
         /\ CalcSlot(entry[n].t) \in Heads
         /\ n \in LiveIn[CalcSlot(entry[n].t)]
<1>1. entry[n] \in [vip : Vip, conn : Conn, t : Nat]
  BY DEF IInv, LiveEntries
<1>2. entry[n].t \in Nat
  BY <1>1
<1>3. CalcSlot(entry[n].t) \in Heads
  BY <1>2, NodeFacts
<1>4. QED
  BY <1>1, <1>3 DEF LiveIn

\* The entry of a vip that the dictionary holds.
LEMMA KnownIsLive ==
  ASSUME IInv, NEW v \in Vip, m_dict[v] # Nil
  PROVE  m_dict[v] \in Entry /\ heap[m_dict[v]] = "live" /\ entry[m_dict[v]].vip = v
BY DEF IInv, TypeOK, DictOwnsEntries

\* remove_node and insert_node together.
LEMMA RelinkLists ==
  ASSUME IInv, NEW n \in Entry, heap[n] = "live", Relink(n), heap' = heap,
         \A m \in Entry : m # n => entry'[m] = entry[m], entry'[n].t = clock + Expire
  PROVE  Lists(list', LiveIn')
<1> DEFINE s == CalcSlot(entry[n].t)
           t == CalcSlot(clock + Expire)
           l1 == RemoveNode(list, n)
           L1 == [LiveIn EXCEPT ![s] = @ \ {n}]
           L2 == [L1 EXCEPT ![t] = @ \cup {n}]
<1>1. s \in Heads /\ n \in LiveIn[s] /\ t \in Heads /\ Lists(list, LiveIn)
  BY LiveIsLinked, Plus DEF IInv
<1>2. list' = InsertNode(l1, t, n)
  BY DEF Relink
<1>3. LiveIn' = L2
  BY LiveInMoved
<1> HIDE DEF s, t
<1>4. Lists(l1, L1)
  BY <1>1, RemoveKeepsLists
<1>5. ~Linked(L1, n)
  <2>1. /\ L1[s] = LiveIn[s] \ {n}
        /\ \A u \in Heads : u # s => L1[u] = LiveIn[u]
        /\ \A u \in Heads : u # s => LiveIn[u] \cap LiveIn[s] = {}
    BY <1>1 DEF Lists
  <2> HIDE DEF L1
  <2>2. QED
    BY <1>1, <2>1 DEF Linked
<1> HIDE DEF l1, L1
<1>6. Lists(InsertNode(l1, t, n), L2)
  BY <1>1, <1>4, <1>5, InsertKeepsLists
<1>7. QED
  BY <1>2, <1>3, <1>6

\* The walk is not under way.
LEMMA IdleUpdate ==
  ASSUME LockFree, UNCHANGED upd
  PROVE  InUpdate' /\ Walking'
<1>1. upd' = "idle"
  BY DEF LockFree
<1>2. QED
  BY <1>1 DEF InUpdate, Walking

\* put of a new vip: a free address becomes live and is linked.
LEMMA PutNewInv ==
  ASSUME IInv, NEW v \in Vip, NEW c \in Conn, PutNew(v, c)
  PROVE  IInv'
<1> DEFINE n == Fresh
           d == clock + Expire
           e == [vip |-> v, conn |-> c, t |-> d]
<1>1. n \in Entry /\ heap[n] = "free"
  BY DEF Fresh, PutNew
<1>2. d \in Nat /\ CalcSlot(d) \in Heads /\ e \in [vip : Vip, conn : Conn, t : Nat]
  BY Plus DEF IInv
<1>3. /\ m_dict[v] = Nil /\ LockFree
      /\ entry' = [entry EXCEPT ![n] = e]
      /\ heap' = [heap EXCEPT ![n] = "live"]
      /\ list' = InsertNode(list, CalcSlot(d), n)
      /\ m_dict' = [m_dict EXCEPT ![v] = n]
      /\ ret' = "void" /\ clock' = clock /\ m_last' = m_last /\ upd' = upd /\ now' = now /\ p' = p
      /\ crashed' = crashed
  BY DEF PutNew
<1> HIDE DEF n
<1>4. /\ TypeOK /\ Lists(list, LiveIn) /\ LiveEntries /\ DictOwnsEntries
      /\ m_dict \in [Vip -> Entry \cup {Nil}] /\ heap \in [Entry -> {"free", "live", "leaked"}]
      /\ entry \in [Entry -> [vip : Vip \cup {Nil}, conn : Conn \cup {Nil}, t : Nat \cup {-1}]]
  BY DEF IInv, TypeOK
<1>5. /\ entry'[n] = e /\ \A m \in Entry : m # n => entry'[m] = entry[m]
      /\ heap'[n] = "live" /\ \A m \in Entry : m # n => heap'[m] = heap[m]
      /\ m_dict'[v] = n /\ \A u \in Vip : u # v => m_dict'[u] = m_dict[u]
  BY <1>1, <1>3, <1>4
<1>6. e.vip = v /\ e.t = d
  OBVIOUS
<1> HIDE DEF e
<1>7. Lists(list', LiveIn')
  <2>1. ~Linked(LiveIn, n)
    BY <1>1 DEF Linked, LiveIn
  <2>2. LiveIn' = [LiveIn EXCEPT ![CalcSlot(d)] = @ \cup {n}]
    BY <1>1, <1>3, <1>4, <1>5, <1>6, LiveInNew
  <2> HIDE DEF d
  <2>3. Lists(InsertNode(list, CalcSlot(d), n), [LiveIn EXCEPT ![CalcSlot(d)] = @ \cup {n}])
    BY <1>1, <1>2, <1>4, <2>1, InsertKeepsLists
  <2>4. QED
    BY <1>3, <2>2, <2>3
<1>8. LiveEntries'
  BY <1>2, <1>4, <1>5 DEF LiveEntries
<1>9. Nil # n
  BY <1>1, ListAssumption
<1>10. DictOwnsEntries'
  <2>1. \A u \in Vip : u # v /\ m_dict[u] # Nil => m_dict[u] \in Entry /\ m_dict[u] # n
    BY <1>1, <1>4 DEF DictOwnsEntries
  <2>2. \A u \in Vip : m_dict'[u] # Nil => heap'[m_dict'[u]] = "live" /\ entry'[m_dict'[u]].vip = u
    BY <1>4, <1>5, <1>6, <2>1 DEF DictOwnsEntries
  <2>3. ASSUME NEW m \in Entry, heap'[m] = "live", ~crashed' PROVE m_dict'[entry'[m].vip] = m
    <3>1. CASE m = n
      BY <1>5, <1>6, <3>1
    <3>2. CASE m # n
      <4>1. heap[m] = "live" /\ entry'[m] = entry[m] /\ m_dict[entry[m].vip] = m
        BY <1>3, <1>4, <1>5, <2>3, <3>2 DEF DictOwnsEntries
      <4>2. entry[m].vip \in Vip
        BY <1>4, <4>1 DEF LiveEntries
      <4>3. entry[m].vip # v
        BY <1>3, <4>1, ListAssumption
      <4>4. QED
        BY <1>5, <4>1, <4>2, <4>3
    <3>3. QED
      BY <3>1, <3>2
  <2>4. QED
    BY <2>2, <2>3 DEF DictOwnsEntries
<1>11. TypeOK'
  <2>1. list' \in [prev : [Node -> Node], next : [Node -> Node]]
    BY <1>7 DEF Lists, Links
  <2>2. m_dict' \in [Vip -> Entry \cup {Nil}] /\ heap' \in [Entry -> {"free", "live", "leaked"}]
    BY <1>1, <1>3, <1>4
  <2>3. entry' \in [Entry -> [vip : Vip \cup {Nil}, conn : Conn \cup {Nil}, t : Nat \cup {-1}]]
    <3>1. e \in [vip : Vip \cup {Nil}, conn : Conn \cup {Nil}, t : Nat \cup {-1}]
      BY <1>2 DEF e
    <3>2. QED
      BY <1>1, <1>3, <1>4, <3>1
  <2>4. QED
    BY <1>3, <1>4, <2>1, <2>2, <2>3 DEF TypeOK
<1>12. QED
  BY <1>3, <1>7, <1>8, <1>10, <1>11, IdleUpdate DEF IInv

\* put and get of a known vip.
LEMMA RenewInv ==
  ASSUME IInv, NEW v \in Vip, LockFree, m_dict[v] # Nil,
         NEW e \in [vip : Vip, conn : Conn, t : Nat], e.vip = v, e.t = clock + Expire,
         entry' = [entry EXCEPT ![m_dict[v]] = e], Relink(m_dict[v]),
         ret' \in Conn \cup {"void"},
         UNCHANGED <<clock, m_dict, heap, m_last, upd, now, p, crashed>>
  PROVE  IInv'
<1> DEFINE n == m_dict[v]
<1>1. n \in Entry /\ heap[n] = "live" /\ entry[n].vip = v
  BY KnownIsLive
<1>2. /\ TypeOK /\ LiveEntries /\ DictOwnsEntries
      /\ entry \in [Entry -> [vip : Vip \cup {Nil}, conn : Conn \cup {Nil}, t : Nat \cup {-1}]]
  BY DEF IInv, TypeOK
<1>3. /\ entry'[n] = e /\ \A m \in Entry : m # n => entry'[m] = entry[m]
      /\ heap' = heap /\ m_dict' = m_dict /\ crashed' = crashed
  BY <1>1, <1>2
<1>4. Lists(list', LiveIn')
  BY <1>1, <1>3, RelinkLists
<1> HIDE DEF n
<1>5. LiveEntries'
  BY <1>2, <1>3 DEF LiveEntries
<1>6. \A m \in Entry : entry'[m].vip = entry[m].vip
  BY <1>1, <1>3
<1>7. DictOwnsEntries'
  <2>1. \A u \in Vip : m_dict[u] # Nil => m_dict[u] \in Entry
    BY <1>2 DEF TypeOK
  <2>2. QED
    BY <1>2, <1>3, <1>6, <2>1 DEF DictOwnsEntries
<1>8. TypeOK'
  <2>1. list' \in [prev : [Node -> Node], next : [Node -> Node]]
    BY <1>4 DEF Lists, Links
  <2>2. entry' \in [Entry -> [vip : Vip \cup {Nil}, conn : Conn \cup {Nil}, t : Nat \cup {-1}]]
    <3>1. e \in [vip : Vip \cup {Nil}, conn : Conn \cup {Nil}, t : Nat \cup {-1}]
      OBVIOUS
    <3>2. QED
      BY <1>1, <1>2, <3>1
  <2>3. QED
    BY <1>2, <2>1, <2>2 DEF TypeOK
<1>9. QED
  BY <1>4, <1>5, <1>7, <1>8, IdleUpdate DEF IInv

\* put of a known vip renews its entry,
LEMMA PutKnownInv ==
  ASSUME IInv, NEW v \in Vip, NEW c \in Conn, PutKnown(v, c)
  PROVE  IInv'
<1> DEFINE n == m_dict[v]
           e == [vip |-> v, conn |-> c, t |-> clock + Expire]
<1>1. n # Nil /\ n \in Entry /\ heap[n] = "live" /\ entry[n].vip = v
  BY KnownIsLive DEF PutKnown
<1>2. entry[n] \in [vip : Vip, conn : Conn, t : Nat] /\ clock + Expire \in Nat
      /\ entry \in [Entry -> [vip : Vip \cup {Nil}, conn : Conn \cup {Nil}, t : Nat \cup {-1}]]
  BY <1>1, LiveIsLinked, Plus DEF IInv, TypeOK
<1>3. entry' = [entry EXCEPT ![n] = e]
  <2>1. entry' = [entry EXCEPT ![n].conn = c, ![n].t = clock + Expire]
    BY DEF PutKnown
  <2> HIDE DEF n
  <2>2. entry' = [entry EXCEPT ![n] = [[entry[n] EXCEPT !.conn = c] EXCEPT !.t = clock + Expire]]
    BY <1>1, <1>2, <2>1
  <2>3. [[entry[n] EXCEPT !.conn = c] EXCEPT !.t = clock + Expire] = e
    <3> DEFINE e1 == [entry[n] EXCEPT !.conn = c]
    <3>1. e1 \in [vip : Vip, conn : Conn, t : Nat] /\ e1.vip = v /\ e1.conn = c
      BY <1>1, <1>2
    <3> HIDE DEF e1
    <3>2. [e1 EXCEPT !.t = clock + Expire] = e
      BY <3>1
    <3>3. QED
      BY <3>2 DEF e1
  <2>4. QED
    BY <2>2, <2>3
<1>4. e \in [vip : Vip, conn : Conn, t : Nat] /\ e.vip = v /\ e.t = clock + Expire
  BY <1>2
<1> HIDE DEF e
<1>5. /\ LockFree /\ Relink(n) /\ ret' = "void"
      /\ UNCHANGED <<clock, m_dict, heap, m_last, upd, now, p, crashed>>
  BY DEF PutKnown
<1>6. QED
  BY <1>1, <1>3, <1>4, <1>5, RenewInv

\* and so does get.
LEMMA GetInv ==
  ASSUME IInv, NEW v \in Vip, Get(v)
  PROVE  IInv'
<1> DEFINE n == m_dict[v]
           e == [vip |-> v, conn |-> entry[n].conn, t |-> clock + Expire]
<1>1. n # Nil /\ n \in Entry /\ heap[n] = "live" /\ entry[n].vip = v
  BY KnownIsLive DEF Get
<1>2. entry[n] \in [vip : Vip, conn : Conn, t : Nat] /\ clock + Expire \in Nat
      /\ entry \in [Entry -> [vip : Vip \cup {Nil}, conn : Conn \cup {Nil}, t : Nat \cup {-1}]]
  BY <1>1, LiveIsLinked, Plus DEF IInv, TypeOK
<1>3. entry' = [entry EXCEPT ![n] = e]
  <2>1. entry' = [entry EXCEPT ![n].t = clock + Expire]
    BY DEF Get
  <2> HIDE DEF n
  <2>2. [entry[n] EXCEPT !.t = clock + Expire] = e
    BY <1>1, <1>2
  <2>3. QED
    BY <1>1, <1>2, <2>1, <2>2
<1>4. e \in [vip : Vip, conn : Conn, t : Nat] /\ e.vip = v /\ e.t = clock + Expire
  BY <1>2
<1> HIDE DEF e
<1>5. /\ LockFree /\ Relink(n) /\ ret' \in Conn
      /\ UNCHANGED <<clock, m_dict, heap, m_last, upd, now, p, crashed>>
  BY <1>2 DEF Get
<1>6. QED
  BY <1>1, <1>3, <1>4, <1>5, RenewInv

\* What removing a live entry does, by del or by update().
LEMMA GoneParts ==
  ASSUME IInv, NEW n \in Entry, heap[n] = "live", ~crashed, NEW state \in {"free", "leaked"},
         m_dict' = [m_dict EXCEPT ![entry[n].vip] = Nil], list' = RemoveNode(list, n),
         entry' = [entry EXCEPT ![n] = Blank], heap' = [heap EXCEPT ![n] = state]
  PROVE  /\ Lists(list', LiveIn')
         /\ LiveIn' = [LiveIn EXCEPT ![CalcSlot(entry[n].t)] = @ \ {n}]
         /\ LiveEntries'
         /\ DictOwnsEntries'
         /\ m_dict' \in [Vip -> Entry \cup {Nil}]
         /\ list' \in [prev : [Node -> Node], next : [Node -> Node]]
         /\ entry' \in [Entry -> [vip : Vip \cup {Nil}, conn : Conn \cup {Nil}, t : Nat \cup {-1}]]
         /\ heap' \in [Entry -> {"free", "live", "leaked"}]
<1> DEFINE s == CalcSlot(entry[n].t)
           v == entry[n].vip
<1>1. /\ s \in Heads /\ n \in LiveIn[s] /\ v \in Vip /\ m_dict[v] = n
      /\ Lists(list, LiveIn) /\ LiveEntries /\ DictOwnsEntries
  BY LiveIsLinked DEF IInv, DictOwnsEntries
<1>2. /\ m_dict \in [Vip -> Entry \cup {Nil}] /\ heap \in [Entry -> {"free", "live", "leaked"}]
      /\ entry \in [Entry -> [vip : Vip \cup {Nil}, conn : Conn \cup {Nil}, t : Nat \cup {-1}]]
      /\ Nil \notin Entry
  BY ListAssumption DEF IInv, TypeOK
<1>3. /\ heap'[n] = state /\ state # "live" /\ \A m \in Entry : m # n => heap'[m] = heap[m] /\ entry'[m] = entry[m]
  BY <1>2
<1>4. LiveIn' = [LiveIn EXCEPT ![s] = @ \ {n}]
  BY <1>2, <1>3, LiveInGone
<1> HIDE DEF s
<1>5. Lists(list', LiveIn')
  BY <1>1, <1>4, RemoveKeepsLists
<1>6. LiveEntries'
  BY <1>1, <1>3 DEF LiveEntries
<1> HIDE DEF v
<1>7. m_dict'[v] = Nil /\ \A u \in Vip : u # v => m_dict'[u] = m_dict[u]
  BY <1>1, <1>2 DEF v
<1>8. DictOwnsEntries'
  <2>1. ASSUME NEW u \in Vip, m_dict'[u] # Nil
        PROVE  heap'[m_dict'[u]] = "live" /\ entry'[m_dict'[u]].vip = u
    <3>1. u # v /\ m_dict'[u] = m_dict[u] /\ m_dict[u] \in Entry
      BY <1>2, <1>7, <2>1
    <3>2. heap[m_dict[u]] = "live" /\ entry[m_dict[u]].vip = u
      BY <1>1, <2>1, <3>1 DEF DictOwnsEntries
    <3>3. m_dict[u] # n
      BY <3>1, <3>2 DEF v
    <3>4. QED
      BY <1>3, <3>1, <3>2, <3>3
  <2>2. ASSUME NEW m \in Entry, heap'[m] = "live" PROVE m_dict'[entry'[m].vip] = m
    <3>1. m # n /\ heap[m] = "live" /\ entry'[m] = entry[m]
      BY <1>3, <2>2
    <3>2. entry[m].vip \in Vip /\ m_dict[entry[m].vip] = m
      BY <1>1, <3>1 DEF LiveEntries, DictOwnsEntries
    <3>3. entry[m].vip # v
      BY <1>1, <3>1, <3>2
    <3>4. QED
      BY <1>7, <3>1, <3>2, <3>3
  <2>3. QED
    BY <2>1, <2>2 DEF DictOwnsEntries
<1>9. /\ m_dict' \in [Vip -> Entry \cup {Nil}]
      /\ entry' \in [Entry -> [vip : Vip \cup {Nil}, conn : Conn \cup {Nil}, t : Nat \cup {-1}]]
      /\ heap' \in [Entry -> {"free", "live", "leaked"}]
  BY <1>2 DEF Blank
<1>10. list' \in [prev : [Node -> Node], next : [Node -> Node]]
  BY <1>5 DEF Lists, Links
<1>11. QED
  BY <1>4, <1>5, <1>6, <1>8, <1>9, <1>10 DEF s

\* del unlinks and frees, or takes the process down with the entry linked.
LEMMA DelInv ==
  ASSUME IInv, NEW v \in Vip, Del(v)
  PROVE  IInv'
<1> DEFINE n == m_dict[v]
<1>1. /\ LockFree /\ n # Nil /\ ~crashed /\ m_dict' = [m_dict EXCEPT ![v] = Nil] /\ ret' = "void"
      /\ UNCHANGED <<clock, m_last, upd, now, p>>
  BY DEF Del, LockFree
<1>2. n \in Entry /\ heap[n] = "live" /\ entry[n].vip = v
  BY <1>1, KnownIsLive
<1>3. TypeOK /\ LiveEntries /\ DictOwnsEntries /\ Lists(list, LiveIn)
  BY DEF IInv
<1>4. InUpdate' /\ Walking'
  BY <1>1, IdleUpdate
<1>5. CASE list' = RemoveNode(list, n) /\ entry' = [entry EXCEPT ![n] = Blank]
             /\ heap' = [heap EXCEPT ![n] = "free"] /\ crashed' = FALSE
  <2> HIDE DEF n
  <2>1. m_dict' = [m_dict EXCEPT ![entry[n].vip] = Nil]
    BY <1>1, <1>2
  <2>2. /\ Lists(list', LiveIn') /\ LiveEntries' /\ DictOwnsEntries'
        /\ m_dict' \in [Vip -> Entry \cup {Nil}]
        /\ list' \in [prev : [Node -> Node], next : [Node -> Node]]
        /\ entry' \in [Entry -> [vip : Vip \cup {Nil}, conn : Conn \cup {Nil}, t : Nat \cup {-1}]]
        /\ heap' \in [Entry -> {"free", "live", "leaked"}]
    BY <1>1, <1>2, <1>5, <2>1, GoneParts
  <2>3. TypeOK'
    BY <1>1, <1>3, <1>5, <2>2 DEF TypeOK
  <2>4. QED
    BY <1>4, <2>2, <2>3 DEF IInv
<1>6. CASE crashed' = TRUE /\ UNCHANGED <<list, entry, heap>>
  <2>1. LiveIn' = LiveIn /\ list' = list /\ LiveEntries'
    BY <1>3, <1>6 DEF LiveIn, LiveEntries
  <2>2. m_dict' \in [Vip -> Entry \cup {Nil}]
    BY <1>1, <1>3 DEF TypeOK
  <2>3. TypeOK'
    BY <1>1, <1>3, <1>6, <2>2 DEF TypeOK
  <2>4. DictOwnsEntries'
    <3>1. \A u \in Vip : m_dict'[u] = IF u = v THEN Nil ELSE m_dict[u]
      BY <1>1, <1>3 DEF TypeOK
    <3>2. QED
      BY <1>3, <1>6, <3>1 DEF DictOwnsEntries
  <2>5. QED
    BY <1>3, <1>4, <2>1, <2>3, <2>4 DEF IInv
<1>7. QED
  BY <1>5, <1>6 DEF Del

\* Steps that leave the sessions alone.
LEMMA SameSessions ==
  ASSUME IInv, UNCHANGED <<m_dict, list, entry, heap, crashed>>
  PROVE  LiveIn' = LiveIn /\ Lists(list', LiveIn') /\ LiveEntries' /\ DictOwnsEntries'
<1>1. LiveIn' = LiveIn
  BY DEF LiveIn
<1>2. QED
  BY <1>1 DEF IInv, LiveEntries, DictOwnsEntries

\* The cursor starts behind the head: no entry is before it.
LEMMA SlotBeginInv ==
  ASSUME IInv, SlotBegin
  PROVE  IInv'
<1> DEFINE s == CalcSlot(m_last)
<1>1. /\ upd = "slot" /\ m_last <= now /\ upd' = "walk" /\ p' = list.next[s]
      /\ UNCHANGED <<clock, m_dict, list, entry, heap, m_last, now, ret, crashed>>
  BY DEF SlotBegin
<1>2. TypeOK /\ Lists(list, LiveIn) /\ ~crashed /\ now \in 0..MaxTime /\ m_last \in Nat
  BY <1>1 DEF IInv, InUpdate
<1>3. LiveIn' = LiveIn /\ Lists(list', LiveIn') /\ LiveEntries' /\ DictOwnsEntries'
  BY <1>1, SameSessions
<1>4. s \in Heads /\ s \in Node
  BY <1>2, NodeFacts
<1>5. PICK N, q : Cycle(list.next, s, q, N) /\ On(q, N) = LiveIn[s]
  BY <1>2, <1>4 DEF Lists
<1>6. N \in Nat \ {0} /\ q[1] = list.next[s]
  <2>1. N \in Nat \ {0} /\ q[0] = s /\ \A i \in 0..(N - 1) : list.next[q[i]] = q[i + 1]
    BY <1>5 DEF Cycle
  <2>2. 0 \in 0..(N - 1) /\ 0 + 1 = 1
    BY <2>1
  <2>3. QED
    BY <2>1, <2>2
<1>7. Walking'
  <2>1. /\ Cycle(list'.next, CalcSlot(m_last'), q, N)
        /\ On(q, N) = LiveIn'[CalcSlot(m_last')]
        /\ q[1] = p' /\ \A i \in 1..(1 - 1) : entry'[q[i]].t # m_last'
    BY <1>1, <1>3, <1>5, <1>6
  <2>2. 1 \in 1..N
    BY <1>6
  <2>3. QED
    BY <2>1, <2>2 DEF Walking, OnTheWay
<1>8. TypeOK'
  <2>1. p' \in Node
    BY <1>1, <1>2, <1>4 DEF TypeOK
  <2>2. QED
    BY <1>1, <1>2, <2>1 DEF TypeOK
<1>9. InUpdate'
  BY <1>1, <1>2 DEF InUpdate
<1>10. QED
  BY <1>3, <1>7, <1>8, <1>9 DEF IInv

\* Where the cursor is when it is not on the head.
LEMMA CursorOnList ==
  ASSUME IInv, Visiting
  PROVE  /\ p \in Entry /\ heap[p] = "live" /\ CalcSlot(entry[p].t) = CalcSlot(m_last)
         /\ CalcSlot(m_last) \in Heads
         /\ \E q, N : \E k \in 1..(N - 1) : OnTheWay(q, N, k)
<1>1. upd = "walk" /\ p # CalcSlot(m_last)
  BY DEF Visiting
<1>2. CalcSlot(m_last) \in Heads
  BY <1>1, NodeFacts DEF IInv, InUpdate
<1>3. PICK q, N : \E k \in 1..N : OnTheWay(q, N, k)
  BY <1>1 DEF IInv, Walking
<1>4. PICK k \in 1..N : OnTheWay(q, N, k)
  BY <1>3
<1>5. k \in 1..(N - 1)
  <2>1. N \in Nat /\ q[N] = CalcSlot(m_last) /\ q[k] = p
    BY <1>4 DEF OnTheWay, Cycle
  <2>2. QED
    BY <1>1, <2>1
<1>6. p \in LiveIn[CalcSlot(m_last)]
  BY <1>4, <1>5 DEF OnTheWay, On
<1>7. p \in Entry /\ heap[p] = "live" /\ CalcSlot(entry[p].t) = CalcSlot(m_last)
  BY <1>2, <1>6 DEF LiveIn
<1>8. QED
  BY <1>2, <1>4, <1>5, <1>7

\* The cursor passes an entry that is not due, or drops the one that is; the
\* next node was read before, and the cycle without the entry goes on there.
LEMMA VisitInv ==
  ASSUME IInv, Visit
  PROVE  IInv'
<1> DEFINE s == CalcSlot(m_last)
<1>1. /\ Visiting /\ upd = "walk" /\ p' = list.next[p]
      /\ UNCHANGED <<clock, m_last, upd, now, ret, crashed>>
  BY DEF Visit, Visiting
<1>2. /\ TypeOK /\ Lists(list, LiveIn) /\ ~crashed
      /\ list \in Links /\ Inverse2(list)
  BY <1>1 DEF IInv, InUpdate, Lists
<1>3. p \in Entry /\ heap[p] = "live" /\ CalcSlot(entry[p].t) = s /\ s \in Heads /\ p \in Node /\ s \in Node
  BY <1>1, CursorOnList, NodeFacts
<1>4. PICK q, N : \E k \in 1..(N - 1) : OnTheWay(q, N, k)
  BY <1>1, CursorOnList
<1>5. PICK k \in 1..(N - 1) : OnTheWay(q, N, k)
  BY <1>4
<1>6. /\ Cycle(list.next, s, q, N) /\ On(q, N) = LiveIn[s] /\ q[k] = p
      /\ \A i \in 1..(k - 1) : entry[q[i]].t # m_last
  BY <1>5 DEF OnTheWay
<1>7. /\ N \in Nat \ {0} /\ list.next[q[k]] = q[k + 1]
      /\ \A i, j \in 0..(N - 1) : q[i] = q[j] => i = j
      /\ k \in 1..N /\ k + 1 \in 1..N /\ k \in 0..(N - 1)
  <2>1. /\ N \in Nat \ {0} /\ \A i \in 0..(N - 1) : list.next[q[i]] = q[i + 1]
        /\ \A i, j \in 0..(N - 1) : q[i] = q[j] => i = j
    BY <1>6 DEF Cycle
  <2>2. k \in 1..N /\ k + 1 \in 1..N /\ k \in 0..(N - 1)
    BY <2>1
  <2>3. QED
    BY <2>1, <2>2
<1>8. p' = q[k + 1] /\ p' \in Node
  BY <1>1, <1>2, <1>3, <1>6, <1>7 DEF TypeOK
<1>9. InUpdate'
  BY <1>1 DEF IInv, InUpdate
<1> HIDE DEF s
<1>10. CASE entry[p].t # m_last
  <2>1. UNCHANGED <<m_dict, list, entry, heap>>
    BY <1>10 DEF Visit, Keep
  <2>2. LiveIn' = LiveIn /\ Lists(list', LiveIn') /\ LiveEntries' /\ DictOwnsEntries'
    BY <1>1, <2>1, SameSessions
  <2>3. TypeOK'
    BY <1>1, <1>2, <1>8, <2>1 DEF TypeOK
  <2>4. \A i \in 1..((k + 1) - 1) : entry[q[i]].t # m_last
    <3>1. \A i \in 1..((k + 1) - 1) : i = k \/ i \in 1..(k - 1)
      OBVIOUS
    <3>2. QED
      BY <1>6, <1>10, <3>1
  <2>5. OnTheWay(q, N, k + 1)'
    BY <1>1, <1>6, <1>8, <2>1, <2>2, <2>4 DEF OnTheWay, s
  <2>6. Walking'
    BY <1>7, <2>5 DEF Walking
  <2>7. QED
    BY <1>9, <2>2, <2>3, <2>6 DEF IInv
<1>11. CASE entry[p].t = m_last
  <2>1. Drop(p)
    BY <1>11 DEF Visit
  <2>2. /\ m_dict' = [m_dict EXCEPT ![entry[p].vip] = Nil] /\ list' = RemoveNode(list, p)
        /\ entry' = [entry EXCEPT ![p] = Blank] /\ heap' = [heap EXCEPT ![p] = "leaked"]
    BY <2>1 DEF Drop
  <2>3. /\ Lists(list', LiveIn') /\ LiveIn' = [LiveIn EXCEPT ![s] = @ \ {p}]
        /\ LiveEntries' /\ DictOwnsEntries'
        /\ m_dict' \in [Vip -> Entry \cup {Nil}]
        /\ list' \in [prev : [Node -> Node], next : [Node -> Node]]
        /\ entry' \in [Entry -> [vip : Vip \cup {Nil}, conn : Conn \cup {Nil}, t : Nat \cup {-1}]]
        /\ heap' \in [Entry -> {"free", "live", "leaked"}]
    BY <1>2, <1>3, <2>2, GoneParts
  <2>4. TypeOK'
    BY <1>1, <1>2, <1>8, <2>3 DEF TypeOK
  <2>5. Cycle(list'.next, s, Without(q, N, k), N - 1) /\ On(Without(q, N, k), N - 1) = On(q, N) \ {p}
    BY <1>2, <1>3, <1>6, <2>2, RemoveAt
  <2>6. On(Without(q, N, k), N - 1) = LiveIn'[s]
    <3>1. LiveIn'[s] = LiveIn[s] \ {p}
      BY <1>3, <2>3 DEF LiveIn
    <3>2. QED
      BY <1>6, <2>5, <3>1
  <2>7. Without(q, N, k)[k] = p' /\ k \in 1..(N - 1)
    <3>1. k \in 0..(N - 1) /\ ~(k < k)
      BY <1>7
    <3>2. QED
      BY <1>8, <3>1 DEF Without
  <2>8. ASSUME NEW i \in 1..(k - 1) PROVE entry'[Without(q, N, k)[i]].t # m_last
    <3>1. i \in 0..(N - 1) /\ i < k /\ i # k /\ i \in 1..(N - 1)
      BY <1>7
    <3>2. Without(q, N, k)[i] = q[i]
      BY <3>1 DEF Without
    <3>3. q[i] # p /\ q[i] \in LiveIn[s]
      BY <1>6, <1>7, <3>1 DEF On
    <3>4. q[i] \in Entry
      BY <1>3, <3>3 DEF LiveIn
    <3>5. entry'[q[i]] = entry[q[i]]
      BY <1>2, <2>2, <3>3, <3>4 DEF TypeOK
    <3>6. QED
      BY <1>6, <3>2, <3>5
  <2>9. OnTheWay(Without(q, N, k), N - 1, k)'
    BY <1>1, <2>5, <2>6, <2>7, <2>8 DEF OnTheWay, s
  <2>10. Walking'
    BY <2>7, <2>9 DEF Walking
  <2>11. QED
    BY <1>9, <2>3, <2>4, <2>10 DEF IInv
<1>12. QED
  BY <1>10, <1>11

\* Every list is its head alone.
LEMMA InitInv == Init => IInv
<1> SUFFICES ASSUME Init PROVE IInv
  OBVIOUS
<1>1. /\ list.next = [n \in Node |-> n] /\ list.prev = [n \in Node |-> n] /\ list \in Links
      /\ heap = [n \in Entry |-> "free"] /\ entry = [n \in Entry |-> Blank]
      /\ m_dict = [v \in Vip |-> Nil] /\ clock = 0 /\ m_last = -1 /\ upd = "idle"
      /\ now = -1 /\ p = -1 /\ ret = "void" /\ crashed = FALSE
  BY DEF Init, Links
<1>2. \A n \in Entry : heap[n] # "live"
  BY <1>1
<1>3. \A s \in Heads : LiveIn[s] = {}
  BY <1>2 DEF LiveIn
<1>4. LiveIn \in [Heads -> SUBSET Entry]
  BY DEF LiveIn
<1> HIDE DEF LiveIn
<1>5. ASSUME NEW s \in Heads
      PROVE  \E N, q : Cycle(list.next, s, q, N) /\ On(q, N) = LiveIn[s]
  <2> DEFINE q == [i \in 0..1 |-> s]
  <2>1. s \in Node
    BY NodeFacts
  <2>2. \A i \in 0..(1 - 1) : i = 0 /\ i + 1 = 1
    OBVIOUS
  <2>3. q \in [0..1 -> Node] /\ q[0] = s /\ q[1] = s
    BY <2>1
  <2> HIDE DEF q
  <2>4. list.next[s] = s
    BY <1>1, <2>1
  <2>5. Cycle(list.next, s, q, 1)
    BY <2>2, <2>3, <2>4 DEF Cycle
  <2>6. On(q, 1) = {}
    BY DEF On
  <2>7. QED
    BY <1>3, <2>5, <2>6
<1>6. Lists(list, LiveIn)
  <2>1. Inverse2(list)
    BY <1>1 DEF Inverse2
  <2>2. \A m \in Entry : list.next[m] = m /\ list.prev[m] = m
    BY <1>1, NodeFacts
  <2>3. QED
    BY <1>1, <1>3, <1>4, <1>5, <2>1, <2>2 DEF Lists
<1>7. TypeOK
  <2>1. /\ clock \in 0..MaxTime /\ m_last \in -1..(MaxTime + 1) /\ now \in -1..MaxTime
        /\ -1 \in Nat \cup {-1}
    BY <1>1, ListAssumption
  <2>2. /\ m_dict \in [Vip -> Entry \cup {Nil}] /\ heap \in [Entry -> {"free", "live", "leaked"}]
        /\ entry \in [Entry -> [vip : Vip \cup {Nil}, conn : Conn \cup {Nil}, t : Nat \cup {-1}]]
    BY <1>1, <2>1 DEF Blank
  <2>3. QED
    BY <1>1, <2>1, <2>2 DEF TypeOK, Links
<1>8. DictOwnsEntries /\ LiveEntries
  BY <1>1, <1>2 DEF DictOwnsEntries, LiveEntries
<1>9. InUpdate /\ Walking
  BY <1>1 DEF InUpdate, Walking
<1>10. QED
  BY <1>6, <1>7, <1>8, <1>9 DEF IInv

\* The steps that only move the clock or the sweep, or only answer.
LEMMA OtherInv ==
  ASSUME IInv, Tick \/ (\E v \in Vip : Has(v) \/ Miss(v)) \/ UpdateBegin \/ SlotEnd \/ UpdateEnd
  PROVE  IInv'
<1>1. UNCHANGED <<m_dict, list, entry, heap, crashed>>
  BY DEF Tick, Has, Miss, UpdateBegin, SlotEnd, UpdateEnd
<1>2. LiveIn' = LiveIn /\ Lists(list', LiveIn') /\ LiveEntries' /\ DictOwnsEntries'
  BY <1>1, SameSessions
<1>3. TypeOK /\ InUpdate /\ Walking
  BY DEF IInv
<1>4. SUFFICES TypeOK' /\ InUpdate' /\ Walking'
  BY <1>2 DEF IInv
<1>5. CASE Tick
  <2>1. /\ clock' = clock + 1 /\ clock < MaxTime
        /\ UNCHANGED <<m_dict, list, entry, heap, m_last, upd, now, p, ret, crashed>>
    BY <1>5 DEF Tick
  <2>2. clock' \in 0..MaxTime
    BY <1>3, <2>1, ListAssumption DEF TypeOK
  <2>3. TypeOK'
    BY <1>3, <2>1, <2>2 DEF TypeOK
  <2>4. InUpdate'
    BY <1>3, <2>1 DEF InUpdate
  <2>5. Walking'
    BY <1>2, <1>3, <2>1 DEF Walking, OnTheWay
  <2>6. QED
    BY <2>3, <2>4, <2>5
<1>6. CASE \E v \in Vip : Has(v) \/ Miss(v)
  <2>1. /\ LockFree /\ ret' \in {"found", "not_found"}
        /\ UNCHANGED <<clock, m_dict, list, entry, heap, m_last, upd, now, p, crashed>>
    BY <1>6 DEF Has, Miss
  <2>2. TypeOK'
    BY <1>3, <2>1 DEF TypeOK
  <2>3. QED
    BY <2>1, <2>2, IdleUpdate
<1>7. CASE UpdateBegin
  <2>1. /\ ~crashed /\ upd' = "slot" /\ now' = clock
        /\ m_last' = IF m_last < 0 THEN clock ELSE m_last
        /\ UNCHANGED <<clock, m_dict, list, entry, heap, p, ret, crashed>>
    BY <1>7 DEF UpdateBegin, LockFree
  <2>2. /\ clock \in 0..MaxTime /\ m_last \in -1..(MaxTime + 1) /\ MaxTime \in Nat
    BY <1>3, ListAssumption DEF TypeOK
  <2>3. now' \in 0..MaxTime /\ now' \in -1..MaxTime /\ m_last' \in Nat /\ m_last' \in -1..(MaxTime + 1)
    BY <2>1, <2>2
  <2>4. TypeOK'
    BY <1>3, <2>1, <2>3 DEF TypeOK
  <2>5. InUpdate'
    BY <2>1, <2>3 DEF InUpdate
  <2>6. Walking'
    BY <2>1 DEF Walking
  <2>7. QED
    BY <2>4, <2>5, <2>6
<1>8. CASE SlotEnd
  <2>1. /\ upd = "walk" /\ m_last' = m_last + 1 /\ upd' = "slot" /\ p' = -1
        /\ UNCHANGED <<clock, m_dict, list, entry, heap, now, ret, crashed>>
    BY <1>8 DEF SlotEnd
  <2>2. now \in 0..MaxTime /\ m_last \in Nat /\ m_last <= now /\ ~crashed /\ MaxTime \in Nat
    BY <1>3, <2>1, ListAssumption DEF InUpdate
  <2>3. m_last' \in Nat /\ m_last' \in -1..(MaxTime + 1)
    BY <2>1, <2>2
  <2>4. TypeOK'
    BY <1>3, <2>1, <2>3 DEF TypeOK
  <2>5. InUpdate' /\ Walking'
    BY <2>1, <2>2, <2>3 DEF InUpdate, Walking
  <2>6. QED
    BY <2>4, <2>5
<1>9. CASE UpdateEnd
  <2>1. /\ upd' = "idle" /\ now' = -1
        /\ UNCHANGED <<clock, m_dict, list, entry, heap, m_last, p, ret, crashed>>
    BY <1>9 DEF UpdateEnd
  <2>2. now' \in -1..MaxTime
    BY <2>1, ListAssumption
  <2>3. TypeOK'
    BY <1>3, <2>1, <2>2 DEF TypeOK
  <2>4. InUpdate' /\ Walking'
    BY <2>1 DEF InUpdate, Walking
  <2>5. QED
    BY <2>3, <2>4
<1>10. QED
  BY <1>5, <1>6, <1>7, <1>8, <1>9

\* Every step keeps the invariant.
LEMMA StepInv == IInv /\ [Next]_vars => IInv'
<1> SUFFICES ASSUME IInv, [Next]_vars PROVE IInv'
  OBVIOUS
<1>1. CASE Tick \/ (\E v \in Vip : Has(v) \/ Miss(v)) \/ UpdateBegin \/ SlotEnd \/ UpdateEnd
  BY <1>1, OtherInv
<1>2. ASSUME NEW v \in Vip, NEW c \in Conn, PutNew(v, c) PROVE IInv'
  BY <1>2, PutNewInv
<1>3. ASSUME NEW v \in Vip, NEW c \in Conn, PutKnown(v, c) PROVE IInv'
  BY <1>3, PutKnownInv
<1>4. ASSUME NEW v \in Vip, Get(v) PROVE IInv'
  BY <1>4, GetInv
<1>5. ASSUME NEW v \in Vip, Del(v) PROVE IInv'
  BY <1>5, DelInv
<1>6. CASE SlotBegin
  BY <1>6, SlotBeginInv
<1>7. CASE Visit
  BY <1>7, VisitInv
<1>8. CASE UNCHANGED vars
  <2>1. UNCHANGED <<clock, m_dict, list, entry, heap, m_last, upd, now, p, ret, crashed>>
    BY <1>8 DEF vars
  <2>2. LiveIn' = LiveIn /\ Lists(list', LiveIn') /\ LiveEntries' /\ DictOwnsEntries'
    BY <2>1, SameSessions
  <2>3. TypeOK' /\ InUpdate' /\ Walking'
    BY <2>1, <2>2 DEF IInv, TypeOK, InUpdate, Walking, OnTheWay
  <2>4. QED
    BY <2>2, <2>3 DEF IInv
<1>9. QED
  BY <1>1, <1>2, <1>3, <1>4, <1>5, <1>6, <1>7, <1>8 DEF Next, Update

(* Every state the program reaches satisfies the invariant: the lists are  *)
(* whole cycles of the live entries of their slots whatever put, get, del  *)
(* and update() did, in whatever order.                                    *)
THEOREM ListInvariant == Spec => []IInv
<1>1. QED
  BY InitInv, StepInv, PTL DEF Spec

-----------------------------------------------------------------------------
(* The properties the runs check *)

\* The list of slot s, met from its head, is the live entries of that slot.
LEMMA RingIsLive ==
  ASSUME IInv, NEW s \in Heads
  PROVE  Ring(s) = {n \in Entry : heap[n] = "live" /\ CalcSlot(entry[n].t) = s}
<1>1. Lists(list, LiveIn)
  BY DEF IInv
<1>2. Ring(s) = LiveIn[s]
  BY <1>1, RingFindsList
<1>3. QED
  BY <1>2 DEF LiveIn

(* insert_node and remove_node lose no neighbour: the lists stay circular, *)
(* doubly linked, and hold exactly the live entries of their slot.         *)
THEOREM ListsStayWhole == Spec => []ListsOK
<1>1. IInv => ListsOK
  <2> SUFFICES ASSUME IInv PROVE ListsOK
    OBVIOUS
  <2>1. TypeOK /\ Inverse2(list)
    BY DEF IInv, Lists
  <2>2. QED
    BY <2>1, RingIsLive DEF ListsOK, Inverse2
<1>2. QED
  BY <1>1, ListInvariant, PTL

(* m_dict points to no entry that del deleted or update() dropped, and     *)
(* reaches every entry that is linked.                                     *)
THEOREM DictStaysExact == Spec => []DictOwnsEntries
<1>1. IInv => DictOwnsEntries
  BY DEF IInv
<1>2. QED
  BY <1>1, ListInvariant, PTL

(* update() reads the next node before it unlinks the current one, so its  *)
(* cursor never stands on a node outside the list under way.               *)
THEOREM CursorStaysSafe == Spec => []CursorSafe
<1>1. IInv => CursorSafe
  <2> SUFFICES ASSUME IInv, upd = "walk", p # CalcSlot(m_last)
               PROVE  p \in Ring(CalcSlot(m_last))
    BY DEF CursorSafe
  <2>1. Visiting
    BY DEF Visiting
  <2>2. /\ p \in Entry /\ heap[p] = "live" /\ CalcSlot(entry[p].t) = CalcSlot(m_last)
        /\ CalcSlot(m_last) \in Heads
    BY <2>1, CursorOnList
  <2>3. QED
    BY <2>2, RingIsLive
<1>2. QED
  BY <1>1, ListInvariant, PTL

-----------------------------------------------------------------------------
(* The lists implement the wheel of sets *)

\* The wheel is known from the dictionary.
WheelIndex ==
  /\ AbsWheel \in [Heads -> SUBSET Vip]
  /\ \A v \in Vip, s \in Heads :
       v \in AbsWheel[s] <=> AbsDict[v] # Absent /\ CalcSlot(AbsDict[v].t) = s

\* What the dictionary means for a vip it holds.
LEMMA AbsKnown ==
  ASSUME IInv, NEW v \in Vip
  PROVE  /\ m_dict[v] = Nil <=> AbsDict[v] = Absent
         /\ m_dict[v] # Nil => /\ AbsDict[v] = [conn |-> entry[m_dict[v]].conn, t |-> entry[m_dict[v]].t]
                               /\ AbsDict[v] \in [conn : Conn, t : Nat]
<1>1. ASSUME m_dict[v] # Nil
      PROVE  [conn |-> entry[m_dict[v]].conn, t |-> entry[m_dict[v]].t] \in [conn : Conn, t : Nat]
  <2>1. entry[m_dict[v]] \in [vip : Vip, conn : Conn, t : Nat]
    BY <1>1, KnownIsLive, LiveIsLinked
  <2>2. QED
    BY <2>1
<1>2. QED
  BY <1>1, ListAssumption DEF AbsDict

\* Each vip of the dictionary is in the set of its slot and in no other,
LEMMA WheelFromDict == IInv /\ ~crashed => WheelIndex
<1> SUFFICES ASSUME IInv, ~crashed PROVE WheelIndex
  OBVIOUS
<1>1. ASSUME NEW s \in Heads PROVE AbsWheel[s] = {entry[n].vip : n \in Ring(s)}
  BY <1>1 DEF AbsWheel
<1>2. ASSUME NEW s \in Heads, NEW n \in Ring(s)
      PROVE  /\ n \in Entry /\ heap[n] = "live" /\ CalcSlot(entry[n].t) = s
             /\ entry[n].vip \in Vip /\ m_dict[entry[n].vip] = n /\ n # Nil
  <2>1. n \in Entry /\ heap[n] = "live" /\ CalcSlot(entry[n].t) = s
    BY RingIsLive
  <2>2. entry[n].vip \in Vip /\ m_dict[entry[n].vip] = n /\ n # Nil
    BY <2>1, LiveIsLinked, ListAssumption DEF IInv, DictOwnsEntries
  <2>3. QED
    BY <2>1, <2>2
<1>3. ASSUME NEW v \in Vip, NEW s \in Heads, v \in AbsWheel[s]
      PROVE  AbsDict[v] # Absent /\ CalcSlot(AbsDict[v].t) = s
  <2>1. PICK n \in Ring(s) : v = entry[n].vip
    BY <1>1, <1>3
  <2>2. m_dict[v] = n /\ n # Nil /\ CalcSlot(entry[n].t) = s
    BY <1>2, <2>1
  <2>3. AbsDict[v] # Absent /\ AbsDict[v] = [conn |-> entry[n].conn, t |-> entry[n].t]
    BY <2>2, AbsKnown
  <2>4. QED
    BY <2>2, <2>3
<1>4. ASSUME NEW v \in Vip, NEW s \in Heads, AbsDict[v] # Absent, CalcSlot(AbsDict[v].t) = s
      PROVE  v \in AbsWheel[s]
  <2>1. m_dict[v] # Nil /\ AbsDict[v] = [conn |-> entry[m_dict[v]].conn, t |-> entry[m_dict[v]].t]
    BY <1>4, AbsKnown
  <2>2. m_dict[v] \in Entry /\ heap[m_dict[v]] = "live" /\ entry[m_dict[v]].vip = v
    BY <2>1, KnownIsLive
  <2>3. CalcSlot(entry[m_dict[v]].t) = s
    BY <1>4, <2>1
  <2>4. m_dict[v] \in Ring(s)
    BY <2>2, <2>3, RingIsLive
  <2>5. QED
    BY <1>1, <2>2, <2>4
<1>5. AbsWheel \in [Heads -> SUBSET Vip]
  <2>1. \A s \in Heads : AbsWheel[s] \subseteq Vip
    BY <1>1, <1>2
  <2>2. AbsWheel = [s \in Heads |-> AbsWheel[s]]
    BY DEF AbsWheel
  <2> HIDE DEF AbsWheel
  <2>3. QED
    BY <2>1, <2>2
<1>6. QED
  BY <1>3, <1>4, <1>5 DEF WheelIndex

\* after a step as before it.
LEMMA WheelFromDictNext == (IInv /\ ~crashed => WheelIndex)'
BY WheelFromDict, PTL

\* The abstract dictionary and wheel are functions.
LEMMA AbsFunctions ==
  /\ AbsDict = [v \in Vip |-> AbsDict[v]] /\ AbsWheel = [s \in Heads |-> AbsWheel[s]]
  /\ AbsDict' = [v \in Vip |-> AbsDict'[v]] /\ AbsWheel' = [s \in Heads |-> AbsWheel'[s]]
BY DEF AbsDict, AbsWheel

\* The wheel W with v in slot s, and the wheel without v.
Gained(W, s, v) == [W EXCEPT ![s] = @ \cup {v}]
Dropped(v) == [s \in Heads |-> AbsWheel[s] \ {v}]

\* A session is put or renewed: the set of its new slot gains it.
LEMMA WheelSet ==
  ASSUME WheelIndex, WheelIndex', NEW v \in Vip, NEW c, NEW t \in Nat,
         [conn |-> c, t |-> t] # Absent,
         AbsDict' = [AbsDict EXCEPT ![v] = [conn |-> c, t |-> t]]
  PROVE  /\ AbsWheel' = Gained(Dropped(v), CalcSlot(t), v)
         /\ AbsDict[v] = Absent => AbsWheel' = Gained(AbsWheel, CalcSlot(t), v)
<1> DEFINE W1 == [s \in Heads |-> AbsWheel[s] \ {v}]
           W2 == [W1 EXCEPT ![CalcSlot(t)] = @ \cup {v}]
           W3 == [AbsWheel EXCEPT ![CalcSlot(t)] = @ \cup {v}]
<1>1. /\ AbsWheel \in [Heads -> SUBSET Vip] /\ AbsWheel' \in [Heads -> SUBSET Vip]
      /\ CalcSlot(t) \in Heads
  BY NodeFacts DEF WheelIndex
<1>2. AbsDict'[v] # Absent /\ AbsDict'[v].t = t /\ \A u \in Vip : u # v => AbsDict'[u] = AbsDict[u]
  <2>1. v \in DOMAIN AbsDict
    BY DEF AbsDict
  <2> HIDE DEF AbsDict
  <2>2. AbsDict'[v] = [conn |-> c, t |-> t]
    BY <2>1, AbsFunctions
  <2>3. QED
    BY <2>2, AbsFunctions
<1>3. ASSUME NEW s \in Heads, NEW u \in Vip
      PROVE  u \in AbsWheel'[s] <=> IF u = v THEN s = CalcSlot(t) ELSE u \in AbsWheel[s]
  BY <1>2 DEF WheelIndex
<1>4. ASSUME NEW s \in Heads
      PROVE  /\ W2[s] = IF s = CalcSlot(t) THEN (AbsWheel[s] \ {v}) \cup {v} ELSE AbsWheel[s] \ {v}
             /\ W3[s] = IF s = CalcSlot(t) THEN AbsWheel[s] \cup {v} ELSE AbsWheel[s]
  BY <1>1
<1>5. W2 \in [Heads -> SUBSET Vip] /\ W3 \in [Heads -> SUBSET Vip]
  BY <1>1
<1> HIDE DEF W2, W3
<1>6. AbsWheel' = W2
  <2>1. ASSUME NEW s \in Heads PROVE AbsWheel'[s] = W2[s]
    <3>1. AbsWheel'[s] \subseteq Vip /\ W2[s] \subseteq Vip
      BY <1>1, <1>5
    <3>2. \A u \in Vip : u \in AbsWheel'[s] <=> u \in W2[s]
      BY <1>3, <1>4
    <3>3. QED
      BY <3>1, <3>2
  <2>2. QED
    BY <1>1, <1>5, <2>1
<1>7. ASSUME AbsDict[v] = Absent PROVE AbsWheel' = W3
  <2>1. ASSUME NEW s \in Heads PROVE AbsWheel'[s] = W3[s]
    <3>1. AbsWheel'[s] \subseteq Vip /\ W3[s] \subseteq Vip
      BY <1>1, <1>5
    <3>2. v \notin AbsWheel[s]
      BY <1>7 DEF WheelIndex
    <3>3. \A u \in Vip : u \in AbsWheel'[s] <=> u \in W3[s]
      BY <1>3, <1>4, <3>2
    <3>4. QED
      BY <3>1, <3>3
  <2>2. QED
    BY <1>1, <1>5, <2>1
<1>8. QED
  BY <1>6, <1>7 DEF W2, W3, Gained, Dropped

\* A session is gone: every slot loses it.
LEMMA WheelGone ==
  ASSUME WheelIndex, WheelIndex', NEW v \in Vip, AbsDict' = [AbsDict EXCEPT ![v] = Absent]
  PROVE  AbsWheel' = [s \in Heads |-> AbsWheel[s] \ {v}]
<1>1. AbsWheel \in [Heads -> SUBSET Vip] /\ AbsWheel' \in [Heads -> SUBSET Vip]
  BY DEF WheelIndex
<1>2. AbsDict'[v] = Absent /\ \A u \in Vip : u # v => AbsDict'[u] = AbsDict[u]
  <2>1. v \in DOMAIN AbsDict
    BY DEF AbsDict
  <2> HIDE DEF AbsDict
  <2>2. QED
    BY <2>1, AbsFunctions
<1>3. ASSUME NEW s \in Heads PROVE AbsWheel'[s] = AbsWheel[s] \ {v}
  <2>1. AbsWheel'[s] \subseteq Vip /\ AbsWheel[s] \subseteq Vip
    BY <1>1
  <2>2. \A u \in Vip : u \in AbsWheel'[s] <=> u \in AbsWheel[s] \ {v}
    BY <1>2 DEF WheelIndex
  <2>3. QED
    BY <2>1, <2>2
<1>4. QED
  BY <1>1, <1>3

\* One session is set in the abstract dictionary,
LEMMA AbsDictSet ==
  ASSUME NEW v \in Vip, NEW n \in Entry, n # Nil, m_dict \in [Vip -> Entry \cup {Nil}],
         m_dict'[v] = n, \A u \in Vip : u # v => m_dict'[u] = m_dict[u] /\ m_dict[u] # n,
         \A m \in Entry : m # n => entry'[m] = entry[m]
  PROVE  AbsDict' = [AbsDict EXCEPT ![v] = [conn |-> entry'[n].conn, t |-> entry'[n].t]]
<1> DEFINE D == [AbsDict EXCEPT ![v] = [conn |-> entry'[n].conn, t |-> entry'[n].t]]
<1>1. ASSUME NEW u \in Vip, u # v PROVE AbsDict'[u] = AbsDict[u]
  <2>1. m_dict'[u] = m_dict[u] /\ (m_dict[u] # Nil => entry'[m_dict[u]] = entry[m_dict[u]])
    BY <1>1
  <2>2. QED
    BY <2>1 DEF AbsDict
<1>2. AbsDict'[v] = [conn |-> entry'[n].conn, t |-> entry'[n].t]
  BY DEF AbsDict
<1>3. v \in DOMAIN AbsDict /\ DOMAIN AbsDict = Vip
  BY DEF AbsDict
<1> HIDE DEF AbsDict
<1>4. QED
  BY <1>1, <1>2, <1>3, AbsFunctions

\* or one is gone from it.
LEMMA AbsDictGone ==
  ASSUME NEW v \in Vip, m_dict'[v] = Nil,
         \A u \in Vip : u # v => /\ m_dict'[u] = m_dict[u]
                                 /\ m_dict[u] # Nil => entry'[m_dict[u]] = entry[m_dict[u]]
  PROVE  AbsDict' = [AbsDict EXCEPT ![v] = Absent]
<1>1. ASSUME NEW u \in Vip, u # v PROVE AbsDict'[u] = AbsDict[u]
  BY <1>1 DEF AbsDict
<1>2. AbsDict'[v] = Absent
  BY DEF AbsDict
<1>3. v \in DOMAIN AbsDict /\ DOMAIN AbsDict = Vip
  BY DEF AbsDict
<1>4. QED
  BY <1>1, <1>2, <1>3, AbsFunctions

\* Steps that leave the sessions alone leave the abstract ones alone.
LEMMA AbsSame ==
  ASSUME UNCHANGED <<m_dict, list, entry>>
  PROVE  AbsDict' = AbsDict /\ AbsWheel' = AbsWheel
<1>1. \A s \in Heads : Ring(s)' = Ring(s)
  BY DEF Ring
<1>2. AbsDict' = AbsDict
  BY DEF AbsDict
<1>3. AbsWheel' = AbsWheel
  BY <1>1 DEF AbsWheel
<1>4. QED
  BY <1>2, <1>3

\* put of a new vip or of a known one is put on the wheel of sets;
LEMMA PutMaps ==
  ASSUME IInv, IInv', NEW v \in Vip, NEW c \in Conn, PutNew(v, c) \/ PutKnown(v, c)
  PROVE  Mgr!Put(v, c)
<1> DEFINE t == clock + Expire
           n == m_dict'[v]
<1>1. /\ LockFree /\ ret' = "void" /\ crashed' = crashed /\ ~crashed
      /\ UNCHANGED <<clock, m_last, upd, now, p, crashed>>
  BY DEF PutNew, PutKnown, LockFree
<1>2. WheelIndex /\ WheelIndex' /\ t \in Nat
  BY <1>1, WheelFromDict, WheelFromDictNext, Plus DEF IInv
<1>3. /\ m_dict \in [Vip -> Entry \cup {Nil}] /\ Nil \notin Entry
      /\ entry \in [Entry -> [vip : Vip \cup {Nil}, conn : Conn \cup {Nil}, t : Nat \cup {-1}]]
      /\ DictOwnsEntries
  BY ListAssumption DEF IInv, TypeOK
<1>4. /\ n \in Entry /\ entry'[n].conn = c /\ entry'[n].t = t
      /\ \A u \in Vip : u # v => m_dict'[u] = m_dict[u] /\ m_dict[u] # n
      /\ \A m \in Entry : m # n => entry'[m] = entry[m]
  <2>1. CASE PutNew(v, c)
    <3>1. /\ \E m \in Entry : heap[m] = "free"
          /\ m_dict' = [m_dict EXCEPT ![v] = Fresh]
          /\ entry' = [entry EXCEPT ![Fresh] = [vip |-> v, conn |-> c, t |-> t]]
      BY <2>1 DEF PutNew
    <3>2. Fresh \in Entry /\ heap[Fresh] = "free"
      BY <3>1 DEF Fresh
    <3> HIDE DEF t
    <3>3. n = Fresh
      BY <1>3, <3>1
    <3>4. \A u \in Vip : m_dict[u] # Fresh
      BY <1>3, <3>2 DEF DictOwnsEntries
    <3> HIDE DEF n
    <3>5. QED
      BY <1>3, <3>1, <3>2, <3>3, <3>4 DEF n
  <2>2. CASE PutKnown(v, c)
    <3>1. /\ m_dict[v] # Nil /\ m_dict' = m_dict
          /\ entry' = [entry EXCEPT ![m_dict[v]].conn = c, ![m_dict[v]].t = t]
      BY <2>2 DEF PutKnown
    <3>2. n = m_dict[v] /\ n \in Entry /\ entry[n].vip = v
      BY <3>1, KnownIsLive
    <3>3. \A u \in Vip : u # v => m_dict[u] # n
      BY <1>3, <3>2 DEF DictOwnsEntries
    <3>4. entry[n] \in [vip : Vip \cup {Nil}, conn : Conn \cup {Nil}, t : Nat \cup {-1}]
      BY <1>3, <3>2
    <3> HIDE DEF n, t
    <3>5. entry' = [entry EXCEPT ![n].conn = c, ![n].t = t]
      BY <3>1, <3>2
    <3>6. entry'[n].conn = c /\ entry'[n].t = t /\ \A m \in Entry : m # n => entry'[m] = entry[m]
      BY <1>3, <3>2, <3>4, <3>5
    <3>7. QED
      BY <3>1, <3>2, <3>3, <3>6
  <2>3. QED
    BY <2>1, <2>2
<1> HIDE DEF n, t
<1>5. AbsDict' = [AbsDict EXCEPT ![v] = [conn |-> c, t |-> t]]
  <2>1. AbsDict' = [AbsDict EXCEPT ![v] = [conn |-> entry'[n].conn, t |-> entry'[n].t]]
    <3>1. n # Nil /\ m_dict'[v] = n
      BY <1>3, <1>4 DEF n
    <3>2. QED
      BY <1>3, <1>4, <3>1, AbsDictSet
  <2>2. QED
    BY <1>4, <2>1
<1>6. [conn |-> c, t |-> t] # Absent
  BY <1>2, ListAssumption
<1>7. /\ AbsWheel' = Gained(Dropped(v), CalcSlot(t), v)
      /\ AbsDict[v] = Absent => AbsWheel' = Gained(AbsWheel, CalcSlot(t), v)
  BY <1>2, <1>5, <1>6, WheelSet
<1>8. QED
  BY <1>1, <1>5, <1>7 DEF Mgr!Put, Mgr!LockFree, Mgr!Insert, Mgr!Remove, Mgr!Slot, Mgr!CalcSlot,
     LockFree, Heads, CalcSlot, t, Gained, Dropped

\* get is get,
LEMMA GetMaps ==
  ASSUME IInv, IInv', NEW v \in Vip, Get(v)
  PROVE  Mgr!Get(v)
<1> DEFINE t == clock + Expire
           n == m_dict[v]
           c == entry[n].conn
<1>1. /\ LockFree /\ n # Nil /\ ~crashed /\ m_dict' = m_dict /\ ret' = c
      /\ entry' = [entry EXCEPT ![n].t = t]
      /\ UNCHANGED <<clock, m_last, upd, now, p, crashed>>
  BY DEF Get, LockFree
<1>2. WheelIndex /\ WheelIndex' /\ t \in Nat
  BY <1>1, WheelFromDict, WheelFromDictNext, Plus DEF IInv
<1>3. /\ m_dict \in [Vip -> Entry \cup {Nil}] /\ Nil \notin Entry /\ DictOwnsEntries
      /\ entry \in [Entry -> [vip : Vip \cup {Nil}, conn : Conn \cup {Nil}, t : Nat \cup {-1}]]
  BY ListAssumption DEF IInv, TypeOK
<1>4. /\ n \in Entry /\ entry[n].vip = v /\ \A u \in Vip : u # v => m_dict[u] # n
  BY <1>1, <1>3, KnownIsLive DEF DictOwnsEntries
<1>5. AbsDict[v] = [conn |-> c, t |-> entry[n].t] /\ AbsDict[v] # Absent
      /\ AbsDict[v] \in [conn : Conn, t : Nat]
  BY <1>1, AbsKnown
<1>6. entry[n] \in [vip : Vip \cup {Nil}, conn : Conn \cup {Nil}, t : Nat \cup {-1}]
  BY <1>3, <1>4
<1> HIDE DEF t, n
<1>7. entry'[n].conn = c /\ entry'[n].t = t /\ \A m \in Entry : m # n => entry'[m] = entry[m]
  BY <1>1, <1>3, <1>4, <1>6
<1> HIDE DEF c
<1>8. AbsDict' = [AbsDict EXCEPT ![v] = [conn |-> c, t |-> t]]
  <2>1. AbsDict' = [AbsDict EXCEPT ![v] = [conn |-> entry'[n].conn, t |-> entry'[n].t]]
    <3>1. m_dict'[v] = n
      BY <1>1 DEF n
    <3>2. \A u \in Vip : u # v => m_dict'[u] = m_dict[u] /\ m_dict[u] # n
      BY <1>1, <1>4
    <3>3. QED
      BY <1>1, <1>3, <1>4, <1>7, <3>1, <3>2, AbsDictSet
  <2>2. QED
    BY <1>7, <2>1
<1>9. [conn |-> c, t |-> t] # Absent
  <2>1. c \in Conn
    BY <1>5
  <2>2. QED
    BY <1>2, <2>1, ListAssumption
<1>10. AbsWheel' = Gained(Dropped(v), CalcSlot(t), v)
  BY <1>2, <1>8, <1>9, WheelSet
<1>11. [AbsDict EXCEPT ![v].t = t] = [AbsDict EXCEPT ![v] = [conn |-> c, t |-> t]]
  <2>1. [AbsDict[v] EXCEPT !.t = t] = [conn |-> c, t |-> t]
    BY <1>5
  <2>2. QED
    BY <2>1
<1>12. AbsDict[v].conn = c
  BY <1>5
<1>13. QED
  BY <1>1, <1>5, <1>8, <1>10, <1>11, <1>12 DEF Mgr!Get, Mgr!LockFree, Mgr!Insert, Mgr!Remove,
     Mgr!Slot, Mgr!CalcSlot, LockFree, Heads, CalcSlot, t, Gained, Dropped

\* and del is del, crash or not.
LEMMA DelMaps ==
  ASSUME IInv, IInv', NEW v \in Vip, Del(v)
  PROVE  Mgr!Del(v)
<1> DEFINE n == m_dict[v]
<1>1. /\ LockFree /\ n # Nil /\ ~crashed /\ m_dict' = [m_dict EXCEPT ![v] = Nil] /\ ret' = "void"
      /\ UNCHANGED <<clock, m_last, upd, now, p>>
  BY DEF Del, LockFree
<1>2. /\ m_dict \in [Vip -> Entry \cup {Nil}] /\ Nil \notin Entry /\ DictOwnsEntries
      /\ entry \in [Entry -> [vip : Vip \cup {Nil}, conn : Conn \cup {Nil}, t : Nat \cup {-1}]]
  BY ListAssumption DEF IInv, TypeOK
<1>3. /\ n \in Entry /\ \A u \in Vip : u # v => m_dict[u] # n
  BY <1>1, <1>2, KnownIsLive DEF DictOwnsEntries
<1>4. AbsDict[v] # Absent
  BY <1>1, AbsKnown
<1> HIDE DEF n
<1>5. m_dict'[v] = Nil /\ \A u \in Vip : u # v => m_dict'[u] = m_dict[u]
  BY <1>1, <1>2
<1>6. CASE list' = RemoveNode(list, n) /\ entry' = [entry EXCEPT ![n] = Blank] /\ crashed' = FALSE
  <2>1. \A u \in Vip : u # v /\ m_dict[u] # Nil => entry'[m_dict[u]] = entry[m_dict[u]]
    BY <1>2, <1>3, <1>6
  <2>2. AbsDict' = [AbsDict EXCEPT ![v] = Absent]
    BY <1>5, <2>1, AbsDictGone
  <2>3. WheelIndex /\ WheelIndex'
    BY <1>1, <1>6, WheelFromDict, WheelFromDictNext
  <2>4. AbsWheel' = [s \in Heads |-> AbsWheel[s] \ {v}]
    BY <2>2, <2>3, WheelGone
  <2>5. QED
    BY <1>1, <1>4, <1>6, <2>2, <2>4 DEF Mgr!Del, Mgr!LockFree, Mgr!Remove, Mgr!Slot, LockFree, Heads
<1>7. CASE crashed' = TRUE /\ UNCHANGED <<list, entry, heap>>
  <2>1. AbsDict' = [AbsDict EXCEPT ![v] = Absent]
    BY <1>5, <1>7, AbsDictGone
  <2>2. AbsWheel' = AbsWheel
    <3>1. \A s \in Heads : Ring(s)' = Ring(s)
      BY <1>7 DEF Ring
    <3>2. QED
      BY <1>7, <3>1 DEF AbsWheel
  <2>3. QED
    BY <1>1, <1>4, <1>7, <2>1, <2>2 DEF Mgr!Del, Mgr!LockFree, LockFree
<1>8. QED
  BY <1>6, <1>7 DEF Del, n

\* Dropping the entry under the cursor is erasing a due session.
LEMMA DropMaps ==
  ASSUME IInv, IInv', Visit, entry[p].t = m_last
  PROVE  \E v \in Vip : Mgr!SweepErase(v)
<1> DEFINE v == entry[p].vip
<1>1. /\ Visiting /\ upd = "walk" /\ Drop(p) /\ UNCHANGED <<clock, m_last, upd, now, ret, crashed>>
  BY DEF Visit, Visiting
<1>2. /\ p \in Entry /\ heap[p] = "live" /\ CalcSlot(entry[p].t) = CalcSlot(m_last)
      /\ CalcSlot(m_last) \in Heads /\ m_last <= now /\ ~crashed
  BY <1>1, CursorOnList DEF IInv, InUpdate
<1>3. /\ m_dict \in [Vip -> Entry \cup {Nil}] /\ Nil \notin Entry /\ DictOwnsEntries
      /\ entry \in [Entry -> [vip : Vip \cup {Nil}, conn : Conn \cup {Nil}, t : Nat \cup {-1}]]
  BY ListAssumption DEF IInv, TypeOK
<1>4. v \in Vip /\ m_dict[v] = p /\ p # Nil /\ \A u \in Vip : u # v => m_dict[u] # p
  BY <1>2, <1>3, LiveIsLinked DEF DictOwnsEntries
<1>5. m_dict' = [m_dict EXCEPT ![v] = Nil] /\ entry' = [entry EXCEPT ![p] = Blank]
  BY <1>1 DEF Drop
<1>6. AbsDict[v] # Absent /\ AbsDict[v] = [conn |-> entry[p].conn, t |-> entry[p].t]
  BY <1>4, AbsKnown
<1> HIDE DEF v
<1>7. AbsDict' = [AbsDict EXCEPT ![v] = Absent]
  <2>1. m_dict'[v] = Nil /\ \A u \in Vip : u # v => m_dict'[u] = m_dict[u]
    BY <1>3, <1>4, <1>5
  <2>2. \A u \in Vip : u # v /\ m_dict[u] # Nil => entry'[m_dict[u]] = entry[m_dict[u]]
    BY <1>2, <1>3, <1>4, <1>5
  <2>3. QED
    BY <1>4, <2>1, <2>2, AbsDictGone
<1>8. WheelIndex /\ WheelIndex'
  BY <1>1, <1>2, WheelFromDict, WheelFromDictNext
<1>9. AbsWheel' = [s \in Heads |-> AbsWheel[s] \ {v}]
  BY <1>4, <1>7, <1>8, WheelGone
<1>10. v \in AbsWheel[CalcSlot(m_last)] /\ AbsDict[v].t = m_last
  BY <1>2, <1>4, <1>6, <1>8 DEF WheelIndex
<1>11. Mgr!SweepErase(v)
  BY <1>1, <1>2, <1>4, <1>7, <1>9, <1>10 DEF Mgr!SweepErase, Mgr!Due, Mgr!Remove, Mgr!Slot, Mgr!CalcSlot,
     Heads, CalcSlot
<1>12. QED
  BY <1>4, <1>11

\* When the cursor is back on the head, nothing in the slot is due.
LEMMA SlotEndMaps ==
  ASSUME IInv, IInv', SlotEnd
  PROVE  Mgr!SweepNext
<1> DEFINE s == CalcSlot(m_last)
<1>1. /\ upd = "walk" /\ p = s /\ m_last' = m_last + 1 /\ upd' = "slot"
      /\ UNCHANGED <<clock, m_dict, list, entry, heap, now, ret, crashed>>
  BY DEF SlotEnd
<1>2. m_last <= now /\ ~crashed /\ m_last \in Nat /\ s \in Heads /\ Walking
  BY <1>1, NodeFacts DEF IInv, InUpdate
<1>3. PICK q, N : \E k \in 1..N : OnTheWay(q, N, k)
  BY <1>1, <1>2 DEF Walking
<1>4. PICK k \in 1..N : OnTheWay(q, N, k)
  BY <1>3
<1>5. k = N
  <2>1. /\ N \in Nat \ {0} /\ q[0] = s /\ q[k] = s
        /\ \A i, j \in 0..(N - 1) : q[i] = q[j] => i = j
    BY <1>1, <1>4 DEF OnTheWay, Cycle
  <2> HIDE DEF s
  <2>2. k \in 0..(N - 1) => k = 0
    BY <2>1
  <2>3. QED
    BY <2>1, <2>2
<1>6. \A m \in LiveIn[s] : entry[m].t # m_last
  BY <1>4, <1>5 DEF OnTheWay, On
<1>7. WheelIndex
  BY <1>2, WheelFromDict
<1>8. ASSUME NEW v \in Vip, v \in AbsWheel[s], AbsDict[v].t = m_last PROVE FALSE
  <2>1. AbsDict[v] # Absent /\ CalcSlot(AbsDict[v].t) = s
    BY <1>2, <1>7, <1>8 DEF WheelIndex
  <2>2. m_dict[v] # Nil /\ AbsDict[v].t = entry[m_dict[v]].t
    <3>1. m_dict[v] # Nil
      BY <2>1, AbsKnown
    <3>2. AbsDict[v] = [conn |-> entry[m_dict[v]].conn, t |-> entry[m_dict[v]].t]
      BY <3>1, AbsKnown
    <3>3. QED
      BY <3>1, <3>2
  <2>3. m_dict[v] \in Entry /\ heap[m_dict[v]] = "live"
    BY <2>2, KnownIsLive
  <2>4. m_dict[v] \in LiveIn[s]
    BY <1>2, <2>1, <2>2, <2>3 DEF LiveIn
  <2>5. QED
    BY <1>6, <1>8, <2>2, <2>4
<1>9. AbsDict' = AbsDict /\ AbsWheel' = AbsWheel
  BY <1>1, AbsSame
<1>10. QED
  BY <1>1, <1>2, <1>8, <1>9 DEF Mgr!SweepNext, Mgr!Due, Mgr!CalcSlot, CalcSlot

\* The steps that leave the sessions alone, and stutters.
LEMMA OtherMaps ==
  ASSUME IInv, Tick \/ (\E v \in Vip : Has(v) \/ Miss(v)) \/ UpdateBegin \/ SlotBegin \/ UpdateEnd
  PROVE  Mgr!Next \/ UNCHANGED Mgr!vars
<1>1. UNCHANGED <<m_dict, list, entry>>
  BY DEF Tick, Has, Miss, UpdateBegin, SlotBegin, UpdateEnd
<1>2. AbsDict' = AbsDict /\ AbsWheel' = AbsWheel
  BY <1>1, AbsSame
<1>3. ASSUME Tick PROVE Mgr!Tick
  BY <1>2, <1>3 DEF Tick, Mgr!Tick
<1>4. ASSUME NEW v \in Vip, Has(v) PROVE Mgr!Has(v)
  <2>1. m_dict[v] = Nil <=> AbsDict[v] = Absent
    BY AbsKnown
  <2>2. QED
    BY <1>2, <1>4, <2>1 DEF Has, Mgr!Has, LockFree, Mgr!LockFree
<1>5. ASSUME NEW v \in Vip, Miss(v) PROVE Mgr!Miss(v)
  <2>1. m_dict[v] = Nil <=> AbsDict[v] = Absent
    BY AbsKnown
  <2>2. QED
    BY <1>2, <1>5, <2>1 DEF Miss, Mgr!Miss, LockFree, Mgr!LockFree
<1>6. ASSUME UpdateBegin PROVE Mgr!UpdateBegin
  BY <1>2, <1>6 DEF UpdateBegin, Mgr!UpdateBegin, LockFree, Mgr!LockFree
<1>7. ASSUME SlotBegin PROVE UNCHANGED Mgr!vars
  BY <1>2, <1>7 DEF SlotBegin, Mgr!vars
<1>8. ASSUME UpdateEnd PROVE Mgr!UpdateEnd
  BY <1>2, <1>8 DEF UpdateEnd, Mgr!UpdateEnd
<1>9. QED
  BY <1>3, <1>4, <1>5, <1>6, <1>7, <1>8 DEF Mgr!Next, Mgr!Update

\* Every step is one of the wheel of sets, or none.
LEMMA StepMaps == IInv /\ IInv' /\ [Next]_vars => [Mgr!Next]_(Mgr!vars)
<1> SUFFICES ASSUME IInv, IInv', [Next]_vars PROVE Mgr!Next \/ UNCHANGED Mgr!vars
  OBVIOUS
<1>1. CASE Tick \/ (\E v \in Vip : Has(v) \/ Miss(v)) \/ UpdateBegin \/ SlotBegin \/ UpdateEnd
  BY <1>1, OtherMaps
<1>2. ASSUME NEW v \in Vip, NEW c \in Conn, PutNew(v, c) \/ PutKnown(v, c) PROVE Mgr!Next
  BY <1>2, PutMaps DEF Mgr!Next
<1>3. ASSUME NEW v \in Vip, Get(v) PROVE Mgr!Next
  BY <1>3, GetMaps DEF Mgr!Next
<1>4. ASSUME NEW v \in Vip, Del(v) PROVE Mgr!Next
  BY <1>4, DelMaps DEF Mgr!Next
<1>5. CASE SlotEnd
  BY <1>5, SlotEndMaps DEF Mgr!Next, Mgr!Update
<1>6. ASSUME Visit, entry[p].t = m_last PROVE Mgr!Next
  BY <1>6, DropMaps DEF Mgr!Next, Mgr!Update
<1>7. ASSUME Visit, entry[p].t # m_last PROVE UNCHANGED Mgr!vars
  <2>1. UNCHANGED <<m_dict, list, entry, clock, m_last, upd, now, ret, crashed>>
    BY <1>7 DEF Visit, Keep
  <2>2. AbsDict' = AbsDict /\ AbsWheel' = AbsWheel
    BY <2>1, AbsSame
  <2>3. QED
    BY <2>1, <2>2 DEF Mgr!vars
<1>8. CASE UNCHANGED vars
  <2>1. UNCHANGED <<m_dict, list, entry, clock, m_last, upd, now, ret, crashed>>
    BY <1>8 DEF vars
  <2>2. AbsDict' = AbsDict /\ AbsWheel' = AbsWheel
    BY <2>1, AbsSame
  <2>3. QED
    BY <2>1, <2>2 DEF Mgr!vars
<1>9. QED
  BY <1>1, <1>2, <1>3, <1>4, <1>5, <1>6, <1>7, <1>8 DEF Next, Update

\* Both start empty.
LEMMA InitMaps == Init => Mgr!Init
<1> SUFFICES ASSUME Init PROVE Mgr!Init
  OBVIOUS
<1>1. IInv
  BY InitInv
<1>2. \A s \in Heads : AbsWheel[s] = {}
  <2>1. \A n \in Entry : heap[n] # "live"
    BY DEF Init
  <2>2. \A s \in Heads : Ring(s) = {}
    BY <1>1, <2>1, RingIsLive
  <2>3. QED
    BY <2>2 DEF AbsWheel
<1>3. AbsWheel = [s \in Heads |-> {}]
  BY <1>2, AbsFunctions
<1>4. AbsDict = [v \in Vip |-> Absent]
  BY DEF AbsDict, Init
<1>5. QED
  BY <1>3, <1>4 DEF Init, Mgr!Init, Mgr!Slot, Heads

(* The linked lists, with their pointers and their cursor, implement the   *)
(* time wheel of sets: every call and every turn of update()'s loops does  *)
(* what the wheel of SessionMgr does, or nothing that can be seen there.   *)
THEOREM ListsImplementWheel == Spec => MgrSpec
<1>1. QED
  BY InitMaps, StepMaps, ListInvariant, PTL DEF Spec, MgrSpec, Mgr!Spec

-----------------------------------------------------------------------------
(* What update() loses *)

\* The vip and the deadline of each entry that was dropped: the deadlines of one
\* vip are Expire apart, and the session that it may have now is later still.
LeakAccount(who, due) ==
  /\ \A n \in Entry : heap[n] = "leaked" =>
       who[n] \in Vip /\ due[n] \in Nat /\ Expire <= due[n] /\ due[n] <= clock
  /\ \A m, n \in Entry :
       heap[m] = "leaked" /\ heap[n] = "leaked" /\ m # n /\ who[m] = who[n] =>
         due[m] + Expire <= due[n] \/ due[n] + Expire <= due[m]
  /\ \A m, n \in Entry :
       heap[m] = "leaked" /\ heap[n] = "live" /\ entry[n].vip = who[m] =>
         due[m] + Expire <= entry[n].t

LeakInv ==
  /\ \A n \in Entry : heap[n] = "live" => Expire <= entry[n].t
  /\ upd # "idle" => now <= clock
  /\ \E who, due : LeakAccount(who, due)

\* Time may go on, and what is live is put or renewed, freed or left alone.
LEMMA LeakKept ==
  ASSUME IInv, LeakInv, clock' \in Nat, clock <= clock', upd' # "idle" => now' <= clock',
         \A n \in Entry :
           \/ heap'[n] = heap[n] /\ entry'[n] = entry[n]
           \/ heap[n] # "leaked" /\ heap'[n] = "live" /\ entry'[n].t = clock + Expire
           \/ heap'[n] = "free"
  PROVE  LeakInv'
<1>1. PICK who, due : LeakAccount(who, due)
  BY DEF LeakInv
<1>2. clock \in Nat /\ Expire \in Nat \ {0}
  BY ListAssumption DEF IInv, TypeOK
<1>3. \A n \in Entry : heap'[n] = "leaked" =>
        heap[n] = "leaked" /\ who[n] \in Vip /\ due[n] \in Nat /\ Expire <= due[n] /\ due[n] <= clock
  BY <1>1 DEF LeakAccount
<1>4. \A n \in Entry : heap'[n] = "live" =>
        (heap[n] = "live" /\ entry'[n] = entry[n]) \/ entry'[n].t = clock + Expire
  OBVIOUS
<1>5. \A n \in Entry : heap'[n] = "live" => Expire <= entry'[n].t
  <2>1. Expire <= clock + Expire
    BY <1>2
  <2>2. QED
    BY <1>4, <2>1 DEF LeakInv
<1>6. \A n \in Entry : heap'[n] = "leaked" =>
        who[n] \in Vip /\ due[n] \in Nat /\ Expire <= due[n] /\ due[n] <= clock'
  <2>1. \A x \in Nat : x <= clock => x <= clock'
    BY <1>2
  <2>2. QED
    BY <1>3, <2>1
<1>7. \A m, n \in Entry :
        heap'[m] = "leaked" /\ heap'[n] = "leaked" /\ m # n /\ who[m] = who[n] =>
          due[m] + Expire <= due[n] \/ due[n] + Expire <= due[m]
  BY <1>1, <1>3 DEF LeakAccount
<1>8. \A m, n \in Entry :
        heap'[m] = "leaked" /\ heap'[n] = "live" /\ entry'[n].vip = who[m] =>
          due[m] + Expire <= entry'[n].t
  <2>1. TAKE m, n \in Entry
  <2>2. HAVE heap'[m] = "leaked" /\ heap'[n] = "live" /\ entry'[n].vip = who[m]
  <2>3. heap[m] = "leaked" /\ due[m] \in Nat /\ due[m] <= clock
    BY <1>3, <2>2
  <2>4. due[m] + Expire <= clock + Expire
    BY <1>2, <2>3
  <2>5. CASE heap[n] = "live" /\ entry'[n] = entry[n]
    BY <1>1, <2>2, <2>3, <2>5 DEF LeakAccount
  <2>6. CASE entry'[n].t = clock + Expire
    BY <2>4, <2>6
  <2>7. QED
    BY <1>4, <2>2, <2>5, <2>6
<1>9. LeakAccount(who, due)'
  BY <1>6, <1>7, <1>8 DEF LeakAccount
<1>10. QED
  BY <1>5, <1>9 DEF LeakInv

\* The entry that update() drops was the vip's only one, and its deadline is the
\* second under way.
LEMMA LeakDrop ==
  ASSUME IInv, LeakInv, Visit, entry[p].t = m_last
  PROVE  LeakInv'
<1>1. PICK who, due : LeakAccount(who, due)
  BY DEF LeakInv
<1>2. clock \in Nat /\ Expire \in Nat \ {0}
  BY ListAssumption DEF IInv, TypeOK
<1>3. /\ Visiting /\ Drop(p) /\ UNCHANGED <<clock, m_last, upd, now, crashed>>
  BY DEF Visit
<1>4. p \in Entry /\ heap[p] = "live" /\ ~crashed /\ upd = "walk"
  BY <1>3, CursorOnList DEF IInv, InUpdate, Visiting
<1>5. PICK v \in Vip : v = entry[p].vip
  BY <1>4 DEF IInv, LiveEntries
<1>6. PICK t \in Nat : t = entry[p].t /\ Expire <= t /\ t <= clock
  <2>1. m_last \in Nat /\ m_last <= now /\ now <= clock /\ now \in Int
    BY <1>4 DEF IInv, InUpdate, LeakInv
  <2>2. m_last <= clock
    BY <1>2, <2>1
  <2>3. Expire <= entry[p].t
    BY <1>4 DEF LeakInv
  <2>4. QED
    BY <2>1, <2>2, <2>3
<1>7. /\ heap' = [heap EXCEPT ![p] = "leaked"] /\ entry' = [entry EXCEPT ![p] = Blank]
      /\ heap \in [Entry -> {"free", "live", "leaked"}] /\ DOMAIN entry = Entry
  BY <1>3 DEF Drop, IInv, TypeOK
<1>8. /\ heap'[p] = "leaked"
      /\ \A n \in Entry : n # p => heap'[n] = heap[n] /\ entry'[n] = entry[n]
  BY <1>4, <1>7
<1>9. \A n \in Entry : heap[n] = "live" /\ n # p => entry[n].vip # v
  BY <1>4, <1>5 DEF IInv, DictOwnsEntries
<1>10. PICK who2, due2 :
         /\ who2 = [n \in Entry |-> IF n = p THEN v ELSE who[n]]
         /\ due2 = [n \in Entry |-> IF n = p THEN t ELSE due[n]]
  OBVIOUS
<1>11. /\ who2[p] = v /\ due2[p] = t
       /\ \A n \in Entry : n # p => who2[n] = who[n] /\ due2[n] = due[n]
  BY <1>4, <1>10
<1>12. \A n \in Entry : heap'[n] = "leaked" =>
         who2[n] \in Vip /\ due2[n] \in Nat /\ Expire <= due2[n] /\ due2[n] <= clock
  BY <1>1, <1>6, <1>8, <1>11 DEF LeakAccount
<1>13. \A n \in Entry : heap[n] = "leaked" /\ who[n] = v => due[n] + Expire <= t
  BY <1>1, <1>4, <1>5, <1>6 DEF LeakAccount
<1>14. \A m, n \in Entry :
         heap'[m] = "leaked" /\ heap'[n] = "leaked" /\ m # n /\ who2[m] = who2[n] =>
           due2[m] + Expire <= due2[n] \/ due2[n] + Expire <= due2[m]
  <2>1. TAKE m, n \in Entry
  <2>2. HAVE heap'[m] = "leaked" /\ heap'[n] = "leaked" /\ m # n /\ who2[m] = who2[n]
  <2>3. CASE m = p
    BY <1>8, <1>11, <1>13, <2>2, <2>3
  <2>4. CASE n = p
    BY <1>8, <1>11, <1>13, <2>2, <2>4
  <2>5. CASE m # p /\ n # p
    BY <1>1, <1>8, <1>11, <2>2, <2>5 DEF LeakAccount
  <2>6. QED
    BY <2>3, <2>4, <2>5
<1>15. \A m, n \in Entry :
         heap'[m] = "leaked" /\ heap'[n] = "live" /\ entry'[n].vip = who2[m] =>
           due2[m] + Expire <= entry'[n].t
  <2>1. TAKE m, n \in Entry
  <2>2. HAVE heap'[m] = "leaked" /\ heap'[n] = "live" /\ entry'[n].vip = who2[m]
  <2>3. n # p /\ heap[n] = "live" /\ entry'[n] = entry[n]
    BY <1>8, <2>2
  <2>4. m # p
    BY <1>9, <1>11, <2>2, <2>3
  <2>5. QED
    BY <1>1, <1>8, <1>11, <2>2, <2>3, <2>4 DEF LeakAccount
<1>16. LeakAccount(who2, due2)'
  BY <1>3, <1>12, <1>14, <1>15 DEF LeakAccount
<1>17. \A n \in Entry : heap'[n] = "live" => Expire <= entry'[n].t
  BY <1>8 DEF LeakInv
<1>18. upd' # "idle" => now' <= clock'
  BY <1>3 DEF LeakInv
<1>19. QED
  BY <1>16, <1>17, <1>18 DEF LeakInv

\* Every action keeps the account,
LEMMA LeakStep == IInv /\ LeakInv /\ [Next]_vars => LeakInv'
<1> SUFFICES ASSUME IInv, LeakInv, [Next]_vars PROVE LeakInv'
  OBVIOUS
<1>1. clock \in Nat /\ Expire \in Nat /\ heap \in [Entry -> {"free", "live", "leaked"}]
      /\ DOMAIN entry = Entry
  BY ListAssumption DEF IInv, TypeOK
<1>2. CASE Tick
  <2>1. clock' = clock + 1 /\ UNCHANGED <<entry, heap, upd, now>> /\ (upd # "idle" => now <= clock)
    BY <1>2 DEF Tick, LeakInv
  <2>2. upd # "idle" => now \in Int
    BY DEF IInv, InUpdate
  <2>3. clock' \in Nat /\ clock <= clock' /\ (upd # "idle" => now <= clock + 1)
    BY <1>1, <2>1, <2>2
  <2>4. QED
    BY <2>1, <2>3, LeakKept
<1>3. ASSUME NEW v \in Vip, NEW c \in Conn, PutNew(v, c) PROVE LeakInv'
  <2>1. PICK n \in Entry : n = Fresh /\ heap[n] = "free"
    BY <1>3 DEF PutNew, Fresh
  <2>2. /\ UNCHANGED <<clock, upd, now>> /\ upd = "idle"
        /\ heap'[n] = "live" /\ entry'[n].t = clock + Expire
        /\ \A m \in Entry : m # n => heap'[m] = heap[m] /\ entry'[m] = entry[m]
    BY <1>1, <1>3, <2>1 DEF PutNew, LockFree
  <2>3. QED
    BY <1>1, <2>1, <2>2, LeakKept
<1>4. ASSUME NEW v \in Vip, Get(v) \/ \E c \in Conn : PutKnown(v, c) PROVE LeakInv'
  <2>1. PICK n \in Entry : /\ n = m_dict[v] /\ heap[n] = "live"
                          /\ entry[n] \in [vip : Vip, conn : Conn, t : Nat]
    BY <1>4, KnownIsLive DEF Get, PutKnown, IInv, LiveEntries
  <2>2. UNCHANGED <<clock, heap, upd, now>> /\ upd = "idle"
    BY <1>4 DEF Get, PutKnown, LockFree
  <2>3. PICK e : /\ e.t = clock + Expire /\ entry' = [entry EXCEPT ![n] = e]
    <3>1. CASE Get(v)
      <4>1. [entry[n] EXCEPT !.t = clock + Expire].t = clock + Expire
        BY <2>1
      <4>2. entry' = [entry EXCEPT ![n] = [entry[n] EXCEPT !.t = clock + Expire]]
        BY <2>1, <3>1 DEF Get
      <4>3. QED
        BY <4>1, <4>2
    <3>2. CASE \E c \in Conn : PutKnown(v, c)
      <4>1. PICK c \in Conn : entry' = [entry EXCEPT ![n].conn = c, ![n].t = clock + Expire]
        BY <2>1, <3>2 DEF PutKnown
      <4>2. PICK e : e = [[entry[n] EXCEPT !.conn = c] EXCEPT !.t = clock + Expire]
        OBVIOUS
      <4>3. e.t = clock + Expire
        BY <2>1, <4>2
      <4>4. entry' = [entry EXCEPT ![n] = e]
        BY <1>1, <2>1, <4>1, <4>2
      <4>5. QED
        BY <4>3, <4>4
    <3>3. QED
      BY <1>4, <3>1, <3>2
  <2>4. entry'[n] = e /\ \A m \in Entry : m # n => entry'[m] = entry[m]
    BY <1>1, <2>3
  <2>5. QED
    BY <1>1, <2>1, <2>2, <2>3, <2>4, LeakKept
<1>5. ASSUME NEW v \in Vip, Del(v) PROVE LeakInv'
  <2>1. PICK n \in Entry : n = m_dict[v]
    BY <1>5, KnownIsLive DEF Del
  <2>2. UNCHANGED <<clock, upd, now>> /\ upd = "idle"
    BY <1>5 DEF Del, LockFree
  <2>3. \A m \in Entry : (heap'[m] = heap[m] /\ entry'[m] = entry[m]) \/ heap'[m] = "free"
    BY <1>1, <1>5, <2>1 DEF Del
  <2>4. QED
    BY <1>1, <2>2, <2>3, LeakKept
<1>6. CASE UpdateBegin
  BY <1>1, <1>6, LeakKept DEF UpdateBegin
<1>7. CASE UpdateEnd \/ SlotBegin \/ SlotEnd \/ (\E v \in Vip : Has(v) \/ Miss(v)) \/ UNCHANGED vars
  <2>1. UNCHANGED <<clock, entry, heap>> /\ (upd' # "idle" => upd # "idle" /\ now' = now)
    <3>1. CASE UpdateEnd
      BY <3>1 DEF UpdateEnd
    <3>2. CASE SlotBegin \/ SlotEnd
      BY <3>2 DEF SlotBegin, SlotEnd
    <3>3. CASE (\E v \in Vip : Has(v) \/ Miss(v)) \/ UNCHANGED vars
      BY <3>3 DEF Has, Miss, vars, LockFree
    <3>4. QED
      BY <1>7, <3>1, <3>2, <3>3
  <2>2. QED
    BY <1>1, <2>1, LeakKept DEF LeakInv
<1>8. CASE Visit /\ entry[p].t # m_last
  <2>1. UNCHANGED <<clock, entry, heap, now, upd>>
    BY <1>8 DEF Visit, Keep
  <2>2. QED
    BY <1>1, <2>1, LeakKept DEF LeakInv
<1>9. CASE Visit /\ entry[p].t = m_last
  BY <1>9, LeakDrop
<1>10. QED
  BY <1>2, <1>3, <1>4, <1>5, <1>6, <1>7, <1>8, <1>9 DEF Next, Update

\* Seconds that are Expire apart are in different turns of Expire seconds.
LEMMA TurnsApart ==
  ASSUME NEW a \in Nat, NEW b \in Nat, NEW e \in Nat \ {0}, a + e <= b
  PROVE  a \div e # b \div e
OBVIOUS

\* A second after the first Expire seconds is in a turn that has begun.
LEMMA TurnOf ==
  ASSUME NEW a \in Nat, NEW b \in Nat, NEW e \in Nat \ {0}, e <= a, a <= b
  PROVE  a \div e \in 1..(b \div e)
OBVIOUS

\* which is empty at first.
LEMMA LeakInit == Init => LeakInv
<1> SUFFICES ASSUME Init PROVE LeakInv
  OBVIOUS
<1>1. \A n \in Entry : heap[n] = "free"
  BY DEF Init
<1>2. PICK f : f = [n \in Entry |-> 0]
  OBVIOUS
<1>3. LeakAccount(f, f)
  BY <1>1 DEF LeakAccount
<1>4. upd = "idle"
  BY DEF Init
<1>5. QED
  BY <1>1, <1>3, <1>4 DEF LeakInv

\* The account of what is lost has room for no more than LeaksAreFew.
LEMMA LeakCount ==
  ASSUME IsFiniteSet(Vip), IInv, LeakInv
  PROVE  LeaksAreFew
<1> DEFINE L == {n \in Entry : heap[n] = "leaked"}
           T == 1..(clock \div Expire)
<1>1. PICK who, due : LeakAccount(who, due)
  BY DEF LeakInv
<1>2. clock \in Nat /\ Expire \in Nat \ {0}
  BY ListAssumption DEF IInv, TypeOK
<1>3. PICK f : f = [n \in L |-> <<who[n], due[n] \div Expire>>]
  OBVIOUS
<1>4. ASSUME NEW n \in L PROVE f[n] \in Vip \X T /\ f[n] = <<who[n], due[n] \div Expire>>
  <2>1. who[n] \in Vip /\ due[n] \in Nat /\ Expire <= due[n] /\ due[n] <= clock
    BY <1>1 DEF LeakAccount
  <2>2. due[n] \div Expire \in T
    BY <1>2, <2>1, TurnOf
  <2> HIDE DEF T, L
  <2>3. QED
    BY <1>3, <2>1, <2>2
<1>5. ASSUME NEW m \in L, NEW n \in L, f[m] = f[n] PROVE m = n
  <2>1. who[m] = who[n] /\ due[m] \div Expire = due[n] \div Expire
    BY <1>4, <1>5
  <2>2. SUFFICES ASSUME m # n PROVE FALSE
    OBVIOUS
  <2>3. due[m] \in Nat /\ due[n] \in Nat
        /\ (due[m] + Expire <= due[n] \/ due[n] + Expire <= due[m])
    BY <1>1, <2>1, <2>2 DEF LeakAccount
  <2>4. QED
    BY <1>2, <2>1, <2>3, TurnsApart
<1> HIDE DEF L
<1>6. f \in Injection(L, Vip \X T)
  BY <1>3, <1>4, <1>5 DEF Injection, IsInjective
<1>7. clock \div Expire \in Nat
  BY <1>2
<1>8. IsFiniteSet(T) /\ Cardinality(T) = clock \div Expire
  BY <1>7, FS_Interval
<1> HIDE DEF T
<1>9. IsFiniteSet(Vip \X T) /\ Cardinality(Vip \X T) = Cardinality(Vip) * Cardinality(T)
  BY <1>8, FS_Product
<1>10. Cardinality(L) <= Cardinality(Vip \X T)
  BY <1>6, <1>9, FS_Injection
<1>11. QED
  BY <1>8, <1>9, <1>10 DEF LeaksAreFew, L

(* Of the entries that update() drops and nothing deletes there is at most *)
(* one for each address in Expire seconds: an address that is put again    *)
(* after its session expired has a deadline Expire later than the last.    *)
THEOREM LeaksStayFew ==
  ASSUME IsFiniteSet(Vip)
  PROVE  Spec => []LeaksAreFew
<1>1. IInv /\ LeakInv => LeaksAreFew
  BY LeakCount
<1>2. Spec => [](IInv /\ LeakInv)
  BY InitInv, StepInv, LeakInit, LeakStep, PTL DEF Spec
<1>3. QED
  BY <1>1, <1>2, PTL

-----------------------------------------------------------------------------
(* From the lists to the plain table: what SessionMgrProofs proves of the  *)
(* wheel of sets holds of the one that the lists implement.                *)

MgrProofs == INSTANCE SessionMgrProofs WITH
  m_dict <- AbsDict, wheel <- AbsWheel, upd <- IF upd = "idle" THEN "idle" ELSE "sweep"

\* SessionMgrProofs speaks of the same wheel as SessionList.
LEMMA SameWheel == MgrSpec => MgrProofs!Spec
<1>1. Mgr!Init => MgrProofs!Init
  BY DEF Mgr!Init, MgrProofs!Init, Mgr!Slot, MgrProofs!Slot
<1>2. ASSUME Mgr!Next PROVE MgrProofs!Next
  <2> USE DEF Mgr!LockFree, MgrProofs!LockFree, Mgr!Slot, MgrProofs!Slot,
              Mgr!CalcSlot, MgrProofs!CalcSlot, Mgr!Insert, MgrProofs!Insert,
              Mgr!Remove, MgrProofs!Remove
  <2>1. ASSUME Mgr!Tick PROVE MgrProofs!Tick
    BY <2>1 DEF Mgr!Tick, MgrProofs!Tick
  <2>2. ASSUME NEW v \in Vip, NEW c \in Conn, Mgr!Put(v, c) PROVE MgrProofs!Put(v, c)
    BY <2>2 DEF Mgr!Put, MgrProofs!Put
  <2>3. ASSUME NEW v \in Vip, Mgr!Has(v) PROVE MgrProofs!Has(v)
    BY <2>3 DEF Mgr!Has, MgrProofs!Has
  <2>4. ASSUME NEW v \in Vip, Mgr!Get(v) PROVE MgrProofs!Get(v)
    BY <2>4 DEF Mgr!Get, MgrProofs!Get
  <2>5. ASSUME NEW v \in Vip, Mgr!Del(v) PROVE MgrProofs!Del(v)
    BY <2>5 DEF Mgr!Del, MgrProofs!Del
  <2>6. ASSUME NEW v \in Vip, Mgr!Miss(v) PROVE MgrProofs!Miss(v)
    BY <2>6 DEF Mgr!Miss, MgrProofs!Miss
  <2>7. ASSUME Mgr!UpdateBegin PROVE MgrProofs!UpdateBegin
    BY <2>7 DEF Mgr!UpdateBegin, MgrProofs!UpdateBegin
  <2>8. ASSUME NEW v \in Vip, Mgr!SweepErase(v) PROVE MgrProofs!SweepErase(v)
    BY <2>8 DEF Mgr!SweepErase, MgrProofs!SweepErase, Mgr!Due, MgrProofs!Due
  <2>9. ASSUME Mgr!SweepNext PROVE MgrProofs!SweepNext
    BY <2>9 DEF Mgr!SweepNext, MgrProofs!SweepNext, Mgr!Due, MgrProofs!Due
  <2>10. ASSUME Mgr!UpdateEnd PROVE MgrProofs!UpdateEnd
    BY <2>10 DEF Mgr!UpdateEnd, MgrProofs!UpdateEnd
  <2> HIDE DEF Mgr!LockFree, MgrProofs!LockFree, Mgr!Slot, MgrProofs!Slot,
               Mgr!CalcSlot, MgrProofs!CalcSlot, Mgr!Insert, MgrProofs!Insert,
               Mgr!Remove, MgrProofs!Remove
  <2>11. QED
    BY <1>2, <2>1, <2>2, <2>3, <2>4, <2>5, <2>6, <2>7, <2>8, <2>9, <2>10
       DEF Mgr!Next, MgrProofs!Next, Mgr!Update, MgrProofs!Update
<1>3. [Mgr!Next]_(Mgr!vars) => [MgrProofs!Next]_(MgrProofs!vars)
  <2>1. ASSUME UNCHANGED Mgr!vars PROVE UNCHANGED MgrProofs!vars
    BY <2>1 DEF Mgr!vars, MgrProofs!vars
  <2>2. QED
    BY <1>2, <2>1
<1>4. QED
  BY <1>1, <1>3, PTL DEF MgrSpec, Mgr!Spec, MgrProofs!Spec

\* And of the same table.
LEMMA SameTable == MgrProofs!TableSpec => Mgr!TableSpec
<1>1. MgrProofs!Table!Init => Mgr!Table!Init
  BY DEF MgrProofs!Table!Init, Mgr!Table!Init
<1>2. ASSUME MgrProofs!Table!Next PROVE Mgr!Table!Next
  <2>1. ASSUME MgrProofs!Table!Tick PROVE Mgr!Table!Tick
    BY <2>1 DEF Mgr!Table!Tick, MgrProofs!Table!Tick
  <2>2. ASSUME NEW v \in Vip, NEW c \in Conn, MgrProofs!Table!Put(v, c) PROVE Mgr!Table!Put(v, c)
    BY <2>2 DEF Mgr!Table!Put, MgrProofs!Table!Put
  <2>3. ASSUME NEW v \in Vip, MgrProofs!Table!Has(v) PROVE Mgr!Table!Has(v)
    BY <2>3 DEF Mgr!Table!Has, MgrProofs!Table!Has
  <2>4. ASSUME NEW v \in Vip, MgrProofs!Table!Get(v) PROVE Mgr!Table!Get(v)
    BY <2>4 DEF Mgr!Table!Get, MgrProofs!Table!Get
  <2>5. ASSUME NEW v \in Vip, MgrProofs!Table!Del(v) PROVE Mgr!Table!Del(v)
    BY <2>5 DEF Mgr!Table!Del, MgrProofs!Table!Del
  <2>6. ASSUME NEW v \in Vip, MgrProofs!Table!Miss(v) PROVE Mgr!Table!Miss(v)
    BY <2>6 DEF Mgr!Table!Miss, MgrProofs!Table!Miss
  <2>7. ASSUME NEW v \in Vip, MgrProofs!Table!Forget(v) PROVE Mgr!Table!Forget(v)
    BY <2>7 DEF Mgr!Table!Forget, MgrProofs!Table!Forget
  <2>8. QED
    BY <1>2, <2>1, <2>2, <2>3, <2>4, <2>5, <2>6, <2>7
       DEF Mgr!Table!Next, MgrProofs!Table!Next
<1>3. ASSUME UNCHANGED MgrProofs!Table!vars PROVE UNCHANGED Mgr!Table!vars
  BY <1>3 DEF Mgr!Table!vars, MgrProofs!Table!vars
<1>4. [MgrProofs!Table!Next]_(MgrProofs!Table!vars) => [Mgr!Table!Next]_(Mgr!Table!vars)
  BY <1>2, <1>3
<1>5. QED
  BY <1>1, <1>4, PTL
     DEF MgrProofs!TableSpec, Mgr!TableSpec, MgrProofs!Table!Spec, Mgr!Table!Spec

(* The linked lists keep session_mgr's promise: read through its own       *)
(* pointers, a session is found until Expire seconds after it was last put *)
(* or looked up, and forgotten only after that, or by del.                 *)
THEOREM ListsImplementTable == Spec => Mgr!TableSpec
<1>1. MgrProofs!SessionAssumption
  BY ListAssumption DEF MgrProofs!SessionAssumption
<1>2. MgrProofs!Spec => MgrProofs!TableSpec
  BY <1>1, MgrProofs!ImplementsTable
<1>3. QED
  BY <1>2, ListsImplementWheel, SameWheel, SameTable
=============================================================================
