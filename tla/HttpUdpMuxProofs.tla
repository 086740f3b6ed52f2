------------------------------ MODULE HttpUdpMuxProofs ------------------------------
(***************************************************************************)
(* Proofs about UDP and ICMP over a stream (HttpUdpMux): the tables of the   *)
(* connections and the parsers of the streams. What the tables promise rests *)
(* on the order of the queued tasks: of two connections with one address     *)
(* pair, one is closed by a task before the task that opens the other.       *)
(***************************************************************************)
EXTENDS HttpUdpMux, FiniteSetTheorems, WellFoundedInduction, TLAPS

\* A leaf that names no prover is tried with the SMT solver, with Zenon, and with
\* the solver once more.
USE SMTT(30), ZenonT(40), Z3T(30)

--------------------------------------------------------------------------------
(* Induction.                                                                *)

\* A set of natural numbers has a least element: the initial segments below its
\* elements are finite, and strict inclusion of finite sets is well founded.
LEMMA Least ==
  ASSUME NEW T \in SUBSET Nat, T # {}
  PROVE  \E x \in T : \A y \in T : x <= y
<1> PICK m \in T : TRUE
  BY Zenon
<1> DEFINE S == 1..m
           U == {1..n : n \in {k \in T : k <= m}}
<1>1. IsFiniteSet(S)
  BY FS_Interval
<1>2. IsWellFoundedOn(StrictSubsetOrdering(S), SUBSET S)
  BY <1>1, FS_StrictSubsetOrderingWellFounded, FS_FiniteSubsetsOfFinite, Zenon
<1>3. U \subseteq SUBSET S /\ U # {}
  OBVIOUS
<1>4. PICK u \in U : \A v \in U : <<v, u>> \notin StrictSubsetOrdering(S)
  <2> HIDE DEF U, S
  <2> QED
    BY <1>2, <1>3, WFMin, Zenon
<1>5. PICK x \in T : x <= m /\ u = 1..x
  OBVIOUS
<1>6. \A y \in T : x <= y
  <2> SUFFICES ASSUME NEW y \in T, y < x PROVE FALSE
    OBVIOUS
  <2>1. (1..y) \in U
    BY <1>5
  <2>2. (1..y) \subseteq 1..x /\ x \in 1..x /\ x \notin 1..y
    OBVIOUS
  <2>3. <<1..y, u>> \in StrictSubsetOrdering(S)
    BY <1>3, <1>5, <2>1, <2>2 DEF StrictSubsetOrdering
  <2> QED
    BY <1>4, <2>1, <2>3, Zenon
<1> QED
  BY <1>6

\* Induction up to n, for a property given as the set of numbers that have it.
LEMMA UpTo ==
  ASSUME NEW n \in Nat, NEW S, 0 \in S, \A i \in 0..(n - 1) : i \in S => i + 1 \in S
  PROVE  \A i \in 0..n : i \in S
<1> DEFINE Bad == (0..n) \ S
<1> SUFFICES ASSUME Bad # {} PROVE FALSE
  OBVIOUS
<1>1. PICK x \in Bad : \A y \in Bad : x <= y
  <2>1. Bad \in SUBSET Nat
    OBVIOUS
  <2> HIDE DEF Bad
  <2> QED
    BY <2>1, Least, Zenon
<1>2. x - 1 \in 0..(n - 1) /\ x - 1 \notin Bad
  BY <1>1
<1> QED
  BY <1>1, <1>2

--------------------------------------------------------------------------------
(* UDP and ICMP over a stream.                                               *)

\* The tasks of the UDP multiplexer.
Task == [do : {"open", "close"}, id : Conns]
\* The task that completes an opening.
OpenTask(c) == [do |-> "open", id |-> c]
\* The task that closes.
EndTask(c) == [do |-> "close", id |-> c]

\* A task is queued before another one.
Before(q, a, b) == \E i, j \in 1..Len(q) : i < j /\ q[i] = a /\ q[j] = b

\* f[i] is what Without leaves of the first i tasks of q.
Leaves(f, q, c, n) ==
  f = [i \in 0..n |-> IF i = 0 THEN <<>>
                      ELSE IF q[i].id = c THEN f[i - 1] ELSE Append(f[i - 1], q[i])]

\* The recursion in Without has a solution.
LEMMA LeavesExists ==
  ASSUME NEW q \in Seq(Task), NEW c
  PROVE  \E f : Leaves(f, q, c, Len(q))
<1> DEFINE S == {n \in 0..Len(q) : \E f : Leaves(f, q, c, n)}
<1>1. 0 \in S
  <2>1. Leaves([i \in 0..0 |-> <<>>], q, c, 0)
    BY DEF Leaves
  <2> QED
    BY <2>1
<1>2. ASSUME NEW m \in 0..(Len(q) - 1), m \in S PROVE m + 1 \in S
  <2> DEFINE n == m + 1
  <2>1. PICK f : Leaves(f, q, c, m)
    BY <1>2
  <2> DEFINE g == [i \in 0..n |-> IF i <= m THEN f[i]
                     ELSE IF q[n].id = c THEN f[m] ELSE Append(f[m], q[n])]
  <2>2. \A i \in 0..m : f[i] = IF i = 0 THEN <<>>
                               ELSE IF q[i].id = c THEN f[i - 1] ELSE Append(f[i - 1], q[i])
    BY <2>1, Zenon DEF Leaves
  <2>3. ASSUME NEW i \in 0..n
        PROVE  g[i] = IF i = 0 THEN <<>>
                      ELSE IF q[i].id = c THEN g[i - 1] ELSE Append(g[i - 1], q[i])
    <3>1. CASE i <= m
      <4>1. i \in 0..m /\ g[i] = f[i] /\ (i # 0 => g[i - 1] = f[i - 1])
        BY <3>1
      <4> HIDE DEF g
      <4> QED
        BY <2>2, <4>1, Zenon
    <3>2. CASE i = n
      <4>1. g[i] = IF q[n].id = c THEN f[m] ELSE Append(f[m], q[n])
        BY <3>2
      <4>2. g[i - 1] = f[m] /\ i # 0
        BY <3>2
      <4> HIDE DEF g
      <4> QED
        BY <3>2, <4>1, <4>2
    <3> QED
      BY <3>1, <3>2
  <2>4. Leaves(g, q, c, n)
    BY <2>3 DEF Leaves
  <2> HIDE DEF g
  <2> QED
    BY <2>4
<1>3. \A i \in 0..Len(q) : i \in S
  <2>1. Len(q) \in Nat
    OBVIOUS
  <2> HIDE DEF S
  <2> QED
    BY <1>1, <1>2, <2>1, UpTo
<1>4. Len(q) \in S
  BY <1>3
<1> QED
  BY <1>4

\* What is left of a queue: no task of the connection, every other one, in the
\* same order.
LEMMA WithoutProperties ==
  ASSUME NEW q \in Seq(Task), NEW c
  PROVE  /\ Without(q, c) \in Seq(Task)
         /\ \A x : Contains(Without(q, c), x) <=> Contains(q, x) /\ x.id # c
         /\ \A a, b : Before(q, a, b) /\ a.id # c /\ b.id # c => Before(Without(q, c), a, b)
<1> DEFINE f == CHOOSE f : Leaves(f, q, c, Len(q))
<1>1. Leaves(f, q, c, Len(q))
  BY LeavesExists, Zenon
<1>2. Without(q, c) = f[Len(q)]
  BY Zenon DEF Without, Leaves
<1> HIDE DEF f
<1>3. \A i \in 0..Len(q) : f[i] = IF i = 0 THEN <<>>
                                 ELSE IF q[i].id = c THEN f[i - 1] ELSE Append(f[i - 1], q[i])
  BY <1>1, Zenon DEF Leaves
<1> DEFINE Typed(i) == f[i] \in Seq(Task)
           Same(i) == \A x : Contains(f[i], x) <=> x.id # c /\ \E k \in 1..i : q[k] = x
           Ordered(i) == \A k, l \in 1..i : k < l /\ q[k].id # c /\ q[l].id # c
                                              => Before(f[i], q[k], q[l])
           S == {i \in 0..Len(q) : Typed(i) /\ Same(i) /\ Ordered(i)}
<1>4. 0 \in S
  <2>1. f[0] = <<>>
    BY <1>3
  <2>2. Typed(0)
    BY <2>1
  <2>3. Same(0)
    BY <2>1 DEF Contains
  <2>4. Ordered(0)
    OBVIOUS
  <2> QED
    BY <2>2, <2>3, <2>4
<1>5. ASSUME NEW m \in 0..(Len(q) - 1), m \in S PROVE m + 1 \in S
  <2> DEFINE n == m + 1
  <2>1. Typed(m) /\ Same(m) /\ Ordered(m)
    BY <1>5
  <2>2. n \in 0..Len(q) /\ n # 0 /\ n - 1 = m /\ q[n] \in Task
    OBVIOUS
  <2>3. f[n] = IF q[n].id = c THEN f[m] ELSE Append(f[m], q[n])
    BY <1>3, <2>2
  <2>4. \A k : k \in 1..n <=> k \in 1..m \/ k = n
    OBVIOUS
  <2>4a. \A k \in 1..n : ~ (n < k)
    OBVIOUS
  <2> HIDE DEF n
  <2>5. CASE q[n].id = c
    <3>1. f[n] = f[m]
      BY <2>3, <2>5
    <3>2. Same(n)
      BY <2>1, <2>4, <2>5, <3>1
    <3>3. Ordered(n)
      BY <2>1, <2>4, <2>5, <3>1
    <3> QED
      BY <2>1, <2>2, <3>1, <3>2, <3>3 DEF n
  <2>6. CASE q[n].id # c
    <3>1. f[n] = Append(f[m], q[n])
      BY <2>3, <2>6
    <3>2. /\ f[n] \in Seq(Task) /\ Len(f[n]) = Len(f[m]) + 1 /\ Len(f[m]) \in Nat
          /\ \A i \in 1..Len(f[m]) : f[n][i] = f[m][i]
          /\ f[n][Len(f[m]) + 1] = q[n]
      BY <2>1, <2>2, <3>1
    <3>3. ASSUME NEW x PROVE Contains(f[n], x) <=> Contains(f[m], x) \/ x = q[n]
      <4>1. ASSUME Contains(f[m], x) PROVE Contains(f[n], x)
        BY <3>2, <4>1 DEF Contains
      <4>2. ASSUME x = q[n] PROVE Contains(f[n], x)
        BY <3>2, <4>2 DEF Contains
      <4>3. ASSUME Contains(f[n], x), x # q[n] PROVE Contains(f[m], x)
        <5>1. PICK i \in 1..Len(f[n]) : f[n][i] = x
          BY <4>3 DEF Contains
        <5>2. i \in 1..Len(f[m])
          BY <3>2, <4>3, <5>1
        <5> QED
          BY <3>2, <5>1, <5>2 DEF Contains
      <4> QED
        BY <4>1, <4>2, <4>3
    <3>4. Same(n)
      BY <2>1, <2>4, <2>6, <3>3, Zenon
    <3>5. ASSUME NEW k \in 1..n, NEW l \in 1..n, k < l, q[k].id # c, q[l].id # c
          PROVE  Before(f[n], q[k], q[l])
      <4>1. k \in 1..m
        BY <2>4, <2>4a, <3>5
      <4>2. CASE l \in 1..m
        <5>1. PICK i \in 1..Len(f[m]), j \in 1..Len(f[m]) : i < j /\ f[m][i] = q[k] /\ f[m][j] = q[l]
          BY <2>1, <3>5, <4>1, <4>2 DEF Before
        <5>2. f[n][i] = q[k] /\ f[n][j] = q[l]
          BY <3>2, <5>1, Zenon
        <5>3. i \in 1..Len(f[n]) /\ j \in 1..Len(f[n])
          BY <3>2
        <5> QED
          BY <5>1, <5>2, <5>3, Zenon DEF Before
      <4>3. CASE l = n
        <5>1. Contains(f[m], q[k])
          BY <2>1, <3>5, <4>1
        <5>2. PICK i \in 1..Len(f[m]) : f[m][i] = q[k]
          BY <5>1 DEF Contains
        <5>3. /\ i \in 1..Len(f[n]) /\ Len(f[m]) + 1 \in 1..Len(f[n]) /\ i < Len(f[m]) + 1
          BY <3>2
        <5> QED
          BY <3>2, <4>3, <5>2, <5>3, Zenon DEF Before
      <4> QED
        BY <2>4, <4>2, <4>3
    <3> QED
      BY <2>2, <3>2, <3>4, <3>5 DEF n
  <2> QED
    BY <2>5, <2>6
<1>6. \A i \in 0..Len(q) : i \in S
  <2>1. Len(q) \in Nat
    OBVIOUS
  <2> HIDE DEF S
  <2> QED
    BY <1>4, <1>5, <2>1, UpTo
<1>7. Typed(Len(q)) /\ Same(Len(q)) /\ Ordered(Len(q))
  <2>1. Len(q) \in 0..Len(q)
    OBVIOUS
  <2> HIDE DEF Typed, Same, Ordered
  <2> QED
    BY <1>6, <2>1, Zenon
<1>8. \A x : Contains(f[Len(q)], x) <=> Contains(q, x) /\ x.id # c
  <2>1. \A x : Contains(q, x) <=> \E k \in 1..Len(q) : q[k] = x
    BY Zenon DEF Contains
  <2> QED
    BY <1>7, <2>1, Zenon
<1>9. \A a, b : Before(q, a, b) /\ a.id # c /\ b.id # c => Before(f[Len(q)], a, b)
  <2> SUFFICES ASSUME NEW a, NEW b, Before(q, a, b), a.id # c, b.id # c
               PROVE  Before(f[Len(q)], a, b)
    BY Zenon
  <2>1. PICK k, l \in 1..Len(q) : k < l /\ q[k] = a /\ q[l] = b
    BY Zenon DEF Before
  <2> QED
    BY <1>7, <2>1
<1>10. f[Len(q)] \in Seq(Task)
  BY <1>7
<1>11. Without(q, c) \in Seq(Task)
  BY <1>2, <1>10, Zenon
<1>12. \A x : Contains(Without(q, c), x) <=> Contains(q, x) /\ x.id # c
  BY <1>2, <1>8, Zenon
<1>13. \A a, b : Before(q, a, b) /\ a.id # c /\ b.id # c => Before(Without(q, c), a, b)
  BY <1>2, <1>9, Zenon
<1> QED
  BY <1>11, <1>12, <1>13, Zenon

\* The fields of a connection of the multiplexer.
MuxConnFields == {"here", "addr", "read", "ends"}
\* The fields of the multiplexer.
UdpFields == {"state", "error", "conn", "addr_to_id", "recv", "queue"}

\* What holds of the tables: conns is m_connections, map the addresses, q the
\* queued tasks. Of two connections with the same pair, one is closed before
\* the other one is opened.
Tables(conns, map, q) ==
  /\ DOMAIN conns = Conns
  /\ \A c \in Conns : DOMAIN conns[c] = MuxConnFields
  /\ map \in [Addrs -> Conns \cup {None}]
  /\ q \in Seq(Task)
  /\ \A c \in Conns : conns[c].here => conns[c].addr \in Addrs
  /\ \A t \in Task : Contains(q, t) => conns[t.id].here
  /\ \A c, d \in Conns :
       c # d /\ conns[c].here /\ conns[d].here /\ conns[c].addr = conns[d].addr =>
         Before(q, EndTask(c), OpenTask(d)) \/ Before(q, EndTask(d), OpenTask(c))
  /\ \A c \in Conns :
       conns[c].here => \/ map[conns[c].addr] = c
                        \/ Contains(q, OpenTask(c)) \/ Contains(q, EndTask(c))
  /\ \A a \in Addrs : map[a] # None => conns[map[a]].here /\ conns[map[a]].addr = a

\* A task is one of the two tasks of its connection.
LEMMA TaskOf ==
  ASSUME NEW t \in Task
  PROVE  t.id \in Conns /\ (t = OpenTask(t.id) \/ t = EndTask(t.id))
  BY DEF Task, OpenTask, EndTask

\* The tasks of a connection, and how they differ.
LEMMA TasksOf ==
  ASSUME NEW c \in Conns
  PROVE  /\ OpenTask(c) \in Task /\ EndTask(c) \in Task
         /\ OpenTask(c).id = c /\ EndTask(c).id = c
         /\ \A d \in Conns : /\ OpenTask(c) # EndTask(d)
                             /\ OpenTask(c) = OpenTask(d) => c = d
                             /\ EndTask(c) = EndTask(d) => c = d
  BY DEF Task, OpenTask, EndTask

\* Appending a task keeps the others and their order.
LEMMA AppendFacts ==
  ASSUME NEW q \in Seq(Task), NEW t \in Task
  PROVE  /\ Append(q, t) \in Seq(Task)
         /\ \A x : Contains(Append(q, t), x) <=> Contains(q, x) \/ x = t
         /\ \A a, b : Before(q, a, b) => Before(Append(q, t), a, b)
         /\ \A a : Contains(q, a) => Before(Append(q, t), a, t)
  <1> DEFINE p == Append(q, t)
  <1>1. /\ p \in Seq(Task) /\ Len(p) = Len(q) + 1 /\ Len(q) \in Nat
        /\ \A i \in 1..Len(q) : p[i] = q[i]
        /\ p[Len(q) + 1] = t
    OBVIOUS
  <1>2. \A i : i \in 1..Len(p) <=> i \in 1..Len(q) \/ i = Len(q) + 1
    BY <1>1
  <1>3. \A i \in 1..Len(q) : i < Len(q) + 1
    BY <1>1
  <1> HIDE DEF p
  <1>4. \A x : Contains(p, x) <=> Contains(q, x) \/ x = t
    BY <1>1, <1>2, Zenon DEF Contains
  <1>5. ASSUME NEW a, NEW b, Before(q, a, b) PROVE Before(p, a, b)
    <2>1. PICK i, j \in 1..Len(q) : i < j /\ q[i] = a /\ q[j] = b
      BY <1>5, Zenon DEF Before
    <2>2. i \in 1..Len(p) /\ j \in 1..Len(p) /\ p[i] = a /\ p[j] = b
      BY <1>1, <1>2, <2>1, Zenon
    <2>3. QED
      BY <2>1, <2>2, Zenon DEF Before
  <1>6. ASSUME NEW a, Contains(q, a) PROVE Before(p, a, t)
    <2>1. PICK i \in 1..Len(q) : q[i] = a
      BY <1>6, Zenon DEF Contains
    <2>2. i \in 1..Len(p) /\ Len(q) + 1 \in 1..Len(p) /\ p[i] = a /\ i < Len(q) + 1
      BY <1>1, <1>2, <1>3, <2>1, Zenon
    <2>3. QED
      BY <1>1, <2>2, Zenon DEF Before
  <1>7. QED
    BY <1>1, <1>4, <1>5, <1>6, Zenon DEF p

\* Taking the first task keeps the others, and every order in which it is not the first.
LEMMA TailFacts ==
  ASSUME NEW q \in Seq(Task), q # <<>>
  PROVE  /\ Head(q) \in Task /\ Contains(q, Head(q)) /\ Tail(q) \in Seq(Task)
         /\ \A x : Contains(Tail(q), x) => Contains(q, x)
         /\ \A x : Contains(q, x) /\ x # Head(q) => Contains(Tail(q), x)
         /\ \A a, b : Before(q, a, b) /\ a # Head(q) => Before(Tail(q), a, b)
  <1> DEFINE p == Tail(q)
  <1>1. /\ p \in Seq(Task) /\ Len(p) = Len(q) - 1 /\ Len(q) \in Nat /\ Len(q) # 0
        /\ \A i \in 1..Len(p) : p[i] = q[i + 1]
        /\ Head(q) = q[1] /\ Head(q) \in Task
    OBVIOUS
  <1> HIDE DEF p
  <1>2. 1 \in 1..Len(q)
    BY <1>1
  <1>3. \A i \in 1..Len(p) : i + 1 \in 1..Len(q)
    BY <1>1
  <1>4. \A i \in 1..Len(q) : i # 1 => i - 1 \in 1..Len(p) /\ p[i - 1] = q[i]
    BY <1>1
  <1>5. ASSUME NEW a, NEW b, Before(q, a, b), a # Head(q) PROVE Before(p, a, b)
    <2>1. PICK i, j \in 1..Len(q) : i < j /\ q[i] = a /\ q[j] = b
      BY <1>5, Zenon DEF Before
    <2>2. i # 1 /\ j # 1 /\ i - 1 < j - 1
      BY <1>1, <1>5, <2>1
    <2>3. /\ i - 1 \in 1..Len(p) /\ j - 1 \in 1..Len(p) /\ p[i - 1] = a /\ p[j - 1] = b
      BY <1>4, <2>1, <2>2, Zenon
    <2>4. QED
      BY <2>2, <2>3, Zenon DEF Before
  <1>6. ASSUME NEW x, Contains(p, x) PROVE Contains(q, x)
    BY <1>1, <1>3, <1>6, Zenon DEF Contains
  <1>7. ASSUME NEW x, Contains(q, x), x # Head(q) PROVE Contains(p, x)
    BY <1>1, <1>4, <1>7, Zenon DEF Contains
  <1>8. Contains(q, Head(q))
    BY <1>1, <1>2, Zenon DEF Contains
  <1>9. QED
    BY <1>1, <1>5, <1>6, <1>7, <1>8, Zenon DEF p

\* A connection is opened for a pair of which every other connection is being closed.
LEMMA TablesOpen ==
  ASSUME NEW conns, NEW map, NEW q, Tables(conns, map, q), NEW c \in Conns, ~conns[c].here,
         NEW a \in Addrs,
         \A d \in Conns : conns[d].here /\ conns[d].addr = a => Contains(q, EndTask(d))
  PROVE  Tables([conns EXCEPT ![c] = [NoConn EXCEPT !.here = TRUE, !.addr = a]], map,
                Append(q, OpenTask(c)))
  <1> DEFINE new == [conns EXCEPT ![c] = [NoConn EXCEPT !.here = TRUE, !.addr = a]]
             p == Append(q, OpenTask(c))
  <1>1. /\ DOMAIN new = Conns /\ \A d \in Conns : DOMAIN new[d] = MuxConnFields
        /\ new[c].here = TRUE /\ new[c].addr = a
        /\ \A d \in Conns : d # c => new[d] = conns[d]
    BY DEF Tables, MuxConnFields, NoConn
  <1>2. /\ p \in Seq(Task)
        /\ \A x : Contains(p, x) <=> Contains(q, x) \/ x = OpenTask(c)
        /\ \A x, y : Before(q, x, y) => Before(p, x, y)
        /\ \A x : Contains(q, x) => Before(p, x, OpenTask(c))
    <2>1. OpenTask(c) \in Task /\ q \in Seq(Task)
      BY TasksOf DEF Tables
    <2>2. QED
      BY <2>1, AppendFacts, Zenon
  <1> HIDE DEF new, p
  <1>3. \A t \in Task : Contains(p, t) => new[t.id].here
    BY <1>1, <1>2, TaskOf, TasksOf DEF Tables
  <1>4. ASSUME NEW d \in Conns, NEW e \in Conns, d # e, new[d].here, new[e].here,
               new[d].addr = new[e].addr
        PROVE  Before(p, EndTask(d), OpenTask(e)) \/ Before(p, EndTask(e), OpenTask(d))
    <2>1. CASE d = c
      BY <1>1, <1>2, <1>4, <2>1
    <2>2. CASE e = c
      BY <1>1, <1>2, <1>4, <2>2
    <2>3. CASE d # c /\ e # c
      BY <1>1, <1>2, <1>4, <2>3 DEF Tables
    <2>4. QED
      BY <2>1, <2>2, <2>3
  <1>5. \A d \in Conns :
          new[d].here => \/ map[new[d].addr] = d
                         \/ Contains(p, OpenTask(d)) \/ Contains(p, EndTask(d))
    BY <1>1, <1>2 DEF Tables
  <1>6. \A b \in Addrs : map[b] # None => new[map[b]].here /\ new[map[b]].addr = b
    BY <1>1 DEF Tables
  <1>7. \A d \in Conns : new[d].here => new[d].addr \in Addrs
    BY <1>1 DEF Tables
  <1>8. Tables(new, map, p)
    BY <1>1, <1>2, <1>3, <1>4, <1>5, <1>6, <1>7 DEF Tables
  <1>9. QED
    BY <1>8 DEF new, p

\* The first task maps the pair of its connection, which nobody keeps without a task.
LEMMA TablesComplete ==
  ASSUME NEW conns, NEW map, NEW q, Tables(conns, map, q), q # <<>>, Head(q).do = "open"
  PROVE  Tables(conns, [map EXCEPT ![conns[Head(q).id].addr] = Head(q).id], Tail(q))
  <1> DEFINE c == Head(q).id
             a == conns[c].addr
             to == [map EXCEPT ![a] = c]
             p == Tail(q)
  <1>1. /\ Head(q) \in Task /\ Contains(q, Head(q)) /\ p \in Seq(Task)
        /\ \A x : Contains(p, x) => Contains(q, x)
        /\ \A x : Contains(q, x) /\ x # Head(q) => Contains(p, x)
        /\ \A x, y : Before(q, x, y) /\ x # Head(q) => Before(p, x, y)
    <2>1. q \in Seq(Task)
      BY DEF Tables
    <2>2. QED
      BY <2>1, TailFacts, Zenon
  <1>2. c \in Conns /\ Head(q) = OpenTask(c)
    BY <1>1 DEF Task, OpenTask
  <1>3. conns[c].here /\ a \in Addrs
    BY <1>1, <1>2 DEF Tables
  <1> HIDE DEF c, a, p
  <1>4. /\ to \in [Addrs -> Conns \cup {None}] /\ to[a] = c
        /\ \A b \in Addrs : b # a => to[b] = map[b]
    BY <1>2, <1>3 DEF Tables
  <1> HIDE DEF to
  <1>5. ASSUME NEW d \in Conns, NEW e \in Conns, d # e, conns[d].here, conns[e].here,
               conns[d].addr = conns[e].addr
        PROVE  Before(p, EndTask(d), OpenTask(e)) \/ Before(p, EndTask(e), OpenTask(d))
    <2>1. Before(q, EndTask(d), OpenTask(e)) \/ Before(q, EndTask(e), OpenTask(d))
      BY <1>5, Zenon DEF Tables
    <2>2. Head(q) # EndTask(d) /\ Head(q) # EndTask(e)
      BY <1>2 DEF OpenTask, EndTask
    <2>3. QED
      BY <1>1, <2>1, <2>2
  <1>6. ASSUME NEW d \in Conns, conns[d].here
        PROVE  \/ to[conns[d].addr] = d
               \/ Contains(p, OpenTask(d)) \/ Contains(p, EndTask(d))
    <2>1. CASE d = c
      BY <1>4, <2>1 DEF a
    <2>2. CASE d # c /\ conns[d].addr = a
      <3>1. Before(p, EndTask(d), OpenTask(c)) \/ Before(p, EndTask(c), OpenTask(d))
        BY <1>2, <1>3, <1>5, <1>6, <2>2 DEF a
      <3>2. QED
        BY <3>1 DEF Before, Contains
    <2>3. CASE d # c /\ conns[d].addr # a
      BY <1>1, <1>2, <1>4, <1>6, <2>3, TasksOf DEF Tables
    <2>4. QED
      BY <2>1, <2>2, <2>3
  <1>7. \A b \in Addrs : to[b] # None => conns[to[b]].here /\ conns[to[b]].addr = b
    BY <1>2, <1>3, <1>4 DEF Tables, a
  <1>8. \A t \in Task : Contains(p, t) => conns[t.id].here
    BY <1>1 DEF Tables
  <1>9. Tables(conns, to, p)
    BY <1>1, <1>4, <1>5, <1>6, <1>7, <1>8 DEF Tables
  <1>10. QED
    BY <1>9 DEF to, p, a, c

\* Erasing a connection: a pair that somebody else keeps without a task was not its own.
LEMMA TablesClean ==
  ASSUME NEW conns, NEW map, NEW q, Tables(conns, map, q), NEW c \in Conns, conns[c].here,
         NEW new, DOMAIN new = Conns, \A d \in Conns : DOMAIN new[d] = MuxConnFields,
         ~new[c].here, \A d \in Conns : d # c => new[d] = conns[d]
  PROVE  Tables(new, [map EXCEPT ![conns[c].addr] = None], Without(q, c))
  <1> DEFINE a == conns[c].addr
             to == [map EXCEPT ![a] = None]
             p == Without(q, c)
  <1>1. /\ p \in Seq(Task)
        /\ \A x : Contains(p, x) <=> Contains(q, x) /\ x.id # c
        /\ \A x, y : Before(q, x, y) /\ x.id # c /\ y.id # c => Before(p, x, y)
    <2>1. q \in Seq(Task)
      BY DEF Tables
    <2>2. QED
      BY <2>1, WithoutProperties, Zenon
  <1>2. a \in Addrs
    BY DEF Tables
  <1> HIDE DEF p, a
  <1>3. /\ to \in [Addrs -> Conns \cup {None}] /\ to[a] = None
        /\ \A b \in Addrs : b # a => to[b] = map[b]
    BY <1>2 DEF Tables
  <1> HIDE DEF to
  <1>4. \A t \in Task : Contains(p, t) => new[t.id].here
    BY <1>1, TaskOf DEF Tables
  <1>5. ASSUME NEW d \in Conns, NEW e \in Conns, d # e, new[d].here, new[e].here,
               new[d].addr = new[e].addr
        PROVE  Before(p, EndTask(d), OpenTask(e)) \/ Before(p, EndTask(e), OpenTask(d))
    <2>1. d # c /\ e # c
      BY <1>5
    <2>2. Before(q, EndTask(d), OpenTask(e)) \/ Before(q, EndTask(e), OpenTask(d))
      BY <1>5, <2>1 DEF Tables
    <2>3. QED
      BY <1>1, <2>1, <2>2, TasksOf
  <1>6. ASSUME NEW d \in Conns, new[d].here
        PROVE  \/ to[new[d].addr] = d
               \/ Contains(p, OpenTask(d)) \/ Contains(p, EndTask(d))
    <2>1. d # c /\ new[d] = conns[d] /\ conns[d].addr \in Addrs
      BY <1>6 DEF Tables
    <2>2. CASE conns[d].addr = a
      <3>1. Before(q, EndTask(d), OpenTask(c)) \/ Before(q, EndTask(c), OpenTask(d))
        BY <1>6, <2>1, <2>2 DEF Tables, a
      <3>2. Contains(q, EndTask(d)) \/ Contains(q, OpenTask(d))
        BY <3>1 DEF Before, Contains
      <3>3. QED
        BY <1>1, <2>1, <3>2, TasksOf
    <2>3. CASE conns[d].addr # a
      BY <1>1, <1>3, <1>6, <2>1, <2>3, TasksOf DEF Tables
    <2>4. QED
      BY <2>2, <2>3
  <1>7. \A b \in Addrs : to[b] # None => new[to[b]].here /\ new[to[b]].addr = b
    BY <1>3 DEF Tables, a
  <1>8. \A d \in Conns : new[d].here => new[d].addr \in Addrs
    BY DEF Tables
  <1>9. Tables(new, to, p)
    BY <1>1, <1>3, <1>4, <1>5, <1>6, <1>7, <1>8 DEF Tables
  <1>10. QED
    BY <1>9 DEF to, p, a

\* A closing that is put off leaves everything as it is until its task runs.
LEMMA TablesPutOff ==
  ASSUME NEW conns, NEW map, NEW q, Tables(conns, map, q), NEW c \in Conns, conns[c].here
  PROVE  Tables(conns, map, Append(q, EndTask(c)))
  <1> DEFINE p == Append(q, EndTask(c))
  <1>1. /\ p \in Seq(Task)
        /\ \A x : Contains(p, x) <=> Contains(q, x) \/ x = EndTask(c)
        /\ \A x, y : Before(q, x, y) => Before(p, x, y)
    <2>1. EndTask(c) \in Task /\ q \in Seq(Task)
      BY TasksOf DEF Tables
    <2>2. QED
      BY <2>1, AppendFacts, ZenonT(40)
  <1> HIDE DEF p
  <1>2. \A t \in Task : Contains(p, t) => conns[t.id].here
    BY <1>1, TasksOf DEF Tables
  <1>3. Tables(conns, map, p)
    BY <1>1, <1>2 DEF Tables
  <1>4. QED
    BY <1>3 DEF p

\* The tables of a multiplexer without connections.
LEMMA TablesEmpty ==
  ASSUME NEW conns, DOMAIN conns = Conns,
         \A c \in Conns : DOMAIN conns[c] = MuxConnFields /\ ~conns[c].here
  PROVE  Tables(conns, [a \in Addrs |-> None], <<>>)
  BY DEF Tables, Contains, Before

\* The packet being received.
IsRecv(r) ==
  /\ r \in [state : {"IDLE", "PAYLOAD", "DROPPING"}, buffer : Nat, left : Nat,
           id : Conns \cup {None}]
  /\ r.state = "IDLE" => r.id = None

\* The packet the stream is in the middle of.
IsPacket(p) ==
  /\ DOMAIN p = {"addr", "prefix", "payload", "fits"}
  /\ p.prefix \in 0..Prefix /\ p.payload \in Nat

\* What is expected is what the stream still has.
Framed(r, p) ==
  IF r.state = "IDLE"
  THEN IF p.prefix = 0 THEN r.buffer = 0 /\ p.payload = 0 ELSE r.buffer = Prefix - p.prefix
  ELSE p.prefix = 0 /\ r.left = p.payload

\* The invariant of the two multiplexers. An idle one has no connection and is
\* between two packets, for the next stream starts with one. The place in the
\* stream is kept until a length does not fit; that a payload is received for a
\* connection in the table does not depend on it.
MuxInv ==
  /\ DOMAIN udp = UdpFields /\ udp.state \in {"IDLE", "ESTABLISHED"}
  /\ Tables(udp.conn, udp.addr_to_id, udp.queue)
  /\ udp.state = "IDLE" => udp.recv = Idle /\ \A c \in Conns : ~udp.conn[c].here
  /\ IsRecv(udp.recv)
  /\ udp.recv.state = "PAYLOAD" => udp.recv.id \in Conns /\ udp.conn[udp.recv.id].here
  /\ DOMAIN wire = {"udp", "icmp", "lost"} /\ IsPacket(wire.udp)
  /\ udp.state = "ESTABLISHED" /\ ~wire.lost => Framed(udp.recv, wire.udp)
  /\ DOMAIN icmp = {"state", "buffer"} /\ icmp.state \in {"IDLE", "ESTABLISHED"}
  /\ wire.icmp \in 0..(Reply - 1)
  /\ icmp.buffer = IF icmp.state = "ESTABLISHED" THEN wire.icmp ELSE 0

\* The streams that are not open yet.
LEMMA MuxInit == Init => MuxInv
  <1> SUFFICES ASSUME Init PROVE MuxInv
    OBVIOUS
  <1>1. /\ udp.conn = [c \in Conns |-> NoConn]
        /\ udp.addr_to_id = [a \in Addrs |-> None] /\ udp.queue = <<>>
    BY DEF Init
  <1>2. /\ DOMAIN udp.conn = Conns
        /\ \A c \in Conns : DOMAIN udp.conn[c] = MuxConnFields /\ ~udp.conn[c].here
    BY <1>1 DEF NoConn, MuxConnFields
  <1>3. Tables(udp.conn, udp.addr_to_id, udp.queue)
    BY <1>1, <1>2, TablesEmpty, ZenonT(40)
  <1>4. QED
    BY <1>2, <1>3, HttpUdpMuxAssumption
    DEF Init, MuxInv, UdpFields, IsRecv, Idle, IsPacket, NoPacket

\* A step of the tables that leaves the parser and the streams alone, or drops
\* the payload of a connection that goes.
LEMMA TableStep ==
  ASSUME MuxInv, UNCHANGED <<icmp, wire>>, udp.state = "ESTABLISHED",
         DOMAIN udp' = UdpFields, udp'.state = "ESTABLISHED",
         Tables(udp'.conn, udp'.addr_to_id, udp'.queue),
         \/ /\ udp'.recv = udp.recv
            /\ udp.recv.state = "PAYLOAD" => udp'.conn[udp.recv.id].here
         \/ /\ udp.recv.id \in Conns
            /\ udp'.recv = [udp.recv EXCEPT !.state = "DROPPING"]
  PROVE  MuxInv'
  <1>1. /\ IsRecv(udp'.recv) /\ (~wire.lost => Framed(udp'.recv, wire.udp))
        /\ udp'.recv.state = "PAYLOAD" => udp'.recv.id \in Conns /\ udp'.conn[udp'.recv.id].here
    BY HttpUdpMuxAssumption DEF MuxInv, IsRecv, Framed
  <1>2. QED
    BY <1>1 DEF MuxInv

\* Erasing a connection.
LEMMA CleanStep ==
  ASSUME MuxInv, UNCHANGED <<icmp, wire>>, NEW c \in Conns, udp.conn[c].here,
         udp' = clean_connection_data(udp, c)
  PROVE  MuxInv'
  <1>0. /\ udp.state = "ESTABLISHED" /\ DOMAIN udp = UdpFields
        /\ Tables(udp.conn, udp.addr_to_id, udp.queue) /\ IsRecv(udp.recv)
    BY DEF MuxInv
  <1> DEFINE st == IF udp.recv.id = c THEN "DROPPING" ELSE udp.recv.state
             new == [udp.conn EXCEPT ![c].here = FALSE, ![c].ends = @ + 1]
             to == [udp.addr_to_id EXCEPT ![udp.conn[c].addr] = None]
  <1>1. /\ DOMAIN udp' = UdpFields /\ udp'.state = "ESTABLISHED"
        /\ udp'.conn = new /\ udp'.addr_to_id = to /\ udp'.queue = Without(udp.queue, c)
        /\ udp'.recv = [udp.recv EXCEPT !.state = st]
    BY <1>0 DEF clean_connection_data, UdpFields
  <1>2. /\ DOMAIN new = Conns /\ \A d \in Conns : DOMAIN new[d] = MuxConnFields
        /\ ~new[c].here /\ \A d \in Conns : d # c => new[d] = udp.conn[d]
    BY <1>0 DEF Tables, MuxConnFields
  <1> HIDE DEF new, to
  <1>3. Tables(udp'.conn, udp'.addr_to_id, udp'.queue)
    <2>1. Tables(new, [udp.addr_to_id EXCEPT ![udp.conn[c].addr] = None], Without(udp.queue, c))
      BY <1>0, <1>2, TablesClean
    <2>2. QED
      BY <1>1, <2>1, Zenon DEF to
  <1>4. CASE udp.recv.id = c
    <2>1. udp'.recv = [udp.recv EXCEPT !.state = "DROPPING"] /\ udp.recv.id \in Conns
      BY <1>1, <1>4
    <2>2. QED
      BY <1>0, <1>1, <1>3, <2>1, TableStep, Zenon
  <1>5. CASE udp.recv.id # c
    <2>1. udp'.recv = udp.recv
      BY <1>0, <1>1, <1>5 DEF IsRecv
    <2>2. udp.recv.state = "PAYLOAD" => udp'.conn[udp.recv.id].here
      BY <1>1, <1>2, <1>5 DEF MuxInv
    <2>3. QED
      BY <1>0, <1>1, <1>3, <2>1, <2>2, TableStep, Zenon
  <1>6. QED
    BY <1>4, <1>5

\* The tables do not look at the flag and the counter of a connection.
LEMMA TablesSame ==
  ASSUME NEW conns, NEW map, NEW q, Tables(conns, map, q), NEW new, DOMAIN new = Conns,
         \A c \in Conns : /\ DOMAIN new[c] = MuxConnFields
                             /\ new[c].here = conns[c].here /\ new[c].addr = conns[c].addr
  PROVE  Tables(new, map, q)
  <1>1. \A t \in Task : Contains(q, t) => new[t.id].here
    BY TaskOf DEF Tables
  <1>2. \A a \in Addrs : map[a] # None => new[map[a]].here /\ new[map[a]].addr = a
    BY DEF Tables
  <1>3. QED
    BY <1>1, <1>2 DEF Tables

\* The steps of the connections.
LEMMA MuxConnections ==
  ASSUME MuxInv,
         \/ \E c \in Conns : open_connection(c) \/ close_connection(c) \/ set_read_enabled(c)
         \/ complete_udp_connection \/ CloseTask \/ timer_callback
         \/ handle_response \/ close
  PROVE  MuxInv'
  <1>0. /\ DOMAIN udp = UdpFields /\ Tables(udp.conn, udp.addr_to_id, udp.queue) /\ IsRecv(udp.recv)
    BY DEF MuxInv
  <1>1. ASSUME NEW c \in Conns, open_connection(c) PROVE MuxInv'
    <2>1. PICK a \in Addrs :
            /\ \A d \in Conns : udp.conn[d].here /\ udp.conn[d].addr = a =>
                                     Contains(udp.queue, EndTask(d))
            /\ udp' = [udp EXCEPT !.state = "ESTABLISHED",
                         !.conn[c] = [NoConn EXCEPT !.here = TRUE, !.addr = a],
                         !.queue = Append(@, OpenTask(c))]
      BY <1>1, Zenon DEF open_connection, Here, OpenTask, EndTask
    <2>2. ~udp.conn[c].here /\ icmp' = icmp
          /\ wire' = IF udp.state = "IDLE" THEN [wire EXCEPT !.udp = NoPacket, !.lost = FALSE] ELSE wire
      BY <1>1, Zenon DEF open_connection, Here
    <2>3. /\ DOMAIN udp' = UdpFields /\ udp'.state = "ESTABLISHED" /\ udp'.recv = udp.recv
          /\ udp'.addr_to_id = udp.addr_to_id /\ udp'.queue = Append(udp.queue, OpenTask(c))
          /\ udp'.conn = [udp.conn EXCEPT ![c] = [NoConn EXCEPT !.here = TRUE, !.addr = a]]
      BY <1>0, <2>1 DEF UdpFields
    <2>4. Tables(udp'.conn, udp'.addr_to_id, udp'.queue)
      <3>1. Tables([udp.conn EXCEPT ![c] = [NoConn EXCEPT !.here = TRUE, !.addr = a]],
                   udp.addr_to_id, Append(udp.queue, OpenTask(c)))
        BY <1>0, <2>1, <2>2, TablesOpen, ZenonT(40)
      <3>2. QED
        BY <2>3, <3>1, Zenon
    <2>5. \A d \in Conns : udp.conn[d].here => udp'.conn[d].here
      BY <1>0, <2>2, <2>3 DEF Tables
    <2>6. CASE udp.state = "IDLE"
      <3>1. /\ wire'.udp = NoPacket /\ wire'.icmp = wire.icmp /\ DOMAIN wire' = {"udp", "icmp", "lost"}
            /\ udp'.recv = Idle
        BY <2>2, <2>3, <2>6 DEF MuxInv
      <3>2. IsPacket(wire'.udp) /\ IsRecv(udp'.recv) /\ Framed(udp'.recv, wire'.udp)
            /\ udp'.recv.state # "PAYLOAD"
        BY <3>1, HttpUdpMuxAssumption DEF IsPacket, IsRecv, Framed, NoPacket, Idle
      <3>3. QED
        BY <2>2, <2>3, <2>4, <3>1, <3>2 DEF MuxInv
    <2>7. CASE udp.state # "IDLE"
      <3>1. udp.state = "ESTABLISHED" /\ UNCHANGED <<icmp, wire>>
        BY <2>2, <2>7 DEF MuxInv
      <3>2. udp.recv.state = "PAYLOAD" => udp'.conn[udp.recv.id].here
        BY <2>5 DEF MuxInv
      <3>3. QED
        BY <2>3, <2>4, <3>1, <3>2, TableStep, Zenon
    <2>8. QED
      BY <2>6, <2>7
  <1>2. ASSUME NEW c \in Conns, close_connection(c) PROVE MuxInv'
    <2>1. udp.conn[c].here /\ UNCHANGED <<icmp, wire>>
      BY <1>2 DEF close_connection, Here
    <2>2. CASE udp' = clean_connection_data(udp, c)
      BY <2>1, <2>2, CleanStep, Zenon
    <2>3. CASE udp' = [udp EXCEPT !.queue = Append(@, [do |-> "close", id |-> c])]
      <3>1. /\ DOMAIN udp' = UdpFields /\ udp'.state = udp.state /\ udp'.recv = udp.recv
            /\ udp'.conn = udp.conn /\ udp'.addr_to_id = udp.addr_to_id
            /\ udp'.queue = Append(udp.queue, EndTask(c))
        BY <1>0, <2>3 DEF UdpFields, EndTask
      <3>2. Tables(udp'.conn, udp'.addr_to_id, udp'.queue)
        BY <1>0, <2>1, <3>1, TablesPutOff, ZenonT(40)
      <3>3. udp.state = "ESTABLISHED" /\ (udp.recv.state = "PAYLOAD" => udp'.conn[udp.recv.id].here)
        BY <2>1, <3>1 DEF MuxInv
      <3>4. QED
        BY <2>1, <3>1, <3>2, <3>3, TableStep, Zenon
    <2>4. QED
      BY <1>2, <2>2, <2>3 DEF close_connection
  <1>3. ASSUME NEW c \in Conns, set_read_enabled(c) PROVE MuxInv'
    <2> DEFINE b == ~udp.conn[c].read
               new == [udp.conn EXCEPT ![c].read = b]
    <2>1. udp.conn[c].here /\ UNCHANGED <<icmp, wire>> /\ udp' = [udp EXCEPT !.conn[c].read = b]
      BY <1>3 DEF set_read_enabled, Here
    <2> HIDE DEF b
    <2>2. /\ DOMAIN udp' = UdpFields /\ udp'.state = udp.state /\ udp'.recv = udp.recv
          /\ udp'.conn = new /\ udp'.addr_to_id = udp.addr_to_id /\ udp'.queue = udp.queue
      BY <1>0, <2>1 DEF UdpFields
    <2>3. /\ DOMAIN new = Conns
          /\ \A d \in Conns : /\ DOMAIN new[d] = MuxConnFields
                                 /\ new[d].here = udp.conn[d].here /\ new[d].addr = udp.conn[d].addr
      BY <1>0, ZenonT(40) DEF Tables, MuxConnFields
    <2> HIDE DEF new
    <2>4. Tables(udp'.conn, udp'.addr_to_id, udp'.queue)
      BY <1>0, <2>2, <2>3, TablesSame, ZenonT(40)
    <2>5. udp.state = "ESTABLISHED" /\ (udp.recv.state = "PAYLOAD" => udp'.conn[udp.recv.id].here)
      BY <2>1, <2>2, <2>3 DEF MuxInv
    <2>6. QED
      BY <2>1, <2>2, <2>4, <2>5, TableStep, Zenon
  <1>4. CASE complete_udp_connection
    <2> DEFINE c == Head(udp.queue).id
               a == udp.conn[c].addr
    <2>1. udp.queue # <<>> /\ Head(udp.queue).do = "open" /\ UNCHANGED <<icmp, wire>>
          /\ udp' = [udp EXCEPT !.queue = Tail(@),
                                !.addr_to_id[a] = IF udp.state = "ESTABLISHED" THEN c ELSE @]
      BY <1>4, Zenon DEF complete_udp_connection
    <2>2. Head(udp.queue) \in Task /\ Contains(udp.queue, Head(udp.queue))
      BY <1>0, <2>1, TailFacts, Zenon DEF Tables
    <2>3. udp.state = "ESTABLISHED"
      BY <1>0, <2>2, TaskOf, ZenonT(40) DEF MuxInv, Tables
    <2>4. /\ DOMAIN udp' = UdpFields /\ udp'.state = udp.state /\ udp'.recv = udp.recv
          /\ udp'.conn = udp.conn /\ udp'.queue = Tail(udp.queue)
          /\ udp'.addr_to_id = [udp.addr_to_id EXCEPT ![a] = c]
      BY <1>0, <2>1, <2>3 DEF UdpFields
    <2>5. Tables(udp'.conn, udp'.addr_to_id, udp'.queue)
      <3>1. Tables(udp.conn, [udp.addr_to_id EXCEPT ![a] = c], Tail(udp.queue))
        BY <1>0, <2>1, TablesComplete, Zenon
      <3>2. QED
        BY <2>4, <3>1, Zenon
    <2>6. udp.recv.state = "PAYLOAD" => udp'.conn[udp.recv.id].here
      BY <2>4 DEF MuxInv
    <2>7. QED
      BY <2>1, <2>3, <2>4, <2>5, <2>6, TableStep, Zenon
  <1>5. CASE CloseTask
    <2> DEFINE c == Head(udp.queue).id
    <2>1. udp.queue # <<>> /\ UNCHANGED <<icmp, wire>> /\ udp' = clean_connection_data(udp, c)
      BY <1>5 DEF CloseTask
    <2>2. Head(udp.queue) \in Task /\ Contains(udp.queue, Head(udp.queue))
      BY <1>0, <2>1, TailFacts DEF Tables
    <2>3. c \in Conns /\ udp.conn[c].here
      BY <1>0, <2>2, TaskOf DEF Tables
    <2> HIDE DEF c
    <2>4. QED
      BY <2>1, <2>3, CleanStep, Zenon
  <1>6. CASE timer_callback
    BY <1>6, CleanStep, Zenon DEF timer_callback, Here
  <1>7. CASE handle_response
    <2>1. udp.state = "ESTABLISHED" /\ UNCHANGED <<icmp, wire>> /\ udp' = [udp EXCEPT !.error = TRUE]
      BY <1>7 DEF handle_response
    <2>2. /\ DOMAIN udp' = UdpFields /\ udp'.state = udp.state /\ udp'.recv = udp.recv
          /\ udp'.conn = udp.conn /\ udp'.addr_to_id = udp.addr_to_id /\ udp'.queue = udp.queue
      BY <1>0, <2>1 DEF UdpFields
    <2>3. Tables(udp'.conn, udp'.addr_to_id, udp'.queue)
      BY <1>0, <2>2, ZenonT(40)
    <2>4. udp.recv.state = "PAYLOAD" => udp'.conn[udp.recv.id].here
      BY <2>2 DEF MuxInv
    <2>5. QED
      BY <2>1, <2>2, <2>3, <2>4, TableStep, Zenon
  <1>8. CASE close
    <2> DEFINE new == [c \in Conns |-> IF udp.conn[c].here
                                          THEN [udp.conn[c] EXCEPT !.here = FALSE, !.ends = @ + 1]
                                          ELSE udp.conn[c]]
    <2>1. /\ UNCHANGED <<icmp, wire>>
          /\ udp' = reset([udp EXCEPT !.conn = new, !.queue = <<>>])
      BY <1>8 DEF close, Here
    <2>2. /\ DOMAIN new = Conns
          /\ \A c \in Conns : DOMAIN new[c] = MuxConnFields /\ ~new[c].here
      BY <1>0 DEF Tables, MuxConnFields
    <2> HIDE DEF new
    <2>3. /\ DOMAIN udp' = UdpFields /\ udp'.state = "IDLE" /\ udp'.recv = Idle
          /\ udp'.conn = new /\ udp'.addr_to_id = [a \in Addrs |-> None] /\ udp'.queue = <<>>
      BY <1>0, <2>1 DEF UdpFields, reset
    <2>4. Tables(udp'.conn, udp'.addr_to_id, udp'.queue)
      BY <2>2, <2>3, TablesEmpty, Zenon
    <2>5. IsRecv(udp'.recv) /\ udp'.recv.state # "PAYLOAD"
      <3>1. IsRecv(Idle) /\ Idle.state # "PAYLOAD"
        BY DEF IsRecv, Idle
      <3>2. QED
        BY <2>3, <3>1, Zenon
    <2>6. QED
      BY <2>1, <2>2, <2>3, <2>4, <2>5 DEF MuxInv
  <1>9. QED
    BY <1>1, <1>2, <1>3, <1>4, <1>5, <1>6, <1>7, <1>8

\* A unit of a stream: the parser and the stream move on together.
LEMMA MuxReads ==
  ASSUME MuxInv, process_read_event
  PROVE  MuxInv'
  <1> DEFINE r == IF Finished(udp.recv) THEN Idle ELSE udp.recv
             Then(p) == IF r.state # "IDLE"
                        THEN IF r.left = 1 THEN Idle ELSE [r EXCEPT !.left = @ - 1]
                        ELSE IF r.buffer + 1 < Prefix THEN [r EXCEPT !.buffer = @ + 1]
                        ELSE read_prefix(p)
             On(p) == IF p.prefix > 0 THEN [p EXCEPT !.prefix = @ - 1] ELSE [p EXCEPT !.payload = @ - 1]
             Astray(p) == wire.lost \/ (~p.fits /\ p.prefix = 1)
  <1>0. /\ udp.state = "ESTABLISHED" /\ icmp' = icmp /\ DOMAIN udp = UdpFields
        /\ Tables(udp.conn, udp.addr_to_id, udp.queue) /\ IsRecv(udp.recv) /\ IsPacket(wire.udp)
        /\ (~wire.lost => Framed(udp.recv, wire.udp)) /\ DOMAIN wire = {"udp", "icmp", "lost"}
        /\ udp.recv.state = "PAYLOAD" => udp.recv.id \in Conns /\ udp.conn[udp.recv.id].here
    BY DEF MuxInv, process_read_event
  <1>1. PICK p \in Packet \cup {wire.udp} :
          /\ IF wire.udp.prefix = 0 /\ wire.udp.payload = 0
             THEN wire.udp.prefix = 0 /\ wire.udp.payload = 0 /\ p.prefix = Prefix ELSE p = wire.udp
          /\ udp' = [udp EXCEPT !.recv = Then(p)]
          /\ wire' = IF Astray(p) THEN [wire EXCEPT !.udp = NoPacket, !.lost = TRUE]
                     ELSE [wire EXCEPT !.udp = On(p)]
    BY Zenon DEF process_read_event, StartPacket, Onwards
  <1>2. IsPacket(p) /\ (p.prefix # 0 \/ p.payload # 0)
    <2>1. CASE p = wire.udp
      BY <1>0, <1>1, <2>1, HttpUdpMuxAssumption DEF IsPacket
    <2>2. CASE p \in Packet
      <3>1. DOMAIN p = {"addr", "prefix", "payload", "fits"} /\ p.prefix = Prefix /\ p.payload \in 0..MaxPayload
        <4>1. CASE p = Misfit
          BY <4>1, HttpUdpMuxAssumption DEF Misfit
        <4>2. CASE p \in [addr : Addrs \cup {None}, prefix : {Prefix}, payload : 0..MaxPayload, fits : {TRUE}]
          BY <4>2, ZenonT(40)
        <4>3. QED
          BY <2>2, <4>1, <4>2 DEF Packet
      <3>2. QED
        BY <3>1, HttpUdpMuxAssumption DEF IsPacket
    <2>3. QED
      BY <1>1, <2>1, <2>2
  <1>3. IsRecv(r) /\ (~wire.lost => Framed(r, wire.udp)) /\ (r.state = "IDLE" \/ r.left # 0)
        /\ (r.state = "PAYLOAD" => r.id \in Conns /\ udp.conn[r.id].here)
    BY <1>0 DEF IsRecv, Framed, Finished, Idle
  <1> HIDE DEF r
  <1>4. /\ DOMAIN udp' = UdpFields /\ udp'.state = udp.state /\ udp'.recv = Then(p)
        /\ udp'.conn = udp.conn /\ udp'.addr_to_id = udp.addr_to_id /\ udp'.queue = udp.queue
    BY <1>0, <1>1 DEF UdpFields
  <1>5. /\ DOMAIN wire' = {"udp", "icmp", "lost"} /\ wire'.icmp = wire.icmp
        /\ wire'.udp = IF Astray(p) THEN NoPacket ELSE On(p)
        /\ ~wire'.lost => ~Astray(p)
    BY <1>0, <1>1
  <1>6. IsPacket(On(p)) /\ IsPacket(NoPacket)
    BY <1>2, HttpUdpMuxAssumption DEF IsPacket, NoPacket
  <1> DEFINE x == Then(p)
             w == On(p)
  <1>7. /\ IsRecv(x)
        /\ x.state = "PAYLOAD" => x.id \in Conns /\ udp.conn[x.id].here
    <2>1. CASE r.state # "IDLE" /\ r.left = 1
      BY <2>1 DEF IsRecv, Idle
    <2>2. CASE r.state # "IDLE" /\ r.left # 1
      BY <1>3, <2>2 DEF IsRecv
    <2>3. CASE r.state = "IDLE" /\ r.buffer + 1 < Prefix
      BY <1>3, <2>3 DEF IsRecv
    <2>4. CASE r.state = "IDLE" /\ ~ (r.buffer + 1 < Prefix)
      <3> DEFINE c == IF p.fits /\ p.addr \in Addrs THEN udp.addr_to_id[p.addr] ELSE None
                 drop == c = None \/ ~udp.conn[c].here \/ ~udp.conn[c].read
                 l == IF p.fits THEN p.payload ELSE 0
      <3>1. x = read_prefix(p)
        BY <2>4
      <3>2. x = [state |-> IF drop THEN "DROPPING" ELSE "PAYLOAD", buffer |-> 0,
                 left |-> l, id |-> IF drop THEN None ELSE c]
        BY <3>1, Zenon DEF read_prefix, Here
      <3>3. ~drop => c \in Conns /\ udp.conn[c].here
        BY <1>0, ZenonT(40) DEF Tables
      <3>4. l \in Nat
        BY <1>2 DEF IsPacket
      <3> HIDE DEF x, c, drop, l
      <3>5. QED
        BY <3>2, <3>3, <3>4 DEF IsRecv
    <2>5. QED
      BY <2>1, <2>2, <2>3, <2>4
  <1>8. ASSUME ~Astray(p) PROVE Framed(x, w)
    <2>0. ~wire.lost /\ (p.prefix = 1 => p.fits) /\ Framed(r, wire.udp)
      BY <1>3, <1>8
    <2>1. CASE r.state # "IDLE"
      <3>1. p = wire.udp /\ p.prefix = 0 /\ p.payload = r.left /\ r.left \in Nat /\ r.left # 0
        BY <1>1, <1>3, <2>0, <2>1 DEF Framed, IsRecv
      <3>2. w = [p EXCEPT !.payload = @ - 1]
        BY <3>1
      <3>3. w.prefix = 0 /\ w.payload = r.left - 1
        BY <1>2, <3>1, <3>2 DEF IsPacket
      <3>4. CASE r.left = 1
        <4>1. x = Idle
          BY <2>1, <3>4
        <4>2. QED
          BY <3>3, <3>4, <4>1 DEF Framed, Idle
      <3>5. CASE r.left # 1
        <4>1. x = [r EXCEPT !.left = @ - 1]
          BY <2>1, <3>5
        <4> DEFINE l == r.left - 1
        <4>2. l \in Nat
          BY <3>1
        <4> HIDE DEF x, w, l
        <4>3. IsRecv(x) /\ x.state = r.state /\ x.left = l /\ x.id = r.id
          BY <1>3, <4>1, <4>2 DEF IsRecv, l
        <4>4. QED
          BY <1>3, <2>1, <3>3, <4>3 DEF Framed, l
      <3>6. QED
        BY <3>4, <3>5
    <2>2. CASE r.state = "IDLE"
      <3>1. p.prefix \in 1..Prefix /\ r.buffer = Prefix - p.prefix
        BY <1>1, <1>2, <2>0, <2>2, HttpUdpMuxAssumption DEF Framed, IsPacket
      <3>2. w = [p EXCEPT !.prefix = @ - 1]
        BY <3>1
      <3>3. w.prefix = p.prefix - 1 /\ w.payload = p.payload
        BY <1>2, <3>2 DEF IsPacket
      <3>4. CASE r.buffer + 1 < Prefix
        <4>1. x = [r EXCEPT !.buffer = @ + 1]
          BY <2>2, <3>4
        <4> DEFINE b == r.buffer + 1
        <4>2. b \in Nat
          BY <1>3 DEF IsRecv
        <4> HIDE DEF x, w, b
        <4>3. IsRecv(x) /\ x.state = r.state /\ x.buffer = b
          BY <1>3, <4>1, <4>2 DEF IsRecv, b
        <4>4. b = Prefix - w.prefix /\ w.prefix # 0
          BY <3>1, <3>3, <3>4, HttpUdpMuxAssumption DEF b
        <4>5. QED
          BY <2>2, <4>3, <4>4 DEF Framed
      <3>5. CASE ~ (r.buffer + 1 < Prefix)
        <4>1. x = read_prefix(p)
          BY <2>2, <3>5
        <4>2. p.prefix = 1 /\ p.payload \in Nat
          BY <1>2, <3>1, <3>5, HttpUdpMuxAssumption DEF IsPacket
        <4>3. x.state # "IDLE" /\ x.left = p.payload
          BY <2>0, <4>1, <4>2 DEF read_prefix
        <4> HIDE DEF x, w
        <4>4. QED
          BY <3>3, <4>2, <4>3 DEF Framed
      <3>6. QED
        BY <3>4, <3>5
    <2>3. QED
      BY <2>1, <2>2
  <1> HIDE DEF Then, On, Astray
  <1>9. QED
    BY <1>0, <1>4, <1>5, <1>6, <1>7, <1>8 DEF MuxInv

\* The steps of ICMP.
LEMMA MuxIcmp ==
  ASSUME MuxInv, send_request \/ IcmpClose \/ process_reply_chunk
  PROVE  MuxInv'
  <1>1. UNCHANGED udp
    BY DEF send_request, IcmpClose, process_reply_chunk
  <1>2. /\ DOMAIN wire' = {"udp", "icmp", "lost"} /\ wire'.udp = wire.udp /\ wire'.lost = wire.lost
        /\ DOMAIN icmp' = {"state", "buffer"} /\ icmp'.state \in {"IDLE", "ESTABLISHED"}
    BY DEF MuxInv, send_request, IcmpClose, process_reply_chunk
  <1>3. /\ wire'.icmp \in 0..(Reply - 1)
        /\ icmp'.buffer = IF icmp'.state = "ESTABLISHED" THEN wire'.icmp ELSE 0
    <2>1. CASE send_request
      BY <2>1, HttpUdpMuxAssumption DEF MuxInv, send_request
    <2>2. CASE IcmpClose
      BY <2>2 DEF MuxInv, IcmpClose
    <2>3. CASE process_reply_chunk
      <3> DEFINE n == wire.icmp
                 m == IF n + 1 = Reply THEN 0 ELSE n + 1
      <3>1. n \in 0..(Reply - 1) /\ icmp.buffer = n /\ icmp.state = "ESTABLISHED"
        BY <2>3 DEF MuxInv, process_reply_chunk
      <3>2. (n + 1) % Reply = m /\ m \in 0..(Reply - 1)
        BY <3>1, HttpUdpMuxAssumption
      <3>3. wire'.icmp = (n + 1) % Reply
        BY <2>3, Zenon DEF MuxInv, process_reply_chunk
      <3>4. icmp'.buffer = m /\ icmp'.state = "ESTABLISHED"
        BY <2>3, <3>1 DEF MuxInv, process_reply_chunk
      <3> HIDE DEF m, n
      <3>5. QED
        BY <3>2, <3>3, <3>4
    <2>4. QED
      BY <2>1, <2>2, <2>3
  <1>4. QED
    BY <1>1, <1>2, <1>3 DEF MuxInv

\* Every step keeps the invariant of the multiplexers.
LEMMA MuxStep == MuxInv /\ [Next]_vars => MuxInv'
  <1> SUFFICES ASSUME MuxInv, [Next]_vars PROVE MuxInv'
    OBVIOUS
  <1>1. CASE Next
    BY <1>1, MuxConnections, MuxReads, MuxIcmp DEF Next
  <1>2. CASE UNCHANGED vars
    BY <1>2 DEF vars, MuxInv
  <1>3. QED
    BY <1>1, <1>2

\* The invariant holds of every behaviour.
LEMMA MuxInvariant == Spec => []MuxInv
  BY MuxInit, MuxStep, PTL DEF Spec

\* The parser of the UDP stream keeps to the boundaries of packets until it meets a
\* length that does not fit, and that of the ICMP stream always, wherever a chunk
\* ends and whatever is closed in between; and whatever the stream holds, a payload
\* is received only for a connection in the table (read_prefix,
\* process_read_event), for any sizes of packets.
THEOREM FramingIsKept == Spec => []ParsersKeepFraming
  <1>1. MuxInv => ParsersKeepFraming
    BY DEF MuxInv, ParsersKeepFraming, Framed, Here
  <1>2. QED
    BY <1>1, MuxInvariant, PTL

\* An address pair leads to the connection the client has, though connections with
\* the same pair are opened and closed in any order (complete_udp_connection,
\* clean_connection_data), for any connections and address pairs.
THEOREM AddressesAlwaysAgree == Spec => []AddressesAgree
  <1>1. MuxInv => AddressesAgree
    <2> SUFFICES ASSUME MuxInv PROVE AddressesAgree
      OBVIOUS
    <2>1. ASSUME NEW c \in Conns, udp.conn[c].here,
                 \A i \in 1..Len(udp.queue) : udp.queue[i].id # c
          PROVE  udp.addr_to_id[udp.conn[c].addr] = c
      <3>1. ~ Contains(udp.queue, OpenTask(c)) /\ ~ Contains(udp.queue, EndTask(c))
        BY <2>1, TasksOf DEF Contains
      <3>2. QED
        BY <2>1, <3>1 DEF MuxInv, Tables
    <2>2. QED
      BY <2>1 DEF MuxInv, Tables, AddressesAgree, Here
  <1>2. QED
    BY <1>1, MuxInvariant, PTL

\* Packets of acceptable lengths are cut at their boundaries and find their
\* connections, whatever is opened, closed or timed out in between; lengths that do
\* not fit upset neither the tables nor the assertion about payloads.
THEOREM PacketsAlwaysFindConnections == Spec => []PacketsFindConnections
  BY FramingIsKept, AddressesAlwaysAgree, PTL DEF PacketsFindConnections
================================================================================
