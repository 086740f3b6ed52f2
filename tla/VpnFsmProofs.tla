------------------------------- MODULE VpnFsmProofs -------------------------------
(***************************************************************************)
(* The invariants of VpnFsm for every value of the constants: any number of *)
(* endpoints, requests, attempts and calls.                                 *)
(*                                                                         *)
(* Cancelling tasks is recursive over the queue; two lemmas on the least    *)
(* element of a set of numbers stand for induction.  Then come the queue,   *)
(* the functions of the manager, the rows of the transition table, the row  *)
(* that an event takes, what a transition keeps, and one lemma for every    *)
(* group of steps.  FsmInv is the inductive invariant.                      *)
(***************************************************************************)
EXTENDS VpnFsm, FiniteSetTheorems, WellFoundedInduction, TLAPS

\* A leaf that names no prover is tried with the SMT solver, with Zenon, and with
\* the solver once more.
USE SMTT(30), ZenonT(40), Z3T(30)

--------------------------------------------------------------------------------
(* Induction.                                                                *)

\* A set of natural numbers has a least element: the initial segments below its
\* elements are finite, and strict inclusion of finite sets is well founded.
LEMMA Least ==
  ASSUME NEW T \in SUBSET Nat, T # {}
  PROVE  \E x \in T : \A y \in T : x <= y
<1> PICK m \in T : TRUE
  BY Zenon
<1> DEFINE S == 1..m
           U == {1..n : n \in {k \in T : k <= m}}
<1>1. IsFiniteSet(S)
  BY FS_Interval
<1>2. IsWellFoundedOn(StrictSubsetOrdering(S), SUBSET S)
  BY <1>1, FS_StrictSubsetOrderingWellFounded, FS_FiniteSubsetsOfFinite, Zenon
<1>3. U \subseteq SUBSET S /\ U # {}
  OBVIOUS
<1>4. PICK u \in U : \A v \in U : <<v, u>> \notin StrictSubsetOrdering(S)
  <2> HIDE DEF U, S
  <2> QED
    BY <1>2, <1>3, WFMin, Zenon
<1>5. PICK x \in T : x <= m /\ u = 1..x
  OBVIOUS
<1>6. \A y \in T : x <= y
  <2> SUFFICES ASSUME NEW y \in T, y < x PROVE FALSE
    OBVIOUS
  <2>1. (1..y) \in U
    BY <1>5
  <2>2. (1..y) \subseteq 1..x /\ x \in 1..x /\ x \notin 1..y
    OBVIOUS
  <2>3. <<1..y, u>> \in StrictSubsetOrdering(S)
    BY <1>3, <1>5, <2>1, <2>2 DEF StrictSubsetOrdering
  <2> QED
    BY <1>4, <2>1, <2>3, Zenon
<1> QED
  BY <1>6

\* Induction up to n, for a property given as the set of numbers that have it.
LEMMA UpTo ==
  ASSUME NEW n \in Nat, NEW S, 0 \in S, \A i \in 0..(n - 1) : i \in S => i + 1 \in S
  PROVE  \A i \in 0..n : i \in S
<1> DEFINE Bad == (0..n) \ S
<1> SUFFICES ASSUME Bad # {} PROVE FALSE
  OBVIOUS
<1>1. PICK x \in Bad : \A y \in Bad : x <= y
  <2>1. Bad \in SUBSET Nat
    OBVIOUS
  <2> HIDE DEF Bad
  <2> QED
    BY <2>1, Least, Zenon
<1>2. x - 1 \in 0..(n - 1) /\ x - 1 \notin Bad
  BY <1>1
<1> QED
  BY <1>1, <1>2

--------------------------------------------------------------------------------
(* The queue of the event loop.                                              *)

\* No b is queued after an a.
NoAfter(q, a, b) == \A i, j \in 1..Len(q) : i < j => ~ (q[i] = a /\ q[j] = b)

\* f[i] is what Without leaves of the first i tasks of q.
Leaves(f, q, tasks, n) ==
  f = [i \in 0..n |-> IF i = 0 THEN <<>>
                      ELSE IF q[i] \in tasks THEN f[i - 1] ELSE Append(f[i - 1], q[i])]

\* The recursion in Without has a solution.
LEMMA LeavesExists ==
  ASSUME NEW T, NEW q \in Seq(T), NEW tasks
  PROVE  \E f : Leaves(f, q, tasks, Len(q))
<1> DEFINE S == {n \in 0..Len(q) : \E f : Leaves(f, q, tasks, n)}
<1>1. 0 \in S
  <2>1. Leaves([i \in 0..0 |-> <<>>], q, tasks, 0)
    BY DEF Leaves
  <2> QED
    BY <2>1
<1>2. ASSUME NEW m \in 0..(Len(q) - 1), m \in S PROVE m + 1 \in S
  <2> DEFINE n == m + 1
  <2>1. PICK f : Leaves(f, q, tasks, m)
    BY <1>2
  <2> DEFINE g == [i \in 0..n |-> IF i <= m THEN f[i]
                     ELSE IF q[n] \in tasks THEN f[m] ELSE Append(f[m], q[n])]
  <2>2. \A i \in 0..m : f[i] = IF i = 0 THEN <<>>
                               ELSE IF q[i] \in tasks THEN f[i - 1] ELSE Append(f[i - 1], q[i])
    BY <2>1, Zenon DEF Leaves
  <2>3. ASSUME NEW i \in 0..n
        PROVE  g[i] = IF i = 0 THEN <<>>
                      ELSE IF q[i] \in tasks THEN g[i - 1] ELSE Append(g[i - 1], q[i])
    <3>1. CASE i <= m
      <4>1. i \in 0..m /\ g[i] = f[i] /\ (i # 0 => g[i - 1] = f[i - 1])
        BY <3>1
      <4> HIDE DEF g
      <4> QED
        BY <2>2, <4>1, Zenon
    <3>2. CASE i = n
      <4>1. g[i] = IF q[n] \in tasks THEN f[m] ELSE Append(f[m], q[n])
        BY <3>2
      <4>2. g[i - 1] = f[m] /\ i # 0
        BY <3>2
      <4> HIDE DEF g
      <4> QED
        BY <3>2, <4>1, <4>2
    <3> QED
      BY <3>1, <3>2
  <2>4. Leaves(g, q, tasks, n)
    BY <2>3 DEF Leaves
  <2> HIDE DEF g
  <2> QED
    BY <2>4
<1>3. \A i \in 0..Len(q) : i \in S
  <2>1. Len(q) \in Nat
    OBVIOUS
  <2> HIDE DEF S
  <2> QED
    BY <1>1, <1>2, <2>1, UpTo
<1>4. Len(q) \in S
  BY <1>3
<1> QED
  BY <1>4

\* What is left of a queue: no cancelled task, every other one, in the same order.
LEMMA WithoutProperties ==
  ASSUME NEW T, NEW q \in Seq(T), NEW tasks
  PROVE  /\ Without(q, tasks) \in Seq(T)
         /\ \A x : Contains(Without(q, tasks), x) <=> Contains(q, x) /\ x \notin tasks
         /\ \A a, b : NoAfter(q, a, b) => NoAfter(Without(q, tasks), a, b)
<1> DEFINE f == CHOOSE f : Leaves(f, q, tasks, Len(q))
<1>1. Leaves(f, q, tasks, Len(q))
  BY LeavesExists, Zenon
<1>2. Without(q, tasks) = f[Len(q)]
  BY Zenon DEF Without, Leaves
<1> HIDE DEF f
<1>3. \A i \in 0..Len(q) : f[i] = IF i = 0 THEN <<>>
                                 ELSE IF q[i] \in tasks THEN f[i - 1] ELSE Append(f[i - 1], q[i])
  BY <1>1, Zenon DEF Leaves
<1> DEFINE Typed(i) == f[i] \in Seq(T)
           Same(i) == \A x : Contains(f[i], x) <=> x \notin tasks /\ \E k \in 1..i : q[k] = x
           Ordered(i) == \A a, b : (\A k, l \in 1..i : k < l => ~ (q[k] = a /\ q[l] = b))
                                     => NoAfter(f[i], a, b)
           S == {i \in 0..Len(q) : Typed(i) /\ Same(i) /\ Ordered(i)}
<1>4. 0 \in S
  <2>1. f[0] = <<>>
    BY <1>3
  <2>2. Typed(0)
    BY <2>1
  <2>3. Same(0)
    BY <2>1 DEF Contains
  <2>4. Ordered(0)
    BY <2>1 DEF NoAfter
  <2> QED
    BY <2>2, <2>3, <2>4
<1>5. ASSUME NEW m \in 0..(Len(q) - 1), m \in S PROVE m + 1 \in S
  <2> DEFINE n == m + 1
  <2>1. Typed(m) /\ Same(m) /\ Ordered(m)
    BY <1>5
  <2>2. n \in 0..Len(q) /\ n # 0 /\ n - 1 = m /\ q[n] \in T
    OBVIOUS
  <2>3. f[n] = IF q[n] \in tasks THEN f[m] ELSE Append(f[m], q[n])
    BY <1>3, <2>2
  <2>4. \A k : k \in 1..n <=> k \in 1..m \/ k = n
    OBVIOUS
  <2> HIDE DEF n
  <2>5. CASE q[n] \in tasks
    <3>1. f[n] = f[m]
      BY <2>3, <2>5
    <3>2. Same(n)
      BY <2>1, <2>4, <2>5, <3>1
    <3>3. Ordered(n)
      BY <2>1, <2>4, <3>1
    <3> QED
      BY <2>1, <2>2, <3>1, <3>2, <3>3 DEF n
  <2>6. CASE q[n] \notin tasks
    <3>1. f[n] = Append(f[m], q[n])
      BY <2>3, <2>6
    <3>2. /\ f[n] \in Seq(T) /\ Len(f[n]) = Len(f[m]) + 1 /\ Len(f[m]) \in Nat
          /\ \A i \in 1..Len(f[m]) : f[n][i] = f[m][i]
          /\ f[n][Len(f[m]) + 1] = q[n]
      BY <2>1, <2>2, <3>1
    <3>3. ASSUME NEW x PROVE Contains(f[n], x) <=> Contains(f[m], x) \/ x = q[n]
      <4>1. ASSUME Contains(f[m], x) PROVE Contains(f[n], x)
        BY <3>2, <4>1 DEF Contains
      <4>2. ASSUME x = q[n] PROVE Contains(f[n], x)
        BY <3>2, <4>2 DEF Contains
      <4>3. ASSUME Contains(f[n], x), x # q[n] PROVE Contains(f[m], x)
        <5>1. PICK i \in 1..Len(f[n]) : f[n][i] = x
          BY <4>3 DEF Contains
        <5>2. i \in 1..Len(f[m])
          BY <3>2, <4>3, <5>1
        <5> QED
          BY <3>2, <5>1, <5>2 DEF Contains
      <4> QED
        BY <4>1, <4>2, <4>3
    <3>4. Same(n)
      BY <2>1, <2>4, <2>6, <3>3
    <3>5. ASSUME NEW a, NEW b, \A k, l \in 1..n : k < l => ~ (q[k] = a /\ q[l] = b)
          PROVE  NoAfter(f[n], a, b)
      <4>1. NoAfter(f[m], a, b)
        BY <2>1, <2>4, <3>5
      <4>2. q[n] = b => ~ Contains(f[m], a)
        <5> SUFFICES ASSUME q[n] = b, Contains(f[m], a) PROVE FALSE
          OBVIOUS
        <5>1. PICK k \in 1..m : q[k] = a
          BY <2>1
        <5>2. k \in 1..n /\ n \in 1..n /\ k < n
          BY DEF n
        <5> QED
          BY <3>5, <5>1, <5>2
      <4>3. ASSUME NEW i \in 1..Len(f[n]), NEW j \in 1..Len(f[n]), i < j, f[n][i] = a, f[n][j] = b
            PROVE  FALSE
        <5>1. i \in 1..Len(f[m]) /\ f[m][i] = a
          <6>1. Len(f[n]) = Len(f[m]) + 1 /\ Len(f[m]) \in Nat
            BY <3>2, Zenon
          <6>2. i \in 1..Len(f[m])
            BY ONLY <4>3, <6>1, SMTT(30), Z3T(30)
          <6>3. f[m][i] = a
            BY ONLY <3>2, <4>3, <6>2, Zenon
          <6> QED
            BY <6>2, <6>3
        <5>2. CASE j \in 1..Len(f[m])
          BY <3>2, <4>1, <4>3, <5>1, <5>2, Zenon DEF NoAfter
        <5>3. CASE j = Len(f[m]) + 1
          BY <3>2, <4>2, <4>3, <5>1, <5>3 DEF Contains
        <5> QED
          BY <3>2, <5>2, <5>3
      <4> QED
        BY <4>3 DEF NoAfter
    <3> QED
      BY <2>2, <3>2, <3>4, <3>5 DEF n
  <2> QED
    BY <2>5, <2>6
<1>6. \A i \in 0..Len(q) : i \in S
  <2>1. Len(q) \in Nat
    OBVIOUS
  <2> HIDE DEF S
  <2> QED
    BY <1>4, <1>5, <2>1, UpTo
<1>7. Typed(Len(q)) /\ Same(Len(q)) /\ Ordered(Len(q))
  <2>1. Len(q) \in 0..Len(q)
    OBVIOUS
  <2> HIDE DEF Typed, Same, Ordered
  <2> QED
    BY <1>6, <2>1, Zenon
<1>8. \A x : Contains(f[Len(q)], x) <=> Contains(q, x) /\ x \notin tasks
  <2>1. \A x : Contains(q, x) <=> \E k \in 1..Len(q) : q[k] = x
    BY Zenon DEF Contains
  <2> QED
    BY <1>7, <2>1, Zenon
<1>9. \A a, b : NoAfter(q, a, b) => NoAfter(f[Len(q)], a, b)
  BY <1>7, Zenon DEF NoAfter
<1> QED
  BY <1>2, <1>7, <1>8, <1>9, Zenon

\* The tasks of the loop.
Tasks == Submitted \cup Delayed

\* Those that are queued.
Queue(v) == {t \in Tasks : Contains(v.queue, t)}

\* At most one ping is queued, and no retry after it: a retry that is submitted
\* stops the ping, and a ping that is started while a retry is queued ends after it.
Ordered(v) == NoAfter(v.queue, "ping", "ping") /\ NoAfter(v.queue, "ping", "retry")

\* A queue of tasks is a queue of the manager.
LEMMA QueueType ==
  ASSUME NEW v \in Vpn, NEW q \in Seq(Tasks)
  PROVE  [v EXCEPT !.queue = q] \in Vpn
 BY DEF Vpn, Tasks

\* Cancel takes the tasks from the queue and changes nothing else.
LEMMA CancelFacts ==
  ASSUME NEW v \in Vpn, NEW tasks
  PROVE  LET w == Cancel(v, tasks) IN
         /\ w \in Vpn /\ w = [v EXCEPT !.queue = w.queue] /\ Queue(w) = Queue(v) \ tasks
         /\ Ordered(v) => Ordered(w)
<1>1. v.queue \in Seq(Tasks)
  BY DEF Vpn, Tasks
<1>2. Without(v.queue, tasks) \in Seq(Tasks)
  BY <1>1, WithoutProperties
<1>3. Cancel(v, tasks) \in Vpn
  BY <1>2, QueueType DEF Cancel
<1>4. Cancel(v, tasks).queue = Without(v.queue, tasks)
  BY DEF Cancel, Vpn
<1>5. Queue(Cancel(v, tasks)) = Queue(v) \ tasks
  BY <1>4, <1>1, WithoutProperties DEF Queue
<1>6. Ordered(v) => Ordered(Cancel(v, tasks))
  BY <1>4, <1>1, WithoutProperties DEF Ordered
<1> QED
  BY <1>3, <1>4, <1>5, <1>6 DEF Cancel

\* Submit adds the task to the queue and changes nothing else.
LEMMA SubmitFacts ==
  ASSUME NEW v \in Vpn, NEW t \in Tasks
  PROVE  LET w == Submit(v, t) IN 
        /\ w \in Vpn /\ w = [v EXCEPT !.queue = w.queue] /\ Queue(w) = Queue(v) \cup {t}
        /\ Ordered(v) /\ (t \in {"ping", "retry"} => "ping" \notin Queue(v)) => Ordered(w)
<1>1. v.queue \in Seq(Tasks)
  BY DEF Vpn, Tasks
<1>2. Append(v.queue, t) \in Seq(Tasks)
  BY <1>1
<1>3. Submit(v, t) \in Vpn
  BY <1>2, QueueType, Zenon DEF Submit
<1>4. Submit(v, t).queue = Append(v.queue, t)
  BY DEF Submit, Vpn
<1>5. Queue(Submit(v, t)) = Queue(v) \cup {t}
  BY <1>4, <1>1 DEF Queue, Contains
<1>6. Ordered(v) /\ (t \in {"ping", "retry"} => "ping" \notin Queue(v)) => Ordered(Submit(v, t))
  <2>1. "ping" \in Tasks
    BY DEF Tasks, Delayed
  <2> QED BY <1>4, <1>1, <2>1 DEF Ordered, NoAfter, Queue, Contains
<1> QED
  BY <1>3, <1>4, <1>5, <1>6, Zenon DEF Submit

--------------------------------------------------------------------------------
(* The functions of the manager.                                             *)

\* What holds of the manager in every state of a session, within a step as well:
\* a client that connects or disconnects has the task that ends it, the manager
\* knows the state of its client, a ping runs while no endpoint is selected, the
\* selected endpoint is one of the location unless the location is lost, a
\* postponed request has its window, and the kill switch lets no request bypass.
Consistent(v) ==
  /\ v \in Vpn
  /\ v.client = "connecting" => Queue(v) \cap {"connector", "finalizer"} # {}
  /\ v.client = "disconnecting" => "deferred_disconnect" \in Queue(v)
  /\ v.client_state = IF v.client = "disconnecting" THEN "connected" ELSE v.client
  /\ "ping" \in Queue(v) => v.selected_endpoint = None
  /\ Ordered(v)
  /\ v.endpoints = {} \/ v.selected_endpoint \in v.endpoints \cup {None}
  /\ (\E r \in Requests : v.request[r] = "postponed") => "window" \in Queue(v)
  /\ v.kill_switch => \A r \in Requests : v.request[r] # "bypassed"

\* The functions of the manager change neither its state nor its configuration.
Same(v, w) ==
  /\ w.state = v.state /\ w.policy = v.policy /\ w.endpoints = v.endpoints
  /\ w.kill_switch = v.kill_switch

\* Schedule does as well; an earlier occurrence of the task is cancelled.
LEMMA ScheduleFacts ==
  ASSUME NEW v \in Vpn, NEW t \in Tasks
  PROVE  LET w == Schedule(v, t) IN 
        /\ w \in Vpn /\ w = [v EXCEPT !.queue = w.queue] /\ Queue(w) = Queue(v) \cup {t}
        /\ Ordered(v) /\ (t = "retry" => "ping" \notin Queue(v)) => Ordered(w)
<1> DEFINE u == Cancel(v, {t})
           w == Submit(u, t)
<1>1. u \in Vpn /\ u = [v EXCEPT !.queue = u.queue] /\ Queue(u) = Queue(v) \ {t} /\ (Ordered(v) => Ordered(u))
  BY CancelFacts, Zenon
<1>2. w \in Vpn /\ w = [u EXCEPT !.queue = w.queue] /\ Queue(w) = Queue(u) \cup {t}
        /\ (Ordered(u) /\ (t \in {"ping", "retry"} => "ping" \notin Queue(u)) => Ordered(w))
  BY <1>1, SubmitFacts, Zenon
<1>3. Schedule(v, t) = w
  BY DEF Schedule
<1> HIDE DEF u, w
<1>4. w = [v EXCEPT !.queue = w.queue]
  BY <1>1, <1>2 DEF Vpn
<1> QED
  BY <1>1, <1>2, <1>3, <1>4

\* run_disconnect stops the client; the caller records it in client_state.
LEMMA RunDisconnectFacts ==
  ASSUME NEW v, Consistent(v)
  PROVE  LET w == run_disconnect(v) IN
         /\ Consistent([w EXCEPT !.client_state = "disconnected"]) /\ w \in Vpn /\ Same(v, w)
         /\ w.client = "disconnected" /\ w.selected_endpoint = v.selected_endpoint
         /\ Queue(w) = Queue(v) \ {"finalizer", "deferred_disconnect", "connector"}
<1> DEFINE T == {"finalizer", "deferred_disconnect", "connector"}
           u == Cancel(v, T)
           w == [u EXCEPT !.client = "disconnected"]
           x == [w EXCEPT !.client_state = "disconnected"]
<1>1. u \in Vpn /\ u = [v EXCEPT !.queue = u.queue] /\ Queue(u) = Queue(v) \ T /\ Ordered(u)
  BY CancelFacts DEF Consistent
<1>2. run_disconnect(v) = w
  BY DEF run_disconnect
<1> HIDE DEF T, u
<1>3. w \in Vpn /\ x \in Vpn
  BY <1>1, Zenon DEF Vpn
<1>4. /\ w.queue = u.queue /\ x.queue = u.queue
      /\ w.client = "disconnected" /\ x.client = "disconnected" /\ x.client_state = "disconnected"
      /\ Same(v, w) /\ Same(v, x)
      /\ w.selected_endpoint = v.selected_endpoint /\ x.selected_endpoint = v.selected_endpoint
      /\ x.request = v.request
  BY <1>1 DEF Same, Vpn, Consistent
<1>5. Queue(w) = Queue(u) /\ Queue(x) = Queue(u) /\ Ordered(x)
  BY <1>1, <1>4 DEF Queue, Ordered
<1>6. Consistent(x)
  BY <1>1, <1>3, <1>4, <1>5 DEF Consistent, T, Same
<1> QED
  BY <1>1, <1>2, <1>3, <1>4, <1>5, <1>6 DEF T

\* Nor, some of them, the client, the selected endpoint and the requests.
Alike(v, w) ==
  /\ Same(v, w)
  /\ w.client = v.client /\ w.client_state = v.client_state
  /\ w.selected_endpoint = v.selected_endpoint /\ w.request = v.request

\* disconnect_client leaves a client that is disconnected, and only its tasks go.
LEMMA DisconnectClientFacts ==
  ASSUME NEW v, Consistent(v)
  PROVE  LET w == disconnect_client(v) IN
         /\ Consistent(w) /\ Same(v, w)
         /\ w.client = "disconnected" /\ w.selected_endpoint = v.selected_endpoint
         /\ Queue(w) \subseteq Queue(v)
         /\ Queue(v) \ {"finalizer", "deferred_disconnect", "connector"} \subseteq Queue(w)
<1>1. CASE v.client_state = "disconnected"
  BY <1>1 DEF Consistent, Same, disconnect_client
<1>2. CASE v.client_state # "disconnected"
  <2> DEFINE u == run_disconnect(v)
             w == [u EXCEPT !.client_state = "disconnected"]
  <2>1. /\ Consistent(w) /\ u \in Vpn /\ Same(v, u)
        /\ u.client = "disconnected" /\ u.selected_endpoint = v.selected_endpoint
        /\ Queue(u) = Queue(v) \ {"finalizer", "deferred_disconnect", "connector"}
    BY RunDisconnectFacts
  <2>2. disconnect_client(v) = w
    BY <1>2 DEF disconnect_client, Consistent
  <2> HIDE DEF u
  <2>3. /\ w.queue = u.queue /\ w.client = u.client /\ w.selected_endpoint = u.selected_endpoint
        /\ Same(u, w)
    BY <2>1 DEF Vpn, Same
  <2>4. Queue(w) = Queue(u)
    BY <2>3 DEF Queue
  <2> QED
    BY <2>1, <2>2, <2>3, <2>4 DEF Same
<1> QED
  BY <1>1, <1>2

\* stop_pinging cancels the ping.
LEMMA StopPingingFacts ==
  ASSUME NEW v, Consistent(v)
  PROVE  LET w == stop_pinging(v) IN
         Consistent(w) /\ Alike(v, w) /\ Queue(w) = Queue(v) \ {"ping"}
<1> DEFINE u == Cancel(v, {"ping"})
           w == [u EXCEPT !.ping_failure_fatal = FALSE]
<1>1. u \in Vpn /\ u = [v EXCEPT !.queue = u.queue] /\ Queue(u) = Queue(v) \ {"ping"} /\ Ordered(u)
  BY CancelFacts DEF Consistent
<1>2. stop_pinging(v) = w
  BY DEF stop_pinging
<1> HIDE DEF u
<1>3. w \in Vpn
  BY <1>1, Zenon DEF Vpn
<1>4. w.queue = u.queue /\ Alike(v, w)
  BY <1>1 DEF Alike, Same, Vpn, Consistent
<1>5. Queue(w) = Queue(u) /\ Ordered(w)
  BY <1>1, <1>4 DEF Queue, Ordered
<1>6. Consistent(w)
  BY <1>1, <1>3, <1>4, <1>5, ZenonT(40) DEF Consistent, Alike, Same
<1> QED
  BY <1>1, <1>2, <1>4, <1>5, <1>6, Zenon

\* disconnect stops the client and the ping.
LEMMA DisconnectFacts ==
  ASSUME NEW v, Consistent(v)
  PROVE  LET w == disconnect(v) IN
         /\ Consistent(w) /\ Same(v, w)
         /\ w.client = "disconnected" /\ w.selected_endpoint = v.selected_endpoint
         /\ Queue(w) \subseteq Queue(v) \ {"ping"}
<1> DEFINE u == stop_pinging(v)
           w == disconnect_client(u)
<1>1. Consistent(u) /\ Alike(v, u) /\ Queue(u) = Queue(v) \ {"ping"}
  BY StopPingingFacts
<1>2. disconnect(v) = w
  BY DEF disconnect
<1> HIDE DEF u
<1>3. /\ Consistent(w) /\ Same(u, w)
      /\ w.client = "disconnected" /\ w.selected_endpoint = u.selected_endpoint
      /\ Queue(w) \subseteq Queue(u)
  BY <1>1, DisconnectClientFacts
<1> QED
  BY <1>1, <1>2, <1>3 DEF Alike, Same

\* reset_recovery cancels the timer of the recovery.
LEMMA ResetRecoveryFacts ==
  ASSUME NEW v, Consistent(v)
  PROVE  LET w == reset_recovery(v) IN
         Consistent(w) /\ Alike(v, w) /\ Queue(w) = Queue(v) \ {"recovery"}
<1> DEFINE u == Cancel(v, {"recovery"})
           w == [u EXCEPT !.recovery_attempts = 0, !.recovery_started = FALSE]
<1>1. u \in Vpn /\ u = [v EXCEPT !.queue = u.queue] /\ Queue(u) = Queue(v) \ {"recovery"} /\ Ordered(u)
  BY CancelFacts DEF Consistent
<1>2. reset_recovery(v) = w
  BY DEF reset_recovery
<1> HIDE DEF u
<1>3. w \in Vpn
  <2>1. 0 \in 0..RecoveryAttempts
    BY VpnFsmAssumption
  <2> QED
    BY <1>1, <2>1, Zenon DEF Vpn
<1>4. w.queue = u.queue /\ Alike(v, w)
  BY <1>1 DEF Alike, Same, Vpn, Consistent
<1>5. Queue(w) = Queue(u) /\ Ordered(w)
  BY <1>1, <1>4 DEF Queue, Ordered
<1>6. Consistent(w)
  BY <1>1, <1>3, <1>4, <1>5 DEF Consistent, Alike, Same
<1> QED
  BY <1>1, <1>2, <1>4, <1>5, <1>6

\* initiate_recovery schedules the timer, or gives up.
LEMMA InitiateRecoveryFacts ==
  ASSUME NEW v, Consistent(v), NEW c \in Answers
  PROVE  LET w == initiate_recovery(v, c) IN
         /\ Consistent(w) /\ Alike(v, w)
         /\ Queue(w) \cap {"recovery", "give_up"} # {}
<1>1. CASE v.recovery_attempts >= RecoveryAttempts
  <2> DEFINE w == Submit(v, "give_up")
  <2>1. w \in Vpn /\ w = [v EXCEPT !.queue = w.queue] /\ Queue(w) = Queue(v) \cup {"give_up"} /\ Ordered(w)
    BY SubmitFacts DEF Consistent, Tasks, Submitted
  <2>2. initiate_recovery(v, c) = w
    BY <1>1 DEF initiate_recovery
  <2> HIDE DEF w
  <2>3. Alike(v, w)
    BY <2>1 DEF Alike, Same, Vpn, Consistent
  <2>4. Consistent(w)
    BY <2>1, <2>3 DEF Consistent, Alike, Same
  <2> QED
    BY <2>1, <2>2, <2>3, <2>4
<1>2. CASE ~ (v.recovery_attempts >= RecoveryAttempts)
  <2> DEFINE t == IF v.recovery_started THEN v ELSE Schedule(v, "window")
             u == Schedule(t, "recovery")
             w == [u EXCEPT !.recovery_attempts = @ + 1, !.recovery_started = ~ c.late]
  <2>1. /\ t \in Vpn /\ t = [v EXCEPT !.queue = t.queue]
        /\ Queue(t) \in {Queue(v), Queue(v) \cup {"window"}} /\ Ordered(t)
    <3>1. v \in Vpn /\ v = [v EXCEPT !.queue = v.queue] /\ "window" \in Tasks /\ Ordered(v)
      BY DEF Consistent, Vpn, Tasks, Delayed
    <3> QED
      BY <3>1, ScheduleFacts
  <2> HIDE DEF t
  <2>2. "recovery" \in Tasks
    BY DEF Tasks, Delayed
  <2>3. u \in Vpn /\ u = [t EXCEPT !.queue = u.queue] /\ Queue(u) = Queue(t) \cup {"recovery"} /\ Ordered(u)
    BY <2>1, <2>2, ScheduleFacts
  <2>4. initiate_recovery(v, c) = w
    BY <1>2 DEF initiate_recovery, t
  <2> HIDE DEF u
  <2>5. u = [v EXCEPT !.queue = u.queue]
    BY <2>1, <2>3 DEF Vpn, Consistent
  <2>6. v.recovery_attempts + 1 \in 0..RecoveryAttempts /\ c.late \in BOOLEAN
    BY <1>2, VpnFsmAssumption DEF Consistent, Vpn, Answers
  <2>7. w \in Vpn
    BY <2>3, <2>5, <2>6, ZenonT(40) DEF Vpn, Consistent
  <2>8. w.queue = u.queue /\ Alike(v, w)
    BY <2>3, <2>5 DEF Alike, Same, Vpn, Consistent
  <2>9. Queue(w) = Queue(u) /\ Ordered(w)
    BY <2>3, <2>8 DEF Queue, Ordered
  <2>10. Consistent(w)
    BY <2>1, <2>3, <2>7, <2>8, <2>9 DEF Consistent, Alike, Same
  <2> QED
    BY <2>1, <2>3, <2>4, <2>8, <2>9, <2>10
<1> QED
  BY <1>1, <1>2

\* run_ping starts a ping with no endpoint selected.
LEMMA RunPingFacts ==
  ASSUME NEW v, Consistent(v)
  PROVE  LET w == run_ping(v) IN
         /\ Consistent(w) /\ Same(v, w) /\ w.client = v.client /\ w.selected_endpoint = None
         /\ Queue(w) = (Queue(v) \ {"recovery"}) \cup {"ping"}
<1> DEFINE s == Cancel(v, {"recovery"})
           t == stop_pinging(s)
           u == Schedule(t, "ping")
           w == [u EXCEPT !.pending_error = None, !.selected_endpoint = None]
<1>1. s \in Vpn /\ s = [v EXCEPT !.queue = s.queue] /\ Queue(s) = Queue(v) \ {"recovery"} /\ Ordered(s)
  BY CancelFacts DEF Consistent
<1> HIDE DEF s
<1>2. Alike(v, s)
  BY <1>1 DEF Alike, Same, Vpn, Consistent
<1>3. Consistent(s)
  BY <1>1, <1>2 DEF Consistent, Alike, Same
<1>4. Consistent(t) /\ Alike(s, t) /\ Queue(t) = Queue(s) \ {"ping"}
  BY <1>3, StopPingingFacts
<1> HIDE DEF t
<1>5. t \in Vpn /\ "ping" \in Tasks
  BY <1>4 DEF Consistent, Tasks, Delayed
<1>6. u \in Vpn /\ u = [t EXCEPT !.queue = u.queue] /\ Queue(u) = Queue(t) \cup {"ping"} /\ Ordered(u)
  BY <1>4, <1>5, ScheduleFacts DEF Consistent
<1> HIDE DEF u
<1>7. run_ping(v) = w
  BY DEF run_ping, s, t, u
<1>8. w \in Vpn
  BY <1>6, Zenon DEF Vpn, Errors
<1>9. /\ w.queue = u.queue /\ w.selected_endpoint = None /\ Same(t, w)
      /\ w.client = t.client /\ w.client_state = t.client_state /\ w.request = t.request
  BY <1>5, <1>6 DEF Same, Vpn
<1>10. Queue(w) = Queue(u) /\ Ordered(w)
  BY <1>6, <1>9 DEF Queue, Ordered
<1>11. Consistent(w)
  BY <1>4, <1>6, <1>8, <1>9, <1>10 DEF Consistent, Same
<1> QED
  BY <1>1, <1>2, <1>4, <1>6, <1>7, <1>9, <1>10, <1>11 DEF Alike, Same

\* run_client_connect leaves a client that connects, or reports that it could not.
LEMMA RunClientConnectFacts ==
  ASSUME NEW v, Consistent(v), NEW c \in Answers
  PROVE  LET w == run_client_connect(v, c) IN
         /\ Consistent(w) /\ Same(v, w) /\ w.selected_endpoint = v.selected_endpoint
         /\ \/ w.client = v.client /\ "client_disconnected" \in Queue(w)
            \/ w.client = "connecting"
         /\ {"ping", "retry"} \cap Queue(w) = {"ping", "retry"} \cap Queue(v)
<1> DEFINE error == connect_error(v, c)
           s == Cancel(v, {"finalizer", "deferred_disconnect"})
           t == IF v.client = "disconnected" THEN [s EXCEPT !.client_error = None] ELSE v
<1>1. /\ s \in Vpn /\ s = [v EXCEPT !.queue = s.queue] /\ Ordered(s)
      /\ Queue(s) = Queue(v) \ {"finalizer", "deferred_disconnect"}
  BY CancelFacts DEF Consistent
<1> HIDE DEF s
<1>2. /\ t \in Vpn /\ Alike(v, t) /\ Ordered(t)
      /\ Queue(t) \in {Queue(v), Queue(v) \ {"finalizer", "deferred_disconnect"}}
      /\ v.client # "disconnected" => t = v
  <2>1. CASE v.client # "disconnected"
    BY <2>1 DEF Alike, Same, Consistent
  <2>2. CASE v.client = "disconnected"
    <3>1. t = [s EXCEPT !.client_error = None]
      BY <2>2
    <3>2. t \in Vpn
      BY <1>1, <3>1 DEF Vpn, Errors
    <3>3. t.queue = s.queue /\ Alike(v, t)
      BY <1>1, <3>1 DEF Alike, Same, Vpn, Consistent
    <3> QED
      BY <1>1, <2>2, <3>2, <3>3 DEF Queue, Ordered
  <2> QED
    BY <2>1, <2>2
<1> HIDE DEF t
<1>3. Consistent(t)
  BY <1>2 DEF Consistent, Alike, Same
<1>4. CASE error \in Failures
  <2> DEFINE u == Submit(t, "client_disconnected")
             w == [u EXCEPT !.pending_error = error]
  <2>1. "client_disconnected" \in Tasks /\ error \in Errors
    BY <1>4 DEF Tasks, Submitted, Failures, Errors
  <2>2. /\ u \in Vpn /\ u = [t EXCEPT !.queue = u.queue] /\ Ordered(u)
        /\ Queue(u) = Queue(t) \cup {"client_disconnected"}
    BY <1>2, <2>1, SubmitFacts
  <2> HIDE DEF u
  <2>3. run_client_connect(v, c) = w
    BY <1>4 DEF run_client_connect, s, t, u
  <2> HIDE DEF error
  <2>4. w \in Vpn
    BY <2>1, <2>2 DEF Vpn
  <2>5. w.queue = u.queue /\ Alike(t, w)
    BY <1>2, <2>2 DEF Alike, Same, Vpn
  <2>6. Queue(w) = Queue(u) /\ Ordered(w)
    BY <2>2, <2>5 DEF Queue, Ordered
  <2>7. Consistent(w)
    BY <1>3, <2>2, <2>4, <2>5, <2>6 DEF Consistent, Alike, Same
  <2> QED
    BY <1>2, <2>2, <2>3, <2>5, <2>6, <2>7 DEF Alike, Same
<1>5. CASE error \notin Failures
  <2> DEFINE u == Schedule(v, "connector")
             w == [u EXCEPT !.client = "connecting", !.client_error = None,
                            !.client_state = "connecting", !.pending_error = None]
  <2>1. "connector" \in Tasks /\ v \in Vpn /\ Ordered(v)
    BY DEF Tasks, Delayed, Consistent
  <2>2. u \in Vpn /\ u = [v EXCEPT !.queue = u.queue] /\ Ordered(u) /\ Queue(u) = Queue(v) \cup {"connector"}
    BY <2>1, ScheduleFacts
  <2> HIDE DEF u
  <2>3. run_client_connect(v, c) = w
    BY <1>5 DEF run_client_connect, u
  <2> HIDE DEF error
  <2>4. w \in Vpn
    BY <2>2, ZenonT(40) DEF Vpn, Errors
  <2>5. /\ w.queue = u.queue /\ Same(v, w) /\ w.client = "connecting" /\ w.client_state = "connecting"
        /\ w.selected_endpoint = v.selected_endpoint /\ w.request = v.request
    BY <2>1, <2>2 DEF Same, Vpn
  <2>6. Queue(w) = Queue(u) /\ Ordered(w)
    BY <2>2, <2>5 DEF Queue, Ordered
  <2>7. Consistent(w)
    BY <2>2, <2>4, <2>5, <2>6 DEF Consistent, Same
  <2> QED
    BY <2>2, <2>3, <2>5, <2>6, <2>7
<1> QED
  BY <1>4, <1>5

\* reconnect_client does so whatever the client was.
LEMMA ReconnectClientFacts ==
  ASSUME NEW v, Consistent(v), NEW c \in Answers
  PROVE  LET w == reconnect_client(v, c) IN
         /\ Consistent(w) /\ Same(v, w) /\ w.selected_endpoint = v.selected_endpoint
         /\ \/ w.client = "disconnected" /\ "client_disconnected" \in Queue(w)
            \/ w.client = "connecting"
<1> DEFINE u == disconnect_client(v)
<1>1. Consistent(u) /\ Same(v, u) /\ u.client = "disconnected" /\ u.selected_endpoint = v.selected_endpoint
  BY DisconnectClientFacts
<1> HIDE DEF u
<1>2. LET w == run_client_connect(u, c) IN
      /\ Consistent(w) /\ Same(u, w) /\ w.selected_endpoint = u.selected_endpoint
      /\ \/ w.client = u.client /\ "client_disconnected" \in Queue(w)
         \/ w.client = "connecting"
  BY <1>1, RunClientConnectFacts
<1> QED
  BY <1>1, <1>2 DEF reconnect_client, u, Same

\* A change of the errors, counters and flags keeps the manager consistent.
LEMMA SetFacts ==
  ASSUME NEW v, Consistent(v), NEW w \in Vpn, w.queue = v.queue, Alike(v, w)
  PROVE  Consistent(w) /\ Queue(w) = Queue(v)
<1>1. Queue(w) = Queue(v) /\ Ordered(w)
  BY DEF Queue, Ordered, Consistent
<1> QED
  BY <1>1 DEF Consistent, Alike, Same

\* complete_connect disconnects when it is given an error.
LEMMA CompleteConnectFacts ==
  ASSUME NEW v, Consistent(v), NEW error
  PROVE  LET w == complete_connect(v, error) IN
         /\ Consistent(w) /\ Same(v, w) /\ w.selected_endpoint = v.selected_endpoint
         /\ error \notin Failures => w.client = v.client
<1> DEFINE t == disconnect(v)
           u == [t EXCEPT !.pending_error = error]
           fails == v.pending_error = None /\ error \in Failures
           x == IF fails THEN u ELSE v
<1>1. Consistent(t) /\ Same(v, t) /\ t.selected_endpoint = v.selected_endpoint
  BY DisconnectFacts
<1> HIDE DEF t
<1>2. fails => /\ Consistent(u) /\ Same(v, u) /\ u.selected_endpoint = v.selected_endpoint
  <2> SUFFICES ASSUME fails PROVE Consistent(u) /\ Same(v, u) /\ u.selected_endpoint = v.selected_endpoint
    OBVIOUS
  <2>1. error \in Errors /\ t \in Vpn
    BY <1>1 DEF Failures, Errors, Consistent
  <2>2. u \in Vpn
    BY <2>1 DEF Vpn
  <2>3. u.queue = t.queue /\ Alike(t, u)
    BY <2>1 DEF Alike, Same, Vpn
  <2>4. Consistent(u)
    BY <1>1, <2>2, <2>3, SetFacts, Zenon
  <2> QED
    BY <1>1, <2>3, <2>4 DEF Alike, Same
<1>3. /\ Consistent(x) /\ Same(v, x) /\ x.selected_endpoint = v.selected_endpoint
      /\ error \notin Failures => x = v
  BY <1>2 DEF Same
<1>4. complete_connect(v, error) = reset_recovery(x)
  BY DEF complete_connect, t
<1> HIDE DEF x
<1>5. LET w == reset_recovery(x) IN Consistent(w) /\ Alike(x, w)
  BY <1>3, ResetRecoveryFacts
<1> QED
  BY <1>3, <1>4, <1>5 DEF Alike, Same

\* retry_connect submits the retry of a disconnected manager.
LEMMA RetryConnectFacts ==
  ASSUME NEW v, Consistent(v)
  PROVE  LET w == retry_connect(v) IN
         /\ Consistent(w) /\ Same(v, w) /\ w.client = "disconnected"
         /\ "retry" \in Queue(w)
<1> DEFINE n == IF v.policy = "several_attempts" THEN (v.attempts_left - 1) % (SizeMax + 1) ELSE v.attempts_left
           s == [v EXCEPT !.attempts_left = n]
           t == disconnect(s)
           w == Submit(t, "retry")
<1>1. v \in Vpn /\ n \in 0..SizeMax
  BY VpnFsmAssumption DEF Consistent, Vpn
<1>2. retry_connect(v) = w
  BY <1>1 DEF retry_connect, Vpn
<1> HIDE DEF n
<1>3. s \in Vpn /\ s.queue = v.queue /\ Alike(v, s)
  BY <1>1 DEF Vpn, Alike, Same
<1> HIDE DEF s
<1>4. Consistent(s)
  BY <1>3, SetFacts
<1>5. /\ Consistent(t) /\ Same(s, t) /\ t.client = "disconnected" /\ t.selected_endpoint = s.selected_endpoint
      /\ Queue(t) \subseteq Queue(s) \ {"ping"}
  BY <1>4, DisconnectFacts
<1> HIDE DEF t
<1>6. t \in Vpn /\ Ordered(t) /\ "retry" \in Tasks
  BY <1>5 DEF Consistent, Tasks, Submitted
<1>7. w \in Vpn /\ w = [t EXCEPT !.queue = w.queue] /\ Ordered(w) /\ Queue(w) = Queue(t) \cup {"retry"}
  BY <1>5, <1>6, SubmitFacts
<1> HIDE DEF w
<1>8. Alike(t, w)
  BY <1>6, <1>7 DEF Alike, Same, Vpn
<1>9. Consistent(w)
  BY <1>5, <1>7, <1>8 DEF Consistent, Alike, Same
<1> QED
  BY <1>2, <1>3, <1>5, <1>7, <1>8, <1>9 DEF Alike, Same

\* prepare_for_recovery disconnects, and schedules the recovery or gives up.
LEMMA PrepareForRecoveryFacts ==
  ASSUME NEW v, Consistent(v), NEW error, NEW c \in Answers
  PROVE  LET w == prepare_for_recovery(v, error, c) IN
         /\ Consistent(w) /\ Same(v, w) /\ w.client = "disconnected"
         /\ Queue(w) \cap {"recovery", "give_up"} # {}
<1> DEFINE t == disconnect(v)
           u == initiate_recovery(t, c)
           e == IF u.pending_error = None /\ error \in Failures THEN error ELSE u.pending_error
           w == [u EXCEPT !.pending_error = e]
<1>1. Consistent(t) /\ Same(v, t) /\ t.client = "disconnected"
  BY DisconnectFacts
<1> HIDE DEF t
<1>2. Consistent(u) /\ Alike(t, u) /\ Queue(u) \cap {"recovery", "give_up"} # {}
  BY <1>1, InitiateRecoveryFacts
<1> HIDE DEF u
<1>3. u \in Vpn /\ e \in Errors
  BY <1>2 DEF Consistent, Vpn, Failures, Errors
<1>4. prepare_for_recovery(v, error, c) = w
  BY <1>3 DEF prepare_for_recovery, t, u, Vpn
<1> HIDE DEF e
<1>5. w \in Vpn /\ w.queue = u.queue /\ Alike(u, w)
  BY <1>3 DEF Vpn, Alike, Same
<1>6. Consistent(w) /\ Queue(w) = Queue(u)
  BY <1>2, <1>5, SetFacts, Zenon
<1> QED
  BY <1>1, <1>2, <1>4, <1>5, <1>6 DEF Alike, Same

\* do_disconnect disconnects.
LEMMA DoDisconnectFacts ==
  ASSUME NEW v, Consistent(v)
  PROVE  LET w == do_disconnect(v) IN
         Consistent(w) /\ Same(v, w) /\ w.client = "disconnected"
<1> DEFINE u == reset_recovery(v)
<1>1. Consistent(u) /\ Alike(v, u)
  BY ResetRecoveryFacts
<1> HIDE DEF u
<1>2. LET w == disconnect(u) IN Consistent(w) /\ Same(u, w) /\ w.client = "disconnected"
  BY <1>1, DisconnectFacts
<1> QED
  BY <1>1, <1>2 DEF do_disconnect, u, Alike, Same

\* finalize_recovery answers the requests and leaves the client.
LEMMA FinalizeRecoveryFacts ==
  ASSUME NEW v, Consistent(v)
  PROVE  LET w == finalize_recovery(v) IN
         /\ Consistent(w) /\ Same(v, w)
         /\ w.client = v.client /\ w.selected_endpoint = v.selected_endpoint
<1> DEFINE s == reset_recovery(v)
           t == stop_pinging(s)
           u == Cancel(t, {"window"})
           answers == [r \in Requests |-> CASE u.request[r] = "postponed" -> "completed"
                                            [] u.request[r] = "bypassed" -> "reset"
                                            [] OTHER -> u.request[r]]
           w == [u EXCEPT !.request = answers]
<1>1. Consistent(s) /\ Alike(v, s)
  BY ResetRecoveryFacts
<1> HIDE DEF s
<1>2. Consistent(t) /\ Alike(s, t)
  BY <1>1, StopPingingFacts
<1> HIDE DEF t
<1>3. u \in Vpn /\ u = [t EXCEPT !.queue = u.queue] /\ Ordered(u) /\ Queue(u) = Queue(t) \ {"window"}
  BY <1>2, CancelFacts DEF Consistent
<1> HIDE DEF u
<1>4. Alike(t, u)
  BY <1>2, <1>3 DEF Alike, Same, Vpn, Consistent
<1>5. finalize_recovery(v) = w
  BY <1>3 DEF finalize_recovery, s, t, u, Vpn
<1>6. /\ answers \in [Requests -> {None, "postponed", "bypassed", "reset", "completed", "rejected"}]
      /\ \A r \in Requests : answers[r] \notin {"postponed", "bypassed"}
  <2>1. u.request \in [Requests -> {None, "postponed", "bypassed", "reset", "completed", "rejected"}]
    BY <1>3 DEF Vpn
  <2> QED
    BY <2>1
<1> HIDE DEF answers
<1>7. w \in Vpn
  BY <1>3, <1>6 DEF Vpn
<1>8. /\ w.queue = u.queue /\ Same(u, w) /\ w.request = answers /\ w.client = u.client
      /\ w.client_state = u.client_state /\ w.selected_endpoint = u.selected_endpoint
  BY <1>3 DEF Vpn, Same
<1>9. Queue(w) = Queue(u) /\ Ordered(w)
  BY <1>3, <1>8 DEF Queue, Ordered
<1>10. Consistent(w)
  BY <1>2, <1>3, <1>4, <1>6, <1>7, <1>8, <1>9 DEF Consistent, Alike, Same
<1> QED
  BY <1>1, <1>2, <1>4, <1>5, <1>8, <1>10 DEF Alike, Same

--------------------------------------------------------------------------------
(* Tasks that the loop runs.                                                 *)

\* A task that is taken from the queue leaves every other one, in the same order.
LEMMA RemoveFacts ==
  ASSUME NEW T, NEW q \in Seq(T), NEW p \in 1..Len(q)
  PROVE  LET r == RemoveAt(q, p) IN
         /\ r \in Seq(T) /\ Len(r) = Len(q) - 1
         /\ \A i \in 1..Len(r) : r[i] = IF i < p THEN q[i] ELSE q[i + 1]
<1> DEFINE a == SubSeq(q, 1, p - 1)
           b == SubSeq(q, p + 1, Len(q))
<1>1. a \in Seq(T) /\ Len(a) = p - 1 /\ \A i \in 1..(p - 1) : a[i] = q[i]
  OBVIOUS
<1>2. b \in Seq(T) /\ Len(b) = Len(q) - p /\ \A i \in 1..(Len(q) - p) : b[i] = q[p + i]
  OBVIOUS
<1>3. RemoveAt(q, p) = a \o b
  BY DEF RemoveAt
<1> HIDE DEF a, b
<1> DEFINE r == a \o b
<1>4. r \in Seq(T) /\ Len(r) = Len(q) - 1
  <2>1. r \in Seq(T) /\ Len(r) = Len(a) + Len(b)
    <3> HIDE DEF r
    <3>1. a \in Seq(T) /\ b \in Seq(T)
      BY <1>1, <1>2
    <3> QED
      BY <3>1 DEF r
  <2> HIDE DEF r
  <2>2. Len(q) \in Nat
    OBVIOUS
  <2>3. Len(r) = (p - 1) + (Len(q) - p)
    BY <1>1, <1>2, <2>1
  <2> QED
    BY <2>1, <2>2, <2>3
<1>5. ASSUME NEW i \in 1..Len(r) PROVE r[i] = IF i < p THEN q[i] ELSE q[i + 1]
  <2>1. CASE i < p
    <3>1. i \in 1..(p - 1) /\ r[i] = a[i]
      BY <1>1, <1>2, <1>4, <2>1
    <3> QED
      BY <1>1, <2>1, <3>1
  <2>2. CASE ~ (i < p)
    <3> DEFINE j == i - (p - 1)
    <3>1. j \in 1..(Len(q) - p) /\ p + j = i + 1
      BY <1>4, <2>2
    <3>2. r[i] = b[j]
      BY <1>1, <1>2, <1>4, <2>2
    <3> HIDE DEF j, r
    <3> QED
      BY <1>2, <2>2, <3>1, <3>2
  <2> QED
    BY <2>1, <2>2
<1> HIDE DEF r
<1> QED
  BY <1>3, <1>4, <1>5 DEF r

\* The loop takes the first occurrence of the task.
LEMMA PositionFacts ==
  ASSUME vpn \in Vpn, NEW t, Contains(vpn.queue, t)
  PROVE  /\ Position(t) \in 1..Len(vpn.queue) /\ vpn.queue[Position(t)] = t
<1> DEFINE q == vpn.queue
           I == {i \in 1..Len(q) : q[i] = t}
           m == Min(I)
<1>1. Position(t) = m
  BY DEF Position
<1>2. I # {}
  BY DEF Contains
<1>3. I \in SUBSET Nat
  OBVIOUS
<1>4. \E x \in I : \A y \in I : x <= y
  <2> HIDE DEF I
  <2> QED
    BY <1>2, <1>3, Least
<1>5. m \in I
  <2> HIDE DEF I
  <2> QED
    BY <1>4 DEF Min
<1> HIDE DEF m
<1> QED
  BY <1>1, <1>5

\* What running a task of the queue leaves of the manager.  A ping that ends was the
\* only one, and no retry that would start another is queued: one submitted before
\* it would have run, and none is submitted while it runs.
LEMMA TakenFacts ==
  ASSUME vpn \in Vpn, NEW t \in Tasks, Ready(t)
  PROVE  LET w == Taken(t) IN
         /\ w \in Vpn /\ w = [vpn EXCEPT !.queue = w.queue]
         /\ Queue(w) \subseteq Queue(vpn) /\ Queue(vpn) \ {t} \subseteq Queue(w)
         /\ Ordered(vpn) => Ordered(w)
         /\ Ordered(vpn) /\ t = "ping" => "ping" \notin Queue(w) /\ "retry" \notin Queue(w)
<1> DEFINE q == vpn.queue
           p == Position(t)
           r == RemoveAt(q, p)
           w == Taken(t)
<1>1. q \in Seq(Tasks)
  BY DEF Vpn, Tasks
<1>2. p \in 1..Len(q) /\ q[p] = t
  BY PositionFacts DEF Ready
<1>3. \A i \in 1..(p - 1) : q[i] \in Delayed
  BY DEF Ready
<1>4. w = [vpn EXCEPT !.queue = r]
  BY DEF Taken
<1> HIDE DEF w, p
<1>5. /\ r \in Seq(Tasks) /\ Len(r) = Len(q) - 1
      /\ \A i \in 1..Len(r) : r[i] = IF i < p THEN q[i] ELSE q[i + 1]
  BY <1>1, <1>2, RemoveFacts
<1> HIDE DEF r
<1>6. w \in Vpn
  BY <1>4, <1>5, QueueType
<1>7. w.queue = r
  BY <1>4 DEF Vpn
<1> HIDE DEF q
<1>8. ASSUME NEW x, Contains(r, x) PROVE Contains(q, x)
  <2>1. PICK i \in 1..Len(r) : r[i] = x
    BY <1>8 DEF Contains
  <2>2. i \in 1..Len(q) /\ i + 1 \in 1..Len(q)
    BY <1>1, <1>5
  <2> QED
    BY <1>5, <2>1, <2>2 DEF Contains
<1>9. ASSUME NEW x, x # t, Contains(q, x) PROVE Contains(r, x)
  <2>1. PICK i \in 1..Len(q) : q[i] = x
    BY <1>9 DEF Contains
  <2>2. i # p
    BY <1>2, <1>9, <2>1
  <2>3. CASE i < p
    <3>1. i \in 1..Len(r)
      BY <1>1, <1>2, <1>5, <2>3
    <3> QED
      BY <1>5, <2>1, <2>3, <3>1 DEF Contains
  <2>4. CASE i > p
    <3>1. i - 1 \in 1..Len(r) /\ ~ (i - 1 < p) /\ (i - 1) + 1 = i
      BY <1>1, <1>2, <1>5, <2>4
    <3> QED
      BY <1>5, <2>1, <3>1 DEF Contains
  <2> QED
    BY <1>1, <1>2, <2>2, <2>3, <2>4
<1>10. ASSUME NEW a, NEW b, NoAfter(q, a, b) PROVE NoAfter(r, a, b)
  <2>1. SUFFICES ASSUME NEW i \in 1..Len(r), NEW j \in 1..Len(r), i < j, r[i] = a, r[j] = b PROVE FALSE
    BY DEF NoAfter
  <2> DEFINE k == IF i < p THEN i ELSE i + 1
             l == IF j < p THEN j ELSE j + 1
  <2>2. k \in 1..Len(q) /\ l \in 1..Len(q) /\ k < l
    BY <1>1, <1>2, <1>5, <2>1
  <2>3. q[k] = a /\ q[l] = b
    BY <1>5, <2>1
  <2> HIDE DEF k, l
  <2> QED
    BY <1>10, <2>2, <2>3 DEF NoAfter
<1>11. ASSUME Ordered(vpn), t = "ping", NEW x \in {"ping", "retry"}, Contains(r, x) PROVE FALSE
  <2>1. PICK i \in 1..Len(r) : r[i] = x
    BY <1>11 DEF Contains
  <2>2. NoAfter(q, "ping", "ping") /\ NoAfter(q, "ping", "retry")
    BY <1>11 DEF Ordered, q
  <2>3. CASE i < p
    <3>1. i \in 1..Len(q) /\ i \in 1..(p - 1) /\ q[i] = x
      BY <1>1, <1>2, <1>5, <2>1, <2>3
    <3>2. x = "ping"
      BY <1>3, <1>11, <3>1 DEF Delayed
    <3> QED
      BY <1>2, <1>11, <2>2, <2>3, <3>1, <3>2 DEF NoAfter
  <2>4. CASE ~ (i < p)
    <3>1. i + 1 \in 1..Len(q) /\ p < i + 1 /\ q[i + 1] = x
      BY <1>1, <1>2, <1>5, <2>1, <2>4
    <3> QED
      BY <1>2, <1>11, <2>2, <3>1 DEF NoAfter
  <2> QED
    BY <2>3, <2>4
<1>12. Queue(w) \subseteq Queue(vpn) /\ Queue(vpn) \ {t} \subseteq Queue(w)
  BY <1>7, <1>8, <1>9 DEF Queue, q
<1>13. Ordered(vpn) => Ordered(w)
  BY <1>7, <1>10 DEF Ordered, q
<1>14. Ordered(vpn) /\ t = "ping" => "ping" \notin Queue(w) /\ "retry" \notin Queue(w)
  BY <1>7, <1>11 DEF Queue
<1>15. w = [vpn EXCEPT !.queue = w.queue]
  BY <1>4, <1>7
<1> QED
  BY <1>6, <1>12, <1>13, <1>14, <1>15 DEF w

--------------------------------------------------------------------------------
(* The transition table.                                                     *)

\* Row i is for the event in the state of v.
Matches(i, v, event) ==
  get_transition_table[i][1] \in {v.state, "ANY"} /\ get_transition_table[i][2] = event

\* w is x in the state, reported or not.
Becomes(x, w, state) ==
  w = [x EXCEPT !.state = state] \/ w = raise_state([x EXCEPT !.state = state])

\* Nor does the state change.
Stays(x, w) == Becomes(x, w, x.state)

\* The condition of no row for the event holds.
NoRow(v, event, d, c) ==
  \A i \in 1..54 : Matches(i, v, event) => ~ Holds(get_transition_table[i][3], v, d, c)

\* Row i is the first one for the event whose condition holds.
IsFirst(i, v, event, d, c) ==
  /\ Matches(i, v, event) /\ Holds(get_transition_table[i][3], v, d, c)
  /\ \A j \in 1..(i - 1) : Matches(j, v, event) => ~ Holds(get_transition_table[j][3], v, d, c)

\* w is what taking the row leaves of v.
Follows(row, v, d, c, w) ==
  \/ row[5] # "SAME" /\ Becomes(Before(row[4], v, d, c), w, row[5])
  \/ row[5] = "SAME" /\ Stays(Before(row[4], v, d, c), w)

\* Outcome takes the row.
LEMMA OutcomeFollows ==
  ASSUME NEW row, NEW v, NEW d, NEW c
  PROVE  Follows(row, v, d, c, Outcome(row, v, d, c))
BY DEF Outcome, Becomes, Stays, Follows

\* The table has 54 rows.
LEMMA TableDomain == DOMAIN TRANSITION_TABLE = 1..54
  BY DEF TRANSITION_TABLE

\* perform_transition takes the first row whose condition holds, or none.
LEMMA RowTaken ==
  ASSUME NEW v, v.state \in States, NEW event \in Events, NEW d, NEW c
  PROVE  \/ Taking(v, event, d, c) = v /\ NoRow(v, event, d, c)
         \/ \E i \in 1..54 : /\ IsFirst(i, v, event, d, c)
                             /\ Follows(get_transition_table[i], v, d, c, Taking(v, event, d, c))
<1> DEFINE rows == {i \in Rows[<<v.state, event>>] : Holds(get_transition_table[i][3], v, d, c)}
<1>1. Rows[<<v.state, event>>] = {i \in 1..54 : Matches(i, v, event)}
  BY TableDomain DEF Rows, Matches, get_transition_table
<1>2. \A i : i \in rows <=> i \in 1..54 /\ Matches(i, v, event) /\ Holds(get_transition_table[i][3], v, d, c)
  BY <1>1
<1>3. Taking(v, event, d, c) = IF rows = {} THEN v ELSE Outcome(get_transition_table[Min(rows)], v, d, c)
  BY DEF Taking
<1> HIDE DEF rows
<1>4. CASE rows = {}
  BY <1>2, <1>3, <1>4 DEF NoRow
<1>5. CASE rows # {}
  <2>1. rows \in SUBSET Nat
    BY <1>2
  <2>2. \E x \in rows : \A y \in rows : x <= y
    BY <1>5, <2>1, Least
  <2> DEFINE m == Min(rows)
  <2>3. m \in rows /\ \A y \in rows : m <= y
    BY <2>2 DEF Min
  <2>4. Taking(v, event, d, c) = Outcome(get_transition_table[m], v, d, c)
    BY <1>3, <1>5
  <2> HIDE DEF m
  <2>5. \A j \in 1..(m - 1) : j \notin rows
    BY <2>1, <2>3
  <2>6. m \in 1..54 /\ \A j \in 1..(m - 1) : j \in 1..54
    BY <1>2, <2>3
  <2> QED
    BY <1>2, <2>3, <2>4, <2>5, <2>6, OutcomeFollows, ZenonT(40) DEF IsFirst
<1> QED
  BY <1>4, <1>5

\* submit_disconnect defers the disconnection of a connected client.
LEMMA SubmitDisconnectFacts ==
  ASSUME NEW v, Consistent(v), v.client = "connected", NEW error
  PROVE  LET w == submit_disconnect(v, error) IN
         /\ Consistent(w) /\ Same(v, w) /\ w.selected_endpoint = v.selected_endpoint
         /\ w.client = "disconnecting" /\ Queue(v) \subseteq Queue(w)
         /\ "retry" \in Queue(w) => "retry" \in Queue(v)
<1> DEFINE u == Submit(v, "deferred_disconnect")
           e == IF u.client_error = None /\ error \in Failures THEN error ELSE u.client_error
           w == [u EXCEPT !.client = "disconnecting", !.client_error = e]
<1>1. v \in Vpn /\ Ordered(v) /\ "deferred_disconnect" \in Tasks
  BY DEF Consistent, Tasks, Submitted
<1>2. u \in Vpn /\ u = [v EXCEPT !.queue = u.queue] /\ Ordered(u) /\ Queue(u) = Queue(v) \cup {"deferred_disconnect"}
  BY <1>1, SubmitFacts
<1> HIDE DEF u
<1>3. e \in Errors
  BY <1>2 DEF Vpn, Failures, Errors
<1>4. submit_disconnect(v, error) = w
  BY <1>2 DEF submit_disconnect, u, Vpn
<1> HIDE DEF e
<1>5. w \in Vpn
  BY <1>2, <1>3, Zenon DEF Vpn
<1>6. /\ w.queue = u.queue /\ Same(v, w) /\ w.client = "disconnecting" /\ w.client_state = v.client_state
      /\ w.selected_endpoint = v.selected_endpoint /\ w.request = v.request
  BY <1>1, <1>2 DEF Same, Vpn
<1>7. Queue(w) = Queue(u) /\ Ordered(w)
  BY <1>2, <1>6 DEF Queue, Ordered
<1>8. Consistent(w)
  BY <1>2, <1>5, <1>6, <1>7 DEF Consistent, Same
<1> QED
  BY <1>2, <1>4, <1>6, <1>7, <1>8

\* start_listening submits the failure, and the disconnection of a connected client.
LEMMA StartListeningFacts ==
  ASSUME NEW v, Consistent(v), NEW outcome
  PROVE  LET w == start_listening(v, outcome) IN
         /\ Consistent(w) /\ Same(v, w) /\ w.selected_endpoint = v.selected_endpoint
         /\ \/ w.client = v.client
            \/ v.client = "connected" /\ w.client = "disconnecting"
         /\ Queue(v) \subseteq Queue(w)
         /\ "retry" \in Queue(w) => "retry" \in Queue(v)
<1>1. CASE outcome # "fails"
  BY <1>1 DEF start_listening, Same
<1>2. CASE outcome = "fails"
  <2> DEFINE u == IF v.client = "connected" THEN submit_disconnect(v, None) ELSE v
             w == Submit(u, "listen_failed")
  <2>1. /\ Consistent(u) /\ Same(v, u) /\ u.selected_endpoint = v.selected_endpoint
        /\ \/ u.client = v.client
           \/ v.client = "connected" /\ u.client = "disconnecting"
        /\ Queue(v) \subseteq Queue(u)
        /\ "retry" \in Queue(u) => "retry" \in Queue(v)
    BY SubmitDisconnectFacts DEF Same
  <2>2. start_listening(v, outcome) = w
    BY <1>2 DEF start_listening
  <2> HIDE DEF u
  <2>3. u \in Vpn /\ Ordered(u) /\ "listen_failed" \in Tasks
    BY <2>1 DEF Consistent, Tasks, Submitted
  <2>4. w \in Vpn /\ w = [u EXCEPT !.queue = w.queue] /\ Ordered(w) /\ Queue(w) = Queue(u) \cup {"listen_failed"}
    BY <2>3, SubmitFacts
  <2> HIDE DEF w
  <2>5. Alike(u, w)
    BY <2>3, <2>4 DEF Alike, Same, Vpn
  <2>6. Consistent(w)
    BY <2>1, <2>4, <2>5 DEF Consistent, Alike, Same
  <2> QED
    BY <2>1, <2>2, <2>4, <2>5, <2>6 DEF Alike, Same
<1> QED
  BY <1>1, <1>2

\* on_wrong_connect_state disconnects.
LEMMA OnWrongConnectStateFacts ==
  ASSUME NEW v, Consistent(v)
  PROVE  LET w == on_wrong_connect_state(v) IN Consistent(w) /\ Same(v, w)
<1> DEFINE u == disconnect(v)
           w == [u EXCEPT !.pending_error = "plain"]
<1>1. Consistent(u) /\ Same(v, u)
  BY DisconnectFacts
<1> HIDE DEF u
<1>2. on_wrong_connect_state(v) = w
  BY DEF on_wrong_connect_state, u
<1>3. w \in Vpn /\ w.queue = u.queue /\ Alike(u, w)
  BY <1>1, ZenonT(40) DEF Vpn, Errors, Alike, Same, Consistent
<1> QED
  BY <1>1, <1>2, <1>3, SetFacts, ZenonT(40) DEF Alike, Same

\* A request may be postponed while its window is open, and bypass the endpoint
\* unless the kill switch is on.
LEMMA AnswerRequestFacts ==
  ASSUME NEW v, Consistent(v), NEW r \in Requests,
         NEW answer \in {"postponed", "bypassed", "completed", "rejected"},
         answer = "postponed" => "window" \in Queue(v),
         answer = "bypassed" => ~ v.kill_switch
  PROVE  LET w == answer_request(v, r, answer) IN
         /\ Consistent(w) /\ Same(v, w) /\ w.client = v.client
         /\ w.selected_endpoint = v.selected_endpoint /\ Queue(w) = Queue(v)
<1> DEFINE w == [v EXCEPT !.request[r] = answer]
<1>1. v \in Vpn /\ answer_request(v, r, answer) = w
  BY DEF Consistent, answer_request
<1>2. w \in Vpn
  BY <1>1 DEF Vpn
<1>3. /\ w.queue = v.queue /\ Same(v, w) /\ w.client = v.client /\ w.client_state = v.client_state
      /\ w.selected_endpoint = v.selected_endpoint /\ w.request = [v.request EXCEPT ![r] = answer]
  BY <1>1 DEF Same, Vpn
<1>4. Queue(w) = Queue(v) /\ Ordered(w)
  BY <1>3 DEF Queue, Ordered, Consistent
<1>5. \A q \in Requests : w.request[q] \in {v.request[q], answer}
  BY <1>1, <1>3 DEF Vpn
<1> HIDE DEF w
<1>6. (\E q \in Requests : w.request[q] = "postponed") => "window" \in Queue(w)
  BY <1>4, <1>5 DEF Consistent
<1>7. w.kill_switch => \A q \in Requests : w.request[q] # "bypassed"
  BY <1>3, <1>5 DEF Consistent, Same
<1>8. Consistent(w)
  BY <1>2, <1>3, <1>4, <1>6, <1>7 DEF Consistent, Same
<1> QED
  BY <1>1, <1>3, <1>4, <1>8

\* Entering a state keeps the manager consistent.
LEMMA BecomesFacts ==
  ASSUME NEW v, Consistent(v), NEW s \in States, NEW w, Becomes(v, w, s)
  PROVE  /\ Consistent(w) /\ w.state = s /\ w.policy = v.policy
         /\ w.client = v.client /\ w.selected_endpoint = v.selected_endpoint /\ Queue(w) = Queue(v)
<1> DEFINE u == [v EXCEPT !.state = s]
<1>1. v \in Vpn
  BY DEF Consistent
<1>2. /\ u \in Vpn /\ u.state = s /\ u.policy = v.policy /\ u.endpoints = v.endpoints
      /\ u.kill_switch = v.kill_switch /\ u.client = v.client /\ u.client_state = v.client_state
      /\ u.selected_endpoint = v.selected_endpoint /\ u.request = v.request /\ u.queue = v.queue
  BY <1>1 DEF Vpn
<1>3. w \in {u, raise_state(u)}
  BY DEF Becomes
<1> HIDE DEF u
<1>4. /\ w \in Vpn /\ w.state = s /\ w.policy = v.policy /\ w.endpoints = v.endpoints
      /\ w.kill_switch = v.kill_switch /\ w.client = v.client /\ w.client_state = v.client_state
      /\ w.selected_endpoint = v.selected_endpoint /\ w.request = v.request /\ w.queue = v.queue
  <2>1. CASE w = u
    BY <1>2, <2>1
  <2>2. CASE w = raise_state(u)
    <3> DEFINE e == IF u.state = "CONNECTED" THEN u.pending_error ELSE None
               o == u.connected_once \/ u.state = "CONNECTED"
               n == u.network_changed /\ u.state \notin {"DISCONNECTED", "CONNECTING", "RECOVERING"}
    <3>1. e \in Errors /\ o \in BOOLEAN /\ n \in BOOLEAN
      BY <1>2 DEF Vpn, Errors
    <3>2. w = [u EXCEPT !.pending_error = e, !.connected_once = o, !.network_changed = n]
      BY <1>2, <2>2 DEF raise_state, Vpn
    <3> HIDE DEF e, o, n
    <3>3. w \in Vpn
      BY <1>2, <3>1, <3>2, ZenonT(40) DEF Vpn
    <3> QED
      BY <1>2, <3>2, <3>3 DEF Vpn
  <2> QED
    BY <1>3, <2>1, <2>2
<1>5. Queue(w) = Queue(v) /\ Ordered(w)
  BY <1>4 DEF Queue, Ordered, Consistent
<1>6. Consistent(w)
  BY <1>4, <1>5 DEF Consistent
<1> QED
  BY <1>4, <1>5, <1>6

\* What every row of the table does, by the action it takes first.
RowFacts(i, row) ==
  /\ row[4] \in {"DO_NOTHING", "run_ping", "connect_client", "reconnect_client", "complete_connect",
                 "fail_connect", "retry_connect", "prepare_for_recovery", "finalize_recovery",
                 "do_disconnect", "start_listening", "on_wrong_connect_state", "complete_request",
                 "postpone_request", "reject_request", "bypass_until_connected"}
  /\ row[4] \in {"fail_connect", "on_wrong_connect_state"} => row[5] = "DISCONNECTED"
  /\ row[4] = "prepare_for_recovery" => row[5] = "WAITING_RECOVERY"
  /\ row[4] = "retry_connect" => row[5] \in {"CONNECTING", "SAME"}
  /\ row[4] = "retry_connect" /\ row[5] = "SAME" => row[1] = "CONNECTING"
  /\ row[4] = "do_disconnect" =>
       \/ row[5] \in {"DISCONNECTED", "WAITING_FOR_NETWORK"}
       \/ row[1] = "DISCONNECTED" /\ row[5] = "SAME"
  /\ row[4] = "complete_connect" => row[5] \in {"DISCONNECTED", "CONNECTED"}
  /\ row[4] = "complete_connect" /\ row[5] = "CONNECTED" => row[2] = "CLIENT_READY" /\ row[1] = "CONNECTING"
  /\ row[4] = "run_ping" =>
       \/ row[2] = "DO_CONNECT" /\ row[1] = "DISCONNECTED" /\ row[5] = "CONNECTING"
       \/ row[2] = "RETRY_CONNECT" /\ row[1] = "CONNECTING" /\ row[5] = "SAME"
       \/ row[2] \in {"NETWORK_CHANGE", "DO_RECOVERY"} /\ row[1] = "WAITING_RECOVERY" /\ row[5] = "RECOVERING"
  /\ row[4] = "connect_client" =>
       \/ row[2] = "PING_READY" /\ row[1] = "CONNECTING" /\ row[5] = "SAME"
       \/ row[2] = "DO_RECOVERY" /\ row[1] = "WAITING_RECOVERY" /\ row[5] = "RECOVERING" /\ i = 30
  /\ row[4] = "reconnect_client" => row[2] = "PING_READY" /\ row[1] = "RECOVERING" /\ row[5] = "SAME"
  /\ row[4] = "finalize_recovery" => row[2] = "CLIENT_READY" /\ row[1] = "RECOVERING" /\ row[5] = "CONNECTED"
  /\ row[4] = "DO_NOTHING" =>
       /\ row[5] = "SAME"
       /\ \/ row[1] = "DISCONNECTED"
          \/ row[1] = "WAITING_RECOVERY" /\ row[2] = "CLIENT_DISCONNECTED"
          \/ row[1] = "WAITING_FOR_NETWORK" /\ row[2] = "NETWORK_CHANGE"
  /\ row[4] = "start_listening" => row[2] = "START_LISTENING" /\ row[5] = "SAME"
  /\ row[4] \in {"complete_request", "reject_request", "postpone_request", "bypass_until_connected"} =>
       row[2] = "COMPLETE_REQUEST" /\ row[5] = "SAME"
  /\ row[4] = "postpone_request" => row[3] = "should_postpone"
  /\ row[4] = "bypass_until_connected" => i = 54
  /\ row[1] = "DISCONNECTED" /\ row[2] # "DO_CONNECT" => row[5] = "SAME"
  /\ row[1] = "ANY" /\ row[2] = "CLIENT_DISCONNECTED" => i > 2
  /\ row[1] = "ANY" /\ row[2] \notin {"CLIENT_DISCONNECTED", "DO_CONNECT"} => row[5] \in {"DISCONNECTED", "SAME"}

\* RowFacts holds of every row.
LEMMA TableRows ==
  ASSUME NEW i \in 1..54, NEW row, row = get_transition_table[i]
  PROVE  RowFacts(i, row)
<1>1. row[4] \in {"DO_NOTHING", "run_ping", "connect_client", "reconnect_client", "complete_connect",
                   "fail_connect", "retry_connect", "prepare_for_recovery", "finalize_recovery",
                   "do_disconnect", "start_listening", "on_wrong_connect_state", "complete_request",
                   "postpone_request", "reject_request", "bypass_until_connected"}
  BY DEF get_transition_table, TRANSITION_TABLE
<1>2. row[4] \in {"fail_connect", "on_wrong_connect_state"} => row[5] = "DISCONNECTED"
  BY DEF get_transition_table, TRANSITION_TABLE
<1>3. row[4] = "prepare_for_recovery" => row[5] = "WAITING_RECOVERY"
  BY DEF get_transition_table, TRANSITION_TABLE
<1>4. row[4] = "retry_connect" => row[5] \in {"CONNECTING", "SAME"}
  BY DEF get_transition_table, TRANSITION_TABLE
<1>5. row[4] = "retry_connect" /\ row[5] = "SAME" => row[1] = "CONNECTING"
  BY DEF get_transition_table, TRANSITION_TABLE
<1>6. row[4] = "do_disconnect" =>
         \/ row[5] \in {"DISCONNECTED", "WAITING_FOR_NETWORK"}
         \/ row[1] = "DISCONNECTED" /\ row[5] = "SAME"
  BY DEF get_transition_table, TRANSITION_TABLE
<1>7. row[4] = "complete_connect" => row[5] \in {"DISCONNECTED", "CONNECTED"}
  BY DEF get_transition_table, TRANSITION_TABLE
<1>8. row[4] = "complete_connect" /\ row[5] = "CONNECTED" => row[2] = "CLIENT_READY" /\ row[1] = "CONNECTING"
  BY DEF get_transition_table, TRANSITION_TABLE
<1>9. row[4] = "run_ping" =>
         \/ row[2] = "DO_CONNECT" /\ row[1] = "DISCONNECTED" /\ row[5] = "CONNECTING"
         \/ row[2] = "RETRY_CONNECT" /\ row[1] = "CONNECTING" /\ row[5] = "SAME"
         \/ row[2] \in {"NETWORK_CHANGE", "DO_RECOVERY"} /\ row[1] = "WAITING_RECOVERY" /\ row[5] = "RECOVERING"
  BY DEF get_transition_table, TRANSITION_TABLE
<1>10. row[4] = "connect_client" =>
         \/ row[2] = "PING_READY" /\ row[1] = "CONNECTING" /\ row[5] = "SAME"
         \/ row[2] = "DO_RECOVERY" /\ row[1] = "WAITING_RECOVERY" /\ row[5] = "RECOVERING" /\ i = 30
  BY DEF get_transition_table, TRANSITION_TABLE
<1>11. row[4] = "reconnect_client" => row[2] = "PING_READY" /\ row[1] = "RECOVERING" /\ row[5] = "SAME"
  BY DEF get_transition_table, TRANSITION_TABLE
<1>12. row[4] = "finalize_recovery" => row[2] = "CLIENT_READY" /\ row[1] = "RECOVERING" /\ row[5] = "CONNECTED"
  BY DEF get_transition_table, TRANSITION_TABLE
<1>13. row[4] = "DO_NOTHING" =>
         /\ row[5] = "SAME"
         /\ \/ row[1] = "DISCONNECTED"
            \/ row[1] = "WAITING_RECOVERY" /\ row[2] = "CLIENT_DISCONNECTED"
            \/ row[1] = "WAITING_FOR_NETWORK" /\ row[2] = "NETWORK_CHANGE"
  BY DEF get_transition_table, TRANSITION_TABLE
<1>14. row[4] = "start_listening" => row[2] = "START_LISTENING" /\ row[5] = "SAME"
  BY DEF get_transition_table, TRANSITION_TABLE
<1>15. row[4] \in {"complete_request", "reject_request", "postpone_request", "bypass_until_connected"} =>
         row[2] = "COMPLETE_REQUEST" /\ row[5] = "SAME"
  BY DEF get_transition_table, TRANSITION_TABLE
<1>16. row[4] = "postpone_request" => row[3] = "should_postpone"
  BY DEF get_transition_table, TRANSITION_TABLE
<1>17. row[4] = "bypass_until_connected" => i = 54
  BY DEF get_transition_table, TRANSITION_TABLE
<1>18. row[1] = "DISCONNECTED" /\ row[2] # "DO_CONNECT" => row[5] = "SAME"
  BY DEF get_transition_table, TRANSITION_TABLE
<1>19. row[1] = "ANY" /\ row[2] = "CLIENT_DISCONNECTED" => i > 2
  BY DEF get_transition_table, TRANSITION_TABLE
<1>20. row[1] = "ANY" /\ row[2] \notin {"CLIENT_DISCONNECTED", "DO_CONNECT"} => row[5] \in {"DISCONNECTED", "SAME"}
  BY DEF get_transition_table, TRANSITION_TABLE
<1> QED
  BY <1>1, <1>2, <1>3, <1>4, <1>5, <1>6, <1>7, <1>8, <1>9, <1>10, <1>11, <1>12, <1>13, <1>14, <1>15, <1>16, <1>17, <1>18, <1>19, <1>20 DEF RowFacts

\* A row that is taken whatever the conditions, unless one before it is.
CatchAll(row, source, event) ==
  row[1] = source /\ row[2] = event /\ row[3] \in {"ANYWAY", "OTHERWISE"}

\* The rows that are taken in any case, and the two whose order matters.
LEMMA TableCatchAlls ==
  ASSUME NEW i \in 1..54, NEW row, row = get_transition_table[i]
  PROVE  /\ i = 2 => CatchAll(row, "DISCONNECTED", "CLIENT_DISCONNECTED")
         /\ i = 4 => CatchAll(row, "DISCONNECTED", "START_LISTENING")
         /\ i = 5 => CatchAll(row, "DISCONNECTED", "NETWORK_CHANGE")
         /\ i = 6 => CatchAll(row, "CONNECTING", "RETRY_CONNECT")
         /\ i = 7 => CatchAll(row, "CONNECTING", "PING_READY")
         /\ i = 11 => CatchAll(row, "CONNECTING", "PING_FAIL")
         /\ i = 12 => CatchAll(row, "CONNECTING", "CLIENT_READY")
         /\ i = 18 => CatchAll(row, "CONNECTING", "ABANDON_ENDPOINT")
         /\ i = 26 => CatchAll(row, "CONNECTED", "ABANDON_ENDPOINT")
         /\ i = 30 => CatchAll(row, "WAITING_RECOVERY", "DO_RECOVERY")
         /\ i = 36 => CatchAll(row, "RECOVERING", "PING_READY")
         /\ i = 38 => CatchAll(row, "RECOVERING", "PING_FAIL")
         /\ i = 39 => CatchAll(row, "RECOVERING", "CLIENT_READY")
         /\ i = 41 => CatchAll(row, "RECOVERING", "ABANDON_ENDPOINT")
         /\ i = 47 => CatchAll(row, "ANY", "CLIENT_DISCONNECTED")
         /\ i = 48 => CatchAll(row, "ANY", "SHUTDOWN")
         /\ i = 49 => CatchAll(row, "ANY", "DO_CONNECT")
         /\ i = 54 => CatchAll(row, "ANY", "COMPLETE_REQUEST")
         /\ i = 29 => row[1] = "WAITING_RECOVERY" /\ row[2] = "DO_RECOVERY" /\ row[3] = "need_to_ping_on_recovery"
         /\ i = 53 => row[1] = "ANY" /\ row[2] = "COMPLETE_REQUEST" /\ row[3] = "is_kill_switch_on"
<1>1. i = 2 => CatchAll(row, "DISCONNECTED", "CLIENT_DISCONNECTED")
  BY DEF CatchAll, get_transition_table, TRANSITION_TABLE
<1>2. i = 4 => CatchAll(row, "DISCONNECTED", "START_LISTENING")
  BY DEF CatchAll, get_transition_table, TRANSITION_TABLE
<1>3. i = 5 => CatchAll(row, "DISCONNECTED", "NETWORK_CHANGE")
  BY DEF CatchAll, get_transition_table, TRANSITION_TABLE
<1>4. i = 6 => CatchAll(row, "CONNECTING", "RETRY_CONNECT")
  BY DEF CatchAll, get_transition_table, TRANSITION_TABLE
<1>5. i = 7 => CatchAll(row, "CONNECTING", "PING_READY")
  BY DEF CatchAll, get_transition_table, TRANSITION_TABLE
<1>6. i = 11 => CatchAll(row, "CONNECTING", "PING_FAIL")
  BY DEF CatchAll, get_transition_table, TRANSITION_TABLE
<1>7. i = 12 => CatchAll(row, "CONNECTING", "CLIENT_READY")
  BY DEF CatchAll, get_transition_table, TRANSITION_TABLE
<1>8. i = 18 => CatchAll(row, "CONNECTING", "ABANDON_ENDPOINT")
  BY DEF CatchAll, get_transition_table, TRANSITION_TABLE
<1>9. i = 26 => CatchAll(row, "CONNECTED", "ABANDON_ENDPOINT")
  BY DEF CatchAll, get_transition_table, TRANSITION_TABLE
<1>10. i = 30 => CatchAll(row, "WAITING_RECOVERY", "DO_RECOVERY")
  BY DEF CatchAll, get_transition_table, TRANSITION_TABLE
<1>11. i = 36 => CatchAll(row, "RECOVERING", "PING_READY")
  BY DEF CatchAll, get_transition_table, TRANSITION_TABLE
<1>12. i = 38 => CatchAll(row, "RECOVERING", "PING_FAIL")
  BY DEF CatchAll, get_transition_table, TRANSITION_TABLE
<1>13. i = 39 => CatchAll(row, "RECOVERING", "CLIENT_READY")
  BY DEF CatchAll, get_transition_table, TRANSITION_TABLE
<1>14. i = 41 => CatchAll(row, "RECOVERING", "ABANDON_ENDPOINT")
  BY DEF CatchAll, get_transition_table, TRANSITION_TABLE
<1>15. i = 47 => CatchAll(row, "ANY", "CLIENT_DISCONNECTED")
  BY DEF CatchAll, get_transition_table, TRANSITION_TABLE
<1>16. i = 48 => CatchAll(row, "ANY", "SHUTDOWN")
  BY DEF CatchAll, get_transition_table, TRANSITION_TABLE
<1>17. i = 49 => CatchAll(row, "ANY", "DO_CONNECT")
  BY DEF CatchAll, get_transition_table, TRANSITION_TABLE
<1>18. i = 54 => CatchAll(row, "ANY", "COMPLETE_REQUEST")
  BY DEF CatchAll, get_transition_table, TRANSITION_TABLE
<1>19. i = 29 => row[1] = "WAITING_RECOVERY" /\ row[2] = "DO_RECOVERY" /\ row[3] = "need_to_ping_on_recovery"
  BY DEF get_transition_table, TRANSITION_TABLE
<1>20. i = 53 => row[1] = "ANY" /\ row[2] = "COMPLETE_REQUEST" /\ row[3] = "is_kill_switch_on"
  BY DEF get_transition_table, TRANSITION_TABLE
<1> QED
  BY <1>1, <1>2, <1>3, <1>4, <1>5, <1>6, <1>7, <1>8, <1>9, <1>10, <1>11, <1>12, <1>13, <1>14, <1>15, <1>16, <1>17, <1>18, <1>19, <1>20

\* The events of the table.
LEMMA TableEvents ==
  {"DO_CONNECT", "CLIENT_DISCONNECTED", "SHUTDOWN", "START_LISTENING", "NETWORK_CHANGE", "RETRY_CONNECT",
   "PING_READY", "PING_FAIL", "CLIENT_READY", "ABANDON_ENDPOINT", "DO_RECOVERY", "COMPLETE_REQUEST"}
    \subseteq Events
<1>1. \A i \in 1..54 : get_transition_table[i][2] \in Events
  BY TableDomain DEF get_transition_table, Events, Range
<1>2. ASSUME NEW i \in 1..54, NEW source, NEW event, CatchAll(get_transition_table[i], source, event)
      PROVE  event \in Events
  BY <1>1, <1>2 DEF CatchAll
<1>3. \A i \in {4, 5, 6, 7, 11, 12, 18, 30, 47, 48, 49, 54} : i \in 1..54
  OBVIOUS
<1>4. /\ CatchAll(get_transition_table[4], "DISCONNECTED", "START_LISTENING")
      /\ CatchAll(get_transition_table[5], "DISCONNECTED", "NETWORK_CHANGE")
      /\ CatchAll(get_transition_table[6], "CONNECTING", "RETRY_CONNECT")
      /\ CatchAll(get_transition_table[7], "CONNECTING", "PING_READY")
      /\ CatchAll(get_transition_table[11], "CONNECTING", "PING_FAIL")
      /\ CatchAll(get_transition_table[12], "CONNECTING", "CLIENT_READY")
      /\ CatchAll(get_transition_table[18], "CONNECTING", "ABANDON_ENDPOINT")
      /\ CatchAll(get_transition_table[30], "WAITING_RECOVERY", "DO_RECOVERY")
      /\ CatchAll(get_transition_table[47], "ANY", "CLIENT_DISCONNECTED")
      /\ CatchAll(get_transition_table[48], "ANY", "SHUTDOWN")
      /\ CatchAll(get_transition_table[49], "ANY", "DO_CONNECT")
      /\ CatchAll(get_transition_table[54], "ANY", "COMPLETE_REQUEST")
  BY <1>3, TableCatchAlls
<1> QED
  BY <1>2, <1>3, <1>4


--------------------------------------------------------------------------------
(* A transition.                                                             *)

\* What a manager needs to be in the state, so that something ends its wait: a
\* client in progress or connected over an endpoint, or a task in the queue.
Serves(v, state) ==
  /\ state \in {"WAITING_RECOVERY", "WAITING_FOR_NETWORK"} => v.client = "disconnected"
  /\ state = "WAITING_RECOVERY" => Queue(v) \cap {"recovery", "give_up"} # {}
  /\ state = "CONNECTED" => v.client \in {"connected", "disconnecting"} /\ v.selected_endpoint # None
  /\ state \in {"CONNECTING", "RECOVERING"} =>
       \/ v.client # "disconnected" /\ v.selected_endpoint # None
       \/ v.client = "disconnected" /\ Queue(v) \cap {"ping", "client_disconnected", "give_up"} # {}
       \/ v.client = "disconnected" /\ state = "CONNECTING" /\ "retry" \in Queue(v)
  /\ state = "CONNECTING" /\ "retry" \in Queue(v) => v.client = "disconnected"

\* The manager has what its state needs.
Settled(v) == Serves(v, v.state)

\* What holds of the manager when an event is raised: it is settled, or has just
\* lost what the event says it has lost.
Expects(event, v, d) ==
  \/ event = "DO_CONNECT" /\ v.state = "DISCONNECTED" /\ v.client = "disconnected"
  \/ event = "CLIENT_DISCONNECTED" /\ (v.state = "WAITING_RECOVERY" => Settled(v))
  \/ event = "SHUTDOWN"
  \/ event \in {"START_LISTENING", "NETWORK_CHANGE"} /\ Settled(v)
  \/ event = "COMPLETE_REQUEST" /\ Settled(v) /\ d.id \in Requests
  \/ event = "RETRY_CONNECT" /\ IF v.state = "CONNECTING" THEN v.client = "disconnected" ELSE Settled(v)
  \/ /\ event = "PING_READY"
     /\ IF v.state \in {"CONNECTING", "RECOVERING"}
        THEN v.selected_endpoint # None /\ "retry" \notin Queue(v) ELSE Settled(v)
  \/ event = "PING_FAIL" /\ (v.state \notin {"CONNECTING", "RECOVERING"} => Settled(v))
  \/ /\ event = "CLIENT_READY" /\ d = None /\ v.client = "connected"
     /\ IF v.state \in {"CONNECTING", "RECOVERING"} THEN v.selected_endpoint # None ELSE Settled(v)
  \/ event = "ABANDON_ENDPOINT" /\ (v.state \notin {"CONNECTING", "CONNECTED", "RECOVERING"} => Settled(v))
  \/ event = "DO_RECOVERY" /\ IF v.state = "WAITING_RECOVERY" THEN v.client = "disconnected" ELSE Settled(v)

\* The row is the one that an event takes, with what follows from the rows before it.
Takes(i, row, v, event, d, c) ==
  /\ RowFacts(i, row)
  /\ row[1] \in {v.state, "ANY"} /\ row[2] = event /\ Holds(row[3], v, d, c)
  /\ i = 30 => ~ Holds("need_to_ping_on_recovery", v, d, c)
  /\ i = 54 => ~ Holds("is_kill_switch_on", v, d, c)
  /\ v.state = "DISCONNECTED" /\ event = "CLIENT_DISCONNECTED" => row[1] # "ANY"

\* The state that the row leads to.
Target(row, v) == IF row[5] = "SAME" THEN v.state ELSE row[5]

\* The first row whose condition holds is taken with what the rows before it say.
LEMMA FirstRowTakes ==
  ASSUME NEW v, NEW event, NEW d, NEW c, NEW i \in 1..54, IsFirst(i, v, event, d, c)
  PROVE  Takes(i, get_transition_table[i], v, event, d, c)
<1> DEFINE R == get_transition_table
<1>1. ASSUME NEW j \in 1..(i - 1), R[j][1] \in {v.state, "ANY"}, R[j][2] = event
      PROVE  ~ Holds(R[j][3], v, d, c)
  BY <1>1 DEF IsFirst, Matches
<1>2. RowFacts(i, R[i]) /\ R[i][1] \in {v.state, "ANY"} /\ R[i][2] = event /\ Holds(R[i][3], v, d, c)
  BY TableRows DEF IsFirst, Matches
<1>3. ASSUME i = 30 PROVE ~ Holds("need_to_ping_on_recovery", v, d, c)
  <2>1. 29 \in 1..54 /\ 30 \in 1..54 /\ 29 \in 1..(i - 1)
    BY <1>3
  <2>2. /\ R[29][1] = "WAITING_RECOVERY" /\ R[29][2] = "DO_RECOVERY" /\ R[29][3] = "need_to_ping_on_recovery"
        /\ CatchAll(R[30], "WAITING_RECOVERY", "DO_RECOVERY")
    BY <2>1, TableCatchAlls
  <2> HIDE DEF R
  <2>3. v.state = "WAITING_RECOVERY" /\ event = "DO_RECOVERY"
    BY <1>2, <1>3, <2>2 DEF CatchAll
  <2> QED
    BY <1>1, <2>1, <2>2, <2>3
<1>4. ASSUME i = 54 PROVE ~ Holds("is_kill_switch_on", v, d, c)
  <2>1. 53 \in 1..54 /\ 54 \in 1..54 /\ 53 \in 1..(i - 1)
    BY <1>4
  <2>2. /\ R[53][1] = "ANY" /\ R[53][2] = "COMPLETE_REQUEST" /\ R[53][3] = "is_kill_switch_on"
        /\ CatchAll(R[54], "ANY", "COMPLETE_REQUEST")
    BY <2>1, TableCatchAlls
  <2> HIDE DEF R
  <2>3. event = "COMPLETE_REQUEST"
    BY <1>2, <1>4, <2>2 DEF CatchAll
  <2> QED
    BY <1>1, <2>1, <2>2, <2>3
<1>5. ASSUME v.state = "DISCONNECTED", event = "CLIENT_DISCONNECTED" PROVE R[i][1] # "ANY"
  <2>1. CASE i > 2
    <3>1. 2 \in 1..54 /\ 2 \in 1..(i - 1)
      BY <2>1
    <3>2. CatchAll(R[2], "DISCONNECTED", "CLIENT_DISCONNECTED")
      BY <3>1, TableCatchAlls
    <3>3. Holds("ANYWAY", v, d, c) /\ Holds("OTHERWISE", v, d, c)
      BY DEF Holds
    <3> HIDE DEF R
    <3> QED
      BY <1>1, <1>5, <3>1, <3>2, <3>3 DEF CatchAll
  <2>2. CASE ~ (i > 2)
    BY <1>2, <1>5, <2>2 DEF RowFacts
  <2> QED
    BY <2>1, <2>2
<1> HIDE DEF R
<1>6. Takes(i, R[i], v, event, d, c)
  BY <1>2, <1>3, <1>4, <1>5 DEF Takes
<1> QED
  BY <1>6 DEF R

\* A row that ends an attempt: it disconnects, retries, recovers or completes.
LEMMA EndingRows ==
  ASSUME NEW v, Consistent(v), NEW event, NEW d, NEW c \in Answers, Expects(event, v, d),
         NEW i, NEW row, Takes(i, row, v, event, d, c),
         row[4] \in {"fail_connect", "on_wrong_connect_state", "complete_connect",
                     "prepare_for_recovery", "retry_connect", "do_disconnect"}
  PROVE  LET x == Before(row[4], v, d, c) IN
         Consistent(x) /\ Same(v, x) /\ Serves(x, Target(row, v))
<1> DEFINE x == Before(row[4], v, d, c)
           target == Target(row, v)
<1>1. CASE row[4] \in {"fail_connect", "on_wrong_connect_state", "complete_connect"}
  <2>1. /\ row[4] = "on_wrong_connect_state" => x = on_wrong_connect_state(v)
        /\ row[4] = "fail_connect" => x = complete_connect(v, "plain")
        /\ row[4] = "complete_connect" => x = complete_connect(v, d)
    BY DEF Before
  <2> HIDE DEF x
  <2>2. Consistent(x) /\ Same(v, x)
    BY <1>1, <2>1, OnWrongConnectStateFacts, CompleteConnectFacts
  <2>3. CASE target # "CONNECTED"
    <3>1. target = "DISCONNECTED"
      BY <1>1, <2>3 DEF Target, Takes, RowFacts
    <3> QED
      BY <2>2, <3>1 DEF Serves, x
  <2>4. CASE target = "CONNECTED"
    <3>1. row[4] = "complete_connect" /\ event = "CLIENT_READY" /\ v.state = "CONNECTING"
      BY <1>1, <2>4 DEF Target, Takes, RowFacts
    <3>2. d = None /\ v.client = "connected" /\ v.selected_endpoint # None
      BY <3>1 DEF Expects
    <3>3. x.client = v.client /\ x.selected_endpoint = v.selected_endpoint
      BY <2>1, <3>1, <3>2, CompleteConnectFacts DEF None, Failures
    <3> QED
      BY <2>2, <2>4, <3>2, <3>3 DEF Serves, x
  <2> QED
    BY <2>3, <2>4
<1>2. CASE row[4] = "prepare_for_recovery"
  <2>1. x = prepare_for_recovery(v, d, c)
    BY <1>2 DEF Before
  <2>2. target = "WAITING_RECOVERY"
    BY <1>2 DEF Target, Takes, RowFacts
  <2> HIDE DEF x, target
  <2>3. Consistent(x) /\ Same(v, x) /\ x.client = "disconnected" /\ Queue(x) \cap {"recovery", "give_up"} # {}
    BY <2>1, PrepareForRecoveryFacts
  <2>4. Serves(x, target)
    BY <2>2, <2>3 DEF Serves
  <2> QED
    BY <2>3, <2>4 DEF x, target
<1>3. CASE row[4] = "retry_connect"
  <2>1. x = retry_connect(v)
    BY <1>3 DEF Before
  <2>2. target = "CONNECTING"
    BY <1>3 DEF Target, Takes, RowFacts
  <2> HIDE DEF x, target
  <2>3. Consistent(x) /\ Same(v, x) /\ x.client = "disconnected" /\ "retry" \in Queue(x)
    BY <2>1, RetryConnectFacts
  <2>4. Serves(x, target)
    BY <2>2, <2>3 DEF Serves
  <2> QED
    BY <2>3, <2>4 DEF x, target
<1>4. CASE row[4] = "do_disconnect"
  <2>1. x = do_disconnect(v)
    BY <1>4 DEF Before
  <2>2. target \in {"DISCONNECTED", "WAITING_FOR_NETWORK"}
    BY <1>4 DEF Target, Takes, RowFacts
  <2> HIDE DEF x, target
  <2>3. Consistent(x) /\ Same(v, x) /\ x.client = "disconnected"
    BY <2>1, DoDisconnectFacts
  <2>4. Serves(x, target)
    BY <2>2, <2>3 DEF Serves
  <2> QED
    BY <2>3, <2>4 DEF x, target
<1> QED
  BY <1>1, <1>2, <1>3, <1>4

\* A row that starts a ping or the client, or completes a recovery.
LEMMA StartingRows ==
  ASSUME NEW v, Consistent(v), NEW event, NEW d, NEW c \in Answers, Expects(event, v, d),
         NEW i, NEW row, Takes(i, row, v, event, d, c),
         row[4] \in {"run_ping", "connect_client", "reconnect_client", "finalize_recovery"}
  PROVE  LET x == Before(row[4], v, d, c) IN
         Consistent(x) /\ Same(v, x) /\ Serves(x, Target(row, v))
<1> DEFINE x == Before(row[4], v, d, c)
           target == Target(row, v)
<1>1. CASE row[4] = "run_ping"
  <2>1. x = run_ping(v)
    BY <1>1 DEF Before
  <2>2. target \in {"CONNECTING", "RECOVERING"}
    BY <1>1 DEF Target, Takes, RowFacts
  <2>3. v.client = "disconnected"
    BY <1>1 DEF Takes, RowFacts, Expects, Settled, Serves
  <2> HIDE DEF x, target
  <2>4. Consistent(x) /\ Same(v, x) /\ x.client = "disconnected" /\ "ping" \in Queue(x)
    BY <2>1, <2>3, RunPingFacts
  <2>5. Serves(x, target)
    BY <2>2, <2>4 DEF Serves
  <2> QED
    BY <2>4, <2>5 DEF x, target
<1>2. CASE row[4] = "connect_client"
  <2>1. x = run_client_connect(v, c)
    BY <1>2 DEF Before
  <2>2. v.selected_endpoint # None /\ target \in {"CONNECTING", "RECOVERING"}
    <3>1. CASE event = "PING_READY"
      BY <1>2, <3>1 DEF Target, Takes, RowFacts, Expects
    <3>2. CASE event # "PING_READY"
      BY <1>2, <3>2 DEF Target, Takes, RowFacts, Holds
    <3> QED
      BY <3>1, <3>2
  <2>3. target = "CONNECTING" => "retry" \notin Queue(v)
    BY <1>2 DEF Target, Takes, RowFacts, Expects
  <2> HIDE DEF x, target
  <2>4. /\ Consistent(x) /\ Same(v, x) /\ x.selected_endpoint # None
        /\ x.client = "disconnected" => "client_disconnected" \in Queue(x)
        /\ "retry" \in Queue(x) <=> "retry" \in Queue(v)
    BY <2>1, <2>2, RunClientConnectFacts
  <2>5. Serves(x, target)
    BY <2>2, <2>3, <2>4 DEF Serves
  <2> QED
    BY <2>4, <2>5 DEF x, target
<1>3. CASE row[4] = "reconnect_client"
  <2>1. x = reconnect_client(v, c)
    BY <1>3 DEF Before
  <2>2. target = "RECOVERING" /\ v.selected_endpoint # None
    BY <1>3 DEF Target, Takes, RowFacts, Expects
  <2> HIDE DEF x, target
  <2>3. /\ Consistent(x) /\ Same(v, x) /\ x.selected_endpoint # None
        /\ x.client = "disconnected" => "client_disconnected" \in Queue(x)
    BY <2>1, <2>2, ReconnectClientFacts
  <2>4. Serves(x, target)
    BY <2>2, <2>3 DEF Serves
  <2> QED
    BY <2>3, <2>4 DEF x, target
<1>4. CASE row[4] = "finalize_recovery"
  <2>1. x = finalize_recovery(v)
    BY <1>4 DEF Before
  <2>2. target = "CONNECTED" /\ v.client = "connected" /\ v.selected_endpoint # None
    BY <1>4 DEF Target, Takes, RowFacts, Expects
  <2> HIDE DEF x, target
  <2>3. Consistent(x) /\ Same(v, x) /\ x.client = "connected" /\ x.selected_endpoint # None
    BY <2>1, <2>2, FinalizeRecoveryFacts
  <2>4. Serves(x, target)
    BY <2>2, <2>3 DEF Serves
  <2> QED
    BY <2>3, <2>4 DEF x, target
<1> QED
  BY <1>1, <1>2, <1>3, <1>4

\* A row that leaves the state and what serves it: it ignores the event, starts
\* to listen or answers a request.
LEMMA StayingRows ==
  ASSUME NEW v, Consistent(v), NEW event, NEW d, NEW c \in Answers, Expects(event, v, d),
         NEW i, NEW row, Takes(i, row, v, event, d, c),
         row[4] \in {"DO_NOTHING", "start_listening", "complete_request", "reject_request",
                     "postpone_request", "bypass_until_connected"}
  PROVE  LET x == Before(row[4], v, d, c) IN
         Consistent(x) /\ Same(v, x) /\ Serves(x, Target(row, v))
<1> DEFINE x == Before(row[4], v, d, c)
<1>1. Target(row, v) = v.state
  BY DEF Takes, RowFacts, Target
<1>2. SUFFICES Consistent(x) /\ Same(v, x) /\ Serves(x, v.state)
  BY <1>1
<1>3. CASE row[4] = "DO_NOTHING"
  <2>1. x = v
    BY <1>3 DEF Before
  <2>2. v.state = "DISCONNECTED" \/ Settled(v)
    BY <1>3 DEF Takes, RowFacts, Expects
  <2> QED
    BY <2>1, <2>2 DEF Settled, Serves, Same
<1>4. CASE row[4] = "start_listening"
  <2>1. x = start_listening(v, d)
    BY <1>4 DEF Before
  <2>2. Serves(v, v.state)
    BY <1>4 DEF Takes, RowFacts, Expects, Settled
  <2> HIDE DEF x
  <2>3. /\ Consistent(x) /\ Same(v, x) /\ x.selected_endpoint = v.selected_endpoint
        /\ x.client = v.client \/ (v.client = "connected" /\ x.client = "disconnecting")
        /\ Queue(v) \subseteq Queue(x) /\ ("retry" \in Queue(x) => "retry" \in Queue(v))
    BY <2>1, StartListeningFacts
  <2>4. Serves(x, v.state)
    BY <2>2, <2>3 DEF Serves
  <2> QED
    BY <2>3, <2>4
<1>5. CASE row[4] \in {"complete_request", "reject_request", "postpone_request", "bypass_until_connected"}
  <2> DEFINE answer == CASE row[4] = "complete_request" -> "completed"
                         [] row[4] = "reject_request" -> "rejected"
                         [] row[4] = "postpone_request" -> "postponed"
                         [] row[4] = "bypass_until_connected" -> "bypassed"
  <2>1. x = answer_request(v, d.id, answer)
    BY <1>5 DEF Before
  <2>2. Serves(v, v.state) /\ d.id \in Requests
    BY <1>5 DEF Takes, RowFacts, Expects, Settled
  <2>3. answer = "postponed" => "window" \in Queue(v)
    <3>1. answer = "postponed" => Contains(v.queue, "window")
      BY <1>5, ZenonT(40) DEF Takes, RowFacts, Holds
    <3> QED
      BY <3>1, Zenon DEF Queue, Tasks, Submitted, Delayed
  <2>4. answer = "bypassed" => ~ v.kill_switch
    BY <1>5 DEF Takes, RowFacts, Holds
  <2>5. answer \in {"postponed", "bypassed", "completed", "rejected"}
    BY <1>5
  <2> HIDE DEF answer, x
  <2>6. /\ Consistent(x) /\ Same(v, x) /\ x.client = v.client
        /\ x.selected_endpoint = v.selected_endpoint /\ Queue(x) = Queue(v)
    BY <2>1, <2>2, <2>3, <2>4, <2>5, AnswerRequestFacts
  <2>7. Serves(x, v.state)
    BY <2>2, <2>6 DEF Serves
  <2> QED
    BY <2>6, <2>7
<1> QED
  BY <1>3, <1>4, <1>5

\* An event for which no row holds changes nothing, and leaves the manager settled:
\* for what has just been lost the table has a row that holds in any case.
LEMMA IgnoredEvents ==
  ASSUME NEW v, NEW event, NEW d, NEW c, Expects(event, v, d), NoRow(v, event, d, c)
  PROVE  Settled(v)
<1> DEFINE R == get_transition_table
<1>1. Holds("ANYWAY", v, d, c) /\ Holds("OTHERWISE", v, d, c)
  BY DEF Holds
<1>2. ASSUME NEW i \in 1..54, NEW source, CatchAll(R[i], source, event)
      PROVE  source # "ANY" /\ source # v.state
  BY <1>1, <1>2, ZenonT(40) DEF CatchAll, NoRow, Matches
<1>3. \A i \in {6, 7, 11, 12, 18, 26, 30, 36, 38, 39, 41, 47, 48, 49} : i \in 1..54
  OBVIOUS
<1> HIDE DEF R
<1>4. /\ event # "DO_CONNECT" /\ event # "CLIENT_DISCONNECTED" /\ event # "SHUTDOWN"
      /\ event = "RETRY_CONNECT" => v.state # "CONNECTING"
  <2>1. /\ CatchAll(R[49], "ANY", "DO_CONNECT") /\ CatchAll(R[47], "ANY", "CLIENT_DISCONNECTED")
        /\ CatchAll(R[48], "ANY", "SHUTDOWN") /\ CatchAll(R[6], "CONNECTING", "RETRY_CONNECT")
    BY <1>3, TableCatchAlls DEF R
  <2> QED
    BY <1>2, <1>3, <2>1
<1>5. event \in {"PING_READY", "PING_FAIL", "CLIENT_READY"} => v.state \notin {"CONNECTING", "RECOVERING"}
  <2>1. /\ CatchAll(R[7], "CONNECTING", "PING_READY") /\ CatchAll(R[36], "RECOVERING", "PING_READY")
        /\ CatchAll(R[11], "CONNECTING", "PING_FAIL") /\ CatchAll(R[38], "RECOVERING", "PING_FAIL")
        /\ CatchAll(R[12], "CONNECTING", "CLIENT_READY") /\ CatchAll(R[39], "RECOVERING", "CLIENT_READY")
    BY <1>3, TableCatchAlls DEF R
  <2> QED
    BY <1>2, <1>3, <2>1
<1>6. /\ event = "ABANDON_ENDPOINT" => v.state \notin {"CONNECTING", "CONNECTED", "RECOVERING"}
      /\ event = "DO_RECOVERY" => v.state # "WAITING_RECOVERY"
  <2>1. /\ CatchAll(R[18], "CONNECTING", "ABANDON_ENDPOINT") /\ CatchAll(R[26], "CONNECTED", "ABANDON_ENDPOINT")
        /\ CatchAll(R[41], "RECOVERING", "ABANDON_ENDPOINT")
        /\ CatchAll(R[30], "WAITING_RECOVERY", "DO_RECOVERY")
    BY <1>3, TableCatchAlls DEF R
  <2> QED
    BY <1>2, <1>3, <2>1
<1> QED
  BY <1>4, <1>5, <1>6 DEF Expects

\* Whatever row an event takes, the manager stays consistent and has what its new
\* state waits for; and no event but DO_CONNECT leaves the disconnected state.
LEMMA TransitionKeeps ==
  ASSUME NEW v, Consistent(v), NEW event, NEW d, NEW c \in Answers, Expects(event, v, d)
  PROVE  LET w == Taking(v, event, d, c) IN
         /\ Consistent(w) /\ Settled(w) /\ w.policy = v.policy
         /\ v.state = "DISCONNECTED" /\ event # "DO_CONNECT" => w.state = "DISCONNECTED"
<1> DEFINE w == Taking(v, event, d, c)
<1>1. v.state \in States /\ event \in Events
  BY TableEvents DEF Expects, Consistent, Vpn
<1>2. CASE w = v /\ NoRow(v, event, d, c)
  BY <1>2, IgnoredEvents
<1>3. CASE \E i \in 1..54 : IsFirst(i, v, event, d, c) /\ Follows(get_transition_table[i], v, d, c, w)
  <2>1. PICK i \in 1..54 : IsFirst(i, v, event, d, c) /\ Follows(get_transition_table[i], v, d, c, w)
    BY <1>3
  <2> DEFINE row == get_transition_table[i]
             x == Before(row[4], v, d, c)
             target == Target(row, v)
  <2>2. Takes(i, row, v, event, d, c)
    BY <2>1, FirstRowTakes
  <2> HIDE DEF row
  <2>3. RowFacts(i, row)
    BY <2>2 DEF Takes
  <2>4. Consistent(x) /\ Same(v, x) /\ Serves(x, target)
    BY <2>2, <2>3, EndingRows, StartingRows, StayingRows DEF RowFacts
  <2>5. target \in States /\ (v.state = "DISCONNECTED" /\ event # "DO_CONNECT" => target = "DISCONNECTED")
    BY <1>1, <2>2 DEF Takes, RowFacts, Target, States
  <2>6. Follows(row, v, d, c, w)
    BY <2>1 DEF row
  <2> HIDE DEF w
  <2>7. Becomes(x, w, target)
    BY <2>4, <2>6 DEF Follows, Stays, Same, Target
  <2> HIDE DEF x, target
  <2>8. /\ Consistent(w) /\ w.state = target /\ w.policy = x.policy
        /\ w.client = x.client /\ w.selected_endpoint = x.selected_endpoint /\ Queue(w) = Queue(x)
    BY <2>4, <2>5, <2>7, BecomesFacts
  <2>9. Serves(w, target)
    BY <2>4, <2>8 DEF Serves
  <2>10. /\ Consistent(w) /\ Settled(w) /\ w.policy = v.policy
         /\ v.state = "DISCONNECTED" /\ event # "DO_CONNECT" => w.state = "DISCONNECTED"
    BY <2>4, <2>5, <2>8, <2>9 DEF Same, Settled
  <2> QED
    BY <2>10 DEF w
<1> QED
  BY <1>1, <1>2, <1>3, RowTaken

--------------------------------------------------------------------------------
(* The steps.                                                                *)

\* What every step but vpn_connect keeps of the manager.
Kept(v, w) ==
  /\ Consistent(w) /\ Settled(w) /\ w.policy # "unset"
  /\ v.state = "DISCONNECTED" => w.state = "DISCONNECTED"

\* Performing a transition keeps it.
LEMMA PerformKeeps ==
  ASSUME NEW v, Consistent(v), v.policy # "unset", NEW event, event # "DO_CONNECT", NEW d,
         Expects(event, v, d), NEW w \in perform_transition(v, event, d)
  PROVE  Kept(v, w)
<1>1. PICK c \in Answers : w = Taking(v, event, d, c)
  BY DEF perform_transition
<1> QED
  BY <1>1, TransitionKeeps DEF Kept

\* What a manager keeps when only its queue changes, and no task it waits for
\* is taken away.
LEMMA QueueChange ==
  ASSUME NEW v, Consistent(v), NEW w \in Vpn, Same(v, w), w.selected_endpoint = v.selected_endpoint,
         w.request = v.request, Ordered(w), Queue(w) \subseteq Queue(v) \cup {"finalizer"},
         "window" \in Queue(v) => "window" \in Queue(w),
         w.client = "connecting" => Queue(w) \cap {"connector", "finalizer"} # {},
         w.client = "disconnecting" => "deferred_disconnect" \in Queue(w),
         w.client_state = IF w.client = "disconnecting" THEN "connected" ELSE w.client
  PROVE  Consistent(w)
<1>1. "ping" \in Queue(w) => "ping" \in Queue(v)
  OBVIOUS
<1> QED
  BY <1>1 DEF Consistent, Same

\* Nor what its state waits for.
LEMMA SettledChange ==
  ASSUME NEW v, Settled(v), NEW w, w.state = v.state, w.client = v.client,
         w.selected_endpoint = v.selected_endpoint,
         Queue(w) \subseteq Queue(v) \cup {"finalizer"},
         Queue(v) \ {"finalizer", "deferred_disconnect", "connector", "window", "listen_failed"} \subseteq Queue(w)
  PROVE  Settled(w)
<1>1. \A t \in {"recovery", "give_up", "ping", "client_disconnected", "retry"} :
        t \in Queue(w) <=> t \in Queue(v)
  OBVIOUS
<1> QED
  BY <1>1 DEF Settled, Serves

\* The manager with a task of the queue taken.
LEMMA TakenKeeps ==
  ASSUME Consistent(vpn), NEW t \in Tasks, Ready(t)
  PROVE  LET w == Taken(t) IN
         /\ w \in Vpn /\ Alike(vpn, w) /\ Ordered(w)
         /\ t \in Queue(vpn) /\ Queue(w) \subseteq Queue(vpn) /\ Queue(vpn) \ {t} \subseteq Queue(w)
         /\ w.pending_error = vpn.pending_error /\ w.client_error = vpn.client_error
         /\ t \notin {"finalizer", "deferred_disconnect", "connector", "window"} => Consistent(w)
         /\ t = "ping" => "ping" \notin Queue(w) /\ "retry" \notin Queue(w)
<1> DEFINE w == Taken(t)
<1>1. /\ w \in Vpn /\ w = [vpn EXCEPT !.queue = w.queue] /\ Ordered(w)
      /\ Queue(w) \subseteq Queue(vpn) /\ Queue(vpn) \ {t} \subseteq Queue(w)
      /\ t = "ping" => "ping" \notin Queue(w) /\ "retry" \notin Queue(w)
  BY TakenFacts DEF Consistent
<1> HIDE DEF w
<1>2. Alike(vpn, w) /\ w.pending_error = vpn.pending_error /\ w.client_error = vpn.client_error
  BY <1>1 DEF Alike, Same, Vpn, Consistent
<1>3. t \in Queue(vpn)
  BY DEF Ready, Queue
<1>4. ASSUME t \notin {"finalizer", "deferred_disconnect", "connector", "window"}
      PROVE  Consistent(w)
  <2>1. \A x \in {"finalizer", "deferred_disconnect", "connector", "window"} : x \in Queue(vpn) => x \in Queue(w)
    BY <1>1, <1>4
  <2>2. "ping" \in Queue(w) => "ping" \in Queue(vpn)
    BY <1>1
  <2> QED
    BY <1>1, <1>2, <2>1, <2>2 DEF Consistent, Alike, Same
<1> QED
  BY <1>1, <1>2, <1>3, <1>4 DEF w

\* The client reports that it has been disconnected.
LEMMA LostClient ==
  ASSUME Consistent(vpn), Settled(vpn), vpn.policy # "unset",
         NEW y \in Vpn, Same(vpn, y), Ordered(y),
         y.selected_endpoint = vpn.selected_endpoint, y.request = vpn.request,
         Queue(y) \subseteq Queue(vpn),
         Queue(vpn) \ {"finalizer", "deferred_disconnect", "connector"} \subseteq Queue(y),
         NEW w \in raise_disconnected(y)
  PROVE  Kept(vpn, w)
<1> DEFINE u == [y EXCEPT !.client = "disconnected", !.client_state = "disconnected", !.client_error = None]
<1>1. w \in perform_transition(u, "CLIENT_DISCONNECTED", y.client_error)
  BY DEF raise_disconnected
<1>2. u \in Vpn
  BY Zenon DEF Vpn, Errors
<1>3. /\ u.queue = y.queue /\ Same(y, u) /\ u.client = "disconnected" /\ u.client_state = "disconnected"
      /\ u.selected_endpoint = y.selected_endpoint /\ u.request = y.request
  BY DEF Same, Vpn
<1> HIDE DEF u
<1>4. Queue(u) = Queue(y) /\ Ordered(u)
  BY <1>3 DEF Queue, Ordered
<1>5. Same(vpn, u)
  BY <1>3 DEF Same
<1>6. Consistent(u)
  BY <1>2, <1>3, <1>4, <1>5, QueueChange
<1>7. u.state = "WAITING_RECOVERY" => Settled(u)
  BY <1>3, <1>4, <1>5 DEF Settled, Serves, Same
<1>8. Expects("CLIENT_DISCONNECTED", u, y.client_error)
  BY <1>7 DEF Expects
<1>9. Kept(u, w)
  BY <1>1, <1>5, <1>6, <1>8, PerformKeeps DEF Same
<1> QED
  BY <1>5, <1>9 DEF Kept, Same

\* vpn_abandon_endpoint, with the endpoint in use or another one.
LEMMA AbandonKeeps ==
  ASSUME Consistent(vpn), Settled(vpn), vpn.policy # "unset",
         NEW endpoint \in Endpoints, vpn_abandon_endpoint(endpoint)
  PROVE  Kept(vpn, vpn')
<1> DEFINE isSelected == vpn.selected_endpoint = endpoint
           rest == vpn.endpoints \ {endpoint}
           exhausted == \A e \in rest : (e \in Ipv6) # (endpoint \in Ipv6)
           s == IF isSelected THEN None ELSE vpn.selected_endpoint
           left == IF exhausted THEN {} ELSE rest
           w == [vpn EXCEPT !.selected_endpoint = s, !.endpoints = left]
           x == [w EXCEPT !.pending_error = "fatal"]
           y == [w EXCEPT !.pending_error = "plain", !.ping_failure_fatal = TRUE]
<1>1. vpn \in Vpn
  BY DEF Consistent
<1>2. /\ exhausted => vpn' \in perform_transition(x, "ABANDON_ENDPOINT", None)
      /\ ~ exhausted /\ ~ isSelected => vpn' = w
      /\ ~ exhausted /\ isSelected => vpn' \in perform_transition(y, "ABANDON_ENDPOINT", None)
  <2>1. vpn' \in CASE exhausted -> perform_transition(x, "ABANDON_ENDPOINT", None)
                   [] ~ exhausted /\ ~ isSelected -> {w}
                   [] ~ exhausted /\ isSelected -> perform_transition(y, "ABANDON_ENDPOINT", None)
    BY <1>1 DEF vpn_abandon_endpoint
  <2> HIDE DEF exhausted, isSelected, x, y, w
  <2> QED
    BY <2>1
<1>3. s \in Endpoints \cup {None} /\ left \in SUBSET Endpoints
  BY <1>1 DEF Vpn
<1>4. left = {} \/ s \in left \cup {None}
  BY DEF Consistent
<1>5. vpn.selected_endpoint = None => s = None
  BY VpnFsmAssumption DEF None
<1> HIDE DEF s, left, exhausted
<1>6. w \in Vpn /\ x \in Vpn /\ y \in Vpn
  BY <1>1, <1>3, ZenonT(40) DEF Vpn, Errors
<1>7. ASSUME NEW u \in {w, x, y}
      PROVE  /\ u.queue = vpn.queue /\ u.state = vpn.state /\ u.policy = vpn.policy
             /\ u.client = vpn.client /\ u.client_state = vpn.client_state
             /\ u.request = vpn.request /\ u.kill_switch = vpn.kill_switch
             /\ u.selected_endpoint = s /\ u.endpoints = left
  <2>1. CASE u = w
    BY <1>1, <1>3, <2>1 DEF Vpn
  <2>2. CASE u = x
    BY <1>1, <1>3, <2>2 DEF Vpn
  <2>3. CASE u = y
    BY <1>1, <1>3, <2>3 DEF Vpn
  <2> QED
    BY <1>7, <2>1, <2>2, <2>3
<1> HIDE DEF w, x, y
<1>8. ASSUME NEW u \in {w, x, y}
      PROVE  Consistent(u) /\ Queue(u) = Queue(vpn)
  <2>1. Queue(u) = Queue(vpn) /\ Ordered(u) /\ u \in Vpn
    BY <1>6, <1>7 DEF Queue, Ordered, Consistent
  <2> QED
    BY <1>4, <1>5, <1>7, <2>1 DEF Consistent
<1>9. ASSUME NEW u \in {x, y}, vpn' \in perform_transition(u, "ABANDON_ENDPOINT", None) PROVE Kept(vpn, vpn')
  <2>1. u.state \notin {"CONNECTING", "CONNECTED", "RECOVERING"} => Settled(u)
    BY <1>7, <1>8 DEF Settled, Serves
  <2>2. Expects("ABANDON_ENDPOINT", u, None)
    BY <2>1 DEF Expects
  <2>3. Kept(u, vpn')
    BY <1>7, <1>8, <1>9, <2>2, PerformKeeps
  <2> QED
    BY <1>7, <2>3 DEF Kept
<1>10. ASSUME ~ isSelected, vpn' = w PROVE Kept(vpn, vpn')
  <2>1. s = vpn.selected_endpoint
    BY <1>10 DEF s
  <2>2. Settled(w)
    BY <1>7, <1>8, <2>1, SettledChange
  <2> QED
    BY <1>7, <1>8, <1>10, <2>2 DEF Kept
<1> QED
  BY <1>2, <1>9, <1>10

\* vpn_stop.
LEMMA StopKeeps ==
  ASSUME Consistent(vpn), vpn_stop
  PROVE  Kept(vpn, vpn')
<1> DEFINE answers == [r \in Requests |-> IF vpn.request[r] \in {"postponed", "bypassed"} THEN "reset"
                                          ELSE vpn.request[r]]
           w == [vpn EXCEPT !.policy = "stopped", !.state = "DISCONNECTED",
                            !.pending_error = None, !.client_state = "disconnected",
                            !.client = "disconnected", !.queue = <<>>,
                            !.ping_failure_fatal = FALSE, !.recovery_attempts = 0,
                            !.recovery_started = FALSE, !.selected_endpoint = None,
                            !.request = answers]
<1>1. vpn \in Vpn
  BY DEF Consistent
<1>2. vpn' = w
  BY <1>1 DEF vpn_stop, Vpn
<1>3. vpn.request \in [Requests -> {None, "postponed", "bypassed", "reset", "completed", "rejected"}]
  BY <1>1 DEF Vpn
<1>4. answers \in [Requests -> {None, "postponed", "bypassed", "reset", "completed", "rejected"}]
  BY <1>3
<1>5. \A r \in Requests : answers[r] \notin {"postponed", "bypassed"}
  OBVIOUS
<1>6. 0 \in 0..RecoveryAttempts /\ <<>> \in Seq(Submitted \cup Delayed)
  BY VpnFsmAssumption
<1> HIDE DEF answers
<1>7. w \in Vpn
  BY <1>1, <1>4, <1>6, ZenonT(40) DEF Vpn, Errors, States
<1>8. /\ w.queue = <<>> /\ w.state = "DISCONNECTED" /\ w.policy = "stopped"
      /\ w.client = "disconnected" /\ w.client_state = "disconnected"
      /\ w.selected_endpoint = None /\ w.request = answers
  BY <1>1 DEF Vpn
<1> HIDE DEF w
<1>9. Queue(w) = {} /\ Ordered(w)
  <2>1. w.queue = <<>>
    BY <1>8, Zenon
  <2> QED
    BY <2>1 DEF Queue, Ordered, Contains, NoAfter
<1>10. Consistent(w)
  BY <1>5, <1>7, <1>8, <1>9 DEF Consistent
<1>11. Settled(w)
  BY <1>8 DEF Settled, Serves
<1> QED
  BY <1>2, <1>8, <1>10, <1>11 DEF Kept

\* Calls of the application.
LEMMA ApplicationKeeps ==
  ASSUME Consistent(vpn), Settled(vpn), vpn.policy # "unset", Application
  PROVE  Kept(vpn, vpn')
<1>1. vpn \in Vpn
  BY DEF Consistent
<1>2. ASSUME NEW policy, NEW n, vpn_connect(policy, n) PROVE Kept(vpn, vpn')
  BY <1>2 DEF vpn_connect
<1>3. CASE vpn_force_reconnect
  <2>1. Expects("DO_RECOVERY", vpn, None)
    BY Zenon DEF Expects, Settled, Serves
  <2>2. vpn' \in perform_transition(vpn, "DO_RECOVERY", None)
    BY <1>3 DEF vpn_force_reconnect
  <2> QED
    BY <2>1, <2>2, PerformKeeps
<1>4. ASSUME NEW error \in {None, "plain"}, vpn_force_disconnect(error) PROVE Kept(vpn, vpn')
  <2> DEFINE e == IF error = None THEN vpn.pending_error ELSE error
             u == [vpn EXCEPT !.pending_error = e]
  <2>1. vpn' \in perform_transition(u, "SHUTDOWN", None)
    BY <1>1, <1>4 DEF vpn_force_disconnect, Vpn
  <2>2. e \in Errors
    BY <1>1 DEF Vpn, Errors
  <2> HIDE DEF e
  <2>3. u \in Vpn /\ u.queue = vpn.queue /\ Alike(vpn, u)
    BY <1>1, <2>2 DEF Vpn, Alike, Same
  <2> HIDE DEF u
  <2>4. Consistent(u) /\ Expects("SHUTDOWN", u, None)
    BY <2>3, SetFacts DEF Expects
  <2> QED
    BY <2>1, <2>3, <2>4, PerformKeeps DEF Kept, Alike, Same
<1>5. ASSUME NEW outcome, vpn_listen(outcome) PROVE Kept(vpn, vpn')
  <2>1. Expects("START_LISTENING", vpn, outcome)
    BY DEF Expects
  <2>2. vpn' \in perform_transition(vpn, "START_LISTENING", outcome)
    BY <1>5 DEF vpn_listen
  <2> QED
    BY <2>1, <2>2, PerformKeeps
<1>6. ASSUME NEW network, vpn_notify_network_change(network) PROVE Kept(vpn, vpn')
  <2> DEFINE u == [vpn EXCEPT !.network_changed = TRUE]
  <2>1. vpn' \in perform_transition(u, "NETWORK_CHANGE", network)
    BY <1>6 DEF vpn_notify_network_change
  <2>2. u \in Vpn /\ u.queue = vpn.queue /\ Alike(vpn, u)
    BY <1>1, ZenonT(40) DEF Vpn, Alike, Same
  <2> HIDE DEF u
  <2>3. Consistent(u) /\ Queue(u) = Queue(vpn)
    BY <2>2, SetFacts
  <2>4. Settled(u)
    BY <2>2, <2>3, SettledChange DEF Alike, Same
  <2>5. Expects("NETWORK_CHANGE", u, network)
    BY <2>4 DEF Expects
  <2> QED
    BY <2>1, <2>2, <2>3, <2>5, PerformKeeps DEF Kept, Alike, Same
<1>7. ASSUME NEW endpoint \in Endpoints, vpn_abandon_endpoint(endpoint) PROVE Kept(vpn, vpn')
  BY <1>7, AbandonKeeps
<1>8. ASSUME NEW r \in Requests, NEW immediate, vpn_complete_connect_request(r, immediate)
      PROVE  Kept(vpn, vpn')
  <2> DEFINE d == [id |-> r, immediate |-> immediate]
  <2>1. Expects("COMPLETE_REQUEST", vpn, d)
    BY DEF Expects
  <2>2. vpn' \in perform_transition(vpn, "COMPLETE_REQUEST", d)
    BY <1>8 DEF vpn_complete_connect_request
  <2> QED
    BY <2>1, <2>2, PerformKeeps
<1>9. CASE vpn_stop
  BY <1>9, StopKeeps
<1> QED
  BY <1>2, <1>3, <1>4, <1>5, <1>6, <1>7, <1>8, <1>9 DEF Application

\* What the event loop runs.
LEMMA SessionKeeps ==
  ASSUME Consistent(vpn), Settled(vpn), vpn.policy # "unset", Session
  PROVE  Kept(vpn, vpn')
<1>1. CASE SessionClosed
  <2>1. vpn' \in raise_disconnected(vpn)
    BY <1>1 DEF SessionClosed
  <2>2. vpn \in Vpn /\ Ordered(vpn) /\ Same(vpn, vpn)
    BY DEF Consistent, Same
  <2> QED
    BY <2>1, <2>2, LostClient
<1>2. ASSUME NEW error, SessionError(error) PROVE Kept(vpn, vpn')
  <2> DEFINE w == submit_disconnect(vpn, error)
  <2>1. vpn' = w /\ vpn.client = "connected"
    BY <1>2 DEF SessionError
  <2>2. /\ Consistent(w) /\ Same(vpn, w) /\ w.selected_endpoint = vpn.selected_endpoint
        /\ w.client = "disconnecting" /\ Queue(vpn) \subseteq Queue(w)
        /\ "retry" \in Queue(w) => "retry" \in Queue(vpn)
    BY <2>1, SubmitDisconnectFacts
  <2> HIDE DEF w
  <2>3. Settled(w)
    BY <2>1, <2>2 DEF Settled, Serves, Same
  <2> QED
    BY <2>1, <2>2, <2>3 DEF Kept, Same
<1> QED
  BY <1>1, <1>2 DEF Session

\* The end of a connection attempt hands its outcome to the finalizer.
LEMMA ConnectorKeeps ==
  ASSUME Consistent(vpn), Settled(vpn), vpn.policy # "unset",
         NEW error \in Errors, endpoint_connector_handler(error)
  PROVE  Kept(vpn, vpn')
<1> DEFINE t == Taken("connector")
           s == Submit(t, "finalizer")
           w == [s EXCEPT !.client_error = error]
<1>1. "connector" \in Tasks /\ "finalizer" \in Tasks /\ Ready("connector") /\ vpn' = w
  BY DEF Tasks, Submitted, Delayed, endpoint_connector_handler
<1>2. /\ t \in Vpn /\ Alike(vpn, t) /\ Ordered(t)
      /\ Queue(t) \subseteq Queue(vpn) /\ Queue(vpn) \ {"connector"} \subseteq Queue(t)
  BY <1>1, TakenKeeps
<1> HIDE DEF t
<1>3. s \in Vpn /\ s = [t EXCEPT !.queue = s.queue] /\ Queue(s) = Queue(t) \cup {"finalizer"} /\ Ordered(s)
  BY <1>1, <1>2, SubmitFacts
<1> HIDE DEF s
<1>4. w \in Vpn
  BY <1>3 DEF Vpn
<1>5. w.queue = s.queue /\ Alike(t, w)
  BY <1>2, <1>3 DEF Alike, Same, Vpn
<1> HIDE DEF w
<1>6. Queue(w) = Queue(s) /\ Ordered(w) /\ Alike(vpn, w)
  BY <1>2, <1>3, <1>5 DEF Queue, Ordered, Alike, Same
<1>7. /\ Queue(w) \subseteq Queue(vpn) \cup {"finalizer"} /\ "finalizer" \in Queue(w)
      /\ Queue(vpn) \ {"connector"} \subseteq Queue(w)
  BY <1>2, <1>3, <1>6
<1>8. Consistent(w)
  <2>1. "window" \in Queue(vpn) => "window" \in Queue(w)
    BY <1>7
  <2>2. w.client = "disconnecting" => "deferred_disconnect" \in Queue(w)
    BY <1>6, <1>7 DEF Consistent, Alike
  <2>3. w.client_state = IF w.client = "disconnecting" THEN "connected" ELSE w.client
    BY <1>6 DEF Consistent, Alike
  <2> QED
    BY <1>4, <1>6, <1>7, <2>1, <2>2, <2>3, QueueChange DEF Alike
<1>9. Settled(w)
  BY <1>6, <1>7, SettledChange DEF Alike, Same
<1> QED
  BY <1>1, <1>6, <1>8, <1>9 DEF Kept, Alike, Same

\* The finalizer reports the failure, or that the client is connected.
LEMMA FinalizerKeeps ==
  ASSUME Consistent(vpn), Settled(vpn), vpn.policy # "unset", endpoint_connector_finalizer
  PROVE  Kept(vpn, vpn')
<1> DEFINE t == Taken("finalizer")
           v == Cancel(t, {"connector"})
           u == [v EXCEPT !.client = "connected", !.client_state = "connected"]
<1>1. "finalizer" \in Tasks /\ Ready("finalizer")
  BY DEF Tasks, Submitted, endpoint_connector_finalizer
<1>2. /\ v.client_error # None => vpn' \in raise_disconnected(v)
      /\ v.client_error = None /\ v.client = "connecting" => vpn' \in perform_transition(u, "CLIENT_READY", None)
      /\ v.client_error = None /\ v.client # "connecting" => vpn' = v
  <2>1. vpn' \in CASE v.client_error # None -> raise_disconnected(v)
                   [] v.client_error = None /\ v.client = "connecting" -> perform_transition(u, "CLIENT_READY", None)
                   [] v.client_error = None /\ v.client # "connecting" -> {v}
    BY DEF endpoint_connector_finalizer
  <2> HIDE DEF u, v
  <2> QED
    BY <2>1
<1>3. /\ t \in Vpn /\ Alike(vpn, t) /\ Ordered(t)
      /\ Queue(t) \subseteq Queue(vpn) /\ Queue(vpn) \ {"finalizer"} \subseteq Queue(t)
  BY <1>1, TakenKeeps
<1> HIDE DEF t
<1>4. v \in Vpn /\ v = [t EXCEPT !.queue = v.queue] /\ Queue(v) = Queue(t) \ {"connector"} /\ Ordered(v)
  BY <1>3, CancelFacts
<1> HIDE DEF v
<1>5. Alike(vpn, v)
  BY <1>3, <1>4 DEF Alike, Same, Vpn
<1>6. /\ Queue(v) \subseteq Queue(vpn)
      /\ Queue(vpn) \ {"finalizer", "connector"} \subseteq Queue(v)
  BY <1>3, <1>4
<1>7. CASE v.client_error # None
  BY <1>2, <1>4, <1>5, <1>6, <1>7, LostClient DEF Alike
<1>8. CASE v.client_error = None /\ v.client = "connecting"
  <2>1. vpn' \in perform_transition(u, "CLIENT_READY", None)
    BY <1>2, <1>8
  <2>2. u \in Vpn
    BY <1>4, ZenonT(40) DEF Vpn
  <2>3. /\ u.queue = v.queue /\ Same(v, u) /\ u.client = "connected" /\ u.client_state = "connected"
        /\ u.selected_endpoint = v.selected_endpoint /\ u.request = v.request
    BY <1>4 DEF Same, Vpn
  <2> HIDE DEF u
  <2>4. Queue(u) = Queue(v) /\ Ordered(u) /\ Same(vpn, u)
    BY <1>4, <1>5, <2>3 DEF Queue, Ordered, Alike, Same
  <2>5. Consistent(u)
    BY <1>5, <1>6, <2>2, <2>3, <2>4, QueueChange DEF Alike
  <2>6. vpn.client = "connecting" /\ u.state = vpn.state /\ u.selected_endpoint = vpn.selected_endpoint
    BY <1>5, <1>8, <2>3, <2>4 DEF Alike, Same
  <2>7. /\ vpn.state \in {"DISCONNECTED", "CONNECTING", "RECOVERING"}
        /\ vpn.state # "DISCONNECTED" => vpn.selected_endpoint # None
    BY <2>6 DEF Settled, Serves, Consistent, Vpn, States
  <2>8. Expects("CLIENT_READY", u, None)
    BY <2>3, <2>6, <2>7, ZenonT(40) DEF Expects, Settled, Serves
  <2>9. Kept(u, vpn')
    BY <2>1, <2>4, <2>5, <2>8, PerformKeeps DEF Same
  <2> QED
    BY <2>4, <2>9 DEF Kept, Same
<1>9. CASE v.client_error = None /\ v.client # "connecting"
  <2>1. vpn' = v
    BY <1>2, <1>9
  <2>2. v.client = "disconnecting" => "deferred_disconnect" \in Queue(v)
    BY <1>5, <1>6 DEF Consistent, Alike
  <2>3. v.client_state = IF v.client = "disconnecting" THEN "connected" ELSE v.client
    BY <1>5 DEF Consistent, Alike
  <2>4. Consistent(v)
    BY <1>4, <1>5, <1>6, <1>9, <2>2, <2>3, QueueChange DEF Alike
  <2>5. Settled(v)
    BY <1>5, <1>6, SettledChange DEF Alike, Same
  <2> QED
    BY <1>5, <2>1, <2>4, <2>5 DEF Kept, Alike, Same
<1> QED
  BY <1>7, <1>8, <1>9

\* The deferred disconnection of the client.
LEMMA DeferredKeeps ==
  ASSUME Consistent(vpn), Settled(vpn), vpn.policy # "unset", DeferredDisconnect
  PROVE  Kept(vpn, vpn')
<1> DEFINE v == Taken("deferred_disconnect")
           T == {"finalizer", "deferred_disconnect", "connector"}
           s == Cancel(v, T)
           u == [s EXCEPT !.client = "disconnected"]
<1>1. "deferred_disconnect" \in Tasks /\ Ready("deferred_disconnect")
  BY DEF Tasks, Submitted, DeferredDisconnect
<1>2. /\ v.client = "disconnecting" => vpn' \in raise_disconnected(u)
      /\ v.client # "disconnecting" => vpn' = v
  BY DEF DeferredDisconnect, run_disconnect
<1>3. /\ v \in Vpn /\ Alike(vpn, v) /\ Ordered(v)
      /\ Queue(v) \subseteq Queue(vpn) /\ Queue(vpn) \ {"deferred_disconnect"} \subseteq Queue(v)
  BY <1>1, TakenKeeps
<1> HIDE DEF v
<1>4. CASE v.client = "disconnecting"
  <2>1. s \in Vpn /\ s = [v EXCEPT !.queue = s.queue] /\ Queue(s) = Queue(v) \ T /\ Ordered(s)
    BY <1>3, CancelFacts
  <2> HIDE DEF s
  <2>2. u \in Vpn
    BY <2>1, ZenonT(40) DEF Vpn
  <2>3. /\ u.queue = s.queue /\ Same(vpn, u)
        /\ u.selected_endpoint = vpn.selected_endpoint /\ u.request = vpn.request
    BY <1>3, <2>1 DEF Same, Alike, Vpn
  <2> HIDE DEF u
  <2>4. Queue(u) = Queue(s) /\ Ordered(u)
    BY <2>1, <2>3 DEF Queue, Ordered
  <2>5. Queue(u) \subseteq Queue(vpn) /\ Queue(vpn) \ T \subseteq Queue(u)
    BY <1>3, <2>1, <2>4
  <2> QED
    BY <1>2, <1>4, <2>2, <2>3, <2>4, <2>5, LostClient
<1>5. CASE v.client # "disconnecting"
  <2>1. v.client = "connecting" => Queue(v) \cap {"connector", "finalizer"} # {}
    BY <1>3 DEF Consistent, Alike
  <2>2. v.client_state = IF v.client = "disconnecting" THEN "connected" ELSE v.client
    BY <1>3 DEF Consistent, Alike
  <2>3. Consistent(v)
    BY <1>3, <1>5, <2>1, <2>2, QueueChange DEF Alike
  <2>4. Settled(v)
    BY <1>3, SettledChange DEF Alike, Same
  <2> QED
    BY <1>2, <1>3, <1>5, <2>3, <2>4 DEF Kept, Alike, Same
<1> QED
  BY <1>4, <1>5

\* The other submitted tasks.
LEMMA SubmittedKeeps ==
  ASSUME Consistent(vpn), Settled(vpn), vpn.policy # "unset",
         RetryTask \/ ClientDisconnectedTask \/ GiveUpTask \/ ListenFailedTask
  PROVE  Kept(vpn, vpn')
<1>1. ASSUME NEW t \in {"retry", "client_disconnected", "give_up", "listen_failed"}, Ready(t)
      PROVE  LET w == Taken(t) IN
             /\ Consistent(w) /\ Alike(vpn, w) /\ t \in Queue(vpn)
             /\ Queue(w) \subseteq Queue(vpn) /\ Queue(vpn) \ {t} \subseteq Queue(w)
  <2>1. t \in Tasks
    BY <1>1 DEF Tasks, Submitted
  <2> QED
    BY <1>1, <2>1, TakenKeeps
<1>2. CASE RetryTask
  <2> DEFINE w == Taken("retry")
  <2>1. Ready("retry") /\ vpn' \in perform_transition(w, "RETRY_CONNECT", None)
    BY <1>2 DEF RetryTask
  <2>2. /\ Consistent(w) /\ Alike(vpn, w) /\ "retry" \in Queue(vpn)
        /\ Queue(w) \subseteq Queue(vpn) /\ Queue(vpn) \ {"retry"} \subseteq Queue(w)
    BY <1>1, <2>1
  <2> HIDE DEF w
  <2>3. Expects("RETRY_CONNECT", w, None)
    <3>1. CASE w.state = "CONNECTING"
      <4>1. vpn.state = "CONNECTING" /\ w.client = vpn.client
        BY <2>2, <3>1, Zenon DEF Alike, Same
      <4>2. vpn.client = "disconnected"
        BY <2>2, <4>1, Zenon DEF Settled, Serves
      <4> QED
        BY <3>1, <4>1, <4>2, Zenon DEF Expects
    <3>2. CASE w.state # "CONNECTING"
      <4>1. \A x \in {"recovery", "give_up", "ping", "client_disconnected"} : x \in Queue(vpn) => x \in Queue(w)
        BY <2>2
      <4>2. Settled(w)
        BY <2>2, <3>2, <4>1 DEF Settled, Serves, Alike, Same
      <4> QED
        BY <3>2, <4>2 DEF Expects
    <3> QED
      BY <3>1, <3>2
  <2> QED
    BY <2>1, <2>2, <2>3, PerformKeeps DEF Kept, Alike, Same
<1>3. CASE ClientDisconnectedTask
  <2> DEFINE w == Taken("client_disconnected")
  <2>1. Ready("client_disconnected") /\ vpn' \in perform_transition(w, "CLIENT_DISCONNECTED", None)
    BY <1>3 DEF ClientDisconnectedTask
  <2>2. /\ Consistent(w) /\ Alike(vpn, w)
        /\ Queue(w) \subseteq Queue(vpn) /\ Queue(vpn) \ {"client_disconnected"} \subseteq Queue(w)
    BY <1>1, <2>1
  <2> HIDE DEF w
  <2>3. \A x \in {"recovery", "give_up"} : x \in Queue(vpn) => x \in Queue(w)
    BY <2>2
  <2>4. w.state = "WAITING_RECOVERY" => Settled(w)
    BY <2>2, <2>3 DEF Settled, Serves, Alike, Same
  <2>5. Expects("CLIENT_DISCONNECTED", w, None)
    BY <2>4 DEF Expects
  <2> QED
    BY <2>1, <2>2, <2>5, PerformKeeps DEF Kept, Alike, Same
<1>4. CASE GiveUpTask
  <2> DEFINE w == Taken("give_up")
             v == reset_recovery(w)
             u == [v EXCEPT !.pending_error = "fatal"]
  <2>1. Ready("give_up") /\ vpn' \in perform_transition(u, "SHUTDOWN", None)
    BY <1>4 DEF GiveUpTask
  <2>2. Consistent(w) /\ Alike(vpn, w)
    BY <1>1, <2>1
  <2> HIDE DEF w
  <2>3. Consistent(v) /\ Alike(w, v)
    BY <2>2, ResetRecoveryFacts
  <2> HIDE DEF v
  <2>4. u \in Vpn /\ u.queue = v.queue /\ Alike(v, u)
    BY <2>3, ZenonT(40) DEF Consistent, Vpn, Errors, Alike, Same
  <2> HIDE DEF u
  <2>5. Consistent(u) /\ Expects("SHUTDOWN", u, None)
    BY <2>3, <2>4, SetFacts DEF Expects
  <2>6. u.state = vpn.state /\ u.policy = vpn.policy
    BY <2>2, <2>3, <2>4 DEF Alike, Same
  <2>7. Kept(u, vpn')
    BY <2>1, <2>5, <2>6, PerformKeeps
  <2> QED
    BY <2>6, <2>7 DEF Kept
<1>5. CASE ListenFailedTask
  <2> DEFINE w == Taken("listen_failed")
             u == [w EXCEPT !.pending_error = "plain"]
  <2>1. Ready("listen_failed") /\ vpn' \in perform_transition(u, "SHUTDOWN", None)
    BY <1>5 DEF ListenFailedTask
  <2>2. Consistent(w) /\ Alike(vpn, w)
    BY <1>1, <2>1
  <2> HIDE DEF w
  <2>3. u \in Vpn /\ u.queue = w.queue /\ Alike(w, u)
    BY <2>2, ZenonT(40) DEF Consistent, Vpn, Errors, Alike, Same
  <2> HIDE DEF u
  <2>4. Consistent(u) /\ Expects("SHUTDOWN", u, None)
    BY <2>2, <2>3, SetFacts DEF Expects
  <2>5. u.state = vpn.state /\ u.policy = vpn.policy
    BY <2>2, <2>3 DEF Alike, Same
  <2>6. Kept(u, vpn')
    BY <2>1, <2>4, <2>5, PerformKeeps
  <2> QED
    BY <2>5, <2>6 DEF Kept
<1> QED
  BY <1>2, <1>3, <1>4, <1>5

\* The end of a ping.
LEMMA PingKeeps ==
  ASSUME Consistent(vpn), Settled(vpn), vpn.policy # "unset", Ping
  PROVE  Kept(vpn, vpn')
<1> DEFINE t == Taken("ping")
<1>1. "ping" \in Tasks /\ Ready("ping")
  BY ZenonT(40) DEF Ping, PingFails, PingSucceeds, Tasks, Delayed
<1>2. /\ Consistent(t) /\ Alike(vpn, t) /\ "ping" \in Queue(vpn)
      /\ Queue(t) \subseteq Queue(vpn) /\ Queue(vpn) \ {"ping"} \subseteq Queue(t)
      /\ "ping" \notin Queue(t) /\ "retry" \notin Queue(t)
  BY <1>1, TakenKeeps
<1>3. t.selected_endpoint = None /\ t.state # "CONNECTED" /\ t.state = vpn.state /\ t.policy = vpn.policy
      /\ t.client = vpn.client
  BY <1>2 DEF Consistent, Settled, Serves, Alike, Same
<1>4. ASSUME NEW u, Consistent(u), u.state = t.state, u.policy = t.policy, u.client = t.client, Queue(u) = Queue(t),
             NEW event \in {"PING_FAIL", "PING_READY"}, NEW d, vpn' \in perform_transition(u, event, d),
             event = "PING_READY" => u.selected_endpoint # None
      PROVE  Kept(vpn, vpn')
  <2>1. u.state \notin {"CONNECTING", "RECOVERING"} => Settled(u)
    <3>1. \A x \in {"recovery", "give_up"} : x \in Queue(vpn) => x \in Queue(u)
      BY <1>2, <1>4
    <3> QED
      BY <1>3, <1>4, <3>1 DEF Settled, Serves
  <2>2. Expects(event, u, d)
    BY <1>2, <1>4, <2>1 DEF Expects
  <2>3. Kept(u, vpn')
    BY <1>3, <1>4, <2>2, PerformKeeps
  <2> QED
    BY <1>3, <1>4, <2>3 DEF Kept
<1>5. CASE PingFails
  <2> DEFINE u == [t EXCEPT !.ping_failure_fatal = FALSE]
             d == IF vpn.ping_failure_fatal THEN "fatal" ELSE "plain"
  <2>1. vpn' \in perform_transition(u, "PING_FAIL", d)
    BY <1>5 DEF PingFails
  <2> HIDE DEF t, d
  <2>2. u \in Vpn /\ u.queue = t.queue /\ Alike(t, u)
    BY <1>2, ZenonT(40) DEF Consistent, Vpn, Alike, Same
  <2> HIDE DEF u
  <2>3. Consistent(u) /\ Queue(u) = Queue(t)
    BY <1>2, <2>2, SetFacts
  <2> QED
    BY <1>4, <2>1, <2>2, <2>3 DEF Alike, Same
<1>6. ASSUME NEW endpoint \in Endpoints, PingSucceeds(endpoint) PROVE Kept(vpn, vpn')
  <2>1. CASE endpoint \in vpn.endpoints
    <3> DEFINE u == [t EXCEPT !.ping_failure_fatal = FALSE, !.selected_endpoint = endpoint]
    <3>1. vpn' \in perform_transition(u, "PING_READY", None)
      BY <1>6, <2>1 DEF PingSucceeds
    <3> HIDE DEF t
    <3>2. u \in Vpn
      BY <1>2, ZenonT(40) DEF Consistent, Vpn
    <3>3. /\ u.queue = t.queue /\ Same(t, u) /\ u.client = t.client /\ u.client_state = t.client_state
          /\ u.request = t.request /\ u.selected_endpoint = endpoint
      BY <1>2 DEF Consistent, Vpn, Same
    <3> HIDE DEF u
    <3>4. Queue(u) = Queue(t) /\ Ordered(u)
      BY <1>2, <3>3 DEF Queue, Ordered, Consistent
    <3>5. u.endpoints = vpn.endpoints
      BY <1>2, <3>3 DEF Alike, Same
    <3>6. Consistent(u)
      BY <1>2, <2>1, <3>2, <3>3, <3>4, <3>5 DEF Consistent, Same
    <3>7. endpoint # None
      BY VpnFsmAssumption DEF None
    <3> QED
      BY <1>4, <3>1, <3>3, <3>4, <3>6, <3>7 DEF Same
  <2>2. CASE endpoint \notin vpn.endpoints
    <3> DEFINE u == [t EXCEPT !.selected_endpoint = None]
    <3>1. vpn' \in perform_transition(u, "PING_FAIL", "plain")
      BY <1>6, <2>2 DEF PingSucceeds
    <3>2. u = t
      <4> HIDE DEF t
      <4> QED
        BY <1>2, <1>3, ZenonT(40) DEF Consistent, Vpn
    <3> HIDE DEF u, t
    <3> QED
      BY <1>2, <1>4, <3>1, <3>2
  <2> QED
    BY <2>1, <2>2
<1> QED
  BY <1>5, <1>6 DEF Ping

\* The timer of the recovery.
LEMMA RecoveryKeeps ==
  ASSUME Consistent(vpn), Settled(vpn), vpn.policy # "unset", RecoveryTask
  PROVE  Kept(vpn, vpn')
<1> DEFINE w == Taken("recovery")
<1>1. "recovery" \in Tasks /\ Ready("recovery") /\ vpn' \in perform_transition(w, "DO_RECOVERY", None)
  BY DEF RecoveryTask, Tasks, Delayed
<1>2. /\ Consistent(w) /\ Alike(vpn, w)
      /\ Queue(w) \subseteq Queue(vpn) /\ Queue(vpn) \ {"recovery"} \subseteq Queue(w)
  BY <1>1, TakenKeeps
<1> HIDE DEF w
<1>3. \A x \in {"give_up", "ping", "client_disconnected", "retry"} : x \in Queue(vpn) <=> x \in Queue(w)
  BY <1>2
<1>4. w.state # "WAITING_RECOVERY" => Settled(w)
  BY <1>2, <1>3 DEF Settled, Serves, Alike, Same
<1>5. w.state = "WAITING_RECOVERY" => w.client = "disconnected"
  BY <1>2 DEF Settled, Serves, Alike, Same
<1>6. Expects("DO_RECOVERY", w, None)
  BY <1>4, <1>5 DEF Expects
<1>7. Kept(w, vpn')
  BY <1>1, <1>2, <1>6, PerformKeeps DEF Alike, Same
<1> QED
  BY <1>2, <1>7 DEF Kept, Alike, Same

\* The timer that closes the window for postponed requests.
LEMMA WindowKeeps ==
  ASSUME Consistent(vpn), Settled(vpn), vpn.policy # "unset", postponement_window_timer_cb
  PROVE  Kept(vpn, vpn')
<1> DEFINE t == Taken("window")
           answers == [r \in Requests |-> IF t.request[r] # "postponed" THEN t.request[r]
                                          ELSE IF vpn.kill_switch THEN "rejected" ELSE "bypassed"]
           w == [t EXCEPT !.request = answers]
<1>1. "window" \in Tasks /\ Ready("window")
  BY DEF postponement_window_timer_cb, Tasks, Delayed
<1>2. /\ t \in Vpn /\ Alike(vpn, t) /\ Ordered(t)
      /\ Queue(t) \subseteq Queue(vpn) /\ Queue(vpn) \ {"window"} \subseteq Queue(t)
  BY <1>1, TakenKeeps
<1>3. vpn' = w
  BY <1>2 DEF postponement_window_timer_cb, Vpn
<1> HIDE DEF t
<1>4. t.request \in [Requests -> {None, "postponed", "bypassed", "reset", "completed", "rejected"}]
  BY <1>2 DEF Vpn
<1>5. answers \in [Requests -> {None, "postponed", "bypassed", "reset", "completed", "rejected"}]
  BY <1>4
<1>6. \A r \in Requests : answers[r] # "postponed" /\ (vpn.kill_switch => answers[r] # "bypassed")
  BY <1>2 DEF Consistent, Alike
<1> HIDE DEF answers
<1>7. w \in Vpn
  BY <1>2, <1>5, ZenonT(40) DEF Vpn
<1>8. /\ w.queue = t.queue /\ Same(t, w) /\ w.client = t.client /\ w.client_state = t.client_state
      /\ w.selected_endpoint = t.selected_endpoint /\ w.request = answers
  BY <1>2 DEF Same, Vpn
<1> HIDE DEF w
<1>9. Queue(w) = Queue(t) /\ Ordered(w)
  BY <1>2, <1>8 DEF Queue, Ordered
<1>10. /\ Same(vpn, w) /\ w.client = vpn.client /\ w.client_state = vpn.client_state
       /\ w.selected_endpoint = vpn.selected_endpoint
  BY <1>2, <1>8 DEF Alike, Same
<1>11. \A x \in {"ping", "connector", "finalizer", "deferred_disconnect"} : x \in Queue(w) <=> x \in Queue(vpn)
  BY <1>2, <1>9
<1>12. Consistent(w)
  BY <1>6, <1>7, <1>8, <1>9, <1>10, <1>11 DEF Consistent, Same
<1>13. Settled(w)
  BY <1>2, <1>9, <1>10, SettledChange DEF Same
<1> QED
  BY <1>3, <1>10, <1>12, <1>13 DEF Kept, Same

--------------------------------------------------------------------------------
(* The inductive invariant and what it implies.                              *)

\* Before vpn_connect the manager is as it was opened; from then on it is
\* consistent and settled.
FsmInv ==
  /\ calls \in 0..MaxCalls
  /\ IF vpn.policy = "unset" THEN Init ELSE Consistent(vpn) /\ Settled(vpn)

\* A manager that has just been opened is consistent and settled as well.
LEMMA InitFacts ==
  ASSUME Init
  PROVE  Consistent(vpn) /\ Settled(vpn) /\ vpn.policy = "unset" /\ calls \in 0..MaxCalls
<1>1. /\ vpn.state = "DISCONNECTED" /\ vpn.client = "disconnected" /\ vpn.client_state = "disconnected"
      /\ vpn.queue = <<>> /\ vpn.selected_endpoint = None /\ vpn.policy = "unset"
      /\ vpn.request = [r \in Requests |-> None]
  BY DEF Init
<1>2. vpn \in Vpn
  <2>1. /\ 0 \in 0..RecoveryAttempts /\ 0 \in 0..SizeMax /\ <<>> \in Seq(Submitted \cup Delayed)
    BY VpnFsmAssumption
  <2>2. [r \in Requests |-> None] \in [Requests -> {None, "postponed", "bypassed", "reset", "completed", "rejected"}]
    OBVIOUS
  <2> DEFINE answers == [r \in Requests |-> None]
  <2> HIDE DEF answers
  <2> QED
    BY <2>1, <2>2, ZenonT(40) DEF Init, Vpn, States, Errors, answers
<1>3. Queue(vpn) = {} /\ Ordered(vpn)
  BY <1>1 DEF Queue, Ordered, Contains, NoAfter
<1>4. Consistent(vpn)
  BY <1>1, <1>2, <1>3 DEF Consistent, None
<1>5. Settled(vpn)
  BY <1>1 DEF Settled, Serves
<1>6. calls \in 0..MaxCalls
  <2>1. calls = 0
    BY Zenon DEF Init
  <2> QED
    BY <2>1, VpnFsmAssumption
<1> QED
  BY <1>1, <1>4, <1>5, <1>6

\* vpn_connect starts a session with a ping.
LEMMA ConnectKeeps ==
  ASSUME Init, NEW policy \in {"several_attempts", "recovery"}, NEW n \in 1..MaxAttempts, vpn_connect(policy, n)
  PROVE  Consistent(vpn') /\ Settled(vpn') /\ vpn'.policy # "unset"
<1> DEFINE left == IF policy = "recovery" THEN vpn.attempts_left ELSE n - 1
           u == [vpn EXCEPT !.policy = policy, !.attempts_left = left]
<1>1. vpn \in Vpn /\ Consistent(vpn) /\ vpn.state = "DISCONNECTED" /\ vpn.client = "disconnected"
  <2>1. vpn.state = "DISCONNECTED" /\ vpn.client = "disconnected"
    BY DEF Init
  <2> QED
    BY <2>1, InitFacts DEF Consistent
<1>2. PICK c \in Answers : vpn' = Taking(u, "DO_CONNECT", None, c)
  BY <1>1 DEF vpn_connect, perform_transition, Vpn
<1>3. left \in 0..SizeMax
  BY <1>1, VpnFsmAssumption DEF Vpn
<1> HIDE DEF left
<1>4. u \in Vpn
  BY <1>1, <1>3, ZenonT(40) DEF Vpn
<1>5. /\ u.queue = vpn.queue /\ u.state = vpn.state /\ u.client = vpn.client /\ u.client_state = vpn.client_state
      /\ u.selected_endpoint = vpn.selected_endpoint /\ u.endpoints = vpn.endpoints
      /\ u.request = vpn.request /\ u.kill_switch = vpn.kill_switch /\ u.policy = policy
  BY <1>1 DEF Vpn
<1> HIDE DEF u
<1>6. Queue(u) = Queue(vpn) /\ Ordered(u)
  BY <1>1, <1>5 DEF Queue, Ordered, Consistent
<1>7. Consistent(u)
  BY <1>1, <1>4, <1>5, <1>6 DEF Consistent
<1>8. Expects("DO_CONNECT", u, None)
  BY <1>1, <1>5 DEF Expects
<1> QED
  BY <1>2, <1>5, <1>7, <1>8, TransitionKeeps

\* Before vpn_connect no other step is possible.
LEMMA FirstStep ==
  ASSUME Init, Next
  PROVE  \E policy \in {"several_attempts", "recovery"}, n \in 1..MaxAttempts : vpn_connect(policy, n)
<1>1. vpn.policy = "unset" /\ vpn.client = "disconnected" /\ vpn.queue = <<>>
  BY DEF Init
<1>2. ~ Running /\ ~ Call
  BY <1>1 DEF Running, Call
<1>3. \A t : ~ Ready(t)
  BY <1>1 DEF Ready, Contains
<1>4. ~ Session
  BY <1>1 DEF Session, SessionClosed, SessionError, Contains
<1>5. ~ RunSubmitted
  BY <1>3, Zenon DEF RunSubmitted, endpoint_connector_finalizer, DeferredDisconnect, RetryTask,
    ClientDisconnectedTask, GiveUpTask, ListenFailedTask
<1>6. ~ (Ping \/ Connector \/ RecoveryTask \/ postponement_window_timer_cb)
  BY <1>3, ZenonT(40) DEF Ping, PingFails, PingSucceeds, Connector, endpoint_connector_handler, RecoveryTask,
    postponement_window_timer_cb
<1> QED
  BY <1>2, <1>4, <1>5, <1>6, ZenonT(40) DEF Next, Application, vpn_force_reconnect, vpn_force_disconnect, vpn_listen,
    vpn_notify_network_change, vpn_abandon_endpoint, vpn_complete_connect_request, vpn_stop

\* From vpn_connect on every step keeps the manager consistent and settled, and a
\* disconnected manager disconnected.
LEMMA StepKeeps ==
  ASSUME Consistent(vpn), Settled(vpn), vpn.policy # "unset", Next
  PROVE  Kept(vpn, vpn')
<1>1. CASE Application
  BY <1>1, ApplicationKeeps
<1>2. CASE Session
  BY <1>2, SessionKeeps
<1>3. CASE RunSubmitted
  BY <1>3, FinalizerKeeps, DeferredKeeps, SubmittedKeeps DEF RunSubmitted
<1>4. CASE Ping
  BY <1>4, PingKeeps
<1>5. CASE Connector
  BY <1>5, ConnectorKeeps DEF Connector
<1>6. CASE RecoveryTask
  BY <1>6, RecoveryKeeps
<1>7. CASE postponement_window_timer_cb
  BY <1>7, WindowKeeps
<1> QED
  BY <1>1, <1>2, <1>3, <1>4, <1>5, <1>6, <1>7 DEF Next

\* The bound on the calls of the application.
LEMMA CallsBounded ==
  ASSUME calls \in 0..MaxCalls, Next
  PROVE  calls' \in 0..MaxCalls
<1>1. Call => calls' \in 0..MaxCalls
  BY VpnFsmAssumption DEF Call
<1>2. UNCHANGED calls => calls' \in 0..MaxCalls
  OBVIOUS
<1>3. Application => Call \/ UNCHANGED calls
  BY Zenon DEF Application, vpn_connect, vpn_force_reconnect, vpn_force_disconnect, vpn_listen,
    vpn_notify_network_change, vpn_abandon_endpoint, vpn_complete_connect_request, vpn_stop
<1>4. Session \/ RunSubmitted => UNCHANGED calls
  BY Zenon DEF Session, SessionClosed, SessionError, RunSubmitted, endpoint_connector_finalizer,
    DeferredDisconnect, RetryTask, ClientDisconnectedTask, GiveUpTask, ListenFailedTask
<1>5. Ping \/ Connector \/ RecoveryTask \/ postponement_window_timer_cb => UNCHANGED calls
  BY Zenon DEF Ping, PingFails, PingSucceeds, Connector, endpoint_connector_handler, RecoveryTask,
    postponement_window_timer_cb
<1> QED
  BY <1>1, <1>2, <1>3, <1>4, <1>5 DEF Next

\* FsmInv is inductive.
THEOREM FsmInvariant == Spec => []FsmInv
<1>1. Init => FsmInv
  BY InitFacts DEF FsmInv
<1>2. FsmInv /\ [Next]_vars => FsmInv'
  <2>1. SUFFICES ASSUME FsmInv, [Next]_vars PROVE FsmInv'
    OBVIOUS
  <2>2. CASE Next
    <3>1. calls' \in 0..MaxCalls
      BY <2>1, <2>2, CallsBounded DEF FsmInv
    <3>2. vpn'.policy # "unset" /\ Consistent(vpn') /\ Settled(vpn')
      <4>1. CASE vpn.policy = "unset"
        BY <2>1, <2>2, <4>1, FirstStep, ConnectKeeps DEF FsmInv
      <4>2. CASE vpn.policy # "unset"
        BY <2>1, <2>2, <4>2, StepKeeps DEF FsmInv, Kept
      <4> QED
        BY <4>1, <4>2
    <3>3. (Consistent(vpn))' /\ (Settled(vpn))'
      BY <3>2, Zenon DEF Consistent, Settled, Serves, Queue, Ordered
    <3> QED
      BY <3>1, <3>2, <3>3 DEF FsmInv
  <2>3. CASE UNCHANGED vars
    BY <2>1, <2>3, ZenonT(40) DEF FsmInv, vars, Consistent, Settled, Serves, Queue, Ordered, Init
  <2> QED
    BY <2>1, <2>2, <2>3
<1> QED
  BY <1>1, <1>2, PTL DEF Spec

\* The tasks that a property names are those in the queue.
LEMMA QueuedFacts ==
  ASSUME NEW tasks \in SUBSET Tasks
  PROVE  Queued(tasks) <=> Queue(vpn) \cap tasks # {}
BY DEF Queued, Queue

\* In either case of the invariant the manager is consistent and settled.
LEMMA InvariantFacts ==
  ASSUME FsmInv
  PROVE  Consistent(vpn) /\ Settled(vpn) /\ vpn \in Vpn /\ calls \in 0..MaxCalls
BY InitFacts DEF FsmInv, Consistent

\* Every state of the manager has its type.
THEOREM FsmTyped == Spec => []TypeOK
<1>1. FsmInv => TypeOK
  BY InvariantFacts DEF TypeOK
<1> QED
  BY <1>1, FsmInvariant, PTL

\* The session never waits for nothing, however many calls the application makes
\* and in whatever order the loop runs its tasks.
THEOREM SessionNeverStranded == Spec => []NeverStranded
<1>1. FsmInv => NeverStranded
  <2> SUFFICES ASSUME FsmInv PROVE NeverStranded
    OBVIOUS
  <2> DEFINE R == {"recovery", "give_up"}
             P == {"ping", "retry", "client_disconnected", "give_up"}
             C == {"connector", "finalizer"}
             D == {"deferred_disconnect"}
  <2>1. R \subseteq Tasks /\ P \subseteq Tasks /\ C \subseteq Tasks /\ D \subseteq Tasks
    BY DEF Tasks, Submitted, Delayed
  <2>2. /\ vpn.state = "WAITING_RECOVERY" => Queue(vpn) \cap R # {}
        /\ vpn.state \in {"CONNECTING", "RECOVERING"} => vpn.client # "disconnected" \/ Queue(vpn) \cap P # {}
    BY InvariantFacts DEF Settled, Serves
  <2>3. /\ vpn.client = "connecting" => Queue(vpn) \cap C # {}
        /\ vpn.client = "disconnecting" => Queue(vpn) \cap D # {}
    BY InvariantFacts DEF Consistent
  <2> HIDE DEF R, P, C, D
  <2>4. /\ vpn.state = "WAITING_RECOVERY" => Queued(R)
        /\ vpn.state \in {"CONNECTING", "RECOVERING"} => vpn.client # "disconnected" \/ Queued(P)
        /\ vpn.client = "connecting" => Queued(C)
        /\ vpn.client = "disconnecting" => Queued(D)
    BY <2>1, <2>2, <2>3, QueuedFacts
  <2> QED
    BY <2>4 DEF NeverStranded, R, P, C, D
<1> QED
  BY <1>1, FsmInvariant, PTL

\* The manager and its client never disagree on the state of the client.
THEOREM ManagerKnowsItsClient == Spec => []ClientStateAgrees
<1>1. FsmInv => ClientStateAgrees
  BY InvariantFacts DEF ClientStateAgrees, Consistent
<1> QED
  BY <1>1, FsmInvariant, PTL

\* A connected manager has a client with a session, over an endpoint.
THEOREM ConnectedHasEndpoint == Spec => []ConnectedOverEndpoint
<1>1. FsmInv => ConnectedOverEndpoint
  BY InvariantFacts DEF ConnectedOverEndpoint, Consistent, Settled, Serves
<1> QED
  BY <1>1, FsmInvariant, PTL

\* A ping selects the endpoint, and the client connects to a selected one.
THEOREM PingSelects == Spec => []SelectionFollowsPing
<1>1. FsmInv => SelectionFollowsPing
  <2> SUFFICES ASSUME FsmInv PROVE SelectionFollowsPing
    OBVIOUS
  <2>1. {"ping"} \subseteq Tasks
    BY DEF Tasks, Delayed
  <2>2. Queued({"ping"}) => vpn.selected_endpoint = None
    <3>1. Consistent(vpn)
      BY InvariantFacts, Zenon
    <3>2. Queued({"ping"}) <=> Queue(vpn) \cap {"ping"} # {}
      BY <2>1, QueuedFacts, Zenon
    <3>3. Queued({"ping"}) => "ping" \in Queue(vpn)
      BY <3>2
    <3> QED
      BY <3>1, <3>3, Zenon DEF Consistent
  <2>3. vpn.client = "connecting" /\ vpn.state # "DISCONNECTED" => vpn.selected_endpoint # None
    BY InvariantFacts DEF Settled, Serves, Vpn, States
  <2> QED
    BY <2>2, <2>3 DEF SelectionFollowsPing
<1> QED
  BY <1>1, FsmInvariant, PTL

\* A postponed request always has the timer that answers it.
THEOREM PostponedIsAnswered == Spec => []PostponedInWindow
<1>1. FsmInv => PostponedInWindow
  <2> SUFFICES ASSUME FsmInv PROVE PostponedInWindow
    OBVIOUS
  <2>1. {"window"} \subseteq Tasks
    BY DEF Tasks, Delayed
  <2> QED
    BY <2>1, QueuedFacts, InvariantFacts DEF PostponedInWindow, Consistent
<1> QED
  BY <1>1, FsmInvariant, PTL

\* With the kill switch on, no connection bypasses the endpoint.
THEOREM KillSwitchIsKept == Spec => []KillSwitchHolds
<1>1. FsmInv => KillSwitchHolds
  BY InvariantFacts DEF KillSwitchHolds, Consistent
<1> QED
  BY <1>1, FsmInvariant, PTL

\* Once disconnected the manager stays so: no row of the table but the one for
\* DO_CONNECT, which only vpn_connect raises, leaves the state.
THEOREM DisconnectedStays == Spec => DisconnectedIsFinal
<1> DEFINE Final == vpn.state = "DISCONNECTED" /\ vpn.policy # "unset" => vpn'.state = "DISCONNECTED"
<1>1. FsmInv /\ [Next]_vars => [Final]_vars
  BY StepKeeps DEF FsmInv, Kept
<1> QED
  BY <1>1, FsmInvariant, PTL DEF Spec, DisconnectedIsFinal

================================================================================
