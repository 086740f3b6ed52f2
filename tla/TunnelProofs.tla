----------------------------- MODULE TunnelProofs -----------------------------
(***************************************************************************)
(* The safety invariants of Tunnel hold for every set of sessions, requests *)
(* and clients and every choice of limits, those of UdpSocks5 for every set *)
(* of addresses, every timeout and every bound.                             *)
(***************************************************************************)
EXTENDS MCTunnel, FiniteSetTheorems, TLAPS

\* A leaf that names no prover is tried with the SMT solver, with Zenon, and with
\* the solver once more.
USE SMTT(30), ZenonT(40), Z3T(30)

\* No counter is above the limit that applies to it.
CountersBounded ==
  \A c \in Clients, slot \in Slots :
    Limit(c, slot) # None => clients[c][slot] <= Limit(c, slot)

\* A connection that was not admitted yet has no policy, no guard, no tasks;
\* a closed one has no guard.
IdleSessions ==
  \A s \in Sessions :
    /\ ~ Open(s) => guard[s] = None
    /\ phase[s] = "new" => policy[s] = None /\ \A r \in Requests : task[s][r] = NoTask

\* What makes a request pass authentication has put the slot in place before:
\* the policy at admission, the request's own credentials before its task runs.
SlotFirst ==
  HasAuthenticator /\ HasLimiter =>
    \A s \in Sessions : Open(s) =>
      /\ policy[s] # None => guard[s] # None
      /\ \A r \in Requests :
           task[s][r].auth_info \in Clients => guard[s] # None

\* The inductive invariant of the tunnel and its connection limits.
TunnelInv ==
  /\ TypeOK
  /\ SlotAccounting
  /\ CountersBounded
  /\ IdleSessions
  /\ SlotFirst
  /\ ForwardingHoldsSlot
  /\ ForwardedAreAuthenticated

--------------------------------------------------------------------------------
\* The limit that applies to a counter is a number or None.
LEMMA LimitType == \A c \in Clients, slot \in Slots : Limit(c, slot) \in Nat \cup {None}
  BY LimiterAssumption DEF Limit, Limits, Slots

\* Every protocol is counted by one of the two counters.
LEMMA SlotType == \A p \in Protocols : Slot(p) \in Slots
  BY DEF Slot, Slots, Protocols

\* The holders of a counter are finitely many.
LEMMA HoldersFinite ==
  ASSUME NEW c, NEW slot
  PROVE  IsFiniteSet(Holders(c, slot)) /\ Cardinality(Holders(c, slot)) \in Nat
  <1>1. Holders(c, slot) \in SUBSET Sessions
    BY DEF Holders
  <1>2. QED
    BY <1>1, TunnelAssumption, FS_Subset, FS_CardinalityType

\* A step that touches neither guards nor counters, nor the protocol of a
\* tunnel with a guard, keeps the books of the limiter.
LEMMA KeepSlots ==
  ASSUME SlotAccounting, CountersBounded, LimiterTypeOK,
         UNCHANGED <<clients, guard>>,
         \A s \in Sessions : guard[s] # None => protocol'[s] = protocol[s]
  PROVE  SlotAccounting' /\ CountersBounded' /\ LimiterTypeOK'
  <1>1. ASSUME NEW c \in Clients, NEW slot \in Slots
        PROVE  Holders(c, slot)' = Holders(c, slot)
    BY <1>1, LimiterAssumption DEF Holders
  <1>2. SlotAccounting'
    BY <1>1 DEF SlotAccounting
  <1>3. QED
    BY <1>2 DEF CountersBounded, LimiterTypeOK

\* Taking a guard with try_acquire adds one holder and one to its counter, and
\* only below the limit.
LEMMA GainSlot ==
  ASSUME SlotAccounting, CountersBounded, LimiterTypeOK,
         NEW s \in Sessions, NEW c \in Clients, NEW p \in Protocols,
         guard \in [Sessions -> Clients \cup {None}],
         guard[s] = None,
         HasRoom(c, p), Acquire(c, p),
         guard' = [guard EXCEPT ![s] = c],
         protocol'[s] = p,
         \A t \in Sessions \ {s} : protocol'[t] = protocol[t]
  PROVE  SlotAccounting' /\ CountersBounded' /\ LimiterTypeOK'
  <1> DEFINE own(d, slot) == d = c /\ slot = Slot(p)
  <1>1. ASSUME NEW d \in Clients, NEW slot \in Slots
        PROVE  clients'[d][slot] = IF own(d, slot) THEN clients[d][slot] + 1
                                                   ELSE clients[d][slot]
    BY <1>1, SlotType DEF Acquire, LimiterTypeOK
  <1>2. LimiterTypeOK'
    BY SlotType DEF Acquire, LimiterTypeOK
  <1>3. CountersBounded'
    BY <1>1, SlotType, LimitType, LimiterAssumption DEF CountersBounded, HasRoom, LimiterTypeOK
  <1>4. ASSUME NEW d \in Clients, NEW slot \in Slots
        PROVE  clients'[d][slot] = Cardinality(Holders(d, slot)')
    <2>1. CASE own(d, slot)
      <3>1. Holders(d, slot)' = Holders(d, slot) \cup {s}
        BY <2>1, LimiterAssumption DEF Holders
      <3>2. s \notin Holders(d, slot)
        BY LimiterAssumption DEF Holders
      <3>3. Cardinality(Holders(d, slot)') = Cardinality(Holders(d, slot)) + 1
        BY <3>1, <3>2, HoldersFinite, FS_AddElement, ZenonT(40)
      <3>4. QED
        BY <3>3, <2>1, <1>1 DEF SlotAccounting
    <2>2. CASE ~ own(d, slot)
      <3>1. Holders(d, slot)' = Holders(d, slot)
        BY <2>2, LimiterAssumption DEF Holders
      <3>2. QED
        BY <3>1, <2>2, <1>1 DEF SlotAccounting
    <2>3. QED
      BY <2>1, <2>2
  <1>5. QED
    BY <1>2, <1>3, <1>4 DEF SlotAccounting

\* Dropping the tunnel's guard takes one holder and one off its counter; the
\* saturating subtraction never saturates.
LEMMA LoseSlot ==
  ASSUME SlotAccounting, CountersBounded, LimiterTypeOK,
         NEW s \in Sessions,
         guard \in [Sessions -> Clients \cup {None}],
         protocol \in [Sessions -> Protocols],
         DropGuard(s), UNCHANGED protocol
  PROVE  SlotAccounting' /\ CountersBounded' /\ LimiterTypeOK'
  <1>1. CASE guard[s] = None
    <2>1. UNCHANGED <<clients, guard>>
      BY <1>1 DEF DropGuard
    <2>2. QED
      BY <2>1, KeepSlots
  <1>2. CASE guard[s] # None
    <2> DEFINE own(d, slot) == d = guard[s] /\ slot = Slot(protocol[s])
    <2>1. Release(guard[s], protocol[s]) /\ guard' = [guard EXCEPT ![s] = None]
      BY <1>2 DEF DropGuard
    <2>2. guard[s] \in Clients /\ Slot(protocol[s]) \in Slots
      BY <1>2, SlotType
    <2>3. ASSUME NEW d \in Clients, NEW slot \in Slots
          PROVE  clients'[d][slot] = IF own(d, slot) /\ clients[d][slot] # 0
                                     THEN clients[d][slot] - 1 ELSE clients[d][slot]
      BY <2>1, <2>2, <2>3 DEF Release, LimiterTypeOK
    <2>4. LimiterTypeOK'
      <3> DEFINE n == clients[guard[s]][Slot(protocol[s])]
      <3>1. n \in Nat /\ (IF n = 0 THEN 0 ELSE n - 1) \in Nat
        BY <2>2 DEF LimiterTypeOK
      <3>2. QED
        BY <2>1, <2>2, <3>1 DEF Release, LimiterTypeOK
    <2>5. CountersBounded'
      BY <2>3, LimitType, LimiterAssumption DEF CountersBounded, LimiterTypeOK
    <2>6. ASSUME NEW d \in Clients, NEW slot \in Slots
          PROVE  clients'[d][slot] = Cardinality(Holders(d, slot)')
      <3>1. CASE own(d, slot)
        <4>1. Holders(d, slot)' = Holders(d, slot) \ {s}
          BY <2>1, <3>1, LimiterAssumption DEF Holders
        <4>2. s \in Holders(d, slot)
          BY <3>1 DEF Holders
        <4>3. Cardinality(Holders(d, slot)') = Cardinality(Holders(d, slot)) - 1
          <5>1. IsFiniteSet(Holders(d, slot))
            BY HoldersFinite
          <5> QED
            BY ONLY <4>1, <4>2, <5>1, FS_RemoveElement, ZenonT(40)
        <4>4. Cardinality(Holders(d, slot)) # 0
          BY <4>2, HoldersFinite, FS_EmptySet
        <4>5. QED
          BY <4>3, <4>4, <3>1, <2>3 DEF SlotAccounting
      <3>2. CASE ~ own(d, slot)
        <4>1. Holders(d, slot)' = Holders(d, slot)
          BY <2>1, <2>2, <3>2, LimiterAssumption DEF Holders
        <4>2. QED
          BY <4>1, <3>2, <2>3 DEF SlotAccounting
      <3>3. QED
        BY <3>1, <3>2
    <2>7. QED
      BY <2>4, <2>5, <2>6 DEF SlotAccounting
  <1>3. QED
    BY <1>1, <1>2

--------------------------------------------------------------------------------
\* The initial state, with no connection admitted, satisfies the invariant.
LEMMA TunnelInvInit == Init => TunnelInv
  <1> SUFFICES ASSUME Init PROVE TunnelInv
    OBVIOUS
  <1> USE DEF Init, LimiterInit
  <1>1. TypeOK
    BY Zenon DEF TypeOK, LimiterTypeOK, Phases, Protocols, Task, TaskStates, NoTask, AuthInfo
  <1>2. SlotAccounting
    <2>1. \A c \in Clients, slot \in Slots : Holders(c, slot) = {}
      BY LimiterAssumption DEF Holders
    <2>2. QED
      BY <2>1, FS_EmptySet, Zenon DEF SlotAccounting
  <1>3. CountersBounded
    BY LimitType DEF CountersBounded
  <1>4. IdleSessions /\ SlotFirst
    BY DEF IdleSessions, SlotFirst, Open
  <1>5. ForwardingHoldsSlot /\ ForwardedAreAuthenticated
    BY DEF ForwardingHoldsSlot, ForwardedAreAuthenticated, Forwarding, NoTask
  <1>6. QED
    BY <1>1, <1>2, <1>3, <1>4, <1>5 DEF TunnelInv

\* What a step leaves of the invariant once the limiter's books are settled.
SessionInv ==
  /\ phase \in [Sessions -> Phases]
  /\ protocol \in [Sessions -> Protocols]
  /\ policy \in [Sessions -> Clients \cup {None}]
  /\ guard \in [Sessions -> Clients \cup {None}]
  /\ task \in [Sessions -> [Requests -> Task]]
  /\ submitted \in BOOLEAN
  /\ subscribed \subseteq Sessions
  /\ IdleSessions
  /\ SlotFirst
  /\ ForwardingHoldsSlot
  /\ ForwardedAreAuthenticated

\* What the limiter's counters are worth: exact, bounded and of their types.
Books == SlotAccounting /\ CountersBounded /\ LimiterTypeOK

\* The invariant is the limiter's books (the counters of try_acquire and the
\* guards) together with what concerns the sessions alone.
LEMMA InvSplit == TunnelInv <=> Books /\ SessionInv
  BY DEF TunnelInv, Books, SessionInv, TypeOK

\* The limiter's books survive every step: each action takes one guard, drops
\* one, or touches none.
LEMMA BooksStep == TunnelInv /\ [Next]_vars => Books'
  <1> SUFFICES ASSUME TunnelInv, [Next]_vars PROVE Books'
    OBVIOUS
  <1> USE DEF Books
  <1>0. SlotAccounting /\ CountersBounded /\ TypeOK /\ LimiterTypeOK /\ IdleSessions
    BY DEF TunnelInv, TypeOK
  <1>k. ASSUME UNCHANGED <<clients, guard, protocol>> PROVE Books'
    BY <1>0, <1>k, KeepSlots
  <1>1. ASSUME NEW s \in Sessions, NEW p \in Protocols, NEW sni, OpenDefault(s, p, sni)
        PROVE  Books'
    <2>1. UNCHANGED <<clients, guard>> /\ guard[s] = None
      BY <1>0, <1>1 DEF OpenDefault, IdleSessions, Open
    <2>2. \A t \in Sessions : guard[t] # None => protocol'[t] = protocol[t]
      BY <1>0, <1>1, <2>1 DEF OpenDefault, TypeOK
    <2>3. QED
      BY <1>0, <2>1, <2>2, KeepSlots
  <1>2. ASSUME NEW s \in Sessions, NEW p \in Protocols, NEW sni, OpenSni(s, p, sni)
        PROVE  Books'
    <2>1. sni \in Clients /\ guard[s] = None
      BY <1>0, <1>2 DEF OpenSni, Authenticate, IdleSessions, Open
    <2>2. protocol'[s] = p /\ \A t \in Sessions \ {s} : protocol'[t] = protocol[t]
      BY <1>0, <1>2 DEF OpenSni, TypeOK
    <2>3. CASE HasLimiter
      <3>1. HasRoom(sni, p) /\ Acquire(sni, p) /\ guard' = [guard EXCEPT ![s] = sni]
        BY <1>2, <2>3 DEF OpenSni
      <3>2. QED
        BY <1>0, <2>1, <2>2, <3>1, GainSlot, ZenonT(40) DEF TypeOK
    <2>4. CASE ~ HasLimiter
      <3>1. UNCHANGED <<clients, guard>>
        BY <1>2, <2>4 DEF OpenSni
      <3>2. \A t \in Sessions : guard[t] # None => protocol'[t] = protocol[t]
        BY <2>1, <2>2
      <3>3. QED
        BY <1>0, <3>1, <3>2, KeepSlots
    <2>5. QED
      BY <2>3, <2>4
  <1>3. ASSUME NEW s \in Sessions, NEW r \in Requests, NEW auth_info,
               AcquireOnRequest(s, r, auth_info)
        PROVE  Books'
    <2>1. auth_info \in Clients /\ guard[s] = None /\ UNCHANGED protocol
      BY <1>3 DEF AcquireOnRequest, NeedsSlot, Authenticate
    <2>2. /\ HasRoom(auth_info, protocol[s])
          /\ Acquire(auth_info, protocol[s])
          /\ guard' = [guard EXCEPT ![s] = auth_info]
      BY <1>3 DEF AcquireOnRequest
    <2>3. protocol[s] \in Protocols
      BY <1>0 DEF TypeOK
    <2>4. QED
      BY <1>0, <2>1, <2>2, <2>3, GainSlot, ZenonT(40) DEF TypeOK
  <1>4. ASSUME NEW s \in Sessions, DropGuard(s), UNCHANGED protocol
        PROVE  Books'
    BY <1>0, <1>4, LoseSlot DEF TypeOK
  <1>5. ASSUME NEW s \in Sessions, StopListening(s) \/ FinishGracefulShutdown(s)
        PROVE  Books'
    BY <1>4, <1>5 DEF StopListening, FinishGracefulShutdown
  <1>6. ASSUME NEW s \in Sessions, NEW r \in Requests, NEW auth_info,
               LimitExceeded(s, r, auth_info)
        PROVE  Books'
    BY <1>4, <1>6 DEF LimitExceeded
  <1>7. ASSUME NEW s \in Sessions, NEW p \in Protocols, NEW sni, RefuseSni(s, p, sni)
        PROVE  Books'
    BY <1>k, <1>7 DEF RefuseSni
  <1>8. ASSUME NEW s \in Sessions, StartGracefulShutdown(s) PROVE Books'
    BY <1>k, <1>8 DEF StartGracefulShutdown
  <1>9. ASSUME NEW s \in Sessions, NEW r \in Requests, NEW auth_info,
               ReceiveRequest(s, r, auth_info)
        PROVE  Books'
    BY <1>k, <1>9 DEF ReceiveRequest
  <1>10. ASSUME NEW s \in Sessions, NEW r \in Requests,
                \/ AuthenticateRequest(s, r) \/ RejectRequest(s, r)
                \/ StartExchange(s, r) \/ FailRequest(s, r) \/ FinishTask(s, r)
         PROVE  Books'
    BY <1>k, <1>10
    DEF AuthenticateRequest, RejectRequest, StartExchange, FailRequest, FinishTask, SetTask
  <1>11. ASSUME Submit \/ UNCHANGED vars PROVE Books'
    BY <1>k, <1>11 DEF Submit, vars
  <1>12. QED
    BY <1>1, <1>2, <1>3, <1>5, <1>6, <1>7, <1>8, <1>9, <1>10, <1>11 DEF Next

--------------------------------------------------------------------------------
\* Admission preserves the invariant: a policy comes with its slot.
LEMMA AdmissionStep ==
  ASSUME SessionInv, NEW s \in Sessions, NEW p \in Protocols, NEW sni \in Creds \cup {None},
         OpenDefault(s, p, sni) \/ OpenSni(s, p, sni) \/ RefuseSni(s, p, sni)
  PROVE  SessionInv'
  <1> USE DEF SessionInv, StartListening, Phases, IdleSessions, Open
  <1>1. CASE OpenDefault(s, p, sni)
    <2>a. policy' = policy /\ guard' = guard /\ task' = task
      BY <1>1 DEF OpenDefault
    <2>b. \A q \in Sessions : q # s => phase'[q] = phase[q]
      BY <1>1 DEF OpenDefault
    <2>c. policy[s] = None /\ \A r \in Requests : task[s][r] = NoTask
      BY <1>1 DEF OpenDefault
    <2>d. NoTask.auth_info \notin Clients /\ NoTask.state = "none"
      BY LimiterAssumption DEF NoTask
    <2>e. SlotFirst /\ ForwardingHoldsSlot /\ ForwardedAreAuthenticated
      OBVIOUS
    <2>1. SlotFirst'
      BY ONLY <2>a, <2>b, <2>c, <2>d, <2>e, SMTT(30), Z3T(30) DEF SlotFirst, Open
    <2>2. ForwardingHoldsSlot' /\ ForwardedAreAuthenticated'
      BY ONLY SMTT(30), Z3T(30), <2>a, <2>b, <2>c, <2>d, <2>e
      DEF ForwardingHoldsSlot, ForwardedAreAuthenticated, Forwarding, Open
    <2>3. QED
      BY <1>1, <2>1, <2>2 DEF OpenDefault
  <1>2. CASE OpenSni(s, p, sni)
    <2>0. sni \in Clients /\ sni # None
      BY <1>2, LimiterAssumption DEF OpenSni, Authenticate
    <2>a. /\ HasLimiter => guard'[s] # None
          /\ \A q \in Sessions : q # s =>
               guard'[q] = guard[q] /\ policy'[q] = policy[q] /\ phase'[q] = phase[q]
      BY <1>2, <2>0 DEF OpenSni
    <2>b. task' = task /\ \A r \in Requests : task[s][r] = NoTask
      BY <1>2 DEF OpenSni
    <2>c. SlotFirst /\ ForwardingHoldsSlot /\ ForwardedAreAuthenticated
      OBVIOUS
    <2>1. SlotFirst'
      BY ONLY <2>a, <2>b, <2>c, Zenon DEF SlotFirst, Open
    <2>2. ForwardingHoldsSlot' /\ ForwardedAreAuthenticated'
      BY ONLY <2>a, <2>b, <2>c, ZenonT(40)
      DEF ForwardingHoldsSlot, ForwardedAreAuthenticated, Forwarding, Open
    <2>3. QED
      BY <1>2, <2>0, <2>1, <2>2 DEF OpenSni
  <1>3. CASE RefuseSni(s, p, sni)
    BY <1>3 DEF RefuseSni, SlotFirst, ForwardingHoldsSlot, ForwardedAreAuthenticated, Forwarding
  <1>4. QED
    BY <1>1, <1>2, <1>3

\* A received request preserves the invariant: the slot is taken before the
\* task that will find its credentials good is spawned.
LEMMA RequestStep ==
  ASSUME SessionInv, NEW s \in Sessions, NEW r \in Requests, NEW auth_info \in AuthInfo,
         ReceiveRequest(s, r, auth_info) \/ AcquireOnRequest(s, r, auth_info)
  PROVE  SessionInv'
  <1> USE DEF SessionInv, Phases
  <1> DEFINE t == [NoTask EXCEPT !.state = "spawned", !.auth_info = auth_info]
  <1>1. t \in Task /\ t.state = "spawned" /\ t.auth_info = auth_info
    BY Zenon DEF NoTask, Task, TaskStates, AuthInfo
  <1> HIDE DEF t
  <1>2. task' = [task EXCEPT ![s][r] = t] /\ phase[s] = "listening" /\ Open(s)
    BY DEF t, ReceiveRequest, AcquireOnRequest, Spawn, Open
  <1>3. task' \in [Sessions -> [Requests -> Task]]
    BY <1>1, <1>2
  <1>4. UNCHANGED <<phase, protocol, policy, submitted, subscribed>>
    BY DEF ReceiveRequest, AcquireOnRequest
  <1>5. /\ guard' \in [Sessions -> Clients \cup {None}]
        /\ \A q \in Sessions : guard[q] # None => guard'[q] # None
        /\ \A q \in Sessions : q # s => guard'[q] = guard[q]
        /\ auth_info \in Clients /\ HasAuthenticator /\ HasLimiter => guard'[s] # None
    BY LimiterAssumption
    DEF ReceiveRequest, AcquireOnRequest, NeedsSlot, Authenticate, Creds
  <1>6. IdleSessions'
    BY <1>2, <1>4, <1>5 DEF IdleSessions, Open
  <1>7. SlotFirst'
    BY <1>1, <1>2, <1>4, <1>5 DEF SlotFirst, Open
  <1>8. ForwardingHoldsSlot'
    BY <1>1, <1>2, <1>4, <1>5 DEF ForwardingHoldsSlot, Forwarding, Open
  <1>9. ForwardedAreAuthenticated'
    BY <1>1, <1>2, <1>4 DEF ForwardedAreAuthenticated, Forwarding
  <1>10. QED
    BY <1>3, <1>4, <1>5, <1>6, <1>7, <1>8, <1>9

\* Closing a tunnel, or starting its graceful shutdown, preserves the invariant.
LEMMA CloseStep ==
  ASSUME SessionInv, NEW s \in Sessions,
         \/ StopListening(s) \/ StartGracefulShutdown(s) \/ FinishGracefulShutdown(s)
         \/ \E r \in Requests, auth_info \in AuthInfo : LimitExceeded(s, r, auth_info)
  PROVE  SessionInv'
  <1> USE DEF SessionInv, Phases, IdleSessions, Open
  <1>1. CASE StartGracefulShutdown(s)
    BY <1>1 DEF StartGracefulShutdown, SlotFirst, ForwardingHoldsSlot,
                ForwardedAreAuthenticated, Forwarding
  <1>2. ASSUME phase[s] \in {"listening", "graceful_shutdown"},
               phase' = [phase EXCEPT ![s] = "closed"],
               guard' = [guard EXCEPT ![s] = None],
               UNCHANGED <<protocol, policy, task, submitted, subscribed>>
        PROVE  SessionInv'
    BY <1>2, ZenonT(40) DEF SlotFirst, ForwardingHoldsSlot, ForwardedAreAuthenticated, Forwarding
  <1>3. QED
    BY <1>1, <1>2
    DEF StopListening, FinishGracefulShutdown, LimitExceeded, DropGuard

\* The steps of a request's task preserve the invariant: what it forwards was
\* authenticated, and its slot was in place when it was spawned.
LEMMA TaskStep ==
  ASSUME SessionInv, NEW s \in Sessions, NEW r \in Requests,
         \/ AuthenticateRequest(s, r) \/ RejectRequest(s, r)
         \/ StartExchange(s, r) \/ FailRequest(s, r) \/ FinishTask(s, r)
  PROVE  SessionInv'
  <1> USE DEF SessionInv
  <1> DEFINE Becomes(t) == /\ SetTask(s, r, t)
                           /\ t \in Task
                           /\ t.auth_info \in Clients => task[s][r].auth_info = t.auth_info
                           /\ HasAuthenticator /\ t.state \in {"connecting", "exchanging"} =>
                                /\ t.forwarder_auth \in Clients
                                /\ t.auth_info \in {None, t.forwarder_auth}
                                /\ Open(s) /\ HasLimiter => guard[s] # None
  <1>1. PICK t : Becomes(t)
    <2> DEFINE o == task[s][r]
    <2>0. o \in Task
      OBVIOUS
    <2>n. NoTask \in Task /\ NoTask.state = "none" /\ NoTask.auth_info = None
      BY DEF NoTask, Task, TaskStates, AuthInfo
    <2>1. CASE RejectRequest(s, r) \/ FailRequest(s, r) \/ FinishTask(s, r)
      <3>1. Becomes(NoTask)
        BY <2>1, <2>n, LimiterAssumption DEF RejectRequest, FailRequest, FinishTask
      <3> HIDE DEF Becomes
      <3>2. QED
        BY <3>1, Zenon
    <2>2. CASE StartExchange(s, r)
      <3> DEFINE t == [o EXCEPT !.state = "exchanging"]
      <3>1. t \in Task /\ t.auth_info = o.auth_info /\ t.forwarder_auth = o.forwarder_auth
        BY <2>0, Zenon DEF Task, TaskStates
      <3>2. SetTask(s, r, t) /\ o.state = "connecting"
        BY <2>2 DEF StartExchange
      <3>3. Becomes(t)
        BY <3>1, <3>2 DEF ForwardingHoldsSlot, ForwardedAreAuthenticated, Forwarding
      <3> HIDE DEF Becomes
      <3>4. QED
        BY <3>3, Zenon
    <2>3. CASE AuthenticateRequest(s, r)
      <3> DEFINE f == IF o.auth_info # None THEN o.auth_info ELSE policy[s]
                 t == [o EXCEPT !.state = "connecting", !.forwarder_auth = f]
      <3>1. SetTask(s, r, t) /\ Authenticated(s, o.auth_info)
        BY <2>3 DEF AuthenticateRequest
      <3>2. f \in Creds \cup {None}
        BY <2>0, <3>1 DEF Task, AuthInfo, Creds, Authenticated, Authenticate
      <3>3. t \in Task /\ t.auth_info = o.auth_info /\ t.forwarder_auth = f
        BY <2>0, <3>2, Zenon DEF Task, TaskStates
      <3>4. HasAuthenticator => f \in Clients /\ o.auth_info \in {None, f}
        BY <3>1, LimiterAssumption DEF Authenticated, Authenticate
      <3>5. HasAuthenticator /\ HasLimiter /\ Open(s) => guard[s] # None
        BY <3>1, LimiterAssumption DEF Authenticated, Authenticate, SlotFirst
      <3>6. Becomes(t)
        BY <3>1, <3>3, <3>4, <3>5
      <3> HIDE DEF Becomes
      <3>7. QED
        BY <3>6, Zenon
    <2>4. QED
      BY <2>1, <2>2, <2>3, ZenonT(40)
  <1>2. /\ task' = [task EXCEPT ![s][r] = t]
        /\ UNCHANGED <<clients, phase, protocol, policy, guard, submitted, subscribed>>
    BY <1>1 DEF SetTask
  <1>3. phase[s] # "new"
    BY DEF IdleSessions, NoTask, AuthenticateRequest, RejectRequest, StartExchange,
           FailRequest, FinishTask, Forwarding
  <1>4. IdleSessions'
    BY <1>2, <1>3 DEF IdleSessions, Open
  <1>5. SlotFirst'
    BY <1>1, <1>2 DEF SlotFirst, Open
  <1>6. ForwardingHoldsSlot'
    BY <1>1, <1>2, ZenonT(40) DEF ForwardingHoldsSlot, Forwarding, Open
  <1>7. ForwardedAreAuthenticated'
    BY <1>1, <1>2, ZenonT(40) DEF ForwardedAreAuthenticated, Forwarding
  <1>8. QED
    BY <1>1, <1>2, <1>4, <1>5, <1>6, <1>7

--------------------------------------------------------------------------------
\* Every step of the system preserves the invariant.
LEMMA TunnelInvStep == TunnelInv /\ [Next]_vars => TunnelInv'
  <1> SUFFICES ASSUME TunnelInv, [Next]_vars PROVE TunnelInv'
    OBVIOUS
  <1>1. Books'
    BY BooksStep
  <1>2. SessionInv
    BY InvSplit
  <1>3. SessionInv'
    <2>1. CASE Submit \/ UNCHANGED vars
      <3>1. UNCHANGED <<phase, protocol, policy, guard, task, subscribed>>
        BY <2>1 DEF Submit, vars
      <3>2. submitted' \in BOOLEAN
        BY <1>2, <2>1, ZenonT(40) DEF Submit, vars, SessionInv
      <3>3. (IdleSessions /\ SlotFirst /\ ForwardingHoldsSlot /\ ForwardedAreAuthenticated)'
        BY <1>2, <3>1 DEF SessionInv, IdleSessions, Open, SlotFirst,
                          ForwardingHoldsSlot, ForwardedAreAuthenticated, Forwarding
      <3>4. QED
        BY <1>2, <3>1, <3>2, <3>3 DEF SessionInv
    <2>2. ASSUME NEW s \in Sessions, NEW p \in Protocols, NEW sni \in Creds \cup {None},
                 OpenDefault(s, p, sni) \/ OpenSni(s, p, sni) \/ RefuseSni(s, p, sni)
          PROVE  SessionInv'
      BY <1>2, <2>2, AdmissionStep
    <2>3. ASSUME NEW s \in Sessions, NEW r \in Requests, NEW auth_info \in AuthInfo,
                 ReceiveRequest(s, r, auth_info) \/ AcquireOnRequest(s, r, auth_info)
          PROVE  SessionInv'
      BY <1>2, <2>3, RequestStep
    <2>4. ASSUME NEW s \in Sessions,
                 \/ StopListening(s) \/ StartGracefulShutdown(s) \/ FinishGracefulShutdown(s)
                 \/ \E r \in Requests, auth_info \in AuthInfo : LimitExceeded(s, r, auth_info)
          PROVE  SessionInv'
      BY <1>2, <2>4, CloseStep
    <2>5. ASSUME NEW s \in Sessions, NEW r \in Requests,
                 \/ AuthenticateRequest(s, r) \/ RejectRequest(s, r)
                 \/ StartExchange(s, r) \/ FailRequest(s, r) \/ FinishTask(s, r)
          PROVE  SessionInv'
      BY <1>2, <2>5, TaskStep
    <2>6. QED
      BY <2>1, <2>2, <2>3, <2>4, <2>5 DEF Next
  <1>4. QED
    BY <1>1, <1>3, InvSplit DEF TunnelInv, Books, SessionInv, TypeOK

\* The inductive invariant holds in every reachable state.
THEOREM TunnelInvariant == Spec => []TunnelInv
  BY TunnelInvInit, TunnelInvStep, PTL DEF Spec

\* Types are correct in every reachable state, whatever the constants.
THEOREM TypeCorrect == Spec => []TypeOK
  <1>1. TunnelInv => TypeOK
    BY DEF TunnelInv
  <1>2. QED
    BY <1>1, TunnelInvariant, PTL

\* The limiter's counters always equal the number of live guards.
THEOREM SlotsAccounted == Spec => []SlotAccounting
  <1>1. TunnelInv => SlotAccounting
    BY DEF TunnelInv
  <1>2. QED
    BY <1>1, TunnelInvariant, PTL

\* No client ever has more counted connections than its limit.
THEOREM LimitsRespected == Spec => []LimitRespected
  <1>1. TunnelInv => LimitRespected
    BY DEF TunnelInv, SlotAccounting, CountersBounded, LimitRespected
  <1>2. QED
    BY <1>1, TunnelInvariant, PTL

\* An open connection that forwards a request holds a slot.
THEOREM SlotsHeld == Spec => []ForwardingHoldsSlot
  <1>1. TunnelInv => ForwardingHoldsSlot
    BY DEF TunnelInv
  <1>2. QED
    BY <1>1, TunnelInvariant, PTL

\* Whatever reaches a forwarder carries credentials of a registered client.
THEOREM OnlyAuthenticated == Spec => []ForwardedAreAuthenticated
  <1>1. TunnelInv => ForwardedAreAuthenticated
    BY DEF TunnelInv
  <1>2. QED
    BY <1>1, TunnelInvariant, PTL

--------------------------------------------------------------------------------
(* The SOCKS5 multiplexer that runs beside the sessions.                     *)

\* While the left half makes an association for a flow, the flow is not known:
\* only the left half enters flows, and it is suspended.
ConnectingIsNew == left.at = "connect" => ~ Socks!Known(left.meta)

\* The inductive invariant of the SOCKS5 associations.
SocksInv ==
  /\ Socks!TypeOK
  /\ Socks!DnsFlowsArePending
  /\ ConnectingIsNew
  /\ Socks!AssociationsHavePeers
  /\ Socks!EveryAssociationIsWatched

\* The query count of an entry fits its flow, as DnsFlowsArePending asks.
Counts(m, conn) ==
  IF Socks!IsPlainDns(m) THEN conn.pending_queries \in 1 .. MaxQueries
                         ELSE conn.pending_queries = None

\* The pipe's table after a datagram of the client has that flow's entry added
\* or renewed.
LEMMA SocksOutgoing ==
  ASSUME Socks!PipeTypeOK, Socks!DnsFlowsArePending,
         NEW m \in Socks!Metas, Socks!MaySend(m)
  PROVE  /\ Socks!AfterOutgoing(m) \in [Socks!Metas -> Socks!UdpConnection \cup {None}]
         /\ \A n \in Socks!Metas \ {m} : Socks!AfterOutgoing(m)[n] = udp_connections[n]
         /\ Counts(m, Socks!AfterOutgoing(m)[m])
  <1> DEFINE c == IF Socks!Known(m) THEN Socks!RegisterOutgoing(udp_connections[m])
                  ELSE Socks!NewConnection(m)
  <1>1. Socks!AfterOutgoing(m) = [udp_connections EXCEPT ![m] = c]
    BY DEF Socks!AfterOutgoing
  <1>2. c \in Socks!UdpConnection /\ Counts(m, c)
    <2>1. CASE Socks!Known(m)
      <3>1. udp_connections[m] \in Socks!UdpConnection
        BY <2>1 DEF Socks!PipeTypeOK, Socks!Known
      <3>2. udp_connections[m].pending_queries # MaxQueries
        BY <2>1 DEF Socks!MaySend
      <3>3. QED
        BY <2>1, <3>1, <3>2, SocksAssumption
        DEF Counts, Socks!DnsFlowsArePending, Socks!RegisterOutgoing, Socks!UdpConnection,
            Socks!Expiry
    <2>2. CASE ~ Socks!Known(m)
      BY <2>2, SocksAssumption
      DEF Counts, Socks!NewConnection, Socks!UdpConnection, Socks!Expiry
    <2>3. QED
      BY <2>1, <2>2
  <1>3. QED
    BY <1>1, <1>2 DEF Socks!PipeTypeOK

\* The pipe's table after a reply differs at the reply's flow only, which it
\* may remove but never adds.
LEMMA SocksIncoming ==
  ASSUME Socks!PipeTypeOK, Socks!DnsFlowsArePending, NEW m \in Socks!Metas
  PROVE  /\ Socks!AfterIncoming(m) \in [Socks!Metas -> Socks!UdpConnection \cup {None}]
         /\ \A n \in Socks!Metas \ {m} : Socks!AfterIncoming(m)[n] = udp_connections[n]
         /\ Socks!AfterIncoming(m)[m] # None =>
              Socks!Known(m) /\ Counts(m, Socks!AfterIncoming(m)[m])
  <1>1. CASE ~ Socks!Known(m)
    BY <1>1 DEF Socks!AfterIncoming, Socks!PipeTypeOK, Socks!Known
  <1>2. CASE Socks!Known(m)
    <2> DEFINE u == udp_connections[m]
               c == IF Socks!IsDone(u) THEN None ELSE Socks!RegisterIncoming(u)
    <2>1. Socks!AfterIncoming(m) = [udp_connections EXCEPT ![m] = c]
      BY <1>2 DEF Socks!AfterIncoming
    <2>2. u \in Socks!UdpConnection
      BY <1>2 DEF Socks!PipeTypeOK, Socks!Known
    <2>3. ~ Socks!IsDone(u) =>
            Socks!RegisterIncoming(u) \in Socks!UdpConnection
              /\ Counts(m, Socks!RegisterIncoming(u))
      <3>1. CASE Socks!IsPlainDns(m)
        <4>1. u.pending_queries \in 1 .. MaxQueries
          BY <1>2, <3>1 DEF Socks!DnsFlowsArePending
        <4>2. QED
          BY <3>1, <4>1, <2>2, SocksAssumption
          DEF Counts, Socks!IsDone, Socks!Answered, Socks!RegisterIncoming,
              Socks!UdpConnection, Socks!Expiry
      <3>2. CASE ~ Socks!IsPlainDns(m)
        <4>1. u.pending_queries = None
          BY <1>2, <3>2 DEF Socks!DnsFlowsArePending
        <4>2. QED
          BY <3>2, <4>1, <2>2, SocksAssumption
          DEF Counts, Socks!RegisterIncoming, Socks!UdpConnection, Socks!Expiry
      <3>3. QED
        BY <3>1, <3>2
    <2>4. QED
      BY <1>2, <2>1, <2>2, <2>3 DEF Socks!PipeTypeOK
  <1>3. QED
    BY <1>1, <1>2

\* The timer's table has the unexpired entries, with the queries they had.
LEMMA SocksTick ==
  ASSUME Socks!PipeTypeOK, NEW expired \in Socks!ExpiredSets
  PROVE  /\ Socks!AfterTick(expired) \in [Socks!Metas -> Socks!UdpConnection \cup {None}]
         /\ \A m \in Socks!Metas : Socks!AfterTick(expired)[m] # None =>
              /\ Socks!Known(m)
              /\ Socks!AfterTick(expired)[m].pending_queries
                   = udp_connections[m].pending_queries
  <1>1. ASSUME NEW m \in Socks!Metas, Socks!Known(m), m \notin expired
        PROVE  [udp_connections[m] EXCEPT !.idle = @ + 1] \in Socks!UdpConnection
    <2>1. udp_connections[m] \in Socks!UdpConnection
      BY <1>1 DEF Socks!PipeTypeOK, Socks!Known
    <2>2. ~ (udp_connections[m].idle + 1 >= Socks!Expiry)
      BY <1>1 DEF Socks!ExpiredSets
    <2>3. QED
      BY <2>1, <2>2, SocksAssumption DEF Socks!UdpConnection, Socks!Expiry
  <1>2. ASSUME NEW m \in Socks!Metas, Socks!Known(m)
        PROVE  [udp_connections[m] EXCEPT !.idle = @ + 1].pending_queries
                 = udp_connections[m].pending_queries
    <2>1. udp_connections[m] \in Socks!UdpConnection
      BY <1>2 DEF Socks!PipeTypeOK, Socks!Known
    <2>2. QED
      BY <2>1 DEF Socks!UdpConnection
  <1>3. QED
    BY <1>1, <1>2 DEF Socks!AfterTick

--------------------------------------------------------------------------------
\* What the pipe keeps about its table, apart from the associations.
PipePart ==
  Socks!PipeTypeOK /\ Socks!DnsFlowsArePending /\ left \in Socks!Left /\ ConnectingIsNew

\* What the forwarder keeps about its associations.
ForwarderPart ==
  /\ associations \in [Sources -> Socks!UdpAssociation \cup {None}]
  /\ receiving \in Sources \cup {None}
  /\ watched \subseteq Sources
  /\ woken \in BOOLEAN
  /\ stale \subseteq Sources
  /\ Socks!AssociationsHavePeers
  /\ Socks!EveryAssociationIsWatched

\* The invariant is its two halves.
LEMMA SocksSplit ==
  /\ SocksInv <=> PipePart /\ ForwarderPart
  /\ SocksInv' <=> PipePart' /\ ForwarderPart'
  BY DEF SocksInv, PipePart, ForwarderPart, Socks!TypeOK

\* The initial multiplexer, with no flow and no association, satisfies both.
LEMMA SocksInit == Socks!Init => PipePart /\ ForwarderPart
  <1> SUFFICES ASSUME Socks!Init PROVE PipePart /\ ForwarderPart
    OBVIOUS
  <1>1. left = Socks!Reading /\ left \in Socks!Left /\ left.at # "connect"
    BY DEF Socks!Init, Socks!Reading, Socks!Left
  <1>2. PipePart
    BY <1>1, Zenon DEF Socks!Init, Socks!PipeInit, PipePart, Socks!PipeTypeOK, Socks!Known,
                       Socks!DnsFlowsArePending, ConnectingIsNew
  <1>3. ForwarderPart
    BY Zenon DEF Socks!Init, ForwarderPart, Socks!AssociationsHavePeers,
           Socks!EveryAssociationIsWatched, Socks!HasAssociation
  <1>4. QED
    BY <1>2, <1>3

\* So does a closed one.
LEMMA SocksClose == Socks!Close => PipePart' /\ ForwarderPart'
  <1> SUFFICES ASSUME Socks!Close PROVE PipePart' /\ ForwarderPart'
    OBVIOUS
  <1>1. left' \in Socks!Left /\ left'.at # "connect"
    BY DEF Socks!Close, Socks!Reading, Socks!Left
  <1>2. PipePart'
    BY <1>1, Zenon DEF Socks!Close, PipePart, Socks!PipeTypeOK, Socks!Known,
                       Socks!DnsFlowsArePending, ConnectingIsNew
  <1>3. ForwarderPart'
    BY ZenonT(40) DEF Socks!Close, ForwarderPart, Socks!AssociationsHavePeers,
           Socks!EveryAssociationIsWatched, Socks!HasAssociation
  <1>4. QED
    BY <1>2, <1>3

\* A flow of the client is a meta, and a place where the left half may be.
LEMMA LeftPlaces ==
  ASSUME NEW m \in Socks!Flows
  PROVE  /\ m \in Socks!Metas
         /\ m[1] \in Sources /\ m[2] \in Destinations
         /\ [at |-> "send", meta |-> m] \in Socks!Left
         /\ [at |-> "connect", meta |-> m] \in Socks!Left
  BY DEF Socks!Metas, Socks!Flows, Socks!Left

\* A datagram of the client that enters the table leaves the left half sending.
LEMMA PipeSends ==
  ASSUME PipePart, NEW m \in Socks!Flows, Socks!MaySend(m),
         udp_connections' = Socks!AfterOutgoing(m), Socks!SendNext(m), UNCHANGED closed
  PROVE  PipePart'
  <1>1. /\ m \in Socks!Metas /\ left' \in Socks!Left /\ left'.at # "connect"
    BY LeftPlaces, ZenonT(40) DEF Socks!SendNext
  <1>2. /\ udp_connections' \in [Socks!Metas -> Socks!UdpConnection \cup {None}]
        /\ \A n \in Socks!Metas \ {m} : udp_connections'[n] = udp_connections[n]
        /\ Counts(m, udp_connections'[m])
    BY <1>1, SocksOutgoing DEF PipePart
  <1>3. Socks!DnsFlowsArePending'
    BY <1>2 DEF PipePart, Socks!DnsFlowsArePending, Socks!Known, Socks!IsPlainDns, Counts
  <1>4. QED
    BY <1>1, <1>2, <1>3 DEF PipePart, Socks!PipeTypeOK, ConnectingIsNew

\* A table with no new entry, whose counts are as they should be, keeps the pipe's part
\* while the left half stays where it is or goes back to reading.
LEMMA PipeShrinks ==
  ASSUME PipePart,
         udp_connections' \in [Socks!Metas -> Socks!UdpConnection \cup {None}],
         \A m \in Socks!Metas : udp_connections'[m] # None =>
            Socks!Known(m) /\ Counts(m, udp_connections'[m]),
         left' \in {left, Socks!Reading}, UNCHANGED closed
  PROVE  PipePart'
  <1>1. Socks!DnsFlowsArePending'
    BY DEF Socks!DnsFlowsArePending, Socks!Known, Socks!IsPlainDns, Counts
  <1>2. left' \in Socks!Left
    BY DEF PipePart, Socks!Reading, Socks!Left
  <1>3. ConnectingIsNew'
    <2>1. SUFFICES ASSUME left'.at = "connect" PROVE udp_connections'[left'.meta] = None
      BY DEF ConnectingIsNew, Socks!Known
    <2>2. left' = left
      BY <2>1 DEF Socks!Reading
    <2>3. left.meta \in Socks!Metas
      BY <2>1, <2>2 DEF PipePart, Socks!Left, Socks!Metas
    <2>4. QED
      BY <2>1, <2>2, <2>3 DEF PipePart, ConnectingIsNew
  <1>4. QED
    BY <1>1, <1>2, <1>3 DEF PipePart, Socks!PipeTypeOK

\* An unchanged table is one without new entries.
LEMMA PipeStays ==
  ASSUME PipePart, UNCHANGED <<udp_connections, closed>>, left' \in {left, Socks!Reading}
  PROVE  PipePart'
  <1>1. /\ udp_connections' \in [Socks!Metas -> Socks!UdpConnection \cup {None}]
        /\ \A m \in Socks!Metas : udp_connections'[m] # None =>
              Socks!Known(m) /\ Counts(m, udp_connections'[m])
    BY DEF PipePart, Socks!PipeTypeOK, Socks!DnsFlowsArePending, Socks!Known, Counts
  <1>2. QED
    BY <1>1, PipeShrinks

--------------------------------------------------------------------------------
\* The associations a step leaves are typed and have peers.
GoodTable(table) ==
  /\ table \in [Sources -> Socks!UdpAssociation \cup {None}]
  /\ \A s \in Sources : table[s] # None => table[s].peers # {}

\* The associations of the invariant are such a table.
LEMMA TableIsGood ==
  ASSUME ForwarderPart PROVE GoodTable(associations)
  BY DEF ForwarderPart, GoodTable, Socks!AssociationsHavePeers, Socks!HasAssociation

\* After a step that polls again every association is watched.
LEMMA ForwarderPolls ==
  ASSUME GoodTable(associations'), Socks!Poll(associations'), woken' \in BOOLEAN
  PROVE  ForwarderPart'
  BY DEF GoodTable, Socks!Poll, Socks!Associated, ForwarderPart, Socks!AssociationsHavePeers,
         Socks!EveryAssociationIsWatched, Socks!HasAssociation

\* A step of the left half or of a peer may make an association only with a
\* wake message.
LEMMA ForwarderKeeps ==
  ASSUME ForwarderPart, GoodTable(associations'),
         \A s \in Sources : associations'[s] # None => Socks!HasAssociation(s) \/ woken',
         receiving' = receiving \/ receiving' \in Sources,
         watched' = watched, woken' \in {woken, TRUE}, stale' \subseteq stale
  PROVE  ForwarderPart'
  <1>1. /\ receiving' \in Sources \cup {None} /\ watched' \subseteq Sources /\ woken' \in BOOLEAN
        /\ stale' \subseteq Sources
    BY Zenon DEF ForwarderPart
  <1>2. Socks!EveryAssociationIsWatched'
    <2> SUFFICES ASSUME receiving' = None, NEW s \in Sources, associations'[s] # None
                 PROVE  s \in watched' \ stale' \/ woken'
      BY DEF Socks!EveryAssociationIsWatched, Socks!HasAssociation
    <2>1. receiving = None
      BY SocksAssumption
    <2>2. QED
      BY <2>1, ZenonT(40) DEF ForwarderPart, Socks!EveryAssociationIsWatched
  <1>3. QED
    BY <1>1, <1>2 DEF GoodTable, ForwarderPart, Socks!AssociationsHavePeers,
                      Socks!HasAssociation

\* Setting one association, to one with peers or to None, keeps the table good.
LEMMA TableWith ==
  ASSUME NEW table, GoodTable(table), NEW s \in Sources, NEW a,
         a = None \/ (a \in Socks!UdpAssociation /\ a.peers # {})
  PROVE  GoodTable([table EXCEPT ![s] = a])
  BY DEF GoodTable

\* What the steps change in an association leaves an association.
LEMMA Associations ==
  ASSUME NEW a \in Socks!UdpAssociation, NEW peer \in Destinations
  PROVE  /\ [a EXCEPT !.inbox = @ \cup {peer}] \in Socks!UdpAssociation
         /\ [a EXCEPT !.inbox = @ \cup {peer}].peers = a.peers
         /\ [a EXCEPT !.inbox = @ \ {peer}] \in Socks!UdpAssociation
         /\ [a EXCEPT !.inbox = @ \ {peer}].peers = a.peers
         /\ [a EXCEPT !.peers = @ \cup {peer}] \in Socks!UdpAssociation
         /\ [a EXCEPT !.peers = @ \cup {peer}].peers # {}
         /\ [a EXCEPT !.peers = @ \ {peer}] \in Socks!UdpAssociation
         /\ [a EXCEPT !.peers = @ \ {peer}].peers = a.peers \ {peer}
         /\ [peers |-> {peer}, inbox |-> {}] \in Socks!UdpAssociation
         /\ a # None
  BY SocksAssumption DEF Socks!UdpAssociation

\* A peer that leaves takes the association along when it was the last.
LEMMA PeerClosedTable ==
  ASSUME NEW table, GoodTable(table), NEW s \in Sources, NEW peer \in Destinations
  PROVE  GoodTable(Socks!PeerClosed(table, s, peer))
  <1>1. CASE table[s] = None
    BY <1>1 DEF Socks!PeerClosed
  <1>2. CASE table[s] # None /\ table[s].peers \subseteq {peer}
    BY <1>2, TableWith DEF Socks!PeerClosed
  <1>3. CASE table[s] # None /\ ~ (table[s].peers \subseteq {peer})
    <2> DEFINE a == [table[s] EXCEPT !.peers = @ \ {peer}]
    <2>1. Socks!PeerClosed(table, s, peer) = [table EXCEPT ![s] = a]
      BY <1>3 DEF Socks!PeerClosed
    <2>2. table[s] \in Socks!UdpAssociation
      BY <1>3 DEF GoodTable
    <2>3. a \in Socks!UdpAssociation /\ a.peers = table[s].peers \ {peer}
      BY <2>2, Associations, ZenonT(40)
    <2> HIDE DEF a
    <2>4. a.peers # {}
      BY <1>3, <2>3
    <2>5. GoodTable([table EXCEPT ![s] = a])
      BY <2>3, <2>4, TableWith, ZenonT(40)
    <2>6. QED
      BY <2>1, <2>5, Zenon
  <1>4. QED
    BY <1>1, <1>2, <1>3

--------------------------------------------------------------------------------
\* The left half reads a datagram: a new flow's association has that peer.
LEMMA SocksReads ==
  ASSUME PipePart, ForwarderPart, NEW m \in Socks!Flows,
         Socks!ReadKnown(m) \/ Socks!ReadNewPeer(m) \/ Socks!ReadNewSource(m)
  PROVE  PipePart' /\ ForwarderPart'
  <1>0. m \in Socks!Metas /\ m[1] \in Sources /\ m[2] \in Destinations
    BY LeftPlaces, Zenon
  <1>1. CASE Socks!ReadKnown(m) /\ Socks!HasAssociation(m[1])
    <2>1. /\ udp_connections' = Socks!AfterOutgoing(m) /\ Socks!SendNext(m) /\ Socks!MaySend(m)
          /\ UNCHANGED <<closed, associations, receiving, watched, woken, stale>>
      BY <1>1 DEF Socks!ReadKnown
    <2>2. PipePart'
      BY <2>1, PipeSends
    <2>3. ForwarderPart'
      BY <2>1, TableIsGood, ForwarderKeeps DEF Socks!HasAssociation
    <2>4. QED
      BY <2>2, <2>3
  <1>2. CASE Socks!ReadKnown(m) /\ ~ Socks!HasAssociation(m[1])
    BY <1>2, SocksClose DEF Socks!ReadKnown
  <1>3. CASE Socks!ReadNewPeer(m)
    <2> DEFINE a == [associations[m[1]] EXCEPT !.peers = @ \cup {m[2]}]
    <2>1. /\ udp_connections' = Socks!AfterOutgoing(m) /\ Socks!SendNext(m) /\ Socks!MaySend(m)
          /\ associations' = [associations EXCEPT ![m[1]] = a]
          /\ UNCHANGED <<closed, receiving, watched, woken, stale>>
          /\ Socks!HasAssociation(m[1])
      BY <1>3 DEF Socks!ReadNewPeer, Socks!MaySend
    <2>2. associations[m[1]] \in Socks!UdpAssociation
      BY <1>0, <2>1 DEF ForwarderPart, Socks!HasAssociation
    <2>3. a \in Socks!UdpAssociation /\ a.peers # {}
      BY <1>0, <2>2, Associations, ZenonT(40)
    <2> HIDE DEF a
    <2> DEFINE table == [associations EXCEPT ![m[1]] = a]
    <2>4. GoodTable(associations)
      BY TableIsGood
    <2>5. GoodTable(table)
      BY <1>0, <2>3, <2>4, TableWith, ZenonT(40)
    <2>6. \A s \in Sources : table[s] = IF s = m[1] THEN a ELSE associations[s]
      BY <2>4 DEF GoodTable
    <2>7. associations' = table
      BY <2>1
    <2> HIDE DEF table
    <2>8. /\ GoodTable(associations')
          /\ \A s \in Sources : associations'[s] # None => Socks!HasAssociation(s)
      BY <2>1, <2>5, <2>6, <2>7, ZenonT(40) DEF Socks!HasAssociation
    <2>9. ForwarderPart'
      BY <2>1, <2>8, ForwarderKeeps
    <2>10. PipePart'
      BY <2>1, PipeSends
    <2>11. QED
      BY <2>9, <2>10
  <1>4. CASE Socks!ReadNewSource(m)
    <2>1. /\ left' = [at |-> "connect", meta |-> m] /\ ~ Socks!Known(m)
          /\ UNCHANGED <<udp_connections, closed, associations, receiving, watched, woken, stale>>
      BY <1>4 DEF Socks!ReadNewSource
    <2>2. left' \in Socks!Left /\ left'.meta = m
      BY <2>1, LeftPlaces, ZenonT(40)
    <2>3. PipePart'
      BY <2>1, <2>2 DEF PipePart, Socks!PipeTypeOK, Socks!DnsFlowsArePending, ConnectingIsNew,
                        Socks!Known
    <2>4. ForwarderPart'
      BY <2>1, TableIsGood, ForwarderKeeps DEF Socks!HasAssociation
    <2>5. QED
      BY <2>3, <2>4
  <1>5. QED
    BY <1>1, <1>2, <1>3, <1>4

\* The SOCKS5 exchange ends: the new association comes with a wake message.
LEMMA SocksConnects ==
  ASSUME PipePart, ForwarderPart,
         Socks!Connected \/ Socks!ConnectFails \/ Socks!AuthenticationFails \/ Socks!Sent
  PROVE  PipePart' /\ ForwarderPart'
  <1>1. CASE Socks!Connected
    <2> DEFINE m == left.meta
               a == [peers |-> {m[2]}, inbox |-> {}]
    <2>1. m \in Socks!Flows /\ Socks!MaySend(m)
      BY <1>1 DEF Socks!Connected, PipePart, Socks!Left, ConnectingIsNew, Socks!MaySend
    <2>2. m[1] \in Sources /\ m[2] \in Destinations
      BY <2>1, LeftPlaces, ZenonT(40)
    <2>3. /\ udp_connections' = Socks!AfterOutgoing(m) /\ Socks!SendNext(m)
          /\ associations' = [associations EXCEPT ![m[1]] = a]
          /\ woken' = TRUE /\ UNCHANGED <<closed, receiving, watched, stale>>
      BY <1>1 DEF Socks!Connected
    <2>4. a \in Socks!UdpAssociation /\ a.peers # {}
      BY <2>2 DEF Socks!UdpAssociation
    <2> HIDE DEF m, a
    <2>5. GoodTable(associations')
      BY <2>2, <2>3, <2>4, TableIsGood, TableWith, ZenonT(40)
    <2>6. ForwarderPart'
      BY <2>3, <2>5, ForwarderKeeps
    <2>7. PipePart'
      BY <2>1, <2>3, PipeSends
    <2>8. QED
      BY <2>6, <2>7
  <1>2. CASE Socks!AuthenticationFails
    <2>1. /\ associations' = [s \in Sources |-> None]
          /\ left' = Socks!Reading
          /\ stale' = IF receiving = None THEN watched ELSE {receiving}
          /\ UNCHANGED <<udp_connections, closed, receiving, watched, woken>>
      BY <1>2 DEF Socks!AuthenticationFails
    <2>2. /\ associations' \in [Sources -> Socks!UdpAssociation \cup {None}]
          /\ \A s \in Sources : associations'[s] = None
      BY <2>1, Zenon
    <2>3. Socks!AssociationsHavePeers' /\ Socks!EveryAssociationIsWatched'
      BY <2>2, Zenon DEF Socks!AssociationsHavePeers, Socks!EveryAssociationIsWatched,
                         Socks!HasAssociation
    <2>4. receiving' \in Sources \cup {None} /\ watched' \subseteq Sources /\ woken' \in BOOLEAN
      BY <2>1, Zenon DEF ForwarderPart
    <2>5. stale' \subseteq Sources
      BY <2>1, Zenon DEF ForwarderPart
    <2>6. ForwarderPart'
      BY <2>2, <2>3, <2>4, <2>5, Zenon DEF ForwarderPart
    <2>7. QED
      BY <2>1, <2>6, PipeStays
  <1>3. CASE Socks!ConnectFails \/ Socks!Sent
    <2>1. /\ left' = Socks!Reading
          /\ UNCHANGED <<udp_connections, closed, associations, receiving, watched, woken, stale>>
      BY <1>3 DEF Socks!ConnectFails, Socks!Sent
    <2>2. ForwarderPart'
      BY <2>1, TableIsGood, ForwarderKeeps DEF Socks!HasAssociation
    <2>3. QED
      BY <2>1, <2>2, PipeStays
  <1>4. QED
    BY <1>1, <1>2, <1>3

\* The right half relays a reply or drops a failed association, and polls again.
LEMMA SocksReceives ==
  ASSUME PipePart, ForwarderPart, NEW s \in Sources,
         \/ Socks!SocketError(s)
         \/ \E peer \in Destinations : Socks!RelayReply(s, peer) \/ Socks!RelayOldReply(s, peer)
  PROVE  PipePart' /\ ForwarderPart'
  <1>0. GoodTable(associations) /\ woken \in BOOLEAN
    BY TableIsGood DEF ForwarderPart
  <1>1. CASE Socks!SocketError(s)
    <2>1. /\ associations' = [associations EXCEPT ![s] = None]
          /\ Socks!Poll(associations') /\ UNCHANGED <<closed, left, woken>>
          /\ \A m \in Socks!Metas : udp_connections'[m] \in {None, udp_connections[m]}
          /\ udp_connections' \in [Socks!Metas -> Socks!UdpConnection \cup {None}]
      BY <1>1 DEF Socks!SocketError, PipePart, Socks!PipeTypeOK
    <2>2. GoodTable(associations')
      BY <1>0, <2>1, TableWith, ZenonT(40)
    <2>3. ForwarderPart'
      BY <1>0, <2>1, <2>2, ForwarderPolls
    <2>4. \A m \in Socks!Metas : udp_connections'[m] # None =>
            Socks!Known(m) /\ Counts(m, udp_connections'[m])
      BY <2>1, ZenonT(40) DEF PipePart, Socks!DnsFlowsArePending, Socks!Known, Counts
    <2>5. QED
      BY <2>1, <2>3, <2>4, PipeShrinks
  <1>2. ASSUME NEW peer \in Destinations, NEW table, GoodTable(table),
               Socks!Relay(table, s, peer)
        PROVE  PipePart' /\ ForwarderPart'
    <2> DEFINE m == <<s, peer>>
    <2>1. /\ udp_connections' = Socks!AfterIncoming(m)
          /\ associations' = Socks!PeerClosed(table, s, peer) \/ associations' = table
          /\ Socks!Poll(associations') /\ UNCHANGED <<closed, left, woken>>
      BY <1>2 DEF Socks!Relay
    <2>2. m \in Socks!Metas
      BY DEF Socks!Metas, Socks!Flows
    <2> HIDE DEF m
    <2>6. GoodTable(associations')
      BY <1>2, <2>1, PeerClosedTable
    <2>7. ForwarderPart'
      BY <1>0, <2>1, <2>6, ForwarderPolls
    <2>8. /\ udp_connections' \in [Socks!Metas -> Socks!UdpConnection \cup {None}]
          /\ \A n \in Socks!Metas \ {m} : udp_connections'[n] = udp_connections[n]
          /\ udp_connections'[m] # None => Socks!Known(m) /\ Counts(m, udp_connections'[m])
      BY <2>1, <2>2, SocksIncoming DEF PipePart
    <2>9. \A n \in Socks!Metas : udp_connections'[n] # None =>
            Socks!Known(n) /\ Counts(n, udp_connections'[n])
      BY <2>8 DEF PipePart, Socks!DnsFlowsArePending, Socks!Known, Counts
    <2>10. QED
      BY <2>1, <2>7, <2>8, <2>9, PipeShrinks
  <1>3. ASSUME NEW peer \in Destinations, Socks!RelayReply(s, peer)
        PROVE  PipePart' /\ ForwarderPart'
    <2> DEFINE a == [associations[s] EXCEPT !.inbox = @ \ {peer}]
               table == [associations EXCEPT ![s] = a]
    <2>1. Socks!HasAssociation(s) /\ Socks!Relay(table, s, peer)
      BY <1>3 DEF Socks!RelayReply, Socks!Receives
    <2>2. associations[s] \in Socks!UdpAssociation /\ associations[s].peers # {}
      BY <1>0, <2>1 DEF GoodTable, Socks!HasAssociation
    <2>3. a \in Socks!UdpAssociation /\ a.peers # {}
      BY <2>2, Associations, ZenonT(40)
    <2> HIDE DEF a
    <2>4. GoodTable(table)
      BY <1>0, <2>3, TableWith
    <2> HIDE DEF table
    <2>5. QED
      BY <1>2, <2>1, <2>4, ZenonT(40)
  <1>4. ASSUME NEW peer \in Destinations, Socks!RelayOldReply(s, peer)
        PROVE  PipePart' /\ ForwarderPart'
    BY <1>0, <1>2, <1>4 DEF Socks!RelayOldReply
  <1>5. QED
    BY <1>1, <1>3, <1>4

\* The right half is told to look again, or finds nothing to read; a peer sends.
LEMMA SocksPolls ==
  ASSUME PipePart, ForwarderPart,
         \/ Socks!Wake
         \/ \E s \in Sources : \/ Socks!FalseReady(s) \/ Socks!GoneReady(s)
                               \/ \E peer \in Destinations : Socks!PeerSends(s, peer)
  PROVE  PipePart' /\ ForwarderPart'
  <1>0. GoodTable(associations) /\ woken \in BOOLEAN
    BY TableIsGood DEF ForwarderPart
  <1>1. CASE Socks!Wake \/ \E s \in Sources : Socks!GoneReady(s)
    <2>1. /\ UNCHANGED <<udp_connections, closed, associations, left>>
          /\ Socks!Poll(associations) /\ woken' \in {woken, FALSE}
      BY <1>1, ZenonT(40) DEF Socks!Wake, Socks!GoneReady
    <2>2. Socks!Poll(associations')
      BY <2>1
    <2>3. ForwarderPart'
      BY <1>0, <2>1, <2>2, ForwarderPolls, ZenonT(40)
    <2>4. QED
      BY <2>1, <2>3, PipeStays
  <1>2. ASSUME NEW s \in Sources, Socks!FalseReady(s) PROVE PipePart' /\ ForwarderPart'
    <2>1. /\ receiving' = s /\ stale' = {}
          /\ UNCHANGED <<udp_connections, closed, associations, left, watched, woken>>
      BY <1>2 DEF Socks!FalseReady
    <2>2. ForwarderPart'
      BY <1>0, <2>1, ForwarderKeeps DEF Socks!HasAssociation
    <2>3. QED
      BY <2>1, <2>2, PipeStays
  <1>3. ASSUME NEW s \in Sources, NEW peer \in Destinations, Socks!PeerSends(s, peer)
        PROVE  PipePart' /\ ForwarderPart'
    <2> DEFINE a == [associations[s] EXCEPT !.inbox = @ \cup {peer}]
    <2>1. /\ associations' = [associations EXCEPT ![s] = a] /\ Socks!HasAssociation(s)
          /\ UNCHANGED <<udp_connections, closed, left, receiving, watched, woken, stale>>
      BY <1>3 DEF Socks!PeerSends
    <2>2. associations[s] \in Socks!UdpAssociation /\ associations[s].peers # {}
      BY <1>0, <2>1 DEF GoodTable, Socks!HasAssociation
    <2>3. a \in Socks!UdpAssociation /\ a.peers # {}
      BY <2>2, Associations, Zenon
    <2> HIDE DEF a
    <2> DEFINE table == [associations EXCEPT ![s] = a]
    <2>4. GoodTable(table)
      BY <1>0, <2>3, TableWith, ZenonT(40)
    <2>5. \A t \in Sources : table[t] = IF t = s THEN a ELSE associations[t]
      BY <1>0 DEF GoodTable
    <2>6. associations' = table
      BY <2>1
    <2> HIDE DEF table
    <2>7. /\ GoodTable(associations')
          /\ \A t \in Sources : associations'[t] # None => Socks!HasAssociation(t)
      BY <2>1, <2>4, <2>5, <2>6, ZenonT(40) DEF Socks!HasAssociation
    <2>8. ForwarderPart'
      BY <2>1, <2>7, ForwarderKeeps
    <2>9. QED
      BY <2>1, <2>8, PipeStays
  <1>4. QED
    BY <1>1, <1>2, <1>3

\* The timer drops both halves where they are suspended, and both start again.
LEMMA SocksTicks ==
  ASSUME PipePart, ForwarderPart, Socks!Tick
  PROVE  PipePart' /\ ForwarderPart'
  <1>1. PICK expired \in Socks!ExpiredSets :
          /\ udp_connections' = Socks!AfterTick(expired)
          /\ associations' = [s \in Sources |->
               IF \E m \in expired : m[2] = s THEN None ELSE associations[s]]
    BY DEF Socks!Tick
  <1>2. left' = Socks!Reading /\ Socks!Poll(associations') /\ UNCHANGED <<closed, woken>>
    BY DEF Socks!Tick
  <1>3. GoodTable(associations') /\ woken' \in BOOLEAN
    BY <1>1, <1>2, TableIsGood DEF GoodTable, ForwarderPart
  <1>4. ForwarderPart'
    BY <1>2, <1>3, ForwarderPolls
  <1>5. /\ udp_connections' \in [Socks!Metas -> Socks!UdpConnection \cup {None}]
        /\ \A m \in Socks!Metas : udp_connections'[m] # None =>
             /\ Socks!Known(m)
             /\ udp_connections'[m].pending_queries = udp_connections[m].pending_queries
    BY <1>1, SocksTick DEF PipePart
  <1>6. \A m \in Socks!Metas : udp_connections'[m] # None =>
          Socks!Known(m) /\ Counts(m, udp_connections'[m])
    BY <1>5 DEF PipePart, Socks!DnsFlowsArePending, Counts
  <1>7. QED
    BY <1>2, <1>4, <1>5, <1>6, PipeShrinks

--------------------------------------------------------------------------------
\* Every step of the multiplexer preserves the invariant.
LEMMA SocksStep ==
  ASSUME PipePart, ForwarderPart, Socks!Next
  PROVE  PipePart' /\ ForwarderPart'
  <1>1. ASSUME Socks!LeftFails \/ \E s \in Sources : Socks!ClientSinkFails(s)
        PROVE  PipePart' /\ ForwarderPart'
    BY <1>1, SocksClose DEF Socks!LeftFails, Socks!ClientSinkFails
  <1>2. QED
    BY <1>1, SocksReads, SocksConnects, SocksReceives, SocksPolls, SocksTicks, ZenonT(40)
    DEF Socks!Next

\* The invariant of the SOCKS5 multiplexer holds in every reachable state.
LEMMA SocksInvariant == SpecAll => []SocksInv
  <1>1. InitAll => SocksInv
    BY SocksInit, SocksSplit DEF InitAll
  <1>2. SocksInv /\ [NextAll]_<<live, vars, socks>> => SocksInv'
    <2> SUFFICES ASSUME PipePart, ForwarderPart, [NextAll]_<<live, vars, socks>>
                 PROVE  PipePart' /\ ForwarderPart'
      BY SocksSplit
    <2>1. CASE UNCHANGED socks
      <3>1. UNCHANGED <<udp_connections, closed, associations, left, receiving, watched, woken, stale>>
        BY <2>1 DEF socks
      <3>2. ForwarderPart'
        BY <3>1, TableIsGood, ForwarderKeeps DEF Socks!HasAssociation
      <3>3. QED
        BY <3>1, <3>2, PipeStays
    <2>2. CASE Socks!Next
      BY <2>2, SocksStep
    <2>3. QED
      BY <2>1, <2>2 DEF NextAll, InTunnel, InSocks
  <1>3. QED
    BY <1>1, <1>2, PTL DEF SpecAll

\* Associations are polled, have peers, and serve DNS flows only while a query is
\* unanswered, for every set of addresses and every timeout.
THEOREM AssociationsAlwaysServed == SpecAll => []AssociationsAreServed
  <1>1. SocksInv => AssociationsAreServed
    BY DEF SocksInv, AssociationsAreServed
  <1>2. QED
    BY <1>1, SocksInvariant, PTL

================================================================================
