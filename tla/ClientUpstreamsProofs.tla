-------------------------- MODULE ClientUpstreamsProofs --------------------------
(***************************************************************************)
(* Proofs about the client's way to the endpoint (MCClientUpstreams): the    *)
(* race of the connectors (EndpointConnector) and the pool of sessions       *)
(* (UpstreamMux). The components share no state, so each has an invariant of *)
(* its own, which its steps keep and the steps of the others do not touch.   *)
(***************************************************************************)
EXTENDS MCClientUpstreams, TLAPS

\* A leaf that names no prover is tried with the SMT solver, with Zenon, and with
\* the solver once more.
USE SMTT(30), ZenonT(40), Z3T(30)

--------------------------------------------------------------------------------
(* The pool of sessions.                                                     *)

\* The states of a child.
ChildState == {"unused", "opening", "opened", "closed"}
\* A connection of the pool.
PoolConn ==
  [at : {"unused", "pending", "held", "refused", "ended", "lost"}, on : Children \cup {"none"},
   opened : BOOLEAN, ends : Nat, closing : BOOLEAN]
\* What the multiplexer tells its owner.
SessionState == [open : BOOLEAN, told : {"none", "opening", "opened", "released", "closed", "error"}]

\* The invariant of the pool: the properties, with the types they need.
PoolInv ==
  /\ child \in [Children -> ChildState]
  /\ conn \in [PoolConns -> PoolConn]
  /\ session \in SessionState
  /\ \A c \in PoolConns : conn[c].at \in {"pending", "held"} => conn[c].on \in Children
  /\ Pool!ConnectionsMatchPool
  /\ Pool!SessionMatchesPool

\* A multiplexer without children and connections satisfies the invariant.
LEMMA PoolInit == Pool!Init => PoolInv
  BY DEF Pool!Init, PoolInv, ChildState, PoolConn, SessionState, Pool!NoConn,
         Pool!ConnectionsMatchPool, Pool!SessionMatchesPool, Pool!Pool

\* A terminal event is counted and leaves the connection ended.
LEMMA EndOne ==
  ASSUME NEW c \in PoolConn
  PROVE  /\ Pool!End(c) \in PoolConn /\ Pool!End(c).on = c.on
         /\ Pool!End(c).at = "ended" /\ Pool!End(c).ends = c.ends + 1
  <1> DEFINE n == c.ends + 1
  <1>1. n \in Nat
    BY DEF PoolConn
  <1>2. Pool!End(c) = [c EXCEPT !.at = "ended", !.ends = n]
    BY DEF Pool!End
  <1> HIDE DEF n
  <1>3. /\ Pool!End(c) \in PoolConn /\ Pool!End(c).on = c.on
        /\ Pool!End(c).at = "ended" /\ Pool!End(c).ends = n
    BY <1>1, <1>2, ZenonT(40) DEF PoolConn
  <1>4. QED
    BY <1>3 DEF n

\* Connections that end together have their one terminal event each.
LEMMA EndFacts ==
  ASSUME PoolInv, NEW set \in SUBSET PoolConns,
         \A c \in set : conn[c].at \in {"pending", "held"}
  PROVE  /\ Pool!EndAll(set) \in [PoolConns -> PoolConn]
         /\ \A c \in PoolConns :
              /\ c \in set => Pool!EndAll(set)[c].at = "ended" /\ Pool!EndAll(set)[c].ends = 1
              /\ c \notin set => Pool!EndAll(set)[c] = conn[c]
  <1>1. ASSUME NEW c \in set
        PROVE  /\ Pool!End(conn[c]) \in PoolConn
               /\ Pool!End(conn[c]).at = "ended" /\ Pool!End(conn[c]).ends = 1
    <2>1. conn[c] \in PoolConn /\ conn[c].ends = 0
      BY <1>1 DEF PoolInv, Pool!ConnectionsMatchPool
    <2>2. QED
      BY <2>1, EndOne
  <1>2. QED
    BY <1>1 DEF PoolInv, Pool!EndAll

\* Ending connections, and closing children of which no connection is left,
\* keeps the invariant: close_upstream tells the owner when the last one goes.
LEMMA CloseUpstreams ==
  ASSUME PoolInv, NEW set \in SUBSET PoolConns, NEW gone \in SUBSET Pool!Pool, gone # {},
         NEW failure \in {"closed", "error"},
         \A c \in set : conn[c].at \in {"pending", "held"},
         \A c \in PoolConns \ set : conn[c].at = "held" => conn[c].on \notin gone,
         conn' = Pool!EndAll(set), Pool!close_upstreams(gone, failure)
  PROVE  PoolInv'
  <1>1. /\ child' = [u \in Children |-> IF u \in gone THEN "closed" ELSE child[u]]
        /\ session' = IF Pool!Pool \ gone = {} THEN [open |-> FALSE, told |-> failure] ELSE session
    BY DEF Pool!close_upstreams
  <1>2. /\ conn' \in [PoolConns -> PoolConn]
        /\ \A c \in PoolConns :
             /\ c \in set => conn'[c].at = "ended" /\ conn'[c].ends = 1
             /\ c \notin set => conn'[c] = conn[c]
    BY EndFacts
  <1>3. child' \in [Children -> ChildState] /\ session' \in SessionState
    BY <1>1 DEF PoolInv, ChildState, SessionState
  <1>4. \A c \in PoolConns : conn'[c].at \in {"pending", "held"} => conn'[c].on \in Children
    BY <1>2 DEF PoolInv
  <1>5. Pool!ConnectionsMatchPool'
    BY <1>1, <1>2 DEF PoolInv, Pool!ConnectionsMatchPool
  <1>6. Pool!SessionMatchesPool'
    <2>1. (Pool!Pool)' = Pool!Pool \ gone
      BY <1>1 DEF Pool!Pool
    <2>2. QED
      BY <1>1, <2>1 DEF PoolInv, SessionState, Pool!SessionMatchesPool
  <1>7. QED
    BY <1>2, <1>3, <1>4, <1>5, <1>6 DEF PoolInv

\* The ends of a session: of the whole upstream, and of one child.
LEMMA PoolEnds ==
  ASSUME PoolInv,
         \/ Pool!close_session
         \/ \E u \in Children : Pool!ChildClosed(u) \/ Pool!ChildError(u) \/ Pool!ChildFatalError(u)
  PROVE  PoolInv'
  <1>1. CASE Pool!close_session
    <2> DEFINE set == {c \in PoolConns : conn[c].at \in {"pending", "held"}}
    <2>1. /\ child' = [u \in Children |-> IF u \in Pool!Pool THEN "closed" ELSE child[u]]
          /\ conn' = Pool!EndAll(set)
          /\ session' = [session EXCEPT !.told = "released"]
      BY <1>1 DEF Pool!close_session
    <2>2. /\ conn' \in [PoolConns -> PoolConn]
          /\ \A c \in PoolConns : /\ c \in set => conn'[c].at = "ended" /\ conn'[c].ends = 1
                                  /\ c \notin set => conn'[c] = conn[c]
      BY <2>1, EndFacts
    <2>3. child' \in [Children -> ChildState] /\ session' \in SessionState /\ session'.told = "released"
      BY <2>1 DEF PoolInv, ChildState, SessionState
    <2>4. Pool!ConnectionsMatchPool'
      BY <2>1, <2>2 DEF PoolInv, Pool!ConnectionsMatchPool
    <2>5. Pool!SessionMatchesPool'
      BY <2>1, <2>3 DEF Pool!SessionMatchesPool, Pool!Pool
    <2>6. \A c \in PoolConns : conn'[c].at \in {"pending", "held"} => conn'[c].on \in Children
      BY <2>2 DEF PoolInv
    <2>7. QED
      BY <2>2, <2>3, <2>4, <2>5, <2>6 DEF PoolInv
  <1>2. ASSUME NEW u \in Children, Pool!ChildClosed(u) PROVE PoolInv'
    <2> DEFINE set == Pool!Held(u) \cup Pool!Pending(u)
    <2>1. \A c \in set : c \in PoolConns /\ conn[c].at \in {"pending", "held"}
      BY DEF Pool!Held, Pool!Pending
    <2>2. \A c \in PoolConns \ set : conn[c].at = "held" => conn[c].on \notin {u}
      BY DEF Pool!Held
    <2>3. u \in Pool!Pool /\ conn' = Pool!EndAll(set) /\ Pool!close_upstreams({u}, "closed")
      BY <1>2 DEF Pool!ChildClosed
    <2>4. QED
      BY <2>1, <2>2, <2>3, CloseUpstreams
  <1>3. ASSUME NEW u \in Children, Pool!ChildError(u) PROVE PoolInv'
    <2> DEFINE set == Pool!Held(u)
    <2>1. \A c \in set : c \in PoolConns /\ conn[c].at \in {"pending", "held"}
      BY DEF Pool!Held
    <2>2. \A c \in PoolConns \ set : conn[c].at = "held" => conn[c].on \notin {u}
      BY DEF Pool!Held
    <2>3. u \in Pool!Pool /\ conn' = Pool!EndAll(set) /\ Pool!close_upstreams({u}, "closed")
      BY <1>3 DEF Pool!ChildError
    <2>4. QED
      BY <2>1, <2>2, <2>3, CloseUpstreams
  <1>4. ASSUME NEW u \in Children, Pool!ChildFatalError(u) PROVE PoolInv'
    <2> DEFINE set == UNION {Pool!Held(v) : v \in Pool!Pool}
    <2>1. \A c \in set : c \in PoolConns /\ conn[c].at \in {"pending", "held"}
      BY DEF Pool!Held
    <2>2. \A c \in PoolConns \ set : conn[c].at = "held" => conn[c].on \notin Pool!Pool
      BY DEF Pool!Held
    <2>3. Pool!Pool # {} /\ conn' = Pool!EndAll(set) /\ Pool!close_upstreams(Pool!Pool, "error")
      BY <1>4 DEF Pool!ChildFatalError
    <2>4. QED
      BY <2>1, <2>2, <2>3, CloseUpstreams
  <1>5. QED
    BY <1>1, <1>2, <1>3, <1>4

\* The outcomes of opening a connection on a child of the pool.
LEMMA OpenOnFacts ==
  ASSUME PoolInv, NEW c \in PoolConns, conn[c].at = "unused", NEW u \in Pool!Pool,
         NEW new \in Pool!OpenOn(u, c)
  PROVE  /\ new \in [PoolConns -> PoolConn]
         /\ \A d \in PoolConns : d # c => new[d] = conn[d]
         /\ new[c].ends = 0
         /\ \/ new[c].at = "pending" /\ new[c].on = u
            \/ new[c].at = "held" /\ new[c].on = u /\ child[u] = "opened"
            \/ new[c].at = "refused"
  <1> DEFINE waits == [Pool!NoConn EXCEPT !.at = "pending", !.on = u]
             holds == [Pool!NoConn EXCEPT !.at = "held", !.on = u]
             none == [conn[c] EXCEPT !.at = "refused"]
  <1>1. u \in Children /\ child[u] \in {"opening", "opened"}
    BY DEF Pool!Pool
  <1>2. /\ waits \in PoolConn /\ waits.at = "pending" /\ waits.on = u /\ waits.ends = 0
        /\ holds \in PoolConn /\ holds.at = "held" /\ holds.on = u /\ holds.ends = 0
    BY <1>1, Zenon DEF PoolConn, Pool!NoConn
  <1>3. none \in PoolConn /\ none.at = "refused" /\ none.ends = 0
    <2>1. conn[c] \in PoolConn /\ conn[c].ends = 0
      BY DEF PoolInv, Pool!ConnectionsMatchPool
    <2>2. QED
      BY <2>1 DEF PoolConn
  <1>4. \/ new = [conn EXCEPT ![c] = waits]
        \/ new = [conn EXCEPT ![c] = holds] /\ child[u] = "opened"
        \/ new = [conn EXCEPT ![c] = none]
    BY <1>1 DEF Pool!OpenOn, Pool!On, Pool!Refused
  <1> HIDE DEF waits, holds, none
  <1>5. QED
    BY <1>2, <1>3, <1>4 DEF PoolInv

\* A connection is opened on a child that exists, on a new one, or refused.
LEMMA PoolOpens ==
  ASSUME PoolInv, NEW c \in PoolConns, Pool!open_connection(c)
  PROVE  PoolInv'
  <1>1. /\ conn[c].at = "unused" /\ session.told = "opened" /\ Pool!Pool # {}
        /\ session' = session
    BY DEF PoolInv, Pool!open_connection, Pool!SessionMatchesPool
  <1>2. ASSUME NEW u \in Pool!Pool, conn' \in Pool!OpenOn(u, c), UNCHANGED child
        PROVE  PoolInv'
    <2>1. /\ conn' \in [PoolConns -> PoolConn]
          /\ \A d \in PoolConns : d # c => conn'[d] = conn[d]
          /\ conn'[c].ends = 0
          /\ \/ conn'[c].at = "pending" /\ conn'[c].on = u
             \/ conn'[c].at = "held" /\ conn'[c].on = u /\ child[u] = "opened"
             \/ conn'[c].at = "refused"
      BY <1>1, <1>2, OpenOnFacts
    <2>2. u \in Children
      BY DEF Pool!Pool
    <2>3. QED
      BY <1>1, <1>2, <2>1, <2>2
      DEF PoolInv, Pool!ConnectionsMatchPool, Pool!SessionMatchesPool, Pool!Pool
  <1>3. ASSUME NEW u \in Pool!Fresh, child' = [child EXCEPT ![u] = "opening"],
               conn' = Pool!On(c, "pending", u)
        PROVE  PoolInv'
    <2>1. u \in Children /\ child[u] = "unused"
      BY DEF Pool!Fresh
    <2>2. child' \in [Children -> ChildState] /\ conn' \in [PoolConns -> PoolConn]
      BY <1>3, <2>1, ZenonT(40) DEF PoolInv, ChildState, PoolConn, Pool!On, Pool!NoConn
    <2>3. /\ \A d \in PoolConns : d # c => conn'[d] = conn[d]
          /\ conn'[c].at = "pending" /\ conn'[c].on = u /\ conn'[c].ends = 0
      BY <1>3 DEF PoolInv, Pool!On, Pool!NoConn
    <2>4. Pool!ConnectionsMatchPool'
      BY <1>3, <2>1, <2>3 DEF PoolInv, Pool!ConnectionsMatchPool
    <2>5. Pool!SessionMatchesPool'
      BY <1>1, <1>3, <2>1 DEF PoolInv, Pool!SessionMatchesPool, Pool!Pool
    <2>6. QED
      BY <1>1, <2>1, <2>2, <2>3, <2>4, <2>5 DEF PoolInv
  <1>4. \A set, b : Pool!select_existing_upstream(set, b) \subseteq Pool!Pool
    BY DEF Pool!select_existing_upstream
  <1>5. Pool!Fresh # {} => (CHOOSE u \in Pool!Fresh : TRUE) \in Pool!Fresh
    OBVIOUS
  <1>6. \/ \E u \in Pool!select_existing_upstream({}, FALSE) :
             conn' \in Pool!OpenOn(u, c) /\ UNCHANGED child
        \/ \E u \in Pool!Fresh : /\ child' = [child EXCEPT ![u] = "opening"]
                                 /\ conn' = Pool!On(c, "pending", u)
        \/ \E u \in Pool!Fresh : \E v \in Pool!select_existing_upstream({u}, TRUE) :
             conn' \in Pool!OpenOn(v, c) /\ UNCHANGED child
    BY <1>1, <1>5, Zenon DEF Pool!open_connection
  <1>7. QED
    BY <1>2, <1>3, <1>4, <1>6, ZenonT(40)

\* A child's session opens: its pending connections are held by a child whose
\* session is open, have ended, or are kept by nobody.
LEMMA PoolChildOpens ==
  ASSUME PoolInv, NEW u \in Children, Pool!ChildOpened(u)
  PROVE  PoolInv'
  <1>1. /\ child[u] = "opening" /\ child' = [child EXCEPT ![u] = "opened"]
        /\ session' = [open |-> TRUE, told |-> "opened"]
    BY DEF Pool!ChildOpened
  <1>2. PICK first \in Pool!Pool :
          \E outcome \in [Pool!Pending(u) ->
                 UNION {Pool!proceed_pending_connection(c, u, first) : c \in Pool!Pending(u)}] :
            /\ \A c \in Pool!Pending(u) : outcome[c] \in Pool!proceed_pending_connection(c, u, first)
            /\ conn' = [c \in PoolConns |-> IF c \in Pool!Pending(u) THEN outcome[c] ELSE conn[c]]
    BY DEF Pool!ChildOpened
  <1>3. \A c \in PoolConns :
          /\ c \in Pool!Pending(u) => conn'[c] \in Pool!proceed_pending_connection(c, u, first)
          /\ c \notin Pool!Pending(u) => conn'[c] = conn[c]
    BY <1>2
  <1>4. first \in Children /\ child[first] \in {"opening", "opened"}
    BY DEF Pool!Pool
  <1>5. ASSUME NEW c \in Pool!Pending(u)
        PROVE  /\ conn'[c] \in PoolConn /\ conn'[c].on \in Children
               /\ conn'[c].at = "held" => child'[conn'[c].on] = "opened"
               /\ conn'[c].ends = IF conn'[c].at = "ended" THEN 1 ELSE 0
    <2>1. c \in PoolConns /\ conn[c] \in PoolConn /\ conn[c].at = "pending" /\ conn[c].on = u
          /\ conn[c].ends = 0
      BY DEF PoolInv, Pool!Pending, Pool!ConnectionsMatchPool
    <2>2. conn'[c] \in Pool!proceed_pending_connection(c, u, first)
      BY <1>3, <2>1
    <2>3. \/ conn'[c] = [conn[c] EXCEPT !.at = "held"]
          \/ conn'[c] = [conn[c] EXCEPT !.at = "lost"]
          \/ /\ first = u \/ child[first] = "opened"
             /\ \/ conn'[c] = [conn[c] EXCEPT !.at = "held", !.on = first]
                \/ conn'[c] = Pool!End(conn[c])
      BY <1>4, <2>2 DEF Pool!proceed_pending_connection
    <2>4. child'[u] = "opened" /\ (first = u \/ child[first] = "opened" => child'[first] = "opened")
      BY <1>1, <1>4 DEF PoolInv
    <2>5. CASE \/ conn'[c] = [conn[c] EXCEPT !.at = "held"]
               \/ conn'[c] = [conn[c] EXCEPT !.at = "lost"]
      BY <2>1, <2>4, <2>5 DEF PoolConn
    <2>6. CASE conn'[c] = [conn[c] EXCEPT !.at = "held", !.on = first] /\ child'[first] = "opened"
      BY <1>4, <2>1, <2>6, ZenonT(40) DEF PoolConn
    <2>7. CASE conn'[c] = Pool!End(conn[c])
      BY <2>1, <2>7, EndOne
    <2>8. QED
      BY <2>3, <2>4, <2>5, <2>6, <2>7
  <1>6. conn' \in [PoolConns -> PoolConn]
    BY <1>2, <1>3, <1>5, ZenonT(40) DEF PoolInv
  <1>7. \A c \in PoolConns : conn'[c].at \in {"pending", "held"} => conn'[c].on \in Children
    BY <1>3, <1>5 DEF PoolInv
  <1>8. Pool!ConnectionsMatchPool'
    <2>1. \A v \in Children : child[v] = "opened" => child'[v] = "opened"
      BY <1>1 DEF PoolInv
    <2>2. QED
      BY <1>3, <1>5, <2>1 DEF PoolInv, Pool!ConnectionsMatchPool
  <1>9. Pool!SessionMatchesPool'
    BY <1>1 DEF PoolInv, Pool!SessionMatchesPool, Pool!Pool
  <1>10. child' \in [Children -> ChildState] /\ session' \in SessionState
    BY <1>1 DEF PoolInv, ChildState, SessionState
  <1>11. QED
    BY <1>6, <1>7, <1>8, <1>9, <1>10 DEF PoolInv

\* The remaining steps: the first child, and events of one connection.
LEMMA PoolOneConnection ==
  ASSUME PoolInv,
         \/ Pool!open_session
         \/ \E c \in PoolConns : \/ Pool!close_connection(c) \/ Pool!ConnectionOpened(c)
                                 \/ Pool!ConnectionClosed(c)
  PROVE  PoolInv'
  <1>1. CASE Pool!open_session
    <2>1. PICK u \in Pool!Fresh : child' = [child EXCEPT ![u] = "opening"]
      BY <1>1, Zenon DEF Pool!open_session
    <2>2. Pool!Pool = {} /\ conn' = conn /\ session' = [session EXCEPT !.told = "opening"]
      BY <1>1 DEF Pool!open_session
    <2>3. u \in Children /\ child[u] = "unused"
      BY DEF Pool!Fresh
    <2>4. child' \in [Children -> ChildState] /\ session' \in SessionState
      BY <2>1, <2>2, <2>3 DEF PoolInv, ChildState, SessionState
    <2>5. Pool!ConnectionsMatchPool'
      BY <2>1, <2>2, <2>3 DEF PoolInv, Pool!ConnectionsMatchPool
    <2>6. Pool!SessionMatchesPool'
      BY <2>1, <2>2, <2>3 DEF PoolInv, SessionState, Pool!SessionMatchesPool, Pool!Pool
    <2>7. QED
      BY <2>2, <2>4, <2>5, <2>6 DEF PoolInv
  <1>2. ASSUME NEW c \in PoolConns, NEW new \in PoolConn, conn' = [conn EXCEPT ![c] = new],
               UNCHANGED <<child, session>>,
               \/ new.at = conn[c].at /\ new.on = conn[c].on /\ new.ends = conn[c].ends
               \/ conn[c].at = "held" /\ new.at = "ended" /\ new.ends = conn[c].ends + 1
        PROVE  PoolInv'
    BY <1>2 DEF PoolInv, Pool!ConnectionsMatchPool, Pool!SessionMatchesPool, Pool!Pool
  <1>3. ASSUME NEW c \in PoolConns, Pool!close_connection(c) PROVE PoolInv'
    <2> DEFINE b == Pool!get_upstream_by_conn(c) # {}
               new == [conn[c] EXCEPT !.closing = b]
    <2>1. b \in BOOLEAN
      OBVIOUS
    <2>2. conn' = [conn EXCEPT ![c] = new] /\ UNCHANGED <<child, session>>
      BY <1>3 DEF Pool!close_connection
    <2> HIDE DEF b
    <2>3. new \in PoolConn /\ new.at = conn[c].at /\ new.on = conn[c].on /\ new.ends = conn[c].ends
      <3>1. conn[c] \in PoolConn
        BY DEF PoolInv
      <3>2. QED
        BY <2>1, <3>1, ZenonT(40) DEF PoolConn
    <2>4. QED
      BY <1>2, <2>2, <2>3, ZenonT(40)
  <1>4. ASSUME NEW c \in PoolConns, Pool!ConnectionOpened(c) PROVE PoolInv'
    <2> DEFINE new == [conn[c] EXCEPT !.opened = TRUE]
    <2>1. new \in PoolConn /\ new.at = conn[c].at /\ new.on = conn[c].on /\ new.ends = conn[c].ends
      <3>1. conn[c] \in PoolConn
        BY DEF PoolInv
      <3>2. QED
        BY <3>1, Zenon DEF PoolConn
    <2>2. conn' = [conn EXCEPT ![c] = new] /\ UNCHANGED <<child, session>>
      BY <1>4 DEF Pool!ConnectionOpened
    <2>3. QED
      BY <1>2, <2>1, <2>2, ZenonT(40)
  <1>5. ASSUME NEW c \in PoolConns, Pool!ConnectionClosed(c) PROVE PoolInv'
    <2> DEFINE new == Pool!End(conn[c])
    <2>1. new \in PoolConn /\ new.at = "ended" /\ new.ends = conn[c].ends + 1
      <3>1. conn[c] \in PoolConn
        BY DEF PoolInv
      <3>2. QED
        BY <3>1, EndOne
    <2>2. conn' = [conn EXCEPT ![c] = new] /\ UNCHANGED <<child, session>> /\ conn[c].at = "held"
      BY <1>5 DEF Pool!ConnectionClosed
    <2>3. QED
      BY <1>2, <2>1, <2>2, ZenonT(40)
  <1>6. QED
    BY <1>1, <1>3, <1>4, <1>5

\* Every step of the multiplexer keeps the invariant, and so does every step of
\* another component.
LEMMA PoolStep == PoolInv /\ [NextAll]_allVars => PoolInv'
  <1> SUFFICES ASSUME PoolInv, [NextAll]_allVars PROVE PoolInv'
    OBVIOUS
  <1>1. CASE Pool!Next
    BY <1>1, PoolEnds, PoolOpens, PoolChildOpens, PoolOneConnection DEF Pool!Next
  <1>2. CASE UNCHANGED pool
    BY <1>2 DEF pool, PoolInv, Pool!ConnectionsMatchPool, Pool!SessionMatchesPool, Pool!Pool
  <1>3. QED
    BY <1>1, <1>2
    DEF NextAll, allVars, InConnector, InPool, InMux, InLocal, InHttp2, InHttp3

\* The tables of the multiplexer match its pool of sessions, for any number of
\* connections and sessions, any threshold and any cap.
THEOREM PoolStaysConsistent == SpecAll => []PoolIsConsistent
  <1>1. InitAll => PoolInv
    BY PoolInit DEF InitAll
  <1>2. PoolInv => PoolIsConsistent
    BY DEF PoolInv, PoolIsConsistent
  <1>3. QED
    BY <1>1, <1>2, PoolStep, PTL DEF SpecAll

--------------------------------------------------------------------------------
(* The race of the connectors.                                               *)

\* The fields of a connector.
ConFields == {"here", "fsm", "up", "error", "deferred", "has", "result"}
\* The fields of the connect procedure.
EcFields == {"con", "racing", "tried", "delay", "fsm", "connector", "upstream", "error", "finalizer",
             "dns", "answers", "asserted", "early", "connects"}

\* The shape of the procedure: which fields there are; their values follow from
\* the steps.
IsEc(e) ==
  /\ DOMAIN e = EcFields
  /\ DOMAIN e.con = Connector!Side
  /\ \A s \in Connector!Side : DOMAIN e.con[s] = ConFields

\* A connector that has no session and owes no result.
NoSession(c) == c.fsm = "DISCONNECTED" /\ c.result = "none" /\ c.up \notin {"opening", "open"}

\* The race of the two connectors. The fallback has nothing before it is tried,
\* a connector owes a result only after its attempt is over, and once the client
\* has its answer, or its connector is gone, neither has a session.
Race(e) ==
  /\ IsEc(e)
  /\ e.answers \in {0, 1} /\ e.asserted = TRUE
  /\ e.delay # "none" => ~e.tried
  /\ ~e.racing => ~e.tried /\ e.delay = "none" /\ e.con["main"].result = "none"
  /\ ~e.tried => NoSession(e.con["fallback"]) /\ ~e.con["fallback"].has
  /\ \A s \in Connector!Side : e.con[s].fsm # "DISCONNECTED" => e.con[s].result = "none"
  /\ e.finalizer \/ ~e.connector \/ e.answers # 0 =>
       e.delay = "none" /\ \A s \in Connector!Side : NoSession(e.con[s])

\* Two connectors that are gone satisfy the invariant, whatever else is the case.
LEMMA RaceOver ==
  ASSUME NEW e, IsEc(e), e.con = [s \in Connector!Side |-> Connector!NoConnector],
         e.tried = FALSE, e.delay = "none", e.answers \in {0, 1}, e.asserted = TRUE
  PROVE  Race(e)
  BY DEF Race, NoSession, Connector!NoConnector, Connector!Side

\* What the client's handler changes: it takes the upstream of one side.
Told(x, e, s) ==
  /\ IsEc(x) /\ x.con = [e.con EXCEPT ![s].up = "gone"]
  /\ x.finalizer = TRUE /\ x.answers = e.answers + 1
  /\ x.racing = e.racing /\ x.tried = e.tried /\ x.delay = e.delay
  /\ x.connector = e.connector /\ x.asserted = e.asserted

\* endpoint_connector_handler answers once and takes the upstream.
LEMMA HandlerTells ==
  ASSUME NEW e, IsEc(e), NEW s \in Connector!Side, NEW r, NEW dns
  PROVE  Told(Connector!endpoint_connector_handler(e, s, r, dns), e, s)
  BY DEF Told, Connector!endpoint_connector_handler, IsEc, Connector!NoConnector, Connector!Side, EcFields, ConFields

\* A client that never connected satisfies the invariant.
LEMMA ConnectorInit == Connector!Init => Race(ec)
  BY DEF Connector!Init, Race, IsEc, ConFields, EcFields, NoSession, Connector!NoConnector, Connector!Side

\* An attempt that ends, with f the state in which it reports: alone it answers
\* the client, in a race it leaves its result for the task.
LEMMA RaiseKeeps ==
  ASSUME NEW e, Race(e), NEW s \in Connector!Side, e.con[s].fsm # "DISCONNECTED",
         NEW f, IsEc(f), f.con[s].fsm = "DISCONNECTED", f.con[s].result = e.con[s].result,
         f.con[s].has = e.con[s].has, \A t \in Connector!Side : t # s => f.con[t] = e.con[t],
         f.racing = e.racing, f.tried = e.tried, f.delay = e.delay, f.connector = e.connector,
         f.finalizer = e.finalizer, f.answers = e.answers, f.asserted = e.asserted,
         NEW r, NEW dns
  PROVE  Race(Connector!Raise(f, s, r, dns))
  <1> DEFINE x == Connector!Raise(f, s, r, dns)
  <1>1. /\ e.connector /\ ~e.finalizer /\ e.answers = 0 /\ e.con[s].result = "none"
        /\ ~e.tried => s = "main"
    BY DEF Race, NoSession, Connector!Side
  <1>2. CASE ~e.racing
    <2>1. x = Connector!endpoint_connector_handler(f, s, r, dns)
      BY <1>2 DEF Connector!Raise
    <2>2. /\ IsEc(x) /\ x.con = [f.con EXCEPT ![s].up = "gone"]
          /\ x.finalizer = TRUE /\ x.answers = f.answers + 1
          /\ x.racing = e.racing /\ x.tried = e.tried /\ x.delay = e.delay /\ x.asserted = e.asserted
      <3>1. Told(x, f, s)
        BY <2>1, HandlerTells, ZenonT(40)
      <3> HIDE DEF x
      <3>2. QED
        BY <3>1 DEF Told
    <2>3. s = "main" /\ ~e.tried /\ e.delay = "none" /\ NoSession(e.con["fallback"]) /\ ~e.con["fallback"].has
      <3>1. ~e.tried /\ e.delay = "none"
        BY <1>2 DEF Race
      <3>2. NoSession(e.con["fallback"]) /\ ~e.con["fallback"].has
        BY <3>1 DEF Race
      <3>3. QED
        BY <1>1, <3>1, <3>2
    <2>4. /\ x.con["fallback"] = e.con["fallback"]
          /\ x.con["main"].fsm = "DISCONNECTED" /\ x.con["main"].result = "none" /\ x.con["main"].up = "gone"
      BY <1>1, <2>2, <2>3 DEF IsEc, Connector!Side, ConFields
    <2>5. NoSession(x.con["main"]) /\ NoSession(x.con["fallback"]) /\ ~x.con["fallback"].has
      BY <2>3, <2>4 DEF NoSession
    <2> HIDE DEF x
    <2>6. Race(x)
      BY <1>1, <1>2, <2>2, <2>3, <2>5 DEF Race, NoSession, Connector!Side
    <2>7. QED
      BY <2>6 DEF x
  <1>3. CASE e.racing
    <2> DEFINE c == [f.con[s] EXCEPT !.result = r]
    <2>1. x = [f EXCEPT !.asserted = @ /\ f.con[s].result = "none", !.con[s].result = r]
      BY <1>3 DEF Connector!Raise
    <2>2. /\ x.con = [f.con EXCEPT ![s] = c] /\ x.asserted = TRUE
          /\ x.racing = e.racing /\ x.tried = e.tried /\ x.delay = e.delay
          /\ x.connector = e.connector /\ x.finalizer = e.finalizer /\ x.answers = e.answers
      <3>1. DOMAIN f = EcFields /\ f.asserted = TRUE /\ f.con[s].result = "none"
        BY <1>1 DEF IsEc, Race
      <3>2. x.con = [f.con EXCEPT ![s] = c]
        BY <2>1, <3>1 DEF EcFields
      <3>3. x.asserted = TRUE
        BY <2>1, <3>1, ZenonT(40) DEF EcFields
      <3>4. /\ x.racing = f.racing /\ x.tried = f.tried /\ x.delay = f.delay
            /\ x.connector = f.connector /\ x.finalizer = f.finalizer /\ x.answers = f.answers
        BY <2>1, <3>1 DEF EcFields
      <3>5. QED
        BY <3>2, <3>3, <3>4
    <2>2a. IsEc(x)
      BY <2>1 DEF IsEc
    <2>3. /\ x.con[s].fsm = "DISCONNECTED" /\ x.con[s].has = e.con[s].has
          /\ \A t \in Connector!Side : t # s => x.con[t] = e.con[t]
      BY <2>2 DEF IsEc, ConFields
    <2> HIDE DEF x
    <2>4. Race(x)
      BY <1>1, <1>3, <2>2, <2>2a, <2>3 DEF Race, NoSession, Connector!Side
    <2>5. QED
      BY <2>4 DEF x
  <1>4. QED
    BY <1>2, <1>3

\* The result of a connector of the race: a success drops the other one, a failure
\* of both ends the race, and a failure of the main one alone starts the fallback.
LEMMA ResultKeeps ==
  ASSUME NEW e, Race(e), e.racing, e.answers = 0, e.connector, ~e.finalizer,
         NEW s \in Connector!Side, ~e.tried => s = "main", NEW r, NEW dns
  PROVE  Race(Connector!handle_connect_result(e, s, r, dns))
  <1> DEFINE x == Connector!handle_connect_result(e, s, r, dns)
             lone == IF r = "ok" THEN Connector!disconnect(e, Connector!Other(s)) ELSE e
             done == [lone EXCEPT !.con[s].here = FALSE, !.con[s].has = TRUE, !.con[s].result = "none",
                           !.con[s].deferred = FALSE, !.con[s].up = IF r = "ok" THEN @ ELSE "gone"]
             over == r = "ok" \/ (done.con["main"].has /\ done.con["fallback"].has)
             told == Connector!endpoint_connector_handler(done, s, r, dns)
  <1>1. /\ IsEc(lone) /\ lone.answers = e.answers /\ lone.asserted = e.asserted
    BY DEF Race, IsEc, Connector!disconnect, Connector!Other, Connector!Side, EcFields
  <1>1a. r # "ok" => lone = e
    OBVIOUS
  <1> HIDE DEF lone
  <1>2. IsEc(done) /\ done.answers = 0 /\ done.asserted = TRUE
    BY <1>1, ZenonT(40) DEF IsEc, EcFields, Race
  <1>2a. ASSUME r # "ok"
         PROVE  /\ done.racing = e.racing /\ done.tried = e.tried /\ done.delay = e.delay
                /\ done.connector = e.connector /\ done.finalizer = e.finalizer
                /\ done.con[s].result = "none" /\ done.con[s].up = "gone"
                /\ done.con[s].fsm = e.con[s].fsm
                /\ \A t \in Connector!Side : t # s => done.con[t] = e.con[t]
    <2>1. lone = e /\ DOMAIN e = EcFields /\ DOMAIN e.con = Connector!Side /\ DOMAIN e.con[s] = ConFields
      BY <1>1a, <1>2a DEF Race, IsEc
    <2>2. /\ done.racing = e.racing /\ done.tried = e.tried /\ done.delay = e.delay
          /\ done.connector = e.connector /\ done.finalizer = e.finalizer
      BY <2>1, ZenonT(40) DEF EcFields
    <2>3. /\ done.con[s].result = "none" /\ done.con[s].up = "gone"
          /\ done.con[s].fsm = e.con[s].fsm
      BY <1>2a, <2>1 DEF EcFields, ConFields
    <2>4. \A t \in Connector!Side : t # s => done.con[t] = e.con[t]
      BY <2>1 DEF EcFields
    <2>5. QED
      BY <2>2, <2>3, <2>4, Zenon
  <1>3. x = IF over THEN [told EXCEPT !.con = [t \in Connector!Side |-> Connector!NoConnector], !.tried = FALSE, !.delay = "none"]
            ELSE IF e.tried THEN done ELSE [done EXCEPT !.delay = "submitted"]
    BY Zenon DEF Connector!handle_connect_result, lone
  <1> HIDE DEF x, done
  <1>4. CASE over
    <2>1. IsEc(told) /\ told.answers = 1 /\ told.asserted = TRUE
      <3>1. Told(told, done, s)
        BY <1>2, HandlerTells, Zenon
      <3> HIDE DEF told
      <3>2. QED
        BY <1>2, <3>1 DEF Told
    <2> HIDE DEF told, over
    <2>2. IsEc(x) /\ x.con = [t \in Connector!Side |-> Connector!NoConnector] /\ x.tried = FALSE
          /\ x.delay = "none" /\ x.answers = 1 /\ x.asserted = TRUE
      BY <1>3, <1>4, <2>1 DEF IsEc, EcFields, ConFields, Connector!NoConnector
    <2>3. QED
      BY <2>2, RaceOver, Zenon DEF x
  <1>5. CASE ~over
    <2>1. r # "ok"
      BY <1>5
    <2>2. /\ done.racing = e.racing /\ done.tried = e.tried /\ done.delay = e.delay
          /\ done.connector = e.connector /\ done.finalizer = e.finalizer
          /\ done.con[s].result = "none" /\ done.con[s].up = "gone" /\ done.con[s].fsm = e.con[s].fsm
          /\ \A t \in Connector!Side : t # s => done.con[t] = e.con[t]
      BY <1>2a, <2>1, Zenon
    <2> HIDE DEF over
    <2>3. CASE e.tried
      <3>1. x = done
        BY <1>3, <1>5, <2>3
      <3>2. QED
        BY <1>2, <2>2, <2>3, <3>1, ZenonT(40) DEF Race, x
    <2>4. CASE ~e.tried
      <3>1. x = [done EXCEPT !.delay = "submitted"]
        BY <1>3, <1>5, <2>4
      <3>2. /\ x.racing = e.racing /\ x.tried = e.tried /\ x.delay = "submitted"
            /\ x.connector = e.connector /\ x.finalizer = e.finalizer /\ x.answers = 0
            /\ x.asserted = TRUE /\ x.con = done.con /\ IsEc(x)
        BY <1>2, <2>2, <3>1, ZenonT(40) DEF IsEc, EcFields
      <3>3. QED
        BY <2>2, <2>4, <3>2 DEF Race, NoSession, x, Connector!Side
    <2>5. QED
      BY <2>3, <2>4
  <1>6. QED
    BY <1>4, <1>5

\* An attempt that ends reports once.
LEMMA AttemptEnds ==
  ASSUME NEW e, Race(e), NEW s \in Connector!Side, e.con[s].fsm # "DISCONNECTED"
  PROVE  /\ \A dns : Race(Connector!raise_connected(e, s, dns))
         /\ Race(Connector!raise_disconnected(e, s))
  <1>0. IsEc(e)
    BY DEF Race
  <1>1. ASSUME NEW dns PROVE Race(Connector!raise_connected(e, s, dns))
    <2> DEFINE f == [e EXCEPT !.con[s].fsm = "DISCONNECTED", !.con[s].up = "open"]
    <2>1. /\ IsEc(f) /\ f.con[s].fsm = "DISCONNECTED" /\ f.con[s].result = e.con[s].result
          /\ f.con[s].has = e.con[s].has /\ \A t \in Connector!Side : t # s => f.con[t] = e.con[t]
      BY <1>0 DEF IsEc, EcFields, ConFields
    <2>2. /\ f.racing = e.racing /\ f.tried = e.tried /\ f.delay = e.delay
          /\ f.connector = e.connector /\ f.finalizer = e.finalizer /\ f.answers = e.answers
          /\ f.asserted = e.asserted
      BY <1>0 DEF IsEc, EcFields
    <2>3. Connector!raise_connected(e, s, dns) = Connector!Raise(f, s, "ok", dns)
      BY DEF Connector!raise_connected
    <2> HIDE DEF f
    <2>4. QED
      BY <2>1, <2>2, <2>3, RaiseKeeps, ZenonT(40)
  <1>2. Race(Connector!raise_disconnected(e, s))
    <2> DEFINE f == [e EXCEPT !.con[s].fsm = "DISCONNECTED", !.con[s].up = "idle", !.con[s].error = FALSE]
               r == IF e.con[s].error THEN "failed" ELSE "closed"
    <2>1. /\ IsEc(f) /\ f.con[s].fsm = "DISCONNECTED" /\ f.con[s].result = e.con[s].result
          /\ f.con[s].has = e.con[s].has /\ \A t \in Connector!Side : t # s => f.con[t] = e.con[t]
      BY <1>0 DEF IsEc, EcFields, ConFields
    <2>2. /\ f.racing = e.racing /\ f.tried = e.tried /\ f.delay = e.delay
          /\ f.connector = e.connector /\ f.finalizer = e.finalizer /\ f.answers = e.answers
          /\ f.asserted = e.asserted
      BY <1>0 DEF IsEc, EcFields
    <2>3. Connector!raise_disconnected(e, s) = Connector!Raise(f, s, r, "none")
      BY DEF Connector!raise_disconnected
    <2> HIDE DEF f, r
    <2>4. QED
      BY <2>1, <2>2, <2>3, RaiseKeeps, ZenonT(40)
  <1>3. QED
    BY <1>1, <1>2

\* The events of an attempt.
LEMMA AttemptSteps ==
  ASSUME Race(ec), NEW s \in Connector!Side,
         \/ Connector!SessionOpened(s) \/ Connector!SessionClosed(s) \/ Connector!SessionError(s)
         \/ Connector!DeferredDisconnect(s) \/ Connector!EarlyEvent(s)
  PROVE  Race(ec')
  <1>1. CASE Connector!SessionOpened(s)
    <2>1. ec.con[s].fsm = "CONNECTING" /\ \E dns \in {"up", "broken"} : ec' = Connector!raise_connected(ec, s, dns)
      BY <1>1 DEF Connector!SessionOpened
    <2>2. QED
      BY <2>1, AttemptEnds
  <1>2. CASE Connector!SessionClosed(s)
    <2>1. ec.con[s].fsm # "DISCONNECTED" /\ ec' = Connector!raise_disconnected(ec, s)
      BY <1>2 DEF Connector!SessionClosed
    <2>2. QED
      BY <2>1, AttemptEnds
  <1>3. CASE Connector!SessionError(s)
    BY <1>3, ZenonT(40) DEF Connector!SessionError, Connector!submit_disconnect, Race, IsEc, ConFields, EcFields,
                NoSession, Connector!Side
  <1>4. CASE Connector!DeferredDisconnect(s)
    <2> DEFINE e == [ec EXCEPT !.con[s].deferred = FALSE]
    <2>1. Race(e) /\ e.con[s].fsm = ec.con[s].fsm
      BY DEF Race, IsEc, ConFields, EcFields, NoSession, Connector!Side
    <2>2. ec' = IF ec.con[s].fsm = "DISCONNECTING" THEN Connector!raise_disconnected(e, s) ELSE e
      BY <1>4 DEF Connector!DeferredDisconnect
    <2> HIDE DEF e
    <2>3. QED
      BY <2>1, <2>2, AttemptEnds
  <1>5. CASE Connector!EarlyEvent(s)
    BY <1>5 DEF Connector!EarlyEvent, Connector!SessionEnds, Race, IsEc, ConFields, EcFields, NoSession,
                Connector!Side
  <1>6. QED
    BY <1>1, <1>2, <1>3, <1>4, <1>5

\* Dropping both connectors ends the race, whatever else changes.
LEMMA DisconnectKeeps ==
  ASSUME NEW e, Race(e)
  PROVE  /\ Race(Connector!run_disconnect(e)) /\ Race(Connector!DisconnectAll(e))
         /\ Race([Connector!run_disconnect(e) EXCEPT !.error = FALSE])
  <1> DEFINE x == Connector!DisconnectAll(e)
  <1>1. IsEc(x) /\ x.con = [s \in Connector!Side |-> Connector!NoConnector]
         /\ x.tried = FALSE /\ x.delay = "none" /\ x.answers \in {0, 1} /\ x.asserted = TRUE
    BY DEF Race, Connector!DisconnectAll, IsEc, Connector!NoConnector, EcFields, ConFields
  <1>2. Connector!run_disconnect(e) =
          [x EXCEPT !.connector = FALSE, !.finalizer = FALSE, !.fsm = "DISCONNECTED",
             !.upstream = IF @ = "none" THEN @ ELSE "closed", !.dns = "none"]
    BY DEF Connector!run_disconnect
  <1> HIDE DEF x
  <1> DEFINE y == Connector!run_disconnect(e)
  <1>3. /\ IsEc(y) /\ y.con = [s \in Connector!Side |-> Connector!NoConnector]
        /\ y.tried = FALSE /\ y.delay = "none" /\ y.answers \in {0, 1} /\ y.asserted = TRUE
    BY <1>1, <1>2 DEF IsEc, EcFields
  <1> HIDE DEF y
  <1> DEFINE z == [y EXCEPT !.error = FALSE]
  <1>4. /\ IsEc(z) /\ z.con = [s \in Connector!Side |-> Connector!NoConnector]
        /\ z.tried = FALSE /\ z.delay = "none" /\ z.answers \in {0, 1} /\ z.asserted = TRUE
    BY <1>3 DEF IsEc, EcFields
  <1> HIDE DEF z
  <1>5. Race(x) /\ Race(y) /\ Race(z)
    BY <1>1, <1>3, <1>4, RaceOver, ZenonT(40)
  <1>6. QED
    BY <1>5 DEF x, y, z

\* The steps of the client: it disconnects, finalizes, or hears of its session.
LEMMA ClientSteps ==
  ASSUME Race(ec),
         \/ Connector!Disconnect \/ Connector!ClientDeferredDisconnect
         \/ Connector!endpoint_connector_finalizer \/ Connector!vpn_upstream_handler
  PROVE  Race(ec')
  <1>1. CASE Connector!Disconnect \/ Connector!ClientDeferredDisconnect
    BY <1>1, DisconnectKeeps, ZenonT(40) DEF Connector!Disconnect, Connector!ClientDeferredDisconnect
  <1>2. CASE Connector!endpoint_connector_finalizer
    <2> DEFINE x == Connector!DisconnectAll(ec)
               e == [x EXCEPT !.finalizer = FALSE, !.connector = FALSE]
    <2>1. IsEc(x) /\ x.con = [s \in Connector!Side |-> Connector!NoConnector]
           /\ x.tried = FALSE /\ x.delay = "none" /\ x.answers \in {0, 1} /\ x.asserted = TRUE
      BY DEF Race, Connector!DisconnectAll, IsEc, Connector!NoConnector, EcFields, ConFields
    <2> HIDE DEF x
    <2>2. IsEc(e) /\ e.con = [s \in Connector!Side |-> Connector!NoConnector]
           /\ e.tried = FALSE /\ e.delay = "none" /\ e.answers \in {0, 1} /\ e.asserted = TRUE
      BY <2>1 DEF IsEc, EcFields
    <2>3. \/ ec' = [e EXCEPT !.fsm = "DISCONNECTED", !.error = FALSE]
          \/ ec' = [e EXCEPT !.fsm = "CONNECTED"]
          \/ ec' = e
      BY <1>2 DEF Connector!endpoint_connector_finalizer, x
    <2> HIDE DEF e
    <2>4. IsEc(ec') /\ ec'.con = [s \in Connector!Side |-> Connector!NoConnector]
           /\ ec'.tried = FALSE /\ ec'.delay = "none" /\ ec'.answers \in {0, 1} /\ ec'.asserted = TRUE
      BY <2>2, <2>3, ZenonT(40) DEF IsEc, EcFields
    <2>5. QED
      BY <2>4, RaceOver, ZenonT(40)
  <1>3. CASE Connector!vpn_upstream_handler
    BY <1>3 DEF Connector!vpn_upstream_handler, Connector!SessionEnds, Race, IsEc, ConFields, EcFields,
                NoSession, Connector!Side
  <1>4. QED
    BY <1>1, <1>2, <1>3

\* The result tasks and the fallback's delay: a fallback is tried once.
\* Every step keeps the invariant, and so does every step of another component.
LEMMA RaceSteps ==
  ASSUME Race(ec),
         Connector!FallbackDelay \/ \E s \in Connector!Side : Connector!ResultTask(s)
  PROVE  Race(ec')
  <1>1. ASSUME NEW s \in Connector!Side, Connector!ResultTask(s) PROVE Race(ec')
    <2>1. ec.con[s].result # "none"
      BY <1>1 DEF Connector!ResultTask
    <2>2. ec.connector /\ ~ec.finalizer /\ ec.answers = 0 /\ (~ec.tried => s = "main") /\ ec.racing
      BY <2>1 DEF Race, NoSession, Connector!Side
    <2>3. \E dns \in {"up", "broken"} :
            ec' = Connector!handle_connect_result(ec, s, ec.con[s].result, dns)
      BY <1>1 DEF Connector!ResultTask
    <2>4. QED
      BY <2>2, <2>3, ResultKeeps, ZenonT(40)
  <1>2. CASE Connector!FallbackDelay
    <2> DEFINE e == [ec EXCEPT !.delay = "none"]
               trying == [e EXCEPT !.asserted = @ /\ ~e.tried /\ ~e.con["fallback"].has, !.tried = TRUE]
    <2>1. /\ ec.delay # "none" /\ ~ec.tried /\ ec.racing /\ ec.connector /\ ~ec.finalizer
          /\ ec.answers = 0 /\ ~ec.con["fallback"].has /\ IsEc(ec) /\ ec.asserted = TRUE
          /\ NoSession(ec.con["fallback"])
      BY <1>2 DEF Connector!FallbackDelay, Race
    <2>2. /\ IsEc(e) /\ e.tried = ec.tried /\ e.con = ec.con /\ e.asserted = TRUE /\ e.racing = ec.racing
          /\ e.delay = "none" /\ e.connector = ec.connector /\ e.finalizer = ec.finalizer
          /\ e.answers = ec.answers
      BY <2>1, ZenonT(40) DEF IsEc, EcFields
    <2>3. PICK opens \in BOOLEAN, dns \in {"up", "broken"} :
            ec' = IF opens THEN Connector!connect(trying, "fallback", opens)
                  ELSE Connector!handle_connect_result(
                         Connector!connect(trying, "fallback", opens), "fallback", "failed", dns)
      BY <1>2 DEF Connector!FallbackDelay, Connector!start_fallback_connection
    <2> HIDE DEF e
    <2>4. /\ IsEc(trying) /\ trying.tried = TRUE /\ trying.con = ec.con /\ trying.asserted = TRUE
          /\ trying.racing = ec.racing /\ trying.delay = "none" /\ trying.connector = ec.connector
          /\ trying.finalizer = ec.finalizer /\ trying.answers = ec.answers
      BY <2>1, <2>2, ZenonT(40) DEF IsEc, EcFields
    <2> HIDE DEF trying
    <2>5. Race(trying)
      BY <2>1, <2>4 DEF Race
    <2>6. CASE opens
      <3>1. ec' = [trying EXCEPT !.con["fallback"].fsm = "CONNECTING", !.con["fallback"].up = "opening"]
        BY <2>3, <2>6 DEF Connector!connect
      <3>2. /\ IsEc(ec') /\ ec'.tried = TRUE /\ ec'.racing = trying.racing /\ ec'.delay = "none"
            /\ ec'.connector = trying.connector /\ ec'.finalizer = trying.finalizer
            /\ ec'.answers = trying.answers /\ ec'.asserted = TRUE
            /\ ec'.con["main"] = trying.con["main"]
            /\ ec'.con["fallback"].result = trying.con["fallback"].result
        BY <2>4, <3>1 DEF IsEc, EcFields, ConFields, Connector!Side
      <3>3. QED
        BY <2>1, <2>4, <2>5, <3>2 DEF Race, NoSession, Connector!Side
    <2>7. CASE ~opens
      <3>1. ec' = Connector!handle_connect_result(trying, "fallback", "failed", dns)
        BY <2>3, <2>7 DEF Connector!connect
      <3>2. trying.racing /\ trying.answers = 0 /\ trying.connector /\ ~trying.finalizer /\ trying.tried
            /\ "fallback" \in Connector!Side
        BY <2>1, <2>4 DEF Connector!Side
      <3>3. QED
        BY <2>5, <3>1, <3>2, ResultKeeps, ZenonT(40)
    <2>8. QED
      BY <2>6, <2>7
  <1>3. QED
    BY <1>1, <1>2

\* A new procedure starts with one connector, or with two of which the main one
\* runs, and with no answer.
LEMMA ConnectStep ==
  ASSUME Race(ec), Connector!Connect
  PROVE  Race(ec')
  <1> DEFINE all == Connector!DisconnectAll(ec)
             Con(racing) == [s \in Connector!Side |-> IF racing \/ s = "main" THEN Connector!NewConnector
                                                                          ELSE Connector!NoConnector]
             New(racing) == [all EXCEPT !.con = Con(racing), !.racing = racing, !.connector = TRUE,
                                        !.answers = 0, !.connects = @ + 1]
             Started(racing, opens) ==
               [Connector!connect(New(racing), "main", opens) EXCEPT !.fsm = "CONNECTING"]
             Going(racing, opens) ==
               IF ~racing THEN Started(racing, opens)
               ELSE IF opens THEN [Started(racing, opens) EXCEPT !.delay = "timer"]
               ELSE Connector!handle_connect_result(Started(racing, opens), "main", "failed", "none")
  <1>1. ~ec.finalizer
    BY Zenon DEF Connector!Connect
  <1>2. PICK racing \in BOOLEAN, opens \in BOOLEAN, bypass \in BOOLEAN :
          ec' = IF (opens \/ racing) /\ bypass THEN Going(racing, opens)
                ELSE Connector!run_disconnect(Going(racing, opens))
    BY Zenon DEF Connector!Connect
  <1>3. /\ IsEc(all) /\ all.tried = FALSE /\ all.delay = "none" /\ ~all.finalizer /\ all.asserted = TRUE
    BY <1>1 DEF Race, Connector!DisconnectAll, IsEc, EcFields, ConFields, Connector!NoConnector
  <1> HIDE DEF all
  <1> DEFINE c == Con(racing)
             new == New(racing)
  <1>4. /\ DOMAIN c = Connector!Side
        /\ \A s \in Connector!Side : DOMAIN c[s] = ConFields /\ NoSession(c[s]) /\ ~c[s].has
    BY DEF Connector!NewConnector, Connector!NoConnector, ConFields, NoSession
  <1>5. /\ IsEc(new) /\ new.con = c /\ new.racing = racing /\ new.connector = TRUE
        /\ new.answers = 0 /\ new.tried = FALSE /\ new.delay = "none" /\ ~new.finalizer
        /\ new.asserted = TRUE
    <2> HIDE DEF c
    <2>0. new = [all EXCEPT !.con = c, !.racing = racing, !.connector = TRUE,
                            !.answers = 0, !.connects = @ + 1]
      BY DEF c
    <2>1. QED
      BY <1>3, <1>4, <2>0, ZenonT(40) DEF IsEc, EcFields
  <1> HIDE DEF c, new
  <1>6. Race([new EXCEPT !.fsm = "CONNECTING"])
    BY <1>4, <1>5 DEF Race, IsEc, EcFields, NoSession, Connector!Side
  <1> DEFINE started == [[new EXCEPT !.con["main"].fsm = "CONNECTING", !.con["main"].up = "opening"]
                           EXCEPT !.fsm = "CONNECTING"]
  <1>7. Race(started) /\ (racing => Race([started EXCEPT !.delay = "timer"]))
    <2>1. /\ IsEc(started) /\ started.racing = racing /\ started.connector = TRUE
          /\ started.answers = 0 /\ started.tried = FALSE /\ started.delay = "none"
          /\ ~started.finalizer /\ started.asserted = TRUE
          /\ started.con["fallback"] = c["fallback"] /\ started.con["main"].result = c["main"].result
      BY <1>4, <1>5 DEF IsEc, EcFields, ConFields, Connector!Side
    <2> HIDE DEF started
    <2>2. Race(started)
      BY <1>4, <2>1 DEF Race, NoSession, Connector!Side
    <2>3. ASSUME racing PROVE Race([started EXCEPT !.delay = "timer"])
      <3> DEFINE x == [started EXCEPT !.delay = "timer"]
      <3>1. /\ IsEc(x) /\ x.racing = started.racing /\ x.connector = started.connector
            /\ x.answers = started.answers /\ x.tried = started.tried /\ x.delay = "timer"
            /\ x.finalizer = started.finalizer /\ x.asserted = started.asserted /\ x.con = started.con
        BY <2>1, ZenonT(40) DEF IsEc, EcFields
      <3> HIDE DEF x
      <3>2. Race(x)
        BY <1>4, <2>1, <2>2, <2>3, <3>1 DEF Race, NoSession, Connector!Side
      <3>3. QED
        BY <3>2 DEF x
    <2>4. QED
      BY <2>2, <2>3
  <1>8. /\ opens => Started(racing, opens) = started
        /\ ~opens => Started(racing, opens) = [new EXCEPT !.fsm = "CONNECTING"]
    <2>1. New(racing) = new
      BY DEF new
    <2> HIDE DEF New
    <2>2. QED
      BY <2>1, Zenon DEF Connector!connect
  <1> DEFINE refused == [new EXCEPT !.fsm = "CONNECTING"]
  <1>9. /\ refused.racing = racing /\ refused.answers = 0 /\ refused.connector = TRUE
        /\ ~refused.finalizer
    BY <1>5 DEF IsEc, EcFields
  <1> HIDE DEF Started, started, refused
  <1>10. Race(Going(racing, opens))
    <2>1. CASE ~racing
      BY <1>6, <1>7, <1>8, <2>1 DEF refused
    <2>2. CASE racing /\ opens
      BY <1>7, <1>8, <2>2, ZenonT(40)
    <2>3. CASE racing /\ ~opens
      <3>1. Going(racing, opens) = Connector!handle_connect_result(refused, "main", "failed", "none")
        BY <1>8, <2>3, ZenonT(40) DEF refused
      <3>2. "main" \in Connector!Side /\ Race(refused)
        BY <1>6 DEF Connector!Side, refused
      <3>3. QED
        BY <1>9, <2>3, <3>1, <3>2, ResultKeeps, ZenonT(40)
    <2>4. QED
      BY <2>1, <2>2, <2>3
  <1> HIDE DEF Going
  <1>11. QED
    BY <1>2, <1>10, DisconnectKeeps, ZenonT(40)

\* The invariant of the connect procedure.
ConnectorInv == Race(ec)

\* Every step of the client keeps it: of a connector, or of another component.
LEMMA RaceStep == ConnectorInv /\ [NextAll]_allVars => ConnectorInv'
  <1> SUFFICES ASSUME Race(ec), [NextAll]_allVars PROVE Race(ec')
    BY DEF ConnectorInv
  <1>1. CASE Connector!Next
    BY <1>1, ConnectStep, ClientSteps, RaceSteps, AttemptSteps DEF Connector!Next
  <1>2. CASE UNCHANGED ec
    BY <1>2
  <1>3. QED
    BY <1>1, <1>2 DEF NextAll, allVars, InConnector, InPool, InMux, InLocal, InHttp2, InHttp3

\* Whoever wins the race of the connectors, the client gets one answer and no
\* session is left behind (FallbackableUpstreamConnector::handle_connect_result),
\* for any number of connect procedures.
THEOREM OneSessionAlwaysWins == SpecAll => []OneSessionWins
  <1>1. InitAll => ConnectorInv
    BY ConnectorInit DEF InitAll, ConnectorInv
  <1>2. ConnectorInv => OneSessionWins
    BY DEF ConnectorInv, Race, NoSession, OneSessionWins, Connector!OneAnswer, Connector!NoSessionLeft
  <1>3. QED
    BY <1>1, <1>2, RaceStep, PTL DEF SpecAll
================================================================================
