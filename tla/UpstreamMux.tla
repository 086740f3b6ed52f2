------------------------------- MODULE UpstreamMux -------------------------------
(***************************************************************************)
(* The client's HTTP/2 sessions behind one upstream                         *)
(* (upstream_multiplexer.cpp): connections are spread over a pool of child   *)
(* upstreams, and wait while the child that was chosen opens its session.    *)
(*                                                                         *)
(* The children are seen through the interface of multiplexable_upstream.h; *)
(* Http2Upstream models one.  A child that closes its session reports every  *)
(* connection it holds as closed first.                                      *)
(***************************************************************************)
EXTENDS Naturals, FiniteSets

CONSTANTS
  Conns,      \* identifiers upstream_conn_id_generator gives out
  Children,   \* identifiers next_upstream_id gives out
  Threshold,  \* NEW_UPSTREAM_CONNECTIONS_NUM_THRESHOLD
  Cap         \* DEFAULT_UPSTREAMS_NUM

VARIABLES
  child,    \* m_upstreams_pool: the state of each child
  conn,     \* m_connections and m_pending_connections
  session   \* m_session_open, what the owner was told last, m_pending_error

vars == <<child, conn, session>>

\* `at' is unused, pending, held (in m_connections), refused (open_connection
\* returned NON_ID), ended (a terminal event was raised) or lost; `on' is
\* upstream_id, `told' the events raised to the owner of the multiplexer.
NoConn == [at |-> "unused", on |-> "none", opened |-> FALSE, ends |-> 0, closing |-> FALSE]

Init ==
  /\ child = [u \in Children |-> "unused"]
  /\ conn = [c \in Conns |-> NoConn]
  /\ session = [open |-> FALSE, told |-> "none"]

Pool == {u \in Children : child[u] \in {"opening", "opened"}}
Pending(u) == {c \in Conns : conn[c].at = "pending" /\ conn[c].on = u}
Held(u) == {c \in Conns : conn[c].at = "held" /\ conn[c].on = u}
connections_num_by_upstream(u) == Cardinality(Held(u)) + Cardinality(Pending(u))

End(c) == [c EXCEPT !.at = "ended", !.ends = @ + 1]
EndAll(set) == [c \in Conns |-> IF c \in set THEN End(conn[c]) ELSE conn[c]]
On(c, at, u) == [conn EXCEPT ![c] = [NoConn EXCEPT !.at = at, !.on = u]]
Refused(c) == [conn EXCEPT ![c].at = "refused"]

--------------------------------------------------------------------------------

\* An underloaded child other than ignored, else (with allow_underflow, or at
\* the cap) one that holds the fewest connections.  The pool is a hash map: its
\* order is arbitrary.
select_existing_upstream(ignored, allow_underflow) ==
  LET others == Pool \ ignored
      free == {u \in others : connections_num_by_upstream(u) < Threshold}
      least == {u \in others : \A v \in others : Cardinality(Held(u)) <= Cardinality(Held(v))}
  IN  IF free # {} THEN free
      ELSE IF allow_underflow \/ Cardinality(Pool) = Cap THEN least ELSE {}

Fresh == {u \in Children : child[u] = "unused"}

\* The outcomes of opening connection c on child u of the pool.
OpenOn(u, c) ==
  IF child[u] = "opening" THEN {On(c, "pending", u)} ELSE {On(c, "held", u), Refused(c)}

open_session ==
  /\ session.told = "none" /\ Pool = {} /\ Fresh # {}
  /\ LET u == CHOOSE u \in Fresh : TRUE
     IN  child' = [child EXCEPT ![u] = "opening"]
  /\ session' = [session EXCEPT !.told = "opening"]
  /\ UNCHANGED conn

\* A connection is asked for when the session was reported open.
open_connection(c) ==
  /\ conn[c].at = "unused" /\ session.told = "opened"
  /\ IF Pool = {} THEN conn' = Refused(c) /\ UNCHANGED child
     ELSE LET existing == select_existing_upstream({}, FALSE)
          IN  \/ \E u \in existing : conn' \in OpenOn(u, c) /\ UNCHANGED child
              \/ /\ existing = {} /\ Fresh # {}
                 /\ LET u == CHOOSE u \in Fresh : TRUE
                    IN  \/ /\ child' = [child EXCEPT ![u] = "opening"]
                           /\ conn' = On(c, "pending", u)
                        \/ \E v \in select_existing_upstream({u}, TRUE) :
                             conn' \in OpenOn(v, c) /\ UNCHANGED child
  /\ UNCHANGED session

\* Only m_connections is searched: closing a pending connection does nothing.
get_upstream_by_conn(c) == IF conn[c].at = "held" THEN Pool \cap {conn[c].on} ELSE {}

close_connection(c) ==
  /\ conn[c].at \in {"pending", "held"} /\ ~conn[c].closing
  /\ conn' = [conn EXCEPT ![c].closing = get_upstream_by_conn(c) # {}]
  /\ UNCHANGED <<child, session>>

close_session ==
  /\ session.told \in {"opening", "opened"}
  /\ child' = [u \in Children |-> IF u \in Pool THEN "closed" ELSE child[u]]
  /\ conn' = EndAll({c \in Conns : conn[c].at \in {"pending", "held"}})
  /\ session' = [session EXCEPT !.told = "released"]

--------------------------------------------------------------------------------
(* child_upstream_handler.                                                   *)

close_upstreams(closed, failure) ==
  /\ child' = [u \in Children |-> IF u \in closed THEN "closed" ELSE child[u]]
  /\ session' = IF Pool \ closed = {} THEN [open |-> FALSE, told |-> failure] ELSE session

\* A pending connection opens on the child, or else on a child that happens to
\* come first in the pool.  If that one is opening its session the connection
\* is kept by neither.
proceed_pending_connection(c, u, first) ==
  {[conn[c] EXCEPT !.at = "held"]}
    \cup IF first # u /\ child[first] = "opening" THEN {[conn[c] EXCEPT !.at = "lost"]}
         ELSE {[conn[c] EXCEPT !.at = "held", !.on = first], End(conn[c])}

ChildOpened(u) ==
  /\ child[u] = "opening"
  /\ child' = [child EXCEPT ![u] = "opened"]
  /\ session' = [open |-> TRUE, told |-> "opened"]
  /\ \E first \in Pool :
       \E outcome \in [Pending(u) -> UNION {proceed_pending_connection(c, u, first) : c \in Pending(u)}] :
         /\ \A c \in Pending(u) : outcome[c] \in proceed_pending_connection(c, u, first)
         /\ conn' = [c \in Conns |-> IF c \in Pending(u) THEN outcome[c] ELSE conn[c]]

ChildClosed_Forgets(u) ==
  /\ u \in Pool
  /\ conn' = EndAll(Pending(u))
  /\ close_upstreams({u}, "closed")
ChildClosed(u) ==
  /\ u \in Pool
  /\ conn' = EndAll(Held(u) \cup Pending(u))
  /\ close_upstreams({u}, "closed")

\* SERVER_EVENT_ERROR with NON_ID.  Nobody answers the pending connections.
ChildError(u) ==
  /\ u \in Pool
  /\ conn' = EndAll(Held(u))
  /\ close_upstreams({u}, "closed")

ChildFatalError(u) ==
  /\ u \in Pool
  /\ conn' = EndAll(UNION {Held(v) : v \in Pool})
  /\ close_upstreams(Pool, "error")

ConnectionOpened(c) ==
  /\ conn[c].at = "held" /\ ~conn[c].opened
  /\ conn' = [conn EXCEPT ![c].opened = TRUE]
  /\ UNCHANGED <<child, session>>

\* SERVER_EVENT_CONNECTION_CLOSED, and SERVER_EVENT_ERROR of one connection.
ConnectionClosed(c) ==
  /\ conn[c].at = "held"
  /\ conn' = [conn EXCEPT ![c] = End(conn[c])]
  /\ UNCHANGED <<child, session>>

Next ==
  \/ open_session \/ close_session
  \/ \E c \in Conns : \/ open_connection(c) \/ close_connection(c)
                      \/ ConnectionOpened(c) \/ ConnectionClosed(c)
  \/ \E u \in Children : ChildOpened(u) \/ ChildClosed(u) \/ ChildError(u) \/ ChildFatalError(u)

Spec == Init /\ [][Next]_vars

--------------------------------------------------------------------------------
(* Properties.                                                               *)

\* What the multiplexer keeps about its connections matches its pool after any
\* order of openings, closings and session failures: an entry of m_connections
\* belongs to a child whose session is open, and a connection gets one terminal
\* event and is then forgotten.
ConnectionsMatchPool ==
  \A c \in Conns :
    /\ conn[c].at = "held" => child[conn[c].on] = "opened"
    /\ conn[c].ends = IF conn[c].at = "ended" THEN 1 ELSE 0

\* The owner believes in a session exactly as long as some child is in the pool
\* (close_upstream reports the end when the last one goes).
SessionMatchesPool == session.told \in {"opening", "opened"} <=> Pool # {}

\* server_upstream.h: the result of an opened connection is raised, with
\* SERVER_EVENT_CONNECTION_OPENED or SERVER_EVENT_ERROR.  A connection that
\* waits for a session waits for a child that is there to open it.
\* Does not hold (upstream_multiplexer.cpp:373).
PendingCanBeAnswered ==
  session.told = "opened" =>
    \A c \in Conns : conn[c].at # "lost" /\ (conn[c].at = "pending" => child[conn[c].on] = "opening")

\* The assertion of on_icmp_request: while the owner has a session, a child with
\* an open session exists.
\* Does not hold: the only child left may still be opening.
IcmpHasUpstream == session.told = "opened" => \E u \in Children : child[u] = "opened"
===============================================================================
