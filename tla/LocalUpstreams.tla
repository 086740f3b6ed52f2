------------------------------ MODULE LocalUpstreams ------------------------------
(***************************************************************************)
(* The two upstreams of the client that open no session with an endpoint:    *)
(* direct_upstream.cpp, which sends bypassed connections through sockets of  *)
(* its own, and fake_upstream.cpp, which accepts and closes connections to   *)
(* learn where they go.                                                      *)
(*                                                                         *)
(* Each puts what it must report later in sets that one task works off:      *)
(* `pending' is m_opening_connections, m_closing_connections and the task.   *)
(***************************************************************************)
EXTENDS Naturals, Sequences, FiniteSets

CONSTANTS
  Tcp, Udp,   \* connections of the direct upstream
  Fake,       \* connections of the fake upstream
  Pings,      \* emulated ICMP requests
  Peers       \* their peers, "v4" or "v6"

VARIABLES
  conn,      \* whether the upstream holds the connection, and the events raised
  pending,   \* per upstream: opening, closing, task
  fake_open, \* m_session_open of the fake upstream
  ping       \* m_icmp_requests: the peer of each attempt, and the replies to it

vars == <<conn, pending, fake_open, ping>>

LocalConns == Tcp \cup Udp \cup Fake
Up(c) == IF c \in Fake THEN "fake" ELSE "direct"
Nothing == [opening |-> {}, closing |-> {}, task |-> FALSE]

Init ==
  /\ conn = [c \in LocalConns |-> [held |-> FALSE, told |-> <<>>, asked |-> FALSE]]
  /\ pending = [u \in {"direct", "fake"} |-> Nothing]
  /\ fake_open = FALSE
  /\ ping = [p \in Pings |-> [peer |-> "none", replies |-> <<>>]]

\* The handler of the owner is called with event e for the connections of set.
Raise(k, set, e) == [c \in LocalConns |-> IF c \in set THEN [k[c] EXCEPT !.told = Append(@, e)] ELSE k[c]]
Drop(k, set) == [c \in LocalConns |-> IF c \in set THEN [k[c] EXCEPT !.held = FALSE] ELSE k[c]]

Submit(u, field, c) ==
  [pending EXCEPT ![u] = [[@ EXCEPT ![field] = @ \cup {c}] EXCEPT !.task = TRUE]]

--------------------------------------------------------------------------------
(* The direct upstream.                                                      *)

open_tcp_connection(c) ==
  /\ ~conn[c].held /\ ~conn[c].asked
  /\ conn' = [conn EXCEPT ![c].held = TRUE, ![c].asked = TRUE]
  /\ UNCHANGED <<pending, fake_open, ping>>

open_udp_connection(c) ==
  /\ ~conn[c].held /\ ~conn[c].asked
  /\ conn' = [conn EXCEPT ![c].held = TRUE, ![c].asked = TRUE]
  /\ pending' = Submit("direct", "opening", c)
  /\ UNCHANGED <<fake_open, ping>>

\* A connection that is not there any more is closed in silence.
CloseNow(k, set) ==
  LET present == {c \in set : k[c].held} IN Drop(Raise(k, present, "closed"), present)

close_connection_NoTask(c, async) ==
  /\ conn[c].asked
  /\ LET left == [pending EXCEPT !["direct"].opening = @ \ {c}]
     IN  IF async
         THEN pending' = [left EXCEPT !["direct"].closing = @ \cup {c}] /\ UNCHANGED conn
         ELSE /\ conn' = CloseNow(conn, {c})
              /\ pending' = [left EXCEPT !["direct"].closing = @ \ {c}]
  /\ UNCHANGED <<fake_open, ping>>
close_connection(c, async) ==
  /\ conn[c].asked
  /\ LET left == [pending EXCEPT !["direct"].opening = @ \ {c}]
     IN  IF async
         THEN /\ pending' = [Submit("direct", "closing", c) EXCEPT !["direct"].opening = @ \ {c}]
              /\ UNCHANGED conn
         ELSE /\ conn' = CloseNow(conn, {c})
              /\ pending' = [left EXCEPT !["direct"].closing = @ \ {c}]
  /\ UNCHANGED <<fake_open, ping>>

\* TCP_SOCKET_EVENT_CONNECTED.
TcpConnected(c) ==
  /\ conn[c].held /\ conn[c].told = <<>>
  /\ conn' = Raise(conn, {c}, "opened")
  /\ UNCHANGED <<pending, fake_open, ping>>

\* EOF of a TCP connection, an error of its socket, a timeout of a UDP one (which
\* takes longer than the task that reports its opening).
SocketEnds(c) ==
  /\ conn[c].held /\ c \notin pending["direct"].opening
  /\ \E e \in {"closed", "error"} : conn' = Drop(Raise(conn, {c}, e), {c})
  /\ UNCHANGED <<pending, fake_open, ping>>

\* The owner's refusal of a chunk, and a socket that cannot be drained.
ReadFails(c) ==
  /\ conn[c].held /\ conn[c].told = <<"opened">>
  /\ close_connection(c, FALSE)

close_session ==
  /\ conn' = CloseNow(conn, Tcp \cup Udp)
  /\ pending' = [pending EXCEPT !["direct"].opening = @ \ {c \in Tcp \cup Udp : conn[c].held},
                                !["direct"].closing = @ \ {c \in Tcp \cup Udp : conn[c].held}]
  /\ ping' = [p \in Pings |-> [ping[p] EXCEPT !.peer = "none"]]
  /\ UNCHANGED fake_open

\* Closings come before openings.
on_async_task ==
  /\ pending["direct"].task
  /\ LET p == pending["direct"]
     IN  conn' = Raise(CloseNow(conn, p.closing), p.opening \ p.closing, "opened")
  /\ pending' = [pending EXCEPT !["direct"] = Nothing]
  /\ UNCHANGED <<fake_open, ping>>

--------------------------------------------------------------------------------
(* An emulated ping is a TCP connection to the peer.                          *)

on_icmp_request(p) ==
  /\ ping[p].peer = "none" /\ ping[p].replies = <<>>
  /\ \E v \in Peers : ping' = [ping EXCEPT ![p].peer = v]
  /\ UNCHANGED <<conn, pending, fake_open>>

Unreachable(v) == IF v = "v4" THEN "icmp_unreachable" ELSE "icmpv6_unreachable"
Exceeded(v) == IF v = "v4" THEN "icmp_time_exceeded" ELSE "icmpv6_time_exceeded"
update_reply_on_error(v, code) ==
  CASE code \in {"EHOSTUNREACH", "ENETUNREACH"} -> Unreachable(v)
    [] code = "ETIMEDOUT" -> Exceeded(v)
    [] OTHER -> "drop"

cancel_icmp_request(p) == [ping EXCEPT ![p].peer = "none"]

icmp_socket_handler(p) ==
  /\ ping[p].peer # "none"
  /\ \E code \in {"connected", "EHOSTUNREACH", "ETIMEDOUT", "ECONNREFUSED"} :
       LET v == ping[p].peer
           reply == IF code = "connected" THEN IF v = "v4" THEN "icmp_echo" ELSE "icmpv6_echo"
                    ELSE update_reply_on_error(v, code)
       IN  ping' = [cancel_icmp_request(p) EXCEPT ![p].replies = Append(@, reply)]
  /\ UNCHANGED <<conn, pending, fake_open>>

--------------------------------------------------------------------------------
(* The fake upstream keeps no table: the owner knows its connections.        *)

FakeOpenSession ==
  /\ ~fake_open /\ fake_open' = TRUE
  /\ UNCHANGED <<conn, pending, ping>>

FakeCloseSession ==
  /\ fake_open /\ fake_open' = FALSE
  /\ LET known == pending["fake"].opening \cup pending["fake"].closing
     IN  conn' = Drop(Raise(conn, known, "closed"), known)
  /\ pending' = [pending EXCEPT !["fake"] = Nothing]
  /\ UNCHANGED ping

FakeOpenConnection(c) ==
  /\ fake_open /\ ~conn[c].asked
  /\ conn' = [conn EXCEPT ![c].held = TRUE, ![c].asked = TRUE]
  /\ pending' = Submit("fake", "opening", c)
  /\ UNCHANGED <<fake_open, ping>>

\* The owner closes a connection it has, and does so once.
FakeCloseConnection(c, async) ==
  /\ conn[c].held /\ c \notin pending["fake"].closing
  /\ LET left == [pending EXCEPT !["fake"].opening = @ \ {c}]
     IN  IF ~async THEN conn' = Drop(Raise(conn, {c}, "closed"), {c}) /\ pending' = left
         ELSE /\ pending' = IF fake_open
                            THEN [Submit("fake", "closing", c) EXCEPT !["fake"].opening = @ \ {c}] ELSE left
              /\ UNCHANGED conn
  /\ UNCHANGED <<fake_open, ping>>

\* Openings come before closings.
FakeAsyncTask ==
  /\ pending["fake"].task
  /\ LET p == pending["fake"]
     IN  conn' = Drop(Raise(Raise(conn, p.opening, "opened"), p.closing, "closed"), p.closing)
  /\ pending' = [pending EXCEPT !["fake"] = Nothing]
  /\ UNCHANGED <<fake_open, ping>>

Next ==
  \/ \E c \in Tcp : open_tcp_connection(c) \/ TcpConnected(c) \/ ReadFails(c)
  \/ \E c \in Udp : open_udp_connection(c)
  \/ \E c \in Tcp \cup Udp : SocketEnds(c) \/ \E async \in BOOLEAN : close_connection(c, async)
  \/ close_session \/ on_async_task
  \/ \E p \in Pings : on_icmp_request(p) \/ icmp_socket_handler(p)
  \/ FakeOpenSession \/ FakeCloseSession \/ FakeAsyncTask
  \/ \E c \in Fake : FakeOpenConnection(c) \/ \E async \in BOOLEAN : FakeCloseConnection(c, async)

Spec == Init /\ [][Next]_vars /\ WF_vars(on_async_task) /\ WF_vars(FakeAsyncTask)

--------------------------------------------------------------------------------
(* Properties.                                                               *)

\* Whatever the order of opening, closing, socket events and the task: a
\* connection is reported opened at most once, ended at most once, and never
\* opened after it ended.
ReportedInOrder ==
  \A c \in LocalConns :
    conn[c].told \in {<<>>, <<"opened">>} \cup {s \o <<e>> : s \in {<<>>, <<"opened">>}, e \in {"closed", "error"}}

\* A ping gets one reply, and one that its address family knows.
OneReplyPerPing ==
  \A p \in Pings :
    /\ Len(ping[p].replies) <= 1
    /\ ping[p].peer # "none" => ping[p].replies = <<>>

\* What the direct upstream was asked to close later, it reports as ended.
CloseIsAnswered ==
  \A c \in Tcp \cup Udp : c \in pending["direct"].closing ~> ~conn[c].held
===============================================================================
