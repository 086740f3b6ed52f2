------------------------------ MODULE DnsClient ------------------------------
(***************************************************************************)
(* The DNS client that forwards queries to the local DNS proxy             *)
(* (core/src/dns_client.cpp), together with the map its owner keeps from   *)
(* request ids to connections (core/src/dns_handler.cpp, send_request and  *)
(* client_handler).  Queries go out over a UDP socket that always exists   *)
(* or over one TCP socket that is connected on demand; queries that the    *)
(* TCP socket cannot take are deferred.  A deadline is the number of the   *)
(* call of send that set it: the timeout is the same for all queries, so   *)
(* deadlines are ordered as the calls were.                                *)
(***************************************************************************)
EXTENDS Naturals, FiniteSets

CONSTANTS IdSpace,   \* ids wrap modulo this number (2^16 in the code)
          MaxSends   \* bound on calls of send

VARIABLES dc,        \* the DnsClient object
          owner      \* keys of the owner's upstream_conn_id map

vars == <<dc, owner>>

(* tcp: the TCP socket; writable: tcp_socket_available_to_write; flight    *)
(* (m_original_id_by_request_id): ids sent and not answered, with the      *)
(* socket they left by; by_deadline (m_request_id_by_deadline) and         *)
(* deferred (m_deferred_request_id_by_deadline): <<deadline, id>> pairs;   *)
(* timer: evtimer_pending.                                                 *)
Init == /\ dc = [tcp |-> "none", writable |-> TRUE, flight |-> {}, by_deadline |-> {},
                 deferred |-> {}, sent |-> 0, timer |-> FALSE]
        /\ owner = {}

Ids(pairs) == {p[2] : p \in pairs}
InFlight(d) == {r.id : r \in d.flight}

(* connect_socket: the connect call may fail at once, and then no socket   *)
(* is left.                                                                *)
connect_socket(d) == {[d EXCEPT !.tcp = "connecting"], [d EXCEPT !.tcp = "none"]}

(* One query over TCP: the socket takes it, or it is not taken and, with   *)
(* no socket at all, a connection is started.                              *)
TakesTcp(d) == d.tcp = "up" /\ d.writable

(* send_deferred_requests: the queries are offered in the order of their   *)
(* deadlines until the socket stops taking them.                           *)
send_deferred_requests(d, room) ==
  LET taken == {p \in d.deferred : Cardinality({q \in d.deferred : q[1] < p[1]}) < room}
  IN  IF d.tcp = "up" /\ d.writable
      THEN [d EXCEPT !.deferred = @ \ taken, !.by_deadline = @ \cup taken,
                     !.flight = @ \cup {[id |-> p[2], tcp |-> TRUE] : p \in taken},
                     !.writable = taken = d.deferred]
      ELSE d

(* DnsClient::send called by DnsHandler::send_request, which records the   *)
(* id under the connection only when the call returns one.                 *)
send(tcp) ==
  LET id == dc.sent % IdSpace
      counted == [dc EXCEPT !.sent = @ + 1]
      due == <<dc.sent, id>>
      armed(d) == [d EXCEPT !.timer = TRUE]
      flying(d) == armed([d EXCEPT !.by_deadline = @ \cup {due}, !.flight = @ \cup {[id |-> id, tcp |-> tcp]}])
      waiting(d) == armed([d EXCEPT !.deferred = @ \cup {due}])
  IN  /\ dc.sent < MaxSends
      /\ IF id \in InFlight(dc) \cup Ids(dc.deferred)
         THEN dc' = counted /\ UNCHANGED owner
         ELSE /\ owner' = owner \cup {id}
              /\ IF ~tcp \/ TakesTcp(dc) THEN dc' = flying(counted)
                 ELSE \E d \in IF dc.tcp = "none" THEN connect_socket(counted) ELSE {counted} :
                        dc' = waiting(d)

(* A reply over the socket the query left by: the id is forgotten, its     *)
(* deadline entry stays until the timer.                                   *)
on_read(id) ==
  /\ \E r \in dc.flight : r.id = id /\ (r.tcp => dc.tcp = "up")
  /\ dc' = [dc EXCEPT !.flight = {r \in @ : r.id # id}]
  /\ owner' = owner \ {id}

(* on_connected without an error.                                          *)
on_connected ==
  /\ dc.tcp = "connecting"
  /\ \E room \in 0..MaxSends :
       dc' = send_deferred_requests([dc EXCEPT !.tcp = "up", !.writable = TRUE], room)
  /\ UNCHANGED owner

(* on_connected with an error: the deferred queries fail.                  *)
ConnectFails ==
  /\ dc.tcp = "connecting"
  /\ dc' = [dc EXCEPT !.tcp = "none", !.deferred = {}]
  /\ owner' = owner \ Ids(dc.deferred)

on_write_flush ==
  /\ dc.tcp = "up" /\ ~dc.writable
  /\ \E room \in 0..MaxSends : dc' = send_deferred_requests([dc EXCEPT !.writable = TRUE], room)
  /\ UNCHANGED owner

(* The deferred queries are left to wait: a plausible slip in the error    *)
(* path of on_tcp_read.                                                    *)
on_disconnected_Deferred ==
  /\ dc.tcp = "up"
  /\ LET failed == [dc EXCEPT !.tcp = "none", !.flight = {}, !.by_deadline = {}, !.deferred = {}]
     IN  dc' = failed
  /\ owner' = owner \ InFlight(dc)

(* on_tcp_read with nothing: end of file or an error on the connected      *)
(* socket.  Every query in flight fails, whichever socket it left by, and  *)
(* the deferred ones start a new connection.                               *)
on_disconnected ==
  /\ dc.tcp = "up"
  /\ LET failed == [dc EXCEPT !.tcp = "none", !.flight = {}, !.by_deadline = {}]
     IN  \E d \in IF dc.deferred # {} THEN connect_socket(failed) ELSE {failed} : dc' = d
  /\ owner' = owner \ InFlight(dc)

(* timer_handler, run when the deadlines up to now have passed.            *)
timer_handler(now) ==
  LET late(pairs) == {p \in pairs : p[1] <= now}
      expired == Ids(late(dc.by_deadline)) \cap InFlight(dc)
      dropped == Ids(late(dc.deferred))
      left == [dc EXCEPT !.by_deadline = @ \ late(@), !.deferred = @ \ late(@),
                         !.flight = {r \in @ : r.id \notin expired}]
  IN  /\ dc.timer
      /\ now < dc.sent
      /\ dc' = [left EXCEPT !.timer = left.by_deadline \cup left.deferred # {}]
      /\ owner' = owner \ (expired \cup dropped)

(* The client is replaced by a fresh one and the owner's map emptied       *)
(* (DnsHandler::start_dns_proxy).                                          *)
start_dns_proxy == /\ dc.sent > 0
                   /\ dc' = [tcp |-> "none", writable |-> TRUE, flight |-> {}, by_deadline |-> {},
                             deferred |-> {}, sent |-> 0, timer |-> FALSE]
                   /\ owner' = {}

Next == \/ \E tcp \in BOOLEAN : send(tcp)
        \/ \E id \in 0..(IdSpace - 1) : on_read(id)
        \/ on_connected
        \/ ConnectFails
        \/ on_write_flush
        \/ on_disconnected
        \/ \E now \in 0..(MaxSends - 1) : timer_handler(now)
        \/ start_dns_proxy

(* Time passes, so the timer of the oldest deadline fires.                 *)
Expires == \E now \in 0..(MaxSends - 1) :
             timer_handler(now) /\ \E p \in dc.by_deadline \cup dc.deferred : p[1] <= now
Fairness == WF_vars(Expires)
Spec == Init /\ [][Next]_vars /\ Fairness

-----------------------------------------------------------------------------
(* The owner waits for exactly the queries the client still holds: a       *)
(* reply always finds its connection (assert(!node.empty()) in             *)
(* client_handler) and a new id is always free in the owner's map          *)
(* (assert_use(placed) in send_request), through timeouts, reconnections,  *)
(* wrapped ids and replaced clients.                                       *)
OwnerWaitsForHeld == owner = InFlight(dc) \cup Ids(dc.deferred)

Waiting(id) == id \in owner

(* Every query is answered, with a reply or with a failure.                *)
EveryQueryEnds == \A id \in 0..(IdSpace - 1) : Waiting(id) ~> ~Waiting(id)

(* What on_connected asserts when the connection fails                     *)
(* (assert(m_original_id_by_request_id.empty()), dns_client.cpp:185): no   *)
(* query is in flight while the TCP socket connects.                       *)
(* Does not hold.                                                          *)
NothingInFlightWhileConnecting == dc.tcp = "connecting" => dc.flight = {}
=============================================================================
