----------------------------- MODULE Http3Upstream -----------------------------
(* The HTTP/3 session with the endpoint (core/src/http3_upstream.cpp): the QUIC client with
   its callbacks, the TCP connections that are its streams, connect requests that wait for
   a free stream, closes put off to a task, and the health check. The QUIC client itself
   is a library: it may report a close from its timer, as quic_timer_callback says. *)
EXTENDS Naturals, Sequences, FiniteSets, TLC

CONSTANTS Conns,  \* identifiers of connections
          MaxData \* bytes the endpoint sends on one of them

VARIABLES h3, \* the session: m_state, m_in_handler, m_closed, m_pending_session_error, tasks
          qc  \* m_tcp_connections, m_retriable_tcp_requests, m_closing_connections, and the
              \* events raised for each connection; `sync' is whether the tunnel closed it
              \* synchronously, `lost' what could not be kept

vars == <<h3, qc>>

NoHealthCheck == [on |-> FALSE, stream |-> FALSE]

NewConn == [at |-> "unused", est |-> FALSE, read |-> FALSE, stream_closed |-> FALSE, error |-> FALSE,
            unread |-> 0, rcv |-> 0, out |-> 0, lost |-> 0, closing |-> FALSE, cut |-> FALSE,
            sync |-> FALSE, events |-> <<>>]

Idle == [st |-> "IDLE", in |-> FALSE, closed |-> FALSE, err |-> "none", cert |-> FALSE, handoff |-> FALSE,
         read_task |-> FALSE, close_task |-> FALSE, receive_task |-> FALSE, hc |-> NoHealthCheck]

Init == h3 = [told |-> "none"] @@ Idle /\ qc = [c \in Conns |-> NewConn]

Held == {c \in Conns : qc[c].at = "held"}
Retriable == {c \in Conns : qc[c].at = "retriable"}

--------------------------------------------------------------------------------
(* Connections. *)

clean_tcp_connection_data(k) ==
  [k EXCEPT !.closing = FALSE, !.at = IF @ \in {"held", "retriable"} THEN "gone" ELSE @, !.unread = 0]

Ends(k, e) == clean_tcp_connection_data([k EXCEPT !.events = Append(@, e)])

\* The stream is reset if the connection has one. The tunnel is told even of a connection
\* that is not in the tables any more.
close_tcp_connection(k) == Ends([k EXCEPT !.cut = TRUE], "closed")

\* SERVER_EVENT_READ with n bytes: how many of them the tunnel took and whether reading is
\* on after its update_flow_control. A listener that took a part only reports no room: lwIP's
\* send buffer is full then (tcp_cm_send_data), and the SOCKS5 listener takes all.
ReadResults(n) == {r \in [took : 0..n, on : BOOLEAN] : r.on => r.took = n}

\* A record after the results of reading its pending data out: repeated until reading is
\* off or nothing is left.
read_out_pending_data(k) ==
  IF ~k.read \/ k.unread = 0 THEN {k}
  ELSE {[k EXCEPT !.out = @ + r.took, !.unread = @ - r.took, !.read = r.on] :
          r \in ReadResults(k.unread)}

process_pending_data(k) ==
  {IF u.stream_closed /\ u.unread = 0 THEN Ends(u, "closed") ELSE u : u \in read_out_pending_data(k)}
  \cup (IF k.read /\ k.unread > 0 THEN {close_tcp_connection(k)} ELSE {})

--------------------------------------------------------------------------------
(* The session. *)

\* Every connection is closed and reported, then everything is reset.
close_session(kept) ==
  [c \in Conns |-> IF kept[c].at \in {"held", "retriable"} \/ kept[c].closing
                   THEN close_tcp_connection(kept[c]) ELSE kept[c]]

\* close_session_inner outside the handler.
CloseWith(err) ==
  /\ h3' = [told |-> IF h3.cert THEN "cert" ELSE IF err = "none" THEN "closed" ELSE err] @@ Idle
  /\ qc' = close_session(qc)

\* A connection pre-established by the ping is handed off, or a new one is made.
open_session ==
  /\ h3.st = "IDLE"
  /\ \E handoff \in BOOLEAN : h3' = [h3 EXCEPT !.st = "ESTABLISHING", !.handoff = handoff, !.told = "none"]
  /\ UNCHANGED qc

CloseSession == h3.st # "IDLE" /\ ~h3.in /\ h3' = [told |-> h3.told] @@ Idle /\ qc' = close_session(qc)

\* UDP_SOCKET_EVENT_READABLE, after the task of a handoff: each datagram cancels the health check.
Readable ==
  /\ h3.st # "IDLE" /\ ~h3.in /\ ~h3.handoff
  /\ h3' = [h3 EXCEPT !.in = TRUE, !.hc = NoHealthCheck]
  /\ UNCHANGED qc

\* The task of a handoff feeds the first datagram, or fails to.
process_handoff_packet ==
  /\ h3.handoff /\ ~h3.in
  /\ \/ h3' = [h3 EXCEPT !.in = TRUE, !.handoff = FALSE] /\ UNCHANGED qc
     \/ CloseWith("error")

HandlerEnds ==
  /\ h3.in
  /\ IF h3.closed THEN CloseWith(h3.err)
     ELSE h3' = [h3 EXCEPT !.in = FALSE, !.receive_task = TRUE] /\ UNCHANGED qc

on_handshake_completed ==
  /\ h3.in /\ h3.st = "ESTABLISHING" /\ ~h3.closed
  /\ h3' = [h3 EXCEPT !.st = "ESTABLISHED", !.told = "opened"]
  /\ UNCHANGED qc

verify_callback ==
  /\ h3.in /\ h3.st = "ESTABLISHING" /\ ~h3.closed
  /\ h3' = [h3 EXCEPT !.cert = TRUE, !.closed = TRUE, !.err = "error"]
  /\ UNCHANGED qc

\* on_close inside the handler, and 407 on any stream.
on_close ==
  /\ h3.in
  /\ \E e \in {"none", "error", "auth"} : h3' = [h3 EXCEPT !.closed = TRUE, !.err = e]
  /\ UNCHANGED qc

\* UDP_SOCKET_EVENT_TIMEOUT before the session is established. Later, and when the QUIC
\* timer fires, the client may report that the connection is lost.
Timeout ==
  /\ h3.st # "IDLE" /\ ~h3.in
  /\ \/ h3.st = "ESTABLISHING" /\ CloseWith("none")
     \/ h3.st = "ESTABLISHED" /\ CloseWith("error")

--------------------------------------------------------------------------------
(* Streams. *)

\* A connect request gets a stream, or is to be retried.
open_connection(c) ==
  /\ h3.st = "ESTABLISHED" /\ ~h3.in /\ qc[c].at = "unused"
  /\ \E at \in {"held", "retriable"} : qc' = [qc EXCEPT ![c].at = at]
  /\ UNCHANGED h3

\* The synchronous close also puts the connection off to the task.
close_connection(c) ==
  /\ h3.st = "ESTABLISHED" /\ ~h3.in /\ qc[c].at \in {"held", "retriable"}
  /\ \E async \in BOOLEAN :
       qc' = [qc EXCEPT ![c] = [(IF async THEN @ ELSE close_tcp_connection(@))
                                  EXCEPT !.closing = TRUE, !.sync = ~async]]
  /\ h3' = [h3 EXCEPT !.close_task = TRUE]

CloseTask ==
  /\ h3.close_task /\ ~h3.in
  /\ h3' = [h3 EXCEPT !.close_task = FALSE]
  /\ qc' = [c \in Conns |-> IF qc[c].closing THEN close_tcp_connection(qc[c]) ELSE qc[c]]

handle_response(c) ==
  /\ h3.in /\ c \in Held /\ ~qc[c].est /\ ~qc[c].error /\ ~qc[c].stream_closed
  /\ qc' \in {[qc EXCEPT ![c].est = TRUE, ![c].events = Append(@, "opened")], [qc EXCEPT ![c].error = TRUE]}
  /\ UNCHANGED h3

\* What the buffer takes of n bytes: all, or nothing, and nobody looks at the result.
push_unread_data(k, n) == {[k EXCEPT !.unread = @ + n], [k EXCEPT !.lost = @ + n]}

\* Data goes to the tunnel unless some waits already; the rest is to be kept.
on_body(c) ==
  LET k == [qc[c] EXCEPT !.rcv = @ + 2]
  IN
  /\ h3.in /\ c \in Held /\ k.est /\ ~k.stream_closed /\ k.rcv <= MaxData
  /\ \/ /\ ~k.read \/ k.unread > 0
        /\ \E u \in push_unread_data(k, 2) : qc' = [qc EXCEPT ![c] = u]
     \/ /\ k.read /\ k.unread = 0
        /\ \/ qc' = [qc EXCEPT ![c] = close_tcp_connection(k)]
           \/ \E r \in ReadResults(2) :
                \E u \in push_unread_data([k EXCEPT !.out = @ + r.took, !.read = r.on], 2 - r.took) :
                  qc' = [qc EXCEPT ![c] = u]
  /\ UNCHANGED h3

\* The end of the stream waits for the data that the tunnel did not take.
on_stream_closed(c) ==
  /\ h3.in /\ c \in Held /\ ~qc[c].stream_closed
  /\ qc' = [qc EXCEPT ![c] = IF @.error THEN Ends(@, "error")
                             ELSE IF @.unread = 0 THEN Ends(@, "closed")
                             ELSE [@ EXCEPT !.stream_closed = TRUE]]
  /\ UNCHANGED h3

\* Nothing is done when reading is on already.
update_flow_control(c, on) ==
  /\ ~h3.in /\ c \in Held /\ qc[c].read # on
  /\ qc' = [qc EXCEPT ![c].read = on]
  /\ h3' = [h3 EXCEPT !.read_task = @ \/ (on /\ qc[c].unread > 0)]

complete_read ==
  /\ h3.read_task /\ ~h3.in
  /\ h3' = [h3 EXCEPT !.read_task = FALSE]
  /\ \E f \in [Conns -> UNION {process_pending_data(qc[c]) : c \in Conns} \cup {qc[c] : c \in Conns}] :
       /\ \A c \in Conns : f[c] \in IF c \in Held /\ qc[c].unread > 0 THEN process_pending_data(qc[c]) ELSE {qc[c]}
       /\ qc' = f

\* The task after a receive: requests that waited are sent, in some order, until one cannot
\* be; then the connections are polled.
retry_connect_requests(sent) == [c \in Conns |-> IF c \in sent THEN [qc[c] EXCEPT !.at = "held"] ELSE qc[c]]

poll_tcp_connections(kept, c) ==
  IF kept[c].at = "held" /\ kept[c].est /\ kept[c].read /\ ~kept[c].stream_closed /\ kept[c].unread > 0
  THEN process_pending_data(kept[c]) ELSE {kept[c]}

PostReceive ==
  /\ h3.receive_task /\ ~h3.in
  /\ h3' = [h3 EXCEPT !.receive_task = FALSE]
  /\ \E sent \in SUBSET Retriable :
       LET kept == retry_connect_requests(sent)
       IN  \E f \in [Conns -> UNION {poll_tcp_connections(kept, c) : c \in Conns}] :
             (\A c \in Conns : f[c] \in poll_tcp_connections(kept, c)) /\ qc' = f

--------------------------------------------------------------------------------
(* The health check. Any datagram cancels it before it is processed, so the response of a
   check is never looked at. *)

\* The request is sent, is to be sent again later, or cannot be sent at all.
do_health_check ==
  /\ h3.st # "IDLE" /\ ~h3.in
  /\ \E stream \in BOOLEAN :
       /\ stream => h3.st = "ESTABLISHED"
       /\ h3' = [h3 EXCEPT !.hc = [NoHealthCheck EXCEPT !.on = TRUE, !.stream = stream]]
  /\ UNCHANGED qc

HealthCheckFails ==
  /\ h3.hc.on /\ ~h3.in
  /\ h3' = [h3 EXCEPT !.hc = NoHealthCheck, !.told = "health"]
  /\ UNCHANGED qc

--------------------------------------------------------------------------------

Next == open_session \/ CloseSession \/ Readable \/ process_handoff_packet \/ HandlerEnds
        \/ on_handshake_completed \/ verify_callback \/ on_close \/ Timeout \/ CloseTask \/ complete_read
        \/ PostReceive \/ do_health_check \/ HealthCheckFails
        \/ \E c \in Conns : \/ open_connection(c) \/ close_connection(c) \/ handle_response(c) \/ on_body(c)
                            \/ on_stream_closed(c) \/ (\E on \in BOOLEAN : update_flow_control(c, on))

Spec == Init /\ [][Next]_vars

--------------------------------------------------------------------------------

\* A connection that left the tables was reported to the tunnel exactly once, and one that
\* is in them was not, whatever of the endpoint, the tunnel and the session ended it
\* (http3_upstream.cpp:259-310, 744-782, 1007-1044). Only the end of a connection that the
\* tunnel itself closed synchronously may be repeated, once, by the task or by the close of
\* the session (347-351).
GoneIsReported ==
  \A c \in Conns :
    LET k == qc[c]
        ends == Cardinality({i \in 1..Len(k.events) : k.events[i] \in {"closed", "error"}})
    IN  ends \in IF k.at # "gone" THEN {0} ELSE IF k.sync THEN {1, 2} ELSE {1}

\* Every byte that came for a connection was taken by the tunnel once, or is kept for it, or
\* is one the buffer could not keep (push_unread_data); and a stream that ended cleanly is
\* reported only after the last byte that was kept ("Postpone close until all buffered data
\* is forwarded to client", http3_upstream.cpp:773).
DataBeforeClose ==
  \A c \in Conns :
    LET k == qc[c]
    IN  /\ k.at = "held" => k.out + k.unread + k.lost = k.rcv
        /\ k.at = "gone" /\ ~k.cut /\ ~k.error => k.out + k.lost = k.rcv

\* Data that the tunnel would take does not wait: while it is kept with reading on, and with
\* it a close that was put off "until all buffered data is forwarded to client"
\* (http3_upstream.cpp:773), complete_read is on its way (update_flow_control).
KeptDataIsOnItsWay ==
  \A c \in Conns : qc[c].at = "held" /\ qc[c].read /\ qc[c].unread > 0 => h3.read_task

\* A connection whose data could not be kept does not end as one that is complete.
\* Does not hold: nobody looks at the result of push_unread_data (http3_upstream.cpp:739).
LossIsReported ==
  \A c \in Conns :
    qc[c].lost > 0 /\ qc[c].at = "gone" /\ ~qc[c].cut => qc[c].events[Len(qc[c].events)] = "error"

================================================================================
