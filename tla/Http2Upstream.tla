----------------------------- MODULE Http2Upstream -----------------------------
(* One HTTP/2 session with the endpoint (core/src/http2_upstream.cpp) over the stream table
   of net/src/http2.cpp: the session's socket, the TCP connections that are its streams,
   and the health check. nghttp2 closes a stream that is reset inside the call, and runs
   the callbacks of a chunk of input one after the other. The streams of the UDP and ICMP
   multiplexers are in HttpUdpMux. *)
EXTENDS Naturals, Sequences

CONSTANTS Conns,  \* identifiers of connections
          MaxData \* bytes the endpoint sends on one of them

VARIABLES h2, \* the session: `in' is where the socket's handler is, `closed' and `err' are
              \* m_closed and m_pending_session_error, `told' the last session event raised,
              \* `auth' whether the endpoint asked for authentication
          tc  \* m_tcp_connections; `events' are those raised for the connection, `cut' whether
              \* it was closed before its last data was taken, `lost' what could not be kept

vars == <<h2, tc>>

NoHealthCheck == [on |-> FALSE, sent |-> FALSE, need |-> TRUE, bad |-> FALSE]

NewConn == [at |-> "unused", answered |-> FALSE, fin |-> FALSE, read |-> FALSE, stream_closed |-> FALSE,
            client_closed |-> FALSE, error |-> FALSE, unread |-> 0, rcv |-> 0, out |-> 0, lost |-> 0,
            read_task |-> FALSE, close_task |-> FALSE, buffered |-> FALSE, eof |-> FALSE, cut |-> FALSE,
            events |-> <<>>]

Init ==
  /\ h2 = [sock |-> FALSE, sess |-> FALSE, in |-> "no", closed |-> FALSE, err |-> "none",
           hc |-> NoHealthCheck, told |-> "none", auth |-> FALSE]
  /\ tc = [c \in Conns |-> NewConn]

Held == {c \in Conns : tc[c].at = "held"}

--------------------------------------------------------------------------------
(* Connections. Each of these takes the record of one and returns what becomes of it. *)

Raise(k, e) == [k EXCEPT !.events = Append(@, e)]

clean_tcp_connection_data(k) ==
  [k EXCEPT !.at = "gone", !.read_task = FALSE, !.close_task = FALSE, !.unread = 0]

Ends(k, e) == clean_tcp_connection_data(Raise(k, e))

\* HTTP_EVENT_STREAM_PROCESSED: a clean end waits for the data that the client did not
\* take yet.
StreamProcessed(k, ok) ==
  IF k.error \/ ~ok THEN Ends(k, "error")
  ELSE IF k.client_closed \/ k.unread = 0 THEN Ends(k, "closed")
  ELSE [k EXCEPT !.stream_closed = TRUE]

close_tcp_connection(k, graceful) ==
  IF k.at # "held" THEN k
  ELSE IF k.stream_closed THEN Ends([k EXCEPT !.cut = TRUE], "closed")
  ELSE StreamProcessed([k EXCEPT !.client_closed = TRUE], graceful)

FlowControl(k, on) ==
  [k EXCEPT !.read = on, !.read_task = @ \/ (on /\ k.unread > 0)]

\* SERVER_EVENT_READ with n bytes: the tunnel takes all of them and passes the state of the
\* client's buffer, which has no room if it takes a part or nothing; or it fails.
handle_read(k, n) ==
  {FlowControl([k EXCEPT !.out = @ + n], TRUE)}
  \cup {FlowControl([k EXCEPT !.out = @ + i], FALSE) : i \in 0..n}
  \cup {close_tcp_connection(k, FALSE)}

\* Repeated until reading is off or nothing is left.
read_out_pending_data(k) ==
  IF ~k.read \/ k.unread = 0 THEN {k}
  ELSE {[u EXCEPT !.unread = IF u.at = "held" THEN @ - (u.out - k.out) ELSE 0] :
          u \in handle_read(k, k.unread)}

--------------------------------------------------------------------------------
(* The session. *)

\* Every connection is closed and reported before the session is.
close_session_Silent(kept) == [c \in Conns |-> IF c \in Held THEN clean_tcp_connection_data(kept[c]) ELSE kept[c]]

close_session(kept) == [c \in Conns |-> close_tcp_connection(kept[c], FALSE)]

\* The end of the socket's handler: a close that was asked for inside it happens now.
HandlerEnds(h, kept) ==
  /\ h2' = IF h.closed
           THEN [h EXCEPT !.in = "no", !.sock = FALSE, !.sess = FALSE, !.closed = FALSE, !.err = "none",
                          !.hc = NoHealthCheck, !.told = IF h.err = "none" THEN "closed" ELSE h.err]
           ELSE [h EXCEPT !.in = "no"]
  /\ tc' = IF h.closed THEN close_session(kept) ELSE kept

\* close_session_inner inside the handler.
Closing(h, err) == [h EXCEPT !.closed = TRUE, !.err = err]

open_session ==
  /\ ~h2.sock /\ h2.in = "no"
  /\ h2' = [h2 EXCEPT !.sock = TRUE, !.told = "none", !.auth = FALSE]
  /\ UNCHANGED tc

\* close_session called by the owner.
CloseSession ==
  /\ h2.sock /\ h2.in = "no"
  /\ h2' = [h2 EXCEPT !.sock = FALSE, !.sess = FALSE, !.hc = NoHealthCheck]
  /\ tc' = close_session(tc)

\* TCP_SOCKET_EVENT_CONNECTED: another protocol was negotiated, or the session opens.
Connected ==
  /\ h2.sock /\ ~h2.sess /\ h2.in = "no"
  /\ \/ HandlerEnds(Closing(h2, "error"), tc)
     \/ h2' = [h2 EXCEPT !.sess = TRUE, !.told = "opened"] /\ UNCHANGED tc

\* TCP_SOCKET_EVENT_ERROR, also the timeout of connecting.
SocketError == h2.sock /\ h2.in = "no" /\ HandlerEnds(Closing(h2, "error"), tc)

\* TCP_SOCKET_EVENT_READABLE: chunks are taken until there are none, reading is switched
\* off, or READ_BUDGET of them were taken and more may be left.
Readable == h2.sess /\ h2.in = "no" /\ h2' = [h2 EXCEPT !.in = "between"] /\ UNCHANGED tc
Chunk == h2.in = "between" /\ h2' = [h2 EXCEPT !.in = "chunk"] /\ UNCHANGED tc
LoopEnds == h2.in = "between" /\ HandlerEnds(h2, tc)
Eof == h2.in = "between" /\ HandlerEnds(Closing(h2, "none"), tc)
\* A chunk that is not HTTP/2, or cannot be drained.
InputError == h2.in = "chunk" /\ HandlerEnds(Closing(h2, "error"), tc)

\* HTTP_EVENT_OUTPUT inside the handler: what nghttp2 answers cannot be written.
OutputError == h2.in = "chunk" /\ h2' = Closing(h2, "error") /\ UNCHANGED tc

\* A chunk that was processed also cancels the health check.
ChunkDone ==
  /\ h2.in = "chunk"
  /\ h2' = [h2 EXCEPT !.in = "between", !.hc = NoHealthCheck]
  /\ UNCHANGED tc

\* HTTP_EVENT_GOAWAY, and 407 on any stream.
Goaway ==
  /\ h2.in = "chunk"
  /\ \E e \in {"none", "error", "auth"} :
       h2' = [Closing(h2, e) EXCEPT !.auth = @ \/ e = "auth"]
  /\ UNCHANGED tc

\* HTTP_EVENT_HEADERS on the stream of connection c.
handle_response(c) ==
  /\ h2.in = "chunk" /\ c \in Held /\ ~tc[c].stream_closed /\ ~tc[c].answered
  /\ \/ tc' = [tc EXCEPT ![c] = Raise([@ EXCEPT !.answered = TRUE], "opened")]
     \/ tc' = [tc EXCEPT ![c].answered = TRUE, ![c].error = TRUE]
  /\ UNCHANGED h2

\* HTTP_EVENT_DATA: what was kept goes first, and what the tunnel does not take is kept. If
\* what was kept cannot be read, or the buffer does not take the rest, that is lost: the
\* result of the event is an error that nghttp2 does not treat as one.
Data(c) ==
  LET k == [tc[c] EXCEPT !.rcv = @ + 1]
  IN
  /\ h2.in = "chunk" /\ c \in Held /\ k.answered /\ ~k.error /\ ~k.fin /\ ~k.stream_closed /\ k.rcv <= MaxData
  /\ \E u \in read_out_pending_data(k) :
       \E v \in IF u.at = "held" /\ u.read THEN handle_read(u, 1) ELSE {u} :
         LET rest == 1 - (v.out - u.out)
         IN  tc' \in {[tc EXCEPT ![c] = w] :
                       w \in IF v.at # "held" THEN {v}
                             ELSE {[v EXCEPT !.unread = @ + rest], [v EXCEPT !.lost = @ + rest]}}
  /\ UNCHANGED h2

\* The stream ends once both sides ended it and what was sent is out.
BothEnded(k) == IF k.eof /\ ~k.buffered THEN StreamProcessed(k, TRUE) ELSE k

\* HTTP_EVENT_DATA_FINISHED: the client's side of the stream is ended too.
DataFinished(c) ==
  /\ h2.in = "chunk" /\ c \in Held /\ tc[c].answered /\ ~tc[c].fin /\ ~tc[c].stream_closed
  /\ tc' = [tc EXCEPT ![c] = BothEnded([@ EXCEPT !.fin = TRUE, !.eof = TRUE])]
  /\ UNCHANGED h2

\* A window update of the endpoint lets the buffered data out.
WindowUpdate(c) ==
  /\ h2.in = "chunk" /\ c \in Held /\ tc[c].buffered /\ ~tc[c].stream_closed
  /\ tc' = [tc EXCEPT ![c] = BothEnded([@ EXCEPT !.buffered = FALSE])]
  /\ UNCHANGED h2

\* The endpoint resets the stream.
RstStream(c) ==
  /\ h2.in = "chunk" /\ c \in Held /\ ~tc[c].stream_closed
  /\ \E ok \in BOOLEAN : tc' = [tc EXCEPT ![c] = StreamProcessed(@, ok)]
  /\ UNCHANGED h2

--------------------------------------------------------------------------------
(* Calls of the tunnel, and tasks. *)

open_connection(c) ==
  /\ h2.sess /\ h2.in = "no" /\ tc[c].at = "unused"
  /\ tc' = [tc EXCEPT ![c].at = "held"]
  /\ UNCHANGED h2

close_connection(c) ==
  /\ h2.in = "no" /\ c \in Held
  /\ \/ tc' = [tc EXCEPT ![c].close_task = TRUE]
     \/ \E graceful \in BOOLEAN : tc' = [tc EXCEPT ![c] = close_tcp_connection(@, graceful)]
  /\ UNCHANGED h2

CloseTask(c) ==
  /\ h2.in = "no" /\ c \in Held /\ tc[c].close_task
  /\ \E graceful \in BOOLEAN : tc' = [tc EXCEPT ![c] = close_tcp_connection([@ EXCEPT !.close_task = FALSE], graceful)]
  /\ UNCHANGED h2

\* The data goes out at once, waits for the window of the stream, or cannot be written
\* (HTTP_EVENT_OUTPUT): the session is closed on the spot, outside the socket's handler.
send(c) ==
  /\ h2.in = "no" /\ c \in Held /\ ~tc[c].stream_closed /\ tc[c].answered /\ ~tc[c].error
  /\ \/ tc' = [tc EXCEPT ![c].buffered = TRUE] /\ UNCHANGED h2
     \/ HandlerEnds(Closing(h2, "error"), tc)

update_flow_control(c, on) ==
  /\ h2.in = "no" /\ c \in Held
  /\ tc' = [tc EXCEPT ![c] = FlowControl(@, on)]
  /\ UNCHANGED h2

complete_read(c) ==
  /\ h2.in = "no" /\ c \in Held /\ tc[c].read_task
  /\ \E u \in read_out_pending_data([tc[c] EXCEPT !.read_task = FALSE]) :
       tc' = [tc EXCEPT ![c] = IF u.at = "held" /\ u.unread = 0 /\ u.stream_closed THEN Ends(u, "closed") ELSE u]
  /\ UNCHANGED h2

\* need_result is kept only when the request could not be sent.
do_health_check(need) ==
  /\ h2.in = "no" /\ h2.sock
  /\ h2' = [h2 EXCEPT !.hc = [on |-> TRUE, sent |-> h2.sess, need |-> h2.sess \/ need, bad |-> FALSE]]
  /\ UNCHANGED tc

report_health_check_error(need) == IF need THEN "health" ELSE "error"

\* The timeout task of the check, or at once when it was not sent.
HealthCheckTimeout ==
  /\ h2.in = "no" /\ h2.hc.on
  /\ h2' = [h2 EXCEPT !.hc = NoHealthCheck, !.told = report_health_check_error(h2.hc.need)]
  /\ UNCHANGED tc

\* The response of the check, and the end of its stream.
HealthCheckResponse ==
  /\ h2.in = "chunk" /\ h2.hc.on /\ h2.hc.sent
  /\ h2' = [h2 EXCEPT !.hc.bad = TRUE]
  /\ UNCHANGED tc

HealthCheckProcessed ==
  /\ h2.in = "chunk" /\ h2.hc.on /\ h2.hc.sent
  /\ \E ok \in BOOLEAN :
       h2' = [h2 EXCEPT !.hc = NoHealthCheck,
                        !.told = IF ok /\ ~h2.hc.bad THEN @ ELSE report_health_check_error(h2.hc.need)]
  /\ UNCHANGED tc

--------------------------------------------------------------------------------

Session == open_session \/ CloseSession \/ Connected \/ SocketError \/ Readable \/ Chunk \/ LoopEnds \/ Eof
           \/ InputError \/ OutputError \/ ChunkDone \/ Goaway \/ HealthCheckTimeout \/ HealthCheckResponse
           \/ HealthCheckProcessed \/ (\E need \in BOOLEAN : do_health_check(need))

Connection(c) == handle_response(c) \/ Data(c) \/ DataFinished(c) \/ WindowUpdate(c) \/ RstStream(c)
                 \/ open_connection(c) \/ close_connection(c) \/ CloseTask(c) \/ send(c) \/ complete_read(c)
                 \/ (\E on \in BOOLEAN : update_flow_control(c, on))

Next == Session \/ \E c \in Conns : Connection(c)

Spec == Init /\ [][Next]_vars

--------------------------------------------------------------------------------

\* The tunnel hears exactly one end of every connection, last, however the stream, the
\* session and the tunnel's own close race (http2_upstream.cpp:230-287, 561-596, 640-664,
\* 803-821): the events of a connection are at most "opened", then at most one of "closed"
\* and "error", which is there exactly when the connection left the table.
OneEndPerConnection ==
  \A c \in Conns :
    LET e == tc[c].events
        n == Len(e)
    IN  /\ \A i \in 1..n : e[i] = "opened" => i = 1
        /\ \A i \in 1..n : e[i] \in {"closed", "error"} => i = n
        /\ tc[c].at = "gone" <=> n > 0 /\ e[n] # "opened"
        /\ tc[c].at = "held" => h2.sess

\* Every byte that came for a connection was taken by the tunnel once, or is kept for it, or
\* is one the buffer could not keep; and a connection that the endpoint ended cleanly is
\* reported closed only after the client has got what was kept, unless the tunnel or the
\* session closes first ("postpone until all data is sent to client", http2_upstream.cpp:283).
CloseAfterData ==
  \A c \in Conns :
    LET k == tc[c]
    IN  /\ k.at = "held" => k.out + k.unread + k.lost = k.rcv
        /\ k.events # <<>> /\ k.events[Len(k.events)] = "closed" /\ ~k.client_closed /\ ~k.cut
           => k.out + k.lost = k.rcv

\* A connection whose data could not be kept does not end as one that is complete.
\* Does not hold: the error of the buffer is only logged (http2_upstream.cpp:214-218).
LossIsReported ==
  \A c \in Conns :
    tc[c].lost > 0 /\ tc[c].at = "gone" /\ ~tc[c].client_closed /\ ~tc[c].cut
      => tc[c].events[Len(tc[c].events)] = "error"

\* A session that ends after the endpoint asked for authentication is reported with that
\* error ("Handle 407 (Proxy Authentication Required) on ANY stream as a fatal session
\* error", http2_upstream.cpp:92).
\* Does not hold: the next closing event overwrites the pending error (line 547).
AuthIsReported == h2.auth => h2.told \notin {"closed", "error"}

================================================================================
