---------------------------- MODULE TcpSocketIo ----------------------------
(***************************************************************************)
(* One TCP socket of the client: net/src/tcp_socket.cpp.  The connection,  *)
(* the TLS handshake that the socket drives itself, its pause and          *)
(* continuation by a new owner, and the delivery of data to an owner that  *)
(* switches reading on and off.  libevent (external) moves chunks from the *)
(* network into the buffer only while reading is on, and calls back later. *)
(* Timeouts and destruction are in SocketManager.  The owners: a pinger    *)
(* starts a TLS connection, http2_upstream.cpp starts or continues one;    *)
(* direct_upstream.cpp and dns_client.cpp connect without TLS, and         *)
(* socks5_listener.cpp takes an accepted connection.                       *)
(***************************************************************************)
EXTENDS Naturals

CONSTANTS MaxChunks,  \* chunks the peer sends in all, handshake included
          Flights,    \* chunks that the TLS handshake needs from the peer
          ReadBudget, \* READ_BUDGET of the owners, 64
          BufSize     \* size of a buffer of ssl_pending

VARIABLES so,    \* the socket
          net,   \* chunks under way and whether the peer has closed
          told   \* what the owner was told: CONNECTED, ERROR, READABLE before CONNECTED

vars == <<so, net, told>>

(* connect parameters: ssl and pause_tls; input: chunks in the bufferevent; *)
(* bio: chunks in the TLS object; ssl_pending: what the handshake left      *)
(* decrypted, in buffers of BufSize; left: the owner wants to read and left *)
(* data all the same.                                                       *)
NoSocket == [st |-> "none", tls |-> FALSE, pause |-> FALSE, reading |-> FALSE, input |-> 0,
             eof |-> FALSE, bio |-> 0, ssl_pending |-> 0, task |-> FALSE,
             read_cb |-> FALSE, event_cb |-> "none", out |-> 0, left |-> FALSE]

Init == /\ so = NoSocket
        /\ net = [sent |-> 0, coming |-> 0, closed |-> FALSE]
        /\ told = [connected |-> FALSE, error |-> FALSE, early |-> FALSE]

-----------------------------------------------------------------------------
(* Mutant: chunks that the handshake left decrypted are not considered. *)
tcp_socket_set_read_enabled_NoPending(x, flag) ==
  IF x.reading = flag THEN x
  ELSE IF flag
  THEN [x EXCEPT !.reading = TRUE, !.task = @ \/ x.input > 0 \/ x.eof \/ x.st = "tls"]
  ELSE [x EXCEPT !.reading = FALSE, !.task = FALSE, !.left = FALSE]

(* tcp_socket_set_read_enabled: bufferevents only call back for new data,  *)
(* so data that is there already, the end of the stream, and a handshake   *)
(* need a task of their own.                                               *)
tcp_socket_set_read_enabled(x, flag) ==
  IF x.reading = flag THEN x
  ELSE IF flag
  THEN [x EXCEPT !.reading = TRUE,
                 !.task = @ \/ x.input > 0 \/ x.eof \/ x.st = "tls" \/ x.ssl_pending > 0]
  ELSE [x EXCEPT !.reading = FALSE, !.task = FALSE, !.left = FALSE]

(* The socket is handed to the owner as failed; the owner destroys it.     *)
Fail == told' = [told EXCEPT !.error = TRUE] /\ so' = [NoSocket EXCEPT !.st = "dead"]

(* do_handshake: all the input goes into the TLS object.                   *)
Fed(x) == [x EXCEPT !.bio = @ + x.input, !.input = 0]
Finished(x) == x.bio >= Flights

(* create_bufferevent and tcp_socket_connect; a socket that cannot be made *)
(* or protected is an error of the call, not an event.                     *)
tcp_socket_connect(tls, pause) ==
  /\ so.st = "none"
  /\ \/ so' = [so EXCEPT !.st = "connecting", !.tls = tls, !.pause = pause /\ tls]
     \/ so' = [so EXCEPT !.st = "dead"]
  /\ UNCHANGED <<net, told>>

(* tcp_socket_acquire_fd: an accepted connection is connected from the     *)
(* start; when it cannot be wrapped or made non-blocking the call fails.   *)
tcp_socket_acquire_fd ==
  /\ so.st = "none"
  /\ \/ /\ so' = [so EXCEPT !.st = "open"]
        /\ told' = [told EXCEPT !.connected = TRUE]
     \/ so' = [so EXCEPT !.st = "dead"] /\ UNCHANGED told
  /\ UNCHANGED net

(* on_connect_event *)
on_connect_event(ok) ==
  /\ so.st = "connecting"
  /\ IF ~ok THEN Fail
     ELSE IF so.tls
     THEN /\ so' = tcp_socket_set_read_enabled([so EXCEPT !.st = "tls"], TRUE)
          /\ UNCHANGED told
     ELSE /\ so' = [so EXCEPT !.st = "open"]
          /\ told' = [told EXCEPT !.connected = TRUE]
  /\ UNCHANGED net

-----------------------------------------------------------------------------
(* tcp_socket_peek shows the first buffer of ssl_pending, or else a part   *)
(* of the input.                                                           *)
Front(x) == IF x.ssl_pending > 0
            THEN {IF x.ssl_pending % BufSize = 0 THEN BufSize ELSE x.ssl_pending % BufSize}
            ELSE 1..x.input

(* tcp_socket_drain of n that were shown.  When less than a buffer of      *)
(* ssl_pending is taken, as much is drained from the input, too: n is not  *)
(* reduced before the loop is left.  http_session_input takes whole chunks *)
(* and is the only reader of a TLS socket, so this does not happen.        *)
tcp_socket_drain(x, n) ==
  IF n = 0 THEN x
  ELSE IF x.ssl_pending = 0 THEN [x EXCEPT !.input = @ - n]
  ELSE [x EXCEPT !.ssl_pending = @ - n,
                 !.input = IF n \in Front(x) THEN @ ELSE IF @ > n THEN @ - n ELSE 0]

(* The owner's loop: chunks are peeked and drained, whole on a TLS socket. *)
Step(x) == UNION {{tcp_socket_drain(x, n) : n \in IF x.tls THEN {f} ELSE 0..f} : f \in Front(x)}
Loop(x, i) ==
  LET After[k \in 0..i] == IF k = 0 THEN {x} ELSE UNION {Step(y) : y \in After[k - 1]}
  IN  After[i]

Data(x) == x.input + x.ssl_pending > 0

(* What an owner does with TCP_SOCKET_EVENT_READABLE.  The loops of the    *)
(* upstreams and of an established SOCKS5 connection run while reading is  *)
(* on, and at most READ_BUDGET times; without TLS the receiver may take    *)
(* less than was shown, or switch reading off in the middle.  They end     *)
(* before the budget when there is no more data or, at the end of the      *)
(* stream, with the socket's destruction; an error destroys it as well.    *)
(* dns_client.cpp takes everything, reading or not; a pinger ignores the   *)
(* event.                                                                  *)
Readable(x) ==
  \/ ~x.reading /\ so' = x
  \/ /\ x.reading /\ x.st = "open"
     /\ \E i \in 0..ReadBudget : \E y \in Loop(x, i) :
          \/ /\ i = ReadBudget \/ ~x.tls \/ (~Data(y) /\ ~y.eof)
             /\ so' = [y EXCEPT !.left = Data(y) \/ y.eof]
          \/ ~x.tls /\ so' = tcp_socket_set_read_enabled(y, FALSE)
  \/ /\ x.st = "open" /\ ~x.tls /\ ~x.eof
     /\ so' = tcp_socket_drain(x, x.input)
  \/ /\ x.st = "open" /\ (x.reading \/ (x.eof /\ ~x.tls))
     /\ so' = [NoSocket EXCEPT !.st = "dead"]

Raise(x) == Readable(x) /\ told' = [told EXCEPT !.early = @ \/ ~told.connected]

(* on_read of a socket whose handshake is under way.  A socket that is to  *)
(* pause stops at the first data from the peer.                            *)
Handshake(x) ==
  \/ Fail
  \/ /\ x.pause /\ x.input > 0
     /\ so' = [tcp_socket_set_read_enabled([Fed(x) EXCEPT !.pause = FALSE], FALSE)
                 EXCEPT !.st = "paused", !.read_cb = FALSE, !.event_cb = "none"]
     /\ told' = [told EXCEPT !.connected = TRUE]
  \/ /\ ~(x.pause /\ x.input > 0) /\ ~x.eof /\ ~Finished(Fed(x))
     /\ so' = Fed(x) /\ UNCHANGED told
  \/ /\ ~(x.pause /\ x.input > 0) /\ ~x.eof /\ Finished(Fed(x))
     /\ so' = [tcp_socket_set_read_enabled(Fed(x), FALSE)
                 EXCEPT !.st = "open", !.ssl_pending = BufSize * (Fed(x).bio - Flights),
                        !.bio = 0, !.read_cb = FALSE]
     /\ told' = [told EXCEPT !.connected = TRUE]

(* on_read: by the callback of libevent, or by the complete_read task.     *)
on_read(x) ==
  LET y == [x EXCEPT !.task = FALSE]
  IN  IF x.st = "tls" THEN Handshake(y)
      ELSE IF ~x.reading THEN so' = y /\ UNCHANGED told
      ELSE Raise(y)

ReadCallback  == so.read_cb /\ on_read([so EXCEPT !.read_cb = FALSE]) /\ UNCHANGED net
complete_read == so.task /\ on_read(so) /\ UNCHANGED net

(* on_event: end of stream or error; the read callback runs first.         *)
on_event ==
  /\ ~so.read_cb
  /\ \/ so.event_cb = "eof" /\ Raise([so EXCEPT !.event_cb = "none", !.eof = TRUE])
     \/ so.event_cb = "error" /\ Fail
  /\ UNCHANGED net

(* tcp_socket_connect_continue: the new owner takes a paused socket over.  *)
(* The new bufferevent cannot be made, or the handshake with what the TLS  *)
(* object has already fails: the call returns an error, and the owner      *)
(* destroys the socket for a new one.                                      *)
tcp_socket_connect_continue ==
  /\ so.st = "paused"
  /\ told' = [told EXCEPT !.connected = FALSE]
  /\ \/ so' = tcp_socket_set_read_enabled([so EXCEPT !.st = "tls"], TRUE)
     \/ so' = [NoSocket EXCEPT !.st = "dead"]
  /\ UNCHANGED net

(* The owner's own calls.                                                  *)
SetRead(flag) == /\ so.st = "open" /\ so.reading # flag
                 /\ so' = tcp_socket_set_read_enabled(so, flag)
                 /\ UNCHANGED <<net, told>>

(* tcp_socket_write, and on_sent_event with on_write_flush.                *)
tcp_socket_write == /\ so.st = "open" /\ so.out = 0
                    /\ so' = [so EXCEPT !.out = 1] /\ UNCHANGED <<net, told>>
on_sent_event    == /\ so.out = 1
                    /\ so' = [so EXCEPT !.out = 0] /\ UNCHANGED <<net, told>>

-----------------------------------------------------------------------------
(* The peer and libevent.  At the end of the stream a plain bufferevent    *)
(* has reading switched off ("it is unset inside libevent", on_event); the *)
(* TLS filter may keep it on.                                              *)
Linked == so.st \in {"tls", "paused", "open"}
PeerSends == /\ Linked /\ net.sent < MaxChunks /\ ~net.closed
             /\ net' = [net EXCEPT !.sent = @ + 1, !.coming = @ + 1]
             /\ UNCHANGED <<so, told>>
PeerCloses == /\ Linked /\ ~net.closed
              /\ net' = [net EXCEPT !.closed = TRUE] /\ UNCHANGED <<so, told>>
BufferRead == /\ Linked /\ so.reading /\ net.coming > 0
              /\ net' = [net EXCEPT !.coming = @ - 1]
              /\ so' = [so EXCEPT !.input = @ + 1, !.read_cb = TRUE] /\ UNCHANGED told
BufferEnd  == /\ Linked /\ so.reading /\ net.coming = 0 /\ net.closed /\ ~so.eof
              /\ so.event_cb = "none"
              /\ \E e \in {"eof", "error"}, on \in {FALSE, so.tls /\ so.st = "open"} :
                   so' = [so EXCEPT !.reading = on, !.event_cb = e]
              /\ UNCHANGED <<net, told>>

Next ==
  \/ \E a, b \in BOOLEAN : tcp_socket_connect(a, b)
  \/ tcp_socket_acquire_fd
  \/ \E a \in BOOLEAN : on_connect_event(a) \/ SetRead(a)
  \/ ReadCallback \/ complete_read \/ on_event \/ tcp_socket_connect_continue
  \/ tcp_socket_write \/ on_sent_event
  \/ PeerSends \/ PeerCloses \/ BufferRead \/ BufferEnd

Spec == Init /\ [][Next]_vars

-----------------------------------------------------------------------------
(* The socket loses no wake-up: while the owner of a connected socket      *)
(* wants to read, data in the buffers and the end of the stream have a     *)
(* task or a callback coming that will tell it, unless it was told and     *)
(* stopped reading of its own accord with reading on.                      *)
NoLostWakeup ==
  so.st = "open" /\ so.reading /\ (Data(so) \/ so.eof) /\ ~so.left
    => so.task \/ so.read_cb \/ so.event_cb # "none"

(* What READ_BUDGET is for: what an owner leaves when its budget is used   *)
(* up, with reading on, it will be told of again.                          *)
(* Does not hold: no task is left to say so (http2_upstream.cpp:383,       *)
(* direct_upstream.cpp:110, socks5_listener.cpp:1489).                     *)
LeftIsToldAgain == so.left => so.task \/ so.read_cb \/ so.event_cb # "none"

(* What on_event says of the end of the stream ("We don't need to check    *)
(* for EV_READ here"): the owner that is told takes notice of it.          *)
(* Does not hold: the loops of the owners run only while reading is on.    *)
EndIsNoticed == so.st = "open" /\ so.eof /\ so.event_cb = "none" => so.task \/ so.left

(* TCP_SOCKET_EVENT_READABLE is raised for a connected peer only.          *)
(* Does not hold.                                                          *)
ReadableAfterConnected == ~told.early
=============================================================================
