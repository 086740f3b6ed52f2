------------------------------ MODULE TunListener ------------------------------
(* The client listener on the TUN device (core/src/tun_device_listener.cpp): one TCP
   connection between the TCP/IP stack and the tunnel, with the data that the tunnel did
   not take yet and the data that the client did not confirm yet; and the Windows pump
   that moves packets from the driver's thread to the event loop. The bytes of the client
   are numbered, so that their order shows. *)
EXTENDS Naturals, Sequences
LOCAL INSTANCE SequencesExt

CONSTANTS MaxBytes,  \* bytes in each direction
          BatchSize, \* BATCH_SIZE
          MaxPackets \* packets of the driver

VARIABLES lc,   \* the connection
          pump  \* the driver's ring, the listener's queue, and who will look at them

vars == <<lc, pump>>

Init ==
  /\ lc = [st |-> "open", read |-> FALSE, unread |-> <<>>, out |-> <<>>, rcv |-> 0, sent |-> 0,
           sched |-> 0, closing |-> FALSE, read_task |-> FALSE, close_task |-> FALSE]
  /\ pump = [ring |-> 0, queue |-> 0, came |-> 0, wake |-> FALSE, signaled |-> FALSE,
             task |-> FALSE, running |-> FALSE]

--------------------------------------------------------------------------------
(* The connection. *)

Closed(s) == [s EXCEPT !.st = "closed", !.read_task = FALSE, !.close_task = FALSE]

\* CLIENT_EVENT_READ with some data: the tunnel takes all of it, or turns reading off
\* after a part of it, or closes the connection.
Raise(s, data) ==
  {[s EXCEPT !.out = @ \o data]}
  \cup {[s EXCEPT !.out = @ \o SubSeq(data, 1, n), !.read = FALSE] : n \in 0..Len(data)}
  \cup {Closed(s)}

\* What is left of a chunk after the step from s to u took its first bytes.
Left(chunk, s, u) == SubSeq(chunk, 1 + Len(u.out) - Len(s.out), Len(chunk))

\* What the tunnel did not take before is raised first, chunk by chunk, while it reads; a
\* chunk that is taken leaves the queue.
read_out_pending_data(s) ==
  LET Take(u) == IF u.st = "closed" \/ ~u.read \/ u.unread = <<>> THEN {u}
                 ELSE {[v EXCEPT !.unread = IF Left(Head(@), u, v) = <<>> THEN Tail(@)
                                            ELSE <<Left(Head(@), u, v)>> \o Tail(@)] :
                         v \in Raise(u, Head(u.unread))}
      After[k \in 0..Len(s.unread)] == IF k = 0 THEN {s} ELSE UNION {Take(u) : u \in After[k - 1]}
  IN  After[Len(s.unread)]

\* The new data goes to the tunnel when nothing waits before it. What is left when reading
\* was turned off is kept as a chunk, an empty one when the data was taken to its end.
Deliver(s, data) ==
  {IF u.st = "closed" \/ u.read THEN u ELSE [u EXCEPT !.unread = <<Left(data, s, u)>>] : u \in Raise(s, data)}

\* TCPIP_EVENT_READ: the rest of the data is kept.
ReadEvent_NewFirst(n) ==
  LET data == [i \in 1..n |-> lc.rcv + i]
  IN
  /\ lc.st = "open" /\ lc.rcv + n <= MaxBytes
  /\ \E s \in read_out_pending_data([lc EXCEPT !.rcv = @ + n]) :
       lc' \in IF s.st = "closed" THEN {s}
               ELSE IF ~s.read THEN {[s EXCEPT !.unread = <<data>> \o @]} ELSE Deliver(s, data)
  /\ UNCHANGED pump

ReadEvent(n) ==
  LET data == [i \in 1..n |-> lc.rcv + i]
  IN
  /\ lc.st = "open" /\ lc.rcv + n <= MaxBytes
  /\ \E s \in read_out_pending_data([lc EXCEPT !.rcv = @ + n]) :
       lc' \in IF s.st = "closed" THEN {s}
               ELSE IF ~s.read \/ s.unread # <<>> THEN {[s EXCEPT !.unread = Append(@, data)]} ELSE Deliver(s, data)
  /\ UNCHANGED pump

turn_read(on) ==
  /\ lc.st = "open" /\ lc.read # on
  /\ lc' = [lc EXCEPT !.read = on, !.read_task = @ \/ (on /\ lc.unread # <<>>)]
  /\ UNCHANGED pump

complete_read ==
  /\ lc.read_task
  /\ lc' \in read_out_pending_data([lc EXCEPT !.read_task = FALSE])
  /\ UNCHANGED pump

\* Data of the server for the client: nothing is taken after a graceful close.
send ==
  /\ lc.st = "open" /\ ~lc.closing /\ lc.sent < MaxBytes
  /\ lc' = [lc EXCEPT !.sched = @ + 1, !.sent = @ + 1]
  /\ UNCHANGED pump

\* TCPIP_EVENT_DATA_SENT: the last confirmed byte of a closing connection closes it.
DataSentEvent ==
  /\ lc.st = "open" /\ lc.sched > 0
  /\ lc' = [lc EXCEPT !.sched = @ - 1, !.close_task = @ \/ (lc.closing /\ lc.sched = 1)]
  /\ UNCHANGED pump

\* A graceful close waits for the client to confirm what was sent.
close_connection(graceful, async) ==
  /\ lc.st = "open"
  /\ lc' = IF graceful /\ lc.sched > 0 THEN [lc EXCEPT !.closing = TRUE]
           ELSE IF async THEN [lc EXCEPT !.close_task = TRUE] ELSE Closed(lc)
  /\ UNCHANGED pump

CloseTask == lc.close_task /\ lc' = Closed(lc) /\ UNCHANGED pump

\* TCPIP_EVENT_CONNECTION_CLOSED by the client or a timeout.
ClosedEvent == lc.st = "open" /\ lc' = Closed(lc) /\ UNCHANGED pump

--------------------------------------------------------------------------------
(* The pump. *)

\* The driver puts a packet into its ring, and its thread will call the handler.
Arrive ==
  /\ pump.came < MaxPackets
  /\ pump' = [pump EXCEPT !.ring = @ + 1, !.came = @ + 1, !.wake = TRUE]
  /\ UNCHANGED lc

recv_packets_handler ==
  /\ pump.wake
  /\ pump' = [pump EXCEPT !.wake = FALSE, !.signaled = TRUE, !.task = TRUE]
  /\ UNCHANGED lc

\* The first part of recv_packets_task, outside the lock: empty the ring and handle a batch.
RecvPackets ==
  /\ pump.task /\ ~pump.running
  /\ LET n == pump.queue + pump.ring
     IN  pump' = [pump EXCEPT !.ring = 0, !.queue = IF n > BatchSize THEN n - BatchSize ELSE 0, !.running = TRUE]
  /\ UNCHANGED lc

\* The second part, under the lock: another task when a packet came meanwhile or is left.
recv_packets_task ==
  /\ pump.running
  /\ pump' = [pump EXCEPT !.running = FALSE, !.signaled = FALSE, !.task = pump.signaled \/ pump.queue > 0]
  /\ UNCHANGED lc

Next ==
  \/ \E n \in 1..MaxBytes : ReadEvent(n)
  \/ \E on \in BOOLEAN : turn_read(on)
  \/ complete_read \/ send \/ DataSentEvent \/ CloseTask \/ ClosedEvent
  \/ \E graceful, async \in BOOLEAN : close_connection(graceful, async)
  \/ Arrive \/ recv_packets_handler \/ RecvPackets \/ recv_packets_task

Spec == Init /\ [][Next]_vars

--------------------------------------------------------------------------------
(* Properties. *)

\* The tunnel gets the client's bytes in order and none is lost, however it turns reading
\* off in the middle of a chunk and on again; what it did not take has a task that will
\* raise it again once it reads; and a connection that waits for the client's
\* confirmations before it closes has some to wait for.
ClientDataInOrder ==
  lc.st = "open" =>
    /\ lc.out \o FlattenSeq(lc.unread) = [i \in 1..lc.rcv |-> i]
    /\ lc.read /\ lc.unread # <<>> => lc.read_task
    /\ lc.closing => lc.sched > 0 \/ lc.close_task

\* A packet in the ring or in the queue has somebody who will look at it: the driver's
\* thread, or a task of the event loop that has not passed its last look yet.
PacketsAreLookedAt ==
  /\ pump.ring > 0 => pump.wake \/ (pump.task /\ (~pump.running \/ pump.signaled))
  /\ pump.queue > 0 => pump.task
================================================================================
