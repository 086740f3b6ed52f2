------------------------------ MODULE MCClientBase ------------------------------
(* What the client rests on, for TLC: the event loop (extended, its properties are checked
   under their own names), sockets, pingers, buffers, the pipe and the service of Windows, and
   the command line client, side by side. They share no state here, so a behaviour runs one
   of them, chosen at the start (`live'): the reachable states add up. *)
EXTENDS EventLoop

VARIABLES live,                                                   \* the component that runs
          sk, timer, writes, now, early,                          \* SocketManager
          so, net, heard,                                         \* TcpSocketIo
          c, l, task, relays, seen, out,                          \* Ping
          locations, running, pinged, start, results, open, made, \* LocationsPinger
          qc,                                                     \* QuicConnector
          ring, step, tried, acked, reader,                       \* RingBuffer
          mem, file, fd, offset, pushed, cut, drained,            \* MemfileBuffer
          stage, connected, pending, inflight, overlapped, reading, input, wake, sender,
          session, got, sent,                                     \* PipeEndpoint
          app, client, stop, io, lost, svc, vpn, orders, states, told, calls, late, \* EasyService
          main, failed, monitor, m_vpn, handle, queue, awaited, keep_running, waker,
          teller, misused, extra                                  \* CliClient

Sockets == INSTANCE SocketManager WITH Tcp <- {"t"}, Udp <- {"u"}, Fds <- {3, 4}, MaxSub <- 2,
                                       MaxTime <- 2, Linger <- 1
Socket == INSTANCE TcpSocketIo WITH told <- heard, MaxChunks <- 5, Flights <- 2,
                                  ReadBudget <- 2, BufSize <- 2
Pinger == INSTANCE Ping WITH Endpoints <- {"e"}, MaxRelays <- 1, Target <- 2
Locations == INSTANCE LocationsPinger WITH pending <- locations, task <- start, told <- results,
               MaxLocations <- 2, AllInterfaces <- FALSE, MaxResults <- 2
Quic == INSTANCE QuicConnector
Ring == INSTANCE RingBuffer WITH file <- ring, Capacity <- 2, MaxRecords <- 5
Buffer == INSTANCE MemfileBuffer WITH lost <- cut, out <- drained, Threshold <- 2, MaxFileSize <- 3,
                                      MaxBytes <- 7, Faults <- FALSE
Pipe == INSTANCE PipeEndpoint WITH Senders <- {1, 2}, MaxPending <- 2, MaxSent <- 4, MaxSessions <- 2
Service == INSTANCE EasyService WITH MaxCalls <- 4
Cli == INSTANCE CliClient WITH vpn <- handle, drained <- awaited, running <- keep_running, MaxQueued <- 2

sockets == <<sk, timer, writes, now, early>>
socket == <<so, net, heard>>
pinger == <<c, l, task, relays, seen, out>>
locs == <<locations, running, pinged, start, results, open, made>>
records == <<ring, step, tried, acked, reader>>
buffer == <<mem, file, fd, offset, pushed, cut, drained>>
pipe == <<stage, connected, pending, inflight, overlapped, reading, input, wake, sender, session, got, sent>>
service == <<app, client, stop, io, lost, svc, vpn, orders, states, told, calls, late>>
cli == <<main, failed, monitor, m_vpn, handle, queue, awaited, keep_running, waker, teller, misused, extra>>
allVars == <<live, vars, sockets, socket, pinger, locs, qc, records, buffer, pipe, service, cli>>

InitAll ==
  /\ live \in {"loop", "sockets", "socket", "pinger", "locations", "quic", "ring", "buffer", "pipe",
               "service", "cli"}
  /\ Init /\ Sockets!Init /\ Socket!Init /\ Pinger!Init /\ Locations!Init /\ Quic!Init /\ Ring!Init
  /\ Buffer!Init /\ Pipe!Init /\ Service!Init /\ Cli!Init
  /\ live # "pinger" => out.n = 0 /\ relays = 0  \* one of its initial states for the others
  /\ live # "locations" => locations = <<>>
  /\ live # "service" => svc = "stopped"

In(name, A) == live = name /\ A /\ UNCHANGED live
InLoop(A) == In("loop", A) /\ UNCHANGED <<sockets, socket, pinger, locs, qc, records, buffer, pipe, service, cli>>
InSockets(A) == In("sockets", A) /\ UNCHANGED <<vars, socket, pinger, locs, qc, records, buffer, pipe, service, cli>>
InSocket(A) == In("socket", A) /\ UNCHANGED <<vars, sockets, pinger, locs, qc, records, buffer, pipe, service, cli>>
InPinger(A) == In("pinger", A) /\ UNCHANGED <<vars, sockets, socket, locs, qc, records, buffer, pipe, service, cli>>
InLocations(A) == In("locations", A) /\ UNCHANGED <<vars, sockets, socket, pinger, qc, records, buffer, pipe, service, cli>>
InQuic(A) == In("quic", A) /\ UNCHANGED <<vars, sockets, socket, pinger, locs, records, buffer, pipe, service, cli>>
InRing(A) == In("ring", A) /\ UNCHANGED <<vars, sockets, socket, pinger, locs, qc, buffer, pipe, service, cli>>
InBuffer(A) == In("buffer", A) /\ UNCHANGED <<vars, sockets, socket, pinger, locs, qc, records, pipe, service, cli>>
InPipe(A) == In("pipe", A) /\ UNCHANGED <<vars, sockets, socket, pinger, locs, qc, records, buffer, service, cli>>
InService(A) == In("service", A) /\ UNCHANGED <<vars, sockets, socket, pinger, locs, qc, records, buffer, pipe, cli>>
InCli(A) == In("cli", A) /\ UNCHANGED <<vars, sockets, socket, pinger, locs, qc, records, buffer, pipe, service>>

NextAll ==
  \/ InLoop(Next) \/ InSockets(Sockets!Next) \/ InSocket(Socket!Next) \/ InPinger(Pinger!Next)
  \/ InLocations(Locations!Next) \/ InQuic(Quic!Next) \/ InRing(Ring!Next) \/ InBuffer(Buffer!Next)
  \/ InPipe(Pipe!Next) \/ InService(Service!Next) \/ InCli(Cli!Next)

\* The fairness of EventLoop, Ping, QuicConnector and EasyService, for the one that runs.
FairnessAll ==
  /\ \A t \in Tasks : WF_allVars(InLoop(Activate(t))) /\ WF_allVars(InLoop(run_deferred_task(t)))
  /\ WF_allVars(InLoop(WaitForRun)) /\ WF_allVars(InLoop(vpn_event_loop_finalize_exit))
  /\ WF_allVars(InLoop(vpn_event_loop_run)) /\ WF_allVars(InLoop(BaseExits))
  /\ WF_allVars(InLoop(run_task_queue)) /\ WF_allVars(InLoop(NextTask)) /\ WF_allVars(InLoop(TaskReturns))
  /\ WF_allVars(InPinger(Pinger!do_prepare)) /\ WF_allVars(InPinger(Pinger!do_report))
  /\ WF_allVars(InPinger(\E ok \in BOOLEAN : Pinger!do_connect(ok))) /\ WF_allVars(InPinger(Pinger!on_timer))
  /\ WF_allVars(InQuic(Quic!Timeout)) /\ WF_allVars(InQuic(Quic!ReportTask))
  /\ WF_allVars(InService(Service!wait_connected)) /\ WF_allVars(InService(Service!reset))
  /\ WF_allVars(InService(Service!start_connect)) /\ WF_allVars(InService(Service!HandleState))
  /\ WF_allVars(InService(Service!LoopReturnsTrue)) /\ WF_allVars(InService(Service!LoopReturnsFalse))
  /\ WF_allVars(InService(Service!pipe_handler)) /\ WF_allVars(InService(Service!service_main_returns))

SpecAll == InitAll /\ [][NextAll]_allVars /\ FairnessAll

--------------------------------------------------------------------------------

\* Data in a socket's buffers has a callback coming, unless its owner was told of it and
\* stopped reading of its own accord (tcp_socket.cpp); the timer calls live sockets only
\* (socket_manager.cpp); the pipe's thread does not sleep on a queued message
\* (vpn_easy_pipe.cpp).
WakeupsAreKept ==
  Socket!NoLostWakeup /\ Sockets!TicksReachLiveSockets /\ Pipe!SleepsOnlyWhenServed

\* What a buffer takes in is what it gives.  The newest records of the ring file survive an
\* append that was interrupted, except in the slot the next one writes, as long as no header
\* was cut short and nobody removed the file; the bytes of a connection that went through the
\* memory buffer and its file come in order; a pipe's messages come whole.
BuffersKeepOrder == Ring!NewestSurvive /\ Buffer!BytesInOrder /\ Pipe!OwnMessagesWhole

\* Nothing calls into what was closed: the service's callback after stop, and after vpn_close
\* the answers to connect requests of a loop that ran when the client disconnected, and the
\* network monitor of a client that had connected.
NothingAfterClose ==
  Service!NoCallbackAfterStop /\ Cli!AnswersFindVpnOpen /\ Cli!MonitorFindsVpnOpen

\* A task of the event loop, a connection of a ping, a location and a QUIC attempt each have
\* one outcome; a ping and a ping of locations say that they finished last.
OneOutcomeEach ==
  HeldOrFinalizedOnce /\ Pinger!ResultsAreComplete /\ Locations!FinishedIsLast /\ Quic!OneReport

\* What was begun ends: queued tasks are finalized, a ping finishes (or arms a timer or takes
\* a relay that is not there), a QUIC attempt reports or is destroyed, a started service
\* reports a state, is lost or is told to stop.
WhatBeginsEnds ==
  /\ QueuedIsFinalized /\ (live = "pinger" => Pinger!PingFinishes) /\ Quic!AttemptReports
  /\ Service!StartIsAnswered
================================================================================
