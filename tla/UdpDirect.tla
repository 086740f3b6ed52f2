------------------------------- MODULE UdpDirect -------------------------------
(***************************************************************************)
(* One client's UDP multiplexer over the direct forwarder:                  *)
(* lib/src/udp_pipe.rs with lib/src/udp_forwarder.rs behind it.             *)
(*                                                                         *)
(* The left half reads the client's datagrams, opens a socket for a new     *)
(* flow and sends; it is suspended in the client's source or in             *)
(* UdpSocket::send.  The right half is suspended in poll_events, which      *)
(* watches the sockets that existed when it was entered and a wake channel  *)
(* of capacity one.                                                         *)
(***************************************************************************)
EXTENDS UdpPipe

CONSTANT MaxInbox   \* bound on the unread datagrams of one socket

ASSUME UdpDirectAssumption == MaxInbox \in Nat \ {0}

VARIABLES
  connections,  \* MultiplexerShared.connections: per meta, a socket or None
  sending,      \* the flow the left half is suspended sending on, or None
  watched,      \* the sockets the current poll_events waits for
  woken         \* the wake channel holds its one message

vars == <<udp_connections, closed, connections, sending, watched, woken>>

Connection == [being_listened : BOOLEAN, inbox : 0 .. MaxInbox]

ASSUME NoneIsNoSocket == None \notin Connection /\ None \notin Metas

HasSocket(meta) == connections[meta] # None

Sockets(table) == {m \in Metas : table[m] # None}

TypeOK ==
  /\ PipeTypeOK
  /\ connections \in [Metas -> Connection \cup {None}]
  /\ sending \in Flows \cup {None}
  /\ watched \subseteq Metas
  /\ woken \in BOOLEAN

Init ==
  /\ PipeInit
  /\ connections = [m \in Metas |-> None]
  /\ sending = None
  /\ watched = {}
  /\ woken = FALSE

\* The exchange returns an error and the multiplexer is dropped.
Close ==
  /\ closed' = TRUE
  /\ udp_connections' = [m \in Metas |-> None]
  /\ connections' = [m \in Metas |-> None]
  /\ sending' = None
  /\ watched' = {}
  /\ woken' = FALSE

--------------------------------------------------------------------------------
(* The left half: LeftPipe::exchange.                                        *)

\* A datagram of a known flow: its socket is looked up and sending begins; a
\* missing socket (NotFound) ends the whole multiplexer.
ReadKnown(m) ==
  /\ ~ closed /\ sending = None
  /\ Known(m) /\ MaySend(m)
  /\ IF HasSocket(m)
     THEN /\ udp_connections' = AfterOutgoing(m)
          /\ sending' = m
          /\ UNCHANGED <<closed, connections, watched, woken>>
     ELSE Close

\* A datagram of a new flow for which on_new_udp_connection opens a socket.
ReadNew(m) ==
  /\ ~ closed /\ sending = None
  /\ ~ Known(m)
  /\ m[2] \notin Private
  /\ ~ HasSocket(m)
  /\ udp_connections' = AfterOutgoing(m)
  /\ connections' = [connections EXCEPT ![m] = [being_listened |-> FALSE, inbox |-> 0]]
  /\ sending' = m
  /\ UNCHANGED <<closed, watched, woken>>

\* on_new_udp_connection fails (a private destination, a socket already
\* present, or no socket to be had): the datagram is dropped.
DropNew_KeepsEntry(m) ==
  /\ ~ closed /\ sending = None
  /\ ~ Known(m)
  /\ udp_connections' = AfterOutgoing(m)
  /\ UNCHANGED <<closed, connections, sending, watched, woken>>

DropNew(m) ==
  /\ ~ closed /\ sending = None
  /\ ~ Known(m)
  /\ UNCHANGED vars

\* UdpSocket::send completes; a socket not yet listened to wakes the right
\* half.  The socket may have been closed meanwhile.
Sent_NoWake ==
  /\ sending # None
  /\ connections' = IF HasSocket(sending)
                    THEN [connections EXCEPT ![sending].being_listened = TRUE]
                    ELSE connections
  /\ sending' = None
  /\ UNCHANGED <<udp_connections, closed, watched, woken>>

Sent ==
  /\ sending # None
  /\ IF HasSocket(sending) /\ ~ connections[sending].being_listened
     THEN /\ woken' = TRUE
          /\ connections' = [connections EXCEPT ![sending].being_listened = TRUE]
     ELSE UNCHANGED <<woken, connections>>
  /\ sending' = None
  /\ UNCHANGED <<udp_connections, closed, watched>>

\* UdpSocket::send fails: the error ends the whole multiplexer.
SendFails ==
  /\ sending # None
  /\ Close

\* The client's stream ends or fails.
ClientGone ==
  /\ ~ closed /\ sending = None
  /\ Close

--------------------------------------------------------------------------------
(* The right half: RightPipe::exchange over MultiplexerSource::read.  Each   *)
(* step ends with poll_events entered again on the sockets of that moment.   *)

Polling == ~ closed

\* A watched socket is readable: its datagram goes to the client; the last
\* answer of a DNS flow closes the flow and its socket (the meta given to
\* on_connection_closed is the reply's, which the forwarder reverses).
RelayReply(m) ==
  /\ Polling
  /\ m \in watched /\ HasSocket(m)
  /\ connections[m].inbox > 0
  /\ udp_connections' = AfterIncoming(m)
  /\ connections' = IF Known(m) /\ IsDone(udp_connections[m])
                    THEN [connections EXCEPT ![m] = None]
                    ELSE [connections EXCEPT ![m].inbox = @ - 1]
  /\ watched' = Sockets(connections')
  /\ UNCHANGED <<closed, sending, woken>>

\* A watched socket reports an error: on_socket_error removes it and the
\* UdpClose that read returns next removes the pipe's entry.
SocketError(m) ==
  /\ Polling
  /\ m \in watched /\ HasSocket(m)
  /\ connections' = [connections EXCEPT ![m] = None]
  /\ udp_connections' = [udp_connections EXCEPT ![m] = None]
  /\ watched' = Sockets(connections')
  /\ UNCHANGED <<closed, sending, woken>>

\* The wake message makes poll_events start over.
Wake ==
  /\ Polling
  /\ woken
  /\ woken' = FALSE
  /\ watched' = Sockets(connections)
  /\ UNCHANGED <<udp_connections, closed, connections, sending>>

\* The client's sink fails on a reply: the multiplexer ends.
ClientSinkFails(m) ==
  /\ Polling
  /\ m \in watched /\ HasSocket(m)
  /\ connections[m].inbox > 0
  /\ Close

--------------------------------------------------------------------------------
\* The peer's datagram arrives at the flow's socket.
PeerSends(m) ==
  /\ HasSocket(m)
  /\ connections[m].inbox < MaxInbox
  /\ connections' = [connections EXCEPT ![m].inbox = @ + 1]
  /\ UNCHANGED <<udp_connections, closed, sending, watched, woken>>

\* forwarder_shared.on_connection_closed(&meta) for every expired meta, as
\* on_timer_tick calls it: the forwarder removes the reversed meta.
CloseExpired(expired) ==
  [m \in Metas |-> IF Reversed(m) \in expired THEN None ELSE connections[m]]

\* Every timeout/4 both halves are dropped where they are suspended (a send in
\* progress is lost), expired entries are removed, and both start again.
Tick ==
  /\ ~ closed
  /\ \E expired \in ExpiredSets :
       /\ udp_connections' = AfterTick(expired)
       /\ connections' = CloseExpired(expired)
  /\ sending' = None
  /\ watched' = Sockets(connections')
  /\ UNCHANGED <<closed, woken>>

Next ==
  \/ \E m \in Flows :
       \/ ReadKnown(m) \/ ReadNew(m) \/ DropNew(m)
       \/ RelayReply(m) \/ SocketError(m) \/ ClientSinkFails(m) \/ PeerSends(m)
  \/ Sent \/ SendFails \/ ClientGone \/ Wake \/ Tick

Spec == Init /\ [][Next]_vars

--------------------------------------------------------------------------------
\* Every flow of the pipe has its socket, so that a datagram of a known flow
\* never fails with NotFound, which would end the client's whole multiplexer
\* (MultiplexerSink::write): a failed destination leaves no stale entry.
FlowsHaveSockets == \A m \in Metas : Known(m) => HasSocket(m)

\* No socket is left unwatched until the next tick: the right half waits for
\* it, a wake message is on its way, or the left half is about to leave one
\* (MultiplexerSink::write and MultiplexerSource::poll_events; the channel
\* holds one message however many sockets are new).
EverySocketIsWatched ==
  \A m \in Metas : HasSocket(m) => m \in watched \/ woken \/ sending = m

\* UDP state expires: a socket lives no longer than the flow it was opened for
\* (DuplexPipe::on_timer_tick and MultiplexerShared::on_connection_closed).
SocketsHaveFlows == \A m \in Metas : HasSocket(m) => Known(m)

================================================================================
