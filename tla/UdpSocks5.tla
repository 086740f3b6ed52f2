------------------------------- MODULE UdpSocks5 -------------------------------
(***************************************************************************)
(* One client's UDP multiplexer over the SOCKS5 forwarder:                  *)
(* lib/src/udp_pipe.rs with the datagram half of                            *)
(* lib/src/socks5_forwarder.rs behind it.  One UDP association with the     *)
(* SOCKS5 server serves all the flows of one source address; it is made by  *)
(* a TCP exchange during which the left half is suspended.                  *)
(***************************************************************************)
EXTENDS UdpPipe

VARIABLES
  associations,  \* DatagramTransceiverShared.associations, per source address
  left,          \* where the left half is suspended, and for which flow
  receiving,     \* source the right half is suspended receiving from, or None
  watched,       \* the associations the current poll_events waits for
  woken,         \* the new_socket channel holds its one message
  stale          \* the sources whose socket the right half holds is not theirs any more

vars == <<udp_connections, closed, associations, left, receiving, watched, woken, stale>>

\* inbox: the peers with a datagram waiting in the association's socket.
UdpAssociation == [peers : SUBSET Destinations, inbox : SUBSET Destinations]

Left == [at : {"read"}, meta : {None}] \cup [at : {"connect", "send"}, meta : Flows]

Reading == [at |-> "read", meta |-> None]

HasAssociation(source) == associations[source] # None

Associated(table) == {s \in Sources : table[s] # None}

TypeOK ==
  /\ PipeTypeOK
  /\ associations \in [Sources -> UdpAssociation \cup {None}]
  /\ left \in Left
  /\ receiving \in Sources \cup {None}
  /\ watched \subseteq Sources
  /\ woken \in BOOLEAN
  /\ stale \subseteq Sources

Init ==
  /\ PipeInit
  /\ associations = [s \in Sources |-> None]
  /\ left = Reading
  /\ receiving = None
  /\ watched = {}
  /\ woken = FALSE
  /\ stale = {}

\* The exchange returns an error and the multiplexer is dropped.
Close ==
  /\ closed' = TRUE
  /\ udp_connections' = [m \in Metas |-> None]
  /\ associations' = [s \in Sources |-> None]
  /\ left' = Reading
  /\ receiving' = None
  /\ watched' = {}
  /\ woken' = FALSE
  /\ stale' = {}

--------------------------------------------------------------------------------
(* The left half: LeftPipe::exchange.                                        *)

LeftReads == ~ closed /\ left = Reading

SendNext(m) == left' = [at |-> "send", meta |-> m]

\* A datagram of a known flow; without its association, NotFound ends the
\* whole multiplexer.
ReadKnown(m) ==
  /\ LeftReads
  /\ Known(m) /\ MaySend(m)
  /\ IF HasAssociation(m[1])
     THEN /\ udp_connections' = AfterOutgoing(m)
          /\ SendNext(m)
          /\ UNCHANGED <<closed, associations, receiving, watched, woken, stale>>
     ELSE Close

\* A new flow of a source that has an association: one more peer.
ReadNewPeer(m) ==
  /\ LeftReads
  /\ ~ Known(m)
  /\ m[2] \notin Private
  /\ HasAssociation(m[1])
  /\ associations' = [associations EXCEPT ![m[1]].peers = @ \cup {m[2]}]
  /\ udp_connections' = AfterOutgoing(m)
  /\ SendNext(m)
  /\ UNCHANGED <<closed, receiving, watched, woken, stale>>

\* A new flow of a source without one: the SOCKS5 exchange begins.
ReadNewSource(m) ==
  /\ LeftReads
  /\ ~ Known(m)
  /\ m[2] \notin Private
  /\ ~ HasAssociation(m[1])
  /\ left' = [at |-> "connect", meta |-> m]
  /\ UNCHANGED <<udp_connections, closed, associations, receiving, watched, woken, stale>>

\* The association is made: it is entered, the right half is told, and the
\* datagram is sent.
Connected_NoWake ==
  LET m == left.meta IN
  /\ left.at = "connect"
  /\ associations' = [associations EXCEPT ![m[1]] = [peers |-> {m[2]}, inbox |-> {}]]
  /\ udp_connections' = AfterOutgoing(m)
  /\ SendNext(m)
  /\ UNCHANGED <<closed, receiving, watched, woken, stale>>

Connected ==
  LET m == left.meta IN
  /\ left.at = "connect"
  /\ associations' = [associations EXCEPT ![m[1]] = [peers |-> {m[2]}, inbox |-> {}]]
  /\ woken' = TRUE
  /\ udp_connections' = AfterOutgoing(m)
  /\ SendNext(m)
  /\ UNCHANGED <<closed, receiving, watched, stale>>

\* The exchange fails.
ConnectFails ==
  /\ left.at = "connect"
  /\ left' = Reading
  /\ UNCHANGED <<udp_connections, closed, associations, receiving, watched, woken, stale>>

\* The server rejects the credentials, which drops every association.  The
\* futures of the right half keep the sockets they wait for.
AuthenticationFails ==
  /\ left.at = "connect"
  /\ left' = Reading
  /\ associations' = [s \in Sources |-> None]
  /\ stale' = IF receiving = None THEN watched ELSE {receiving}
  /\ UNCHANGED <<udp_connections, closed, receiving, watched, woken>>

Sent ==
  /\ left.at = "send"
  /\ left' = Reading
  /\ UNCHANGED <<udp_connections, closed, associations, receiving, watched, woken, stale>>

\* send_to fails, or the client's stream ends or fails.
LeftFails ==
  /\ ~ closed
  /\ left.at \in {"read", "send"}
  /\ Close

--------------------------------------------------------------------------------
(* The right half: RightPipe::exchange over DatagramSource::read.            *)

\* The right half can take a datagram of the association: it waits in
\* poll_events for it among others, or in recv_from for it alone.  A socket
\* that poll_events reports is looked up in the table again.
Receives(s) ==
  /\ ~ closed /\ HasAssociation(s)
  /\ (receiving = s /\ s \notin stale) \/ (receiving = None /\ s \in watched)

\* It is suspended in recv_from on a socket that left the table meanwhile.
ReceivesOld(s) == ~ closed /\ receiving = s /\ s \in stale

\* poll_events is entered (again) on the associations of that moment.
Poll(table) ==
  /\ receiving' = None
  /\ watched' = Associated(table)
  /\ stale' = {}

\* on_connection_closed for a reply's meta: the peer leaves the association,
\* and the last peer takes the association with it.
PeerClosed_KeepsEmpty(table, s, peer) ==
  IF table[s] = None THEN table ELSE [table EXCEPT ![s].peers = @ \ {peer}]

PeerClosed(table, s, peer) ==
  IF table[s] = None THEN table
  ELSE IF table[s].peers \subseteq {peer} THEN [table EXCEPT ![s] = None]
  ELSE [table EXCEPT ![s].peers = @ \ {peer}]

\* A reply is relayed to the client; the last answer of a DNS flow closes it.
Relay(table, s, peer) ==
  LET m == <<s, peer>> IN
  /\ udp_connections' = AfterIncoming(m)
  /\ associations' = IF Known(m) /\ IsDone(udp_connections[m])
                     THEN PeerClosed(table, s, peer) ELSE table
  /\ Poll(associations')
  /\ UNCHANGED <<closed, left, woken>>

RelayReply(s, peer) ==
  /\ Receives(s)
  /\ peer \in associations[s].inbox
  /\ Relay([associations EXCEPT ![s].inbox = @ \ {peer}], s, peer)

\* A datagram comes to a socket that left the table.
RelayOldReply(s, peer) ==
  /\ ReceivesOld(s)
  /\ Relay(associations, s, peer)

\* The socket was reported readable and has nothing: recv_from is suspended.
FalseReady(s) ==
  /\ ~ closed /\ receiving = None
  /\ s \in watched /\ HasAssociation(s)
  /\ associations[s].inbox = {}
  /\ receiving' = s
  /\ stale' = {}
  /\ UNCHANGED <<udp_connections, closed, associations, left, watched, woken>>

\* An association dropped meanwhile turns readable: nothing to read.
GoneReady(s) ==
  /\ ~ closed /\ receiving = None
  /\ s \in watched /\ ~ HasAssociation(s)
  /\ Poll(associations)
  /\ UNCHANGED <<udp_connections, closed, associations, left, woken>>

\* A socket error, or a reply that cannot be parsed, removes the association
\* that the source has now.  The closures that read then returns, one per
\* peer, carry the replies' metas and are removed from the pipe's table under
\* those.
SocketError(s) ==
  LET closures == IF HasAssociation(s) THEN {<<peer, s>> : peer \in associations[s].peers}
                  ELSE {}
  IN
  /\ Receives(s) \/ ReceivesOld(s)
  /\ associations' = [associations EXCEPT ![s] = None]
  /\ udp_connections' = [m \in Metas |-> IF m \in closures THEN None ELSE udp_connections[m]]
  /\ Poll(associations')
  /\ UNCHANGED <<closed, left, woken>>

Wake ==
  /\ ~ closed /\ receiving = None
  /\ woken
  /\ woken' = FALSE
  /\ Poll(associations)
  /\ UNCHANGED <<udp_connections, closed, associations, left>>

\* The client's sink fails on a reply: the multiplexer ends.
ClientSinkFails(s) ==
  /\ (Receives(s) /\ associations[s].inbox # {}) \/ ReceivesOld(s)
  /\ Close

--------------------------------------------------------------------------------
\* A datagram of some peer arrives through the SOCKS5 server.
PeerSends(s, peer) ==
  /\ HasAssociation(s)
  /\ associations' = [associations EXCEPT ![s].inbox = @ \cup {peer}]
  /\ UNCHANGED <<udp_connections, closed, left, receiving, watched, woken, stale>>

\* Both halves are dropped where they are suspended, expired entries are
\* removed and both start again.  on_connection_closed gets the flow's own
\* meta, whose destination is never the source of an association.
Tick ==
  /\ ~ closed
  /\ \E expired \in ExpiredSets :
       /\ udp_connections' = AfterTick(expired)
       /\ associations' = [s \in Sources |->
            IF \E m \in expired : m[2] = s THEN None ELSE associations[s]]
  /\ left' = Reading
  /\ Poll(associations')
  /\ UNCHANGED <<closed, woken>>

Next ==
  \/ \E m \in Flows : ReadKnown(m) \/ ReadNewPeer(m) \/ ReadNewSource(m)
  \/ Connected \/ ConnectFails \/ AuthenticationFails \/ Sent \/ LeftFails \/ Wake \/ Tick
  \/ \E s \in Sources :
       \/ FalseReady(s) \/ GoneReady(s) \/ SocketError(s) \/ ClientSinkFails(s)
       \/ \E peer \in Destinations :
            RelayReply(s, peer) \/ RelayOldReply(s, peer) \/ PeerSends(s, peer)

Spec == Init /\ [][Next]_vars

--------------------------------------------------------------------------------
\* Whenever the right half waits in poll_events, it waits for the socket of
\* every association, the present one of a source whose association was
\* dropped and made again, or a message is there to make it look again
\* (DatagramSource::poll_events and new_socket_tx in on_new_udp_connection).
EveryAssociationIsWatched ==
  receiving = None => \A s \in Sources : HasAssociation(s) => s \in watched \ stale \/ woken

\* The same wherever the right half waits.
\* Does not hold: a socket that was reported readable and has nothing, or
\* that left the table, keeps it in recv_from until the next tick.
EveryAssociationIsRead ==
  \A s \in Sources : HasAssociation(s) =>
    IF receiving = None THEN s \in watched \ stale \/ woken ELSE receiving = s /\ s \notin stale

\* An error ends the association whose socket had it (on_socket_error).
\* Does not hold: the socket may be the one that its source had before.
ErrorsEndTheirOwn ==
  [][\A s \in Sources : SocketError(s) => s \notin stale]_vars

\* An association lives only as long as it has peers: the end of the last DNS
\* flow of a source drops it and its TCP control connection
\* (DatagramTransceiverShared::on_connection_closed).
AssociationsHavePeers ==
  \A s \in Sources : HasAssociation(s) => associations[s].peers # {}

\* A flow of the pipe has its association, so that a retry after a failure
\* does not end the multiplexer with NotFound (DatagramSink::write).
FlowsHaveAssociations == \A m \in Flows : Known(m) => HasAssociation(m[1])

================================================================================
