---------------------------- MODULE UdpDirectProofs ----------------------------
(***************************************************************************)
(* The safety invariants of UdpDirect hold for every set of addresses,      *)
(* every timeout and every bound.                                           *)
(***************************************************************************)
EXTENDS UdpDirect, TLAPS

\* A leaf that names no prover is tried with the SMT solver, with Zenon, and with
\* the solver once more.
USE SMTT(30), ZenonT(40), Z3T(30)

\* The pipe's table is keyed by the client's orientation of a flow.  Without
\* it the expiry of an entry could close the socket of another one.
OnlyFlows == \A m \in Metas : Known(m) => m \in Flows

\* A socket marked as listened to is watched or has a wake message pending: the
\* flag stops the left half from sending another one.
ListenedAreWatched ==
  \A m \in Metas :
    HasSocket(m) /\ connections[m].being_listened => m \in watched \/ woken

\* The inductive invariant of the direct forwarder.
DirectInv ==
  /\ TypeOK
  /\ OnlyFlows
  /\ DnsFlowsArePending
  /\ FlowsHaveSockets
  /\ EverySocketIsWatched
  /\ ListenedAreWatched

--------------------------------------------------------------------------------
\* A meta and its reverse are both metas, and only one of them is a flow.
LEMMA Orientation ==
  ASSUME NEW m \in Metas
  PROVE  /\ Reversed(m) \in Metas
         /\ m \in Flows => Reversed(m) \notin Flows
  BY UdpPipeAssumption DEF Metas, Flows, Reversed

\* The table after a datagram of the client is a table with that entry added
\* or renewed.
LEMMA OutgoingTable ==
  ASSUME PipeTypeOK, DnsFlowsArePending, NEW m \in Metas, MaySend(m)
  PROVE  /\ AfterOutgoing(m) \in [Metas -> UdpConnection \cup {None}]
         /\ AfterOutgoing(m)[m] \in UdpConnection
         /\ \A n \in Metas \ {m} : AfterOutgoing(m)[n] = udp_connections[n]
         /\ IF IsPlainDns(m) THEN AfterOutgoing(m)[m].pending_queries \in 1 .. MaxQueries
                             ELSE AfterOutgoing(m)[m].pending_queries = None
  <1> DEFINE c == IF Known(m) THEN RegisterOutgoing(udp_connections[m]) ELSE NewConnection(m)
  <1>1. AfterOutgoing(m) = [udp_connections EXCEPT ![m] = c]
    BY DEF AfterOutgoing
  <1>2. /\ c \in UdpConnection
        /\ IF IsPlainDns(m) THEN c.pending_queries \in 1 .. MaxQueries
                            ELSE c.pending_queries = None
    <2>1. CASE Known(m)
      <3>1. udp_connections[m] \in UdpConnection
        BY <2>1 DEF PipeTypeOK, Known
      <3>2. udp_connections[m].pending_queries # MaxQueries
        BY <2>1 DEF MaySend
      <3>3. QED
        BY <2>1, <3>1, <3>2, UdpPipeAssumption
        DEF DnsFlowsArePending, RegisterOutgoing, UdpConnection, Expiry
    <2>2. CASE ~ Known(m)
      BY <2>2, UdpPipeAssumption DEF NewConnection, UdpConnection, Expiry
    <2>3. QED
      BY <2>1, <2>2
  <1>3. QED
    BY <1>1, <1>2 DEF PipeTypeOK

\* The table after a reply differs at the reply's flow only, which it may
\* remove but never adds.
LEMMA IncomingTable ==
  ASSUME PipeTypeOK, DnsFlowsArePending, NEW m \in Metas
  PROVE  /\ AfterIncoming(m) \in [Metas -> UdpConnection \cup {None}]
         /\ \A n \in Metas \ {m} : AfterIncoming(m)[n] = udp_connections[n]
         /\ AfterIncoming(m)[m] = None <=> ~ Known(m) \/ IsDone(udp_connections[m])
         /\ AfterIncoming(m)[m] # None =>
              IF IsPlainDns(m) THEN AfterIncoming(m)[m].pending_queries \in 1 .. MaxQueries
                               ELSE AfterIncoming(m)[m].pending_queries = None
  <1>1. CASE ~ Known(m)
    BY <1>1 DEF AfterIncoming, PipeTypeOK, Known
  <1>2. CASE Known(m)
    <2> DEFINE u == udp_connections[m]
               c == IF IsDone(u) THEN None ELSE RegisterIncoming(u)
    <2>1. AfterIncoming(m) = [udp_connections EXCEPT ![m] = c]
      BY <1>2 DEF AfterIncoming
    <2>2. u \in UdpConnection
      BY <1>2 DEF PipeTypeOK, Known
    <2>3. ~ IsDone(u) =>
            /\ RegisterIncoming(u) \in UdpConnection
            /\ IF IsPlainDns(m) THEN RegisterIncoming(u).pending_queries \in 1 .. MaxQueries
                                ELSE RegisterIncoming(u).pending_queries = None
      <3>1. CASE IsPlainDns(m)
        <4>1. u.pending_queries \in 1 .. MaxQueries
          BY <1>2, <3>1 DEF DnsFlowsArePending
        <4>2. QED
          BY <3>1, <4>1, <2>2, UdpPipeAssumption
          DEF IsDone, Answered, RegisterIncoming, UdpConnection, Expiry
      <3>2. CASE ~ IsPlainDns(m)
        <4>1. u.pending_queries = None
          BY <1>2, <3>2 DEF DnsFlowsArePending
        <4>2. QED
          BY <3>2, <4>1, <2>2, UdpPipeAssumption DEF RegisterIncoming, UdpConnection, Expiry
      <3>3. QED
        BY <3>1, <3>2
    <2>4. QED
      BY <1>2, <2>1, <2>2, <2>3, NoneIsNoConnection DEF PipeTypeOK
  <1>3. QED
    BY <1>1, <1>2

\* The timer's table has the unexpired entries, one tick older.
LEMMA TickTable ==
  ASSUME PipeTypeOK, NEW expired \in ExpiredSets
  PROVE  /\ AfterTick(expired) \in [Metas -> UdpConnection \cup {None}]
         /\ \A m \in Metas :
              /\ AfterTick(expired)[m] # None => Known(m) /\ m \notin expired
              /\ AfterTick(expired)[m] # None =>
                   AfterTick(expired)[m].pending_queries = udp_connections[m].pending_queries
         /\ \A m \in expired : m \in Metas /\ Known(m)
  <1>1. ASSUME NEW m \in Metas, Known(m), m \notin expired
        PROVE  [udp_connections[m] EXCEPT !.idle = @ + 1] \in UdpConnection
    <2>1. udp_connections[m] \in UdpConnection
      BY <1>1 DEF PipeTypeOK, Known
    <2>2. ~ (udp_connections[m].idle + 1 >= Expiry)
      BY <1>1 DEF ExpiredSets
    <2>3. QED
      BY <2>1, <2>2, UdpPipeAssumption DEF UdpConnection, Expiry
  <1>2. ASSUME NEW m \in Metas, Known(m)
        PROVE  [udp_connections[m] EXCEPT !.idle = @ + 1].pending_queries
                 = udp_connections[m].pending_queries
    <2>1. udp_connections[m] \in UdpConnection
      BY <1>2 DEF PipeTypeOK, Known
    <2>2. QED
      BY <2>1 DEF UdpConnection
  <1>3. \A m \in expired : m \in Metas /\ Known(m)
    BY DEF ExpiredSets
  <1>4. QED
    BY <1>1, <1>2, <1>3 DEF AfterTick

--------------------------------------------------------------------------------
\* The initial multiplexer, with no flow, satisfies the invariant.
LEMMA DirectInvInit == Init => DirectInv
  BY Zenon DEF Init, PipeInit, DirectInv, TypeOK, PipeTypeOK, OnlyFlows, DnsFlowsArePending,
         FlowsHaveSockets, EverySocketIsWatched, ListenedAreWatched, Known, HasSocket

\* A closed multiplexer satisfies the invariant.
LEMMA CloseStep == Close => DirectInv'
  BY Zenon DEF Close, DirectInv, TypeOK, PipeTypeOK, OnlyFlows, DnsFlowsArePending,
         FlowsHaveSockets, EverySocketIsWatched, ListenedAreWatched, Known, HasSocket

\* The left half's steps: a flow gets its entry and its socket together, and a
\* socket not watched yet is the one being sent on or has left a wake message.
LEMMA LeftStep ==
  ASSUME DirectInv, NEW m \in Flows,
         ReadKnown(m) \/ ReadNew(m) \/ DropNew(m)
  PROVE  DirectInv'
  <1> m \in Metas
    BY DEF Metas
  <1> USE DEF DirectInv
  <1>1. CASE ReadKnown(m)
    <2>1. CASE HasSocket(m)
      <3>1. /\ udp_connections' = AfterOutgoing(m)
            /\ sending' = m /\ sending = None
            /\ UNCHANGED <<closed, connections, watched, woken>>
        BY <1>1, <2>1 DEF ReadKnown
      <3>2. MaySend(m)
        BY <1>1 DEF ReadKnown
      <3>3. TypeOK'
        BY <3>1, <3>2, OutgoingTable DEF TypeOK, PipeTypeOK
      <3>4. OnlyFlows' /\ DnsFlowsArePending'
        BY <3>1, <3>2, OutgoingTable
        DEF TypeOK, OnlyFlows, DnsFlowsArePending, Known, IsPlainDns
      <3>5. FlowsHaveSockets'
        BY <2>1, <3>1, <3>2, OutgoingTable DEF TypeOK, FlowsHaveSockets, Known, HasSocket
      <3>6. EverySocketIsWatched' /\ ListenedAreWatched'
        BY <3>1, NoneIsNoSocket DEF EverySocketIsWatched, ListenedAreWatched, HasSocket
      <3>7. QED
        BY <3>3, <3>4, <3>5, <3>6
    <2>2. CASE ~ HasSocket(m)
      BY <1>1, <2>2 DEF ReadKnown, FlowsHaveSockets
    <2>3. QED
      BY <2>1, <2>2
  <1>2. CASE ReadNew(m)
    <2> DEFINE c == [being_listened |-> FALSE, inbox |-> 0]
    <2>0. FALSE \in BOOLEAN /\ 0 \in 0 .. MaxInbox
      BY UdpDirectAssumption
    <2>1. c \in Connection /\ c # None /\ ~ c.being_listened
      <3>1. c \in Connection
        BY <2>0 DEF Connection
      <3>2. c.being_listened = FALSE
        OBVIOUS
      <3>3. QED
        BY <3>1, <3>2, NoneIsNoSocket, Zenon
    <2> HIDE DEF c
    <2>2. /\ udp_connections' = AfterOutgoing(m)
          /\ connections' = [connections EXCEPT ![m] = c]
          /\ sending' = m
          /\ UNCHANGED <<closed, watched, woken>>
          /\ MaySend(m) /\ sending = None
      BY <1>2 DEF c, ReadNew, MaySend
    <2>3. TypeOK'
      BY <2>1, <2>2, OutgoingTable DEF TypeOK, PipeTypeOK
    <2>4. OnlyFlows' /\ DnsFlowsArePending'
      BY <2>2, OutgoingTable DEF TypeOK, OnlyFlows, DnsFlowsArePending, Known, IsPlainDns
    <2>5. FlowsHaveSockets'
      BY <2>1, <2>2, OutgoingTable DEF TypeOK, FlowsHaveSockets, Known, HasSocket
    <2>6. EverySocketIsWatched' /\ ListenedAreWatched'
      BY <2>1, <2>2, NoneIsNoSocket
      DEF TypeOK, EverySocketIsWatched, ListenedAreWatched, HasSocket
    <2>7. QED
      BY <2>3, <2>4, <2>5, <2>6
  <1>3. CASE DropNew(m)
    BY <1>3 DEF DropNew, vars, TypeOK, PipeTypeOK, OnlyFlows, DnsFlowsArePending,
                FlowsHaveSockets, EverySocketIsWatched, ListenedAreWatched, Known, HasSocket
  <1>4. QED
    BY <1>1, <1>2, <1>3

\* A completed send marks its socket as listened to and leaves a wake message.
LEMMA SentStep == DirectInv /\ Sent => DirectInv'
  <1> SUFFICES ASSUME DirectInv, Sent PROVE DirectInv'
    OBVIOUS
  <1> USE DEF DirectInv
  <1>1. UNCHANGED <<udp_connections, closed, watched>> /\ sending' = None
    BY DEF Sent
  <1>2. sending \in Metas
    BY DEF Sent, TypeOK, Metas
  <1>3. CASE HasSocket(sending) /\ ~ connections[sending].being_listened
    <2> DEFINE c == [connections[sending] EXCEPT !.being_listened = TRUE]
    <2>1. c \in Connection /\ c # None
      BY <1>2, <1>3, NoneIsNoSocket, Zenon DEF TypeOK, HasSocket, Connection
    <2>2. connections' = [connections EXCEPT ![sending] = c] /\ woken' = TRUE
      BY <1>3 DEF Sent
    <2> HIDE DEF c
    <2>3. QED
      BY <1>1, <1>2, <2>1, <2>2
      DEF TypeOK, PipeTypeOK, OnlyFlows, DnsFlowsArePending, FlowsHaveSockets,
          EverySocketIsWatched, ListenedAreWatched, Known, HasSocket
  <1>4. CASE ~ (HasSocket(sending) /\ ~ connections[sending].being_listened)
    <2>1. UNCHANGED <<connections, woken>>
      BY <1>4 DEF Sent
    <2>2. QED
      BY <1>1, <1>4, <2>1
      DEF TypeOK, PipeTypeOK, OnlyFlows, DnsFlowsArePending, FlowsHaveSockets,
          EverySocketIsWatched, ListenedAreWatched, Known, HasSocket
  <1>5. QED
    BY <1>3, <1>4

\* What the right half's steps have in common: after a step that only takes
\* entries and sockets away or empties an inbox, poll_events watches all.
LEMMA PollStep ==
  ASSUME DirectInv,
         udp_connections' \in [Metas -> UdpConnection \cup {None}],
         connections' \in [Metas -> Connection \cup {None}],
         OnlyFlows', DnsFlowsArePending', FlowsHaveSockets',
         sending' \in Flows \cup {None},
         watched' = Sockets(connections'),
         closed' \in BOOLEAN, woken' \in BOOLEAN
  PROVE  DirectInv'
  BY DEF DirectInv, TypeOK, PipeTypeOK, Sockets, EverySocketIsWatched, ListenedAreWatched,
         HasSocket

\* The right half's steps: an entry and its socket go together.
LEMMA RightStep ==
  ASSUME DirectInv, NEW m \in Flows, RelayReply(m) \/ SocketError(m)
  PROVE  DirectInv'
  <1> m \in Metas
    BY DEF Metas
  <1>0. TypeOK /\ PipeTypeOK /\ OnlyFlows /\ DnsFlowsArePending /\ FlowsHaveSockets
    BY DEF DirectInv, TypeOK
  <1>1. CASE RelayReply(m)
    <2> DEFINE done == Known(m) /\ IsDone(udp_connections[m])
               c == [connections[m] EXCEPT !.inbox = @ - 1]
    <2>1. c \in Connection /\ c # None
      <3>1. connections[m] \in Connection /\ connections[m].inbox > 0
        BY <1>0, <1>1 DEF RelayReply, TypeOK, HasSocket
      <3>2. QED
        BY <3>1, UdpDirectAssumption, NoneIsNoSocket DEF Connection
    <2>2. connections' = [connections EXCEPT ![m] = IF done THEN None ELSE c]
      BY <1>1, Zenon DEF RelayReply
    <2> HIDE DEF c
    <2>3. /\ udp_connections' = AfterIncoming(m)
          /\ watched' = Sockets(connections')
          /\ UNCHANGED <<closed, sending, woken>>
      BY <1>1 DEF RelayReply
    <2>4. /\ udp_connections' \in [Metas -> UdpConnection \cup {None}]
          /\ connections' \in [Metas -> Connection \cup {None}]
      BY <1>0, <2>1, <2>2, <2>3, IncomingTable DEF TypeOK
    <2>5. OnlyFlows' /\ DnsFlowsArePending'
      BY <1>0, <2>3, IncomingTable DEF OnlyFlows, DnsFlowsArePending, Known, IsPlainDns
    <2>6. FlowsHaveSockets'
      BY <1>0, <2>1, <2>2, <2>3, IncomingTable DEF TypeOK, FlowsHaveSockets, Known, HasSocket
    <2>7. QED
      BY <1>0, <2>3, <2>4, <2>5, <2>6, PollStep DEF TypeOK, PipeTypeOK
  <1>2. CASE SocketError(m)
    <2>1. /\ connections' = [connections EXCEPT ![m] = None]
          /\ udp_connections' = [udp_connections EXCEPT ![m] = None]
          /\ watched' = Sockets(connections')
          /\ UNCHANGED <<closed, sending, woken>>
      BY <1>2 DEF SocketError
    <2>2. /\ udp_connections' \in [Metas -> UdpConnection \cup {None}]
          /\ connections' \in [Metas -> Connection \cup {None}]
      BY <1>0, <2>1 DEF TypeOK, PipeTypeOK
    <2>3. OnlyFlows' /\ DnsFlowsArePending' /\ FlowsHaveSockets'
      BY <1>0, <2>1
      DEF TypeOK, PipeTypeOK, OnlyFlows, DnsFlowsArePending, FlowsHaveSockets, Known, HasSocket,
          IsPlainDns
    <2>4. QED
      BY <1>0, <2>1, <2>2, <2>3, PollStep DEF TypeOK, PipeTypeOK
  <1>3. QED
    BY <1>1, <1>2

\* A wake message makes the right half watch all sockets.
LEMMA WakeStep == DirectInv /\ Wake => DirectInv'
  <1> SUFFICES ASSUME DirectInv, Wake PROVE DirectInv'
    OBVIOUS
  <1>0. TypeOK /\ PipeTypeOK /\ OnlyFlows /\ DnsFlowsArePending /\ FlowsHaveSockets
    BY DEF DirectInv, TypeOK
  <1>1. /\ watched' = Sockets(connections') /\ woken' = FALSE
        /\ UNCHANGED <<udp_connections, closed, connections, sending>>
    BY DEF Wake
  <1>2. OnlyFlows' /\ DnsFlowsArePending' /\ FlowsHaveSockets'
    BY <1>0, <1>1 DEF OnlyFlows, DnsFlowsArePending, FlowsHaveSockets, Known, HasSocket
  <1>3. QED
    BY <1>0, <1>1, <1>2, PollStep, Zenon DEF TypeOK, PipeTypeOK

\* The timer removes entries, and no socket of an entry that stays: the metas
\* it closes are those of flows, and the forwarder reverses them.
LEMMA TickStep == DirectInv /\ Tick => DirectInv'
  <1> SUFFICES ASSUME DirectInv, Tick PROVE DirectInv'
    OBVIOUS
  <1>0. TypeOK /\ PipeTypeOK /\ OnlyFlows /\ DnsFlowsArePending /\ FlowsHaveSockets
    BY DEF DirectInv, TypeOK
  <1>1. PICK expired \in ExpiredSets :
          /\ udp_connections' = AfterTick(expired)
          /\ connections' = CloseExpired(expired)
    BY DEF Tick
  <1>2. /\ sending' = None /\ watched' = Sockets(connections')
        /\ UNCHANGED <<closed, woken>>
    BY DEF Tick
  <1>3. /\ udp_connections' \in [Metas -> UdpConnection \cup {None}]
        /\ connections' \in [Metas -> Connection \cup {None}]
    BY <1>0, <1>1, TickTable DEF TypeOK, CloseExpired
  <1>4. OnlyFlows' /\ DnsFlowsArePending'
    BY <1>0, <1>1, TickTable DEF OnlyFlows, DnsFlowsArePending, Known
  <1>5. FlowsHaveSockets'
    <2> SUFFICES ASSUME NEW n \in Metas, Known(n)' PROVE HasSocket(n)'
      BY DEF FlowsHaveSockets
    <2>1. Known(n) /\ n \in Flows
      BY <1>0, <1>1, TickTable DEF Known, OnlyFlows
    <2>2. Reversed(n) \notin expired
      BY <1>0, <2>1, TickTable, Orientation DEF OnlyFlows
    <2>3. QED
      BY <1>0, <1>1, <2>1, <2>2 DEF CloseExpired, FlowsHaveSockets, HasSocket
  <1>6. QED
    BY <1>0, <1>2, <1>3, <1>4, <1>5, PollStep DEF TypeOK, PipeTypeOK

\* A peer's datagram changes an inbox only.
LEMMA PeerStep ==
  ASSUME DirectInv, NEW m \in Flows, PeerSends(m)
  PROVE  DirectInv'
  <1> m \in Metas
    BY DEF Metas
  <1> DEFINE c == [connections[m] EXCEPT !.inbox = @ + 1]
  <1>1. /\ c \in Connection /\ c # None
        /\ c.being_listened = connections[m].being_listened
    <2>1. connections[m] \in Connection /\ connections[m].inbox < MaxInbox
      BY DEF PeerSends, HasSocket, DirectInv, TypeOK
    <2>2. QED
      BY <2>1, UdpDirectAssumption, NoneIsNoSocket DEF Connection
  <1>2. /\ connections' = [connections EXCEPT ![m] = c] /\ HasSocket(m)
        /\ UNCHANGED <<udp_connections, closed, sending, watched, woken>>
    BY DEF PeerSends
  <1> HIDE DEF c
  <1>3. QED
    BY <1>1, <1>2
    DEF DirectInv, TypeOK, PipeTypeOK, OnlyFlows, DnsFlowsArePending, FlowsHaveSockets,
        EverySocketIsWatched, ListenedAreWatched, Known, HasSocket

--------------------------------------------------------------------------------
\* Every step of the multiplexer preserves the invariant.
LEMMA DirectInvStep == DirectInv /\ [Next]_vars => DirectInv'
  <1> SUFFICES ASSUME DirectInv, [Next]_vars PROVE DirectInv'
    OBVIOUS
  <1>1. CASE UNCHANGED vars
    BY <1>1 DEF vars, DirectInv, TypeOK, PipeTypeOK, OnlyFlows, DnsFlowsArePending,
                FlowsHaveSockets, EverySocketIsWatched, ListenedAreWatched, Known, HasSocket
  <1>2. ASSUME Sent \/ Wake \/ Tick PROVE DirectInv'
    BY <1>2, SentStep, WakeStep, TickStep
  <1>3. ASSUME SendFails \/ ClientGone PROVE DirectInv'
    BY <1>3, CloseStep DEF SendFails, ClientGone
  <1>4. ASSUME NEW m \in Flows, ReadKnown(m) \/ ReadNew(m) \/ DropNew(m) PROVE DirectInv'
    BY <1>4, LeftStep
  <1>5. ASSUME NEW m \in Flows, RelayReply(m) \/ SocketError(m) PROVE DirectInv'
    BY <1>5, RightStep
  <1>6. ASSUME NEW m \in Flows, ClientSinkFails(m) PROVE DirectInv'
    BY <1>6, CloseStep DEF ClientSinkFails
  <1>7. QED
    BY <1>1, <1>2, <1>3, <1>4, <1>5, <1>6, PeerStep DEF Next

\* The inductive invariant holds in every reachable state.
THEOREM DirectInvariant == Spec => []DirectInv
  BY DirectInvInit, DirectInvStep, PTL DEF Spec

\* A known flow always has its socket: NotFound never ends a multiplexer.
THEOREM NoStaleFlow == Spec => []FlowsHaveSockets
  <1>1. DirectInv => FlowsHaveSockets
    BY DEF DirectInv
  <1>2. QED
    BY <1>1, DirectInvariant, PTL

\* No socket is left unwatched, however sockets come and go.
THEOREM SocketsWatched == Spec => []EverySocketIsWatched
  <1>1. DirectInv => EverySocketIsWatched
    BY DEF DirectInv
  <1>2. QED
    BY <1>1, DirectInvariant, PTL

\* A DNS flow is kept exactly while it has unanswered queries.
THEOREM DnsPending == Spec => []DnsFlowsArePending
  <1>1. DirectInv => DnsFlowsArePending
    BY DEF DirectInv
  <1>2. QED
    BY <1>1, DirectInvariant, PTL

\* Types are correct in every reachable state.
THEOREM TypeCorrect == Spec => []TypeOK
  <1>1. DirectInv => TypeOK
    BY DEF DirectInv
  <1>2. QED
    BY <1>1, DirectInvariant, PTL

================================================================================
