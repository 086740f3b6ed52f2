-------------------------------- MODULE UdpPipe --------------------------------
(***************************************************************************)
(* The state of lib/src/udp_pipe.rs shared by its two halves: the table of  *)
(* UDP "connections" of one client multiplexer, what an outgoing and an     *)
(* incoming datagram do to an entry, and what the expiry timer selects.     *)
(* UdpDirect and UdpSocks5 put a forwarder behind it.                       *)
(*                                                                         *)
(* Both halves run in one task (futures::try_select), so a half runs        *)
(* undisturbed from one suspension to the next, and the timer drops both    *)
(* where they are suspended.                                                *)
(*                                                                         *)
(* Time is counted in timer ticks, one per timeout/4.  An entry's idle is   *)
(* the number of ticks since its last activity: after TicksPerTimeout + 1   *)
(* ticks more than the timeout has passed for certain, after                *)
(* TicksPerTimeout it may have, since a tick is never early.                *)
(***************************************************************************)
EXTENDS Naturals

CONSTANTS
  Sources,          \* addresses of the client's applications
  Destinations,     \* addresses of peers
  DnsDestinations,  \* those with port 53
  Private,          \* those in a network the settings do not allow
  None,             \* Rust's Option::None
  TicksPerTimeout,  \* timer ticks in udp_connections_timeout: 4 in the code
  MaxQueries        \* bound on outstanding queries of one DNS flow

ASSUME UdpPipeAssumption ==
  /\ Sources \cap Destinations = {}
  /\ DnsDestinations \subseteq Destinations
  /\ Private \subseteq Destinations
  /\ TicksPerTimeout \in Nat \ {0}
  /\ MaxQueries \in Nat \ {0}
  /\ None \notin Nat

\* A UdpDatagramMeta is <<source, destination>>.  A flow is the meta of a
\* datagram from the client; its replies carry the reversed meta.
Flows == Sources \X Destinations
Metas == Flows \cup (Destinations \X Sources)

Reversed(meta) == <<meta[2], meta[1]>>

Expiry == TicksPerTimeout + 1

UdpConnection == [idle : 0 .. Expiry, pending_queries : (0 .. MaxQueries) \cup {None}]

ASSUME NoneIsNoConnection == None \notin UdpConnection

VARIABLES
  udp_connections,  \* per meta: the pipe's entry, or None
  closed            \* the multiplexer ended

Known(meta) == udp_connections[meta] # None

PipeTypeOK ==
  /\ udp_connections \in [Metas -> UdpConnection \cup {None}]
  /\ closed \in BOOLEAN

PipeInit ==
  /\ udp_connections = [m \in Metas |-> None]
  /\ closed = FALSE

IsPlainDns(meta) == meta[2] \in DnsDestinations

\* register_outgoing_packet on a new connection.
NewConnection(meta) ==
  [idle |-> 0, pending_queries |-> IF IsPlainDns(meta) THEN 1 ELSE None]

\* register_outgoing_packet on a known connection.
RegisterOutgoing(conn) ==
  [idle |-> 0,
   pending_queries |-> IF conn.pending_queries = None THEN None ELSE conn.pending_queries + 1]

\* The bound of the model: a flow with MaxQueries queries sends no other.
MaySend(meta) == Known(meta) => udp_connections[meta].pending_queries # MaxQueries

\* pending_queries.saturating_sub(1)
Answered(queries) == IF queries = 0 THEN 0 ELSE queries - 1

\* register_incoming_packet returns Done: the last pending query is answered.
IsDone_OffByOne(conn) == conn.pending_queries = 0

IsDone(conn) == conn.pending_queries # None /\ Answered(conn.pending_queries) = 0

\* register_incoming_packet on a connection that goes on.
RegisterIncoming(conn) ==
  [idle |-> 0,
   pending_queries |-> IF conn.pending_queries = None THEN None ELSE Answered(conn.pending_queries)]

\* The entry a datagram of the client leaves.
AfterOutgoing(meta) ==
  [udp_connections EXCEPT
     ![meta] = IF Known(meta) THEN RegisterOutgoing(@) ELSE NewConnection(meta)]

\* The entry a reply leaves: RightPipe::on_udp_packet and, when Done, the
\* removal of the entry under the client's orientation of the meta.
AfterIncoming(meta) ==
  IF ~ Known(meta) THEN udp_connections
  ELSE [udp_connections EXCEPT ![meta] = IF IsDone(@) THEN None ELSE RegisterIncoming(@)]

\* The sets of entries on_timer_tick may find expired.
ExpiredSets ==
  LET late == {m \in Metas : Known(m) /\ udp_connections[m].idle + 1 >= Expiry}
      near == {m \in Metas : Known(m) /\ udp_connections[m].idle + 1 >= TicksPerTimeout}
  IN  {S \in SUBSET near : late \subseteq S}

\* The table after on_timer_tick removed the expired entries.
AfterTick(expired) ==
  [m \in Metas |->
     IF ~ Known(m) \/ m \in expired THEN None
     ELSE [udp_connections[m] EXCEPT !.idle = @ + 1]]

\* A plain DNS flow is in the table only while a query of it is unanswered,
\* and only DNS flows count queries: the answer to the last one removes the
\* entry at once (register_incoming_packet, UdpConnectionStatus::Done).
DnsFlowsArePending ==
  \A m \in Metas : Known(m) =>
    IF IsPlainDns(m) THEN udp_connections[m].pending_queries \in 1 .. MaxQueries
                     ELSE udp_connections[m].pending_queries = None

================================================================================
