------------------------------- MODULE HttpUdpMux -------------------------------
(***************************************************************************)
(* UDP and ICMP over one stream of an HTTP session of the client            *)
(* (http_udp_multiplexer.cpp, http_icmp_multiplexer.cpp): the table of UDP   *)
(* connections, the map from address pairs to them, the tasks that complete  *)
(* their opening and closing, and the parsers of the incoming streams.       *)
(*                                                                         *)
(* A stream is a sequence of units; a packet is a prefix of Prefix units and *)
(* a payload.  One step takes one unit, so every way of cutting the stream   *)
(* into chunks, with anything in between, is a behaviour.  The parser takes   *)
(* nothing of a packet whose length is too small or too large but the prefix: *)
(* from there on every unit may be the start of what it takes for a prefix.   *)
(***************************************************************************)
EXTENDS Naturals, Sequences

CONSTANTS
  Conns,       \* identifiers of UDP connections
  Addrs,       \* address pairs
  Prefix,      \* UDPPKT_IN_PREFIX_SIZE
  MaxPayload,  \* bound: units of payload
  Reply        \* ICMPPKT_REPLY_SIZE

\* A packet has a prefix, a reply is not empty, and no connection has the
\* identifier that stands for none.
None == "none"
ASSUME HttpUdpMuxAssumption ==
  Prefix \in Nat \ {0} /\ MaxPayload \in Nat /\ Reply \in Nat \ {0} /\ None \notin Conns

VARIABLES
  udp,    \* the HttpUdpMultiplexer
  icmp,   \* the HttpIcmpMultiplexer
  wire    \* the packet each stream is in the middle of, and whether its place is lost

vars == <<udp, icmp, wire>>

Idle == [state |-> "IDLE", buffer |-> 0, left |-> 0, id |-> None]
NoConn == [here |-> FALSE, addr |-> None, read |-> FALSE, ends |-> 0]
NoPacket == [addr |-> None, prefix |-> 0, payload |-> 0, fits |-> TRUE]

Init ==
  /\ udp = [state |-> "IDLE", error |-> FALSE,
            conn |-> [c \in Conns |-> NoConn],      \* m_connections
            addr_to_id |-> [a \in Addrs |-> None],
            recv |-> Idle,                          \* m_recv_connection
            queue |-> <<>>]                         \* submitted opening and closing tasks
  /\ icmp = [state |-> "IDLE", buffer |-> 0]
  /\ wire = [udp |-> NoPacket, icmp |-> 0, lost |-> FALSE]

Here(c) == udp.conn[c].here
Contains(s, e) == \E i \in 1..Len(s) : s[i] = e

\* A queue without the tasks of a connection.
Without(q, c) ==
  LET left[i \in 0..Len(q)] ==
        IF i = 0 THEN <<>>
        ELSE IF q[i].id = c THEN left[i - 1] ELSE Append(left[i - 1], q[i])
  IN left[Len(q)]

--------------------------------------------------------------------------------
(* The UDP connections.                                                      *)

\* Erasing a connection cancels its tasks; a payload being received for it is
\* dropped from now on.
clean_connection_data_Keeps(u, c) ==
  [u EXCEPT !.conn[c].here = FALSE, !.conn[c].ends = @ + 1,
            !.addr_to_id[u.conn[c].addr] = None,
            !.queue = Without(@, c)]
clean_connection_data(u, c) ==
  [u EXCEPT !.recv.state = IF u.recv.id = c THEN "DROPPING" ELSE @,
            !.conn[c].here = FALSE, !.conn[c].ends = @ + 1,
            !.addr_to_id[u.conn[c].addr] = None,
            !.queue = Without(@, c)]

reset(u) ==
  [u EXCEPT !.state = "IDLE", !.addr_to_id = [a \in Addrs |-> None], !.recv = Idle]

\* The listener has one connection per address pair: another one with the same
\* pair is already being closed.
open_connection(c) ==
  /\ ~Here(c) /\ udp.conn[c].addr = None
  /\ \E a \in Addrs :
       /\ \A d \in Conns : Here(d) /\ udp.conn[d].addr = a =>
                             Contains(udp.queue, [do |-> "close", id |-> d])
       /\ udp' = [udp EXCEPT !.state = "ESTABLISHED",
                             !.conn[c] = [NoConn EXCEPT !.here = TRUE, !.addr = a],
                             !.queue = Append(@, [do |-> "open", id |-> c])]
  /\ wire' = IF udp.state = "IDLE" THEN [wire EXCEPT !.udp = NoPacket, !.lost = FALSE] ELSE wire
  /\ UNCHANGED icmp

complete_udp_connection ==
  /\ udp.queue # <<>> /\ Head(udp.queue).do = "open"
  /\ LET c == Head(udp.queue).id
     IN  udp' = [udp EXCEPT !.queue = Tail(@),
                            !.addr_to_id[udp.conn[c].addr] = IF udp.state = "ESTABLISHED" THEN c ELSE @]
  /\ UNCHANGED <<icmp, wire>>

\* The tunnel closes a connection once, at once or with a task.
close_connection(c) ==
  /\ Here(c) /\ ~Contains(udp.queue, [do |-> "close", id |-> c])
  /\ \/ udp' = clean_connection_data(udp, c)
     \/ udp' = [udp EXCEPT !.queue = Append(@, [do |-> "close", id |-> c])]
  /\ UNCHANGED <<icmp, wire>>

CloseTask ==
  /\ udp.queue # <<>> /\ Head(udp.queue).do = "close"
  /\ udp' = clean_connection_data(udp, Head(udp.queue).id)
  /\ UNCHANGED <<icmp, wire>>

timer_callback ==
  /\ \E c \in Conns : Here(c) /\ udp' = clean_connection_data(udp, c)
  /\ UNCHANGED <<icmp, wire>>

set_read_enabled(c) ==
  /\ Here(c) /\ udp' = [udp EXCEPT !.conn[c].read = ~@]
  /\ UNCHANGED <<icmp, wire>>

\* A refused stream leaves an error for its closing.
handle_response ==
  /\ udp.state = "ESTABLISHED" /\ ~udp.error
  /\ udp' = [udp EXCEPT !.error = TRUE]
  /\ UNCHANGED <<icmp, wire>>

\* The stream or the session is closed.
close ==
  /\ udp.state = "ESTABLISHED"
  /\ udp' = reset([udp EXCEPT
              !.conn = [c \in Conns |-> IF Here(c) THEN [udp.conn[c] EXCEPT !.here = FALSE, !.ends = @ + 1]
                                        ELSE udp.conn[c]],
              !.queue = <<>>])
  /\ UNCHANGED <<icmp, wire>>

--------------------------------------------------------------------------------
(* The parser of the incoming UDP packets.                                   *)

\* What a prefix can say: addresses and a length.  A length below the size of
\* the rest of the prefix or above MAX_UDP_IN_PACKET_LENGTH does not fit.
Misfit == [addr |-> None, prefix |-> Prefix, payload |-> 0, fits |-> FALSE]
Packet == [addr : Addrs \cup {None}, prefix : {Prefix}, payload : 0..MaxPayload, fits : {TRUE}]
            \cup {Misfit}

\* A packet is dropped when nobody has its address pair or reads are disabled.
\* One whose length does not fit is dropped too, with nothing left to skip.
read_prefix(p) ==
  LET c == IF p.fits /\ p.addr \in Addrs THEN udp.addr_to_id[p.addr] ELSE None
      drop == c = None \/ ~Here(c) \/ ~udp.conn[c].read
  IN  [state |-> IF drop THEN "DROPPING" ELSE "PAYLOAD", buffer |-> 0,
       left |-> IF p.fits THEN p.payload ELSE 0, id |-> IF drop THEN None ELSE c]

\* A packet whose payload is empty is only finished by the unit after it.
Finished(r) == r.state # "IDLE" /\ r.left = 0

StartPacket(p) == wire.udp.prefix = 0 /\ wire.udp.payload = 0 /\ p.prefix = Prefix

\* The stream after a unit of p.  The place is lost with the prefix that does
\* not fit, and the stream has no packets after that.
Onwards(p) ==
  IF wire.lost \/ (~p.fits /\ p.prefix = 1)
  THEN [wire EXCEPT !.udp = NoPacket, !.lost = TRUE]
  ELSE [wire EXCEPT !.udp = IF p.prefix > 0 THEN [p EXCEPT !.prefix = @ - 1]
                            ELSE [p EXCEPT !.payload = @ - 1]]

\* process_read_event with the next unit: of the packet in progress, of a new
\* one, or of anything at all once the place is lost.
process_read_event ==
  /\ udp.state = "ESTABLISHED"
  /\ \E p \in Packet \cup {wire.udp} :
       /\ IF wire.udp.prefix = 0 /\ wire.udp.payload = 0 THEN StartPacket(p) ELSE p = wire.udp
       /\ LET r == IF Finished(udp.recv) THEN Idle ELSE udp.recv
              next == IF r.state # "IDLE"
                      THEN IF r.left = 1 THEN Idle ELSE [r EXCEPT !.left = @ - 1]
                      ELSE IF r.buffer + 1 < Prefix THEN [r EXCEPT !.buffer = @ + 1]
                      ELSE read_prefix(p)
          IN  udp' = [udp EXCEPT !.recv = next]
       /\ wire' = Onwards(p)
  /\ UNCHANGED icmp

--------------------------------------------------------------------------------
(* ICMP.                                                                     *)

send_request ==
  /\ icmp.state = "IDLE"
  /\ icmp' = [icmp EXCEPT !.state = "ESTABLISHED"] /\ wire' = [wire EXCEPT !.icmp = 0]
  /\ UNCHANGED udp

IcmpClose ==
  /\ icmp.state = "ESTABLISHED"
  /\ icmp' = [state |-> "IDLE", buffer |-> 0]
  /\ UNCHANGED <<udp, wire>>

process_reply_chunk ==
  /\ icmp.state = "ESTABLISHED"
  /\ icmp' = [icmp EXCEPT !.buffer = IF @ + 1 = Reply THEN 0 ELSE @ + 1]
  /\ wire' = [wire EXCEPT !.icmp = (@ + 1) % Reply]
  /\ UNCHANGED udp

Next ==
  \/ \E c \in Conns : open_connection(c) \/ close_connection(c) \/ set_read_enabled(c)
  \/ complete_udp_connection \/ CloseTask \/ timer_callback \/ handle_response \/ close
  \/ process_read_event \/ send_request \/ IcmpClose \/ process_reply_chunk

Spec == Init /\ [][Next]_vars

--------------------------------------------------------------------------------
(* Properties.                                                               *)

\* As long as every length in the stream fits, the parser of the UDP stream keeps
\* to the boundaries of packets, wherever a chunk ends and whatever is closed,
\* disabled or timed out in between: what it still expects is what the stream
\* still has.  The same of the ICMP replies, which have one length.  And the
\* assertion of process_read_event, whatever the stream holds: a payload is
\* received only for a connection in the table.
ParsersKeepFraming ==
  /\ udp.state = "ESTABLISHED" /\ ~wire.lost =>
       IF udp.recv.state = "IDLE"
       THEN udp.recv.buffer = IF wire.udp.prefix = 0 THEN 0 ELSE Prefix - wire.udp.prefix
       ELSE wire.udp.prefix = 0 /\ udp.recv.left = wire.udp.payload
  /\ udp.recv.state = "PAYLOAD" => Here(udp.recv.id)
  /\ icmp.state = "ESTABLISHED" => icmp.buffer = wire.icmp

\* Packets reach the connection the client has: an open connection that is not
\* being closed is the one its address pair is mapped to, though an older one
\* with the same pair may have been closed at any moment, and a mapped
\* connection is in the table.
AddressesAgree ==
  /\ \A c \in Conns :
       Here(c) /\ (\A i \in 1..Len(udp.queue) : udp.queue[i].id # c) =>
         udp.addr_to_id[udp.conn[c].addr] = c
  /\ \A a \in Addrs : udp.addr_to_id[a] # None =>
       Here(udp.addr_to_id[a]) /\ udp.conn[udp.addr_to_id[a]].addr = a

\* What arrives in the multiplexed streams is cut at the boundaries of packets, as
\* long as their lengths are acceptable, and the address map leads to the
\* connections the tunnel has, while connections come and go.
PacketsFindConnections == ParsersKeepFraming /\ AddressesAgree

\* The log of read_prefix says of a packet of unacceptable length that it is
\* dropped: the stream then goes on with the next packet.
\* Does not hold: only the prefix is skipped (http_udp_multiplexer.cpp:249-266),
\* and the payload is read as prefixes until the stream is closed.
MisfitsAreSkipped == udp.state = "ESTABLISHED" => ~wire.lost

\* reset is documented to bring the multiplexer to its idle state.
\* Does not hold: reset keeps the error.
IdleHasNoError == udp.state = "IDLE" => ~udp.error
===============================================================================
