---------------------------- MODULE Socks5Listener ----------------------------
(***************************************************************************)
(* The SOCKS5 listener of the client: net/src/socks5_listener.cpp and its  *)
(* wrapper core/src/socks_listener.cpp.  A TCP connection goes through the *)
(* handshake and then either becomes a connection of the tunnel or carries *)
(* a UDP association, whose datagrams make UDP connections of the tunnel.  *)
(* The tunnel above is the environment.  The handshake messages are        *)
(* reduced to what their checks decide.  A failed write to the TCP socket  *)
(* closes the connection (SocketEnds), except in complete_udp_association, *)
(* where it is undefined behaviour: `wild', after which nothing is said.   *)
(***************************************************************************)
EXTENDS Naturals, FiniteSets

CONSTANTS MaxId,    \* ids 1..MaxId are handed out in order
          Keys,     \* address pairs of UDP connections
          Password, \* whether a user name and a password are configured
          Buckets,  \* buckets of the connection table (khash, power of two), at least MaxId
          MaxPend   \* bound on datagrams waiting for the connect result

Ids == 1..MaxId

VARIABLES sc,     \* sc[i]: connections_by_id
          relays, \* keys of udp_relays: ids of the TCP connections
          next,   \* next id of the generator
          asked,  \* ids for which a connect request was raised
          told,   \* told[i]: CONNECTION_CLOSED events raised with id i
          tasks,  \* ids in conns_with_pending_udp, and deferred closes
          on      \* "up", "stopped", or "wild": the behaviour is undefined

vars == <<sc, relays, next, asked, told, tasks, on>>

Absent == [st |-> "absent", proto |-> "none", relay |-> 0, key |-> "none", pend |-> 0,
           readable |-> FALSE, sent |-> FALSE, unflushed |-> FALSE]

Init == /\ sc = [i \in Ids |-> Absent]
        /\ relays = {}
        /\ next = 1
        /\ asked = {}
        /\ told = [i \in 0..MaxId |-> 0]
        /\ tasks = [pending |-> {}, close |-> {}]
        /\ on = "up"

Live(i) == sc[i].st # "absent"

(* A new connection does not make the table grow: khash keeps its number   *)
(* of buckets while at most half of them are in use.                       *)
Room == on = "up" /\ next <= MaxId /\ 2 * Cardinality({i \in Ids : Live(i)}) < Buckets

Association(i) == sc[i].proto = "none" /\ i \in relays

(* CONNECTION_CLOSED for the ids of a set; counted up to two.              *)
Report(ids) == told' = [i \in 0..MaxId |-> IF i \in ids /\ told[i] < 2 THEN told[i] + 1 ELSE told[i]]

(* destroy_connection for a set of ids.                                    *)
Destroy(ids) == sc' = [i \in Ids |-> IF i \in ids THEN Absent ELSE sc[i]]

(* The states in which the label close of sock_handler reports.            *)
Reported == {"result", "accept", "established", "failed"}

(* The label close: report if a connect result was ever awaited, destroy.  *)
Close(i) == /\ Report(IF sc[i].st \in Reported THEN {i} ELSE {})
            /\ Destroy({i})
            /\ UNCHANGED <<relays, next, asked, tasks, on>>

UdpOf(t) == {i \in Ids : Live(i) /\ sc[i].proto = "udp" /\ sc[i].relay = t}

(* The UDP connections stay in connections_by_id: destroy_connection not   *)
(* called for them.                                                        *)
terminate_udp_association_Keeps(t) ==
  /\ Report(UdpOf(t))
  /\ Destroy({t})
  /\ relays' = relays \ {t}
  /\ UNCHANGED <<next, asked, tasks, on>>

(* terminate_udp_association.                                              *)
terminate_udp_association(t) ==
  /\ Report(UdpOf(t))
  /\ Destroy(UdpOf(t) \cup {t})
  /\ relays' = relays \ {t}
  /\ UNCHANGED <<next, asked, tasks, on>>

-----------------------------------------------------------------------------
(* The client's TCP socket. *)

on_accept == /\ Room
             /\ sc' = [sc EXCEPT ![next] = [Absent EXCEPT !.st = "idle"]]
             /\ next' = next + 1
             /\ UNCHANGED <<relays, asked, told, tasks, on>>

(* READABLE in the states of the handshake: the message is complete and    *)
(* accepted or refused; a refusal waits for its reply to be flushed.       *)
Handshake(i, ok) ==
  /\ \/ /\ sc[i].st = "idle"
        /\ sc' = [sc EXCEPT ![i].st = IF ~ok THEN "failed" ELSE IF Password THEN "password" ELSE "request",
                            ![i].unflushed = TRUE]
     \/ /\ sc[i].st = "password"
        /\ sc' = [sc EXCEPT ![i].st = IF ok THEN "request" ELSE "failed", ![i].unflushed = TRUE]
  /\ UNCHANGED <<relays, next, asked, told, tasks, on>>

(* READABLE in S5CONNS_WAITING_REQUEST: a connect request, or a request    *)
(* that is refused; a connect command refused for another field has        *)
(* already made the connection a TCP one.                                  *)
Connect(i) ==
  /\ sc[i].st = "request"
  /\ sc' = [sc EXCEPT ![i].st = "result", ![i].proto = "tcp"]
  /\ asked' = asked \cup {i}
  /\ UNCHANGED <<relays, next, told, tasks, on>>

RefuseRequest(i, proto) ==
  /\ sc[i].st = "request"
  /\ sc' = [sc EXCEPT ![i].st = "failed", ![i].proto = proto, ![i].unflushed = TRUE]
  /\ UNCHANGED <<relays, next, asked, told, tasks, on>>

(* A UDP association: complete_udp_association makes the relay, or fails   *)
(* to make its socket and replies so.  When the reply cannot be written it *)
(* terminates the association: one that was not made is looked up past the *)
(* end of udp_relays, and the connection of one that was made is written   *)
(* to by sock_handler after it was deleted.                                *)
Associate(i, made, written) ==
  /\ sc[i].st = "request"
  /\ sc' = IF written
           THEN [sc EXCEPT ![i].st = IF made THEN "established" ELSE "failed", ![i].unflushed = TRUE]
           ELSE [sc EXCEPT ![i] = IF made THEN Absent ELSE @]
  /\ relays' = IF made /\ written THEN relays \cup {i} ELSE relays
  /\ on' = IF written THEN on ELSE "wild"
  /\ UNCHANGED <<next, asked, told, tasks>>

(* Data on an established connection that the tunnel refuses, data in a    *)
(* wrong state, end of file, an error or a failed write: the association   *)
(* is terminated or the connection closed.                                 *)
SocketEnds(i) == /\ Live(i) /\ sc[i].proto # "udp"
                 /\ IF Association(i) THEN terminate_udp_association(i) ELSE Close(i)

(* WRITE_FLUSH.                                                            *)
Flush(i) ==
  /\ Live(i) /\ sc[i].proto # "udp" /\ sc[i].unflushed
  /\ IF Association(i) /\ sc[i].st = "established"
     THEN /\ sc' = [j \in Ids |-> IF j = i THEN [sc[i] EXCEPT !.unflushed = FALSE]
                                  ELSE IF j \in UdpOf(i) /\ sc[j].st = "established"
                                  THEN [sc[j] EXCEPT !.sent = FALSE] ELSE sc[j]]
          /\ UNCHANGED <<relays, next, asked, told, tasks, on>>
     ELSE IF sc[i].proto = "tcp" /\ sc[i].st = "failed" THEN Close(i)
     ELSE /\ sc' = [sc EXCEPT ![i].unflushed = FALSE,
                              ![i].st = IF sc[i].proto = "tcp" /\ @ = "accept" THEN "established" ELSE @]
          /\ UNCHANGED <<relays, next, asked, told, tasks, on>>

-----------------------------------------------------------------------------
(* The sockets of the associations. *)

(* udp_event_handler: process_udp_header finds or makes the connection of  *)
(* the address pair, handle_udp_read passes the datagram on, holds it back *)
(* or drops it.                                                            *)
UdpDatagram(t, k) ==
  LET known == {i \in UdpOf(t) : sc[i].key = k}
  IN  /\ on = "up" /\ t \in relays
      /\ IF known = {}
         THEN /\ Room
              /\ sc' = [sc EXCEPT ![next] = [Absent EXCEPT !.st = "result", !.proto = "udp", !.relay = t,
                                                           !.key = k, !.pend = 1]]
              /\ asked' = asked \cup {next}
              /\ next' = next + 1
              /\ UNCHANGED <<relays, told, tasks, on>>
         ELSE /\ \E i \in known : /\ sc[i].st = "result" /\ sc[i].pend < MaxPend
                                  /\ sc' = [sc EXCEPT ![i].pend = @ + 1]
              /\ UNCHANGED <<relays, next, asked, told, tasks, on>>

(* send_pending_udp_data: the held datagrams of one connection; the tunnel *)
(* may refuse one.                                                         *)
send_pending_udp_data(refused) ==
  LET due == {i \in tasks.pending : Live(i)}
      gone == {i \in refused : i \in due /\ sc[i].pend > 0}
  IN  /\ on = "up" /\ tasks.pending # {}
      /\ sc' = [i \in Ids |-> IF i \in gone THEN Absent
                              ELSE IF i \in due THEN [sc[i] EXCEPT !.pend = 0] ELSE sc[i]]
      /\ Report(gone)
      /\ tasks' = [tasks EXCEPT !.pending = {}]
      /\ UNCHANGED <<relays, next, asked, on>>

-----------------------------------------------------------------------------
(* The tunnel. *)

(* socks5_listener_complete_connect_request.                               *)
complete_connect_request(i, pass) ==
  /\ i \in asked /\ sc[i].st = "result"
  /\ \/ /\ sc[i].proto = "tcp"
        /\ \/ /\ sc' = [sc EXCEPT ![i].st = IF pass THEN "accept" ELSE "failed", ![i].unflushed = TRUE]
              /\ UNCHANGED told
           \/ Report({i}) /\ Destroy({i})
        /\ UNCHANGED tasks
     \/ /\ sc[i].proto = "udp" /\ pass
        /\ sc' = [sc EXCEPT ![i].st = "established"]
        /\ tasks' = [tasks EXCEPT !.pending = @ \cup {i}]
        /\ UNCHANGED told
     \/ /\ sc[i].proto = "udp" /\ ~pass
        /\ Report({i}) /\ Destroy({i}) /\ UNCHANGED tasks
  /\ UNCHANGED <<relays, next, asked, on>>

(* socks5_listener_close_connection, called by SocksListener at once or by *)
(* a deferred task.                                                        *)
CloseNow(i) == IF Live(i) THEN Report({i}) /\ Destroy({i}) ELSE UNCHANGED <<told, sc>>

close_connection(i, async) ==
  /\ on = "up" /\ i \in asked /\ told[i] = 0
  /\ IF async THEN tasks' = [tasks EXCEPT !.close = @ \cup {i}] /\ UNCHANGED <<told, sc>>
     ELSE CloseNow(i) /\ UNCHANGED tasks
  /\ UNCHANGED <<relays, next, asked, on>>

CloseTask(i) == /\ i \in tasks.close
                /\ tasks' = [tasks EXCEPT !.close = @ \ {i}]
                /\ CloseNow(i)
                /\ UNCHANGED <<relays, next, asked, on>>

(* socks5_listener_turn_read and socks5_listener_send_data on a UDP        *)
(* connection.                                                             *)
turn_read(i, enabled) == /\ sc[i].st = "established" /\ sc[i].proto = "udp" /\ sc[i].readable # enabled
                         /\ sc' = [sc EXCEPT ![i].readable = enabled]
                         /\ UNCHANGED <<relays, next, asked, told, tasks, on>>

send_data(i) == /\ sc[i].st = "established" /\ sc[i].proto = "udp" /\ ~sc[i].sent
                /\ sc' = [sc EXCEPT ![i].sent = TRUE]
                /\ UNCHANGED <<relays, next, asked, told, tasks, on>>

(* The place of an id in the table: the hash of an integer is the integer. *)
Bucket(i) == i % Buckets

(* socks5_listener_stop, from SocksListener::deinit: the associations are  *)
(* terminated, then the remaining connections destroyed; what is reported  *)
(* for those is the place of the connection in the table.                  *)
socks5_listener_stop ==
  LET udp == UNION {UdpOf(t) : t \in relays}
      rest == {i \in Ids : Live(i)} \ (udp \cup relays)
  IN  /\ on = "up"
      /\ on' = "stopped"
      /\ sc' = [i \in Ids |-> Absent]
      /\ relays' = {}
      /\ Report(udp \cup {Bucket(i) : i \in rest})
      /\ tasks' = [pending |-> {}, close |-> {}]
      /\ UNCHANGED <<next, asked>>

Next == /\ on # "wild"
        /\ \/ on_accept
           \/ socks5_listener_stop
           \/ \E refused \in SUBSET Ids : send_pending_udp_data(refused)
           \/ \E i \in Ids :
             \/ \E ok \in BOOLEAN : Handshake(i, ok)
             \/ Connect(i)
             \/ \E proto \in {"none", "tcp"} : RefuseRequest(i, proto)
             \/ \E made, written \in BOOLEAN : Associate(i, made, written)
             \/ SocketEnds(i)
             \/ Flush(i)
             \/ \E k \in Keys : UdpDatagram(i, k)
             \/ \E pass \in BOOLEAN : complete_connect_request(i, pass)
             \/ \E async \in BOOLEAN : close_connection(i, async)
             \/ CloseTask(i)
             \/ \E enabled \in BOOLEAN : turn_read(i, enabled)
             \/ send_data(i)

Spec == Init /\ [][Next]_vars

-----------------------------------------------------------------------------
(* The tables agree: a UDP connection is known by its id only while its    *)
(* association runs, and an association only while its TCP connection      *)
(* does, so the datagrams' handler always finds both (assert(0) in         *)
(* udp_event_handler); and while the listener runs a connection the tunnel *)
(* was asked about vanishes only with exactly one CONNECTION_CLOSED.  All  *)
(* this until the reply to a UDP ASSOCIATE cannot be written               *)
(* (AssociationEndsInOrder).                                               *)
TablesOfListenerAgree ==
  /\ \A t \in relays : Live(t) /\ sc[t].proto = "none"
  /\ \A i \in Ids : Live(i) /\ sc[i].proto = "udp" => sc[i].relay \in relays
  /\ on = "up" => \A i \in asked : told[i] = IF Live(i) THEN 0 ELSE 1

(* What the event says it carries (socks5_listener.h, "connection          *)
(* identifier"): when the listener stops, the tunnel is told of every      *)
(* connection it still had.                                                *)
(* Does not hold.                                                          *)
StopReportsConnections == on = "stopped" => \A i \in asked : told[i] = 1

(* The assertion of terminate_udp_association (socks5_listener.cpp:1171):   *)
(* it is called for an association, and its caller does not use the        *)
(* connection that it deletes (1450, 1522).                                *)
(* Does not hold: the reply to a UDP ASSOCIATE cannot be written (1021).   *)
AssociationEndsInOrder == on # "wild"

(* What sock_handler says of a failed connection ("just waiting for        *)
(* flush"): once its reply is flushed it does not stay.                    *)
(* Does not hold.                                                          *)
FailedEndsWithFlush == \A i \in Ids : sc[i].st = "failed" => sc[i].unflushed
=============================================================================
