----------------------------- MODULE DnsHandler -----------------------------
(***************************************************************************)
(* The DNS handler (core/src/dns_handler.cpp): to the tunnel it is an      *)
(* upstream for the connections to port 53 and, for the queries that keep  *)
(* their destination, a listener that opens a second connection for each   *)
(* of them.  Other queries go to the DNS proxies.  The tunnel and the      *)
(* proxies are the environment: the tunnel calls the handler as the        *)
(* interfaces ServerUpstream and ClientListener let it.                    *)
(***************************************************************************)
EXTENDS Naturals, FiniteSets

CONSTANTS Conns,     \* upstream-side connections (ids are never reused)
          MaxAsked,  \* bound on queries of one connection waiting at a proxy
          QueueSize  \* MAX_UDP_QUEUE_SIZE

Clients == {"user", "sys4", "sys6"}

VARIABLES up,    \* DnsHandlerServerUpstreamBase::m_connections and its lists
          li,    \* DnsHandlerClientListenerBase::m_connections, by upstream id
          px,    \* proxies, clients and parameters
          asked, \* asked[c][k]: queries of c in the map of client k
          dead_read \* whether the last CLIENT_EVENT_READ was on a closed connection

vars == <<up, li, px, asked, dead_read>>

NoUp == [st |-> "none", udp |-> FALSE, unanswered |-> 0]
NoLi == [st |-> "none", read |-> FALSE, pend |-> 0, closing |-> FALSE, tosend |-> FALSE]
NoQueries == [k \in Clients |-> 0]

(* configured: dns_upstreams is not empty; proxy and client: which of the  *)
(* three proxies and clients exist; connected and kill: the tunnel's       *)
(* endpoint_upstream_connected and the kill switch.                        *)
Init == /\ up = [c \in Conns |-> NoUp]
        /\ li = [c \in Conns |-> NoLi]
        /\ px \in [configured : BOOLEAN, proxy : {{}}, client : {{}}, connected : {FALSE},
                   kill : BOOLEAN, alt : BOOLEAN]
        /\ asked = [c \in Conns |-> NoQueries]
        /\ dead_read = FALSE

IsUdp(c) == up[c].udp

-----------------------------------------------------------------------------
(* Proxies. *)

(* start_dns_proxy when it succeeds: without user servers everything is    *)
(* dropped.  When it fails to resolve, start or initialize, the previous   *)
(* proxy, client and map stay.                                             *)
start_dns_proxy(p) ==
  IF ~p.configured THEN [p EXCEPT !.proxy = @ \ {"user"}, !.client = @ \ {"user"}]
  ELSE [p EXCEPT !.proxy = @ \cup {"user"}, !.client = @ \cup {"user"}]

(* start_system_dns_proxy: both system proxies are reset; then the IPv4    *)
(* and the IPv6 one start in that order and the first failure stops.  A    *)
(* client that fails to initialize leaves its proxy running.               *)
System == {"sys4", "sys6"}
start_system_dns_proxy(p, servers) ==
  LET reset == [p EXCEPT !.proxy = @ \ System, !.client = @ \ System]
      with(q, k) == [q EXCEPT !.proxy = @ \cup {k}, !.client = @ \cup {k}]
      bare(q, k) == [q EXCEPT !.proxy = @ \cup {k}]
      first == IF "sys4" \in servers THEN with(reset, "sys4") ELSE reset
      full == IF "sys6" \in servers THEN with(first, "sys6") ELSE first
  IN  [ok |-> {full},
       failed |-> (IF "sys4" \in servers THEN {reset, bare(reset, "sys4")} ELSE {})
                  \cup (IF "sys6" \in servers THEN {first, bare(first, "sys6")} ELSE {})]

(* A client that is restarted or dropped takes its map with it.            *)
Replaced(new, restarted) ==
  asked' = [c \in Conns |-> [k \in Clients |->
             IF k \in restarted \/ k \notin new.client THEN 0 ELSE asked[c][k]]]

(* on_dns_change, on_network_change and initialize: the user's proxy is    *)
(* restarted only when the system proxies could be.                        *)
RestartProxies ==
  \E servers \in SUBSET System :
    LET sys == start_system_dns_proxy(px, servers)
    IN  /\ \/ px' \in sys.failed /\ Replaced(px', System)
           \/ \E q \in sys.ok : \/ px' = start_dns_proxy(q) /\ Replaced(px', System \cup {"user"})
                                \/ px' = q /\ q.configured /\ Replaced(px', System)
        /\ UNCHANGED <<up, li, dead_read>>

(* update_parameters.                                                      *)
update_parameters(configured) ==
  LET p == [px EXCEPT !.configured = configured]
  IN  /\ \/ px' = start_dns_proxy(p) /\ Replaced(px', {"user"})
         \/ px' = p /\ configured /\ Replaced(px', {})
      /\ UNCHANGED <<up, li, dead_read>>

(* The tunnel's endpoint connects or is lost.                              *)
EndpointChanges == /\ px' = [px EXCEPT !.connected = ~@]
                   /\ UNCHANGED <<up, li, asked, dead_read>>

-----------------------------------------------------------------------------
(* Listener side. *)

(* CLIENT_EVENT_CONNECTION_CLOSED: the tunnel forgets the connection; the  *)
(* handler's entry stays.                                                  *)
ToldClosed(l) == [l EXCEPT !.st = "closed"]

(* close_connection, synchronous or by the task.                           *)
CloseListener(l, async) == IF l.st = "none" THEN l
                           ELSE IF async THEN [l EXCEPT !.closing = TRUE] ELSE ToldClosed(l)

(* raise_read: the pending messages are offered; a UDP failure drops them, *)
(* a TCP failure is fatal, a TCP tunnel may take a part.                   *)
Offered(c, l) ==
  IF ~l.read \/ l.pend = 0 THEN {l}
  ELSE IF IsUdp(c) THEN {[l EXCEPT !.pend = 0]}
  ELSE {[l EXCEPT !.pend = 0], l}

RaisesRead(l) == l.read /\ l.pend > 0

(* send_as_listener.                                                       *)
SendAsListener(c) ==
  LET l == li[c]
  IN  IF l.st = "none"
      THEN /\ li' = [li EXCEPT ![c] = [NoLi EXCEPT !.st = "asked", !.pend = 1]]
           /\ dead_read' = FALSE
      ELSE IF IsUdp(c)
      THEN /\ li' = [li EXCEPT ![c].pend = IF ~l.read /\ @ < QueueSize THEN @ + 1 ELSE @]
           /\ dead_read' = (l.read /\ l.st = "closed")
      ELSE /\ \/ \E q \in Offered(c, [l EXCEPT !.pend = 1]) : li' = [li EXCEPT ![c] = q]
              \/ l.read /\ li' = [li EXCEPT ![c] = CloseListener([l EXCEPT !.pend = 1], TRUE)]
           /\ dead_read' = (l.read /\ l.st = "closed")

-----------------------------------------------------------------------------
(* Upstream side. *)

open_connection(c, udp) == /\ up[c].st = "none"
                           /\ up' = [up EXCEPT ![c].st = "new", ![c].udp = udp]
                           /\ UNCHANGED <<li, px, asked, dead_read>>

(* close_connection keeps the second connection: the call of               *)
(* on_upstream_connection_closed left out.                                 *)
CloseUpstream_Alone(c, async) ==
  IF up[c].st = "new" THEN up' = [up EXCEPT ![c].st = "forgotten"] /\ UNCHANGED li
  ELSE up' = [up EXCEPT ![c].st = IF async THEN "closing" ELSE "gone"] /\ UNCHANGED li

(* close_connection: before the opening was reported only the report is    *)
(* cancelled; otherwise the entry goes, the listener's connection is       *)
(* closed at once, and the tunnel is told now or by the task.              *)
CloseUpstream(c, async) ==
  IF up[c].st = "new" THEN up' = [up EXCEPT ![c].st = "forgotten"] /\ UNCHANGED li
  ELSE /\ up' = [up EXCEPT ![c].st = IF async THEN "closing" ELSE "gone"]
       /\ li' = [li EXCEPT ![c] = CloseListener(@, FALSE)]

close_connection(c, async) == /\ up[c].st \in {"new", "open"}
                              /\ CloseUpstream(c, async)
                              /\ UNCHANGED <<px, asked, dead_read>>

(* on_async_task.                                                          *)
UpTask == /\ \E c \in Conns : up[c].st \in {"new", "closing"}
          /\ up' = [c \in Conns |-> [up[c] EXCEPT !.st = IF @ = "new" THEN "open"
                                                         ELSE IF @ = "closing" THEN "gone" ELSE @]]
          /\ UNCHANGED <<li, px, asked, dead_read>>

(* on_dns_request: where a query goes.  decoded: it is a request with a    *)
(* name; app: one of the application's own domains; included: it is to be  *)
(* tunnelled; internal: it is addressed to an internal DNS marker.         *)
on_dns_request(p, q) ==
  IF ~q.decoded
  THEN IF q.internal THEN IF p.configured THEN "user" ELSE "system" ELSE "listener"
  ELSE IF ~p.connected
  THEN IF p.kill /\ ~q.app THEN "drop"
       ELSE IF q.internal THEN IF p.configured THEN "user" ELSE "system"
       ELSE IF p.alt THEN "listener" ELSE "system"
  ELSE IF q.included /\ p.configured THEN IF "user" \in p.client THEN "user" ELSE "drop"
  ELSE IF q.internal \/ (~q.included /\ ~p.alt) THEN "system" ELSE "listener"

(* The client send_request picks, or none.                                 *)
ClientFor(p, system, v6) ==
  LET k == IF ~system THEN "user"
           ELSE IF (v6 /\ "sys6" \in p.client) \/ "sys4" \notin p.client THEN "sys6" ELSE "sys4"
  IN  IF k \in p.client THEN {k} ELSE {}

Queries == [decoded : BOOLEAN, app : BOOLEAN, included : BOOLEAN, internal : BOOLEAN]

Routes == {on_dns_request(px, q) : q \in Queries}

(* send: one DNS message of the application, for which on_dns_request      *)
(* chose the route `to'.                                                   *)
send(c, to, v6) ==
  LET k == ClientFor(px, to = "system", v6)
  IN  /\ up[c].st = "open" /\ to \in Routes
      /\ up[c].unanswered <= QueueSize \* bound: enough to fill the queue
      /\ up' = [up EXCEPT ![c].unanswered = IF IsUdp(c) THEN @ + 1 ELSE @]
      /\ \/ to = "listener" /\ SendAsListener(c) /\ UNCHANGED asked
         \/ to \in {"user", "system"} /\ UNCHANGED <<li, dead_read>>
            /\ \/ \E x \in k : asked[c][x] < MaxAsked /\ asked' = [asked EXCEPT ![c][x] = @ + 1]
               \/ UNCHANGED asked
         \/ to = "drop" /\ UNCHANGED <<li, asked, dead_read>>
      /\ UNCHANGED px

(* send_response: the reply is handed to the tunnel, which takes it or     *)
(* not; a UDP connection with nothing left unanswered closes itself, and   *)
(* so does a TCP connection whose reply is refused.                        *)
SendResponse(c, taken) ==
  IF up[c].st # "open" \/ (IsUdp(c) <=> ~taken) THEN UNCHANGED <<up, li>>
  ELSE IF IsUdp(c) /\ up[c].unanswered > 1
  THEN up' = [up EXCEPT ![c].unanswered = @ - 1] /\ UNCHANGED li
  ELSE CloseUpstream(c, FALSE)

(* client_handler: a proxy answers, or the query failed or timed out.      *)
client_handler(c, k, answered, taken) ==
  /\ k \in px.client
  /\ asked[c][k] > 0
  /\ asked' = [asked EXCEPT ![c][k] = @ - 1]
  /\ IF answered THEN SendResponse(c, taken) ELSE UNCHANGED <<up, li>>
  /\ UNCHANGED <<px, dead_read>>

-----------------------------------------------------------------------------
(* The tunnel on the listener's connections. *)

(* complete_connect_request with CCR_PASS: reading is enabled, the tunnel  *)
(* told, and what is pending offered.                                      *)
CompletePass(c) ==
  /\ li[c].st = "asked" /\ ~li[c].read
  /\ LET l == [li[c] EXCEPT !.st = "open", !.read = TRUE]
     IN  \/ \E q \in Offered(c, l) : li' = [li EXCEPT ![c] = q]
         \/ ~IsUdp(c) /\ li' = [li EXCEPT ![c] = ToldClosed(l)]
  /\ UNCHANGED <<up, px, asked, dead_read>>

CompleteReject(c) == /\ li[c].st = "asked" /\ ~li[c].read
                     /\ li' = [li EXCEPT ![c] = ToldClosed(@)]
                     /\ UNCHANGED <<up, px, asked, dead_read>>

(* turn_read: only TCP data is sent again.                                 *)
turn_read(c, on) ==
  /\ li[c].st = "open" /\ li[c].read # on
  /\ li' = [li EXCEPT ![c].read = on,
                      ![c].tosend = @ \/ (on /\ ~IsUdp(c) /\ li[c].pend > 0)]
  /\ UNCHANGED <<up, px, asked, dead_read>>

TunnelClosesListener(c, async) == /\ li[c].st \in {"asked", "open"}
                                  /\ li' = [li EXCEPT ![c] = CloseListener(@, async)]
                                  /\ UNCHANGED <<up, px, asked, dead_read>>

(* ClientListener::send: a reply arrives on the listener's connection.     *)
ListenerReply(c, taken) == /\ li[c].st = "open"
                           /\ SendResponse(c, taken)
                           /\ UNCHANGED <<px, asked, dead_read>>

(* on_async_task of the listener: closes, then sends what was held back.   *)
LiTask ==
  LET closed == [c \in Conns |-> IF li[c].closing THEN ToldClosed([li[c] EXCEPT !.closing = FALSE]) ELSE li[c]]
      sends == {c \in Conns : li[c].tosend}
      after(c) == IF c \notin sends THEN {closed[c]}
                  ELSE LET l == [closed[c] EXCEPT !.tosend = FALSE]
                       IN  Offered(c, l) \cup IF RaisesRead(l) THEN {ToldClosed(l)} ELSE {}
  IN  /\ \E c \in Conns : li[c].closing \/ li[c].tosend
      /\ li' \in {f \in [Conns -> UNION {after(c) : c \in Conns}] : \A c \in Conns : f[c] \in after(c)}
      /\ dead_read' = \E c \in sends : closed[c].st = "closed" /\ RaisesRead(closed[c])
      /\ UNCHANGED <<up, px, asked>>

Next == \/ RestartProxies
        \/ \E b \in BOOLEAN : update_parameters(b)
        \/ EndpointChanges
        \/ UpTask
        \/ LiTask
        \/ \E c \in Conns :
             \/ \E udp \in BOOLEAN : open_connection(c, udp)
             \/ \E async \in BOOLEAN : close_connection(c, async)
             \/ \E to \in {"user", "system", "listener", "drop"}, v6 \in BOOLEAN : send(c, to, v6)
             \/ \E k \in Clients, answered, taken \in BOOLEAN : client_handler(c, k, answered, taken)
             \/ CompletePass(c)
             \/ CompleteReject(c)
             \/ \E on \in BOOLEAN : turn_read(c, on)
             \/ \E async \in BOOLEAN : TunnelClosesListener(c, async)
             \/ \E taken \in BOOLEAN : ListenerReply(c, taken)

Spec == Init /\ [][Next]_vars

-----------------------------------------------------------------------------
(* A connection the tunnel opened to the handler and the second one the    *)
(* handler opened for it end together: once the first is closed, from      *)
(* either side, the tunnel has been told that the second is closed too.    *)
NoOrphanListener == \A c \in Conns : up[c].st \in {"closing", "gone"} => li[c].st \in {"none", "closed"}

(* A query that must go through the user's DNS servers never waits at a    *)
(* client that was replaced: the maps hold only queries of clients that    *)
(* exist, and a client has its proxy.                                      *)
WaitingAtLiveClient == /\ px.client \subseteq px.proxy
                       /\ \A c \in Conns, k \in Clients : asked[c][k] > 0 => k \in px.client

(* What the tunnel asserts of a listener (tunnel.cpp, CLIENT_EVENT_READ):  *)
(* data never comes from a connection already reported closed.             *)
(* Does not hold.                                                          *)
ReadsAreLive == ~dead_read
=============================================================================
