------------------------------ MODULE ClientTunnel ------------------------------
(***************************************************************************)
(* The tunnel of the client (core/src/tunnel.cpp): what becomes of a         *)
(* connection that a listener accepted from an application, between the      *)
(* application's verdict, name resolution, the upstream and the listener.    *)
(*                                                                         *)
(* A connection c has up to three VpnConnection objects: <<c, "src">>, made  *)
(* for the request, and one for each migration to another upstream.  A       *)
(* migration's object has neither CONNF_FIRST_PACKET nor                     *)
(* CONNF_FAKE_CONNECTION, so only "src" migrates: once, or twice when it is  *)
(* UDP, which goes on reading while it leaves the fake upstream.  An object  *)
(* has its own server id, so `bys' says whether by_server_id holds it; `id'  *)
(* whether its client_id is c or NON_ID; `byc' whether by_client_id maps c   *)
(* to it.                                                                    *)
(*                                                                         *)
(* The listener and the upstreams are environment.  Whether a listener told  *)
(* to close now reports it inside the call or later is the choice `now'.     *)
(* The build is a release build: an assert does nothing, and what it claims  *)
(* is a property below.                                                      *)
(***************************************************************************)
EXTENDS Naturals, FiniteSets

CONSTANTS
  Conns,     \* connections of the application
  Mode,      \* vpn_mode: "general" or "selective"
  Proxy,     \* whether vpn->dns_proxy_listener exists
  Attempts,  \* MAX_LOOKUP_ATTEMPTS
  MaxBuf     \* bound: no read while buffered_packets holds this many

VARIABLE t

vars == t

Objs == Conns \X {"src", "sw", "sw2"}
Src(c) == <<c, "src">>
Of(o) == o[1]

\* `srv' and `ask' are the upstream's side: a connection waits for a session of the pool
\* (pending), opens, or is open; `ask' when its close was asked for and is to be reported.
Gone == [st |-> "gone", id |-> FALSE, byc |-> FALSE, bys |-> FALSE, up |-> "none", srv |-> "none",
         ask |-> FALSE, udp |-> FALSE, kind |-> "none", due |-> FALSE, forced |-> "none", sc |-> FALSE,
         look |-> FALSE, att |-> 0, fake |-> FALSE, susp |-> FALSE, first |-> FALSE, task |-> FALSE,
         buf |-> 0, flush |-> FALSE, cut |-> FALSE, stat |-> FALSE]

Init ==
  \E early \in BOOLEAN :                         \* exclusions_tcp_early_ack_enabled
    t = [o |-> [x \in Objs |-> Gone],            \* the objects, with the upstream's side of each
         lst |-> [c \in Conns |-> "idle"],       \* the listener's side of a connection
         read |-> [c \in Conns |-> FALSE],       \* listener->turn_read
         stray |-> [c \in Conns |-> FALSE],      \* a released send_buffered_task is still queued
         wait |-> {},                            \* dns_resolve_waiters
         stats |-> {},                           \* m_stats of the statistics monitor
         connected |-> FALSE,                    \* endpoint_upstream_connected, and its session
         off |-> FALSE,                          \* run_disconnect is queued after a session error
         early |-> early]

\* by_client_id[c], or NoObj.
NoObj == <<"none", "none">>
ByClient(s, c) == IF \E x \in Objs : Of(x) = c /\ s.o[x].byc
                  THEN CHOOSE x \in Objs : Of(x) = c /\ s.o[x].byc ELSE NoObj

destroy_connection(s, x) ==
  [s EXCEPT !.o[x] = [Gone EXCEPT !.srv = s.o[x].srv, !.up = s.o[x].up, !.ask = s.o[x].ask],
            !.wait = IF s.o[x].st = "resolve" THEN @ \ {Of(x)} ELSE @,
            !.stats = IF s.o[x].stat /\ s.o[x].id THEN @ \ {Of(x)} ELSE @]

\* upstream->close_connection(id, _, async = true): one CONNECTION_CLOSED will come, unless
\* the upstream has dropped the connection or has not given it to a session yet. The fake
\* upstream and a direct UDP socket forget that it is still to be reported open.
UpstreamCloseLater(s, x) ==
  IF s.o[x].srv \notin {"opening", "open"} THEN s
  ELSE [s EXCEPT !.o[x].ask = TRUE,
                 !.o[x].srv = IF s.o[x].up = "fake" \/ (s.o[x].up = "bypass" /\ s.o[x].udp) THEN "open" ELSE @]

\* CLIENT_EVENT_CONNECTION_CLOSED.
ListenerClosed(s, c) ==
  LET u == [s EXCEPT !.lst[c] = "closed", !.read[c] = FALSE]
      x == ByClient(u, c)
  IN  IF x = NoObj THEN u
      ELSE IF u.o[x].sc \/ ~u.o[x].bys \/ u.o[x].up = "none" THEN destroy_connection(u, x)
      ELSE UpstreamCloseLater([u EXCEPT !.o[x].byc = FALSE], x)

\* listener->close_connection, and listener->complete_connect_request with a refusal.
ListenerClose(s, c, now) ==
  IF s.lst[c] = "closed" THEN s
  ELSE IF now THEN ListenerClosed(s, c)
  ELSE [s EXCEPT !.lst[c] = "closing"]

Waiting == {"action", "resolve", "response"}

close_client_side_connection(s, x, async, now) ==
  LET c == Of(x)
      st == s.o[x].st
      u == ListenerClose(s, c, now)
  IN  CASE st \in {"accept", "connected", "migrating", "rejected"} -> ListenerClose(s, c, now /\ ~async)
        [] st \in Waiting /\ async -> [s EXCEPT !.o[x].task = TRUE]
        [] st \in Waiting /\ ~async -> IF u.o[x].byc THEN [u EXCEPT !.o[x].st = "rejected"] ELSE u
        [] OTHER -> s

\* The same for every connection of a set, in some order.
CloseEach(s, cs, now) ==
  LET Close[S \in SUBSET Conns] ==
        IF S = {} THEN s
        ELSE LET c == CHOOSE c \in S : TRUE
                 v == Close[S \ {c}]
                 x == ByClient(v, c)
             IN  IF x = NoObj THEN v ELSE close_client_side_connection(v, x, FALSE, now)
  IN  Close[cs]

complete_connect_request_task(c) ==
  LET x == ByClient(t, c) IN
  /\ x # NoObj /\ t.o[x].task
  /\ \E now \in BOOLEAN :
       LET s == [t EXCEPT !.o[x].task = FALSE]
       IN  t' = IF s.o[x].st \in Waiting THEN close_client_side_connection(s, x, FALSE, now)
                ELSE ListenerClose(s, c, now)

--------------------------------------------------------------------------------
(* Choosing an upstream.                                                     *)

vpn_mode_to_action == IF Mode = "general" THEN "redirect" ELSE "bypass"
invert_action(a) == CASE a = "redirect" -> "bypass" [] a = "bypass" -> "redirect" [] OTHER -> a

\* `full': the call passes the connection. An address on a port that is not scanned is
\* routed as one that is neither suspected nor acknowledged early.
select_upstream(s, a, x, full) ==
  LET Forced(b) == IF b = "bypass" THEN "bypass" ELSE "endpoint"
      k == s.o[x]
  IN  IF a # "default" THEN Forced(a)
      ELSE IF full /\ k.kind = "dns" THEN "dns"
      ELSE IF full /\ k.look /\ (k.susp \/ s.early) THEN "fake"
      ELSE Forced(vpn_mode_to_action)

\* What the exclusions make of the application's verdict: the action, and whether
\* the destination is suspected to be an exclusion.
finalize_connect_action(k, a) ==
  IF a # "default" \/ k.kind = "dns" THEN {<<a, FALSE>>}
  ELSE {<<"default", FALSE>>, <<invert_action(vpn_mode_to_action), FALSE>>}
       \cup (IF k.kind = "addr" THEN {<<"default", TRUE>>} ELSE {})

need_resolve_hostname(k, a) ==
  /\ k.kind = "name"
  /\ \/ (IF a = "default" THEN vpn_mode_to_action ELSE a) = "bypass"
     \/ Proxy

\* A host name is taken to be reachable; an address depends on the IP versions that the
\* upstreams offer at the moment.
is_destination_reachable(k) == IF k.kind = "name" THEN {TRUE} ELSE BOOLEAN

\* upstream->open_connection: the pool without a session opens nothing, and the fake
\* upstream opens everything.
Opens(s, up) == CASE up = "endpoint" /\ ~s.connected -> {FALSE} [] up = "fake" -> {TRUE} [] OTHER -> BOOLEAN

\* The pool holds a connection back until the session it chose is there.
Begins(up) == IF up = "endpoint" THEN {"opening", "pending"} ELSE {"opening"}

OpenOn(s, x, up) ==
  {[s EXCEPT !.o[x].up = up, !.o[x].st = "response", !.o[x].bys = TRUE, !.o[x].srv = b] : b \in Begins(up)}

\* The states after Tunnel::complete_connect_request(x, a); unreachable destinations,
\* failed resolutions and upstreams are the choices.
complete_connect_request(s0, x, a) ==
  LET s == [s0 EXCEPT !.o[x].forced = IF a \in {"bypass", "redirect"} THEN a ELSE @,
                      !.o[x].look = IF a = "default" THEN s0.o[x].kind = "addr" ELSE @]
      Refuse(u) == close_client_side_connection(u, x, TRUE, FALSE)
      up == select_upstream(s, a, x, TRUE)
  IN  IF a = "reject" THEN {Refuse(s0)}
      ELSE (IF FALSE \in is_destination_reachable(s.o[x]) THEN {Refuse(s)} ELSE {})
           \cup (IF need_resolve_hostname(s.o[x], a)
                 THEN {[s EXCEPT !.wait = @ \cup {Of(x)}, !.o[x].st = "resolve"]}
                 ELSE IF up = "endpoint" /\ ~s.connected THEN {Refuse(s)}
                 ELSE UNION {IF ok THEN OpenOn([s EXCEPT !.o[x].fake = (up = "fake")], x, up)
                             ELSE {Refuse([s EXCEPT !.o[x].up = up])} : ok \in Opens(s, up)})

--------------------------------------------------------------------------------
(* Events of the listener.                                                   *)

New(s, c, kind, udp, due) ==
  [s EXCEPT !.lst[c] = "requested",
            !.o[Src(c)] = [Gone EXCEPT !.st = "action", !.id = TRUE, !.byc = TRUE, !.udp = udp,
                                       !.kind = kind, !.due = due, !.first = TRUE]]

\* CLIENT_EVENT_CONNECT_REQUEST: the client's own listeners (resolver, DNS proxy, DNS
\* handler) and loopback destinations are answered at once, the rest by the application.
ConnectRequest(c, kind, udp) ==
  /\ t.lst[c] = "idle"
  /\ \/ t' = New(t, c, kind, udp, TRUE)
     \/ \E a \in {"default", "bypass", "redirect"} :
          /\ a = "default" => kind = "dns"
          /\ t' \in complete_connect_request(New(t, c, kind, udp, FALSE), Src(c), a)

\* The application's verdict, possibly long after the request: the connection may have been
\* refused in the meantime, which complete_connect_request does not look at.
Verdict(c, a) ==
  LET x == ByClient(t, c) IN
  /\ x # NoObj /\ t.o[x].due
  /\ \E f \in finalize_connect_action(t.o[x], a) :
       t' \in complete_connect_request([t EXCEPT !.o[x].due = FALSE, !.o[x].susp = f[2]], x, f[1])

\* CLIENT_EVENT_CONNECTION_ACCEPTED.
Accepted(c) ==
  LET x == ByClient(t, c) IN
  /\ t.lst[c] = "accepting" /\ x # NoObj
  /\ IF t.o[x].st # "accept" THEN t' = close_client_side_connection(t, x, TRUE, FALSE)
     ELSE t' = [t EXCEPT !.o[x].st = "connected", !.read[c] = TRUE, !.lst[c] = "open",
                         !.o[x].stat = (t.o[x].up = "endpoint"),
                         !.stats = IF t.o[x].up = "endpoint" THEN @ \cup {c} ELSE @]

\* The application closes, or the listener does what it was told to.
ClientCloses(c) ==
  /\ t.lst[c] \in {"requested", "accepting", "open", "closing"}
  /\ t' = ListenerClosed(t, c)

\* A second object is opened on the other upstream. TCP hands it the buffer and stops
\* reading; UDP keeps the packet and reads on.
initiate_connection_migration(s, x, up) ==
  LET c == Of(x)
      k == s.o[x]
      y == IF s.o[<<c, "sw">>].st = "gone" THEN <<c, "sw">> ELSE <<c, "sw2">>
      Moved(b) == [Gone EXCEPT !.st = "response_migrating", !.bys = TRUE, !.up = up, !.srv = b,
                               !.udp = k.udp, !.kind = k.kind, !.look = k.look, !.cut = k.cut,
                               !.buf = IF k.udp THEN 0 ELSE k.buf]
  IN  UNION {IF ~ok THEN {ListenerClose([s EXCEPT !.read[c] = FALSE], c, FALSE)}
             ELSE {[s EXCEPT !.o[y] = Moved(b), !.o[x].st = "migrating",
                             !.o[x].buf = IF k.udp THEN k.buf + 1 ELSE 0,
                             !.read[c] = k.udp /\ s.read[c]] : b \in Begins(up)} : ok \in Opens(s, up)}

\* send_buffered_data on the object of a client id: all, a part or nothing of the buffer
\* goes out, or the upstream fails, and reading is set to what the upstream has room for.
\* A task that the call did not come from is released, not cancelled: it stays queued.
\* The direct upstream takes data of a connection it does not know; it has no room for more.
SendBuffered(s, x) ==
  LET c == Of(x)
      k == s.o[x]
      u == [s EXCEPT !.o[x].flush = FALSE, !.stray[c] = s.stray[c] \/ k.flush]
  IN  CASE k.up \in {"none", "fake"} -> {u}
        [] k.srv = "none" -> IF k.up = "bypass" THEN {[u EXCEPT !.o[x].buf = 0, !.read[c] = FALSE]} ELSE {u}
        [] OTHER -> {u} \cup {[u EXCEPT !.o[x].buf = n, !.o[x].cut = k.cut \/ (k.first /\ n < k.buf), !.read[c] = on] :
                                n \in {0, k.buf}, on \in BOOLEAN}

\* The rest of CLIENT_EVENT_READ: the buffer first and then the packet, unless the listener
\* is told to wait or that the upstream failed. A UDP packet of a connection that migrates
\* is kept; any other state is the switch's default, which fails the read.
SendNow(s, x) ==
  LET c == Of(x)
      u == [s EXCEPT !.o[x].first = FALSE, !.o[x].fake = FALSE]
      Packet(v) == IF v.o[x].buf > 0 \/ v.o[x].up \in {"none", "fake"} THEN {v}
                   ELSE {v} \cup {[v EXCEPT !.read[c] = on] : on \in BOOLEAN}
  IN  CASE u.o[x].st = "connected" ->
             UNION {Packet(v) : v \in IF u.o[x].buf > 0 THEN SendBuffered(u, x) ELSE {u}}
        [] u.o[x].st = "migrating" /\ u.o[x].udp -> {[u EXCEPT !.o[x].buf = @ + 1]}
        [] OTHER -> {u}

\* The domain lookup: nothing more to look for, look at the next packet too, wait for the
\* rest of a split ClientHello, or the connection belongs to the other upstream; a 0-RTT
\* packet of QUIC is dropped, and QUIC has no answer "look at the next". TDLA_BLOCK is
\* compiled out (BLOCK_OLD_QUIC_CONNS).
pass_through_domain_lookup(k) ==
  IF ~k.look THEN {"off"}
  ELSE {"done", "want_more", "shutdown"} \cup (IF k.udp THEN {"drop"} ELSE {"pass"})

\* CLIENT_EVENT_READ. A listener that was told to close and still has data to send may
\* raise it too.
ClientRead(c) ==
  LET x == ByClient(t, c)
      k == t.o[x]
      Looked == [t EXCEPT !.o[x].look = FALSE]
      Rest(s) == IF s.o[x].fake
                 THEN initiate_connection_migration(
                        [s EXCEPT !.o[x].fake = FALSE, !.o[x].susp = FALSE], x,
                        select_upstream([s EXCEPT !.o[x].susp = FALSE], "default", x, TRUE))
                 ELSE SendNow(s, x)
      Migrated == initiate_connection_migration(
                    Looked, x, select_upstream(t, invert_action(vpn_mode_to_action), x, TRUE))
  IN
  /\ t.lst[c] \in {"open", "closing"} /\ t.read[c] /\ x # NoObj
  /\ k.buf < MaxBuf
  /\ \E tdla \in pass_through_domain_lookup(k) :
       \/ tdla = "drop" /\ t' = t
       \/ tdla \in {"off", "pass"} /\ t' \in Rest(t)
       \/ tdla = "done" /\ t' \in Rest(Looked)
       \/ tdla = "want_more" /\ IF k.att < Attempts THEN t' = [t EXCEPT !.o[x].att = @ + 1, !.o[x].buf = @ + 1]
                                ELSE t' \in Rest(t)
       \/ /\ tdla = "shutdown" /\ k.first
          /\ \E s \in Migrated : t' = [s EXCEPT !.o[x].fake = k.fake /\ s.o[x].st # "migrating"]
       \/ tdla = "shutdown" /\ ~k.first /\ t' = UpstreamCloseLater([Looked EXCEPT !.read[c] = FALSE], x)

--------------------------------------------------------------------------------
(* Events of the upstreams.                                                  *)


UpstreamClosed(s0, x, now) ==
  LET s == [s0 EXCEPT !.o[x].srv = "none", !.o[x].ask = FALSE]
  IN  IF ~s.o[x].bys THEN s
      ELSE IF s.o[x].byc
      THEN close_client_side_connection(
             [s EXCEPT !.o[x].bys = FALSE, !.read[Of(x)] = FALSE], x, FALSE, now)
      ELSE destroy_connection(s, x)

\* The fake upstream closes only what it was asked to.
Closed(x) ==
  /\ t.o[x].srv \in {"opening", "open"} /\ (t.o[x].ask \/ t.o[x].up # "fake")
  /\ \E now \in BOOLEAN : t' = UpstreamClosed(t, x, now)

\* The session that a connection of the pool waited for is there.
Proceeds(x) == t.o[x].srv = "pending" /\ t.connected /\ t' = [t EXCEPT !.o[x].srv = "opening"]

\* SERVER_EVENT_CONNECTION_OPENED, which may come after the close was asked for. A listener
\* ignores the answer to a request that it has closed or was told to refuse. A migrated
\* object takes over from whatever object stands for the client id by now.
Opened(x) ==
  LET c == Of(x)
      src == ByClient(t, c)
      s == [t EXCEPT !.o[x].srv = "open"]
      TakeOver ==
        LET u == [s EXCEPT !.o[x].id = TRUE, !.o[x].byc = TRUE, !.o[x].st = "connected",
                           !.o[src].id = FALSE, !.o[src].byc = FALSE]
            v == IF u.o[x].udp
                 THEN [u EXCEPT !.o[x].buf = u.o[src].buf, !.o[src].buf = u.o[x].buf] ELSE u
            w == IF v.o[src].srv = "none" THEN v ELSE UpstreamClosed(v, src, TRUE)
        IN  IF w.o[x].buf > 0 THEN [w EXCEPT !.o[x].flush = TRUE] ELSE [w EXCEPT !.read[c] = TRUE]
  IN
  /\ t.o[x].srv = "opening"
  /\ t' = CASE s.o[x].st = "response" ->
                 [s EXCEPT !.o[x].st = "accept", !.lst[c] = IF @ = "requested" THEN "accepting" ELSE @]
            [] s.o[x].st = "response_migrating" /\ src # NoObj -> TakeOver
            [] OTHER -> UpstreamCloseLater(s, x)

\* SERVER_EVENT_ERROR of one connection, which the upstream drops.  When a migration
\* fails, the source is closed on the upstream that raised the event, which does not know
\* it, and the migrated object where it was just dropped: both closes do nothing.
ConnectionError(s0, x, now) ==
  LET s == [s0 EXCEPT !.o[x].srv = "none", !.o[x].ask = FALSE]
  IN  IF ~s.o[x].bys \/ s.o[x].st = "response_migrating" THEN s
      ELSE IF s.o[x].byc
      THEN close_client_side_connection([s EXCEPT !.o[x].bys = FALSE], x, FALSE, now)
      ELSE destroy_connection(s, x)

Error(x) ==
  /\ t.o[x].srv # "none" /\ t.o[x].up # "fake"
  /\ \E now \in BOOLEAN : t' = ConnectionError(t, x, now)

\* SERVER_EVENT_READ: the lookup of incoming data may find that the connection was
\* routed to the wrong upstream.
ServerRead(x) ==
  /\ t.o[x].srv = "open" /\ t.o[x].up # "fake" /\ t.o[x].bys /\ t.o[x].look
  /\ \/ t' = [t EXCEPT !.o[x].look = FALSE]
     \/ \E now \in BOOLEAN : t' = close_client_side_connection(t, x, FALSE, now)

\* SERVER_EVENT_DATA_SENT: what was sent has left. HTTP/2 raises it for every TCP
\* connection when its socket has been flushed, the others for those that sent something.
ServerDataSent(x) ==
  LET k == t.o[x] IN
  /\ k.srv = "open" /\ k.byc /\ k.st = "connected"
  /\ \/ k.up = "endpoint" /\ (~k.udp \/ ~k.first)
     \/ k.up = "bypass" /\ ~k.udp /\ ~k.first
  /\ \E on \in BOOLEAN : t' = [t EXCEPT !.read[Of(x)] = on, !.o[x].flush = k.flush \/ k.buf > 0]

\* The task of schedule_send_buffered_data, which holds the client id: the one that the
\* object still owns, or one that was released.
send_buffered_data(c) ==
  LET x == ByClient(t, c) IN
  \/ t.stray[c] /\ x = NoObj /\ t' = [t EXCEPT !.stray[c] = FALSE]
  \/ t.stray[c] /\ x # NoObj /\ t' \in SendBuffered([t EXCEPT !.stray[c] = FALSE], x)
  \/ x # NoObj /\ t.o[x].flush /\ t' \in SendBuffered([t EXCEPT !.o[x].flush = FALSE], x)

\* The upstream for a resolved address, unless none of the addresses is reachable.
select_resolved_destination_address(k) ==
  IF k.forced = "none" THEN {"default", invert_action(vpn_mode_to_action), "none"} ELSE {k.forced, "none"}

on_destination_resolve_result(c) ==
  LET x == ByClient(t, c)
      s == [t EXCEPT !.wait = @ \ {c}]
  IN
  /\ c \in t.wait
  /\ \/ x = NoObj /\ t' = s
     \/ /\ x # NoObj
        /\ \E now \in BOOLEAN, a \in select_resolved_destination_address(t.o[x]) :
             IF t.o[x].st # "resolve" \/ a = "none" THEN t' = close_client_side_connection(s, x, FALSE, now)
             ELSE LET up == select_upstream(t, a, x, FALSE)
                  IN  \E ok \in Opens(t, up) :
                        IF ok THEN t' \in OpenOn([s EXCEPT !.o[x].kind = "addr"], x, up)
                        ELSE t' = close_client_side_connection([s EXCEPT !.o[x].up = up], x, FALSE, now)

--------------------------------------------------------------------------------
(* The session with the endpoint.                                            *)

\* A new upstream takes the place of the last one, whose connections point at nothing.
SessionOpened ==
  /\ ~t.connected /\ ~t.off
  /\ t' = [t EXCEPT !.connected = TRUE,
                    !.o = [x \in Objs |-> [t.o[x] EXCEPT !.up = IF @ = "endpoint" THEN "none" ELSE @]]]

OnEndpoint(s) == {c \in Conns : ByClient(s, c) # NoObj /\ s.o[ByClient(s, c)].up = "endpoint"}

SetSessionClosed(s, cs) ==
  [s EXCEPT !.o = [x \in Objs |-> IF Of(x) \in cs /\ s.o[x].byc THEN [s.o[x] EXCEPT !.sc = TRUE] ELSE s.o[x]]]

\* The upstream reports the end of each of these connections, in some order: that it was
\* closed, or an error for those that no session had taken.
Ends(s, xs, now) ==
  LET End[S \in SUBSET Objs] ==
        IF S = {} THEN s
        ELSE LET x == CHOOSE x \in S : TRUE
                 v == End[S \ {x}]
             IN  IF v.o[x].srv = "pending" THEN ConnectionError(v, x, now) ELSE UpstreamClosed(v, x, now)
  IN  End[xs]

OfEndpoint(s, srvs) == {x \in Objs : s.o[x].up = "endpoint" /\ s.o[x].srv \in srvs}

\* The resolver stops, every connection is closed on the side of its client.
on_before_endpoint_disconnect(s, now) ==
  [CloseEach([s EXCEPT !.wait = {}], Conns, now) EXCEPT !.connected = FALSE]

\* Nothing more is read from the connections of the endpoint, and the session of the fake
\* upstream is closed and opened again: what it still has to report, it reports.
on_after_endpoint_disconnect(s, now) ==
  LET u == SetSessionClosed([s EXCEPT !.read = [c \in Conns |-> c \notin OnEndpoint(s) /\ s.read[c]]],
                            OnEndpoint(s))
  IN  Ends(u, {x \in Objs : u.o[x].up = "fake" /\ (u.o[x].srv = "opening" \/ u.o[x].ask)}, now)

\* SERVER_EVENT_SESSION_CLOSED, or an error of the whole session, as VpnClient's
\* vpn_upstream_handler passes it on. A session that is closed has reported its connections,
\* and the pool those that waited; after an error these wait until run_disconnect.
close_client_side(error) ==
  /\ t.connected
  /\ \E now \in BOOLEAN :
       LET ended == Ends(Ends(t, OfEndpoint(t, {"opening", "open"}), now),
                         IF error THEN {} ELSE OfEndpoint(t, {"pending"}), now)
           before == on_before_endpoint_disconnect(ended, now)
           closed == CloseEach(SetSessionClosed(before, OnEndpoint(before)), OnEndpoint(before), now)
       IN  t' = [on_after_endpoint_disconnect(closed, now) EXCEPT !.off = error]

\* VpnClient's run_disconnect: on_before_endpoint_disconnect, the upstream's close_session,
\* which reports its connections, and on_after_endpoint_disconnect.
Disconnect ==
  /\ t.connected \/ t.off
  /\ \E now \in BOOLEAN :
       LET before == on_before_endpoint_disconnect(t, now)
           ended == Ends(Ends(before, OfEndpoint(before, {"opening", "open"}), now),
                         OfEndpoint(before, {"pending"}), now)
       IN  t' = [on_after_endpoint_disconnect(ended, now) EXCEPT !.off = FALSE]

\* Tunnel::reset_connection and reset_connections.
reset_connections ==
  \E cs \in (SUBSET Conns) \ {{}}, now \in BOOLEAN :
    /\ \A c \in cs : ByClient(t, c) # NoObj
    /\ t' = CloseEach(t, cs, now)

\* Once nothing is left of a connection its id may stand for another one.
Forget(c) ==
  /\ t.lst[c] = "closed" /\ \A x \in Objs : Of(x) = c => t.o[x].st = "gone" /\ t.o[x].srv = "none"
  /\ t' = [t EXCEPT !.lst[c] = "idle", !.stats = @ \ {c}, !.stray[c] = FALSE, !.wait = @ \ {c},
                    !.o = [x \in Objs |-> IF Of(x) = c THEN Gone ELSE t.o[x]]]

Next ==
  \/ \E c \in Conns :
       \/ \E kind \in {"addr", "name", "dns"}, udp \in BOOLEAN : ConnectRequest(c, kind, udp)
       \/ \E a \in {"default", "bypass", "redirect", "reject"} : Verdict(c, a)
       \/ Accepted(c) \/ ClientCloses(c) \/ ClientRead(c) \/ send_buffered_data(c)
       \/ complete_connect_request_task(c) \/ on_destination_resolve_result(c) \/ Forget(c)
  \/ \E x \in Objs : \/ Proceeds(x) \/ Opened(x) \/ Closed(x) \/ Error(x)
                     \/ ServerRead(x) \/ ServerDataSent(x)
  \/ \E error \in BOOLEAN : close_client_side(error)
  \/ SessionOpened \/ Disconnect \/ reset_connections

Spec == Init /\ [][Next]_vars

--------------------------------------------------------------------------------
(* Properties.                                                               *)

\* What the asserts of upstream_handler and listener_handler demand, whatever order
\* closes, verdicts, migrations and session losses come in: an upstream that may still
\* report a connection opened finds it in by_server_id in a state that expects the report
\* (tunnel.cpp:571, 645), one that may deliver data finds it there too (680); a listener
\* that may still raise an event finds its connection in by_client_id (1594, 1655), with
\* data only where there is an upstream (1663); and so does a queued refusal (175).
EventsAreExpected ==
  /\ \A x \in Objs :
       /\ t.o[x].srv = "opening" => t.o[x].bys /\ t.o[x].st \in {"response", "response_migrating", "rejected"}
       /\ t.o[x].srv = "open" => t.o[x].bys
       /\ t.o[x].task => t.o[x].byc
  /\ \A c \in Conns :
       LET k == t.o[ByClient(t, c)] IN
       /\ t.lst[c] \in {"accepting", "open", "closing"} => ByClient(t, c) # NoObj
       /\ t.lst[c] \in {"open", "closing"} /\ t.read[c] => k.st \in {"connected", "migrating"} /\ k.up # "none"

\* The two tables agree: a client id stands for one object, and no object stays in
\* by_server_id for a report that will not come: its upstream still knows it, except when
\* it was opened for a migration that failed (see MigrationCompletes).
TablesAgree ==
  /\ \A c \in Conns : Cardinality({x \in Objs : Of(x) = c /\ t.o[x].byc}) <= 1
  /\ \A x \in Objs :
       /\ t.o[x].byc => t.o[x].id
       /\ t.o[x].bys => t.o[x].srv # "none" \/ t.o[x].st = "response_migrating"

\* A pending refusal is delivered to a connection that still waits for an answer
\* (assert(0), tunnel.cpp:210). Does not hold: reset_connections rejects the connection
\* before the task runs.
RefusalIsDue ==
  \A x \in Objs : t.o[x].task => t.o[x].byc /\ t.o[x].st \in Waiting

\* CONNS_CONNECTED_MIGRATING: "waiting for migration completion".
\* Does not hold (tunnel.cpp:835): after an error the object of the migration stays in
\* by_server_id for good, and its source stays migrating.
MigrationCompletes ==
  \A x \in Objs : t.o[x].st = "response_migrating" => t.o[x].srv # "none"

\* A TCP connection that migrates is not read from (assert(0), tunnel.cpp:1806). Does not
\* hold: a send_buffered_data task from before the migration turns reading on again.
MigratingIsNotRead ==
  \A c \in Conns : t.lst[c] = "open" /\ t.read[c] =>
    t.o[ByClient(t, c)].st = "connected" \/ t.o[ByClient(t, c)].udp

\* A connection that migrates takes everything that its client has sent along. Does not
\* hold: the first part of a split ClientHello waits for the second one, and a flush of the
\* session's socket has it sent to the old upstream (tunnel.cpp:780).
MigrationTakesAll == \A x \in Objs : t.o[x].st = "response_migrating" => ~t.o[x].cut

\* The fake upstream never gets data to send (assert(0), fake_upstream.cpp). Does not hold with
\* early acknowledgement: a first packet without a name is routed to the fake upstream again
\* (tunnel.cpp:920), and nothing routes the next one elsewhere.
FakeCarriesNothing ==
  \A c \in Conns : t.lst[c] = "open" /\ t.read[c] =>
    LET k == t.o[ByClient(t, c)] IN k.st = "connected" /\ k.up = "fake" => k.fake

\* Every object is in one of the tables, or nothing would ever delete it. Does not hold: a
\* connection that its old upstream closes while it migrates is out of by_server_id when the
\* new one takes its client id.
ObjectsAreReachable == \A x \in Objs : t.o[x].st # "gone" => t.o[x].byc \/ t.o[x].bys
================================================================================
