---------------------------- MODULE EndpointConnector ----------------------------
(***************************************************************************)
(* How the VPN client gets a session with the endpoint: the connector of    *)
(* one upstream (single_upstream_connector.cpp), the one that races a main  *)
(* upstream against a fallback (fallbackable_upstream_connector.cpp), and   *)
(* the part of vpn_client.cpp that owns the connector and its result.       *)
(*                                                                         *)
(* `ec' holds the three objects; the operators on it are the functions that *)
(* modify it.  Each step is one task, timer or socket event of the loop.    *)
(***************************************************************************)
EXTENDS Naturals

CONSTANT MaxConnects   \* bound: calls of VpnClient::connect

VARIABLE ec

vars == ec

Side == {"main", "fallback"}
Other(s) == IF s = "main" THEN "fallback" ELSE "main"

\* A SingleUpstreamConnector with its upstream `up', and what the racing
\* connector keeps about it: has_result and the result that result_task holds.
NoConnector == [here |-> FALSE, fsm |-> "DISCONNECTED", up |-> "gone", error |-> FALSE,
                deferred |-> FALSE, has |-> FALSE, result |-> "none"]
NewConnector == [NoConnector EXCEPT !.here = TRUE, !.up = "idle"]

Init ==
  ec = [con |-> [s \in Side |-> NoConnector],
        racing |-> FALSE,       \* the connector is a FallbackableUpstreamConnector
        tried |-> FALSE,        \* m_fallback.tried
        delay |-> "none",       \* m_fallback.delay_task: none, a timer, or submitted
        fsm |-> "DISCONNECTED", \* the state machine of the client
        connector |-> FALSE,    \* endpoint_connector # nullptr
        upstream |-> "none",    \* endpoint_upstream and whether its session is open
        error |-> FALSE,        \* pending_error.has_value()
        finalizer |-> FALSE,    \* endpoint_connector_finalizer is submitted
        dns |-> "none",         \* dns_proxy_listener: none, up, or made but not up
        answers |-> 0,          \* results handed over since the last connect
        asserted |-> TRUE,      \* no assertion of the connectors has failed
        early |-> FALSE,        \* vpn_upstream_handler ran while a connector existed
        connects |-> 0]

--------------------------------------------------------------------------------
(* The client receives a result.                                             *)

\* dns says whether the DNS proxy listener starts, should it be needed.
endpoint_connector_handler(e, s, r, dns) ==
  LET starts == r = "ok" /\ e.dns = "none"
  IN  [e EXCEPT !.error = r # "ok" \/ (starts /\ dns = "broken"),
                !.upstream = IF r = "ok" THEN e.con[s].up ELSE @,
                !.dns = IF starts THEN dns ELSE @,
                !.con[s].up = "gone",
                !.finalizer = TRUE,
                !.answers = @ + 1]

--------------------------------------------------------------------------------
(* The connector of one upstream.                                            *)

\* The result goes to the client, or to a task of the racing connector.
Raise(e, s, r, dns) ==
  IF ~e.racing THEN endpoint_connector_handler(e, s, r, dns)
  ELSE [e EXCEPT !.asserted = @ /\ e.con[s].result = "none", !.con[s].result = r]

\* SingleUpstreamConnector::connect, which fails if the upstream cannot be
\* initialised or its session cannot be opened.
connect(e, s, opens) ==
  IF opens THEN [e EXCEPT !.con[s].fsm = "CONNECTING", !.con[s].up = "opening"] ELSE e

disconnect(e, s) ==
  IF e.con[s].fsm = "DISCONNECTED" THEN e
  ELSE [e EXCEPT !.con[s].fsm = "DISCONNECTED", !.con[s].up = "idle", !.con[s].deferred = FALSE]

\* The upstream is handed over with the client's handler in place.
raise_connected(e, s, dns) ==
  Raise([e EXCEPT !.con[s].fsm = "DISCONNECTED", !.con[s].up = "open"], s, "ok", dns)

raise_disconnected(e, s) ==
  Raise([e EXCEPT !.con[s].fsm = "DISCONNECTED", !.con[s].up = "idle", !.con[s].error = FALSE], s,
        IF e.con[s].error THEN "failed" ELSE "closed", "none")

submit_disconnect(e, s) ==
  [e EXCEPT !.con[s].fsm = "DISCONNECTING", !.con[s].error = TRUE, !.con[s].deferred = TRUE]

--------------------------------------------------------------------------------
(* The racing connector.                                                     *)

handle_connect_result_LoserRuns(e, s, r, dns) ==
  LET done == [e EXCEPT !.con[s].here = FALSE, !.con[s].has = TRUE, !.con[s].result = "none",
                        !.con[s].deferred = FALSE, !.con[s].up = IF r = "ok" THEN @ ELSE "gone"]
  IN  IF r = "ok" \/ (done.con["main"].has /\ done.con["fallback"].has)
      THEN [endpoint_connector_handler(done, s, r, dns) EXCEPT !.tried = FALSE, !.delay = "none",
              !.con[s] = NoConnector,
              !.con[Other(s)] = [NoConnector EXCEPT !.up = done.con[Other(s)].up]]
      ELSE IF e.tried THEN done ELSE [done EXCEPT !.delay = "submitted"]
handle_connect_result(e, s, r, dns) ==
  LET lone == IF r = "ok" THEN disconnect(e, Other(s)) ELSE e
      done == [lone EXCEPT !.con[s].here = FALSE, !.con[s].has = TRUE, !.con[s].result = "none",
                           !.con[s].deferred = FALSE, !.con[s].up = IF r = "ok" THEN @ ELSE "gone"]
  IN  IF r = "ok" \/ (done.con["main"].has /\ done.con["fallback"].has)
      THEN [endpoint_connector_handler(done, s, r, dns) EXCEPT
              !.con = [x \in Side |-> NoConnector], !.tried = FALSE, !.delay = "none"]
      ELSE IF e.tried THEN done ELSE [done EXCEPT !.delay = "submitted"]

start_fallback_connection(e, opens, dns) ==
  LET trying == [e EXCEPT !.asserted = @ /\ ~e.tried /\ ~e.con["fallback"].has, !.tried = TRUE]
      started == connect(trying, "fallback", opens)
  IN  IF opens THEN started ELSE handle_connect_result(started, "fallback", "failed", dns)

\* Its destructor follows its disconnect wherever the client uses it.
DisconnectAll(e) ==
  [e EXCEPT !.con = [s \in Side |-> NoConnector], !.tried = FALSE, !.delay = "none"]

--------------------------------------------------------------------------------
(* The client.                                                               *)

run_disconnect(e) ==
  [DisconnectAll(e) EXCEPT !.connector = FALSE, !.finalizer = FALSE, !.fsm = "DISCONNECTED",
     !.upstream = IF @ = "none" THEN @ ELSE "closed", !.dns = "none"]

\* The event of a client with the current endpoint_upstream (vpn_upstream_handler).
SessionEnds(e, what) ==
  IF what = "closed" THEN [e EXCEPT !.fsm = "DISCONNECTED", !.error = FALSE]
  ELSE IF e.fsm = "CONNECTED" THEN [e EXCEPT !.fsm = "DISCONNECTING", !.error = TRUE] ELSE e

\* The manager connects again after a ping or a timer, when the tasks that were
\* submitted before it have run.
Connect ==
  /\ ec.connects < MaxConnects
  /\ ec.fsm = "DISCONNECTED"
  /\ ~ec.finalizer /\ \A s \in Side : ec.con[s].result = "none" /\ ~ec.con[s].deferred
  /\ \E racing, opens, bypass \in BOOLEAN :
       LET new == [DisconnectAll(ec) EXCEPT
                     !.con = [s \in Side |-> IF racing \/ s = "main" THEN NewConnector ELSE NoConnector],
                     !.racing = racing, !.connector = TRUE, !.answers = 0,
                     !.connects = @ + 1]
           started == [connect(new, "main", opens) EXCEPT !.fsm = "CONNECTING"]
           going == IF ~racing THEN started
                    ELSE IF opens THEN [started EXCEPT !.delay = "timer"]
                    ELSE handle_connect_result(started, "main", "failed", "none")
       IN  ec' = IF (opens \/ racing) /\ bypass THEN going ELSE run_disconnect(going)

Disconnect == ec.fsm # "DISCONNECTED" /\ ec' = run_disconnect(ec)

SessionOpened(s) ==
  /\ ec.con[s].fsm = "CONNECTING" /\ ec.con[s].up = "opening"
  /\ \E dns \in {"up", "broken"} : ec' = raise_connected(ec, s, dns)

SessionClosed(s) ==
  /\ ec.con[s].fsm # "DISCONNECTED" /\ ec.con[s].up = "opening"
  /\ ec' = raise_disconnected(ec, s)

SessionError(s) ==
  /\ ec.con[s].fsm = "CONNECTING" /\ ec.con[s].up = "opening"
  /\ ec' = submit_disconnect(ec, s)

DeferredDisconnect(s) ==
  /\ ec.con[s].deferred
  /\ LET e == [ec EXCEPT !.con[s].deferred = FALSE]
     IN  ec' = IF ec.con[s].fsm = "DISCONNECTING" THEN raise_disconnected(e, s) ELSE e

FallbackDelay ==
  /\ ec.delay # "none"
  /\ \E opens \in BOOLEAN, dns \in {"up", "broken"} :
       ec' = start_fallback_connection([ec EXCEPT !.delay = "none"], opens, dns)

ResultTask(s) ==
  /\ ec.con[s].result # "none"
  /\ \E dns \in {"up", "broken"} : ec' = handle_connect_result(ec, s, ec.con[s].result, dns)

endpoint_connector_finalizer ==
  /\ ec.finalizer
  /\ LET e == [DisconnectAll(ec) EXCEPT !.finalizer = FALSE, !.connector = FALSE]
     IN  ec' = IF e.error THEN [e EXCEPT !.fsm = "DISCONNECTED", !.error = FALSE]
               ELSE IF e.fsm = "CONNECTING" THEN [e EXCEPT !.fsm = "CONNECTED"] ELSE e

\* The session of endpoint_upstream ends.  Between raise_connected and the
\* finalizer the event reaches the client while its connector still exists.
vpn_upstream_handler ==
  /\ ec.upstream = "open"
  /\ \E what \in {"closed", "error"} :
       ec' = SessionEnds([ec EXCEPT !.upstream = "closed", !.early = @ \/ ec.connector], what)

EarlyEvent(s) ==
  /\ ec.con[s].result = "ok" /\ ec.con[s].up = "open"
  /\ \E what \in {"closed", "error"} :
       ec' = SessionEnds([ec EXCEPT !.con[s].up = "closed", !.early = @ \/ ec.connector], what)

ClientDeferredDisconnect ==
  /\ ec.fsm = "DISCONNECTING"
  /\ ec' = [run_disconnect(ec) EXCEPT !.error = FALSE]

Next ==
  \/ Connect \/ Disconnect \/ FallbackDelay \/ endpoint_connector_finalizer
  \/ vpn_upstream_handler \/ ClientDeferredDisconnect
  \/ \E s \in Side : \/ SessionOpened(s) \/ SessionClosed(s) \/ SessionError(s)
                     \/ DeferredDisconnect(s) \/ ResultTask(s) \/ EarlyEvent(s)

\* Submitted tasks and due timers run, and an upstream that is opening its
\* session ends the attempt (open_session takes the connect timeout).
Fairness ==
  /\ WF_vars(FallbackDelay) /\ WF_vars(endpoint_connector_finalizer)
  /\ WF_vars(ClientDeferredDisconnect)
  /\ \A s \in Side :
       /\ WF_vars(SessionOpened(s) \/ SessionClosed(s) \/ SessionError(s))
       /\ WF_vars(DeferredDisconnect(s)) /\ WF_vars(ResultTask(s))

Spec == Init /\ [][Next]_vars /\ Fairness

--------------------------------------------------------------------------------
(* Properties.                                                               *)

\* One connect gets at most one answer (handle_connect_result raises once and
\* drops both connectors), and the assertions of the racing connector hold: a
\* fallback is started once, a result task is never overwritten.
OneAnswer == ec.answers <= 1 /\ ec.asserted

\* Whoever loses the race leaves no session behind: once a result is on its way
\* to the client, or the client has disconnected, no session but the one handed
\* over is open or being opened.
NoSessionLeft ==
  ec.finalizer \/ ~ec.connector => \A s \in Side : ec.con[s].up \notin {"opening", "open"}

\* A connection procedure ends: in a session, or with the client disconnected,
\* whichever of the two upstreams fails and whenever it does.
ConnectEnds == ec.fsm = "CONNECTING" ~> ec.fsm # "CONNECTING"

\* The assertion of vpn_upstream_handler: an upstream reports to the client only
\* when the connector that opened it is gone.
\* Does not hold: a session can fail before the finalizer has run.
UpstreamReportsAfterConnector == ~ec.early
===============================================================================
