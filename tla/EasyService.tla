---------------------------- MODULE EasyService -----------------------------
(***************************************************************************)
(* The VPN service of Windows and its controller (vpn_easy.cpp,            *)
(* vpn_easy_service.cpp).  The application starts and stops the service    *)
(* process and talks to it over a pipe that a thread of its own reads; the *)
(* service keeps one VPN client and sends its states to whoever is         *)
(* connected.  The service may be stopped or die by itself.                *)
(***************************************************************************)
EXTENDS Integers, Sequences

CONSTANT MaxCalls   \* bound: calls of start and stop

VARIABLES app,     \* where the application's call is: "idle", "wait" (for the pipe) or "join"
          client,  \* pipe_client is set
          stop,    \* stop_event is signalled
          io,      \* the thread: "none", "connecting", "serving", "failed", "returned"
          lost,    \* the pipe broke under the thread
          svc,     \* the service process: "stopped", "running" or "stopping"
          vpn,     \* g_vpn: "none", "connecting", "connected"
          orders,  \* START and STOP on their way to the service
          states,  \* states on their way to the application
          told,    \* the last state the callback was given
          calls,   \* calls made
          late     \* a state was given while no session was open

vars == <<app, client, stop, io, lost, svc, vpn, orders, states, told, calls, late>>

Init ==
    /\ app = "idle" /\ client = FALSE /\ stop = FALSE /\ io = "none" /\ lost = FALSE
    /\ svc \in {"stopped", "running"} /\ vpn = "none"
    /\ orders = <<>> /\ states = <<>> /\ told = "none" /\ calls = 0 /\ late = FALSE

-----------------------------------------------------------------------------
(* The application's thread, under the mutex *)

vpn_easy_service_start ==
    /\ app = "idle" /\ ~client /\ calls < MaxCalls
    /\ calls' = calls + 1
    /\ \/ UNCHANGED <<app, client, io, svc, stop, told>>                       \* an SCM error: reset()
       \/ /\ app' = "wait" /\ client' = TRUE /\ io' = "connecting"
          /\ svc' = (IF svc = "stopped" THEN "running" ELSE svc) /\ stop' = FALSE /\ told' = "none"
    /\ lost' = FALSE /\ orders' = <<>> /\ states' = <<>>
    /\ UNCHANGED <<vpn, late>>

(* wait_connected: the pipe is there (m_connected, which a thread that saw  *)
(* the pipe break has reset), or the attempt failed or timed out; what is   *)
(* sent into a pipe that broke is lost                                      *)
wait_connected ==
    /\ app = "wait"
    /\ \/ io = "serving"
          /\ orders' = (IF lost THEN orders ELSE Append(orders, "START"))
          /\ app' = "idle" /\ UNCHANGED stop
       \/ io # "serving"
          /\ stop' = TRUE /\ app' = "join" /\ UNCHANGED orders
    /\ UNCHANGED <<client, io, lost, svc, vpn, states, told, calls, late>>

vpn_easy_service_stop ==
    /\ app = "idle" /\ client /\ calls < MaxCalls
    /\ calls' = calls + 1
    /\ orders' = IF io = "serving" /\ ~lost THEN Append(orders, "STOP") ELSE orders
    /\ stop' = TRUE /\ app' = "join"
    /\ UNCHANGED <<client, io, lost, svc, vpn, states, told, late>>

(* reset() joins the thread and closes the pipe; a stop also asks the SCM to *)
(* stop the service, which may fail                                         *)
reset_NoJoin ==
    /\ app = "join"
    /\ client' = FALSE /\ orders' = <<>> /\ app' = "idle"
    /\ svc' \in {svc, IF svc = "running" THEN "stopping" ELSE svc}
    /\ UNCHANGED <<stop, io, lost, vpn, states, told, calls, late>>
reset ==
    /\ app = "join" /\ io = "returned"
    /\ io' = "none" /\ client' = FALSE /\ orders' = <<>> /\ states' = <<>> /\ app' = "idle"
    /\ svc' \in {svc, IF svc = "running" THEN "stopping" ELSE svc}
    /\ UNCHANGED <<stop, lost, vpn, told, calls, late>>

-----------------------------------------------------------------------------
(* The thread of the pipe's client *)

callback(state) == told' = state /\ late' = (late \/ ~client)

start_connect ==
    /\ io = "connecting"
    /\ io' \in IF svc # "stopped" /\ ~stop THEN {"serving", "failed"} ELSE {"failed"}
    /\ UNCHANGED <<app, client, stop, lost, svc, vpn, orders, states, told, calls, late>>

HandleState ==
    /\ io = "serving" /\ states # <<>>
    /\ states' = Tail(states)
    /\ callback(Head(states))
    /\ UNCHANGED <<app, client, stop, io, lost, svc, vpn, orders, calls>>

(* A pipe that breaks ends loop() with true, as the stop event does         *)
LoopReturnsTrue ==
    /\ io = "serving" /\ (stop \/ (lost /\ states = <<>>))
    /\ io' = "returned"
    /\ UNCHANGED <<app, client, stop, lost, svc, vpn, orders, states, told, calls, late>>

LoopReturnsFalse ==
    /\ io = "failed"
    /\ io' = "returned"
    /\ callback("disconnected")
    /\ UNCHANGED <<app, client, stop, lost, svc, vpn, orders, states, calls>>

-----------------------------------------------------------------------------
(* The service *)

Reachable == io = "serving" /\ ~lost

send_state(sent) == states' = IF Reachable THEN states \o sent ELSE states

(* The client that was started, or none after any of its early returns      *)
vpn_easy_start_ex == {"connecting", "none"}

(* What the client says when it is stopped                                  *)
vpn_easy_stop_ex == IF vpn = "none" THEN <<>> ELSE <<"disconnected">>

(* START replaces a client that runs; one that does not start is reported   *)
pipe_handler_Silent ==
    /\ svc = "running" /\ orders # <<>>
    /\ orders' = Tail(orders)
    /\ vpn' \in IF Head(orders) = "STOP" THEN {"none"} ELSE vpn_easy_start_ex
    /\ send_state(vpn_easy_stop_ex)
    /\ UNCHANGED <<app, client, stop, io, lost, svc, told, calls, late>>
pipe_handler ==
    /\ svc = "running" /\ orders # <<>>
    /\ orders' = Tail(orders)
    /\ vpn' \in IF Head(orders) = "STOP" THEN {"none"} ELSE vpn_easy_start_ex
    /\ send_state(vpn_easy_stop_ex \o CASE Head(orders) = "STOP" -> <<>>
                                         [] vpn' = "none" -> <<"disconnected">>
                                         [] OTHER -> <<vpn'>>)
    /\ UNCHANGED <<app, client, stop, io, lost, svc, told, calls, late>>

VpnStateChanged ==
    /\ svc = "running" /\ vpn \in {"connecting", "connected"}
    /\ vpn' \in {"connecting", "connected"} \ {vpn}
    /\ Len(states) < 2 /\ send_state(<<vpn'>>)
    /\ UNCHANGED <<app, client, stop, io, lost, svc, orders, told, calls, late>>

(* SERVICE_CONTROL_STOP or the system going down: the loop ends first, so   *)
(* nothing of the client's end reaches the pipe                             *)
service_main_returns ==
    /\ svc = "stopping"
    /\ svc' = "stopped" /\ vpn' = "none" /\ lost' = (io = "serving" \/ lost)
    /\ orders' = <<>>
    /\ UNCHANGED <<app, client, stop, io, states, told, calls, late>>

service_ctrl_handler ==
    /\ svc = "running"
    /\ svc' = "stopping"
    /\ UNCHANGED <<app, client, stop, io, lost, vpn, orders, states, told, calls, late>>

ServiceDies ==
    /\ svc # "stopped"
    /\ svc' = "stopped" /\ vpn' = "none" /\ lost' = (io = "serving" \/ lost)
    /\ orders' = <<>>
    /\ UNCHANGED <<app, client, stop, io, states, told, calls, late>>

Next ==
    \/ vpn_easy_service_start \/ wait_connected \/ vpn_easy_service_stop \/ reset
    \/ start_connect \/ HandleState \/ LoopReturnsTrue \/ LoopReturnsFalse
    \/ pipe_handler \/ VpnStateChanged \/ service_main_returns \/ service_ctrl_handler \/ ServiceDies

(* The threads run; when the service stops, and what the VPN does, is free  *)
Fairness ==
    /\ WF_vars(wait_connected) /\ WF_vars(reset)
    /\ WF_vars(start_connect) /\ WF_vars(HandleState)
    /\ WF_vars(LoopReturnsTrue) /\ WF_vars(LoopReturnsFalse)
    /\ WF_vars(pipe_handler) /\ WF_vars(service_main_returns)

Spec == Init /\ [][Next]_vars /\ Fairness

-----------------------------------------------------------------------------
(* Once vpn_easy_service_stop (or a failed start) has returned, the state   *)
(* callback is not called any more: the thread that calls it was joined.    *)
NoCallbackAfterStop == ~late

(* A call of vpn_easy_service_start that succeeded is followed by a state,  *)
(* unless the service is lost: the client of the VPN reports its progress   *)
(* and the service reports a client that does not start.                    *)
StartIsAnswered ==
    (app = "idle" /\ client) ~> (told # "none" \/ lost \/ stop)

(* The callback is told when the service goes away after a successful start:*)
(* "Deliver VPN_SS_DISCONNECTED on unexpected exit if callback is still     *)
(* set."  Violated: loop() returns true for every end that comes from the   *)
(* other side, a service that died included.                                *)
LostServiceIsReported ==
    io = "returned" /\ app = "idle" /\ lost /\ ~stop => told = "disconnected"
=============================================================================
