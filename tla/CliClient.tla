------------------------------ MODULE CliClient ------------------------------
(***************************************************************************)
(* The command-line client (trusttunnel_client.cpp) over the object that   *)
(* owns the VPN (client.cpp) and the network monitor                       *)
(* (auto_network_monitor.cpp).  Threads: main, which connects, waits on a  *)
(* condition variable and disconnects; the VPN's, which raises events; the *)
(* extra loop's, which answers connect requests; the monitor's and the     *)
(* signals', which tell the VPN of network changes or ask main to stop.    *)
(***************************************************************************)
EXTENDS Integers, Sequences

CONSTANT MaxQueued   \* bound: answers waiting in the extra loop

VARIABLES main,     \* where the main thread is
          failed,   \* connect is going to return an error
          monitor,  \* the monitor's loop: "none", "running", "stopped"
          m_vpn,    \* TrustTunnelClient::m_vpn is set
          vpn,      \* the Vpn object: "none", "open", "stopped" or "closed"
          queue,    \* tasks of the extra loop: did they capture the Vpn
          drained,  \* tasks that disconnect still waits for
          running,  \* keep_running
          waker,    \* per source of a stop: "idle", "stored" before notify_all, "done"
          teller,   \* per thread that notifies: "idle", or "checked" before its use of m_vpn
          misused,  \* who used a Vpn that was closed
          extra     \* the extra loop's thread: "starting", "running", or "missed"
                    \* when disconnect came before it

vars == <<main, failed, monitor, m_vpn, vpn, queue, drained, running, waker, teller, misused, extra>>

Tellers == {"monitor", "signal", "detached"}
Wakers == {"signal", "state"}

Init ==
    /\ main = "start" /\ failed = FALSE /\ monitor = "none" /\ m_vpn = FALSE /\ vpn = "none"
    /\ queue = <<>> /\ drained = 0 /\ running = TRUE
    /\ waker = [w \in Wakers |-> "idle"]
    /\ teller = [t \in Tellers |-> "idle"]
    /\ misused = {} /\ extra = "starting"

-----------------------------------------------------------------------------
(* The main thread: run_client *)

StartMonitor ==
    /\ main = "start"
    /\ monitor' = "running"
    /\ main' \in {"connect", "return"}     \* the monitor or the system's DNS may fail
    /\ UNCHANGED <<failed, m_vpn, vpn, queue, drained, running, waker, teller, misused, extra>>

connect_impl ==
    /\ main = "connect"
    /\ \/ main' = "return" /\ UNCHANGED <<m_vpn, vpn>>
       \/ main' = "run" /\ m_vpn' = TRUE /\ vpn' = "open"
    /\ UNCHANGED <<failed, monitor, queue, drained, running, waker, teller, misused, extra>>

vpn_runner ==
    /\ main = "run"
    /\ \/ main' = "check" /\ UNCHANGED failed
       \/ main' = "disconnect" /\ failed' = TRUE
    /\ UNCHANGED <<monitor, m_vpn, vpn, queue, drained, running, waker, teller, misused, extra>>

(* g_waiter.wait(lock, predicate): test, then sleep until notified *)
CheckKeepRunning ==
    /\ main = "check"
    /\ main' = IF running THEN "sleep" ELSE "stop monitor"
    /\ UNCHANGED <<failed, monitor, m_vpn, vpn, queue, drained, running, waker, teller, misused, extra>>

FallAsleep ==
    /\ main = "sleep"
    /\ main' = "asleep"
    /\ UNCHANGED <<failed, monitor, m_vpn, vpn, queue, drained, running, waker, teller, misused, extra>>

(* AutoNetworkMonitor::stop lets its loop finish what runs and joins it; it *)
(* is the destructor's turn when run_client returns early                   *)
StopMonitor_NoJoin ==
    /\ main \in {"stop monitor", "return"}
    /\ monitor' = "stopped"
    /\ main' = IF main = "return" THEN "exit" ELSE "disconnect"
    /\ UNCHANGED <<failed, m_vpn, vpn, queue, drained, running, waker, teller, misused, extra>>
StopMonitor ==
    /\ main \in {"stop monitor", "return"} /\ teller["monitor"] = "idle"
    /\ monitor' = "stopped"
    /\ main' = IF main = "return" THEN "exit" ELSE "disconnect"
    /\ UNCHANGED <<failed, m_vpn, vpn, queue, drained, running, waker, teller, misused, extra>>

disconnect ==
    /\ main = "disconnect"
    /\ m_vpn' = FALSE
    /\ main' = "vpn_stop"
    /\ UNCHANGED <<failed, monitor, vpn, queue, drained, running, waker, teller, misused, extra>>

vpn_stop ==
    /\ main = "vpn_stop"
    /\ vpn' = "stopped"
    /\ main' = "drain"
    /\ UNCHANGED <<failed, monitor, m_vpn, queue, drained, running, waker, teller, misused, extra>>

(* vpn_event_loop_dispatch_sync with nothing to do: wait for what is queued; *)
(* a loop that does not run yet is not waited for                            *)
Drain_Skipped ==
    /\ main = "drain"
    /\ main' = "vpn_close" /\ drained' = 0
    /\ UNCHANGED <<failed, monitor, m_vpn, vpn, queue, running, waker, teller, misused, extra>>
Drain ==
    /\ main = "drain"
    /\ main' = "vpn_close"
    /\ IF extra = "running" THEN drained' = Len(queue) /\ UNCHANGED extra
                            ELSE drained' = 0 /\ extra' = "missed"
    /\ UNCHANGED <<failed, monitor, m_vpn, vpn, queue, running, waker, teller, misused>>

vpn_close ==
    /\ main = "vpn_close" /\ drained = 0
    /\ vpn' = "closed"
    /\ main' = IF failed THEN "return" ELSE "exit"
    /\ UNCHANGED <<failed, monitor, m_vpn, queue, drained, running, waker, teller, misused, extra>>

-----------------------------------------------------------------------------
(* Events of the VPN, and the extra loop *)

ConnectRequest ==
    /\ vpn = "open" /\ Len(queue) < MaxQueued
    /\ queue' = Append(queue, m_vpn)
    /\ UNCHANGED <<main, failed, monitor, m_vpn, vpn, drained, running, waker, teller, misused, extra>>

(* The constructor's thread enters vpn_event_loop_run                       *)
LoopRuns ==
    /\ extra = "starting"
    /\ extra' = "running"
    /\ UNCHANGED <<main, failed, monitor, m_vpn, vpn, queue, drained, running, waker, teller, misused>>

AnswerRequest ==
    /\ queue # <<>> /\ extra # "starting"
    /\ queue' = Tail(queue)
    /\ drained' = IF drained > 0 THEN drained - 1 ELSE 0
    /\ misused' = IF Head(queue) /\ vpn = "closed" THEN misused \cup {"task"} ELSE misused
    /\ UNCHANGED <<main, failed, monitor, m_vpn, vpn, running, waker, teller, extra>>

(* stop_trusttunnel_client: the flag, then notify_all, without the mutex.   *)
(* A signal before there is a client ends the process, and is left out.     *)
stop_trusttunnel_client(w) ==
    /\ waker[w] = "idle"
    /\ IF w = "state" THEN vpn = "open" ELSE main \notin {"start", "exit"}
    /\ running' = FALSE
    /\ waker' = [waker EXCEPT ![w] = "stored"]
    /\ UNCHANGED <<main, failed, monitor, m_vpn, vpn, queue, drained, teller, misused, extra>>

notify_all(w) ==
    /\ waker[w] = "stored"
    /\ waker' = [waker EXCEPT ![w] = "done"]
    /\ main' = IF main = "asleep" THEN "check" ELSE main
    /\ UNCHANGED <<failed, monitor, m_vpn, vpn, queue, drained, running, teller, misused, extra>>

-----------------------------------------------------------------------------
(* notify_network_change: m_vpn is tested, then read again and used *)

notify_network_change(t) ==
    /\ teller[t] = "idle" /\ m_vpn
    /\ t = "monitor" => monitor = "running" /\ main \notin {"stop monitor", "return"}
    /\ teller' = [teller EXCEPT ![t] = "checked"]
    /\ UNCHANGED <<main, failed, monitor, m_vpn, vpn, queue, drained, running, waker, misused, extra>>

UseVpn(t) ==
    /\ teller[t] = "checked"
    /\ teller' = [teller EXCEPT ![t] = "idle"]
    /\ misused' = IF ~m_vpn \/ vpn = "closed" THEN misused \cup {t} ELSE misused
    /\ UNCHANGED <<main, failed, monitor, m_vpn, vpn, queue, drained, running, waker, extra>>

Main ==
    \/ StartMonitor \/ connect_impl \/ vpn_runner \/ CheckKeepRunning \/ FallAsleep
    \/ StopMonitor \/ disconnect \/ vpn_stop \/ Drain \/ vpn_close

Next ==
    \/ Main \/ ConnectRequest \/ LoopRuns \/ AnswerRequest
    \/ \E w \in Wakers : stop_trusttunnel_client(w) \/ notify_all(w)
    \/ \E t \in Tellers : notify_network_change(t) \/ UseVpn(t)

Fairness ==
    /\ WF_vars(Main) /\ WF_vars(LoopRuns) /\ WF_vars(AnswerRequest)
    /\ \A w \in Wakers : WF_vars(notify_all(w))
    /\ \A t \in Tellers : WF_vars(UseVpn(t))

Spec == Init /\ [][Next]_vars /\ Fairness

-----------------------------------------------------------------------------
(* "disconnect() drains this loop before vpn_close, which is what keeps     *)
(* that pointer from outliving the VPN" (client.cpp:569): the answer to a   *)
(* connect request, which carries the raw pointer to another thread, never  *)
(* finds the Vpn closed, if the loop's thread ran before the disconnection. *)
AnswersFindVpnOpen == extra # "missed" => "task" \notin misused

(* The same of a loop whose thread has not come to run it yet.              *)
(* Does not hold: the loop is not active, so disconnect does not drain it,  *)
(* and it runs what was queued when its thread comes.                       *)
QueuedFindVpnOpen == "task" \notin misused

(* The monitor's thread is joined before the Vpn goes away, so it never     *)
(* calls into a closed one once the client has connected (run_client,       *)
(* vpn_easy_stop_ex: the monitor is stopped first).                         *)
MonitorFindsVpnOpen == ~failed => "monitor" \notin misused

(* A stop that was asked for is seen: "sc stop TrustTunnelClient" (the      *)
(* usage text and trusttunnel/README.md:324) or a signal ends the client.   *)
(* Violated: the flag is stored and the condition notified without the      *)
(* mutex of the wait, so both can fall between its test and its sleep.      *)
StopIsObserved == ~running ~> main = "exit"
=============================================================================
