--------------------------------- MODULE VpnFsm ---------------------------------
(***************************************************************************)
(* The session of the client engine: the state machine of the VPN manager   *)
(* (vpn_fsm.cpp, vpn_manager.cpp), the one of its VPN client                *)
(* (vpn_client.cpp), and the event loop on which both run.                  *)
(*                                                                         *)
(* All of it runs on the thread of the event loop.  Each step is one task,  *)
(* timer or socket event of the loop and runs to its end; `vpn' is the      *)
(* struct Vpn, and the operators on it are the functions that modify it.    *)
(* Calls of the application are submitted to the same loop; a step of the   *)
(* model takes one when the loop gets to it.                                *)
(***************************************************************************)
EXTENDS Integers, Sequences, FiniteSetsExt

CONSTANTS
  Endpoints,         \* the endpoints of the location
  Ipv6,              \* those with an IPv6 address, the others have an IPv4 one
  Requests,          \* connect requests that the application completes
  MaxAttempts,       \* connection attempts of VPN_CRP_SEVERAL_ATTEMPTS
  RecoveryAttempts,  \* upstream_config->recovery.attempts
  SizeMax,           \* the largest size_t
  MaxCalls           \* bound: calls of the application after vpn_connect

ASSUME VpnFsmAssumption ==
  /\ Endpoints # {} /\ "none" \notin Endpoints
  /\ SizeMax \in Nat /\ MaxAttempts \in 1..SizeMax
  /\ RecoveryAttempts \in Nat \ {0}
  /\ MaxCalls \in Nat

VARIABLES
  vpn,    \* struct Vpn
  calls   \* calls the application has made

vars == <<vpn, calls>>

None == "none"   \* std::nullopt, nullptr

\* An optional VpnError: none, the code VPN_EC_NOERROR, a code that is or is not
\* among those of is_fatal_error_code.
Errors == {None, "noerror", "plain", "fatal"}
Failures == {"plain", "fatal"}

States == {"DISCONNECTED", "CONNECTING", "CONNECTED", "WAITING_RECOVERY",
           "RECOVERING", "WAITING_FOR_NETWORK"}

\* Submitted tasks run in order.  What is delayed (timers, pings, connection
\* attempts) ends some time after what was submitted before it has run.
Submitted == {"retry", "client_disconnected", "give_up", "listen_failed",
              "finalizer", "deferred_disconnect"}
Delayed == {"ping", "connector", "recovery", "window"}

Vpn ==
  [state : States,
   pending_error : Errors,
   client_state : {"disconnected", "connecting", "connected"},
   client : {"disconnected", "connecting", "connected", "disconnecting"},
   client_error : Errors,
   queue : Seq(Submitted \cup Delayed),
   policy : {"unset", "several_attempts", "recovery", "stopped"},
   attempts_left : 0..SizeMax,
   recovery_attempts : 0..RecoveryAttempts,
   recovery_started : BOOLEAN,
   endpoints : SUBSET Endpoints,
   selected_endpoint : Endpoints \cup {None},
   ping_failure_fatal : BOOLEAN,
   network_changed : BOOLEAN,
   connected_once : BOOLEAN,
   kill_switch : BOOLEAN,
   request : [Requests -> {None, "postponed", "bypassed", "reset", "completed", "rejected"}]]

TypeOK == vpn \in Vpn /\ calls \in 0..MaxCalls

Init ==
  /\ vpn \in [state : {"DISCONNECTED"},
              pending_error : {None},
              client_state : {"disconnected"},
              client : {"disconnected"},
              client_error : {None},
              queue : {<<>>},
              policy : {"unset"},
              attempts_left : {0},
              recovery_attempts : {0},
              recovery_started : {FALSE},
              endpoints : {Endpoints},
              selected_endpoint : {None},
              ping_failure_fatal : {FALSE},
              network_changed : {FALSE},
              connected_once : {FALSE},
              kill_switch : BOOLEAN,
              request : {[r \in Requests |-> None]}]
  /\ calls = 0

--------------------------------------------------------------------------------
(* The event loop.                                                           *)

\* The operators of SequencesExt on the queue; the module itself would bring all
\* it extends into every proof.
Contains(s, e) == \E i \in 1..Len(s) : s[i] = e
RemoveAt(s, i) == SubSeq(s, 1, i - 1) \o SubSeq(s, i + 1, Len(s))

\* A queue without some tasks.
Without(q, tasks) ==
  LET left[i \in 0..Len(q)] ==
        IF i = 0 THEN <<>>
        ELSE IF q[i] \in tasks THEN left[i - 1] ELSE Append(left[i - 1], q[i])
  IN left[Len(q)]

Cancel(v, tasks) == [v EXCEPT !.queue = Without(@, tasks)]
Submit(v, task) == [v EXCEPT !.queue = Append(@, task)]
Schedule(v, task) == Submit(Cancel(v, {task}), task)

\* The position of a queued task, and whether the loop may run it now.
Position(task) == Min({i \in 1..Len(vpn.queue) : vpn.queue[i] = task})
Ready(task) ==
  /\ Contains(vpn.queue, task)
  /\ \A i \in 1..(Position(task) - 1) : vpn.queue[i] \in Delayed
Taken(task) == [vpn EXCEPT !.queue = RemoveAt(@, Position(task))]

--------------------------------------------------------------------------------
(* The VPN client.                                                           *)

\* Every deferred task of the client and the connector are cancelled.
run_disconnect(v) ==
  [Cancel(v, {"finalizer", "deferred_disconnect", "connector"})
     EXCEPT !.client = "disconnected"]

submit_disconnect(v, error) ==
  [Submit(v, "deferred_disconnect") EXCEPT
     !.client = "disconnecting",
     !.client_error = IF @ = None /\ error \in Failures THEN error ELSE @]

--------------------------------------------------------------------------------
(* The actions of the manager's state machine.  A choice c says what the      *)
(* environment answers: whether a session can be opened (opens), whether the  *)
(* recovery takes longer than the location update period (late).              *)

Answers == [opens : BOOLEAN, late : BOOLEAN]

disconnect_client_NotRecorded(v) ==
  IF v.client_state = "disconnected" \/ v.client = "disconnected" THEN v
  ELSE run_disconnect(v)
disconnect_client(v) ==
  IF v.client_state = "disconnected" THEN v
  ELSE [(IF v.client = "disconnected" THEN v ELSE run_disconnect(v))
          EXCEPT !.client_state = "disconnected"]

stop_pinging(v) == [Cancel(v, {"ping"}) EXCEPT !.ping_failure_fatal = FALSE]

disconnect(v) == disconnect_client(stop_pinging(v))

reset_recovery(v) ==
  [Cancel(v, {"recovery"}) EXCEPT !.recovery_attempts = 0, !.recovery_started = FALSE]

\* The window for postponing requests opens with the first attempt.
initiate_recovery_NoGiveUp(v, c) ==
  IF v.recovery_attempts >= RecoveryAttempts THEN v
  ELSE [Schedule(IF v.recovery_started THEN v ELSE Schedule(v, "window"), "recovery")
          EXCEPT !.recovery_attempts = @ + 1, !.recovery_started = ~ c.late]
initiate_recovery(v, c) ==
  IF v.recovery_attempts >= RecoveryAttempts THEN Submit(v, "give_up")
  ELSE [Schedule(IF v.recovery_started THEN v ELSE Schedule(v, "window"), "recovery")
          EXCEPT !.recovery_attempts = @ + 1, !.recovery_started = ~ c.late]

run_ping_KeepsEndpoint(v) ==
  [Schedule(stop_pinging(Cancel(v, {"recovery"})), "ping") EXCEPT !.pending_error = None]
run_ping(v) ==
  [Schedule(stop_pinging(Cancel(v, {"recovery"})), "ping")
     EXCEPT !.pending_error = None, !.selected_endpoint = None]

\* VpnClient::connect, called by run_client_connect: it refuses unless the
\* client is disconnected, and an error left in the client fails it as well.
connect_error(v, c) ==
  CASE v.client # "disconnected" \/ ~ c.opens -> "plain"
    [] v.client = "disconnected" /\ c.opens -> v.client_error

run_client_connect(v, c) ==
  LET error == connect_error(v, c)
      w == IF v.client = "disconnected"
           THEN [Cancel(v, {"finalizer", "deferred_disconnect"}) EXCEPT !.client_error = None]
           ELSE v
  IN IF error \in Failures
     THEN [Submit(w, "client_disconnected") EXCEPT !.pending_error = error]
     ELSE [Schedule(v, "connector") EXCEPT
             !.client = "connecting", !.client_error = None,
             !.client_state = "connecting", !.pending_error = None]

reconnect_client(v, c) == run_client_connect(disconnect_client(v), c)

complete_connect(v, error) ==
  reset_recovery(
    IF v.pending_error = None /\ error \in Failures
    THEN [disconnect(v) EXCEPT !.pending_error = error]
    ELSE v)

\* attempts_left is a size_t.  Asserts are not compiled into a release build.
retry_connect(v) ==
  Submit(disconnect([v EXCEPT
           !.attempts_left = IF v.policy = "several_attempts"
                             THEN (@ - 1) % (SizeMax + 1) ELSE @]),
         "retry")

prepare_for_recovery(v, error, c) ==
  [initiate_recovery(disconnect(v), c) EXCEPT
     !.pending_error = IF @ = None /\ error \in Failures THEN error ELSE @]

do_disconnect(v) == disconnect(reset_recovery(v))

finalize_recovery_KeepsPostponed(v) ==
  [Cancel(stop_pinging(reset_recovery(v)), {"window"}) EXCEPT
     !.request = [r \in Requests |-> IF @[r] = "bypassed" THEN "reset" ELSE @[r]]]
finalize_recovery(v) ==
  [Cancel(stop_pinging(reset_recovery(v)), {"window"}) EXCEPT
     !.request = [r \in Requests |->
                    CASE @[r] = "postponed" -> "completed"
                      [] @[r] = "bypassed" -> "reset"
                      [] OTHER -> @[r]]]

\* VpnClient::listen fails or not.
start_listening(v, outcome) ==
  IF outcome # "fails" THEN v
  ELSE Submit(IF v.client = "connected" THEN submit_disconnect(v, None) ELSE v,
              "listen_failed")

on_wrong_connect_state(v) == [disconnect(v) EXCEPT !.pending_error = "plain"]

answer_request(v, r, answer) == [v EXCEPT !.request[r] = answer]

raise_state(v) ==
  [v EXCEPT
     !.pending_error = IF v.state = "CONNECTED" THEN @ ELSE None,
     !.connected_once = @ \/ v.state = "CONNECTED",
     !.network_changed = @ /\ v.state \notin {"DISCONNECTED", "CONNECTING", "RECOVERING"}]

--------------------------------------------------------------------------------
(* The transition table.                                                     *)

\* source, event, condition, action before the transition, target, raise_state
TRANSITION_TABLE == <<
  <<"DISCONNECTED", "DO_CONNECT", "ANYWAY", "run_ping", "CONNECTING", TRUE>>,
  <<"DISCONNECTED", "CLIENT_DISCONNECTED", "ANYWAY", "DO_NOTHING", "SAME", FALSE>>,
  <<"DISCONNECTED", "SHUTDOWN", "ANYWAY", "do_disconnect", "SAME", FALSE>>,
  <<"DISCONNECTED", "START_LISTENING", "ANYWAY", "DO_NOTHING", "SAME", FALSE>>,
  <<"DISCONNECTED", "NETWORK_CHANGE", "ANYWAY", "DO_NOTHING", "SAME", FALSE>>,

  <<"CONNECTING", "RETRY_CONNECT", "ANYWAY", "run_ping", "SAME", FALSE>>,
  <<"CONNECTING", "PING_READY", "ANYWAY", "connect_client", "SAME", FALSE>>,
  <<"CONNECTING", "PING_FAIL", "is_fatal_error", "complete_connect", "DISCONNECTED", TRUE>>,
  <<"CONNECTING", "PING_FAIL", "fall_into_recovery", "prepare_for_recovery", "WAITING_RECOVERY", TRUE>>,
  <<"CONNECTING", "PING_FAIL", "no_connect_attempts", "complete_connect", "DISCONNECTED", TRUE>>,
  <<"CONNECTING", "PING_FAIL", "OTHERWISE", "retry_connect", "SAME", FALSE>>,
  <<"CONNECTING", "CLIENT_READY", "ANYWAY", "complete_connect", "CONNECTED", TRUE>>,
  <<"CONNECTING", "CLIENT_DISCONNECTED", "is_fatal_error", "complete_connect", "DISCONNECTED", TRUE>>,
  <<"CONNECTING", "CLIENT_DISCONNECTED", "fall_into_recovery", "prepare_for_recovery", "WAITING_RECOVERY", TRUE>>,
  <<"CONNECTING", "CLIENT_DISCONNECTED", "no_connect_attempts", "complete_connect", "DISCONNECTED", TRUE>>,
  <<"CONNECTING", "CLIENT_DISCONNECTED", "OTHERWISE", "retry_connect", "SAME", FALSE>>,
  <<"CONNECTING", "ABANDON_ENDPOINT", "is_fatal_error", "complete_connect", "DISCONNECTED", TRUE>>,
  <<"CONNECTING", "ABANDON_ENDPOINT", "OTHERWISE", "retry_connect", "SAME", FALSE>>,
  <<"CONNECTING", "NETWORK_CHANGE", "no_connect_attempts", "fail_connect", "DISCONNECTED", TRUE>>,
  <<"CONNECTING", "NETWORK_CHANGE", "network_lost", "do_disconnect", "WAITING_FOR_NETWORK", TRUE>>,
  <<"CONNECTING", "NETWORK_CHANGE", "fall_into_recovery", "prepare_for_recovery", "WAITING_RECOVERY", TRUE>>,
  <<"CONNECTING", "NETWORK_CHANGE", "OTHERWISE", "retry_connect", "SAME", FALSE>>,

  <<"CONNECTED", "NETWORK_CHANGE", "network_lost", "do_disconnect", "WAITING_FOR_NETWORK", TRUE>>,
  <<"CONNECTED", "NETWORK_CHANGE", "OTHERWISE", "prepare_for_recovery", "WAITING_RECOVERY", TRUE>>,
  <<"CONNECTED", "ABANDON_ENDPOINT", "is_fatal_error", "do_disconnect", "DISCONNECTED", TRUE>>,
  <<"CONNECTED", "ABANDON_ENDPOINT", "OTHERWISE", "prepare_for_recovery", "WAITING_RECOVERY", TRUE>>,

  <<"WAITING_RECOVERY", "NETWORK_CHANGE", "network_lost", "do_disconnect", "WAITING_FOR_NETWORK", TRUE>>,
  <<"WAITING_RECOVERY", "NETWORK_CHANGE", "OTHERWISE", "run_ping", "RECOVERING", TRUE>>,
  <<"WAITING_RECOVERY", "DO_RECOVERY", "need_to_ping_on_recovery", "run_ping", "RECOVERING", TRUE>>,
  <<"WAITING_RECOVERY", "DO_RECOVERY", "OTHERWISE", "connect_client", "RECOVERING", TRUE>>,
  <<"WAITING_RECOVERY", "CLIENT_DISCONNECTED", "is_fatal_error", "do_disconnect", "DISCONNECTED", TRUE>>,
  <<"WAITING_RECOVERY", "CLIENT_DISCONNECTED", "OTHERWISE", "DO_NOTHING", "SAME", FALSE>>,
  <<"WAITING_RECOVERY", "ABANDON_ENDPOINT", "is_fatal_error", "do_disconnect", "DISCONNECTED", TRUE>>,

  <<"RECOVERING", "NETWORK_CHANGE", "network_lost", "do_disconnect", "WAITING_FOR_NETWORK", TRUE>>,
  <<"RECOVERING", "NETWORK_CHANGE", "OTHERWISE", "prepare_for_recovery", "WAITING_RECOVERY", TRUE>>,
  <<"RECOVERING", "PING_READY", "ANYWAY", "reconnect_client", "SAME", FALSE>>,
  <<"RECOVERING", "PING_FAIL", "is_fatal_error", "do_disconnect", "DISCONNECTED", TRUE>>,
  <<"RECOVERING", "PING_FAIL", "OTHERWISE", "prepare_for_recovery", "WAITING_RECOVERY", TRUE>>,
  <<"RECOVERING", "CLIENT_READY", "ANYWAY", "finalize_recovery", "CONNECTED", TRUE>>,
  <<"RECOVERING", "ABANDON_ENDPOINT", "is_fatal_error", "do_disconnect", "DISCONNECTED", TRUE>>,
  <<"RECOVERING", "ABANDON_ENDPOINT", "OTHERWISE", "prepare_for_recovery", "WAITING_RECOVERY", TRUE>>,

  <<"WAITING_FOR_NETWORK", "NETWORK_CHANGE", "network_lost", "DO_NOTHING", "SAME", FALSE>>,
  <<"WAITING_FOR_NETWORK", "NETWORK_CHANGE", "connected_once", "prepare_for_recovery", "WAITING_RECOVERY", TRUE>>,
  <<"WAITING_FOR_NETWORK", "NETWORK_CHANGE", "no_connect_attempts", "fail_connect", "DISCONNECTED", TRUE>>,
  <<"WAITING_FOR_NETWORK", "NETWORK_CHANGE", "OTHERWISE", "retry_connect", "CONNECTING", TRUE>>,

  <<"ANY", "CLIENT_DISCONNECTED", "is_fatal_error", "do_disconnect", "DISCONNECTED", TRUE>>,
  <<"ANY", "CLIENT_DISCONNECTED", "OTHERWISE", "prepare_for_recovery", "WAITING_RECOVERY", TRUE>>,
  <<"ANY", "SHUTDOWN", "ANYWAY", "do_disconnect", "DISCONNECTED", TRUE>>,
  <<"ANY", "DO_CONNECT", "ANYWAY", "on_wrong_connect_state", "DISCONNECTED", TRUE>>,
  <<"ANY", "START_LISTENING", "ANYWAY", "start_listening", "SAME", FALSE>>,

  <<"ANY", "COMPLETE_REQUEST", "can_complete", "complete_request", "SAME", FALSE>>,
  <<"ANY", "COMPLETE_REQUEST", "should_postpone", "postpone_request", "SAME", FALSE>>,
  <<"ANY", "COMPLETE_REQUEST", "is_kill_switch_on", "reject_request", "SAME", FALSE>>,
  <<"ANY", "COMPLETE_REQUEST", "OTHERWISE", "bypass_until_connected", "SAME", FALSE>> >>

\* Without the row that makes a disconnected manager ignore its client, and
\* without the one that recovers from the loss of the endpoint in use.
get_transition_table_NoIgnore == RemoveAt(TRANSITION_TABLE, 2)
get_transition_table_AbandonedInUse ==
  SelectSeq(TRANSITION_TABLE,
            LAMBDA row : ~ (row[1] = "CONNECTED" /\ row[2] = "ABANDON_ENDPOINT"))
get_transition_table == TRANSITION_TABLE

\* A condition of the table, on the event's data d.
Holds(condition, v, d, c) ==
  CASE condition \in {"ANYWAY", "OTHERWISE"} -> TRUE
    [] condition = "is_fatal_error" -> "fatal" \in {d, v.pending_error}
    [] condition = "fall_into_recovery" -> v.policy = "recovery"
    [] condition = "no_connect_attempts" ->
         v.policy = "several_attempts" /\ v.attempts_left = 0
    [] condition = "network_lost" -> d = "lost"
    [] condition = "connected_once" -> v.connected_once
    [] condition = "need_to_ping_on_recovery" ->
         \/ v.selected_endpoint = None
         \/ v.network_changed
         \/ ~ v.recovery_started
         \/ c.late
    [] condition = "can_complete" ->
         v.state \notin {"WAITING_RECOVERY", "RECOVERING"} \/ d.immediate
    [] condition = "should_postpone" -> Contains(v.queue, "window")
    [] condition = "is_kill_switch_on" -> v.kill_switch

\* An action of the table.
Before(action, v, d, c) ==
  CASE action = "DO_NOTHING" -> v
    [] action = "run_ping" -> run_ping(v)
    [] action = "connect_client" -> run_client_connect(v, c)
    [] action = "reconnect_client" -> reconnect_client(v, c)
    [] action = "complete_connect" -> complete_connect(v, d)
    [] action = "fail_connect" -> complete_connect(v, "plain")
    [] action = "retry_connect" -> retry_connect(v)
    [] action = "prepare_for_recovery" -> prepare_for_recovery(v, d, c)
    [] action = "finalize_recovery" -> finalize_recovery(v)
    [] action = "do_disconnect" -> do_disconnect(v)
    [] action = "start_listening" -> start_listening(v, d)
    [] action = "on_wrong_connect_state" -> on_wrong_connect_state(v)
    [] action = "complete_request" -> answer_request(v, d.id, "completed")
    [] action = "postpone_request" -> answer_request(v, d.id, "postponed")
    [] action = "reject_request" -> answer_request(v, d.id, "rejected")
    [] action = "bypass_until_connected" -> answer_request(v, d.id, "bypassed")

\* What the manager becomes when the row is taken.
Outcome(row, v, d, c) ==
  LET w == [Before(row[4], v, d, c) EXCEPT !.state = IF row[5] = "SAME" THEN @ ELSE row[5]]
  IN IF row[6] THEN raise_state(w) ELSE w

Events == {row[2] : row \in Range(TRANSITION_TABLE)}

\* The rows for an event in a state, whatever their condition.
Rows ==
  [at \in States \X Events |->
     {i \in DOMAIN get_transition_table :
        /\ get_transition_table[i][1] \in {at[1], "ANY"}
        /\ get_transition_table[i][2] = at[2]}]

\* Fsm::perform_transition: the first row whose condition holds, if any, is taken.
Taking(v, event, d, c) ==
  LET rows == {i \in Rows[<<v.state, event>>] : Holds(get_transition_table[i][3], v, d, c)}
  IN IF rows = {} THEN v ELSE Outcome(get_transition_table[Min(rows)], v, d, c)
perform_transition(v, event, d) == {Taking(v, event, d, c) : c \in Answers}

--------------------------------------------------------------------------------
(* Calls of the application.                                                 *)

Running == vpn.policy \in {"several_attempts", "recovery"}

Call == Running /\ calls < MaxCalls /\ calls' = calls + 1

vpn_connect(policy, attempts) ==
  /\ vpn.policy = "unset"
  /\ vpn' \in perform_transition(
               [vpn EXCEPT !.policy = policy,
                           !.attempts_left = IF policy = "recovery" THEN @ ELSE attempts - 1],
               "DO_CONNECT", None)
  /\ UNCHANGED calls

vpn_force_reconnect ==
  /\ Call
  /\ vpn' \in perform_transition(vpn, "DO_RECOVERY", None)

vpn_force_disconnect(error) ==
  /\ Call
  /\ vpn' \in perform_transition([vpn EXCEPT !.pending_error = IF error = None THEN @ ELSE error],
                               "SHUTDOWN", None)

vpn_listen(outcome) ==
  /\ Call
  /\ vpn' \in perform_transition(vpn, "START_LISTENING", outcome)

vpn_notify_network_change(network) ==
  /\ Call
  /\ vpn' \in perform_transition([vpn EXCEPT !.network_changed = TRUE],
                               "NETWORK_CHANGE", network)

\* The location is lost with the last endpoint of an address family.
vpn_abandon_endpoint(endpoint) ==
  LET isSelected == vpn.selected_endpoint = endpoint
      rest == vpn.endpoints \ {endpoint}
      exhausted == \A e \in rest : (e \in Ipv6) # (endpoint \in Ipv6)
      w == [vpn EXCEPT !.selected_endpoint = IF isSelected THEN None ELSE @,
                       !.endpoints = IF exhausted THEN {} ELSE rest]
  IN /\ Call
     /\ vpn' \in CASE exhausted ->
                      perform_transition([w EXCEPT !.pending_error = "fatal"],
                                         "ABANDON_ENDPOINT", None)
                 [] ~ exhausted /\ ~ isSelected -> {w}
                 [] ~ exhausted /\ isSelected ->
                      perform_transition([w EXCEPT !.pending_error = "plain",
                                                   !.ping_failure_fatal = TRUE],
                                         "ABANDON_ENDPOINT", None)

\* Each connection is completed once.
vpn_complete_connect_request(r, immediate) ==
  /\ Running
  /\ vpn.request[r] = None
  /\ vpn' \in perform_transition(vpn, "COMPLETE_REQUEST",
                               [id |-> r, immediate |-> immediate])
  /\ UNCHANGED calls

\* The loop is stopped and the state reset; what is queued does not run.
vpn_stop ==
  /\ Running
  /\ vpn' = [vpn EXCEPT !.policy = "stopped", !.state = "DISCONNECTED",
                        !.pending_error = None, !.client_state = "disconnected",
                        !.client = "disconnected", !.queue = <<>>,
                        !.ping_failure_fatal = FALSE, !.recovery_attempts = 0,
                        !.recovery_started = FALSE, !.selected_endpoint = None,
                        !.request = [r \in Requests |->
                          IF @[r] \in {"postponed", "bypassed"} THEN "reset" ELSE @[r]]]
  /\ UNCHANGED calls

Application ==
  \/ \E policy \in {"several_attempts", "recovery"}, n \in 1..MaxAttempts :
       vpn_connect(policy, n)
  \/ vpn_force_reconnect
  \/ \E error \in {None, "plain"} : vpn_force_disconnect(error)
  \/ \E outcome \in {"listens", "fails"} : vpn_listen(outcome)
  \/ \E network \in {"lost", "up"} : vpn_notify_network_change(network)
  \/ \E endpoint \in Endpoints : vpn_abandon_endpoint(endpoint)
  \/ \E r \in Requests, immediate \in BOOLEAN : vpn_complete_connect_request(r, immediate)
  \/ vpn_stop

--------------------------------------------------------------------------------
(* What the event loop runs.                                                 *)

\* The client reports that it is disconnected, with the error it holds.
raise_disconnected(v) ==
  perform_transition([v EXCEPT !.client = "disconnected", !.client_state = "disconnected",
                               !.client_error = None],
                     "CLIENT_DISCONNECTED", v.client_error)

\* The session ends while the client is connected, about to disconnect, or has
\* not yet run the finalizer of its connector.
SessionClosed ==
  /\ \/ vpn.client \in {"connected", "disconnecting"}
     \/ vpn.client = "connecting" /\ Contains(vpn.queue, "finalizer") /\ vpn.client_error = None
  /\ vpn' \in raise_disconnected(vpn)
  /\ UNCHANGED calls

\* A session or health check error.
SessionError(error) ==
  /\ vpn.client = "connected"
  /\ vpn' = submit_disconnect(vpn, error)
  /\ UNCHANGED calls

endpoint_connector_handler(error) ==
  /\ Ready("connector")
  /\ vpn' = [Submit(Taken("connector"), "finalizer") EXCEPT !.client_error = error]
  /\ UNCHANGED calls

endpoint_connector_finalizer ==
  /\ Ready("finalizer")
  /\ LET v == Cancel(Taken("finalizer"), {"connector"})
     IN vpn' \in CASE v.client_error # None -> raise_disconnected(v)
                 [] v.client_error = None /\ v.client = "connecting" ->
                      perform_transition([v EXCEPT !.client = "connected",
                                                   !.client_state = "connected"],
                                         "CLIENT_READY", None)
                 [] v.client_error = None /\ v.client # "connecting" -> {v}
  /\ UNCHANGED calls

DeferredDisconnect ==
  /\ Ready("deferred_disconnect")
  /\ LET v == Taken("deferred_disconnect")
     IN vpn' \in IF v.client = "disconnecting"
                THEN raise_disconnected(run_disconnect(v)) ELSE {v}
  /\ UNCHANGED calls

PingFails ==
  /\ Ready("ping")
  /\ vpn' \in perform_transition([Taken("ping") EXCEPT !.ping_failure_fatal = FALSE], "PING_FAIL",
                               IF vpn.ping_failure_fatal THEN "fatal" ELSE "plain")
  /\ UNCHANGED calls

\* The endpoint may have been abandoned since the ping began.
PingSucceeds(endpoint) ==
  /\ Ready("ping")
  /\ vpn' \in IF endpoint \in vpn.endpoints
            THEN perform_transition([Taken("ping") EXCEPT !.ping_failure_fatal = FALSE,
                                                          !.selected_endpoint = endpoint],
                                    "PING_READY", None)
            ELSE perform_transition([Taken("ping") EXCEPT !.selected_endpoint = None],
                                    "PING_FAIL", "plain")
  /\ UNCHANGED calls

RetryTask ==
  /\ Ready("retry")
  /\ vpn' \in perform_transition(Taken("retry"), "RETRY_CONNECT", None)
  /\ UNCHANGED calls

ClientDisconnectedTask ==
  /\ Ready("client_disconnected")
  /\ vpn' \in perform_transition(Taken("client_disconnected"), "CLIENT_DISCONNECTED", None)
  /\ UNCHANGED calls

GiveUpTask ==
  /\ Ready("give_up")
  /\ vpn' \in perform_transition([reset_recovery(Taken("give_up")) EXCEPT !.pending_error = "fatal"],
                               "SHUTDOWN", None)
  /\ UNCHANGED calls

ListenFailedTask ==
  /\ Ready("listen_failed")
  /\ vpn' \in perform_transition([Taken("listen_failed") EXCEPT !.pending_error = "plain"],
                               "SHUTDOWN", None)
  /\ UNCHANGED calls

RecoveryTask ==
  /\ Ready("recovery")
  /\ vpn' \in perform_transition(Taken("recovery"), "DO_RECOVERY", None)
  /\ UNCHANGED calls

postponement_window_timer_cb_IgnoresKillSwitch ==
  /\ Ready("window")
  /\ vpn' = [Taken("window") EXCEPT
               !.request = [r \in Requests |-> IF @[r] = "postponed" THEN "bypassed" ELSE @[r]]]
  /\ UNCHANGED calls

postponement_window_timer_cb ==
  /\ Ready("window")
  /\ vpn' = [Taken("window") EXCEPT
               !.request = [r \in Requests |->
                 IF @[r] # "postponed" THEN @[r]
                 ELSE IF vpn.kill_switch THEN "rejected" ELSE "bypassed"]]
  /\ UNCHANGED calls

\* The loop runs a submitted task, a timer that is due, the end of a ping or of
\* a connection attempt.
RunSubmitted ==
  \/ endpoint_connector_finalizer \/ DeferredDisconnect
  \/ RetryTask \/ ClientDisconnectedTask \/ GiveUpTask \/ ListenFailedTask

Ping == PingFails \/ \E endpoint \in Endpoints : PingSucceeds(endpoint)
Connector == \E error \in Errors : endpoint_connector_handler(error)

Session == SessionClosed \/ \E error \in Failures : SessionError(error)

Next ==
  \/ Application \/ Session
  \/ RunSubmitted \/ Ping \/ Connector \/ RecoveryTask \/ postponement_window_timer_cb

Spec == Init /\ [][Next]_vars

--------------------------------------------------------------------------------
Queued(tasks) == \E task \in tasks : Contains(vpn.queue, task)

\* The session never waits for nothing: a manager that waits for recovery has its
\* timer or has decided to give up, one that connects or recovers has a ping, a
\* retry, a report or a client in progress, and a client that connects or
\* disconnects has the task that ends it (every row of the table starts what its
\* target state waits for, and no cancellation takes it away).
NeverStranded ==
  /\ vpn.state = "WAITING_RECOVERY" => Queued({"recovery", "give_up"})
  /\ vpn.state \in {"CONNECTING", "RECOVERING"} =>
       vpn.client # "disconnected" \/ Queued({"ping", "retry", "client_disconnected", "give_up"})
  /\ vpn.client = "connecting" => Queued({"connector", "finalizer"})
  /\ vpn.client = "disconnecting" => Queued({"deferred_disconnect"})

\* What the manager believes of its client is what the client's own state machine
\* says, although they change in different tasks (Vpn::client_state).
ClientStateAgrees ==
  vpn.client_state = IF vpn.client = "disconnecting" THEN "connected" ELSE vpn.client

\* A connected manager has a client with a session, over an endpoint that the
\* location still has (raise_state dereferences the selected endpoint), unless the
\* last endpoint of a family was abandoned while it waited for the network.
ConnectedOverEndpoint ==
  vpn.state = "CONNECTED" =>
    /\ vpn.client \in {"connected", "disconnecting"}
    /\ vpn.selected_endpoint # None
    /\ vpn.endpoints # {} => vpn.selected_endpoint \in vpn.endpoints

\* No endpoint is selected while a ping is to select one (the assertion of
\* pinger_handler), and one is while the client of a live session connects
\* (make_client_upstream_config dereferences it).
SelectionFollowsPing ==
  /\ Queued({"ping"}) => vpn.selected_endpoint = None
  /\ vpn.client = "connecting" /\ vpn.state # "DISCONNECTED" => vpn.selected_endpoint # None

\* A postponed request always has the timer that answers it if the recovery does
\* not (postponement_window_timer).
PostponedInWindow ==
  (\E r \in Requests : vpn.request[r] = "postponed") => Queued({"window"})

\* With the kill switch on, no connection bypasses the endpoint because the
\* session is being recovered, neither at once nor when the window closes.
KillSwitchHolds == vpn.kill_switch => \A r \in Requests : vpn.request[r] # "bypassed"

\* Once the manager is disconnected no late timer, ping, report of the client or
\* queued task brings the session back; only vpn_connect starts one.
DisconnectedIsFinal ==
  [][vpn.state = "DISCONNECTED" /\ vpn.policy # "unset" => vpn'.state = "DISCONNECTED"]_vars

\* When the manager is disconnected its client is: "VPN client is disconnected and
\* waiting for call to `vpn_connect`" (vpn.h, VPN_SS_DISCONNECTED).
DisconnectedIsIdle == vpn.state = "DISCONNECTED" => vpn.client = "disconnected"

================================================================================
