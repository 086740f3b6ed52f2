-------------------------------- MODULE Endpoint --------------------------------
(***************************************************************************)
(* Graceful shutdown (lib/src/shutdown.rs), used as its documentation says: *)
(* the application submits the shutdown and then waits for its completion,  *)
(* keeping the mutex locked while it waits; the tunnels, handlers and       *)
(* listeners subscribe to the notification and take a completion guard      *)
(* under that mutex.  A thing whose task waits for the mutex blocks a       *)
(* worker thread of the runtime.                                            *)
(*                                                                         *)
(* And the end of the endpoint process (endpoint/src/main.rs):              *)
(* Core::listen, the SIGHUP loop and the interrupt task run in one select!   *)
(* on the main thread, and the process exits as soon as one of them returns. *)
(* Core::listen is itself one of the things that subscribe to the shutdown  *)
(* and hold a completion guard.                                             *)
(***************************************************************************)
EXTENDS Naturals, FiniteSets

CONSTANTS
  Things,   \* tunnels, handlers and listeners that can be alive at once
  Workers,  \* worker threads of the runtime
  Core      \* Core::listen, running from the start

VARIABLES
  state,       \* per thing: what its task is doing
  notice,      \* per thing: a notification is queued at its receiver
  guard,       \* per thing: it holds a CompletionGuard
  submitted,   \* submit() was called
  completion,  \* the application's call of completion()
  exit         \* why the process has exited, if it has

vars == <<state, notice, guard, submitted, completion>>
endpointVars == <<vars, exit>>

ThingStates == {"absent", "blocked", "listening", "draining"}

TypeOK ==
  /\ state \in [Things -> ThingStates]
  /\ notice \in [Things -> BOOLEAN]
  /\ guard \in [Things -> BOOLEAN]
  /\ submitted \in BOOLEAN
  /\ completion \in {"not_called", "waiting", "returned"}

Init ==
  /\ state = [t \in Things |-> "absent"]
  /\ notice = [t \in Things |-> FALSE]
  /\ guard = [t \in Things |-> FALSE]
  /\ submitted = FALSE
  /\ completion = "not_called"

\* completion() holds the mutex while it waits, and has dropped the sender.
Locked == completion = "waiting"
SenderKept == completion = "not_called"

\* Tasks are polled only while some worker is not stuck at the mutex.
Polled == Cardinality({t \in Things : state[t] = "blocked"}) < Workers

--------------------------------------------------------------------------------
(* The application.                                                          *)

\* Every receiver that exists now gets the notification, later ones do not.
Submit ==
  /\ ~ submitted
  /\ submitted' = TRUE
  /\ notice' = [t \in Things |-> state[t] = "listening"]
  /\ UNCHANGED <<state, guard, completion>>

CallCompletion ==
  /\ submitted /\ completion = "not_called"
  /\ completion' = "waiting"
  /\ UNCHANGED <<state, notice, guard, submitted>>

CompletionReturns ==
  /\ completion = "waiting"
  /\ \A t \in Things : ~ guard[t]
  /\ completion' = "returned"
  /\ UNCHANGED <<state, notice, guard, submitted>>

--------------------------------------------------------------------------------
(* The things.                                                               *)

\* Subscribe and take a guard, in one critical section.
Join_GuardAnyway(t) ==
  /\ Polled \/ state[t] = "blocked"
  /\ state[t] \in {"absent", "blocked"}
  /\ ~ Locked
  /\ state' = [state EXCEPT ![t] = "listening"]
  /\ guard' = [guard EXCEPT ![t] = TRUE]
  /\ UNCHANGED <<notice, submitted, completion>>

Join(t) ==
  /\ Polled \/ state[t] = "blocked"
  /\ state[t] \in {"absent", "blocked"}
  /\ ~ Locked
  /\ state' = [state EXCEPT ![t] = "listening"]
  /\ guard' = [guard EXCEPT ![t] = SenderKept]
  /\ UNCHANGED <<notice, submitted, completion>>

Block(t) ==
  /\ Polled
  /\ state[t] = "absent"
  /\ Locked
  /\ state' = [state EXCEPT ![t] = "blocked"]
  /\ UNCHANGED <<notice, guard, submitted, completion>>

\* The notification wins the select!: the thing drains gracefully.
Notified_WaitsOn(t) ==
  /\ Polled
  /\ state[t] = "listening" /\ notice[t]
  /\ notice' = [notice EXCEPT ![t] = FALSE]
  /\ UNCHANGED <<state, guard, submitted, completion>>

Notified(t) ==
  /\ Polled
  /\ state[t] = "listening" /\ notice[t]
  /\ state' = [state EXCEPT ![t] = "draining"]
  /\ notice' = [notice EXCEPT ![t] = FALSE]
  /\ UNCHANGED <<guard, submitted, completion>>

\* The task returns, on its own or after draining, and drops its guard.
Leave(t) ==
  /\ Polled
  /\ state[t] \in {"listening", "draining"}
  /\ state' = [state EXCEPT ![t] = "absent"]
  /\ notice' = [notice EXCEPT ![t] = FALSE]
  /\ guard' = [guard EXCEPT ![t] = FALSE]
  /\ UNCHANGED <<submitted, completion>>

ThingStep(t) == Join(t) \/ Block(t) \/ Notified(t) \/ Leave(t)

Next ==
  \/ Submit \/ CallCompletion \/ CompletionReturns
  \/ \E t \in Things : ThingStep(t)

Spec == Init /\ [][Next]_vars

--------------------------------------------------------------------------------
\* completion() returns only when no thing that took a guard is still alive,
\* and none can take one afterwards (shutdown_complete_rx returns None when
\* every sender is dropped, and completion() drops the original).
CompletionIsFinal == completion = "returned" => \A t \in Things : ~ guard[t]

\* A thing that was subscribed when the shutdown was submitted is notified: as
\* long as it listens, its notification is queued (broadcast channel).
NoticeIsKept ==
  [][\A t \in Things : notice[t] /\ ~ notice'[t] => state'[t] # "listening"]_vars

--------------------------------------------------------------------------------
(* The process.                                                              *)

EndpointInit ==
  /\ state = [t \in Things |-> IF t = Core THEN "listening" ELSE "absent"]
  /\ notice = [t \in Things |-> FALSE]
  /\ guard = [t \in Things |-> t = Core]
  /\ submitted = FALSE
  /\ completion = "not_called"
  /\ exit = "running"

\* The notified Core::listen returns at once, dropping its guard.
ListenReturns_Waits ==
  /\ exit = "running"
  /\ notice[Core]
  /\ \A t \in Things \ {Core} : ~ guard[t]
  /\ exit' = "listen_returned"
  /\ UNCHANGED vars

ListenReturns ==
  /\ exit = "running"
  /\ notice[Core]
  /\ exit' = "listen_returned"
  /\ UNCHANGED vars

\* A listener fails, or a fatal error is reported.
ListenFails ==
  /\ exit = "running"
  /\ exit' = "listen_failed"
  /\ UNCHANGED vars

\* SIGHUP with settings that cannot be read or applied.
ReloadFails ==
  /\ exit = "running"
  /\ exit' = "reload_failed"
  /\ UNCHANGED vars

\* What goes on while the process runs: the interrupt task and the sessions.
\* CompletionReturns is not among it, nor the interrupt task winning the
\* select!: Core::listen keeps its guard for as long as the process runs.
Running ==
  /\ exit = "running"
  /\ UNCHANGED exit
  /\ \/ Submit \/ CallCompletion
     \/ \E t \in Things \ {Core} : ThingStep(t)

EndpointNext == ListenReturns \/ ListenFails \/ ReloadFails \/ Running

\* The main thread polls its select!.
EndpointSpec ==
  EndpointInit /\ [][EndpointNext]_endpointVars /\ WF_endpointVars(ListenReturns)

--------------------------------------------------------------------------------
\* Ctrl-C ends the process, even when every worker is stuck at the mutex that
\* the waiting completion() holds (main.rs: Core::listen is polled by the main
\* thread).
InterruptEnds == submitted ~> exit # "running"

\* The application leaves, after a shutdown, only when the things that were
\* told to shut down gracefully have done so.
GracefulExit ==
  submitted /\ exit = "listen_returned" =>
    \A t \in Things \ {Core} : ~ notice[t] /\ state[t] # "draining"

================================================================================
