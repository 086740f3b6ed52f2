------------------------------ MODULE EventLoop ------------------------------
(***************************************************************************)
(* The client's event loop (event_loop.cpp), used from several threads: a  *)
(* queue of tasks and a set of deferred ones under one mutex, the thread   *)
(* that runs libevent's loop and, in it, the queue a budget at a time, any *)
(* number of threads that submit, schedule and cancel, and the thread that *)
(* stops the loop.  A step is what a thread does under the mutex, or the   *)
(* call it makes after it has let go of it.                                *)
(***************************************************************************)
EXTENDS Integers, Sequences, FiniteSets, SequencesExt

CONSTANTS Tasks,    \* the tasks, numbered in the order of their identifiers
          Plain,    \* those with no finalizer
          Budget,   \* TASK_QUEUE_BUDGET
          Deferred  \* those given to vpn_event_loop_schedule

VARIABLES lp,       \* the VpnEventLoop
          base,     \* libevent: activations of run_task_queue, exit requested
          runner,   \* the thread in vpn_event_loop_run
          thread,   \* per task, its submitter: "idle", "unlocked", "done"
          stopper,  \* the thread in vpn_event_loop_stop
          fate      \* per task: what was done to it so far

vars == <<lp, base, runner, thread, stopper, fate>>

Nobody == 0
Idle == [at |-> "loop", last |-> 0, ran |-> 0, task |-> Nobody]

Init ==
    /\ lp = [state |-> "stopped", external |-> FALSE, scheduled |-> FALSE,
             queue |-> <<>>, deferred |-> {}]
    /\ base = [once |-> 0, exit |-> FALSE]
    /\ runner = [Idle EXCEPT !.at = "start"]
    /\ thread = [t \in Tasks |-> "idle"]
    /\ stopper = "idle"
    /\ fate = [t \in Tasks |-> <<>>]

Loop == [state : {"stopped", "running", "exited"}, external : BOOLEAN, scheduled : BOOLEAN,
         queue : Seq(Tasks), deferred : SUBSET Tasks]
Base == [once : Nat, exit : BOOLEAN]
Runner == [at : {"start", "loop", "queue", "task", "end"}, last : Tasks \cup {0}, ran : Nat,
           task : Tasks \cup {Nobody}]
Fates == [Tasks -> Seq({"run", "finalized"})]

TypeOK ==
    /\ lp \in Loop /\ base \in Base /\ runner \in Runner /\ fate \in Fates
    /\ thread \in [Tasks -> {"idle", "unlocked", "done"}]
    /\ stopper \in {"idle", "exit", "wait", "done"}

finalize(f, ts) == [t \in Tasks |-> IF t \in ts THEN Append(f[t], "finalized") ELSE f[t]]

-----------------------------------------------------------------------------
(* Other threads *)

IsNext(t) == thread[t] = "idle" /\ \A u \in Tasks : u < t => thread[u] # "idle"

vpn_event_loop_submit(t) ==
    /\ t \notin Deferred /\ IsNext(t)
    /\ IF lp.state = "exited"
       THEN /\ fate' = finalize(fate, {t} \ Plain)
            /\ thread' = [thread EXCEPT ![t] = "done"]
            /\ UNCHANGED lp
       ELSE /\ lp' = [lp EXCEPT !.queue = Append(@, t), !.scheduled = TRUE]
            /\ thread' = [thread EXCEPT ![t] = IF lp.scheduled THEN "done" ELSE "unlocked"]
            /\ UNCHANGED fate
    /\ UNCHANGED <<base, runner, stopper>>

Activate(t) ==
    /\ thread[t] = "unlocked"
    /\ base' = [base EXCEPT !.once = @ + 1]
    /\ thread' = [thread EXCEPT ![t] = "done"]
    /\ UNCHANGED <<lp, runner, stopper, fate>>

(* The finalizer is called here without asking whether there is one *)
vpn_event_loop_schedule(t) ==
    /\ t \in Deferred /\ IsNext(t)
    /\ thread' = [thread EXCEPT ![t] = "done"]
    /\ IF lp.state = "exited"
       THEN fate' = finalize(fate, {t}) /\ UNCHANGED lp
       ELSE lp' = [lp EXCEPT !.deferred = @ \cup {t}] /\ UNCHANGED fate
    /\ UNCHANGED <<base, runner, stopper>>

vpn_event_loop_cancel(t) ==
    /\ \/ \E i \in DOMAIN lp.queue :
             lp.queue[i] = t /\ lp' = [lp EXCEPT !.queue = RemoveAt(@, i)]
       \/ /\ t \in lp.deferred \ Range(lp.queue)
          /\ lp' = [lp EXCEPT !.deferred = @ \ {t}]
    /\ fate' = finalize(fate, {t} \ Plain)
    /\ UNCHANGED <<base, runner, thread, stopper>>

vpn_event_loop_exit ==
    /\ stopper = "idle"
    /\ base' = [base EXCEPT !.exit = TRUE]
    /\ stopper' = "exit"
    /\ UNCHANGED <<lp, runner, thread, fate>>

WaitForRun ==
    /\ stopper = "exit"
    /\ stopper' = "wait"
    /\ lp' = [lp EXCEPT !.external = TRUE]
    /\ UNCHANGED <<base, runner, thread, fate>>

vpn_event_loop_finalize_exit_Queue ==
    /\ stopper = "wait" /\ lp.state # "running"
    /\ stopper' = "done"
    /\ lp' = [lp EXCEPT !.queue = <<>>, !.deferred = {}, !.state = "stopped", !.external = FALSE]
    /\ fate' = finalize(fate, Range(lp.queue) \ Plain)
    /\ UNCHANGED <<base, runner, thread>>
vpn_event_loop_finalize_exit ==
    /\ stopper = "wait" /\ lp.state # "running"
    /\ stopper' = "done"
    /\ lp' = [lp EXCEPT !.queue = <<>>, !.deferred = {}, !.state = "stopped", !.external = FALSE]
    /\ fate' = finalize(fate, (Range(lp.queue) \cup lp.deferred) \ Plain)
    /\ UNCHANGED <<base, runner, thread>>

-----------------------------------------------------------------------------
(* The thread of vpn_event_loop_run *)

vpn_event_loop_run ==
    /\ runner.at = "start"
    /\ lp' = [lp EXCEPT !.state = "running"]
    /\ runner' = Idle
    /\ UNCHANGED <<base, thread, stopper, fate>>

BaseExits ==
    /\ runner.at = "loop" /\ base.exit
    /\ lp' = [lp EXCEPT !.state = IF lp.external THEN "exited" ELSE "stopped"]
    /\ runner' = [Idle EXCEPT !.at = "end"]
    /\ UNCHANGED <<base, thread, stopper, fate>>

run_task_queue ==
    /\ runner.at = "loop" /\ base.once > 0
    /\ base' = [base EXCEPT !.once = @ - 1]
    /\ runner' = [Idle EXCEPT !.at = "queue", !.last = IF lp.queue = <<>> THEN 0 ELSE Last(lp.queue)]
    /\ UNCHANGED <<lp, thread, stopper, fate>>

QueueIsEmpty_StaysScheduled ==
    /\ runner.at = "queue" /\ lp.queue = <<>>
    /\ runner' = Idle
    /\ UNCHANGED <<lp, base, thread, stopper, fate>>
QueueIsEmpty ==
    /\ runner.at = "queue" /\ lp.queue = <<>>
    /\ lp' = [lp EXCEPT !.scheduled = FALSE]
    /\ runner' = Idle
    /\ UNCHANGED <<base, thread, stopper, fate>>

RunAgainLater ==
    /\ runner.at = "queue" /\ lp.queue # <<>>
    /\ Head(lp.queue) > runner.last \/ runner.ran = Budget
    /\ base' = [base EXCEPT !.once = @ + 1]
    /\ runner' = Idle
    /\ UNCHANGED <<lp, thread, stopper, fate>>

TakeTask ==
    /\ runner.at = "queue" /\ lp.queue # <<>>
    /\ Head(lp.queue) <= runner.last /\ runner.ran < Budget
    /\ lp' = [lp EXCEPT !.queue = Tail(@)]
    /\ runner' = [runner EXCEPT !.at = "task", !.ran = @ + 1, !.task = Head(lp.queue)]
    /\ fate' = [fate EXCEPT ![Head(lp.queue)] = Append(@, "run")]
    /\ UNCHANGED <<base, thread, stopper>>

NextTask == QueueIsEmpty \/ RunAgainLater \/ TakeTask

run_deferred_task(t) ==
    /\ runner.at = "loop" /\ t \in lp.deferred
    /\ lp' = [lp EXCEPT !.deferred = @ \ {t}]
    /\ runner' = [Idle EXCEPT !.at = "task", !.task = t]
    /\ fate' = [fate EXCEPT ![t] = Append(@, "run")]
    /\ UNCHANGED <<base, thread, stopper>>

TaskReturns ==
    /\ runner.at = "task"
    /\ fate' = finalize(fate, {runner.task} \ Plain)
    /\ runner' = [runner EXCEPT !.at = IF runner.ran > 0 THEN "queue" ELSE "loop", !.task = Nobody]
    /\ UNCHANGED <<lp, base, thread, stopper>>

Next ==
    \/ \E t \in Tasks :
          \/ vpn_event_loop_submit(t) \/ Activate(t) \/ vpn_event_loop_schedule(t)
          \/ vpn_event_loop_cancel(t) \/ run_deferred_task(t)
    \/ vpn_event_loop_exit \/ WaitForRun \/ vpn_event_loop_finalize_exit
    \/ vpn_event_loop_run \/ BaseExits \/ run_task_queue \/ NextTask \/ TaskReturns

(* Threads are scheduled: calls that were begun go on, the loop's thread    *)
(* serves what is active, and a timer fires.                               *)
Fairness ==
    /\ \A t \in Tasks : WF_vars(Activate(t)) /\ WF_vars(run_deferred_task(t))
    /\ WF_vars(WaitForRun) /\ WF_vars(vpn_event_loop_finalize_exit)
    /\ WF_vars(vpn_event_loop_run) /\ WF_vars(BaseExits)
    /\ WF_vars(run_task_queue) /\ WF_vars(NextTask) /\ WF_vars(TaskReturns)

Spec == Init /\ [][Next]_vars /\ Fairness

-----------------------------------------------------------------------------
(* A queued task is always on its way to be run: run_task_queue is active,  *)
(* or running, or the thread that found the queue idle has yet to activate  *)
(* it (task_queue_scheduled is set and cleared under the mutex, but the     *)
(* activation is made outside it).                                          *)
NoTaskForgotten ==
    lp.queue # <<>> =>
        \/ base.once > 0
        \/ runner.at = "queue" \/ (runner.at = "task" /\ runner.ran > 0)
        \/ \E t \in Tasks : thread[t] = "unlocked"

(* A task is held by the loop, is being run, or was finalized, never two    *)
(* of these and never twice, whichever of submit, cancel, run and stop met  *)
(* (VpnEventLoopTask::finalize, event_loop.h).                              *)
HeldOrFinalizedOnce ==
    \A t \in Tasks \ Plain :
        Cardinality({<<"queued", i>> : i \in {j \in DOMAIN lp.queue : lp.queue[j] = t}}
                    \cup {<<"deferred", u>> : u \in lp.deferred \cap {t}}
                    \cup {<<"running", u>> : u \in {runner.task} \cap {t}}
                    \cup {<<"not given", u>> : u \in {v \in {t} : thread[v] = "idle"}}
                    \cup {<<"finalized", i>> : i \in {j \in DOMAIN fate[t] : fate[t][j] = "finalized"}}) = 1

(* What was queued before the loop has been stopped is finalized in the end *)
(* (vpn_event_loop_dispatch_sync blocks until then).                        *)
QueuedIsFinalized ==
    \A t \in Tasks \ Plain :
        (t \in Range(lp.queue) \cup lp.deferred /\ stopper # "done") ~> (fate[t] # <<>>)

(* "it is always finalized" (event_loop.h, vpn_event_loop_dispatch_sync):   *)
(* also the task given to a loop that has been stopped.                     *)
(* Does not hold.                                                           *)
AlwaysFinalized ==
    \A t \in Tasks \ Plain : (t \in Range(lp.queue)) ~> (fate[t] # <<>>)

(* The finalizer "may be null" (event_loop.h, VpnEventLoopTask::finalize).  *)
(* Does not hold: vpn_event_loop_schedule (event_loop.cpp:290).             *)
NoNullFinalizer ==
    \A t \in Plain : "finalized" \notin Range(fate[t])
=============================================================================
