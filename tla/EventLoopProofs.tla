--------------------------- MODULE EventLoopProofs ---------------------------
(***************************************************************************)
(* No queued task is forgotten, for any number of tasks and threads and any *)
(* budget.  NoTaskForgotten is not inductive: a thread that submits relies  *)
(* on task_queue_scheduled to know that another one has activated the       *)
(* queue, so the flag must say so, and be set while tasks are queued.       *)
(***************************************************************************)
EXTENDS EventLoop, SequenceTheorems, TLAPS

\* A leaf that names no prover is tried with the SMT solver, with Zenon, and with
\* the solver once more.
USE SMTT(30), ZenonT(40), Z3T(30)

\* run_task_queue is active or running, or about to be activated.
Coming ==
  \/ base.once > 0
  \/ runner.at = "queue" \/ (runner.at = "task" /\ runner.ran > 0)
  \/ \E t \in Tasks : thread[t] = "unlocked"

\* task_queue_scheduled is set over a queue that is not empty, and rightly.
FlagIsTrue ==
  /\ lp.queue # <<>> => lp.scheduled
  /\ lp.scheduled => Coming

\* The inductive invariant of the loop.
LoopInv == TypeOK /\ FlagIsTrue

--------------------------------------------------------------------------------
\* What erasing one element of a queue leaves is a queue.
LEMMA Erased ==
  ASSUME NEW q \in Seq(Tasks), NEW i \in DOMAIN q
  PROVE  RemoveAt(q, i) \in Seq(Tasks)
<1>1. i \in 1 .. Len(q) /\ Len(q) \in Nat /\ \A j \in 1 .. Len(q) : q[j] \in Tasks
  BY LenProperties, ElementOfSeq
<1>2. SubSeq(q, 1, i - 1) \in Seq(Tasks)
  BY <1>1, SubSeqProperties
<1>3. SubSeq(q, i + 1, Len(q)) \in Seq(Tasks)
  BY <1>1, SubSeqProperties
<1> QED
  BY <1>2, <1>3, ConcatProperties DEF RemoveAt

\* Finalizing appends to what was done to tasks.
LEMMA Finalized ==
  ASSUME NEW f \in Fates, NEW ts
  PROVE  finalize(f, ts) \in Fates
  BY DEF finalize, Fates

\* Erasing from the queue leaves it and the rest of the loop well typed.
LEMMA CancelTypes ==
  ASSUME TypeOK, NEW t \in Tasks, vpn_event_loop_cancel(t)
  PROVE  TypeOK'
<1>1. lp.queue \in Seq(Tasks) /\ fate \in Fates
  BY DEF TypeOK, Loop
<1>2. fate' \in Fates
  BY <1>1, Finalized, ZenonT(40) DEF vpn_event_loop_cancel
<1>3. CASE \E i \in DOMAIN lp.queue : lp' = [lp EXCEPT !.queue = RemoveAt(@, i)]
  <2>1. PICK i \in DOMAIN lp.queue : lp' = [lp EXCEPT !.queue = RemoveAt(@, i)]
    BY <1>3
  <2>2. RemoveAt(lp.queue, i) \in Seq(Tasks)
    BY <1>1, <2>1, Erased, ZenonT(40)
  <2>3. lp' \in Loop
    BY <2>1, <2>2, ZenonT(30) DEF TypeOK, Loop
  <2> QED
    BY <1>2, <2>3 DEF TypeOK, vpn_event_loop_cancel
<1>4. CASE lp' = [lp EXCEPT !.deferred = @ \ {t}]
  <2>1. lp' \in Loop
    BY <1>4 DEF TypeOK, Loop
  <2> QED
    BY <1>2, <2>1 DEF TypeOK, vpn_event_loop_cancel
<1> QED
  BY <1>3, <1>4 DEF vpn_event_loop_cancel

--------------------------------------------------------------------------------
\* The loop starts with an empty queue and the flag unset.
LEMMA LoopInvInit == Init => LoopInv
  BY DEF Init, LoopInv, TypeOK, Loop, Base, Runner, Fates, FlagIsTrue, Idle, Nobody

\* What the other threads do: the one that sets the flag is "unlocked" until
\* it has activated the queue.
LEMMA ThreadsStep ==
  ASSUME LoopInv, NEW t \in Tasks,
         \/ vpn_event_loop_submit(t) \/ Activate(t) \/ vpn_event_loop_schedule(t)
         \/ vpn_event_loop_cancel(t)
  PROVE  LoopInv'
<1>0. TypeOK /\ FlagIsTrue /\ fate \in Fates
  BY DEF LoopInv, TypeOK
<1>1. CASE vpn_event_loop_submit(t) /\ lp.state = "exited"
  <2>1. fate' \in Fates
    BY <1>0, <1>1, Finalized, ZenonT(40) DEF vpn_event_loop_submit
  <2>2. /\ thread' = [thread EXCEPT ![t] = "done"] /\ thread[t] = "idle"
        /\ UNCHANGED <<lp, base, runner, stopper>>
    BY <1>1 DEF vpn_event_loop_submit, IsNext
  <2>3. TypeOK'
    BY <1>0, <2>1, <2>2 DEF TypeOK
  <2> QED
    BY <1>0, <2>2, <2>3 DEF LoopInv, TypeOK, FlagIsTrue, Coming
<1>2. CASE vpn_event_loop_submit(t) /\ lp.state # "exited"
  <2>1. /\ lp' = [lp EXCEPT !.queue = Append(@, t), !.scheduled = TRUE]
        /\ thread' = [thread EXCEPT ![t] = IF lp.scheduled THEN "done" ELSE "unlocked"]
        /\ thread[t] = "idle"
        /\ UNCHANGED <<fate, base, runner, stopper>>
    BY <1>2 DEF vpn_event_loop_submit, IsNext
  <2>2. lp' \in Loop
    <3>1. Append(lp.queue, t) \in Seq(Tasks) /\ lp \in Loop
      BY <1>0 DEF TypeOK, Loop
    <3>2. lp' = [lp EXCEPT !.queue = Append(lp.queue, t), !.scheduled = TRUE]
      BY <2>1
    <3> QED
      BY ONLY <3>1, <3>2, ZenonT(30) DEF Loop
  <2>3. thread' \in [Tasks -> {"idle", "unlocked", "done"}]
    BY <1>0, <2>1 DEF TypeOK
  <2>4. TypeOK'
    BY <1>0, <2>1, <2>2, <2>3 DEF TypeOK
  <2>5. lp'.scheduled
    BY <1>0, <2>1 DEF TypeOK, Loop
  <2>6. Coming'
    <3>1. CASE lp.scheduled
      BY <1>0, <2>1, <3>1 DEF TypeOK, FlagIsTrue, Coming
    <3>2. CASE ~ lp.scheduled
      BY <1>0, <2>1, <3>2 DEF TypeOK, Coming
    <3> QED
      BY <3>1, <3>2
  <2> QED
    BY <2>4, <2>5, <2>6 DEF LoopInv, FlagIsTrue
<1>3. CASE Activate(t)
  <2>1. base' \in Base /\ base'.once > 0
    BY <1>0, <1>3 DEF TypeOK, Base, Activate
  <2>2. TypeOK'
    BY <1>0, <1>3, <2>1 DEF TypeOK, Activate
  <2> QED
    BY <1>0, <1>3, <2>1, <2>2 DEF LoopInv, FlagIsTrue, Coming, Activate
<1>4. CASE vpn_event_loop_schedule(t)
  <2>1. fate' \in Fates
    BY <1>0, <1>4, Finalized, ZenonT(40) DEF vpn_event_loop_schedule
  <2>2. /\ lp' = lp \/ lp' = [lp EXCEPT !.deferred = @ \cup {t}]
        /\ thread' = [thread EXCEPT ![t] = "done"] /\ thread[t] = "idle"
        /\ UNCHANGED <<base, runner, stopper>>
    BY <1>4, ZenonT(40) DEF vpn_event_loop_schedule, IsNext
  <2>3. lp' \in Loop /\ lp'.queue = lp.queue /\ lp'.scheduled = lp.scheduled
    BY <1>0, <2>2 DEF TypeOK, Loop
  <2>4. TypeOK'
    BY <1>0, <2>1, <2>2, <2>3 DEF TypeOK
  <2> QED
    BY <1>0, <2>2, <2>3, <2>4 DEF LoopInv, TypeOK, FlagIsTrue, Coming
<1>5. CASE vpn_event_loop_cancel(t)
  <2>1. lp'.scheduled = lp.scheduled /\ (lp'.queue # <<>> => lp.queue # <<>>)
    BY <1>0, <1>5 DEF TypeOK, Loop, vpn_event_loop_cancel
  <2>2. FlagIsTrue'
    BY <1>0, <1>5, <2>1 DEF FlagIsTrue, Coming, vpn_event_loop_cancel
  <2> QED
    BY <1>0, <1>5, <2>2, CancelTypes DEF LoopInv
<1> QED
  BY <1>1, <1>2, <1>3, <1>4, <1>5

\* What stops the loop leaves the flag and the activations as they are.
LEMMA StopperStep ==
  ASSUME LoopInv, vpn_event_loop_exit \/ WaitForRun \/ vpn_event_loop_finalize_exit
  PROVE  LoopInv'
<1>0. TypeOK /\ FlagIsTrue /\ fate \in Fates
  BY DEF LoopInv, TypeOK
<1>1. CASE vpn_event_loop_exit
  BY <1>0, <1>1, ZenonT(30) DEF LoopInv, TypeOK, Base, FlagIsTrue, Coming, vpn_event_loop_exit
<1>2. CASE WaitForRun
  BY <1>0, <1>2, ZenonT(30) DEF LoopInv, TypeOK, Loop, FlagIsTrue, Coming, WaitForRun
<1>3. CASE vpn_event_loop_finalize_exit
  <2>1. fate' \in Fates
    BY <1>0, <1>3, Finalized, ZenonT(40) DEF vpn_event_loop_finalize_exit
  <2>2. lp' \in Loop /\ lp'.queue = <<>> /\ lp'.scheduled = lp.scheduled
    <3>1. <<>> \in Seq(Tasks) /\ lp \in Loop
      BY <1>0 DEF TypeOK
    <3>2. lp' = [lp EXCEPT !.queue = <<>>, !.deferred = {}, !.state = "stopped", !.external = FALSE]
      BY <1>3 DEF vpn_event_loop_finalize_exit
    <3> QED
      BY ONLY <3>1, <3>2, ZenonT(30) DEF Loop
  <2>3. TypeOK'
    BY <1>0, <1>3, <2>1, <2>2 DEF TypeOK, vpn_event_loop_finalize_exit
  <2> QED
    BY <1>0, <1>3, <2>2, <2>3 DEF LoopInv, FlagIsTrue, Coming, vpn_event_loop_finalize_exit
<1> QED
  BY <1>1, <1>2, <1>3

\* What the loop's thread does: it clears the flag only over an empty queue,
\* and leaves a queue that is not empty with a new activation.
LEMMA RunnerStep ==
  ASSUME LoopInv,
         \/ vpn_event_loop_run \/ BaseExits \/ run_task_queue \/ NextTask \/ TaskReturns
         \/ \E t \in Tasks : run_deferred_task(t)
  PROVE  LoopInv'
<1>0. TypeOK /\ FlagIsTrue /\ fate \in Fates
  BY DEF LoopInv, TypeOK
<1>1. CASE vpn_event_loop_run
  BY <1>0, <1>1 DEF LoopInv, TypeOK, Loop, Runner, FlagIsTrue, Coming, Idle, Nobody, vpn_event_loop_run
<1>2. CASE BaseExits
  BY <1>0, <1>2 DEF LoopInv, TypeOK, Loop, Runner, FlagIsTrue, Coming, Idle, Nobody, BaseExits
<1>3. CASE run_task_queue
  <2>1. base' \in Base
    BY <1>0, <1>3 DEF TypeOK, Base, run_task_queue
  <2>2. lp.queue # <<>> => Last(lp.queue) \in Tasks
    BY <1>0 DEF TypeOK, Loop, Last
  <2>3. runner' \in Runner /\ runner'.at = "queue"
    BY <1>3, <2>2, ZenonT(30) DEF run_task_queue, Idle, Runner, Nobody
  <2>4. TypeOK'
    BY <1>0, <1>3, <2>1, <2>3 DEF TypeOK, run_task_queue
  <2> QED
    BY <1>0, <1>3, <2>3, <2>4 DEF LoopInv, FlagIsTrue, Coming, run_task_queue
<1>4. CASE QueueIsEmpty
  BY <1>0, <1>4, ZenonT(30) DEF LoopInv, TypeOK, Loop, Runner, FlagIsTrue, Coming, Idle, Nobody, QueueIsEmpty
<1>5. CASE RunAgainLater
  <2>1. base' \in Base /\ base'.once > 0
    BY <1>0, <1>5 DEF TypeOK, Base, RunAgainLater
  <2>2. runner' \in Runner
    BY <1>5 DEF RunAgainLater, Idle, Runner, Nobody
  <2>3. TypeOK'
    BY <1>0, <1>5, <2>1, <2>2 DEF TypeOK, RunAgainLater
  <2> QED
    BY <1>0, <1>5, <2>1, <2>3 DEF LoopInv, FlagIsTrue, Coming, RunAgainLater
<1>6. CASE TakeTask
  <2>1. lp.queue \in Seq(Tasks) /\ lp.queue # <<>>
    BY <1>0, <1>6 DEF TypeOK, Loop, TakeTask
  <2>2. Head(lp.queue) \in Tasks /\ Tail(lp.queue) \in Seq(Tasks)
    BY <2>1
  <2>3. lp' \in Loop /\ lp'.scheduled = lp.scheduled
    BY <1>0, <1>6, <2>2, ZenonT(30) DEF TypeOK, Loop, TakeTask
  <2>4. runner' \in Runner /\ runner'.at = "task" /\ runner'.ran > 0
    <3>1. runner \in Runner /\ runner.ran + 1 \in Nat /\ runner.ran + 1 > 0
      BY <1>0 DEF TypeOK, Runner
    <3>2. runner' = [runner EXCEPT !.at = "task", !.ran = runner.ran + 1, !.task = Head(lp.queue)]
      BY <1>6 DEF TakeTask
    <3> HIDE DEF Nobody
    <3>3. /\ runner'.at = "task" /\ runner'.ran = runner.ran + 1
          /\ runner'.task = Head(lp.queue) /\ runner'.last = runner.last
      BY ONLY <3>1, <3>2, SMTT(30), Z3T(30) DEF Runner
    <3> QED
      BY ONLY <2>2, <3>1, <3>2, <3>3, ZenonT(30) DEF Runner
  <2>5. fate' \in Fates
    <3>1. fate \in Fates /\ fate' = [fate EXCEPT ![Head(lp.queue)] = Append(@, "run")]
      BY <1>0, <1>6, Zenon DEF TypeOK, TakeTask
    <3> QED
      BY <2>2, <3>1 DEF Fates
  <2>6. TypeOK'
    BY <1>0, <1>6, <2>3, <2>4, <2>5 DEF TypeOK, TakeTask
  <2> QED
    BY <1>0, <2>1, <2>3, <2>4, <2>6 DEF LoopInv, FlagIsTrue, Coming
<1>7. CASE TaskReturns
  <2>1. fate' \in Fates
    BY <1>0, <1>7, Finalized, ZenonT(40) DEF TaskReturns
  <2>2. runner' \in Runner /\ (runner.ran > 0 => runner'.at = "queue")
    BY <1>0, <1>7, ZenonT(30) DEF TypeOK, Runner, TaskReturns, Nobody
  <2>3. TypeOK'
    BY <1>0, <1>7, <2>1, <2>2 DEF TypeOK, TaskReturns
  <2> QED
    BY <1>0, <1>7, <2>2, <2>3 DEF LoopInv, FlagIsTrue, Coming, TaskReturns
<1>8. ASSUME NEW t \in Tasks, run_deferred_task(t) PROVE LoopInv'
  <2>1. lp' \in Loop /\ lp'.queue = lp.queue /\ lp'.scheduled = lp.scheduled
    BY <1>0, <1>8, ZenonT(30) DEF TypeOK, Loop, run_deferred_task
  <2>2. runner' \in Runner /\ runner.at = "loop"
    BY <1>8, ZenonT(30) DEF run_deferred_task, Idle, Runner, Nobody
  <2>3. fate' \in Fates
    <3>1. Append(fate[t], "run") \in Seq({"run", "finalized"})
      BY <1>0 DEF Fates
    <3>2. fate' = [fate EXCEPT ![t] = Append(fate[t], "run")]
      BY <1>8, ZenonT(30) DEF run_deferred_task
    <3> QED
      BY ONLY <1>0, <3>1, <3>2, SMTT(30), Z3T(30) DEF Fates
  <2>4. TypeOK'
    BY <1>0, <1>8, <2>1, <2>2, <2>3, ZenonT(30) DEF TypeOK, run_deferred_task
  <2> QED
    BY <1>0, <1>8, <2>1, <2>2, <2>4, ZenonT(30) DEF LoopInv, FlagIsTrue, Coming, run_deferred_task
<1> QED
  BY <1>1, <1>2, <1>3, <1>4, <1>5, <1>6, <1>7, <1>8 DEF NextTask

\* Every step preserves the invariant.
LEMMA LoopInvStep == LoopInv /\ [Next]_vars => LoopInv'
<1> SUFFICES ASSUME LoopInv, [Next]_vars PROVE LoopInv'
  OBVIOUS
<1>1. CASE UNCHANGED vars
  BY <1>1 DEF vars, LoopInv, TypeOK, FlagIsTrue, Coming
<1> QED
  BY <1>1, ThreadsStep, StopperStep, RunnerStep DEF Next

\* Type correctness of the event loop's state, for any set of tasks.
THEOREM LoopTypes == Spec => []TypeOK
<1>1. LoopInv => TypeOK
  BY DEF LoopInv
<1> QED
  BY <1>1, LoopInvInit, LoopInvStep, PTL DEF Spec

\* A task that was submitted to the event loop is not forgotten, whichever
\* threads submit, cancel, run and stop meanwhile (run_task_queue and
\* vpn_event_loop_submit, event_loop.cpp).
THEOREM QueueIsServed == Spec => []NoTaskForgotten
<1>1. LoopInv => NoTaskForgotten
  BY DEF LoopInv, FlagIsTrue, Coming, NoTaskForgotten
<1> QED
  BY <1>1, LoopInvInit, LoopInvStep, PTL DEF Spec
================================================================================
