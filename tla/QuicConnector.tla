----------------------------- MODULE QuicConnector -----------------------------
(* The half-open QUIC connection that the pinger makes and hands over
   (net/src/quic_connector.cpp): the first datagram of the server reports READY with the
   socket and the client; a failed write, a closed connection, or either of two timeouts
   reports an error in a task. The QUIC library is external: it writes packets, moves its
   timer and closes, from a call of flush or of handle_expiry. *)
EXTENDS Naturals, Sequences

VARIABLES qc

vars == <<qc>>

Init ==
  qc = [st |-> "new", sock |-> FALSE, client |-> FALSE, timer |-> FALSE, late |-> FALSE,
        task |-> "none", err |-> FALSE, result |-> FALSE, told |-> <<>>]

\* An error is reported in a task, and only one is.
report_error(q) == IF q.task # "none" THEN q ELSE [q EXCEPT !.err = TRUE, !.task = "queued"]

\* The timer goes first. An error frees the client and the socket; otherwise they become the
\* result.
do_report(q) ==
  IF q.err
  THEN [q EXCEPT !.timer = FALSE, !.client = FALSE, !.sock = FALSE, !.told = Append(@, "error")]
  ELSE [q EXCEPT !.timer = FALSE, !.client = FALSE, !.sock = FALSE, !.result = TRUE,
                 !.told = Append(@, "ready")]

report_ready(q) == IF q.task # "none" THEN q ELSE do_report(q)

\* A packet that cannot be written is an error, one for a socket that is gone is
\* ignored.
on_client_output(q) == {q} \cup IF q.sock THEN {report_error(q)} ELSE {}

\* Past the deadline the timer is not set again.
on_client_expiry_update(q) ==
  IF q.late THEN report_error(q) ELSE [q EXCEPT !.timer = TRUE]

on_client_close(q) == report_error(q)

\* What a call of the library may do.
Flush(q) ==
  LET written == on_client_output(q)
  IN written \cup {on_client_expiry_update(w) : w \in written} \cup {on_client_close(w) : w \in written}

\* Mutant: the socket is connected without its timeout and its read event.
Timeout_Unset == qc.st = "new" /\ qc.sock /\ qc' = report_error(qc)

quic_connector_connect ==
  /\ qc.st = "new"
  /\ \/ qc' = [qc EXCEPT !.st = "failed"]
     \/ qc' = [qc EXCEPT !.st = "failed", !.sock = TRUE]
     \/ \E q \in Flush([qc EXCEPT !.st = "connecting", !.sock = TRUE, !.client = TRUE]) :
          qc' = [q EXCEPT !.timer = TRUE]

Deadline == qc.st = "connecting" /\ qc' = [qc EXCEPT !.late = TRUE]

on_timer ==
  /\ qc.timer
  /\ LET q == [qc EXCEPT !.timer = FALSE]
     IN \/ qc.late /\ qc' = report_error(q)
        \/ ~qc.late /\ \E p \in Flush(q) : qc' = p

Readable(ok) ==
  /\ qc.sock
  /\ qc' = IF ok THEN report_ready(qc) ELSE report_error(qc)

Timeout == qc.sock /\ qc' = report_error(qc)

ReportTask == qc.task = "queued" /\ qc' = do_report([qc EXCEPT !.task = "ran"])

quic_connector_destroy ==
  /\ qc.st # "gone"
  /\ qc' = [qc EXCEPT !.st = "gone", !.sock = FALSE, !.client = FALSE, !.timer = FALSE,
                      !.task = "none"]

Next ==
  \/ quic_connector_connect \/ Deadline \/ on_timer \/ Timeout
  \/ \E b \in BOOLEAN : Readable(b)
  \/ ReportTask \/ quic_connector_destroy

\* The socket's timeout and the tasks of the event loop come.
Fairness == WF_vars(Timeout) /\ WF_vars(ReportTask)

Spec == Init /\ [][Next]_vars /\ Fairness

--------------------------------------------------------------------------------
(* One report per connection attempt: the first datagram may arrive while an error waits for
   its task, and the timers may fire after it. What was handed over is not used again. *)
OneReport ==
  /\ Len(qc.told) <= 1
  /\ qc.told # <<>> => ~qc.sock /\ ~qc.client /\ ~qc.timer

(* Every attempt that was started reports, unless its owner destroys it. *)
AttemptReports == qc.st = "connecting" ~> (qc.told # <<>> \/ qc.st = "gone")
================================================================================
