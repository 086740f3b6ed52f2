-------------------------- MODULE ConnectionStatistics --------------------------
(* The monitor that reports how many bytes went through a connection
   (core/src/connection_statistics.cpp): a report when a direction passes the threshold
   and the throttling period is over, and one when the connection ends. *)
EXTENDS Naturals

CONSTANTS MaxTotal, \* bytes counted in each direction
          Threshold \* m_threshold_bytes

VARIABLE stats \* registered; upload and download since the last report; what was counted
               \* and what was reported; whether the throttling period is over;
               \* how the last registration ended

vars == <<stats>>

Dirs == {"up", "down"}
Zero == [d \in Dirs |-> 0]

Init == stats = [reg |-> FALSE, due |-> FALSE, now |-> Zero, counted |-> Zero, reported |-> Zero,
                 ended |-> "never"]

register_conn == ~stats.reg /\ stats' = [stats EXCEPT !.reg = TRUE, !.due = FALSE, !.now = Zero, !.ended = "never"]

\* The counters start again from zero, and so does the period.
raise_stats(s) ==
  [s EXCEPT !.reported = [d \in Dirs |-> @[d] + s.now[d]], !.now = Zero, !.due = FALSE]

should_be_notified(s) == s.due /\ \E d \in Dirs : s.now[d] >= Threshold

\* update_upload and update_download
update(d) ==
  LET s == [stats EXCEPT !.now[d] = @ + 1, !.counted[d] = @ + 1]
  IN  /\ stats.reg /\ stats.counted[d] < MaxTotal
      /\ stats' = IF should_be_notified(s) THEN raise_stats(s) ELSE s

\* The report at the end is raised only when both directions have something.
unregister_conn(do_report) ==
  /\ stats.reg
  /\ stats' = [IF do_report /\ \A d \in Dirs : stats.now[d] > 0 THEN raise_stats(stats) ELSE stats
               EXCEPT !.reg = FALSE, !.ended = IF do_report THEN "report" ELSE "silent"]

PeriodOver == stats.reg /\ ~stats.due /\ stats' = [stats EXCEPT !.due = TRUE]

Next ==
  \/ register_conn \/ PeriodOver
  \/ \E d \in Dirs : update(d)
  \/ \E r \in BOOLEAN : unregister_conn(r)

Spec == Init /\ [][Next]_vars

\* No byte is reported twice: what a registered connection reported and what it holds add
\* up to at most what was counted.
ReportedOnce == \A d \in Dirs : stats.reported[d] + (IF stats.reg THEN stats.now[d] ELSE 0) <= stats.counted[d]

\* "if true and there are unreported statistics, it will be raised via handler"
\* (connection_statistics.h:45): a connection that ends with a report has nothing
\* unreported left. The code raises it only when both directions have something.
FinalReportIsComplete == stats.ended = "report" => stats.now = Zero
================================================================================
