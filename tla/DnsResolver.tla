------------------------------ MODULE DnsResolver ------------------------------
(* The resolver that asks the endpoint's DNS server through the tunnel
   (core/src/vpn_dns_resolver.cpp). It is a client listener with one fictive UDP
   connection at a time: names wait in two queues, a query per record type goes on the
   wire, and every resolution is answered once. The tunnel is external: it lets the
   connection through or refuses it, and may close it. *)
EXTENDS Naturals, FiniteSets

CONSTANTS Names,   \* resolutions; each is asked for once
          Types,   \* record types
          Capacity \* MAX_PARALLEL_BACKGROUND_RESOLVES; the foreground queue has no bound

VARIABLE rs \* res: state of each resolution; types: record types still missing;
            \* got: it has addresses; kind: its queue; queue: names not dispatched yet;
            \* wire: queries on the wire; due: queries with a deadline;
            \* conn: number of the current connection, 0 is NON_ID; last: the last number
            \* given; acc: connection_accepted; timer: connection_timeout_task;
            \* tasks: deferred tasks; asked: the connection the tunnel has to answer

vars == <<rs>>

Kinds == {"bg", "fg"}

Init ==
  rs = [res |-> [n \in Names |-> "none"], types |-> [n \in Names |-> {}],
        got |-> [n \in Names |-> FALSE], kind |-> [n \in Names |-> "bg"], queue |-> {},
        wire |-> {}, due |-> {}, conn |-> 0, last |-> 0, acc |-> FALSE, timer |-> FALSE,
        tasks |-> {}, asked |-> 0]

\* state = ResolveState{}
ResetState(s) == [s EXCEPT !.conn = 0, !.acc = FALSE, !.timer = FALSE, !.wire = {}, !.due = {}]

raise_result(s, ns) == [s EXCEPT !.res = [n \in Names |-> IF n \in ns THEN "done" ELSE @[n]]]

Live(s) == {n \in Names : s.res[n] = "live"}
QueriesOf(s, n) == {q \in s.wire : q[1] = n}

\* A name of a queue goes on the wire while there is room, in any order; a cancelled one
\* is skipped. A query that the tunnel does not take leaves its record type missing; which
\* ones it takes is its choice.
Dispatch(s, k) ==
  LET waiting == {n \in s.queue : s.kind[n] = k}
      Sent(n) == IF n \in Live(s) THEN SUBSET ({n} \X s.types[n]) ELSE {{}}
  IN  IF waiting = {} \/ (k = "bg" /\ Cardinality(s.wire) >= Capacity) THEN {s}
      ELSE UNION {{[s EXCEPT !.queue = @ \ {n}, !.wire = @ \cup qs, !.due = @ \cup qs] :
                     qs \in Sent(n)} : n \in waiting}

resolve_queue(s, k) ==
  LET After[i \in 0..Cardinality(Names)] ==
        IF i = 0 THEN {s} ELSE UNION {Dispatch(u, k) : u \in After[i - 1]}
  IN  After[Cardinality(Names)]

\* A new connection is asked for when there is none; an accepted one takes both queues.
resolve_pending_domains(s) ==
  IF s.queue = {} THEN {s}
  ELSE IF s.conn = 0
  THEN {[s EXCEPT !.conn = s.last + 1, !.last = @ + 1, !.asked = s.last + 1, !.timer = TRUE]}
  ELSE {[t EXCEPT !.timer = TRUE] :
          t \in IF s.acc THEN UNION {resolve_queue(u, "fg") : u \in resolve_queue(s, "bg")} ELSE {s}}

\* Everything that waits is answered, with what it has got so far.
close_connection_Dispatched(s) ==
  ResetState(raise_result([s EXCEPT !.queue = {}], {n \in Names : QueriesOf(s, n) # {}}))

close_connection(s) == ResetState(raise_result([s EXCEPT !.queue = {}], Live(s)))

--------------------------------------------------------------------------------
(* Calls. *)

resolve(n, k) ==
  /\ rs.res[n] = "none"
  /\ rs' = [rs EXCEPT !.res[n] = "live", !.types[n] = Types, !.kind[n] = k,
                      !.queue = @ \cup {n}, !.tasks = @ \cup {"resolve"}]

\* The name stays in its queue and is skipped there.
cancel(n) ==
  /\ rs.res[n] = "live"
  /\ rs' = [rs EXCEPT !.res[n] = "cancelled", !.wire = @ \ QueriesOf(rs, n)]

\* The queued names of the queues, and those with a query on the wire, fail.
stop_resolving_queues(s, ks) ==
  LET hit == {n \in Live(s) : s.kind[n] \in ks /\ (n \in s.queue \/ QueriesOf(s, n) # {})}
  IN  [raise_result(s, hit) EXCEPT !.queue = {n \in @ : s.kind[n] \notin ks},
         !.wire = {q \in @ : s.kind[q[1]] \notin ks}]

StopBackground == rs' = stop_resolving_queues(rs, {"bg"}) /\ rs' # rs

\* The rest fails with the connection; the tasks are dropped.
stop_resolving ==
  LET s == stop_resolving_queues(rs, Kinds)
      c == IF s.conn # 0 THEN close_connection(s) ELSE s
  IN  /\ rs' = [ResetState(c) EXCEPT !.queue = {}, !.tasks = {}]
      /\ rs' # rs

\* The tunnel's answer; one for a connection that is gone is ignored.
complete_connect_request(pass) ==
  /\ rs.asked # 0
  /\ rs' = [rs EXCEPT !.asked = 0,
              !.tasks = IF rs.asked # rs.conn THEN @ ELSE @ \cup {IF pass THEN "accept" ELSE "close"}]

\* The tunnel closes the connection, now or later.
TunnelCloses(async) ==
  /\ rs.conn # 0
  /\ rs' = IF async THEN [rs EXCEPT !.tasks = @ \cup {"close"}] ELSE close_connection(rs)

--------------------------------------------------------------------------------
(* Tasks and timers. *)

deferred_resolve_task ==
  "resolve" \in rs.tasks /\ rs' \in resolve_pending_domains([rs EXCEPT !.tasks = @ \ {"resolve"}])

accept_connection ==
  /\ "accept" \in rs.tasks
  /\ rs' \in resolve_pending_domains([rs EXCEPT !.tasks = @ \ {"accept"}, !.acc = TRUE])

deferred_close_task ==
  "close" \in rs.tasks /\ rs' = close_connection([rs EXCEPT !.tasks = @ \ {"close"}])

on_connection_timeout == rs.timer /\ rs' = close_connection(rs)

\* A type of a resolution is answered or given up; the last one answers the resolution.
Settle(s, q, found) ==
  LET u == [s EXCEPT !.wire = @ \ {q}, !.types[q[1]] = @ \ {q[2]}, !.got[q[1]] = @ \/ found]
  IN  IF u.types[q[1]] = {} THEN raise_result(u, {q[1]}) ELSE u

\* A reply of the server, with addresses or without.
send(q, found) ==
  /\ q \in rs.wire
  /\ rs' \in resolve_pending_domains([Settle(rs, q, found) EXCEPT !.timer = TRUE])

\* The expired queries are given up, one at a time here.
on_periodic_queries_check(q) ==
  /\ q \in rs.due
  /\ LET s == [rs EXCEPT !.due = @ \ {q}]
     IN  rs' \in resolve_pending_domains(IF q \in rs.wire THEN Settle(s, q, FALSE) ELSE s)

Next ==
  \/ \E n \in Names : cancel(n) \/ \E k \in Kinds : resolve(n, k)
  \/ StopBackground \/ stop_resolving
  \/ \E pass \in BOOLEAN : complete_connect_request(pass) \/ TunnelCloses(pass)
  \/ deferred_resolve_task \/ accept_connection \/ deferred_close_task \/ on_connection_timeout
  \/ \E q \in Names \X Types : on_periodic_queries_check(q) \/ \E found \in BOOLEAN : send(q, found)

\* Tasks run and timers fire. send schedules the connection's timeout anew before it looks
\* at the reply, also for one that cannot be decoded or matches no query: the timeout fires
\* if the server does not go on sending such replies for ever.
Fairness == WF_vars(deferred_resolve_task) /\ WF_vars(on_connection_timeout)

Spec == Init /\ [][Next]_vars /\ Fairness

--------------------------------------------------------------------------------
(* Properties. *)

\* A query on the wire belongs to a resolution that still waits for its type, and a
\* resolution that waits is queued, or has the connection's timeout to end it.
WaitingIsTracked ==
  /\ \A q \in rs.wire : rs.res[q[1]] = "live" /\ q[2] \in rs.types[q[1]]
  /\ \A n \in Live(rs) : rs.timer \/ (n \in rs.queue /\ "resolve" \in rs.tasks)

Waiting(n) == rs.res[n] = "live"

\* Every resolution that was asked for is answered or cancelled: by its replies, by their
\* expiry, by the connection's end, or by the stop. A server that never falls silent can
\* keep a resolution waiting whose query the tunnel did not take.
ResolveIsAnswered == \A n \in Names : Waiting(n) ~> ~Waiting(n)

\* A connection is taken for accepted only when the tunnel let it through.
\* Does not hold: the task that accepts can run after the connection has closed.
AcceptedWasPassed == rs.acc => rs.conn # 0 /\ rs.asked # rs.conn
================================================================================
