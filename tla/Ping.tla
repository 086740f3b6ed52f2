-------------------------------- MODULE Ping --------------------------------
(***************************************************************************)
(* The endpoint pinger of the client: net/src/ping.cpp.  A ping opens one  *)
(* connection per endpoint and protocol, in rounds; a connection waits in  *)
(* one of the lists of struct Ping.  Between the tasks of the event loop   *)
(* anything may happen: a connection may answer or fail, the round timer   *)
(* may fire, and the shortcut timer may start a second set of connections  *)
(* through a relay.  Asserts are compiled out, as in the release builds;   *)
(* what they claim is stated as properties.                                *)
(***************************************************************************)
EXTENDS Naturals, Sequences, FiniteSets, SequencesExt

CONSTANTS Endpoints,  \* names of the endpoints to ping
          MaxRelays,  \* relay addresses known at the start, at most
          Target      \* rounds_target

VARIABLES c,       \* the PingConn objects, by number; a shortcut of i is Width + i
          l,       \* the lists: pending, inprogress, done and their shortcut versions, report
          task,    \* the tasks and timers that are set
          relays,  \* how many relay addresses are left
          seen,    \* have_direct_result, have_round_winner
          out      \* reported connections, FINISHED given, rounds started (ghost),
                   \* and whether what the code does next is undefined

vars == <<c, l, task, relays, seen, out>>

-----------------------------------------------------------------------------
(* add_endpoint: the automatic protocol gives two connections, the second  *)
(* of them without a fall back to TLS.                                     *)
Entry(e, quic, nqf, relay) ==
  [ep |-> e, quic |-> quic, nqf |-> nqf, oldq |-> FALSE, nrf |-> relay,
   relay |-> relay, err |-> FALSE, best |-> FALSE, rounds |-> 0]

add_endpoint(e, mode, relay) ==
  CASE mode = "auto"  -> <<Entry(e, FALSE, FALSE, relay), Entry(e, TRUE, TRUE, relay)>>
    [] mode = "http3" -> <<Entry(e, TRUE, FALSE, relay)>>
    [] mode = "http2" -> <<Entry(e, FALSE, FALSE, relay)>>

Width == Cardinality(Endpoints) * 2
NoTask == [prepare |-> FALSE, connect |-> FALSE, shortcut |-> FALSE, report |-> FALSE,
           timer |-> FALSE, relay_timer |-> FALSE,
           gone |-> FALSE]  \* the round timer is a null pointer

(* ping_start.  An empty list of endpoints goes straight to the report.    *)
(* Bound: the parallel relay is not combined with the automatic protocol.  *)
ping_start ==
  \E mode \in {"auto", "http2", "http3"}, parallel \in BOOLEAN, n \in 0..MaxRelays,
     es \in {SetToSeq(E) : E \in SUBSET Endpoints} :
    LET Of(e) == add_endpoint(e, mode, FALSE)
                   \o (IF parallel THEN add_endpoint(e, mode, TRUE) ELSE <<>>)
        cs == FlattenSeq([i \in 1..Len(es) |-> Of(es[i])])
    IN  /\ ~(parallel /\ mode = "auto")
        /\ c = [i \in 1..2 * Width |-> IF i <= Len(cs) THEN cs[i]
                                       ELSE Entry("", FALSE, FALSE, FALSE)]
        /\ l = [pending |-> [i \in 1..Len(cs) |-> i], inprogress |-> <<>>, done |-> <<>>,
                s_pending |-> <<>>, s_inprogress |-> <<>>, s_done |-> <<>>, report |-> <<>>]
        /\ relays = n
        /\ task = IF cs = <<>> THEN [NoTask EXCEPT !.report = TRUE]
                  ELSE [NoTask EXCEPT !.prepare = TRUE, !.relay_timer = n > 0]
        /\ seen = [direct |-> FALSE, winner |-> FALSE]
        /\ out = [told |-> <<>>, finished |-> FALSE, round |-> 0, n |-> Len(cs), cut |-> FALSE,
                  wild |-> FALSE]

Init == ping_start

-----------------------------------------------------------------------------
Members(s) == {s[i] : i \in 1..Len(s)}
Failed(cs, S, b) == [i \in DOMAIN cs |-> IF i \in S THEN [cs[i] EXCEPT !.err = b] ELSE cs[i]]

(* A null timer is armed, or the last of no relays is removed: nothing is   *)
(* known of the ping from here on, and it takes no further step.           *)
Undefined ==
  /\ out' = [out EXCEPT !.wild = TRUE] /\ task' = NoTask
  /\ UNCHANGED <<c, l, relays, seen>>

(* conn_prepare creates the sockets and the TLS objects; it may refuse     *)
(* some of them, with an error code or without one.                        *)
conn_prepare(S) == {r \in [bad : SUBSET S, code : SUBSET S] : r.code \subseteq r.bad}

(* on_timer: the round is over for every connection that has no answer.    *)
on_timer ==
  /\ task.timer
  /\ LET late == l.pending \o l.inprogress
         slate == l.s_pending \o l.s_inprogress
     IN  /\ c' = IF seen.winner THEN c ELSE Failed(c, Members(late \o slate), TRUE)
         /\ l' = [l EXCEPT !.pending = <<>>, !.inprogress = <<>>, !.done = @ \o late,
                           !.s_pending = <<>>, !.s_inprogress = <<>>, !.s_done = @ \o slate]
  /\ task' = [task EXCEPT !.timer = FALSE, !.connect = FALSE, !.shortcut = FALSE,
                          !.prepare = TRUE]
  /\ UNCHANGED <<relays, seen, out>>

(* on_shortcut_timer: a connection through the next relay for each direct  *)
(* connection still in progress, except those that conn_prepare refuses.   *)
on_shortcut_timer ==
  /\ task.relay_timer
  /\ \E bad \in {r.bad : r \in conn_prepare(Members(l.inprogress))} :
       LET slow == SelectSeq(l.inprogress, LAMBDA i : ~c[i].relay /\ i \notin bad)
           new  == [k \in 1..Len(slow) |-> Width + slow[k]]
       IN  /\ c' = [i \in DOMAIN c |->
                      IF i \in Members(new)
                      THEN [Entry(c[i - Width].ep, c[i - Width].quic, c[i - Width].nqf, TRUE)
                              EXCEPT !.nrf = FALSE]
                      ELSE c[i]]
           /\ l' = [l EXCEPT !.s_pending = @ \o new]
           /\ task' = [task EXCEPT !.relay_timer = FALSE,
                                   !.shortcut = @ \/ l'.s_pending # <<>>]
  /\ UNCHANGED <<relays, seen, out>>

(* do_connect: one connection of the list, then the next one or, when all  *)
(* direct ones have failed already, the end of the round.                  *)
do_connect(ok) ==
  /\ task.connect
  /\ LET i == Head(l.pending)
         rest == Tail(l.pending)
         ls == IF ok THEN [l EXCEPT !.pending = rest, !.inprogress = Append(@, i)]
               ELSE [l EXCEPT !.pending = rest, !.done = Append(@, i)]
         over == rest = <<>> /\ ls.inprogress = <<>>
     IN  /\ l' = ls
         /\ c' = IF ok THEN c ELSE Failed(c, {i}, TRUE)
         /\ task' = [task EXCEPT !.connect = rest # <<>>, !.timer = @ /\ ~over,
                                 !.prepare = @ \/ over]
  /\ UNCHANGED <<relays, seen, out>>

do_connect_shortcut(ok) ==
  /\ task.shortcut
  /\ LET i == Head(l.s_pending)
     IN  /\ l' = IF ok THEN [l EXCEPT !.s_pending = Tail(@), !.s_inprogress = Append(@, i)]
                 ELSE [l EXCEPT !.s_pending = Tail(@), !.s_done = Append(@, i)]
         /\ c' = IF ok THEN c ELSE Failed(c, {i}, TRUE)
         /\ task' = [task EXCEPT !.shortcut = l'.s_pending # <<>>]
  /\ UNCHANGED <<relays, seen, out>>

(* conn_process_result, from the handlers of the TCP socket and of the     *)
(* QUIC connector.  The first answer of a round shortens its timer, and    *)
(* the last one stops it; the report has made it a null pointer.           *)
conn_process_result(i, ok) ==
  /\ ~out.finished /\ ~out.wild /\ i \in Members(l.inprogress \o l.s_inprogress)
  /\ LET ls == IF i \in Members(l.inprogress)
               THEN [l EXCEPT !.inprogress = SelectSeq(@, LAMBDA j : j # i),
                              !.done = Append(@, i)]
               ELSE [l EXCEPT !.s_inprogress = SelectSeq(@, LAMBDA j : j # i),
                              !.s_done = Append(@, i)]
         over == ls.inprogress \o ls.pending \o ls.s_inprogress \o ls.s_pending = <<>>
     IN  \/ task.gone /\ (over \/ (ok /\ ~seen.winner)) /\ Undefined
         \/ /\ ~(task.gone /\ (over \/ (ok /\ ~seen.winner)))
            /\ l' = ls
            /\ c' = [c EXCEPT ![i].err = IF ok THEN @ ELSE TRUE, ![i].best = @ \/ ok]
            /\ seen' = [seen EXCEPT !.winner = @ \/ ok]
            /\ task' = [task EXCEPT !.timer = (@ \/ (ok /\ ~seen.winner)) /\ ~over,
                                    !.prepare = @ \/ over]
            /\ UNCHANGED <<relays, out>>

(* The handlers of the TCP socket and of the QUIC connector.              *)
socket_handler(i) == ~c[i].quic /\ \E ok \in BOOLEAN : conn_process_result(i, ok)
quic_connector_handler(i) == c[i].quic /\ \E ok \in BOOLEAN : conn_process_result(i, ok)

-----------------------------------------------------------------------------
(* Mutant: the connection that a shortcut replaces is not erased. *)
Adopt_Keeps(a, i) ==
  LET at == {k \in 1..Len(a.done) : c[a.done[k]].ep = c[i].ep}
      k == CHOOSE x \in at : \A y \in at : x <= y
  IN  IF c[i].best /\ at # {} /\ ~c[a.done[k]].best
      THEN [done |-> Append(a.done, i), snis |-> a.snis \cup {c[i].ep}]
      ELSE a

(* The parts of do_prepare.  A shortcut that answered takes the place of   *)
(* the first connection to its endpoint, when that one never answered.     *)
Adopt(a, i) ==
  LET at == {k \in 1..Len(a.done) : c[a.done[k]].ep = c[i].ep}
      k == CHOOSE x \in at : \A y \in at : x <= y
  IN  IF c[i].best /\ at # {} /\ ~c[a.done[k]].best
      THEN [done |-> [a.done EXCEPT ![k] = i], snis |-> a.snis \cup {c[i].ep}]
      ELSE a

(* What happens to one finished connection: a connection that failed in    *)
(* its first round falls back to TLS, then to the next relay; any other    *)
(* one has done a round.                                                   *)
Sort(a, i, direct) ==
  LET x == a.c[i]
      again == x.err /\ x.rounds = 0
      y == [x EXCEPT !.rounds = @ + 1]
  IN  IF again /\ ~x.nqf /\ x.quic
      THEN [a EXCEPT !.keep = Append(@, i), !.c[i].quic = FALSE, !.c[i].oldq = TRUE]
      ELSE IF again /\ ~x.nrf /\ ~direct /\ relays > 0 /\ x.ep \notin a.snis
      THEN [a EXCEPT !.keep = Append(@, i), !.snis = @ \cup {x.ep}, !.c[i].relay = TRUE,
                     !.c[i].quic = IF x.nqf THEN @ ELSE x.oldq]
      ELSE IF y.rounds = Target
      THEN [a EXCEPT !.report = Append(@, i), !.c[i] = y]
      ELSE [a EXCEPT !.keep = Append(@, i), !.c[i] = y]

(* do_prepare: starts the next round, or the report when none is pending.  *)
(* A name that used a relay consumes one, be there one left or not.        *)
do_prepare ==
  /\ task.prepare
  /\ \E a \in {FoldLeft(Adopt, [done |-> l.done, snis |-> {}], l.s_done)} :
     \E direct \in {seen.direct \/ \E i \in Members(a.done) : c[i].best /\ ~c[i].relay} :
     \E b \in {FoldLeft(LAMBDA x, i : Sort(x, i, direct),
                    [c |-> c, keep |-> <<>>, report |-> l.report, snis |-> a.snis], a.done)} :
     LET won == \E i \in Members(b.report) : b.c[i].nrf /\ b.c[i].best
         pending == IF won THEN <<>> ELSE l.pending \o b.keep
         quiet == [task EXCEPT !.prepare = FALSE,
                               !.relay_timer = @ /\ b.snis = {}]
     IN  \/ b.snis # {} /\ relays = 0 /\ Undefined
         \/ /\ b.snis = {} \/ relays > 0
            /\ relays' = IF b.snis # {} THEN relays - 1 ELSE relays
            /\ IF pending = <<>>
               THEN /\ c' = b.c
                    /\ l' = [l EXCEPT !.pending = <<>>, !.done = <<>>, !.s_done = <<>>,
                                      !.report = b.report]
                    /\ task' = [quiet EXCEPT !.timer = FALSE, !.relay_timer = FALSE,
                                             !.report = TRUE, !.gone = TRUE]
                    /\ seen' = [seen EXCEPT !.direct = direct]
                    /\ out' = [out EXCEPT !.cut = @ \/ (won /\ l.pending \o b.keep # <<>>)]
               ELSE \E r \in conn_prepare(Members(pending)) :
                      LET go == SelectSeq(pending, LAMBDA i : i \notin r.bad)
                      IN  /\ c' = Failed(Failed(b.c, Members(pending), FALSE), r.code, TRUE)
                          /\ l' = [l EXCEPT !.pending = go, !.report = b.report, !.s_done = <<>>,
                                     !.done = SelectSeq(pending, LAMBDA i : i \in r.bad)]
                          /\ task' = [quiet EXCEPT !.timer = go # <<>>, !.connect = go # <<>>,
                                                   !.prepare = go = <<>>]
                          /\ seen' = [direct |-> direct, winner |-> FALSE]
                          /\ out' = [out EXCEPT !.round = IF @ < 3 THEN @ + 1 ELSE @]

(* do_report: one result, or the final PING_FINISHED, after which the      *)
(* owner destroys the ping and its tasks.                                  *)
do_report ==
  /\ task.report
  /\ IF l.report # <<>>
     THEN /\ out' = [out EXCEPT !.told = Append(@, Head(l.report))]
          /\ l' = [l EXCEPT !.report = Tail(@)]
          /\ UNCHANGED task
     ELSE /\ out' = [out EXCEPT !.finished = TRUE]
          /\ task' = NoTask
          /\ UNCHANGED l
  /\ UNCHANGED <<c, relays, seen>>

-----------------------------------------------------------------------------
Ids == 1..2 * Width
Next ==
  \/ on_timer \/ on_shortcut_timer \/ do_prepare \/ do_report
  \/ \E ok \in BOOLEAN : do_connect(ok) \/ do_connect_shortcut(ok)
  \/ \E i \in Ids : socket_handler(i) \/ quic_connector_handler(i)

(* The event loop runs its tasks, and a timer that is set fires.           *)
Fairness ==
  /\ WF_vars(do_prepare) /\ WF_vars(do_report)
  /\ WF_vars(\E ok \in BOOLEAN : do_connect(ok)) /\ WF_vars(on_timer)

Spec == Init /\ [][Next]_vars /\ Fairness

-----------------------------------------------------------------------------
(* Every connection that a ping started out with has exactly one result,   *)
(* its own or that of the shortcut that took its place, before             *)
(* PING_FINISHED, unless a ping through the parallel relay cut it short.   *)
ResultsAreComplete ==
  /\ IsInjective(out.told)
  /\ Len(out.told) <= out.n
  /\ out.finished /\ ~out.cut => Len(out.told) = out.n

(* do_prepare and do_report find no connection in progress and no connect  *)
(* task left of the round before (the asserts at the head of both).        *)
(* Does not hold.                                                          *)
RoundsAreSeparate ==
  /\ task.prepare \/ task.report => l.inprogress \o l.s_inprogress = <<>> /\ ~task.connect
  /\ task.report => l.pending \o l.s_pending = <<>> /\ ~task.prepare

(* The shortcut timer is gone when the first round is over.                *)
(* Does not hold.                                                          *)
ShortcutIsOfFirstRound == task.relay_timer => out.round <= 1

(* A relay that is consumed is there, and the timer that an answer arms or *)
(* stops exists.                                                           *)
(* Does not hold: a shortcut outlives the round it was made in, when the   *)
(* direct connections fail first.  Its relay may have been consumed by     *)
(* then, and the ping may be reporting, without its timer.                 *)
StaysDefined == ~out.wild

(* Every ping ends, unless it does what is undefined first.                *)
PingFinishes == <>(out.finished \/ out.wild)
=============================================================================
