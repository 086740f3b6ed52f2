---------------------------- MODULE LocationsPinger ----------------------------
(* The pinger of locations (net/src/locations_pinger.cpp): it starts one ping per
   location, one event loop turn after the other, collects the results of each ping,
   and hands over the endpoint it selects with the connection that was made to it. A
   ping (module Ping) is its results and its end. *)
EXTENDS Integers, Sequences, FiniteSets

CONSTANTS MaxLocations,  \* locations, which are numbers in the order they were given
          AllInterfaces, \* query_all_interfaces: the fastest endpoint is selected
          MaxResults     \* bound: results of all pings

VARIABLES pending, running, pinged, task, told, open, made

vars == <<pending, running, pinged, task, told, open, made>>

Addrs == <<"v4", "v6a", "v6b">> \* the endpoints of a location, in order
IPv6 == {"v6a", "v6b"}
HTTP_HE_HTTP3_PENALTY_MS == 1
NoState == 0
Finished == [loc |-> 0, state |-> NoState, relay |-> FALSE]

\* locations_pinger_start: the first ping, or the end if there is no location, is a task.
Init ==
  /\ pending \in {[i \in 1..k |-> i] : k \in 0..MaxLocations}
  /\ running = {} /\ task = TRUE /\ told = <<>> /\ open = {} /\ made = <<>>
  /\ pinged = [l \in 1..MaxLocations |-> <<>>]

--------------------------------------------------------------------------------
\* The earlier address, or the smaller ping; the first of equals stays.
Priority(r) ==
  IF AllInterfaces THEN -(r.ms + 1) ELSE -(CHOOSE i \in DOMAIN Addrs : Addrs[i] = r.addr)

select_endpoint_from_list(list) ==
  {r \in list : \A s \in list : Priority(s) < Priority(r) \/ (Priority(s) = Priority(r) /\ s.at >= r.at)}

\* IPv6 endpoints prevail.
select_endpoint(l) ==
  LET all == {pinged[l][i] : i \in DOMAIN pinged[l]}
      six == {r \in all : r.addr \in IPv6}
  IN select_endpoint_from_list(IF six # {} THEN six ELSE all)

States(set) == {r.state : r \in set}

\* The connections of the endpoints that were not selected are destroyed; the application
\* is told of the location, and of the end if it was the last one.
finalize_location(l, last) ==
  \E chosen \in {select_endpoint(l)} :
    /\ told' = told
         \o << [loc |-> l, state |-> IF chosen = {} THEN NoState ELSE (CHOOSE r \in chosen : TRUE).state,
                relay |-> chosen # {} /\ (CHOOSE r \in chosen : TRUE).relay] >>
         \o (IF last THEN <<Finished>> ELSE <<>>)
    /\ open' = open \ States({pinged[l][i] : i \in DOMAIN pinged[l]} \ chosen)
    /\ pinged' = [pinged EXCEPT ![l] = <<>>]

\* The task: the next location is pinged, and the one after it in another turn of the loop.
start_location_ping(started) ==
  /\ task /\ pending # <<>>
  /\ pending' = Tail(pending)
  /\ task' = (Len(pending) > 1)
  /\ IF started
     THEN running' = running \cup {Head(pending)} /\ UNCHANGED <<pinged, told, open>>
     ELSE /\ finalize_location(Head(pending), Len(pending) = 1 /\ running = {})
          /\ UNCHANGED running
  /\ UNCHANGED made

NothingToPing ==
  /\ task /\ pending = <<>>
  /\ task' = FALSE
  /\ told' = <<Finished>>
  /\ UNCHANGED <<pending, running, pinged, open, made>>

Corrected(r) == IF r.quic THEN r.ms + HTTP_HE_HTTP3_PENALTY_MS ELSE r.ms

\* A result: the first of its endpoint is kept; a better one replaces the time, the
\* protocol and the connection of the one that was kept.
PingOk(l, addr, ms, relay, quic) ==
  /\ l \in running /\ Len(made) < MaxResults
  /\ LET id == Len(made) + 1
         new == [addr |-> addr, ms |-> ms, relay |-> relay, quic |-> quic, state |-> id, at |-> id]
         same == {i \in DOMAIN pinged[l] : pinged[l][i].addr = addr}
     IN
     /\ made' = Append(made, [loc |-> l, relay |-> relay])
     /\ IF same = {}
        THEN pinged' = [pinged EXCEPT ![l] = Append(@, new)] /\ open' = open \cup {id}
        ELSE \E i \in same :
               IF Corrected(new) < Corrected(pinged[l][i])
               THEN /\ pinged' = [pinged EXCEPT ![l][i] =
                                    [@ EXCEPT !.ms = ms, !.quic = quic, !.state = id]]
                    /\ open' = (open \ {pinged[l][i].state}) \cup {id}
               ELSE pinged' = pinged /\ open' = open \cup {id}
  /\ UNCHANGED <<pending, running, task, told>>

\* Mutant: a location that was not started yet is forgotten.
PingFinished_IgnoresPending(l) ==
  /\ l \in running
  /\ running' = running \ {l}
  /\ finalize_location(l, running = {l})
  /\ UNCHANGED <<pending, task, made>>

PingFinished(l) ==
  /\ l \in running
  /\ running' = running \ {l}
  /\ finalize_location(l, running = {l} /\ pending = <<>>)
  /\ UNCHANGED <<pending, task, made>>

\* The pings are destroyed and nothing is told any more.
locations_pinger_stop ==
  /\ task \/ running # {}
  /\ pending' = <<>> /\ running' = {} /\ task' = FALSE
  /\ UNCHANGED <<pinged, told, open, made>>

Next ==
  \/ \E b \in BOOLEAN : start_location_ping(b)
  \/ NothingToPing
  \/ \E l \in 1..MaxLocations :
       \/ \E a \in DOMAIN Addrs, ms \in 1..3, relay, quic \in BOOLEAN :
            PingOk(l, Addrs[a], ms, relay, quic)
       \/ PingFinished(l)
  \/ locations_pinger_stop

Spec == Init /\ [][Next]_vars

--------------------------------------------------------------------------------
(* The end is told exactly once, after every location, and no location is told twice:
   whichever of a failed start and a finished ping comes last is the one that knows. *)
FinishedIsLast ==
  /\ \A i, j \in DOMAIN told : told[i].loc = told[j].loc => i = j
  /\ \A i \in DOMAIN told : told[i].loc = 0 => i = Len(told) /\ ~task /\ running = {}
  /\ 1..MaxLocations \subseteq {told[i].loc : i \in DOMAIN told} => told[Len(told)].loc = 0

(* "non-null if the selected endpoint was pinged through a relay": the relay of a result
   is the one its connection goes through. Does not hold. *)
RelayIsOfConnection ==
  \A i \in DOMAIN told : told[i].state # NoState => told[i].relay = made[told[i].state].relay
================================================================================
