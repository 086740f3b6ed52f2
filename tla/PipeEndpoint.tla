---------------------------- MODULE PipeEndpoint ----------------------------
(***************************************************************************)
(* The named-pipe endpoint of the Windows service (vpn_easy_pipe.cpp): one *)
(* thread waits for the stop, wake, input and output events and moves      *)
(* bytes with overlapped I/O, any thread may send, and the server end goes *)
(* back to waiting for the next client when one leaves.  A message is      *)
(* written and read in two halves, so that every write and read can be cut.*)
(***************************************************************************)
EXTENDS Integers, Sequences

CONSTANTS Senders,      \* threads calling send
          MaxPending,   \* MAX_PENDING_WRITES
          MaxSent,      \* bound: messages sent
          MaxSessions   \* bound: clients served

VARIABLES stage,      \* where the loop's thread is
          connected,  \* m_connected
          pending,    \* m_pending_writes
          inflight,   \* m_inflight_write: the halves not written yet
          overlapped, \* m_write_pending
          reading,    \* m_read_pending
          input,      \* halves of a message in m_input_buf
          wake,       \* m_wake_event
          sender,     \* per thread: "idle", or "signal" before its SetEvent
          session,    \* number of clients that connected
          got,        \* halves the present client was sent
          sent        \* number of messages sent

input_vars == <<reading, input>>
vars == <<stage, connected, pending, inflight, overlapped, input_vars, wake, sender, session, got, sent>>

Halves(m) == <<[of |-> m, half |-> 1], [of |-> m, half |-> 2]>>

Init ==
    /\ stage = "connect" /\ connected = FALSE /\ pending = <<>> /\ inflight = <<>>
    /\ overlapped = FALSE /\ reading = FALSE /\ input = 0 /\ wake = FALSE
    /\ sender = [s \in Senders |-> "idle"]
    /\ session = 0 /\ got = <<>> /\ sent = 0

-----------------------------------------------------------------------------
(* Any thread *)

send(s) ==
    /\ sender[s] = "idle" /\ sent < MaxSent
    /\ sent' = sent + 1
    /\ IF connected
       THEN /\ pending' = Append(IF Len(pending) = MaxPending THEN Tail(pending) ELSE pending,
                                 [n |-> sent', session |-> session])
            /\ sender' = [sender EXCEPT ![s] = "signal"]
       ELSE UNCHANGED <<pending, sender>>
    /\ UNCHANGED <<stage, connected, inflight, overlapped, input_vars, wake, session, got>>

SetWakeEvent(s) ==
    /\ sender[s] = "signal"
    /\ wake' = TRUE
    /\ sender' = [sender EXCEPT ![s] = "idle"]
    /\ UNCHANGED <<stage, connected, pending, inflight, overlapped, input_vars, session, got, sent>>

-----------------------------------------------------------------------------
(* The loop's thread *)

(* The connection may be there at once, or complete later on the io event;  *)
(* a failure to wait for a client ends the loop                             *)
start_connect ==
    /\ stage = "connect" /\ session < MaxSessions
    /\ input' = 0 /\ reading' = FALSE /\ overlapped' = FALSE
    /\ \/ /\ connected' = TRUE /\ wake' = TRUE /\ stage' = "wait"
          /\ session' = session + 1 /\ got' = <<>>
       \/ stage' \in {"wait", "returned"} /\ UNCHANGED <<connected, wake, session, got>>
    /\ UNCHANGED <<pending, inflight, sender, sent>>

finalize_connect ==
    /\ stage = "wait" /\ ~connected
    /\ \/ /\ connected' = TRUE /\ stage' = "serve"
          /\ session' = session + 1 /\ got' = <<>>
       \/ stage' = "drop" /\ UNCHANGED <<connected, session, got>>
    /\ UNCHANGED <<pending, inflight, overlapped, input_vars, wake, sender, sent>>

Woken ==
    /\ stage = "wait" /\ wake
    /\ wake' = FALSE
    /\ stage' = IF connected THEN "serve" ELSE "wait"
    /\ UNCHANGED <<connected, pending, inflight, overlapped, input_vars, sender, session, got, sent>>

(* A read brings half a message, and the handler runs when it is whole; or  *)
(* the client is gone, or its message is too large                          *)
complete_read ==
    /\ stage = "wait" /\ connected /\ reading
    /\ \/ input' = 1 - input /\ stage' = "serve"
       \/ stage' = "drop" /\ UNCHANGED input
    /\ reading' = FALSE
    /\ UNCHANGED <<connected, pending, inflight, overlapped, wake, sender, session, got, sent>>

Written(k) ==
    /\ got' = got \o SubSeq(inflight, 1, k)
    /\ inflight' = SubSeq(inflight, k + 1, Len(inflight))

complete_write_NoPump ==
    /\ stage = "wait" /\ overlapped
    /\ \/ \E k \in 1 .. Len(inflight) : Written(k) /\ overlapped' = FALSE /\ UNCHANGED stage
       \/ stage' = "drop" /\ UNCHANGED <<inflight, overlapped, got>>
    /\ UNCHANGED <<connected, pending, input_vars, wake, sender, session, sent>>
complete_write ==
    /\ stage = "wait" /\ overlapped
    /\ \/ \E k \in 1 .. Len(inflight) : Written(k) /\ overlapped' = FALSE /\ stage' = "serve"
       \/ stage' = "drop" /\ UNCHANGED <<inflight, overlapped, got>>
    /\ UNCHANGED <<connected, pending, input_vars, wake, sender, session, sent>>

(* start_read at the head of every round: it may find data, or the client gone *)
start_read ==
    /\ stage = "serve"
    /\ \/ reading /\ stage' = "pump" /\ UNCHANGED <<input_vars, wake>>
       \/ ~reading /\ input' = 1 - input /\ wake' = TRUE /\ stage' = "pump" /\ UNCHANGED reading
       \/ ~reading /\ reading' = TRUE /\ stage' = "pump" /\ UNCHANGED <<input, wake>>
       \/ ~reading /\ stage' = "drop" /\ UNCHANGED <<input_vars, wake>>
    /\ UNCHANGED <<connected, pending, inflight, overlapped, sender, session, got, sent>>

NextMessage ==
    /\ stage = "pump" /\ ~overlapped /\ inflight = <<>> /\ pending # <<>>
    /\ inflight' = Halves(Head(pending))
    /\ pending' = Tail(pending)
    /\ UNCHANGED <<stage, connected, overlapped, input_vars, wake, sender, session, got, sent>>

WriteFile ==
    /\ stage = "pump" /\ ~overlapped /\ inflight # <<>>
    /\ \/ \E k \in 1 .. Len(inflight) : Written(k) /\ UNCHANGED <<stage, overlapped>>
       \/ overlapped' = TRUE /\ stage' = "wait" /\ UNCHANGED <<inflight, got>>
       \/ stage' = "drop" /\ UNCHANGED <<inflight, overlapped, got>>
    /\ UNCHANGED <<connected, pending, input_vars, wake, sender, session, sent>>

NothingToWrite ==
    /\ stage = "pump" /\ (overlapped \/ (inflight = <<>> /\ pending = <<>>))
    /\ stage' = "wait"
    /\ UNCHANGED <<connected, pending, inflight, overlapped, input_vars, wake, sender, session, got, sent>>

(* disconnect_and_reset: the flag first, then the queue under its lock, then *)
(* the rest                                                                  *)
MarkDisconnected ==
    /\ stage = "drop"
    /\ connected' = FALSE
    /\ stage' = "clear"
    /\ UNCHANGED <<pending, inflight, overlapped, input_vars, wake, sender, session, got, sent>>

disconnect_and_reset_KeepsQueue ==
    /\ stage = "clear"
    /\ inflight' = <<>> /\ overlapped' = FALSE /\ reading' = FALSE /\ input' = 0
    /\ stage' = "connect"
    /\ UNCHANGED <<connected, pending, wake, sender, session, got, sent>>
disconnect_and_reset ==
    /\ stage = "clear"
    /\ pending' = <<>> /\ inflight' = <<>> /\ overlapped' = FALSE /\ reading' = FALSE /\ input' = 0
    /\ stage' = "connect"
    /\ UNCHANGED <<connected, wake, sender, session, got, sent>>

Stopped ==
    /\ stage = "wait"
    /\ stage' = "returned"
    /\ UNCHANGED <<connected, pending, inflight, overlapped, input_vars, wake, sender, session, got, sent>>

Next ==
    \/ \E s \in Senders : send(s) \/ SetWakeEvent(s)
    \/ start_connect \/ finalize_connect \/ Woken \/ complete_read \/ complete_write
    \/ start_read \/ NextMessage \/ WriteFile \/ NothingToWrite
    \/ MarkDisconnected \/ disconnect_and_reset \/ Stopped

Spec == Init /\ [][Next]_vars

-----------------------------------------------------------------------------
(* A client sees whole messages, in the order they were sent, and none that *)
(* was sent to a client before it, whenever the threads that send meet the  *)
(* thread that drops a client (send, disconnect_and_reset).                 *)
OwnMessagesWhole ==
    \A i \in DOMAIN got :
        /\ got[i].of.session = session
        /\ got[i].half = IF i % 2 = 1 THEN 1 ELSE 2
        /\ i > 1 => IF got[i].half = 2 THEN got[i].of = got[i - 1].of
                    ELSE got[i].of.n > got[i - 1].of.n

(* The loop does not go to sleep on a queued message: a sender has woken it *)
(* or is about to (send signals after it has let go of the lock), or the    *)
(* end of the write under way will.                                         *)
SleepsOnlyWhenServed ==
    stage = "wait" /\ connected /\ (pending # <<>> \/ inflight # <<>>) =>
        overlapped \/ wake \/ \E s \in Senders : sender[s] = "signal"
=============================================================================
