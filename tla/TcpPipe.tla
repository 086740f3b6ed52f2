-------------------------------- MODULE TcpPipe --------------------------------
(***************************************************************************)
(* The two-way pipe of a tunnelled TCP connection (lib/src/pipe.rs).  Each  *)
(* direction relays chunks from a source to a sink that may accept only     *)
(* part of one; the two run in one task, each under a timeout of its own,   *)
(* and when one of them times out both are dropped where they are suspended *)
(* and, unless the connection is idle, started again.                       *)
(*                                                                         *)
(* A byte is its position in its direction's stream.  Time is counted in    *)
(* ticks that are long against the skew of two timers set at the same       *)
(* moment: ages equal in ticks are equal for on-time comparisons.  The      *)
(* flush that follows sink.eof() is not a suspension of its own: no sink    *)
(* has anything left to wait for then.                                      *)
(***************************************************************************)
EXTENDS Naturals, Sequences

CONSTANTS
  Timeout,   \* tcp_connections_timeout, in ticks
  MaxBytes   \* bound on the bytes of one direction

ASSUME TcpPipeAssumption == Timeout \in Nat \ {0} /\ MaxBytes \in Nat

Directions == {"Outgoing", "Incoming"}

Other(d) == IF d = "Outgoing" THEN "Incoming" ELSE "Outgoing"

VARIABLES
  produced,   \* per direction: bytes its peer has sent so far
  ended,      \* per direction: its peer has closed that half
  taken,      \* per direction: bytes returned by source.read()
  pending,    \* per direction: SimplexPipe.pending_chunk, empty for None
  delivered,  \* per direction: what sink.write() accepted
  consumed,   \* per direction: window returned by source.consume()
  running,    \* per direction: its exchange has not finished
  age,        \* per direction: ticks since last_activity
  quiet,      \* ticks since anything was relayed in either direction
  status      \* what DuplexPipe::exchange has returned, if it has

stream == <<produced, ended>>
vars == <<stream, taken, pending, delivered, consumed, running, age, quiet, status>>

Statuses == {"exchanging", "finished", "timed_out", "failed"}

TypeOK ==
  /\ produced \in [Directions -> 0 .. MaxBytes]
  /\ ended \in [Directions -> BOOLEAN]
  /\ taken \in [Directions -> 0 .. MaxBytes]
  /\ pending \in [Directions -> Seq(1 .. MaxBytes)]
  /\ delivered \in [Directions -> Seq(1 .. MaxBytes)]
  /\ consumed \in [Directions -> Nat]
  /\ running \in [Directions -> BOOLEAN]
  /\ age \in [Directions -> 0 .. Timeout]
  /\ quiet \in Nat
  /\ status \in Statuses

Each(x) == [d \in Directions |-> x]

Init ==
  /\ produced = Each(0)
  /\ ended = Each(FALSE)
  /\ taken = Each(0)
  /\ pending = Each(<<>>)
  /\ delivered = Each(<<>>)
  /\ consumed = Each(0)
  /\ running = Each(TRUE)
  /\ age = Each(0)
  /\ quiet = 0
  /\ status = "exchanging"

Positions(from, to) == [i \in 1 .. to - from + 1 |-> from + i - 1]

--------------------------------------------------------------------------------
(* The peers.                                                                *)

PeerSends(d) ==
  /\ ~ ended[d] /\ produced[d] < MaxBytes
  /\ produced' = [produced EXCEPT ![d] = @ + 1]
  /\ UNCHANGED <<ended, taken, pending, delivered, consumed, running, age, quiet, status>>

PeerEnds(d) ==
  /\ ~ ended[d]
  /\ ended' = [ended EXCEPT ![d] = TRUE]
  /\ UNCHANGED <<produced, taken, pending, delivered, consumed, running, age, quiet, status>>

--------------------------------------------------------------------------------
(* One direction: SimplexPipe::exchange.                                     *)

Exchanging(d) == status = "exchanging" /\ running[d]

\* sink.write(chunk) accepts the first n bytes; they are consumed from the
\* source and the rest is kept.  The next turn of the loop notes the activity.
Write_ConsumesAll(d, chunk, n) ==
  /\ delivered' = [delivered EXCEPT ![d] = @ \o SubSeq(chunk, 1, n)]
  /\ consumed' = [consumed EXCEPT ![d] = @ + Len(chunk)]
  /\ pending' = [pending EXCEPT ![d] = SubSeq(chunk, n + 1, Len(chunk))]
  /\ age' = [age EXCEPT ![d] = 0]
  /\ quiet' = 0

Write(d, chunk, n) ==
  /\ delivered' = [delivered EXCEPT ![d] = @ \o SubSeq(chunk, 1, n)]
  /\ consumed' = [consumed EXCEPT ![d] = @ + n]
  /\ pending' = [pending EXCEPT ![d] = SubSeq(chunk, n + 1, Len(chunk))]
  /\ age' = [age EXCEPT ![d] = 0]
  /\ quiet' = 0

\* Without a pending chunk, the bytes up to some position are read and written.
ReadChunk(d) ==
  /\ Exchanging(d)
  /\ pending[d] = <<>>
  /\ \E to \in taken[d] + 1 .. produced[d] :
       LET chunk == Positions(taken[d] + 1, to) IN
       \E n \in 0 .. Len(chunk) :
         /\ taken' = [taken EXCEPT ![d] = to]
         /\ Write(d, chunk, n)
  /\ UNCHANGED <<stream, running, status>>

\* The sink turned writable (it may still accept nothing).
ResumePending_Late(d) ==
  /\ running[d]
  /\ pending[d] # <<>>
  /\ \E n \in 0 .. Len(pending[d]) : Write(d, pending[d], n)
  /\ UNCHANGED <<stream, taken, running, status>>

ResumePending(d) ==
  /\ Exchanging(d)
  /\ pending[d] # <<>>
  /\ \E n \in 0 .. Len(pending[d]) : Write(d, pending[d], n)
  /\ UNCHANGED <<stream, taken, running, status>>

\* source.read() returned Eof: the sink is closed and the direction finished;
\* the pipe goes on until the other one is.
RelayEof_BeforePending(d) ==
  /\ Exchanging(d)
  /\ ended[d] /\ taken[d] = produced[d]
  /\ running' = [running EXCEPT ![d] = FALSE]
  /\ status' = IF running[Other(d)] THEN status ELSE "finished"
  /\ quiet' = 0
  /\ UNCHANGED <<stream, taken, pending, delivered, consumed, age>>

RelayEof(d) ==
  /\ Exchanging(d)
  /\ pending[d] = <<>>
  /\ ended[d] /\ taken[d] = produced[d]
  /\ running' = [running EXCEPT ![d] = FALSE]
  /\ status' = IF running[Other(d)] THEN status ELSE "finished"
  /\ quiet' = 0
  /\ UNCHANGED <<stream, taken, pending, delivered, consumed, age>>

\* A source or a sink fails.
Fail(d) ==
  /\ Exchanging(d)
  /\ status' = "failed"
  /\ UNCHANGED <<stream, taken, pending, delivered, consumed, running, age, quiet>>

--------------------------------------------------------------------------------
(* Timeouts: DuplexPipe::exchange and exchange_once.                         *)

\* A direction waited for the whole timeout.  If the other one has finished,
\* or has been idle as long, the pipe ends; otherwise both start again.
TimeOut_DropsPending(d) ==
  /\ Exchanging(d)
  /\ age[d] >= Timeout
  /\ IF ~ running[Other(d)] \/ age[Other(d)] >= Timeout
     THEN status' = "timed_out" /\ UNCHANGED <<age, pending>>
     ELSE age' = Each(0) /\ pending' = Each(<<>>) /\ UNCHANGED status
  /\ UNCHANGED <<stream, taken, delivered, consumed, running, quiet>>

TimeOut_NoCheckOfOther(d) ==
  /\ Exchanging(d)
  /\ age[d] >= Timeout
  /\ age' = Each(0)
  /\ UNCHANGED <<stream, taken, pending, delivered, consumed, running, quiet, status>>

TimeOut_NotWhenHalfClosed(d) ==
  /\ Exchanging(d) /\ running[Other(d)]
  /\ age[d] >= Timeout
  /\ IF age[Other(d)] >= Timeout
     THEN status' = "timed_out" /\ UNCHANGED age
     ELSE age' = Each(0) /\ UNCHANGED status
  /\ UNCHANGED <<stream, taken, pending, delivered, consumed, running, quiet>>

TimeOut(d) ==
  /\ Exchanging(d)
  /\ age[d] >= Timeout
  /\ IF ~ running[Other(d)] \/ age[Other(d)] >= Timeout
     THEN status' = "timed_out" /\ UNCHANGED age
     ELSE age' = Each(0) /\ UNCHANGED status
  /\ UNCHANGED <<stream, taken, pending, delivered, consumed, running, quiet>>

\* Time passes while no timer is due.
Tick ==
  /\ status = "exchanging"
  /\ \A d \in Directions : running[d] => age[d] < Timeout
  /\ age' = [d \in Directions |-> IF running[d] THEN age[d] + 1 ELSE age[d]]
  /\ quiet' = quiet + 1
  /\ UNCHANGED <<stream, taken, pending, delivered, consumed, running, status>>

Next ==
  \/ Tick
  \/ \E d \in Directions :
       \/ PeerSends(d) \/ PeerEnds(d)
       \/ ReadChunk(d) \/ ResumePending(d) \/ RelayEof(d) \/ Fail(d) \/ TimeOut(d)

\* Time passes and the runtime serves timers; peers and sinks owe nothing.
Fairness == WF_vars(Tick) /\ \A d \in Directions : WF_vars(TimeOut(d))

Spec == Init /\ [][Next]_vars /\ Fairness

--------------------------------------------------------------------------------
\* What was accepted by a sink, followed by what is kept for it, is exactly
\* what was read, in order: nothing is lost, repeated or swapped by partial
\* writes, nor by the timeouts that drop both directions half-way
\* (SimplexPipe::exchange keeps the chunk until it is writable).
NothingLost ==
  \A d \in Directions : delivered[d] \o pending[d] = Positions(1, taken[d])

\* The window returned to a source is what its sink accepted, so that a slow
\* sink slows its source down (SimplexPipe::exchange, source.consume(sent)).
BackPressure == \A d \in Directions : consumed[d] = Len(delivered[d])

\* A direction finishes, and its sink sees the end of the stream, only after
\* everything its peer sent has been written (Data::Eof in exchange).
EofIsLast ==
  \A d \in Directions : ~ running[d] =>
    ended[d] /\ pending[d] = <<>> /\ Len(delivered[d]) = produced[d]

\* An idle connection ends: less than twice the timeout passes without
\* anything relayed (DuplexPipe::exchange restarts both directions, and their
\* last_activity, when one of them was active).
IdleIsBounded == status = "exchanging" => quiet < 2 * Timeout

\* The timeout is an idle timeout: it ends a connection only when nothing was
\* relayed in either direction for that long.
\* Does not hold once one direction has finished.
OnlyIdleTimesOut == status = "timed_out" => quiet >= Timeout

\* A pipe whose peers fall silent ends: with no further activity the exchange
\* returns (DuplexPipe::exchange), so that its task and its sockets go away.
EventuallySettles == [](quiet > 0 => <>(quiet = 0 \/ status # "exchanging"))

Promised == INSTANCE Relay WITH
  sent <- produced,
  got <- delivered,
  closed <- [d \in Directions |-> ~ running[d]],
  open <- status = "exchanging"

\* The pipe implements Relay: however chunks are split, kept and resumed and
\* both directions restarted (SimplexPipe::exchange, DuplexPipe::exchange), its
\* peers see two reliable streams, nothing after their end, and nothing after
\* exchange() has returned.
ImplementsRelay == Promised!Spec

================================================================================
