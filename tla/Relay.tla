--------------------------------- MODULE Relay ---------------------------------
(***************************************************************************)
(* What the pipe of a tunnelled TCP connection promises its two peers, with *)
(* no chunk, window, restart or timer: each direction is a reliable stream, *)
(* whose end is passed on after its last byte, and the connection closes    *)
(* when both have ended, or is cut.  TcpPipe implements it.                 *)
(***************************************************************************)
EXTENDS Naturals, Sequences

CONSTANT Directions

VARIABLES
  sent,    \* per direction: the number of bytes its source has sent
  ended,   \* per direction: its source has closed it
  got,     \* per direction: the bytes its sink has received
  closed,  \* per direction: its sink has seen the end
  open     \* the connection has not been closed or cut

vars == <<sent, ended, got, closed, open>>

\* The first n bytes of a stream; a byte is its position.
First(n) == [i \in 1 .. n |-> i]

Init ==
  /\ sent = [d \in Directions |-> 0]
  /\ ended = [d \in Directions |-> FALSE]
  /\ got = [d \in Directions |-> <<>>]
  /\ closed = [d \in Directions |-> FALSE]
  /\ open = TRUE

\* The kernel takes what a source sends, open or not.
Send(d) ==
  /\ ~ ended[d]
  /\ sent' = [sent EXCEPT ![d] = @ + 1]
  /\ UNCHANGED <<ended, got, closed, open>>

End(d) ==
  /\ ~ ended[d]
  /\ ended' = [ended EXCEPT ![d] = TRUE]
  /\ UNCHANGED <<sent, got, closed, open>>

\* The sink has more of what was sent, from the first byte and without a gap.
Deliver(d) ==
  /\ open /\ ~ closed[d]
  /\ \E n \in Len(got[d]) .. sent[d] : got' = [got EXCEPT ![d] = First(n)]
  /\ UNCHANGED <<sent, ended, closed, open>>

\* The sink has everything and sees the end; the second one closes the connection.
Close(d) ==
  /\ open /\ ~ closed[d]
  /\ ended[d] /\ Len(got[d]) = sent[d]
  /\ closed' = [closed EXCEPT ![d] = TRUE]
  /\ open' = \E e \in Directions : ~ closed'[e]
  /\ UNCHANGED <<sent, ended, got>>

\* A failure or a timeout.
Cut ==
  /\ open
  /\ open' = FALSE
  /\ UNCHANGED <<sent, ended, got, closed>>

Next == Cut \/ \E d \in Directions : Send(d) \/ End(d) \/ Deliver(d) \/ Close(d)

Spec == Init /\ [][Next]_vars
================================================================================
