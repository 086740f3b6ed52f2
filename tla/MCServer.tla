-------------------------------- MODULE MCServer --------------------------------
(* Two parts of the endpoint side by side, for TLC: the pipe of a TCP connection (extended, its
   properties are checked under their own names) and the graceful shutdown, alone and within
   the process. They share no state, so a behaviour runs one of them, chosen at the start
   (`live'): the reachable states add up. *)
EXTENDS TcpPipe, FiniteSets

CONSTANTS Things, Core, Workers

VARIABLES
  live,                                              \* the part that runs
  state, notice, guard, submitted, completion, exit  \* Endpoint

Process == INSTANCE Endpoint

ASSUME ServerAssumption == IsFiniteSet(Things) /\ Core \in Things

process == <<state, notice, guard, submitted, completion, exit>>
allVars == <<live, vars, process>>

InitAll ==
  /\ live \in {"pipe", "shutdown", "endpoint"}
  /\ Init
  /\ exit = "running"
  /\ IF live = "shutdown" THEN Process!Init ELSE Process!EndpointInit

InPipe(A) == live = "pipe" /\ A /\ UNCHANGED <<live, process>>
InShutdown(A) == live = "shutdown" /\ A /\ UNCHANGED <<live, exit, vars>>
InEndpoint(A) == live = "endpoint" /\ A /\ UNCHANGED <<live, vars>>

NextAll ==
  \/ InPipe(Next) \/ InShutdown(Process!Next) \/ InEndpoint(Process!EndpointNext)

\* The fairness of TcpPipe and of Endpoint, for the one that runs.
FairnessAll ==
  /\ WF_allVars(InPipe(Tick)) /\ \A d \in Directions : WF_allVars(InPipe(TimeOut(d)))
  /\ WF_allVars(InEndpoint(Process!ListenReturns))

SpecAll == InitAll /\ [][NextAll]_allVars /\ FairnessAll

--------------------------------------------------------------------------------

\* completion() returns after every guard is dropped (shutdown.rs).
CompletionIsFinal == Process!CompletionIsFinal

\* A subscriber of the shutdown does not lose its notification (shutdown.rs).
NoticeIsKept == Process!NoticeIsKept

\* Ctrl-C ends the process, even when every worker is stuck (main.rs).
InterruptEnds == (live = "endpoint" /\ submitted) ~> exit # "running"
================================================================================
