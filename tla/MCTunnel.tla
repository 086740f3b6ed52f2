------------------------------- MODULE MCTunnel -------------------------------
(* Client sessions, for TLC, and beside them one session's datagram multiplexer over SOCKS5.
   The two share no state, so a behaviour runs one of them, chosen at the start (`live'): the
   reachable states add up. Tunnel is extended, its properties are checked under their own
   names; its first client has limits of its own. *)
EXTENDS Tunnel, TLC

CONSTANTS c1,
          Sources, Destinations, DnsDestinations, Private,
          TicksPerTimeout, MaxQueries  \* UdpSocks5

\* c1 may have two HTTP/1 or HTTP/2 connections, more than the default, and one HTTP/3
\* connection; the other client has the default of the former and no limit of the latter.
OwnHttp2 == [c \in Clients |-> IF c = c1 THEN 2 ELSE None]
OwnHttp3 == [c \in Clients |-> IF c = c1 THEN 1 ELSE None]

Symmetry == Permutations(Sessions) \cup Permutations(Requests)

VARIABLES
  live,  \* the part that runs
  udp_connections, closed, associations, left, receiving, watched, woken, stale  \* UdpSocks5

Socks == INSTANCE UdpSocks5

ASSUME SocksAssumption ==
  /\ Sources \cap Destinations = {}
  /\ DnsDestinations \subseteq Destinations /\ Private \subseteq Destinations
  /\ TicksPerTimeout \in Nat \ {0} /\ MaxQueries \in Nat \ {0}
  /\ None \notin Nat \cup Sources \cup (Sources \X Destinations)
  /\ None \notin Socks!UdpConnection \cup Socks!UdpAssociation

socks == <<udp_connections, closed, associations, left, receiving, watched, woken, stale>>

InitAll == live \in {"tunnel", "socks"} /\ Init /\ Socks!Init

InTunnel(A) == live = "tunnel" /\ A /\ UNCHANGED <<live, socks>>
InSocks(A) == live = "socks" /\ A /\ UNCHANGED <<live, vars>>

NextAll == InTunnel(Next) \/ InSocks(Socks!Next)

SpecAll == InitAll /\ [][NextAll]_<<live, vars, socks>>

\* Whenever the right half waits in poll_events it polls every association or is about to;
\* every association has a peer; and a DNS flow over SOCKS5 is known only while a query is
\* unanswered (socks5_forwarder.rs with udp_pipe.rs).
AssociationsAreServed ==
  Socks!EveryAssociationIsWatched /\ Socks!AssociationsHavePeers /\ Socks!DnsFlowsArePending
================================================================================
