------------------------------ MODULE MCClientPath ------------------------------
(* The way of an application's connection into the tunnel, for TLC: the TCP/IP stack, the
   listeners, the tunnel and its DNS components side by side. They share no state here, so a
   behaviour runs one of them, chosen at the start (`live'): the reachable states add up. *)
EXTENDS Naturals

VARIABLES live,                                      \* the component that runs
          t,                                         \* ClientTunnel
          rs,                                        \* DnsResolver
          up, li, px, asked, dead_read,              \* DnsHandler
          dc, owner,                                 \* DnsClient
          lc, pump,                                  \* TunListener
          tcp, lw, udp, icmp, taken, told,           \* TcpipStack
          sc, relays, next, requested, closed, tasks, on, \* Socks5Listener
          stats,                                     \* ConnectionStatistics
          question                                   \* the name or query whose answer is looked for

Tunnel == INSTANCE ClientTunnel WITH Conns <- {"c"}, Mode <- "general", Proxy <- TRUE,
                                       Attempts <- 3, MaxBuf <- 5
Resolver == INSTANCE DnsResolver WITH Names <- 0..1, Types <- {"A", "AAAA"}, Capacity <- 1
Handler == INSTANCE DnsHandler WITH Conns <- {"c"}, MaxAsked <- 1, QueueSize <- 1
Client == INSTANCE DnsClient WITH IdSpace <- 3, MaxSends <- 4
Tun == INSTANCE TunListener WITH MaxBytes <- 2, BatchSize <- 1, MaxPackets <- 2
Stack == INSTANCE TcpipStack WITH Packets <- {"p1", "p2", "p3"}, Echoes <- {"e", "f"}, QueueLimit <- 2
Socks == INSTANCE Socks5Listener WITH asked <- requested, told <- closed, MaxId <- 3, Keys <- {"k"},
                                      Password <- TRUE, Buckets <- 8, MaxPend <- 2
Statistics == INSTANCE ConnectionStatistics WITH MaxTotal <- 3, Threshold <- 2

handler == <<up, li, px, asked, dead_read>>
client == <<dc, owner>>
tun == <<lc, pump>>
stack == <<tcp, lw, udp, icmp, taken, told>>
socks == <<sc, relays, next, requested, closed, tasks, on>>
vars == <<live, t, rs, handler, client, tun, stack, socks, stats, question>>

Init ==
  /\ live \in {"tunnel", "resolver", "handler", "client", "tun", "stack", "socks", "statistics"}
  /\ Tunnel!Init /\ Resolver!Init /\ Handler!Init /\ Client!Init /\ Tun!Init /\ Stack!Init /\ Socks!Init
  /\ Statistics!Init
  /\ px.kill /\ ~px.alt  \* every route that other values of the two allow is allowed with these
  /\ live # "handler" => px.configured
  /\ live # "tunnel" => ~t.early
  /\ question \in CASE live = "resolver" -> 0..1 [] live = "client" -> 0..2 [] OTHER -> {0}

InTunnel(A) == live = "tunnel" /\ A /\ UNCHANGED <<live, rs, handler, client, tun, stack, socks, stats, question>>
InResolver(A) == live = "resolver" /\ A /\ UNCHANGED <<live, t, handler, client, tun, stack, socks, stats, question>>
InHandler(A) == live = "handler" /\ A /\ UNCHANGED <<live, t, rs, client, tun, stack, socks, stats, question>>
InClient(A) == live = "client" /\ A /\ UNCHANGED <<live, t, rs, handler, tun, stack, socks, stats, question>>
InTun(A) == live = "tun" /\ A /\ UNCHANGED <<live, t, rs, handler, client, stack, socks, stats, question>>
InStack(A) == live = "stack" /\ A /\ UNCHANGED <<live, t, rs, handler, client, tun, socks, stats, question>>
InSocks(A) == live = "socks" /\ A /\ UNCHANGED <<live, t, rs, handler, client, tun, stack, stats, question>>
InStatistics(A) == live = "statistics" /\ A /\ UNCHANGED <<live, t, rs, handler, client, tun, stack, socks, question>>

Next ==
  \/ InTunnel(Tunnel!Next) \/ InResolver(Resolver!Next) \/ InHandler(Handler!Next) \/ InClient(Client!Next)
  \/ InTun(Tun!Next) \/ InStack(Stack!Next) \/ InSocks(Socks!Next) \/ InStatistics(Statistics!Next)

\* The fairness of DnsResolver and DnsClient, for the one that runs.
Fairness ==
  /\ WF_vars(InResolver(Resolver!deferred_resolve_task)) /\ WF_vars(InResolver(Resolver!on_connection_timeout))
  /\ WF_vars(InClient(Client!Expires))

Spec == Init /\ [][Next]_vars /\ Fairness

--------------------------------------------------------------------------------


\* No packet of the device is held by two descriptors or after it was released, and a control
\* block of lwIP has callbacks exactly while its descriptor is accepted (tcpip/src); the bytes
\* of a TCP connection reach the tunnel in order, with a task for what it did not take, and a
\* packet that waits has somebody who will look at it (tun_device_listener.cpp).
PacketsHaveOneOwner ==
  Stack!DescriptorsOwnTheirParts /\ Tun!ClientDataInOrder /\ Tun!PacketsAreLookedAt

\* A listener ends what it opened: SOCKS5 associations with their TCP connection, with one
\* report each while the listener runs (until the reply to a UDP ASSOCIATE cannot be written),
\* and the DNS handler's second connection with the first; bytes are counted once
\* (socks5_listener.cpp, dns_handler.cpp, connection_statistics.cpp).
ListenersCleanUp ==
  /\ Socks!TablesOfListenerAgree /\ Handler!NoOrphanListener /\ Handler!WaitingAtLiveClient
  /\ Statistics!ReportedOnce

\* Whoever waits for a DNS answer is known to somebody who will give it or a failure
\* (vpn_dns_resolver.cpp, dns_client.cpp).
DnsWaitersAreTracked == Resolver!WaitingIsTracked /\ Client!OwnerWaitsForHeld

Waiting == IF live = "resolver" THEN Resolver!Waiting(question) ELSE Client!Waiting(question)

\* Every name asked for and every query sent gets an answer or a failure: ResolveIsAnswered
\* and EveryQueryEnds, for the question chosen at the start, which may be any of them.
DnsIsAnswered == Waiting ~> ~Waiting
================================================================================
