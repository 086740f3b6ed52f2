--------------------------- MODULE MCClientUpstreams ---------------------------
(* The client's way to the endpoint, for TLC: the components between the tunnel and the
   network side by side. They share no state here, so a behaviour runs one of them, chosen at
   the start (`live'), and the others stay as they were made: the reachable states add up.
   HttpUdpMux is extended, its properties are checked under their own names. *)
EXTENDS HttpUdpMux

CONSTANTS MaxConnects,                              \* EndpointConnector
          PoolConns, Children, Threshold, Cap       \* UpstreamMux

VARIABLES live,                           \* the component that runs
          ec,                             \* EndpointConnector
          child, conn, session,           \* UpstreamMux
          local, pending, fake_open, ping,\* LocalUpstreams
          h2, tc,                         \* Http2Upstream
          h3, qc                          \* Http3Upstream

Connector == INSTANCE EndpointConnector
Pool == INSTANCE UpstreamMux WITH Conns <- PoolConns
Local == INSTANCE LocalUpstreams WITH conn <- local, Tcp <- {"t"}, Udp <- {"u"}, Fake <- {"f"},
                                      Pings <- {"p"}, Peers <- {"v4", "v6"}
Http2 == INSTANCE Http2Upstream WITH Conns <- {"c"}, MaxData <- 2
Http3 == INSTANCE Http3Upstream WITH Conns <- {"c"}, MaxData <- 4

pool == <<child, conn, session>>
direct == <<local, pending, fake_open, ping>>
http2 == <<h2, tc>>
http3 == <<h3, qc>>
allVars == <<live, ec, pool, vars, direct, http2, http3>>

InitAll ==
  /\ live \in {"connector", "pool", "mux", "local", "http2", "http3"}
  /\ Connector!Init /\ Pool!Init /\ Init /\ Local!Init /\ Http2!Init /\ Http3!Init

InConnector(A) == live = "connector" /\ A /\ UNCHANGED <<live, pool, vars, direct, http2, http3>>
InPool(A) == live = "pool" /\ A /\ UNCHANGED <<live, ec, vars, direct, http2, http3>>
InMux(A) == live = "mux" /\ A /\ UNCHANGED <<live, ec, pool, direct, http2, http3>>
InLocal(A) == live = "local" /\ A /\ UNCHANGED <<live, ec, pool, vars, http2, http3>>
InHttp2(A) == live = "http2" /\ A /\ UNCHANGED <<live, ec, pool, vars, direct, http3>>
InHttp3(A) == live = "http3" /\ A /\ UNCHANGED <<live, ec, pool, vars, direct, http2>>

NextAll ==
  \/ InConnector(Connector!Next) \/ InPool(Pool!Next) \/ InMux(Next)
  \/ InLocal(Local!Next) \/ InHttp2(Http2!Next) \/ InHttp3(Http3!Next)

\* The fairness of EndpointConnector and LocalUpstreams, for the one that runs.
FairnessAll ==
  /\ WF_allVars(InConnector(Connector!FallbackDelay))
  /\ WF_allVars(InConnector(Connector!endpoint_connector_finalizer))
  /\ WF_allVars(InConnector(Connector!ClientDeferredDisconnect))
  /\ \A s \in Connector!Side :
       /\ WF_allVars(InConnector(Connector!SessionOpened(s) \/ Connector!SessionClosed(s) \/ Connector!SessionError(s)))
       /\ WF_allVars(InConnector(Connector!DeferredDisconnect(s)))
       /\ WF_allVars(InConnector(Connector!ResultTask(s)))
  /\ WF_allVars(InLocal(Local!on_async_task)) /\ WF_allVars(InLocal(Local!FakeAsyncTask))

SpecAll == InitAll /\ [][NextAll]_allVars /\ FairnessAll

--------------------------------------------------------------------------------

\* Whoever wins the race of the two connectors, the client gets one answer and the loser
\* leaves no session behind (FallbackableUpstreamConnector::handle_connect_result).
OneSessionWins == Connector!OneAnswer /\ Connector!NoSessionLeft

\* What UpstreamMultiplexer keeps of connections that reached a child, and of its session,
\* matches its pool after any order of openings, closings and failures of its children. It
\* does not say that a connection which waits for a child is answered (it need not be,
\* UpstreamMux!PendingCanBeAnswered).
PoolIsConsistent == Pool!ConnectionsMatchPool /\ Pool!SessionMatchesPool

\* In the HTTP/2, direct and fake upstreams the tunnel hears of each connection opened at
\* most once, then ended exactly once; HTTP/3 reports each end once too, but for a connection
\* the tunnel closed synchronously, of which it may hear twice. A clean end comes after the
\* last byte the HTTP upstreams could keep, and in HTTP/3 what was kept is on its way once
\* the tunnel reads again.
EndsOnceAfterData ==
  /\ Http2!OneEndPerConnection /\ Http2!CloseAfterData
  /\ Http3!GoneIsReported /\ Http3!DataBeforeClose /\ Http3!KeptDataIsOnItsWay
  /\ Local!ReportedInOrder /\ Local!OneReplyPerPing

\* A connect procedure ends, in a session or disconnected (EndpointConnector), and a close
\* that the direct upstream put off is carried out (DirectUpstream::on_async_task).
CallsAreAnswered == Connector!ConnectEnds /\ Local!CloseIsAnswered
================================================================================
