-------------------------------- MODULE Tunnel --------------------------------
(***************************************************************************)
(* Client sessions of the endpoint: admission of a connection               *)
(* (Core::on_tunnel_request), the tunnel's request loop with the lazy       *)
(* acquisition of a connection slot (Tunnel::listen, listen_inner) and the  *)
(* request tasks it spawns, which outlive the loop and run concurrently     *)
(* with it and with one another.                                            *)
(*                                                                         *)
(* A credential string is a member of Clients (the registry accepts it) or  *)
(* of Strangers (it does not).  Malformed is authentication info that       *)
(* cannot be decoded.                                                       *)
(***************************************************************************)
EXTENDS ConnectionLimiter, FiniteSets

CONSTANTS
  Sessions,    \* client connections, each used once
  Requests,    \* the requests one connection may have in flight
  Strangers,   \* credentials the registry rejects
  Malformed    \* RequestHeaders::auth_info returned an error

ASSUME TunnelAssumption ==
  /\ IsFiniteSet(Sessions)
  /\ None \notin Strangers
  /\ Clients \cap Strangers = {}
  /\ Malformed \notin Clients \cup Strangers \cup {None}

VARIABLES
  phase,       \* per session: where Core::on_tunnel_request is
  protocol,    \* per session: HttpCodec::protocol
  policy,      \* per session: Authenticated(x) as x, Default as None
  guard,       \* per session: owner of Tunnel.connection_guard, or None
  task,        \* per session and request: the spawned task
  submitted,   \* Shutdown::submit was called
  subscribed   \* sessions whose notification_handler was made before that

vars == <<clients, phase, protocol, policy, guard, task, submitted, subscribed>>

Creds == Clients \cup Strangers
AuthInfo == Creds \cup {None, Malformed}

Phases == {"new", "listening", "graceful_shutdown", "closed"}
TaskStates == {"none", "spawned", "connecting", "exchanging"}

Task == [state : TaskStates, auth_info : AuthInfo, forwarder_auth : Creds \cup {None}]

NoTask == [state |-> "none", auth_info |-> None, forwarder_auth |-> None]

\* Both the tunnel and its requests are alive: the connection is open.
Open(s) == phase[s] \in {"listening", "graceful_shutdown"}

\* The task of the request is passing its traffic to the forwarder.
Forwarding(s, r) == task[s][r].state \in {"connecting", "exchanging"}

\* The endpoint has an authenticator exactly when clients are registered.
HasAuthenticator == Clients # {}

\* RegistryBasedAuthenticator::authenticate = Status::Pass.
Authenticate(creds) == creds \in Clients

\* One type invariant for the state of sessions, tasks and counters.
TypeOK ==
  /\ LimiterTypeOK
  /\ phase \in [Sessions -> Phases]
  /\ protocol \in [Sessions -> Protocols]
  /\ policy \in [Sessions -> Clients \cup {None}]
  /\ guard \in [Sessions -> Clients \cup {None}]
  /\ task \in [Sessions -> [Requests -> Task]]
  /\ submitted \in BOOLEAN
  /\ subscribed \subseteq Sessions

Init ==
  /\ LimiterInit
  /\ phase = [s \in Sessions |-> "new"]
  /\ protocol = [s \in Sessions |-> "Http1"]
  /\ policy = [s \in Sessions |-> None]
  /\ guard = [s \in Sessions |-> None]
  /\ task = [s \in Sessions |-> [r \in Requests |-> NoTask]]
  /\ submitted = FALSE
  /\ subscribed = {}

--------------------------------------------------------------------------------
(* Admission: Core::on_tunnel_request.                                       *)

\* Tunnel::listen begins: a notification handler made after the submit misses it.
StartListening(s) ==
  /\ phase' = [phase EXCEPT ![s] = "listening"]
  /\ subscribed' = IF submitted THEN subscribed ELSE subscribed \cup {s}

\* No authenticator, or no credentials in the SNI: the default policy.
OpenDefault(s, p, sni) ==
  /\ phase[s] = "new"
  /\ ~ HasAuthenticator \/ sni = None
  /\ StartListening(s)
  /\ protocol' = [protocol EXCEPT ![s] = p]
  /\ UNCHANGED <<clients, policy, guard, task, submitted>>

\* SNI credentials that pass; with a limiter a slot must be free.
OpenSni(s, p, sni) ==
  /\ phase[s] = "new"
  /\ HasAuthenticator
  /\ Authenticate(sni)
  /\ IF HasLimiter
     THEN /\ HasRoom(sni, p)
          /\ Acquire(sni, p)
          /\ guard' = [guard EXCEPT ![s] = sni]
     ELSE UNCHANGED <<clients, guard>>
  /\ policy' = [policy EXCEPT ![s] = sni]
  /\ StartListening(s)
  /\ protocol' = [protocol EXCEPT ![s] = p]
  /\ UNCHANGED <<task, submitted>>

\* SNI credentials that are rejected, or no free slot: the session ends.
RefuseSni(s, p, sni) ==
  /\ phase[s] = "new"
  /\ HasAuthenticator
  /\ sni # None
  /\ ~ Authenticate(sni) \/ (HasLimiter /\ ~ HasRoom(sni, p))
  /\ phase' = [phase EXCEPT ![s] = "closed"]
  /\ UNCHANGED <<clients, protocol, policy, guard, task, submitted, subscribed>>

--------------------------------------------------------------------------------
(* The request loop: Tunnel::listen and Tunnel::listen_inner.                *)

\* The request is one that makes the tunnel take its slot.
NeedsSlot(s, auth_info) ==
  /\ guard[s] = None
  /\ HasLimiter
  /\ auth_info \in Creds
  /\ HasAuthenticator
  /\ Authenticate(auth_info)

Spawn(s, r, auth_info) ==
  task' = [task EXCEPT ![s][r] = [NoTask EXCEPT !.state = "spawned", !.auth_info = auth_info]]

\* A request of a tunnel that has its slot already, or needs none.
ReceiveRequest(s, r, auth_info) ==
  /\ phase[s] = "listening"
  /\ task[s][r] = NoTask
  /\ ~ NeedsSlot(s, auth_info)
  /\ Spawn(s, r, auth_info)
  /\ UNCHANGED <<clients, phase, protocol, policy, guard, submitted, subscribed>>

\* The first authenticated request takes the slot before its task is spawned.
AcquireOnRequest_NoGuardKept(s, r, auth_info) ==
  /\ phase[s] = "listening"
  /\ task[s][r] = NoTask
  /\ NeedsSlot(s, auth_info)
  /\ HasRoom(auth_info, protocol[s])
  /\ Spawn(s, r, auth_info)
  /\ UNCHANGED <<clients, phase, protocol, policy, guard, submitted, subscribed>>

AcquireOnRequest(s, r, auth_info) ==
  /\ phase[s] = "listening"
  /\ task[s][r] = NoTask
  /\ NeedsSlot(s, auth_info)
  /\ HasRoom(auth_info, protocol[s])
  /\ Acquire(auth_info, protocol[s])
  /\ guard' = [guard EXCEPT ![s] = auth_info]
  /\ Spawn(s, r, auth_info)
  /\ UNCHANGED <<phase, protocol, policy, submitted, subscribed>>

\* Dropping the Tunnel drops its guard.
DropGuard(s) ==
  /\ IF guard[s] = None THEN UNCHANGED clients ELSE Release(guard[s], protocol[s])
  /\ guard' = [guard EXCEPT ![s] = None]

\* No free slot: the request fails and the whole tunnel is closed.
LimitExceeded(s, r, auth_info) ==
  /\ phase[s] = "listening"
  /\ task[s][r] = NoTask
  /\ NeedsSlot(s, auth_info)
  /\ ~ HasRoom(auth_info, protocol[s])
  /\ DropGuard(s)
  /\ phase' = [phase EXCEPT ![s] = "closed"]
  /\ UNCHANGED <<protocol, policy, task, submitted, subscribed>>

\* The client leaves, the codec fails, or no request came for
\* client_listener_timeout (whatever the spawned tasks are doing).
StopListening(s) ==
  /\ phase[s] = "listening"
  /\ DropGuard(s)
  /\ phase' = [phase EXCEPT ![s] = "closed"]
  /\ UNCHANGED <<protocol, policy, task, submitted, subscribed>>

\* The shutdown notification wins the select: listen_inner is dropped.
StartGracefulShutdown(s) ==
  /\ submitted
  /\ s \in subscribed
  /\ phase[s] = "listening"
  /\ phase' = [phase EXCEPT ![s] = "graceful_shutdown"]
  /\ UNCHANGED <<clients, protocol, policy, guard, task, submitted, subscribed>>

FinishGracefulShutdown(s) ==
  /\ phase[s] = "graceful_shutdown"
  /\ DropGuard(s)
  /\ phase' = [phase EXCEPT ![s] = "closed"]
  /\ UNCHANGED <<protocol, policy, task, submitted, subscribed>>

Submit ==
  /\ submitted = FALSE
  /\ submitted' = TRUE
  /\ UNCHANGED <<clients, phase, protocol, policy, guard, task, subscribed>>

--------------------------------------------------------------------------------
(* The task spawned for a request.                                           *)

SetTask(s, r, t) ==
  /\ task' = [task EXCEPT ![s][r] = t]
  /\ UNCHANGED <<clients, phase, protocol, policy, guard, submitted, subscribed>>

\* The authentication table of the spawned task lets the request through.
Authenticated_PolicyIgnoresReject(s, auth_info) ==
  IF HasAuthenticator
  THEN Authenticate(auth_info) \/ policy[s] # None
  ELSE auth_info # Malformed

Authenticated(s, auth_info) ==
  IF HasAuthenticator
  THEN Authenticate(auth_info) \/ (auth_info = None /\ policy[s] # None)
  ELSE auth_info # Malformed

AuthenticateRequest(s, r) ==
  LET t == task[s][r] IN
  /\ t.state = "spawned"
  /\ Authenticated(s, t.auth_info)
  /\ SetTask(s, r, [t EXCEPT !.state = "connecting",
       !.forwarder_auth = IF t.auth_info # None THEN t.auth_info ELSE policy[s]])

\* A rejected, missing or malformed credential: fail_request.
RejectRequest(s, r) ==
  LET t == task[s][r] IN
  /\ t.state = "spawned"
  /\ ~ Authenticated(s, t.auth_info)
  /\ SetTask(s, r, NoTask)

\* connector.connect, or the multiplexer's check_auth and creation, succeed
\* and the client's half is promoted.
StartExchange(s, r) ==
  LET t == task[s][r] IN
  /\ t.state = "connecting"
  /\ SetTask(s, r, [t EXCEPT !.state = "exchanging"])

\* An error or connection_establishment_timeout before the exchange.
FailRequest(s, r) ==
  LET t == task[s][r] IN
  /\ t.state = "connecting"
  /\ SetTask(s, r, NoTask)

\* A health check completes at once; an exchange ends, with or without error.
FinishTask(s, r) ==
  /\ Forwarding(s, r)
  /\ SetTask(s, r, NoTask)

--------------------------------------------------------------------------------
Next ==
  \/ Submit
  \/ \E s \in Sessions :
       \/ \E p \in Protocols, sni \in Creds \cup {None} :
            OpenDefault(s, p, sni) \/ OpenSni(s, p, sni) \/ RefuseSni(s, p, sni)
       \/ StopListening(s)
       \/ StartGracefulShutdown(s)
       \/ FinishGracefulShutdown(s)
       \/ \E r \in Requests :
            \/ \E auth_info \in AuthInfo :
                 \/ ReceiveRequest(s, r, auth_info)
                 \/ AcquireOnRequest(s, r, auth_info)
                 \/ LimitExceeded(s, r, auth_info)
            \/ AuthenticateRequest(s, r)
            \/ RejectRequest(s, r)
            \/ StartExchange(s, r)
            \/ FailRequest(s, r)
            \/ FinishTask(s, r)

Spec == Init /\ [][Next]_vars

--------------------------------------------------------------------------------
\* The sessions whose guard counts against a counter of a client.
Holders(c, slot) == {s \in Sessions : guard[s] = c /\ Slot(protocol[s]) = slot}

\* Every counter of the limiter equals the number of live guards it was
\* incremented for: no slot leaks and none is released twice, whichever way a
\* tunnel was admitted and whichever way it ended (connection_limiter.rs,
\* ConnectionGuard::drop).
SlotAccounting ==
  \A c \in Clients, slot \in Slots : clients[c][slot] = Cardinality(Holders(c, slot))

\* The number of simultaneous connections counted for a client never exceeds
\* the limit that applies to it (ConnectionLimiter::try_acquire), although
\* SNI admissions and lazy acquisitions of many tunnels race for the slots.
LimitRespected ==
  \A c \in Clients, slot \in Slots :
    Limit(c, slot) # None => Cardinality(Holders(c, slot)) <= Limit(c, slot)

\* With an authenticator and a limiter, an open connection that forwards a
\* request holds a slot: the guard is taken before the request's task is
\* spawned and lives as long as the tunnel (Tunnel::listen_inner).
ForwardingHoldsSlot ==
  HasAuthenticator /\ HasLimiter =>
    \A s \in Sessions, r \in Requests :
      Open(s) /\ Forwarding(s, r) => guard[s] # None

\* With an authenticator, what reaches a forwarder carries credentials the
\* registry accepts: those of the request, or of the connection when the
\* request has none; rejected or malformed ones are never replaced by the
\* connection's (the match of the spawned task in Tunnel::listen_inner).
ForwardedAreAuthenticated ==
  HasAuthenticator =>
    \A s \in Sessions, r \in Requests :
      Forwarding(s, r) =>
        /\ task[s][r].forwarder_auth \in Clients
        /\ task[s][r].auth_info \in {None, task[s][r].forwarder_auth}

================================================================================
