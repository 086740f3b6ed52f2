--------------------------- MODULE ConnectionLimiter ---------------------------
(***************************************************************************)
(* The per-client connection limiter (lib/src/connection_limiter.rs): one   *)
(* entry of two counters per registered client, a bounded acquire, and a    *)
(* release that runs when a ConnectionGuard is dropped.                     *)
(***************************************************************************)
EXTENDS Naturals

CONSTANTS
  Clients,          \* credentials of the clients registered when Core is built
  None,             \* Rust's Option::None
  MaxHttp2,         \* Client.max_http2_conns, per client: a number or None
  MaxHttp3,         \* Client.max_http3_conns, per client: a number or None
  DefaultMaxHttp2,  \* Settings.default_max_http2_conns_per_client
  DefaultMaxHttp3   \* Settings.default_max_http3_conns_per_client

Limits == Nat \cup {None}

ASSUME LimiterAssumption ==
  /\ None \notin Clients
  /\ None \notin Nat
  /\ MaxHttp2 \in [Clients -> Limits]
  /\ MaxHttp3 \in [Clients -> Limits]
  /\ DefaultMaxHttp2 \in Limits
  /\ DefaultMaxHttp3 \in Limits

Protocols == {"Http1", "Http2", "Http3"}

\* The two counters of a ClientEntry.
Slots == {"http2_count", "http3_count"}

VARIABLE clients  \* the map of ClientEntry: client |-> its two counters

\* HTTP/1 and HTTP/2 connections share one counter, HTTP/3 has its own.
Slot(protocol) == IF protocol = "Http3" THEN "http3_count" ELSE "http2_count"

\* The client's own limit when it has one, the default otherwise.
Limit(c, slot) ==
  IF slot = "http2_count"
  THEN IF MaxHttp2[c] # None THEN MaxHttp2[c] ELSE DefaultMaxHttp2
  ELSE IF MaxHttp3[c] # None THEN MaxHttp3[c] ELSE DefaultMaxHttp3

\* A limiter exists only when some limit is configured.
HasLimiter ==
  \/ DefaultMaxHttp2 # None
  \/ DefaultMaxHttp3 # None
  \/ \E c \in Clients : MaxHttp2[c] # None \/ MaxHttp3[c] # None

LimiterTypeOK == clients \in [Clients -> [Slots -> Nat]]

LimiterInit == clients = [c \in Clients |-> [slot \in Slots |-> 0]]

\* try_acquire returns Some(guard).
HasRoom_OffByOne(c, protocol) ==
  /\ c \in Clients
  /\ Limit(c, Slot(protocol)) # None =>
       clients[c][Slot(protocol)] <= Limit(c, Slot(protocol))

HasRoom(c, protocol) ==
  /\ c \in Clients
  /\ Limit(c, Slot(protocol)) # None =>
       clients[c][Slot(protocol)] < Limit(c, Slot(protocol))

\* The effect of a successful try_acquire.
Acquire(c, protocol) ==
  clients' = [clients EXCEPT ![c][Slot(protocol)] = @ + 1]

\* ConnectionGuard::drop: a saturating decrement of the guard's counter.
Release_WrongCounter(c, protocol) ==
  clients' = [clients EXCEPT ![c]["http2_count"] = IF @ = 0 THEN 0 ELSE @ - 1]

Release(c, protocol) ==
  clients' = [clients EXCEPT ![c][Slot(protocol)] = IF @ = 0 THEN 0 ELSE @ - 1]

================================================================================
