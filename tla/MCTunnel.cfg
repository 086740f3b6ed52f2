CONSTANTS
  c1 = c1
  Clients = {c1, c2}
  Strangers = {x}
  None = None
  Malformed = Malformed
  Sessions = {s1, s2}
  Requests = {r1}
  MaxHttp2 <- OwnHttp2
  MaxHttp3 <- OwnHttp3
  DefaultMaxHttp2 = 1
  DefaultMaxHttp3 = None
  Sources = {a, b}
  Destinations = {dns, web}
  DnsDestinations = {dns}
  Private = {}
  TicksPerTimeout = 1
  MaxQueries = 1
SYMMETRY Symmetry
SPECIFICATION SpecAll
INVARIANTS
  SlotAccounting
  LimitRespected
  ForwardingHoldsSlot
  ForwardedAreAuthenticated
  AssociationsAreServed
CHECK_DEADLOCK FALSE
