CONSTANTS
  MaxConnects = 2
  PoolConns = {1, 2, 3}
  Children = {1, 2, 3}
  Threshold = 2
  Cap = 2
  Conns = {"c1", "c2"}
  Addrs = {"a"}
  Prefix = 2
  MaxPayload = 2
  Reply = 3
\* The session ends and nothing is asked for any more: the client may be at rest.
CHECK_DEADLOCK FALSE
SPECIFICATION SpecAll
INVARIANTS OneSessionWins PoolIsConsistent PacketsFindConnections EndsOnceAfterData
PROPERTY CallsAreAnswered
