CONSTANTS
  Endpoints = {v4a, v4b, v6}
  Ipv6 = {v6}
  Requests = {r}
  MaxAttempts = 2
  RecoveryAttempts = 2
  SizeMax = 3
  MaxCalls = 2
SPECIFICATION Spec
INVARIANTS
  NeverStranded
  ClientStateAgrees
  ConnectedOverEndpoint
  SelectionFollowsPing
  PostponedInWindow
  KillSwitchHolds
PROPERTY DisconnectedIsFinal
CHECK_DEADLOCK FALSE
