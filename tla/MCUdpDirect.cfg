CONSTANTS
  Sources = {a}
  Destinations = {dns, web, web2, lan}
  DnsDestinations = {dns}
  Private = {lan}
  None = None
  TicksPerTimeout = 4
  MaxQueries = 2
  MaxInbox = 2
SPECIFICATION Spec
INVARIANTS
  DnsFlowsArePending
  FlowsHaveSockets
  EverySocketIsWatched
CHECK_DEADLOCK FALSE
