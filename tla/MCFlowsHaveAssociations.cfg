CONSTANTS
  Sources = {a, b}
  Destinations = {dns, web}
  DnsDestinations = {dns}
  Private = {}
  None = None
  TicksPerTimeout = 1
  MaxQueries = 2
SPECIFICATION Spec
INVARIANT FlowsHaveAssociations
CHECK_DEADLOCK FALSE
