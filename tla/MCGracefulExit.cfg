CONSTANTS
  Things = {core, a, b}
  Core = core
  Workers = 2
SPECIFICATION EndpointSpec
INVARIANT GracefulExit
CHECK_DEADLOCK FALSE
