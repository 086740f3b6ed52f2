\* A connection that has ended is not asked for anything any more.
CHECK_DEADLOCK FALSE
SPECIFICATION Spec
INVARIANTS  PacketsHaveOneOwner ListenersCleanUp DnsWaitersAreTracked
PROPERTY DnsIsAnswered
