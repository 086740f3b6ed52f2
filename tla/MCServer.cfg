CONSTANTS
  Timeout = 2
  MaxBytes = 3
  Things = {core, t1, t2}
  Core = core
  Workers = 2
SPECIFICATION SpecAll
INVARIANTS
  NothingLost
  BackPressure
  EofIsLast
  IdleIsBounded
  CompletionIsFinal
PROPERTIES
  ImplementsRelay
  EventuallySettles
  NoticeIsKept
  InterruptEnds
\* A pipe that ended and an exited process do nothing more; all workers
\* can be stuck at the mutex that completion() holds.
CHECK_DEADLOCK FALSE
