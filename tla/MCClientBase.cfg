\* The components come to rest: a stopped loop, a finished ping, an exited client.
CHECK_DEADLOCK FALSE
SPECIFICATION SpecAll
CONSTANTS
  Tasks = {1, 2, 3, 4}
  Plain = {}
  Budget = 1
  Deferred = {3}
INVARIANTS NoTaskForgotten WakeupsAreKept BuffersKeepOrder NothingAfterClose OneOutcomeEach
PROPERTY WhatBeginsEnds
