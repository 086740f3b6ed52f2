CONSTANT MaxQueued = 2
SPECIFICATION Spec
PROPERTY StopIsObserved
CHECK_DEADLOCK FALSE
