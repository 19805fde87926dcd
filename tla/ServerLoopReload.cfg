SPECIFICATION Spec
CONSTANT MaxSignals = 1
CHECK_DEADLOCK FALSE
INVARIANT EndsOnTermination
