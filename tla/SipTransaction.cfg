SPECIFICATION Spec
CONSTANT MaxNew = 2
INVARIANT NobodyWaitsForever
PROPERTY KeepsPromise
PROPERTY CancelledEnds
CHECK_DEADLOCK FALSE
