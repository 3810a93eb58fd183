SPECIFICATION Spec
INVARIANTS
    NothingLeftWaiting
    OutcomeRight
    MemoryExact
    StreamsIntact
CHECK_DEADLOCK FALSE
