\* Three statements, two failures of the environment.
CONSTANTS
    MaxQuery = 3
    MaxFault = 2
SPECIFICATION Spec
INVARIANTS
    TypeOK
    Accounted
    AppliedInOrder
    ExecOnLiveHandle
    NothingLostWithoutFault
PROPERTIES
    ImplementsContract
    QueuedReachesDb
CHECK_DEADLOCK FALSE
