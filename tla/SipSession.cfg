SPECIFICATION Spec
CONSTANTS MaxSeq = 1 MaxInfo = 1 MaxLoop = 1 MaxAcks = 2 FailLimit = 2
INVARIANT ReferencesAddUp
INVARIANT EstablishedEndsWithBye
PROPERTY ReleasedInTheEnd
CHECK_DEADLOCK FALSE
