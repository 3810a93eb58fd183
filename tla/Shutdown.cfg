\* Two sessions are enough for one that is up when the signal arrives.
CONSTANT Sess = {s1, s2}
SPECIFICATION Spec
INVARIANT PendingFinished
CHECK_DEADLOCK FALSE
