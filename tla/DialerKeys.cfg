\* A campaign with a recording and keys; the pool is one session short.
CONSTANTS
    Dest = {d1, d2}
    Rtp = {r1, r2, r3}
    None = None
    CallLimit = 2
    MaxTry = 2
    MaxPlay = 1
    MaxCallDuration = 0
    RetryDelay = 2
    ConnectTimeout = 0
    BridgeTimeout = 0
    TryWrap = 4
    Media = {"audio"}
    Actions = {"forward", "hangup"}
    MaxFault = 0
SYMMETRY Symmetry
SPECIFICATION Spec
INVARIANTS
    MediaStaysInCall
    DigitsNeedAnswer
    PlayerHoldsCall
PROPERTIES
    RetrySpacing
CHECK_DEADLOCK FALSE
