\* A campaign whose settings change under it, with a failed allocation;
\* try_count wraps.
CONSTANTS
    Dest = {d1, d2}
    Rtp = {r1, r2, r3}
    None = None
    CallLimit = 2
    MaxTry = 0
    MaxPlay = 1
    MaxCallDuration = 0
    RetryDelay = 1
    ConnectTimeout = 0
    BridgeTimeout = 0
    TryWrap = 2
    Media = {"audio", "missing", "pbx", "nogateway"}
    Actions = {}
    MaxFault = 1
SYMMETRY Symmetry
SPECIFICATION Spec
INVARIANTS
    PoolConserved
    OneList
    RowTracksCall
    AnsweredOnce
CHECK_DEADLOCK FALSE
