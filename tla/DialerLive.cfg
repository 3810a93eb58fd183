\* Every timer fires: calls end and the campaign completes.
CONSTANTS
    Dest = {d1, d2}
    Rtp = {r1, r2}
    None = None
    CallLimit = 1
    MaxTry = 2
    MaxPlay = 1
    MaxCallDuration = 1
    RetryDelay = 1
    ConnectTimeout = 0
    BridgeTimeout = 0
    TryWrap = 4
    Media = {"audio"}
    Actions = {"forward", "hangup"}
    MaxFault = 0
SPECIFICATION FairSpec
INVARIANTS
    NoContactDropped
    LimitsHeld
PROPERTIES
    EveryCallEnds
    CampaignCompletes
CHECK_DEADLOCK FALSE
