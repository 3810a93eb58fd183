SPECIFICATION Spec
CONSTANTS
    Query = {"q1", "q2"}
    Srvc = 2
    NtxMax = 3
    MaxSrv = 3
    RespLen = 3
    Conn = {"c1", "c2"}
    Body = {0, 2}
    MaxReqs = 3
    BufMax = 4
    TidMod = 4
    MaxReq = 4
    Digit = {"1", "2"}
    DigitMin = 3
    EndTx = 2
    Loss = 1
    MaxStray = 1
    MaxDigits = 3
    MaxNet = 2
    Branch = {"b1", "b2"}
    Contact = {"x"}
    MaxSeq = 2
    MaxBuf = 9
    Agent = {"a", "b"}
    Formats <- EndFormats
    First = "audio"
    Payload <- EndPayload
    MaxOffers = 3
    MaxEdits = 2
    Realm = {"r1", "r2", "r3"}
    Known = {"r1", "r2"}
    MaxNonce = 4
INVARIANTS
    ExchangesAgree
PROPERTIES
    MovesForward
    RequestsFinish
CHECK_DEADLOCK FALSE
