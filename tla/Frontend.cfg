CONSTANTS
    x1 = x1
    x2 = x2
    c1 = c1
    c2 = c2
    Chunk = {c1, c2}
    Torn = Torn
    NoFile = NoFile
    NoXfer = NoXfer
    Xids = {x1, x2}
    MaxChunks = 2
    Blobs <- LongAndShort
    Payloads <- OneEach
    DevCap = 2
    HostCap = 2
    MaxRestarts = 1
    MaxFaults = 1
    StatTries = 1
    Retries = 1
    ReopenEvery = 2
    CloseTries = 2
    MaxCalls = 1
    MaxAttaches = 1
SPECIFICATION Spec
INVARIANTS TypeOK DeliveredInPlace VerifyHasReason DetachFrees
PROPERTIES InPlaceStays DeliversBlobs
CHECK_DEADLOCK FALSE
