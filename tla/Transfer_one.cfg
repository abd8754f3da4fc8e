CONSTANTS
    x1 = x1
    x2 = x2
    c1 = c1
    c2 = c2
    Chunk = {c1, c2}
    Torn = Torn
    NoFile = NoFile
    Xids = {x1}
    MaxChunks = 2
    Blobs <- OneBlob
    Payloads <- OnePayload
    DevCap = 2
    HostCap = 2
    MaxReboots = 1
    MaxFaults = 0
    Keeps = {TRUE}
    StatTries = 2
    Retries = 1
    ReopenEvery = 2
    CloseTries = 2
    MaxCalls = 1
SPECIFICATION HostFairSpec
INVARIANTS TypeOK PrefixHeld RebuiltStays NeverMisverified
PROPERTIES ChunksPersist CallReturns
