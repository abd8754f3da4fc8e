CONSTANTS
    x1 = x1
    x2 = x2
    c1 = c1
    c2 = c2
    Chunk = {c1, c2}
    Torn = Torn
    NoFile = NoFile
    Xids = {x1}
    MaxChunks = 1
    Blobs <- ShortAndEmpty
    Payloads <- AnyPayload
    DevCap = 2
    HostCap = 1
    MaxReboots = 1
    MaxFaults = 1
    Keeps = {FALSE}
    StatTries = 1
    Retries = 0
    ReopenEvery = 1
    CloseTries = 1
    MaxCalls = 1
SPECIFICATION Spec
INVARIANT DeliveredMeansRebuilt
PROPERTY DeliversBlobs
