CONSTANTS
    x1 = x1
    x2 = x2
    c1 = c1
    c2 = c2
    Chunk = {c1, c2}
    Torn = Torn
    NoFile = NoFile
    Xids = {x1}
    MaxChunks = 2
    Blobs <- LongAndShort
    Payloads <- AnyPayload
    DevCap = 2
    HostCap = 2
    MaxReboots = 0
    MaxFaults = 0
    Keeps = {TRUE}
    StatTries = 1
    Retries = 1
    ReopenEvery = 1
    CloseTries = 1
    MaxCalls = 1
SPECIFICATION Spec
PROPERTY OpenClearsOtherBlob
