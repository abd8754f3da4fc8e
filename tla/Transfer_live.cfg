CONSTANTS
    x1 = x1
    x2 = x2
    c1 = c1
    c2 = c2
    Chunk = {c1, c2}
    Torn = Torn
    NoFile = NoFile
    Xids = {x1}
    MaxChunks = 2
    Blobs <- OneBlob
    Payloads <- OnePayload
    DevCap = 3
    HostCap = 2
    MaxReboots = 1
    MaxFaults = 0
    Keeps = {TRUE, FALSE}
    StatTries = 1
    Retries = 1
    ReopenEvery = 1
    CloseTries = 1
    MaxCalls = 1
SPECIFICATION ResumeSpec
PROPERTY EventuallyDelivered
CHECK_DEADLOCK FALSE
