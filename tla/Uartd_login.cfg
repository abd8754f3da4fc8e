CONSTANTS
    h1 = h1
    h2 = h2
    Reader = Reader
    Conns = {h1}
    Requests <- SendOrExpect
    MaxServed = 1
    Cap = 2
    MaxBytes = 7
    ReadBuf = 2
    Newlines = {}
    PlanLen = 2
    MaxPlugs = 2
    AutoLogin = TRUE
    LoginEnds = {2}
    PassEnds = {4}
    Window = 4
    PromptEnds = {7}
    ExpectCap = 6
SPECIFICATION Spec
INVARIANTS PasswordAsked PromptHeard WriterFollowsPort
CHECK_DEADLOCK FALSE
