CONSTANTS
    h1 = h1
    h2 = h2
    Reader = Reader
    Conns = {h1, h2}
    Requests <- WaitAndOthers
    MaxServed = 2
    Cap = 2
    MaxBytes = 2
    ReadBuf = 1
    Newlines = {}
    PlanLen = 1
    MaxPlugs = 1
    AutoLogin = FALSE
    LoginEnds = {}
    PassEnds = {}
    Window = 4
    PromptEnds = {2}
    ExpectCap = 4
SPECIFICATION FairSpec
PROPERTIES QuickAnswered ShutsDown Answered
CHECK_DEADLOCK FALSE
