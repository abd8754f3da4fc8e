CONSTANTS
    h1 = h1
    h2 = h2
    Reader = Reader
    Conns = {h1, h2}
    Requests <- ExpectAndRead
    MaxServed = 2
    Cap = 2
    MaxBytes = 3
    ReadBuf = 2
    Newlines = {2, 3}
    PlanLen = 1
    MaxPlugs = 2
    AutoLogin = FALSE
    LoginEnds = {}
    PassEnds = {}
    Window = 4
    PromptEnds = {3}
    ExpectCap = 2
SPECIFICATION Spec
INVARIANTS TypeOK Accounting BufferBounded LogComplete MarkersPair WaiterHears
CHECK_DEADLOCK FALSE
