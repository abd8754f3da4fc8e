CONSTANTS
    Code <- Codes
    Out = {"text", "", "cmd-corrupt"}
    Results <- CommandEnds
    Strays <- Strayed
    Misread <- DigitLost
    Empty = ""
    CmdCorrupt = "cmd-corrupt"
    Retries = 1
    MaxCalls = 2
    MaxMishaps = 2
    DevCap = 3
    HostCap = 3
SPECIFICATION Spec
INVARIANTS NothingMistakenForSuccess
CHECK_DEADLOCK FALSE
