CONSTANTS
    i1 = i1
    i2 = i2
    t1 = t1
    t2 = t2
    Image = {i1, i2}
    Target = {t1, t2}
    Ops <- BothSlots
    MaxProcs = 2
    MaxFaults = 0
    Torn = Torn
    NoFile = NoFile
    None = None
    NoPiece = NoPiece
    Command <- ShellCommand
    Piece <- Printed
    MaxFrames = 2
    MaxCids = 5
    DevCap = 2
    HostCap = 4
SPECIFICATION Spec
INVARIANTS NoFalseSuccess
CHECK_DEADLOCK FALSE
