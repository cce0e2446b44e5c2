SPECIFICATION Spec
CONSTANTS
    EQ = EQ
    SP = SP
    WS = WS
    Uninitialised = Uninitialised
    lo = lo
    n1 = n1
    n2 = n2
    w = w
    Word <- MCWord
    Defaults <- MCDefaults
    Extract <- MCExtract
    Argvs <- MCArgvs
    Files <- MCFiles
CHECK_DEADLOCK FALSE
INVARIANT
    MalformedLinesOmitted
