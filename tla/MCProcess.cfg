SPECIFICATION FairProcess
CONSTANTS
    Base = 2
    DPASTE_PIN_LEN = 2
    CODE_PASS_OFFSET = 1
    PIN_WITH_PASS_LEN = 4
    DPASTE_URI_PREFIX = prefix
    x = x
    y = y
    NUL = NUL
    PGP = PGP
    Byte = {x, y, NUL, PGP}
    k1 = k1
    KeyName = {k1}
    Key = {k1}
    NoKey = NoKey
    Damaged = Damaged
    DamagedFiles <- NoDamagedFiles
    me = me
    other = other
    Proc = {me, other}
    self = me
    Args <- MCArgs
    Confs <- MCConfs
    Streams <- MCStreams
    UserCodes <- MCCodes
    MAX_VALUE_SIZE = 2
    MsgpackType <- MCMsgpack
    LegacyValues <- OldFiles
    ForeignPackets <- NoPackets
    Call = {c1}
    NoCall = NoCall
    MaxValues = 1
CHECK_DEADLOCK FALSE
INVARIANTS
    TypeOK
    OldFilesReadable
PROPERTIES
    ImplementsBin
    ProcessEnds
