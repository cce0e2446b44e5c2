SPECIFICATION Spec
CONSTANTS
    Base = 2
    DPASTE_PIN_LEN = 2
    CODE_PASS_OFFSET = 1
    PIN_WITH_PASS_LEN = 4
    DPASTE_URI_PREFIX = prefix
    x = x
    y = y
    NUL = NUL
    PGP = PGP
    Byte = {x, y, NUL, PGP}
    k1 = k1
    k2 = k2
    kx = kx
    KeyName = {k1, k2, kx}
    Key = {k1, k2}
    NoKey = NoKey
    Damaged = Damaged
    DamagedFiles <- CutMessages
    w1 = w1
    w2 = w2
    rd = rd
    Proc = {w1, rd}
    Args <- PairArgs
    Confs <- PairConfs
    Streams <- PairStreams
    UserCodes <- NoCodes
    MAX_VALUE_SIZE = 2
    MsgpackType <- Msgpack
    LegacyValues <- NoOldFiles
    ForeignPackets <- NoPackets
CHECK_DEADLOCK FALSE
INVARIANTS
    EncryptedFileComesBack
