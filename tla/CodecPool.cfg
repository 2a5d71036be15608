CONSTANTS
    r1 = r1
    r2 = r2
    r3 = r3
    r4 = r4
    c1 = c1
    c2 = c2
    c3 = c3
    c4 = c4
    k1 = k1
    k2 = k2
    NoCodec = NoCodec
    NoKey = NoKey
    Requests <- MCRequests
    Codecs <- MCCodecs
    Keys <- MCKeys
    MaxIdle = 2
SPECIFICATION Spec
SYMMETRY Symmetry
INVARIANTS
    TypeOK
    OneOwner
    OwnDataOnly
    KeyMatches
    PoisonContained
CHECK_DEADLOCK FALSE
