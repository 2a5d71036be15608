CONSTANTS
    Configs <- MCConfigs
    Headers <- MCHeaders
    Responses <- MCResponses
SPECIFICATION FairSpec
INVARIANTS
    TypeOK
    HeadMatchesBody
    CacheSafe
    BestRepresentation
    RefusalJustified
PROPERTIES
    Settles
CHECK_DEADLOCK FALSE
