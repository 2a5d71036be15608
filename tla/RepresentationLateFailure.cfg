CONSTANTS
    Configs <- MCConfigs
    Headers <- MCHeaders
    Responses <- MCResponses
SPECIFICATION Spec
INVARIANTS
    NoLoneEncoding
CHECK_DEADLOCK FALSE
