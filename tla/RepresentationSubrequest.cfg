CONSTANTS
    Configs <- MCConfigs
    Headers <- MCHeaders
    Responses <- MCResponses
SPECIFICATION Spec
INVARIANTS
    NeverDoubleCompressed
CHECK_DEADLOCK FALSE
