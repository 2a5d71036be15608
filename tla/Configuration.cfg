CONSTANTS
    Block <- MCBlock
    Path <- MCPath
    Kind <- MCKind
    Lines <- MCLines
    MaxLines <- MCMaxLines
    Builds <- MCBuilds
    Queues = {TRUE, FALSE}
SPECIFICATION Spec
INVARIANTS
    TypeOK
    Precedence
    FailsClosed
    ConflictAnnounced
    WarningsJustified
CHECK_DEADLOCK FALSE
