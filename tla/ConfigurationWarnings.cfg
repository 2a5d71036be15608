CONSTANTS
    Block <- MCBlock
    Path <- MCPath
    Kind <- MCKind
    Lines <- MCLines
    MaxLines <- MCMaxLines
    Builds <- MCBuilds
    Queues = {FALSE}
SPECIFICATION Spec
INVARIANT ConflictsReported
CHECK_DEADLOCK FALSE
