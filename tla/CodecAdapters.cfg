CONSTANTS
    HeaderBytes <- MCHeaderBytes
    TrailerBytes <- MCTrailerBytes
    Capacities <- MCCapacities
    MaxBytes <- MCMaxBytes
SPECIFICATION FairSpec
INVARIANTS
    TypeOK
    AnswersTrusted
    BoundaryAnswers
    FramesWellFormed
    LibraryContract
PROPERTY FlushEnds
CHECK_DEADLOCK FALSE
