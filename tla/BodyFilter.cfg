CONSTANTS
    BufferCount <- MCBufferCount
    Capacity <- MCCapacity
    CallbackBytes <- MCCallbackBytes
    CallbackSteps <- MCCallbackSteps
    MaxBytes <- MCMaxBytes
    MaxArrivals <- MCMaxArrivals
    Requests <- Everything
SPECIFICATION Spec
INVARIANTS
    TypeOK
    BuffersConserved
    LentBufferIsUnlinked
    BufferedBitHonest
    PlainWorkHasWakeup
    TrailerBeforeLast
    StatsExact
    TrailerTotals
    WriterNeverRefuses
PROPERTIES
    DriverProtocol
    Ordered
CHECK_DEADLOCK FALSE
