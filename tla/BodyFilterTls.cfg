CONSTANTS
    BufferCount <- MCBufferCount
    Capacity <- MCCapacity
    CallbackBytes <- MCCallbackBytes
    CallbackSteps <- MCCallbackSteps
    MaxBytes <- MCMaxBytes
    MaxArrivals <- MCMaxArrivals
    Requests <- OverTls
SPECIFICATION Spec
INVARIANT PendingWorkHasWakeup
CHECK_DEADLOCK FALSE
