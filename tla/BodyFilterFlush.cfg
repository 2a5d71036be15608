CONSTANTS
    BufferCount <- MCBufferCount
    Capacity <- MCCapacity
    CallbackBytes <- MCCallbackBytes
    CallbackSteps <- MCCallbackSteps
    MaxBytes <- MCMaxBytes
    MaxArrivals <- MCMaxArrivals
    Requests <- Framed
SPECIFICATION Spec
INVARIANT LentBufferIsUnlinked
CHECK_DEADLOCK FALSE
