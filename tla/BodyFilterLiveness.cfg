CONSTANTS
    BufferCount <- MCBufferCount
    Capacity <- MCCapacity
    CallbackBytes <- MCCallbackBytes
    CallbackSteps <- MCCallbackSteps
    MaxBytes <- MCMaxBytes
    MaxArrivals <- MCFewArrivals
    Requests <- Quiet
SPECIFICATION Spec
PROPERTY BoundariesDelivered
CHECK_DEADLOCK FALSE
