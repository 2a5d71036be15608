CONSTANTS
    CallbackBytes <- MCCallbackBytes
    CallbackSteps <- MCCallbackSteps
    Capacity <- MCCapacity
    MaxLen <- MCMaxLen
SPECIFICATION Spec
INVARIANTS
    TypeOK
    BoundaryHonest
PROPERTIES
    BoundaryNeverWithdrawn
    NoSpin
    CallReturns
CHECK_DEADLOCK FALSE
