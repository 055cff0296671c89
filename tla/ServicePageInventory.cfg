\* The release build (panic = abort); a single command is enough.
SPECIFICATION ViewSpec
CONSTANTS
    Services = {alpha}
    None = None
    Unwinding = FALSE
    MaxRequests = 1
    MaxTime = 2
    Limit = 1
    MaxAge = 1
INVARIANT InventoryAfterCommand
