\* Two successive requests; a panic ends only the worker.
SPECIFICATION FairSpec
CONSTANTS
    Services = {alpha}
    Protected = {}
    Pids = {1}
    None = None
    Unwinding = TRUE
    Reached = {"Stopped", "Starting", "Running", "Stopping"}
    Accepts = {TRUE}
    Timeouts = TRUE
    MaxRequests = 2
    MaxTime = 2
INVARIANTS OneCompletionEach CommandsAreObserved
PROPERTIES ImplementsContracts ControlsReturn
