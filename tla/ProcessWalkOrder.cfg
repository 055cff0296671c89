\* An executable that starts itself through a helper, under All instances.
SPECIFICATION TreesSpec
CONSTANTS
    Pids = {5, 6, 7}
    Paths = {browser, helper}
    None = None
    Untouchable = {}
    MaxTargets = 3
    MaxCreated = 2
    MaxTime = 2
    MaxBorn = 3
    MaxJobs = 1
    ForestPids = {1, 2, 3}
    LastStart = 2
    TablePids = {1, 2}
    LastBirth = 2
    Searches = {"", "text"}
    PagePids = {1}
    OrderPids = {1, 2, 3}
    OrderKinds <- SampleKinds
    HistoryRows = 2
    TopRows = 1
    LastProcess = 3
INVARIANT ParentsPrecedeChildren
