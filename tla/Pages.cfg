\* Two services, one tracked at a time; readings grow older than MaxAge.
\* One entry, two commands and two changes by another program.  Readings age by
\* the tick: what was read in an earlier tick is stale, and a read may be slow.
\* Both pages may be closed.
SPECIFICATION PagesSpec
CONSTANTS
    Services = {alpha, beta}
    None = None
    Unwinding = FALSE
    MaxRequests = 2
    MaxTime = 3
    Limit = 1
    MaxAge = 1
    Keys = {k}
    Registrations = {r1, r2}
    Unrecognized = {odd}
    Nothing = Nothing
    Unwinds = TRUE
    MaxChanges = 2
    MaxEdits = 2
    MaxActivity = 3
    LastTick = 2
    StaleAfter = 0
    SlowAfter = 0
SYMMETRY ServiceSymmetry
VIEW PagesView
INVARIANTS PageFollowsCommands PageFollowsChanges
PROPERTIES BarrierHolds DisappearsOnlyWhenRead CommitsOnlyReviewed
CHECK_DEADLOCK FALSE
