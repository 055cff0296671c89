\* Two PIDs, one of them used again; three requests; two suspensions.  Two drives
\* and as many threads.  Two reads of a section, one poll.  Each of them may end for good.
SPECIFICATION WorkersSpec
CONSTANTS
    Pids = {p1, p2}
    Untouchable = {}
    None = None
    MaxHolds = 2
    MaxBorn = 3
    MaxRequests = 3
    Drives = {d1, d2}
    MaxDrives = 2
    MaxReads = 2
    MaxPolls = 1
INVARIANTS ActionsAreAsShown ReadsAreBounded
PROPERTIES HoldsAreReleased ImplementsCommandSlot AskedAgain SpecsFollowThePage
CHECK_DEADLOCK FALSE
