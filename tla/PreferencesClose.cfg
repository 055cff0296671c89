CONSTANTS
    Instances = {a}
    Settings = {s1, s2}
    Default = s1
    Legacy = s2
    Broken = Broken
    None = None
    Unknown = Unknown
    Unwinding = TRUE
    MaxEdits = 3
    MaxStarts = 2
SPECIFICATION Spec
INVARIANT FinalStateSaved
CHECK_DEADLOCK FALSE
