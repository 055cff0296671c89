CONSTANTS
    Instances = {a, b}
    Settings = {s1, s2}
    Default = s1
    Legacy = None
    Broken = Broken
    None = None
    Unknown = Unknown
    Unwinding = TRUE
    MaxEdits = 2
    MaxStarts = 3
SYMMETRY InstanceSymmetry
SPECIFICATION Spec
INVARIANT SettingsAreAsShown
PROPERTY ImplementsSettingsFile
CHECK_DEADLOCK FALSE
