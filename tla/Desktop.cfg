\* One snapshot after the first and one message in the tray's queue; one instance,
\* two edits.  All of them may be closed.
SPECIFICATION DesktopSpec
CONSTANTS
    LastSample = 1
    MaxMessages = 1
    Instances = {a}
    Settings = {s1, s2}
    Default = s1
    Legacy = s2
    Broken = Broken
    None = None
    Unknown = Unknown
    Unwinding = TRUE
    MaxEdits = 2
    MaxStarts = 1
INVARIANT NeverStranded
PROPERTIES NewestIsShown QuitIsHeard SettingsSettle
CHECK_DEADLOCK FALSE
