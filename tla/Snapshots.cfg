\* The clocks are bounded and stop, and a report is written once: no deadlock check.
SPECIFICATION SnapshotsSpec
CONSTANTS
    Chords = {c1, c2}
    MaxPresses = 2
    Off = Off
    NoRequest = NoRequest
    Cadence = 1
    SlowAfter = 1
    MaxAge = 2
    LastTime = 4
    Pids = {p}
    ControlInterval = 2
    GpuInterval = 2
    LastBirth = 3
    LastCycle = 3
    Sensors = {1, 2}
    ChartLimit = 1
    CardLimit = 1
    MaxPoints = 2
    Window = 4
    Silence = 3
    LastMoment = 5
    Heights = {1}
    Captures = 2
    Records = 2
    Instances = {i1, i2}
    MaxRecords = 2
    MaxPending = 1
    MaxSize = 2
    LastRecord = 3
    Nobody = Nobody
    MaxText = 4
    Textures = {1}
    Contents = {1, 2}
    MaxFailures = 2
    Executables = {a, b, c}
    Capacity = 2
    Outstanding = 2
    UploadsPerFrame = 1
    LastFrame = 3
    LastId = 4
    Disks = {1, 2}
    MaxDisks = 1
    StaleAfter = 1
    RetryAfter = 2
    HistoryLength = 2
    LastDiskTime = 5
    Processors = {1, 2}
    Nominals = {1}
    Percents = {1, 2}
    MaxHits = 1
    MinInterval = 2
    MaxInterval = 3
    ClockRetry = 3
    ClockSteps = {1, 2, 4}
    LastClock = 8
    Luids = {1}
    Nodes = {1}
    MaxAdapters = 1
    Uuids = {u, v}
    AdapterRetry = 2
    Retain = 2
    SensorRetry = 2
    SensorWindow = 2
    MaxSensorPoints = 2
    LastGpuSample = 6
    StudioPercents = {24, 25, 100}
    StudioNames = {n1, n2}
    MaxSaved = 1
    MaxThemeEdits = 2
    Apps = {1, 2}
    Reports = {{0, 2}, {1, 2}}
    BridgeLimit = 2
    DriveLimit = 2
    ActivePoll = 1
    IdlePoll = 1
    IdleInterval = 3
    PollBudget = 1
    LastInstant = 3
INVARIANTS ChordIsAsShown ViewsAreHonest RowsAreConsistent ChartsAreMeasured ExportIsWhole
           KeepsTheNewest ReportIsFaithful SuspendedForCause IconsAreAccounted
           MeasuredOverOneInterval ReadingsAreDated ThemeIsKept
PROPERTY RecoveryKeepsThePicture
CHECK_DEADLOCK FALSE
