\* A build that unwinds panics, as the tests are built.
SPECIFICATION ControlSpec
CONSTANTS
    Keys = {k}
    Registrations = {r1}
    Unrecognized = {}
    Nothing = Nothing
    Unwinds = TRUE
    MaxChanges = 1
    MaxEdits = 0
    LastTick = 1
INVARIANT AnsweredOnce
CHECK_DEADLOCK FALSE
