SPECIFICATION StudioSpec
CONSTANTS
    StudioPercents = {23, 24, 25}
    StudioNames = {}
    MaxSaved = 1
    MaxThemeEdits = 2
INVARIANT MovesAreAnswered
CHECK_DEADLOCK FALSE
