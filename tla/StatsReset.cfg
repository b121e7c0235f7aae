SPECIFICATION Spec
CONSTANTS
    MaxHour = 2
    MaxQueries = 1
    MaxStarts = 0
    Limits = {2}
    InitLimit = 2
    Clears = {"reset"}
    ClockBack = FALSE
    DiskMayFail = FALSE
INVARIANTS ClearForgetsAlways
