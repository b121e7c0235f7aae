SPECIFICATION FairSpec
CONSTANTS
    MaxHour = 3
    MaxQueries = 2
    MaxStarts = 1
    Limits = {1, 2}
    InitLimit = 2
    Clears = {"reset", "disable"}
    ClockBack = FALSE
    DiskMayFail = TRUE
INVARIANTS TypeOK UnitsWhole ReportComplete ClearForgets
PROPERTIES StoredUnitsKept FlushCatchesUp
