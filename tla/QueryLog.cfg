SPECIFICATION FairSpec
CONSTANTS
    Workers = {"w1"}
    MemSize = 2
    FileEnabled = TRUE
    Ivls = {1}
    InitIvl = 1
    May = {"clear", "config", "rotate", "search"}
    DiskMayFail = TRUE
    MaxEntries = 3
    MaxHour = 1
    MaxStarts = 1
INVARIANTS TypeOK FullIsScheduled OldestFirst ClearForgets SearchFinds ShutdownWrites
PROPERTIES FullIsFlushed IsOneLog
