SPECIFICATION Spec
CONSTANTS
    MaxEntrySize = 4
    BufferSize = 8
    MaxSearchDepth = 100
    Size = 4
    MaxInMemory = 1
    Lengths = {1, 3}
    Kinds = {"match", "other"}
    Limits = {1, 2}
    Scans = {2}
    Asked = {0, 5}
INVARIANTS SeekCorrect ScopeHolds ReadsBackwards PagesComplete PagesDisjoint
PROPERTIES PagesEnd
