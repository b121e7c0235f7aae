SPECIFICATION Spec
CONSTANTS
    MaxEntrySize = 4
    BufferSize = 8
    MaxSearchDepth = 100
    Size = 4
    MaxInMemory = 1
    Lengths = {1, 3}
    Kinds = {"match"}
    Limits = {1, 2}
    Scans = {0, 2}
    Asked = {0}
INVARIANTS PagesCompleteAlways
