SPECIFICATION FairSpec
CONSTANTS
    i1 = i1  i2 = i2
    u1 = u1  u2 = u2
    b1 = b1  b2 = b2
    r1 = r1  r2 = r2
    Blank = Blank  Down = Down  None = None
    Ids = {i1, i2}
    Urls = {u1, u2}
    Bodies = {b1, b2}
    Rules = {r1, r2}
    Requests <- LiveRequests
    BotAdds = {r1}
    BotRemoves = {}
    InitLists <- OneList
    InitFiles <- OneFile
    Served <- HalfFixed
    Periodic = TRUE
    DiskMayFail = FALSE
    MaxRequests = 2
PROPERTIES EngineCatchesUp HandlersReturn
