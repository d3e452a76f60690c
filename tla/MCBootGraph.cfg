CONSTANTS
    MaxConn = 2
    MaxRequests = 3
    Logs = {l1, l2}
    StoredLog = l1
    Empty = Empty
    Mixed = Mixed
    Registered = Registered
    Blank = Blank
SPECIFICATION GraphFairSpec
INVARIANTS
    TypeOK
    FanFollowsFlag
    OnlySilentRoutesHold
    GraphIsOfLog
    ChartsAgree
PROPERTIES
    RequestsServed
