CONSTANTS
    r1 = r1
    r2 = r2
    Requests = {r1, r2}
    Urls = {"/a", "/ab", "/*"}
    CatchAll = "/*"
    PrefixLen <- MCPrefixLen
    StartsWith <- MCStartsWith
    Threads = {t1}
    MaxQueues = 1
    MaxStarts = 2
    MaxPendings = {0, 1}
SPECIFICATION Spec
INVARIANTS
    DeliveredOnce
    OneSender
    NoOrphanServer
    LongestPrefixWins
CHECK_DEADLOCK FALSE
