CONSTANTS
    t1 = t1
    t2 = t2
    Threads = {t1,t2}
    Clearers = {t1, t2}
    NoThread = NoThread
    Root = "schemas"
    TableSets = {}
    Names = {"r", "s"}
    NoName = ""
    Path = "cat"
    Alias = "cat"
    Catalogs = {"cat", "other"}
    Stable <- Kept
    Volatile <- Changing
    Unsupported = {}
    Replies = {"listing", "malformed", "rejected", "unreachable"}
    MaxCalls = 2
SPECIFICATION FairSpec
INVARIANTS LoadedIsComplete PointersOutliveLoads ScanMissesNothing LockOnlyForScans
PROPERTIES ReturnsOrAwaitsServer
CHECK_DEADLOCK FALSE
