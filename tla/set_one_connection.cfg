CONSTANTS
    t1 = t1
    Threads = {t1}
    Clearers = {t1}
    NoThread = NoThread
    Root = "schemas"
    TableSets = {"s"}
    Names = {"r", "s", "v"}
    NoName = ""
    Path = "cat"
    Alias = "cat"
    Catalogs = {"cat", "other"}
    Stable <- Kept
    Volatile <- Changing
    Unsupported = {"v"}
    Replies = {"listing", "malformed", "rejected", "unreachable"}
    MaxCalls = 3
SPECIFICATION Spec
INVARIANTS ClearForgets OneListingPerSet
PROPERTIES MissHasCause
CHECK_DEADLOCK FALSE
