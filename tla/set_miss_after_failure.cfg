CONSTANTS
    t1 = t1
    Threads = {t1}
    Clearers = {}
    NoThread = NoThread
    Root = "schemas"
    TableSets = {}
    Names = {"r", "s"}
    NoName = ""
    Path = "cat"
    Alias = "cat"
    Catalogs = {"cat", "other"}
    Stable <- Kept
    Volatile <- Changing
    Unsupported = {}
    Replies = {"listing", "unreachable"}
    MaxCalls = 2
SPECIFICATION Spec
INVARIANTS ExistingIsFound
CHECK_DEADLOCK FALSE
