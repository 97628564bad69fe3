CONSTANTS
    t1 = t1
    t2 = t2
    Threads = {t1,t2}
    Clearers = {}
    NoThread = NoThread
    Root = "schemas"
    TableSets = {}
    Names = {"r", "s"}
    NoName = ""
    Path = "cat"
    Alias = "cat"
    Catalogs = {"cat", "other"}
    Stable <- Kept
    Volatile <- Changing
    Unsupported = {}
    Replies = {"listing"}
    MaxCalls = 1
SPECIFICATION Spec
INVARIANTS ExistingIsFound
CHECK_DEADLOCK FALSE
