CONSTANTS
    t1 = t1
    t2 = t2
    Threads = {t1,t2}
    Clearers = {}
    NoThread = NoThread
    Root = "schemas"
    TableSets = {"s"}
    Names = {"s","v"}
    NoName = ""
    Path = "cat"
    Alias = "cat"
    Catalogs = {"cat", "other"}
    Stable <- Kept
    Volatile <- Changing
    Unsupported = {"v"}
    Replies = {"listing", "malformed", "rejected", "unreachable"}
    MaxCalls = 2
SPECIFICATION Spec
INVARIANTS TypeOK PointersStayValid ScanSeesOneState
PROPERTIES MissHasCause ImplementsContract
SYMMETRY ThreadSymmetry
CHECK_DEADLOCK FALSE
