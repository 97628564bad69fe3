CONSTANTS
    Threads = {"c1", "c2", "c3"}
    Addresses = {"a1", "a2", "a3"}
    NoThread = NoThread
    MaxTransactions = 4
SPECIFICATION FairSpec
INVARIANTS OpenIsOwned OnlyOpenIsOwned
PROPERTIES CallsReturn ImplementsContract
CHECK_DEADLOCK FALSE
