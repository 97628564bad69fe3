CONSTANTS
    c1 = c1
    Threads = {c1}
    Tables = {"lake"}
    Location <- MCLocation
    OtherFormats = {}
    NoName = ""
    NoSecret = NoSecret
    Replies = {"listing", "rejected"}
    MaxCalls = 2
SPECIFICATION Spec
INVARIANTS SecretsHoldCredentials
CHECK_DEADLOCK FALSE
