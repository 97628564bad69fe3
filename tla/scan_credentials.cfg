CONSTANTS
    c1 = c1
    c2 = c2
    Threads = {c1, c2}
    Tables = {"lake", "part", "disk", "csv"}
    Location <- MCLocation
    OtherFormats = {"csv"}
    NoName = ""
    NoSecret = NoSecret
    Replies = {"listing", "malformed", "rejected", "unreachable"}
    MaxCalls = 2
SPECIFICATION Spec
INVARIANTS ReadersUseOwnCredentials SecretsBelong
SYMMETRY ThreadSymmetry
CHECK_DEADLOCK FALSE
