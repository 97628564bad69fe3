CONSTANTS
    c1 = c1
    c2 = c2
    Connections = {c1, c2}
    a = a
    b = b
    Aliases = {a, b}
    SecretNames = {"__default_uc", "mine"}
    DefaultSecret = "__default_uc"
    NoName = ""
    NoSecret = NoSecret
    NullText = NullText
    Shapes <- MCShapes
    Schemas = {"s", "main"}
    Tables = {"t"}
    DefaultSchema = "main"
    OtherDatabases = {memory}
    memory = memory
    MaxStatements = 4
SPECIFICATION Spec
INVARIANTS CredentialsOfOneSecret DanglingNeedsClear ClearForgetsEverywhere
PROPERTIES ListedIsFound
SYMMETRY NameSymmetry
CHECK_DEADLOCK FALSE
