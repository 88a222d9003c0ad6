SPECIFICATION DataSpec
CONSTANTS
    NULL = null
    Programs = {"list", "queue", "array", "calculator", "mode", "net"}
    Contacts = {a, b}
    Ids <- SomeIds
    Nodes = {1, 2, 3}
    Priorities = {0, 7, 255}
    Capacity = 4
    MaxIds = 6
    BINARY_OPS_MAX = 3
    Values = {0, 2, 3}
    MaxArgs = 3
    Kinds = {"six", "table", "loaded"}
    Numbers = {0, 7, 64, 755, 777, 789, 1755}
    Users = {"u", "a"}
    Accesses = {"r", "x"}
    MaxClauses = 2
    OctetBits = 1
    Octets = {0, 1, 2}
    Sent = {0, 2}
INVARIANTS TypesOK ListsRight 
PROPERTIES Books
CHECK_DEADLOCK FALSE
