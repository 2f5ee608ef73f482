SPECIFICATION Spec
CONSTANTS
    Addr = {a1}
    Handlers = {}
    Calls = {"send"}
    IndexSpace = 4
    UidSpace = 4
    MaxConnects = 1
    MaxActions = 2
    MaxOut = 1
INVARIANTS
    EachActionRunsOnce
CHECK_DEADLOCK FALSE
