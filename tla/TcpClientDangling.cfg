SPECIFICATION Spec
CONSTANTS
    Addr = {a1}
    Handlers = {}
    Calls = {"send"}
    IndexSpace = 4
    UidSpace = 4
    MaxConnects = 1
    MaxActions = 1
    MaxOut = 1
INVARIANTS
    NoUseAfterFree
CHECK_DEADLOCK FALSE
