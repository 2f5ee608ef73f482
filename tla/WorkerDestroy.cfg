SPECIFICATION Spec
CONSTANTS
    Ids = {t1}
    MaxStarts = 1
INVARIANT NotDestroyedInUse
CHECK_DEADLOCK FALSE
