CONSTANTS
    Proc = {p1, p2, p3}
    NULL = NULL
    MaxHeld = 2
SPECIFICATION MutexSpec
INVARIANTS MutualExclusion
PROPERTIES LockSpec
