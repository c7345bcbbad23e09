SPECIFICATION Spec
CONSTANTS
    t1 = t1
    t2 = t2
    NoThread = NoThread
    Threads = {t1, t2}
    MaxCalls = 3
    Ops = {"execute"}
    Faults = {}
    MaxCrashing = 3
    CustomWorkdir = FALSE
CHECK_DEADLOCK FALSE
SYMMETRY Symmetry
INVARIANT ExecuteReturnsResult
