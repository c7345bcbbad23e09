SPECIFICATION Spec
CONSTANTS
    t1 = t1
    t2 = t2
    NoThread = NoThread
    Threads = {t1, t2}
    MaxCalls = 3
    Ops = {"send_variables", "ping", "reset"}
    Faults = {"crash", "stray", "spawn", "big"}
    MaxCrashing = 3
    CustomWorkdir = FALSE
CHECK_DEADLOCK FALSE
SYMMETRY Symmetry
INVARIANTS
    NoOrphan
    LiveWorkerHasWorkdir
    NoInternalError
PROPERTY AtMostOnceCalls
