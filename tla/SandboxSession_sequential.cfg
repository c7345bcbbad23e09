SPECIFICATION Spec
CONSTANTS
    t1 = t1
    t2 = t2
    NoThread = NoThread
    Threads = {t1}
    MaxCalls = 4
    Ops = {"execute", "send_variables", "ping", "reset", "close"}
    Faults = {"crash", "stray", "spawn"}
    MaxCrashing = 4
    CustomWorkdir = FALSE
CHECK_DEADLOCK FALSE
INVARIANTS
    NoOrphan
    LiveWorkerHasWorkdir
    NoInternalError
    NothingLeftBehind
PROPERTY ImplementsView
