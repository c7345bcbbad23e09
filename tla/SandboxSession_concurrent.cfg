SPECIFICATION Spec
CONSTANTS
    t1 = t1
    t2 = t2
    NoThread = NoThread
    Threads = {t1, t2}
    MaxCalls = 3
    Ops = {"execute", "send_variables", "ping", "reset", "close"}
    Faults = {"crash"}
    MaxCrashing = 1
    CustomWorkdir = FALSE
CHECK_DEADLOCK FALSE
SYMMETRY Symmetry
INVARIANTS
    TypeOK
    AwaitsItsWorker
    ResultIsOwn
    AtMostOnce
    StartsOnlyWhenDetached
