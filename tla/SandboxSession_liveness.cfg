SPECIFICATION FairSpec
CONSTANTS
    t1 = t1
    t2 = t2
    NoThread = NoThread
    Threads = {t1, t2}
    MaxCalls = 3
    Ops = {"execute", "reset"}
    Faults = {"spawn"}
    MaxCrashing = 3
    CustomWorkdir = TRUE
CHECK_DEADLOCK FALSE
PROPERTIES
    ImplementsView
    EveryCallReturns
    AtMostOnceCalls
    EndsWorkerForAReason
