SPECIFICATION FairSpec
CONSTANTS
    t1 = t1
    t2 = t2
    NoThread = NoThread
    Threads = {t1}
    MaxCalls = 3
    Ops = {"execute"}
    Faults = {"big"}
    MaxCrashing = 3
    CustomWorkdir = FALSE
CHECK_DEADLOCK FALSE
PROPERTY EveryCallReturns
