SPECIFICATION FairSpec
CONSTANTS
    t1 = t1
    t2 = t2
    a = a
    b = b
    NoThread = NoThread
    Threads = {t1, t2}
    Ids = {a, b}
    MaxCalls = 4
CHECK_DEADLOCK FALSE
INVARIANTS
    TypeOK
    NoWorkerIsForgotten
PROPERTIES
    AtomicRegistry
    RegistryAnswers
