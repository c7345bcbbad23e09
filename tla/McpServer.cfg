SPECIFICATION FairSpec
CONSTANTS
    c1 = c1
    c2 = c2
    Stdio = Stdio
    Nobody = Nobody
    Clients = {c1, c2}
    Bodies <- SomeBodies
    Flaws = {"path", "accept", "json"}
    MaxSessions = 3
    MaxRequests = 3
CHECK_DEADLOCK FALSE
INVARIANTS
    TypeOK
    StoreIsAccountedFor
    ResponseNamesSession
    InitializedOnce
    RepliesMatch
PROPERTIES
    KeepsSessions
    PromptAnswers
