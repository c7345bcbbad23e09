SPECIFICATION Spec
CONSTANTS
    MaxWhile = 2
    Authorized <- SomeAuthorized
    Similar <- SomeSimilar
    MaxOperations = 40
    MaxCalls = 1
    MaxLen = 2
    MaxDepth = 2
    MaxScopes = 10
INVARIANTS  BudgetOnlyCuts  LogsAreItsOwn ReadyAgain
CHECK_DEADLOCK FALSE
