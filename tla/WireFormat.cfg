SPECIFICATION Spec
CONSTANTS
    Names <- SomeNames
    NonFinite <- SomeNonFinite
    TooLong <- SomeTooLong
    Values <- SomeValues
    Depth = 2
    MaxTrips = 3
CHECK_DEADLOCK FALSE
INVARIANTS
    Survives
    WireIsJson
    ClientCanDecode
