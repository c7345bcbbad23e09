SPECIFICATION Spec
CONSTANTS
    c1 = c1
    c2 = c2
    Stdio = Stdio
    Nobody = Nobody
    Clients = {c1}
    Bodies <- FewBodies
    Flaws = {"json"}
    MaxSessions = 2
    MaxRequests = 2
CHECK_DEADLOCK FALSE
INVARIANT ServesUntilEof
