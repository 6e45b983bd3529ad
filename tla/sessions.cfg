SPECIFICATION Spec
CONSTANTS
    Token = {k1, k2}
    k1 = k1
    k2 = k2
    Actor = {agent}
    agent = agent
    Task = {t1, t2}
    t1 = t1
    t2 = t2
    Owner <- MCOwner
    Mixes <- MCMixes
    CacheTTL = 1
    SessionTTL = 2
    Sliding = 1
    LookupTimeout = 1
    Attempts = 2
    MaxClock = 3
    MaxGen = 2
SYMMETRY Symmetry
INVARIANT WithinSession
INVARIANT ForgottenStayOut
INVARIANT LateRefused
INVARIANT EndedAreDropped
