SPECIFICATION Spec
CONSTANTS
    Agent = {host, ann}
    Creator = host
    Virtual = {ann}
    Guest = {}
    Vote = {v1}
    Task = {t1, t2}
    NoAgent = NoAgent
    NoVote = NoVote
    Ops = {"join", "leave", "propose", "cast", "va_cast"}
    Kinds = {"general", "conclude"}
    Rules = {"majority"}
    CloseIn = {1}
    MaxDefers = 1
    Wait = 5
    DeferWait = 1
    StaleAge = 1
    MaxClock = 1
    CanFail = FALSE
    host = host
    ann = ann
    v1 = v1
    t1 = t1
    t2 = t2
SYMMETRY Symmetry
INVARIANT NoStuckVote
INVARIANT AutoConcludeBacked
PROPERTY BallotsFinal
