SPECIFICATION Spec
CONSTANTS
    Agent = {host, ann, bob}
    Creator = host
    Virtual = {ann, bob}
    Guest = {}
    Vote = {v1}
    Task = {t1}
    NoAgent = NoAgent
    NoVote = NoVote
    Ops = {"leave", "propose", "cast"}
    Kinds = {"general"}
    Rules = {"unanimous"}
    CloseIn = {}
    MaxDefers = 1
    Wait = 1
    DeferWait = 1
    StaleAge = 1
    MaxClock = 1
    CanFail = FALSE
    host = host
    ann = ann
    bob = bob
    v1 = v1
    t1 = t1
PROPERTY ClosedByAllJoined
