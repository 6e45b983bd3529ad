SPECIFICATION Spec
CONSTANTS
    Agent = {host, ann, bob}
    Creator = host
    Virtual = {}
    Guest = {ann, bob}
    Vote = {v1}
    Task = {t1}
    NoAgent = NoAgent
    NoVote = NoVote
    Ops = {"join", "defer", "leave", "propose", "cast", "conclude", "status"}
    Kinds = {"general", "conclude"}
    Rules = {"unanimous"}
    CloseIn = {}
    MaxDefers = 1
    Wait = 1
    DeferWait = 1
    StaleAge = 1
    MaxClock = 2
    CanFail = FALSE
    host = host
    ann = ann
    bob = bob
    v1 = v1
    t1 = t1
SYMMETRY Symmetry
INVARIANT NobodyLeftIn
PROPERTY LifecycleSpec
