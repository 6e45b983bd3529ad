SPECIFICATION Spec
CONSTANTS
    Agent = {host, ann}
    Creator = host
    Virtual = {}
    Guest = {ann}
    Vote = {v1}
    Task = {t1, t2}
    NoAgent = NoAgent
    NoVote = NoVote
    Ops = {"join", "conclude", "status"}
    Kinds = {"general", "conclude"}
    Rules = {"unanimous"}
    CloseIn = {}
    MaxDefers = 1
    Wait = 1
    DeferWait = 1
    StaleAge = 1
    MaxClock = 1
    CanFail = FALSE
    host = host
    ann = ann
    v1 = v1
    t1 = t1
    t2 = t2
PROPERTY EndedNotActivated
