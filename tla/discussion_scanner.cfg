SPECIFICATION FairSpec
CONSTANTS
    Agent = {host, ann, bob}
    Creator = host
    Virtual = {}
    Guest = {ann, bob}
    Vote = {v1}
    Task = {t1, t2}
    NoAgent = NoAgent
    NoVote = NoVote
    Ops = {"join", "propose", "vote_status", "scan"}
    Kinds = {"general"}
    Rules = {"majority"}
    CloseIn = {}
    MaxDefers = 1
    Wait = 5
    DeferWait = 1
    StaleAge = 1
    MaxClock = 2
    CanFail = FALSE
    host = host
    ann = ann
    bob = bob
    v1 = v1
    t1 = t1
    t2 = t2
PROPERTY StaleVotesClose
