SPECIFICATION Spec
CONSTANTS
    VA = {va1, va2}
    va1 = va1
    va2 = va2
    NoVA = NoVA
    Human = Human
    Task = {t1, t2}
    t1 = t1
    t2 = t2
    Names = {{}, {va1}, {va2}}
    Endings = {"reply", "empty", "stop", "fail"}
    MaxPosts = 2
    MaxLog = 3
    MaxQueue = 1
SYMMETRY Symmetry
CHECK_DEADLOCK FALSE
INVARIANT SlotOwned
INVARIANT AnsweredOrMissed
