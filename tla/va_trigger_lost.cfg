SPECIFICATION Spec
CONSTANTS
    VA = {va1}
    va1 = va1
    NoVA = NoVA
    Human = Human
    Task = {t1, t2}
    t1 = t1
    t2 = t2
    Names = {{}}
    Endings = {"reply"}
    MaxPosts = 2
    MaxLog = 3
    MaxQueue = 1
CHECK_DEADLOCK FALSE
PROPERTY MarksHonoured
