SPECIFICATION DreamSpec
CONSTANTS
    Identity = {ann}
    Villager = {}
    Log = {l1}
    Run = {r1}
    NoRun = NoRun
    NoOne = NoOne
    Day = 1
    DreamMaxClock = 2
    DreamMaxFaults = 1
    Nights <- MCNights
CHECK_DEADLOCK FALSE
INVARIANT NoDaySkipped
