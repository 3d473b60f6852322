SPECIFICATION FairSpec
CONSTANTS
    AppOps = {o1}
    o1 = o1
    AppTurns = {t1}
    t1 = t1
    Requests = {r1}
    r1 = r1
    NoAppOp = NoAppOp
    MaxCrashes = 0
    Faults = {"early"}
PROPERTY ClosedSetIsClaimed
CHECK_DEADLOCK FALSE
