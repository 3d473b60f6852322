SPECIFICATION SettlementSpec
CONSTANTS
    AppOps = {p1, p2}
    AppTurns = {a1}
    Requests = {r1, r2}
    NoAppOp = NoAppOp
    MaxCrashes = 1
    Faults = {"early", "scope", "persist", "crash"}
    Ops = {o1}
    Turns = {t1, w1}
    WorkerTurns = {w1}
    NoOp = NoOp
    NoTurn = NoTurn
    MaxBoots = 2
    Outside = {"resources", "admin", "listing"}
    LedgerFaults = {"backendRestart", "workerCrash", "ledgerError"}
    KSources = {k1, k2}
    KCalls = {call1, call2}
    MaxParts = 2
    MaxKRestarts = 1
SYMMETRY FrozenSymmetry
INVARIANTS
    SettlementTypeOK
    SucceededOnEvidence
    FailedIsKnown
    DeviceOnce
    StaleNeverRuns
    ResumedOnFinalEvidence
    
PROPERTIES
    FirstVerdictStands
CHECK_DEADLOCK FALSE
