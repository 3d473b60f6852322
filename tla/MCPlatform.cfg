SPECIFICATION PlatformSpec
CONSTANTS
    Workers = {w1, w2}
    Clients = {c1}
    Jobs = {j1}
    MaxRetries = 0
    MaxSubmissions = 1
    MaxAttempt = 3
    Faults = {"workerCrash", "redisError"}
    Ops = {o1}
    Turns = {lt1}
    WorkerTurns = {}
    NoOp = NoOp
    NoTurn = NoTurn
    MaxBoots = 2
    Outside = {"resources"}
    LedgerFaults = {"backendRestart"}
    SessionRequests = {r1, r2}
    SessionHandlers = {h1, h2}
    SocketHandlers = {h1}
    NoRequest = NoRequest
    MaxDisturbances = 1
    SessionFaults = {"cancel", "restart", "raise"}
    s1 = s1
    s2 = s2
    SubTasks = {s1, s2}
    SubPrereq <- SubDeps
    SubFaults = {"cancel", "again", "parent", "spawn", "restart"}
    MaxSubFaults = 2
    LoopGoals = {g1, g2}
    LoopWrites = {v1, v2}
    NoWrite = NoWrite
    LoopBounded = {TRUE, FALSE}
    MaxLoopCalls = 3
    LoopFaults = {"cancel", "environment", "archive"}
    TaskRuns = {t1, t2}
    NoRunId = NoRunId
    MaxCheckpoints = 2
    MaxTaskRestarts = 1
    TaskFaults = {"restart", "read", "disk"}
INVARIANTS
    PlatformTypeOK
    NoJobForgotten
    
    ExecutedOnce
    OutcomeIsEvidenced
    LogLeads
PROPERTIES
    EveryWaitEnds
    FirstTerminalStands
    RunOwnsTask
