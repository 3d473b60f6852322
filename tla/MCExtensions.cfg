SPECIFICATION ExtensionSpec
CONSTANTS
    Workers = {w1}
    Clients = {c1}
    Jobs = {j1}
    MaxRetries = 1
    MaxSubmissions = 2
    MaxAttempt = 2
    Faults = {"apiCrash", "workerCrash", "restart", "lockTimeout", "redisError"}
    n1 = n1
    l1 = l1
    DrawNodes = {n1}
    DrawLinks = {l1}
    LinkEnds <- Ends
    FirstVal = "first"
    Gone = Gone
    UserSets <- UserValues
    AgentSets <- AgentValues
    HistoryLimit = 2
    UndoKept = 1
    DrawFaults = {"lost", "socket", "history", "pull", "readback"}
    MaxUserEdits = 2
    MaxAgentEdits = 1
    MaxClicks = 1
    MaxRestores = 1
    MaxDrawFaults = 1
    MaxDrawing = 3
    Ops = {o1, o2}
    Turns = {t1, t2}
    WorkerTurns = {}
    NoOp = NoOp
    NoTurn = NoTurn
    MaxBoots = 1
    Outside = {}
    LedgerFaults = {"backendRestart", "ledgerError"}
    SrecTurns = {s1}
    MaxDeletions = 2
    MaxUserSteps = 1
    MaxSrecFaults = 1
SYMMETRY ExtensionSymmetry
INVARIANTS
    ExtensionTypeOK
    RunsAtMostSubmissions
    BlockedNeverRan OwnerGone
    DeletedIsGone
PROPERTIES
    ChangesStay
    NothingOverwrittenUnseen
