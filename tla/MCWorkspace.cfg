SPECIFICATION WorkspaceSpec
CONSTANTS
    AppOps = {o1, o2}
    AppTurns = {t1, t2}
    Requests = {r1, r2}
    NoAppOp = NoAppOp
    MaxCrashes = 0
    Faults = {}
    WfNodes = {1, 2, 3, 4}
    WfDeps <- NodeDeps
    WfReads = {1, 2, 4}
    WfFaults = {"cancel", "jobCancel", "delete", "die"}
    CandReviews = {q1, q2}
    CandFiles = {f1, f2}
    CandFaults = {"die", "disk", "edit"}
    MaxCandDeaths = 1
    MaxCandEdits = 1
    MemIds = {1, 2, 3}
    NoMem = NoMem
    MaxMemBreaks = 2
    FilePaths = {p1}
    FileBytes = {a, b}
    NoBytes = NoBytes
    MaxWrites = 2
    MaxRemovals = 1
    MaxFileFaults = 2
INVARIANTS
    WorkspaceTypeOK
    RunsInOrder
    PublishedIsReviewed PublicationIsReadBack
    ReferencedBytesKept
PROPERTIES
    ClosedSetIsClaimed ClaimedIsResumed
    CancelSticks
    ReviewStands
    NoneComesBack
