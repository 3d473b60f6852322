SPECIFICATION Spec
CONSTANTS
    Workers = {w1, w2}
    Clients = {c1}
    Jobs = {j1}
    MaxRetries = 1
    MaxSubmissions = 2
    MaxAttempt = 1
    Faults = {}
INVARIANTS NoJobForgotten
SYMMETRY WorkerSymmetry
