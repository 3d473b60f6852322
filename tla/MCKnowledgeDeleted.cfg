SPECIFICATION KnowledgeSpec
CONSTANTS
    KSources = {k1}
    KCalls = {call1}
    MaxParts = 2
    MaxKRestarts = 1
INVARIANT DeletedIsPurged
CHECK_DEADLOCK FALSE
