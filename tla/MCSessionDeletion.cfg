SPECIFICATION SrecSpec
CONSTANTS
    SrecTurns = {s1}
    MaxDeletions = 1
    MaxUserSteps = 0
    MaxSrecFaults = 0
INVARIANT TombstoneForbids
CHECK_DEADLOCK FALSE
