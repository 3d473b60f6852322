SPECIFICATION Spec
CONSTANTS
  p1 = p1
  p2 = p2
  Procs = {p1, p2}
  Home = p1
  MaxFrames = 1
  MaxConns = 2
  MaxPumps = 2
  MaxCrashes = 1
  Faults = {"slow", "drop", "again", "peerRestart", "cancel"}
INVARIANTS NoGap
CHECK_DEADLOCK FALSE
