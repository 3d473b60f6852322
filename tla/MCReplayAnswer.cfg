SPECIFICATION Spec
CONSTANTS
  p1 = p1
  p2 = p2
  Procs = {p1, p2}
  Home = p1
  MaxFrames = 1
  MaxConns = 1
  MaxPumps = 0
  MaxCrashes = 0
  Faults = {"cancel"}
INVARIANTS OneAnswer
CHECK_DEADLOCK FALSE
