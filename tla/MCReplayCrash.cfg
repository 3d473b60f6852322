SPECIFICATION FairSpec
CONSTANTS
  p1 = p1
  p2 = p2
  Procs = {p1, p2}
  Home = p1
  MaxFrames = 2
  MaxConns = 2
  MaxPumps = 1
  MaxCrashes = 1
  Faults = {"crash", "disk", "drop", "noAnswer", "listener"}
INVARIANTS TypeOK OneAnswer
PROPERTIES StreamSpec TurnIsClosed ClientFinishes
CHECK_DEADLOCK FALSE
