SPECIFICATION Spec
CONSTANTS
    p1 = p1
    p2 = p2
    Procs = {p1, p2}
    Pieces = 1
    Worlds <- MCWorlds
INVARIANTS Honest NeverLosesTrack
PROPERTIES Reported SignalsTravel
\* The agent goes, and the loop with it.
CHECK_DEADLOCK FALSE
