SPECIFICATION CarryingSpec
CONSTANTS
    t1 = t1
    t2 = t2
    Terminals <- MCTerminals
    Askers <- MCAskers
    Draws = 2
    Room = 3
    Backlog = 3
    Keeps = 1
INVARIANTS InOrder Shown
PROPERTIES RunDraws
CHECK_DEADLOCK FALSE
