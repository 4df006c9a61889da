SPECIFICATION Spec
CONSTANTS
    s1 = s1
    s2 = s2
    Sessions = {s1, s2}
    Worlds <- MCWorlds
    Turns = 3
    Starts = 3
    Room = 2
    Asks = 1
INVARIANTS Routed NothingForgotten OneHome NobodyLeftWaiting
PROPERTIES OwnWords
CHECK_DEADLOCK FALSE
