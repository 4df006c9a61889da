CONSTANTS
    h1 = h1
    s1 = s1
    c1 = c1
    timer = timer
    Cutters = {h1}
    Clock = timer
    Stoppers = {s1}
    Closers = {c1}
    HasStandIn = TRUE
    Worlds <- MCWorlds
    Offered <- OneBudget
    Turns = 2
    Tries = 2
    None = None
SPECIFICATION Spec
INVARIANTS StillMounted OneMoreAtMost CutReaches NothingStaysMounted
PROPERTIES CutSettles
\* A flow takes its turns and stops.
CHECK_DEADLOCK FALSE
