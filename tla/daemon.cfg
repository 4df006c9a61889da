SPECIFICATION Spec
CONSTANTS
    Procs = {p1, p2}
    Killers = {k1}
    None = None
INVARIANTS HeldIsFindable
PROPERTIES NeverTakesALiveSocket AbstractSpec StartSettles
\* Every call of start and kill is made once and answered: the system stops.
CHECK_DEADLOCK FALSE
