SPECIFICATION Spec
CONSTANTS
    c1 = c1
    w1 = w1
    e1 = e1
    Calls = {c1}
    Writes = {w1}
    Execs = {e1}
    Readers = {e1}
    Worlds <- MCWorlds
    None = None
INVARIANTS ToldOnce NothingLeft
PROPERTIES AnsweredOnce LossIsTold
CHECK_DEADLOCK FALSE
