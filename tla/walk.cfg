SPECIFICATION WalkSpec
CONSTANTS
    s1 = s1
    s2 = s2
    a = a
    b = b
    c = c
    Nowhere = Nowhere
    Sessions = {s1, s2}
    Accounts = {a, b, c}
    First = a
    Worlds <- MCWorlds
    Lengths = {0, 1}
    Beyond = 1
INVARIANTS WalkedAlone
PROPERTIES WalkEnds
CHECK_DEADLOCK FALSE
