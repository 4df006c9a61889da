SPECIFICATION Spec
CONSTANTS
    Root = Root
    c1 = c1
    c2 = c2
    main = main
    x = x
    y = y
    Calls = {c1, c2}
    Flows = {main, x, y}
    Worlds <- MCWorlds
    Runs = 2
    Versions = 3
INVARIANTS ReadsBack CarriesOn
\* The runs are over, or killed.
CHECK_DEADLOCK FALSE
