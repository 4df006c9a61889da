SPECIFICATION Spec
CONSTANTS
    h1 = h1
    Holders = {h1}
    Profiles <- MCProfiles
    Silence = 2
    Grants = 1
    Goes = 2
    Hold = 2
INVARIANTS HandsOff NeverPassesForShort
PROPERTIES StuckEnds
CHECK_DEADLOCK FALSE
