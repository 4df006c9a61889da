CONSTANTS
    tight = tight
    loose = loose
    plain = plain
    nested = nested
    left = left
    right = right
    Root = Root
    None = None
    Calls = {tight, loose, plain, nested}
    Agents = {left, right}
    Drives <- MCDrives
    Rung <- MCRung
    Brings = {tight, loose}
    Inherits = {loose}
    Loosest = 1
    Deepest = 3
SPECIFICATION Spec
INVARIANTS HandedBack NeverFiledUnderASibling
PROPERTIES SettledUnderTheCaller FiledUnderWhoCalled
\* Every call is made once: the run ends.
CHECK_DEADLOCK FALSE
