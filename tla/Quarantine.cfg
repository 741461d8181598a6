SPECIFICATION Spec
CONSTANTS
    Jobs = {j1, j2}
    Commands = {o1}
    Contents = {c1, c2}
    None = None
INVARIANTS RightContent NothingLost
PROPERTIES LockedBeforeRemoved
CHECK_DEADLOCK FALSE
SYMMETRY Symmetry
