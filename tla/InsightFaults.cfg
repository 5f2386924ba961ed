SPECIFICATION LiveSpec
CONSTANTS
    Callers = {c1, c2}
    Units = {u1, u2}
    Values = {0}
    Slots = {o1, o2}
    NoSlot = NoSlot
    MinGap = 1
    Events = {"drop", "reject", "refuse", "late"}
INVARIANT TypeOK
PROPERTY ReachesItsUnit
PROPERTY OperationsEnd
