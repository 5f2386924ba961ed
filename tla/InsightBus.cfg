SPECIFICATION Spec
CONSTANTS
    Callers = {c1, c2}
    Units = {u1, u2}
    Values = {0, 1}
    Slots = {o1, o2}
    NoSlot = NoSlot
    MinGap = 1
    Events = {"drop", "reject", "late"}
PROPERTY GapKept
PROPERTY ImplementsBank
