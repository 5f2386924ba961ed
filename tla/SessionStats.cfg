SPECIFICATION Spec
CONSTANTS
    RingSize = 3
    LongWindow = 4
    ShortWindow = 1
    MaxGap = 2
    Imports = {2}
    Exports = {3}
    MaxTime = 5
INVARIANTS PeaksAreRolling EnergyIsOfSession
