SPECIFICATION Spec
CONSTANTS
    Regimes = {"DAY_CHARGE"}
    ChanCap = 2
    Hour = 1
    MaxUpdates = 2
    ControlKinds = {"failure"}
INVARIANTS TypeOK NoCommandLost NoCommandTwice
PROPERTIES OnceAnHourEach SafeIsTold ImplementsQueue
