SPECIFICATION LiveSpec
CONSTANTS
    N = 1
    MaxChargeW = 1
    MaxDischargeW = 1
    MaxReadFailures = 1
    MaxWriteFail = 1
    ZeroAllOnStart = TRUE
    Commands = {"stop", "discharge"}
    Events = {"signal"}
INVARIANT ExitIdle
PROPERTY ShutdownCompletes
PROPERTY WindowWins
