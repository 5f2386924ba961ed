SPECIFICATION Spec
CONSTANTS
    N = 2
    MaxChargeW = 1
    MaxDischargeW = 1
    MaxReadFailures = 1
    MaxWriteFail = 1
    ZeroAllOnStart = TRUE
    Commands = {"stop"}
    Events = {}
INVARIANT StoppedIsIdle
