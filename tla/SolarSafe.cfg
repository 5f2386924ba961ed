SPECIFICATION LiveSpec
CONSTANTS
    N = 1
    MaxChargeW = 1
    MaxDischargeW = 1
    MaxReadFailures = 1
    MaxWriteFail = 1
    ZeroAllOnStart = FALSE
    Commands = {"stop", "cycle"}
    Events = {"meter"}
INVARIANT OneDirection
PROPERTY SafeRecovers
