SPECIFICATION Spec
CONSTANTS
    NumUnits = 2
    StuckHold = 1
    RetryInterval = 2
    RebootRetryInterval = 2
    RebootWait = 1
    BootTime = 1
    BMSMaxAge = 1
    MaxWriteFail = 2
    MaxAttempts = 3
INVARIANTS TypeOK  StandbyOwned
PROPERTIES RebootIsLastResort StuckRecovers SafeEnds
