SPECIFICATION Spec
CONSTANTS
    StartPerInvW = 600
    MaxPerInvW = 1000
    MaxTotalW = 3800
    MaxDischargePerInvW = 1000
    ExportStartW = 1000
    DeadBandExportW = 1000
    DeadBandImportW = 2000
    LegExportThresholdW = 50
    RampUpHold = 1
    AdjustHold = 1
    RampDownHold = 1
    GuardHold = 2
    SustainedHold = 2
    Surpluses <- NightSurpluses
    SOCs <- NightSOCs
    Phases = {"night", "day"}
INVARIANTS TypeOK PowerIsRecorded CapHolds
PROPERTIES RampKeepsSide NightSettles ShaveIsEarned
