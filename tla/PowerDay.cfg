SPECIFICATION Spec
CONSTANTS
    StartPerInvW = 600
    MaxPerInvW = 1000
    MaxTotalW = 3800
    MaxDischargePerInvW = 350
    ExportStartW = 1000
    DeadBandExportW = 1000
    DeadBandImportW = 2000
    LegExportThresholdW = 50
    RampUpHold = 1
    AdjustHold = 1
    RampDownHold = 1
    GuardHold = 1
    SustainedHold = 2
    Surpluses <- DaySurpluses
    SOCs <- DaySOCs
    Phases = {"day"}
INVARIANTS PowerInLimits
PROPERTIES RampKeepsSide SunIsUsed NoLastingImport
