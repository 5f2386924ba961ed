------------------------------ MODULE PowerLoop ------------------------------
(* The control cycle with its watts and its hold timers, in a closed loop     *)
(* with the house: what the inverters are told to do changes what the meter   *)
(* shows next.  The grid reads and the control loop are two goroutines, so a  *)
(* cycle may act on a reading taken before the last write.                    *)
(* Time advances in ticks that no hold time is shorter than.  A tick is       *)
(* longer than the two read intervals after which a reading counts as stale,  *)
(* so each tick brings a reading.  Timers are ages that stop at their hold    *)
(* time; Unset is Go's zero time where the code asks for it.                  *)
(* Writes succeed here; SolarControl has their failures, the operator's       *)
(* commands and the interleavings between two writes.                         *)
EXTENDS PowerRates

CONSTANTS
    ExportStartW,         \* charge.export_start_w
    DeadBandExportW,      \* charge.dead_band_export_w
    DeadBandImportW,      \* charge.dead_band_import_w
    LegExportThresholdW,  \* night_guard.leg_export_threshold_w
    RampUpHold,           \* charge.ramp_up_hold_sec, in ticks
    AdjustHold,           \* 60 s between two adjustments of a discharge
    RampDownHold,         \* charge.ramp_down_hold_sec
    GuardHold,            \* 5 min after a step of the export guard
    SustainedHold,        \* 10 min of import that start a shave or stop a charge
    Surpluses,            \* sun minus household load, in W
    SOCs,                 \* the battery readings
    Phases                \* the times of day

ASSUME LoopConfig ==
    /\ ExportStartW \in Nat \ {0}
    /\ {DeadBandExportW, DeadBandImportW, LegExportThresholdW} \subseteq Nat
    /\ {RampUpHold, AdjustHold, RampDownHold, GuardHold, SustainedHold} \subseteq Nat \ {0}
    /\ Surpluses \subseteq Int
    /\ SOCs \subseteq [Inverters -> 0..100]
    \* day is the charge window; export is allowed by day and in the hours
    \* around it, and not by night.
    /\ Phases \subseteq {"day", "shoulder", "night"}

VARIABLES
    phase, surplus,       \* the wall clock and the house
    soc,                  \* bmsStatus: the last battery reading
    power,                \* what each inverter does: W into its battery
    grid,                 \* gridPower: the last reading
    state,
    currentChargeW, currentDischargeW, waitingForExport, dayDischarging,
    dayDischargeSince, starvationAt, lastRampAt,       \* timers of the day
    lastDischargeAdjust, exportGuardCap, exportGuardLeft, \* and of the night
    importFor             \* auxiliary: how long every control cycle of this day
                          \* has seen an import that justifies peak shaving

house   == <<phase, surplus>>
rates   == <<currentChargeW, currentDischargeW>>
dayTimers   == <<dayDischargeSince, starvationAt, lastRampAt>>
nightTimers == <<lastDischargeAdjust, exportGuardCap, exportGuardLeft>>
vars == <<house, soc, power, grid, state, rates, waitingForExport,
          dayDischarging, dayTimers, nightTimers, importFor>>

Unset == -1

\* lastRampAt serves the ramps of a charge and of a shave, each with its hold.
RampHold == Most(Most(RampUpHold, RampDownHold), AdjustHold)

Aged(age, hold) == IF age = Unset THEN Unset ELSE Least(age + 1, hold)

IsChargeWindow == phase = "day"
exportAllowed  == phase # "night"

\* What the meter would show now: import is positive.
Meter == Total(power) - surplus

exported(reading) == Most(-reading, 0)

exportW == exported(grid)

\* The meter after the first of the inverters were idled.
MeterIdled(upTo) == Total([i \in Inverters |-> IF i <= upTo THEN 0 ELSE power[i]]) - surplus

-------------------------------------------------------------------------------
(* Writes to the inverters                                                    *)

WriteChargeRates(perInvW)    == power' = balancedChargeRates(perInvW, soc)
WriteDischargeRates(perInvW) == power' = [i \in Inverters |-> -perInvW]
IdleAllInverters             == power' = [i \in Inverters |-> 0]

\* The keepalive writes powers but no modes, and skips a share that rounds to
\* nothing: such an inverter goes on with what it did, and an idle one is idle.
WriteChargeKeepalive(perInvW) ==
    LET shares == balancedChargeRates(perInvW, soc)
    IN  power' = [i \in Inverters |-> IF shares[i] > 0 /\ power[i] > 0
                                      THEN shares[i]
                                      ELSE power[i]]

\* NIGHT_DISCHARGE writes discharge or, at rate 0, idle: power 0 either way.

dayDischargeImportW == 2000
minDischargeSOC     == 20
minStartSOC         == 30
importStopW         == 500

-------------------------------------------------------------------------------
(* Entering a regime: applyCurrentState, and the SAFE mode                    *)

\* Mutant: the shave timer survives from the day before.
ApplyDayTimerKept ==
    /\ currentChargeW' = 0
    /\ waitingForExport' = TRUE
    /\ dayDischarging' = FALSE
    /\ IdleAllInverters
    /\ UNCHANGED <<currentDischargeW, dayTimers, nightTimers>>

ApplyDay ==
    /\ currentChargeW' = 0
    /\ waitingForExport' = TRUE
    /\ dayDischarging' = FALSE
    /\ dayDischargeSince' = Unset
    /\ IdleAllInverters
    /\ UNCHANGED <<currentDischargeW, starvationAt, lastRampAt, nightTimers>>

ApplyNight ==
    /\ currentDischargeW' = startDischargeW
    /\ lastDischargeAdjust' = Unset
    /\ WriteDischargeRates(startDischargeW)
    /\ UNCHANGED <<currentChargeW, waitingForExport, dayDischarging, dayTimers,
                   exportGuardCap, exportGuardLeft>>

Enter(s) ==
    /\ state' = s
    /\ IF s = "DAY_CHARGE" THEN ApplyDay ELSE ApplyNight
    /\ importFor' = Unset
    /\ UNCHANGED <<house, soc, grid>>

TooLowToDischarge == currentSOC(soc) > 0 /\ currentSOC(soc) < minStartSOC

\* The first half of a control cycle.  The second half then runs on the new
\* state, as a cycle with a usable reading: a cycle of its own here.
TimeTransition ==
    \/ /\ IsChargeWindow
       /\ state \in {"NIGHT_DISCHARGE", "STOPPED"}
       /\ Enter("DAY_CHARGE")
    \/ /\ ~IsChargeWindow
       /\ state = "DAY_CHARGE"
       /\ ~TooLowToDischarge
       /\ Enter("NIGHT_DISCHARGE")
    \/ /\ ~IsChargeWindow
       /\ state = "DAY_CHARGE"
       /\ TooLowToDischarge
       /\ state' = "STOPPED"
       /\ IdleAllInverters
       /\ importFor' = Unset
       /\ UNCHANGED <<house, soc, grid, rates, waitingForExport,
                      dayDischarging, dayTimers, nightTimers>>

\* readGrid after max_read_failures failures.
EnterSafeMode ==
    /\ state # "SAFE"
    /\ state' = "SAFE"
    /\ dayDischarging' = FALSE
    /\ dayDischargeSince' = Unset
    /\ importFor' = Unset
    /\ IdleAllInverters
    /\ UNCHANGED <<house, soc, grid, rates, waitingForExport,
                   starvationAt, lastRampAt, nightTimers>>

\* probeSafeModeRecovery: the state of the clock, whatever the meter does.
SafeModeRecovery ==
    /\ state = "SAFE"
    /\ Enter(IF IsChargeWindow THEN "DAY_CHARGE" ELSE "NIGHT_DISCHARGE")

Steady ==
    /\ \/ state = "DAY_CHARGE" /\ IsChargeWindow
       \/ state = "NIGHT_DISCHARGE" /\ ~IsChargeWindow
    /\ UNCHANGED <<house, soc>>

-------------------------------------------------------------------------------
(* runDayChargeLogic while peak shaving                                       *)

StopDayDischarge ==
    /\ dayDischarging' = FALSE
    /\ currentDischargeW' = 0
    /\ dayDischargeSince' = Unset

StopShaving ==
    /\ StopDayDischarge
    /\ waitingForExport' = TRUE
    /\ IdleAllInverters
    /\ UNCHANGED <<currentChargeW, starvationAt, lastRampAt, grid>>

\* It looks at the last reading itself, which may be a newer one than the cycle's.
StartCharging(readings) ==
    \E reading \in {grid} \cup readings :
        /\ grid' = reading
        /\ waitingForExport' = FALSE
        /\ currentChargeW' = StartRate(exported(reading), soc)
        /\ WriteChargeRates(currentChargeW')
        /\ lastRampAt' = 0

ShaveAt(dischargeW) ==
    /\ currentDischargeW' = dischargeW
    /\ WriteDischargeRates(dischargeW)
    /\ lastRampAt' = 0
    /\ UNCHANGED <<currentChargeW, waitingForExport, dayDischarging,
                   dayDischargeSince, starvationAt, grid>>

ShaveFloor == currentSOC(soc) > 0 /\ currentSOC(soc) <= minDischargeSOC

ShavedDown == DischargeDown(currentDischargeW, grid)

Shave ==
    /\ Steady
    /\ state = "DAY_CHARGE"
    /\ dayDischarging
    /\ \/ /\ exportW >= ExportStartW
          /\ StopDayDischarge
          /\ StartCharging({MeterIdled(upTo) : upTo \in 0..4})
          /\ UNCHANGED starvationAt
       \/ /\ exportW < ExportStartW
          /\ ShaveFloor
          /\ StopShaving
       \/ /\ exportW < ExportStartW
          /\ ~ShaveFloor
          /\ lastRampAt >= AdjustHold
          /\ \/ /\ grid > importCeil
                /\ currentDischargeW < MaxDischargePerInvW
                /\ ShaveAt(DischargeUp(currentDischargeW, grid, MaxDischargePerInvW))
             \/ /\ grid \in 1..(importFloor - 1)
                /\ ShavedDown > 0
                /\ ShaveAt(ShavedDown)
             \/ /\ grid < importFloor
                /\ grid <= 0 \/ ShavedDown = 0
                /\ StopShaving
    /\ UNCHANGED <<state, nightTimers, importFor>>

-------------------------------------------------------------------------------
(* runDayChargeLogic otherwise                                                *)

MayShave == waitingForExport \/ currentChargeW = 0

HighImport == MayShave /\ grid > dayDischargeImportW /\ currentSOC(soc) > minDischargeSOC

StartShaving == HighImport /\ dayDischargeSince = SustainedHold

\* The timer starts with the first cycle that sees a high import and is
\* cleared by the next that does not.
ShaveTimer ==
    /\ dayDischargeSince' = IF HighImport THEN Most(dayDischargeSince, 0) ELSE Unset
    /\ importFor' = IF HighImport THEN Most(importFor, 0) ELSE Unset

ShaveBegins ==
    /\ StartShaving
    /\ dayDischarging' = TRUE
    /\ currentDischargeW' = startDischargeW
    /\ currentChargeW' = 0
    /\ dayDischargeSince' = Unset
    /\ WriteDischargeRates(startDischargeW)
    /\ lastRampAt' = 0
    /\ importFor' = Unset
    /\ UNCHANGED <<waitingForExport, starvationAt, grid>>

Wait ==
    /\ ~StartShaving
    /\ waitingForExport
    /\ ShaveTimer
    /\ IF exportW >= ExportStartW
       THEN StartCharging({Meter})
       ELSE UNCHANGED <<waitingForExport, currentChargeW, power, lastRampAt, grid>>
    /\ UNCHANGED <<currentDischargeW, dayDischarging, starvationAt>>

\* The rate after the dead band check.
RampedW ==
    IF grid < -DeadBandExportW /\ lastRampAt >= RampUpHold
    THEN RampUpRate(currentChargeW, -grid, soc)
    ELSE IF grid > DeadBandImportW /\ lastRampAt >= RampDownHold
    THEN RampDownRate(currentChargeW, grid)
    ELSE currentChargeW

\* Mutant: the sign of the level is lost.
ImportingOrNearly == RampedW > 0 /\ grid > -importStopW

ImportingWhileCharging == RampedW > 0 /\ grid > importStopW

Starved == ImportingWhileCharging /\ starvationAt = SustainedHold

\* Mutant: the timer starts again with every cycle.
StarvationTimerRestarts ==
    starvationAt' = IF ImportingWhileCharging /\ ~Starved THEN 0 ELSE Unset

StarvationTimer ==
    starvationAt' = IF ImportingWhileCharging /\ ~Starved
                    THEN Most(starvationAt, 0)
                    ELSE Unset

Charge ==
    /\ ~StartShaving
    /\ ~waitingForExport
    /\ ShaveTimer
    /\ lastRampAt' = IF RampedW # currentChargeW THEN 0 ELSE lastRampAt
    /\ IF Starved
       THEN /\ currentChargeW' = 0
            /\ waitingForExport' = TRUE
            /\ IdleAllInverters
       ELSE /\ currentChargeW' = RampedW
            /\ IF RampedW # currentChargeW
               THEN WriteChargeRates(RampedW)
               ELSE UNCHANGED power
            /\ UNCHANGED waitingForExport
    /\ StarvationTimer
    /\ UNCHANGED <<currentDischargeW, dayDischarging, grid>>

Day ==
    /\ Steady
    /\ state = "DAY_CHARGE"
    /\ ~dayDischarging
    /\ ShaveBegins \/ Wait \/ Charge
    /\ UNCHANGED <<state, nightTimers>>

-------------------------------------------------------------------------------
(* runNightDischargeLogic                                                     *)

Depleted == currentSOC(soc) > 0 /\ currentSOC(soc) < minDischargeSOC

\* Mutant: stopped, but the inverters go on discharging.
LowSOCStopNotIdled ==
    /\ Depleted
    /\ state' = "STOPPED"
    /\ currentDischargeW' = 0
    /\ UNCHANGED <<power, nightTimers>>

LowSOCStop ==
    /\ Depleted
    /\ state' = "STOPPED"
    /\ currentDischargeW' = 0
    /\ IdleAllInverters
    /\ UNCHANGED nightTimers

Exporting == ~exportAllowed /\ grid < -LegExportThresholdW

DischargeAt(dischargeW) ==
    /\ currentDischargeW' = dischargeW
    /\ WriteDischargeRates(dischargeW)
    /\ lastDischargeAdjust' = 0

ExportGuard ==
    /\ ~Depleted
    /\ Exporting
    /\ DischargeAt(GuardDown(currentDischargeW, -grid))
    /\ exportGuardCap' = currentDischargeW'
    /\ exportGuardLeft' = GuardHold
    /\ UNCHANGED state

CapInForce == exportGuardCap > 0 /\ exportGuardLeft > 0

\* Mutant: the cap is kept but not applied.
NightMaxWUncapped == MaxDischargePerInvW

NightMaxW == IF CapInForce THEN exportGuardCap ELSE MaxDischargePerInvW

DischargeRamp ==
    /\ ~Depleted
    /\ ~Exporting
    /\ lastDischargeAdjust \in {Unset, AdjustHold}
    /\ exportGuardCap' = IF CapInForce THEN exportGuardCap ELSE 0
    /\ IF grid > importCeil /\ currentDischargeW < NightMaxW
       THEN DischargeAt(DischargeUp(currentDischargeW, grid, NightMaxW))
       ELSE IF grid < importFloor /\ currentDischargeW > 0
       THEN DischargeAt(DischargeDown(currentDischargeW, grid))
       ELSE /\ lastDischargeAdjust' = Most(lastDischargeAdjust, 0)
            /\ UNCHANGED <<currentDischargeW, power>>
    /\ UNCHANGED <<state, exportGuardLeft>>

Night ==
    /\ Steady
    /\ state = "NIGHT_DISCHARGE"
    /\ LowSOCStop \/ ExportGuard \/ DischargeRamp
    /\ UNCHANGED <<currentChargeW, waitingForExport, dayDischarging, dayTimers,
                   importFor, grid>>

ControlCycle == TimeTransition \/ Shave \/ Day \/ Night

-------------------------------------------------------------------------------
(* The other goroutines and the world                                         *)

ReadGrid ==
    /\ grid' = Meter
    /\ UNCHANGED <<house, soc, power, state, rates, waitingForExport,
                   dayDischarging, dayTimers, nightTimers, importFor>>

\* A charge is distributed by the SOC of the moment it is written; the
\* keepalive repeats it with the SOC of its own.
Keepalive ==
    /\ state = "DAY_CHARGE"
    /\ ~dayDischarging
    /\ currentChargeW > 0
    /\ WriteChargeKeepalive(currentChargeW)
    /\ UNCHANGED <<house, soc, grid, state, rates, waitingForExport,
                   dayDischarging, dayTimers, nightTimers, importFor>>

Tick ==
    /\ grid' = Meter
    /\ dayDischargeSince' = Aged(dayDischargeSince, SustainedHold)
    /\ starvationAt' = Aged(starvationAt, SustainedHold)
    /\ lastRampAt' = Aged(lastRampAt, RampHold)
    /\ lastDischargeAdjust' = Aged(lastDischargeAdjust, AdjustHold)
    /\ exportGuardLeft' = Most(exportGuardLeft - 1, 0)
    /\ importFor' = Aged(importFor, SustainedHold)
    /\ UNCHANGED <<house, soc, power, state, rates, waitingForExport,
                   dayDischarging, exportGuardCap>>

\* The house changes, and the next reading shows it.
House ==
    /\ \/ /\ surplus' \in Surpluses \ {surplus}
          /\ UNCHANGED phase
       \/ /\ phase' \in Phases \ {phase}
          /\ UNCHANGED surplus
    /\ grid' = Total(power) - surplus'
    /\ UNCHANGED <<soc, power, state, rates, waitingForExport,
                   dayDischarging, dayTimers, nightTimers, importFor>>

ReadBMS ==
    /\ soc' \in SOCs \ {soc}
    /\ UNCHANGED <<house, power, grid, state, rates, waitingForExport,
                   dayDischarging, dayTimers, nightTimers, importFor>>

\* Controller.Start has applied the state of the clock, before any reading.
Init ==
    /\ phase \in Phases
    /\ surplus \in Surpluses
    /\ soc = NoBMS
    /\ grid = 0
    /\ state = IF IsChargeWindow THEN "DAY_CHARGE" ELSE "NIGHT_DISCHARGE"
    /\ currentChargeW = 0
    /\ currentDischargeW = IF IsChargeWindow THEN 0 ELSE startDischargeW
    /\ power = [i \in Inverters |-> -currentDischargeW]
    /\ waitingForExport = IsChargeWindow
    /\ dayDischarging = FALSE
    /\ dayDischargeSince = Unset
    /\ starvationAt = Unset
    /\ lastRampAt = RampHold
    /\ lastDischargeAdjust = Unset
    /\ exportGuardCap = 0
    /\ exportGuardLeft = 0
    /\ importFor = Unset

Next ==
    \/ ControlCycle \/ ReadGrid \/ Keepalive \/ Tick
    \/ EnterSafeMode \/ SafeModeRecovery
    \/ House \/ ReadBMS

\* The loops' tickers fire for ever; a tick of the model spans several reads
\* and cycles.
Fairness == WF_vars(Tick) /\ WF_vars(ControlCycle)

Spec == Init /\ [][Next]_vars /\ Fairness

===============================================================================
