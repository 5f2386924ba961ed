---------------------------- MODULE PowerLoopProps ----------------------------
(* What the closed loop of control cycle, inverters and house should do.      *)
EXTENDS PowerLoop

HighestChargeW    == Most(StartPerInvW, MaxPerInvW)
HighestDischargeW == Most(startDischargeW, MaxDischargePerInvW)

TypeOK ==
    /\ phase \in Phases
    /\ surplus \in Surpluses
    /\ soc \in SOCs \cup {NoBMS}
    /\ power \in [Inverters -> Int]
    /\ grid \in Int
    /\ state \in {"DAY_CHARGE", "NIGHT_DISCHARGE", "STOPPED", "SAFE"}
    /\ currentChargeW \in 0..HighestChargeW
    /\ currentDischargeW \in 0..HighestDischargeW
    /\ waitingForExport \in BOOLEAN
    /\ dayDischarging \in BOOLEAN
    /\ dayDischargeSince \in Unset..SustainedHold
    /\ starvationAt \in Unset..SustainedHold
    /\ lastRampAt \in 0..RampHold
    /\ lastDischargeAdjust \in Unset..AdjustHold
    /\ exportGuardCap \in 0..HighestDischargeW
    /\ exportGuardLeft \in 0..GuardHold
    /\ importFor \in Unset..SustainedHold

BatteryW == Total(power)

ChargeLimitW == Most(StartPerInvW * 4, MaxTotalW)

\* The weights of a distribution add up to at most 304: 1 for the fullest
\* inverter, up to 101 for each of the others.  A charge of fewer watts in all
\* may leave a share that rounds to nothing, and then the keepalive leaves that
\* inverter as it was while it rewrites the others.
RoundsAway ==
    state = "DAY_CHARGE" /\ ~dayDischarging /\ 4 * currentChargeW \in 1..303

EachInLimits == \A i \in Inverters : power[i] \in -HighestDischargeW..HighestChargeW

\* The inverters never do more than the configuration allows: each by charge
\* and by discharge, and all of them together by charge, whatever sequence of
\* ramps, regime changes, battery readings and keepalives led there.  The limit
\* of them all is the larger of max_total_w and four times the starting rate,
\* for the code does not hold the starting rate against max_total_w; and it is
\* not claimed for a charge so small that shares round to nothing.
PowerInLimits ==
    /\ EachInLimits
    /\ ~RoundsAway => BatteryW <= ChargeLimitW

\* Strengthening: so does the rate that the ramps start from.
RateInLimit == 4 * currentChargeW <= ChargeLimitW

\* Strengthening: by day the timer is what it should be.
TimerAgrees == state = "DAY_CHARGE" => importFor = dayDischargeSince

\* Strengthening: and off while a shave is under way.
ShavingUntimed ==
    dayDischarging => dayDischargeSince = Unset

PowerInv ==
    TypeOK /\ EachInLimits /\ RateInLimit /\ TimerAgrees /\ ShavingUntimed

\* Peak shaving begins only when every cycle of this day has seen a high
\* import for ten minutes: the timer never carries over from before a night,
\* a SAFE mode or a charge.
ShaveIsEarned ==
    [][~dayDischarging /\ dayDischarging' => importFor = SustainedHold]_vars

\* What the inverters do is what the recorded rates say: all of a discharge,
\* at most all of a charge, which caps and roundings of its distribution may
\* reduce, and nothing while stopped.  Of a charge so small that a share rounds
\* to nothing it says only that no inverter discharges.
PowerIsRecorded ==
    /\ state = "NIGHT_DISCHARGE" \/ (state = "DAY_CHARGE" /\ dayDischarging)
       => power = [i \in Inverters |-> -currentDischargeW]
    /\ state = "DAY_CHARGE" /\ ~dayDischarging
       => /\ \A i \in Inverters : power[i] >= 0
          /\ ~RoundsAway => BatteryW <= 4 * currentChargeW
    /\ state \in {"STOPPED", "SAFE"} => power = [i \in Inverters |-> 0]

\* While the export guard's cap is in force the discharge stays under it, or
\* under the rate that a discharge starts with: neither the ramp nor a SAFE mode
\* or a day in between takes it further.
CapHolds ==
    state = "NIGHT_DISCHARGE" /\ CapInForce
        => currentDischargeW <= Most(exportGuardCap, startDischargeW)

Ramps ==
    /\ UNCHANGED <<state, waitingForExport, dayDischarging>>
    /\ lastRampAt' # lastRampAt \/ lastDischargeAdjust' # lastDischargeAdjust

KeepsSide ==
    /\ BatteryW' < BatteryW /\ BatteryW <= 0 /\ grid > 0 => Meter' >= 0
    /\ BatteryW' > BatteryW /\ BatteryW > 0 /\ grid < 0
       /\ BatteryW = 4 * currentChargeW => Meter' <= 0
    /\ BatteryW' < BatteryW /\ BatteryW > 0 /\ grid > 0
       /\ BatteryW <= 4 * currentChargeW
       /\ BatteryW' = 4 * currentChargeW' /\ DeadBandImportW >= minTrimW + 3
       => Meter' >= 0

\* A ramp on a reading that is still true does not overshoot to the other side
\* of the meter: more discharge never turns import into export; more charge,
\* if the inverters did what was recorded, never turns export into import; and
\* less charge, of which nothing is lost to a limit, never turns import into
\* export, if the inverters did at most what was recorded and the dead band is
\* not narrower than the smallest trim, with its rounding.
RampKeepsSide ==
    [][grid = Meter /\ Ramps => KeepsSide]_vars

HouseSteady == <>[][UNCHANGED <<surplus, soc>>]_<<surplus, soc>>

Settled ==
    \/ Meter \in importFloor..importCeil
    \/ Meter > importCeil /\ currentDischargeW = HighestDischargeW
    \/ Meter < importFloor /\ currentDischargeW = 0

\* By night, with a steady house, the discharge ramp, the export guard and its
\* cap come to rest with the import in the band, or at a limit of the rate.
NightSettles ==
    HouseSteady /\ <>[](state = "NIGHT_DISCHARGE") => <>[]Settled

\* With a steady sun that carries the starting rate, the controller ends up
\* charging for good: no limit cycle of starting and starving.
SunIsUsed ==
    /\ HouseSteady
    /\ <>[](state = "DAY_CHARGE")
    /\ <>[](surplus >= 4 * StartPerInvW - importStopW)
    => <>[](BatteryW > 0)

\* The batteries are never charged from the grid for good: an import above the
\* stop level ends, by the ramp or by the starvation timer.
NoLastingImport ==
    [](BatteryW > 0 => <>(BatteryW <= 0 \/ Meter <= importStopW))

\* Charging begins when the sun exports: README.md:101 "Waits for grid export
\* > 1kW before starting (avoids false starts)".  An export that peak shaving
\* itself causes, when the load that it served goes away, counts as well.
StartsOnSun ==
    [][BatteryW <= 0 /\ BatteryW' > 0 /\ grid = Meter => surplus >= ExportStartW]_vars

===============================================================================
