-------------------------- MODULE EpcRecovery_proofs --------------------------
(* Theorems about the recovery for any number of inverters and any times:     *)
(* types, the order of the attempts, of which there is never a third, the     *)
(* wait for a gateway that the loop has rebooted, and the units that a /cycle *)
(* holds in standby.                                                          *)
EXTENDS EpcRecoveryProps, TLAPS

LEMMA SleptIs ==
    /\ DOMAIN Slept = {"reboot stuck", "reboot lost", "reboot safe"}
    /\ Slept["reboot stuck"] = "restart"
    /\ Slept["reboot lost"] = "enter safe"
    /\ Slept["reboot safe"] = "select"
BY DEF Slept

\* Strengthening: as many exceptions in a row as the code allows are on their way to a reboot.
FailuresActedOn ==
    consecutiveWriteFail = MaxWriteFail =>
        pc \in {"reboot lost", "enter safe"} /\ state # "SAFE"

\* The types of what the controller keeps.
ControlTypes ==
    /\ state \in {"commanded", "quiet", "SAFE"}
    /\ epcStuckSince \in Unset..StuckHold
    /\ epcCycleCount \in 0..(MaxAttempts + 1)
    /\ lastCycleAt \in 0..RetryInterval
    /\ lastRebootAt \in 0..RebootRetryInterval
    /\ consecutiveWriteFail \in 0..MaxWriteFail
    /\ bms \in {"unknown", "power", "no power", "limit"}
    /\ lastBMSAt \in 0..(BMSMaxAge + 1)
    /\ due \subseteq {"bms", "keepalive"}
    /\ pc \in {"select", "clear", "note", "enter safe", "restart"} \cup DOMAIN Slept
    /\ left \in 0..RebootWait

\* The types of gateway and inverters.
PlantTypes ==
    /\ fault \in {"none", "alert", "epc", "xanbus"}
    /\ booting \in 0..BootTime
    /\ opmode \in [Units -> {"operating", "standby"}]
    /\ cycler \in [step : {"none", "standby", "operating"}, unit : Units]
    /\ rebootedBy \in {"nobody", "controller", "operator"}

\* The types of the auxiliary counts.
TriedTypes == clears \in 0..2 /\ failedClears \in 0..2

LEMMA TypesAre ==
    TypeOK <=> ControlTypes /\ PlantTypes /\ TriedTypes /\ stranded \in BOOLEAN
BY DEF TypeOK, ControlTypes, PlantTypes, TriedTypes

ControlInv == ControlTypes /\ FailuresActedOn

USE DEF timers, battery, gateway, cycling, loop, tried

\* The constants one by one, as the provers want them.
LEMMA HoldConfig == StuckHold \in Nat /\ StuckHold >= 1
BY RecoveryConfig

LEMMA RetryConfig == RetryInterval \in Nat /\ RebootRetryInterval \in Nat
BY RecoveryConfig

LEMMA WaitConfig == RebootWait \in Nat /\ BootTime \in Nat /\ BootTime <= RebootWait
BY RecoveryConfig

LEMMA AgeConfig == BMSMaxAge \in Nat
BY RecoveryConfig

LEMMA FailConfig == MaxWriteFail \in Nat /\ MaxWriteFail >= 1
BY RecoveryConfig

LEMMA AttemptConfig == MaxAttempts \in Nat /\ MaxAttempts >= 2
BY RecoveryConfig

LEMMA InitControl == Init => ControlInv
<1> SUFFICES ASSUME Init PROVE ControlInv
  OBVIOUS
<1>1. /\ epcStuckSince \in Unset..StuckHold
      /\ epcCycleCount \in 0..(MaxAttempts + 1)
      /\ lastCycleAt \in 0..RetryInterval
      /\ lastRebootAt \in 0..RebootRetryInterval
      /\ consecutiveWriteFail \in 0..MaxWriteFail
      /\ lastBMSAt \in 0..(BMSMaxAge + 1)
      /\ left \in 0..RebootWait
  BY HoldConfig, RetryConfig, WaitConfig, AgeConfig, FailConfig, AttemptConfig DEF Init, Unset
<1>2. /\ state \in {"commanded", "quiet", "SAFE"}
      /\ bms \in {"unknown", "power", "no power", "limit"}
      /\ due \subseteq {"bms", "keepalive"}
      /\ pc \in {"select", "clear", "note", "enter safe", "restart"} \cup DOMAIN Slept
  BY DEF Init
<1>3. FailuresActedOn
  BY FailConfig DEF Init, FailuresActedOn
<1> QED
  BY <1>1, <1>2, <1>3 DEF ControlInv, ControlTypes

LEMMA PcSet ==
    {"select", "clear", "note", "enter safe", "restart"} \cup DOMAIN Slept =
        {"select", "clear", "note", "enter safe", "restart",
         "reboot stuck", "reboot lost", "reboot safe"}
BY SleptIs

\* What the stuck check may change, and how far.
LEMMA CheckEffects ==
    ASSUME ControlInv, pc = "select", CheckEPCStuck
    PROVE  /\ epcStuckSince' \in Unset..StuckHold
           /\ epcCycleCount' \in 0..(MaxAttempts + 1)
           /\ lastCycleAt' \in 0..RetryInterval
           /\ pc' \in {"select", "clear"}
<1> DEFINE Effects == /\ epcStuckSince' \in Unset..StuckHold
                      /\ epcCycleCount' \in 0..(MaxAttempts + 1)
                      /\ lastCycleAt' \in 0..RetryInterval
                      /\ pc' \in {"select", "clear"}
           <1>1. /\ epcStuckSince \in Unset..StuckHold
      /\ epcCycleCount \in 0..(MaxAttempts + 1)
      /\ lastCycleAt \in 0..RetryInterval
  BY DEF ControlInv, ControlTypes
<1> SUFFICES Effects
  OBVIOUS
<1>2. CASE epcStuckSince' = Unset /\ epcCycleCount' = 0 /\ UNCHANGED <<lastCycleAt, pc>>
  BY <1>1, <1>2, HoldConfig, AttemptConfig DEF Unset
<1>3. CASE UNCHANGED <<timers, pc>>
  BY <1>1, <1>3
<1>4. CASE /\ epcStuckSince' = IF epcStuckSince = Unset THEN 0 ELSE epcStuckSince
           /\ UNCHANGED <<epcCycleCount, lastCycleAt, pc>>
  BY <1>1, <1>4, HoldConfig DEF Unset
<1>5. CASE /\ epcCycleCount' = IF epcCycleCount = MaxAttempts THEN MaxAttempts + 1
                               ELSE epcCycleCount
           /\ UNCHANGED <<epcStuckSince, lastCycleAt, pc>>
  BY <1>1, <1>5, AttemptConfig
<1>6. CASE /\ ~GivenUp
           /\ epcCycleCount' = epcCycleCount + 1
           /\ lastCycleAt' = 0
           /\ pc' = "clear"
           /\ UNCHANGED epcStuckSince
  BY <1>1, <1>6, RetryConfig, AttemptConfig DEF GivenUp
<1> HIDE DEF Effects
<1> QED
  BY <1>2, <1>3, <1>4, <1>5, <1>6 DEF CheckEPCStuck, ResetEPCStuck

LEMMA KeepaliveControl == ControlInv /\ KeepaliveWrites => ControlInv'
<1> SUFFICES ASSUME ControlInv, KeepaliveWrites PROVE ControlInv'
  OBVIOUS
<1>1. /\ pc = "select"
      /\ UNCHANGED <<state, lastRebootAt, bms, lastBMSAt, left>>
      /\ due' \subseteq due
  BY DEF KeepaliveWrites, Takes
<1>2. consecutiveWriteFail \in 0..(MaxWriteFail - 1)
  <2>1. consecutiveWriteFail \in 0..MaxWriteFail
    BY DEF ControlInv, ControlTypes
  <2>2. consecutiveWriteFail # MaxWriteFail
    BY <1>1 DEF ControlInv, FailuresActedOn
  <2> QED
    BY <2>1, <2>2, FailConfig
<1>3. CASE consecutiveWriteFail' = 0 /\ CheckEPCStuck
  <2>1. consecutiveWriteFail' \in 0..MaxWriteFail /\ consecutiveWriteFail' # MaxWriteFail
    <3>1. consecutiveWriteFail' = 0
      BY <1>3
    <3> QED
      BY <3>1, FailConfig
  <2>2. FailuresActedOn'
    BY <2>1 DEF FailuresActedOn
  <2> QED
    BY <1>1, <1>3, <2>1, <2>2, CheckEffects DEF ControlInv, ControlTypes
<1>4. CASE CountException3 /\ UNCHANGED timers
  <2>1. consecutiveWriteFail' = consecutiveWriteFail + 1
    BY <1>4 DEF CountException3
  <2>2. consecutiveWriteFail' \in 0..MaxWriteFail
    BY <1>2, <2>1, FailConfig
  <2>3. /\ pc' \in {"select", "reboot lost"}
        /\ consecutiveWriteFail' = MaxWriteFail => pc' = "reboot lost"
    <3>1. pc' = IF consecutiveWriteFail' >= MaxWriteFail THEN "reboot lost" ELSE "select"
      BY <1>1, <1>4 DEF CountException3
    <3>2. consecutiveWriteFail' = MaxWriteFail => consecutiveWriteFail' >= MaxWriteFail
      BY FailConfig
    <3> QED
      BY <3>1, <3>2
  <2>4. FailuresActedOn'
    BY <2>3, <1>1 DEF FailuresActedOn, KeepaliveWrites
  <2> QED
    BY <1>1, <1>4, <2>2, <2>3, <2>4, PcSet DEF ControlInv, ControlTypes
<1>5. CASE UNCHANGED <<consecutiveWriteFail, timers, pc>>
  BY <1>1, <1>2, <1>5 DEF FailuresActedOn, ControlInv, ControlTypes
<1> QED
  BY <1>3, <1>4, <1>5 DEF KeepaliveWrites

LEMMA OtherTickersControl ==
    ControlInv /\ (ReadBMS \/ KeepaliveQuiet \/ Probe) => ControlInv'
<1> SUFFICES ASSUME ControlInv, ReadBMS \/ KeepaliveQuiet \/ Probe PROVE ControlInv'
  OBVIOUS
<1>1. pc = "select" /\ due' \subseteq due
  BY DEF ReadBMS, KeepaliveQuiet, Probe, Takes
<1>2. consecutiveWriteFail # MaxWriteFail
  BY <1>1 DEF ControlInv, FailuresActedOn
<1>3. consecutiveWriteFail' \in {0, consecutiveWriteFail}
  BY DEF ReadBMS, KeepaliveQuiet, Probe
<1>4. consecutiveWriteFail' \in 0..MaxWriteFail /\ consecutiveWriteFail' # MaxWriteFail
  <2>1. consecutiveWriteFail \in 0..MaxWriteFail
    BY DEF ControlInv, ControlTypes
  <2> QED
    BY <1>2, <1>3, <2>1, FailConfig
<1>5. UNCHANGED <<timers, lastRebootAt, left>>
  BY DEF ReadBMS, KeepaliveQuiet, Probe
<1>6. /\ bms' \in {"unknown", "power", "no power", "limit"}
      /\ lastBMSAt' \in 0..(BMSMaxAge + 1)
  <2>1. bms' \in {"unknown", "power", "no power", "limit"}
    BY DEF ReadBMS, KeepaliveQuiet, Probe, ControlInv, ControlTypes
  <2>2. lastBMSAt' \in {0, lastBMSAt}
    BY DEF ReadBMS, KeepaliveQuiet, Probe
  <2>3. lastBMSAt \in 0..(BMSMaxAge + 1)
    BY DEF ControlInv, ControlTypes
  <2>4. lastBMSAt' \in 0..(BMSMaxAge + 1)
    BY <2>2, <2>3, AgeConfig
  <2> QED
    BY <2>1, <2>4
<1>7. pc' \in {"select", "reboot safe"}
  BY <1>1 DEF ReadBMS, KeepaliveQuiet, Probe
<1>8. state' \in {"commanded", "quiet", "SAFE"}
  BY DEF ReadBMS, KeepaliveQuiet, Probe, ControlInv, ControlTypes
<1> QED
  BY <1>1, <1>4, <1>5, <1>6, <1>7, <1>8, PcSet
  DEF ControlInv, ControlTypes, FailuresActedOn

LEMMA RestControl ==
    ASSUME ControlInv, ClearReturns \/ RebootSucceeds \/ RebootFails
    PROVE  ControlInv'
<1>1. UNCHANGED <<state, timers, consecutiveWriteFail, bms, lastBMSAt, due>>
  BY DEF ClearReturns, RebootSucceeds, RebootFails
<1>2. lastRebootAt' \in 0..RebootRetryInterval
  <2>1. lastRebootAt' \in {0, lastRebootAt}
    BY DEF ClearReturns, RebootSucceeds, RebootFails
  <2>2. lastRebootAt \in 0..RebootRetryInterval
    BY DEF ControlInv, ControlTypes
  <2> QED
    BY <2>1, <2>2, RetryConfig
<1>3. left' \in 0..RebootWait
  <2>1. left' \in {0, left, RebootWait}
    BY DEF ClearReturns, RebootSucceeds, RebootFails
  <2>2. left \in 0..RebootWait
    BY DEF ControlInv, ControlTypes
  <2> QED
    BY <2>1, <2>2, WaitConfig
<1>4. /\ pc' \in {"select", "reboot stuck", "restart", "enter safe", "note"}
      /\ pc = "reboot lost" => pc' = "enter safe"
      /\ pc # "enter safe"
  <2>1. CASE ClearReturns
    BY <2>1 DEF ClearReturns
  <2>2. CASE RebootSucceeds \/ RebootFails
    BY <2>2, SleptIs DEF RebootSucceeds, RebootFails
  <2> QED
    BY <2>1, <2>2
<1> QED
  BY <1>1, <1>2, <1>3, <1>4, PcSet DEF ControlInv, ControlTypes, FailuresActedOn

LEMMA AwakeControl ==
    ASSUME ControlInv, RebootNoted \/ LostGoesSafe \/ Restart
    PROVE  ControlInv'
<1>1. /\ UNCHANGED <<lastCycleAt, bms, lastBMSAt, due, left>>
      /\ pc' = "select"
      /\ lastRebootAt' \in {0, lastRebootAt}
  BY DEF RebootNoted, LostGoesSafe, Restart
<1>2. epcStuckSince' \in Unset..StuckHold
  <2>1. epcStuckSince' \in {Unset, epcStuckSince}
    BY DEF RebootNoted, LostGoesSafe, Restart, ResetEPCStuck
  <2>2. epcStuckSince \in Unset..StuckHold
    BY DEF ControlInv, ControlTypes
  <2> QED
    BY <2>1, <2>2, HoldConfig DEF Unset
<1>3. epcCycleCount' \in 0..(MaxAttempts + 1) /\ lastRebootAt' \in 0..RebootRetryInterval
  <2>1. epcCycleCount' \in {0, epcCycleCount}
    BY DEF RebootNoted, LostGoesSafe, Restart, ResetEPCStuck
  <2>2. epcCycleCount \in 0..(MaxAttempts + 1)
    BY DEF ControlInv, ControlTypes
  <2>3. epcCycleCount' \in 0..(MaxAttempts + 1)
    BY <2>1, <2>2, AttemptConfig
  <2>4. lastRebootAt \in 0..RebootRetryInterval
    BY DEF ControlInv, ControlTypes
  <2>5. lastRebootAt' \in 0..RebootRetryInterval
    BY <1>1, <2>4, RetryConfig
  <2> QED
    BY <2>3, <2>5
<1>4. state' \in {"commanded", "quiet", "SAFE"}
  BY DEF RebootNoted, LostGoesSafe, Restart, EnterSafe, Reapplied, ControlInv, ControlTypes
<1>5. consecutiveWriteFail' \in 0..MaxWriteFail /\ consecutiveWriteFail' # MaxWriteFail
  <2>1. consecutiveWriteFail \in 0..MaxWriteFail
    BY DEF ControlInv, ControlTypes
  <2>2. \/ consecutiveWriteFail' = 0
        \/ consecutiveWriteFail' = consecutiveWriteFail /\ consecutiveWriteFail # MaxWriteFail
    BY DEF RebootNoted, LostGoesSafe, Restart, EnterSafe, Awake, ControlInv, FailuresActedOn
  <2> QED
    BY <2>1, <2>2, FailConfig
<1> QED
  BY <1>1, <1>2, <1>3, <1>4, <1>5, PcSet DEF ControlInv, ControlTypes, FailuresActedOn

\* Nothing that the controller keeps for the recovery changes.
ControlKept ==
    UNCHANGED <<timers, lastRebootAt, consecutiveWriteFail, battery, loop>>

LEMMA CycleKeeps ==
    CycleInverters => ControlKept /\ UNCHANGED <<booting, rebootedBy, tried>>
BY DEF CycleInverters, ControlKept

LEMMA StateControl ==
    ASSUME ControlInv,
           LowSOCStop \/ RegimeChanges \/ MeterFails \/ CycleInverters
             \/ HandleReboot \/ HandleClear \/ Breaks \/ UNCHANGED vars
    PROVE  ControlInv'
<1>1. UNCHANGED <<lastCycleAt, lastRebootAt, bms, lastBMSAt, due, pc, left>>
  BY CycleKeeps DEF LowSOCStop, RegimeChanges, MeterFails, HandleReboot, HandleClear, Breaks,
     ControlKept, vars
<1>2. epcStuckSince' \in Unset..StuckHold
  <2>1. epcStuckSince' \in {Unset, epcStuckSince}
    BY CycleKeeps DEF LowSOCStop, RegimeChanges, MeterFails, HandleReboot, HandleClear, Breaks,
       ControlKept, vars, ResetEPCStuck
  <2>2. epcStuckSince \in Unset..StuckHold
    BY DEF ControlInv, ControlTypes
  <2> QED
    BY <2>1, <2>2, HoldConfig DEF Unset
<1>3. epcCycleCount' \in 0..(MaxAttempts + 1)
  <2>1. epcCycleCount' \in {0, epcCycleCount}
    BY CycleKeeps DEF LowSOCStop, RegimeChanges, MeterFails, HandleReboot, HandleClear, Breaks,
       ControlKept, vars, ResetEPCStuck
  <2>2. epcCycleCount \in 0..(MaxAttempts + 1)
    BY DEF ControlInv, ControlTypes
  <2> QED
    BY <2>1, <2>2, AttemptConfig
<1>4. consecutiveWriteFail' \in 0..MaxWriteFail
  <2>1. consecutiveWriteFail' \in {0, consecutiveWriteFail}
    BY CycleKeeps DEF LowSOCStop, RegimeChanges, MeterFails, HandleReboot, HandleClear, Breaks,
       ControlKept, vars, EnterSafe
  <2>2. consecutiveWriteFail \in 0..MaxWriteFail
    BY DEF ControlInv, ControlTypes
  <2> QED
    BY <2>1, <2>2, FailConfig
<1>5. state' \in {"commanded", "quiet", "SAFE"} /\ (state' = "SAFE" => state = "SAFE" \/ MeterFails)
  BY DEF LowSOCStop, RegimeChanges, MeterFails, HandleReboot, HandleClear, Breaks, EnterSafe,
     CycleInverters, HandleCycle, SetStandby, SetOperating, CycleFails, Reapplied, vars,
     ControlInv, ControlTypes
<1>6. FailuresActedOn'
  <2>1. 0 # MaxWriteFail
    BY FailConfig
  <2>2. CASE MeterFails
    <3>1. consecutiveWriteFail' = 0
      BY <2>2 DEF MeterFails, EnterSafe
    <3> QED
      BY <2>1, <3>1 DEF FailuresActedOn
  <2>3. CASE ~MeterFails
    <3>1. consecutiveWriteFail' = consecutiveWriteFail
      BY <2>3, CycleKeeps DEF LowSOCStop, RegimeChanges, HandleReboot, HandleClear, Breaks,
         ControlKept, vars
    <3> QED
      BY <1>1, <1>5, <2>3, <3>1 DEF FailuresActedOn, ControlInv
  <2> QED
    BY <2>2, <2>3
<1> QED
  BY <1>1, <1>2, <1>3, <1>4, <1>5, <1>6 DEF ControlInv, ControlTypes

\* Ages never pass the time that they are compared with.
LEMMA AgedFits ==
    ASSUME NEW age, NEW hold \in Nat, age \in Unset..hold
    PROVE  /\ Aged(age, hold) \in Unset..hold
           /\ age \in 0..hold => Aged(age, hold) \in 0..hold
<1>1. CASE age = Unset
  BY <1>1 DEF Aged, Unset
<1>2. CASE age \in 0..hold
  BY <1>2 DEF Aged, Unset, Least
<1> QED
  BY <1>1, <1>2 DEF Unset

LEMMA TickControl == ControlInv /\ Tick => ControlInv'
<1> SUFFICES ASSUME ControlInv, Tick PROVE ControlInv'
  OBVIOUS
<1>1. /\ UNCHANGED <<state, epcCycleCount, consecutiveWriteFail, bms, pc>>
      /\ due' = {"bms", "keepalive"}
  BY DEF Tick
<1>2. epcStuckSince' \in Unset..StuckHold
  <2>1. epcStuckSince \in Unset..StuckHold /\ epcStuckSince' = Aged(epcStuckSince, StuckHold)
    BY DEF ControlInv, ControlTypes, Tick
  <2> QED
    BY <2>1, AgedFits, HoldConfig
<1>3. lastCycleAt' \in 0..RetryInterval
  <2>1. lastCycleAt \in 0..RetryInterval /\ lastCycleAt' = Aged(lastCycleAt, RetryInterval)
    BY DEF ControlInv, ControlTypes, Tick
  <2>2. lastCycleAt \in Unset..RetryInterval
    BY <2>1 DEF Unset
  <2> QED
    BY <2>1, <2>2, AgedFits, RetryConfig
<1>4. lastRebootAt' \in 0..RebootRetryInterval
  <2>1. /\ lastRebootAt \in 0..RebootRetryInterval
        /\ lastRebootAt' = Aged(lastRebootAt, RebootRetryInterval)
    BY DEF ControlInv, ControlTypes, Tick
  <2>2. lastRebootAt \in Unset..RebootRetryInterval
    BY <2>1 DEF Unset
  <2> QED
    BY <2>1, <2>2, AgedFits, RetryConfig
<1>5. lastBMSAt' \in 0..(BMSMaxAge + 1)
  <2>1. lastBMSAt \in 0..(BMSMaxAge + 1) /\ lastBMSAt' = Aged(lastBMSAt, BMSMaxAge + 1)
    BY DEF ControlInv, ControlTypes, Tick
  <2>2. lastBMSAt \in Unset..(BMSMaxAge + 1)
    BY <2>1 DEF Unset
  <2>3. BMSMaxAge + 1 \in Nat
    BY AgeConfig
  <2> QED
    BY <2>1, <2>2, <2>3, AgedFits
<1>6. left' \in 0..RebootWait
  <2>1. left \in 0..RebootWait /\ left' = IF left = 0 THEN 0 ELSE left - 1
    BY DEF ControlInv, ControlTypes, Tick
  <2> QED
    BY <2>1, WaitConfig
<1>7. FailuresActedOn'
  BY <1>1 DEF FailuresActedOn, ControlInv
<1> QED
  BY <1>1, <1>2, <1>3, <1>4, <1>5, <1>6, <1>7 DEF ControlInv, ControlTypes

LEMMA NextControl == ControlInv /\ [Next]_vars => ControlInv'
BY KeepaliveControl, OtherTickersControl, RestControl, AwakeControl, StateControl, TickControl
DEF Next, ControlLoop

-------------------------------------------------------------------------------
(* Gateway and inverters                                                      *)

LEMMA OneUnit == 1 \in Units
BY RecoveryConfig DEF Units

LEMMA InitPlant == Init => PlantTypes
<1> SUFFICES ASSUME Init PROVE PlantTypes
  OBVIOUS
<1>1. booting \in 0..BootTime
  BY WaitConfig DEF Init
<1>2. cycler \in [step : {"none", "standby", "operating"}, unit : Units]
  BY OneUnit DEF Init, NoCycle, Step
<1>3. opmode \in [Units -> {"operating", "standby"}]
  BY DEF Init
<1> QED
  BY <1>1, <1>2, <1>3 DEF Init, PlantTypes

\* Where a /cycle goes from one unit to the next.
LEMMA NextUnitTyped ==
    ASSUME PlantTypes, cycler.step \in {"standby", "operating"}
    PROVE  /\ NextUnit(Step("operating", 1)) \in [step : {"none", "standby", "operating"}, unit : Units]
           /\ NextUnit(NoCycle) \in [step : {"none", "standby", "operating"}, unit : Units]
BY OneUnit DEF NextUnit, Step, NoCycle

LEMMA NextPlant == PlantTypes /\ [Next]_vars => PlantTypes'
<1> SUFFICES ASSUME PlantTypes, [Next]_vars PROVE PlantTypes'
  OBVIOUS
<1> USE DEF PlantTypes
<1>1. CASE ReadBMS \/ KeepaliveWrites \/ KeepaliveQuiet \/ Probe \/ RebootFails
           \/ RebootNoted \/ LostGoesSafe \/ Restart \/ LowSOCStop \/ RegimeChanges
           \/ MeterFails \/ UNCHANGED vars
  BY <1>1 DEF ReadBMS, KeepaliveWrites, KeepaliveQuiet, Probe, RebootFails, RebootNoted,
     LostGoesSafe, Restart, LowSOCStop, RegimeChanges, MeterFails, vars
<1>2. CASE ClearReturns \/ HandleClear
  BY <1>2 DEF ClearReturns, HandleClear, ClearsAlerts, AlertsCleared
<1>3. CASE RebootSucceeds \/ HandleReboot
  <2>1. booting' = BootTime /\ rebootedBy' \in {"controller", "operator"}
    BY <1>3 DEF RebootSucceeds, HandleReboot, Reboots
  <2>2. booting' \in 0..BootTime
    BY <2>1, WaitConfig
  <2>3. fault' \in {"none", "alert", "epc", "xanbus"}
    BY <1>3 DEF RebootSucceeds, HandleReboot, Reboots
  <2>4. UNCHANGED <<opmode, cycler>>
    BY <1>3 DEF RebootSucceeds, HandleReboot
  <2> QED
    BY <2>1, <2>2, <2>3, <2>4
<1>4. CASE CycleInverters
  <2>1. UNCHANGED <<booting, rebootedBy>>
    BY <1>4, CycleKeeps
  <2>2. fault' \in {"none", "alert", "epc", "xanbus"}
    BY <1>4 DEF CycleInverters, HandleCycle, SetStandby, SetOperating, CycleFails
  <2>3. opmode' \in [Units -> {"operating", "standby"}]
    BY <1>4 DEF CycleInverters, HandleCycle, SetStandby, SetOperating, CycleFails
  <2>4. cycler' \in [step : {"none", "standby", "operating"}, unit : Units]
    <3>1. CASE HandleCycle \/ CycleFails
      BY <3>1, OneUnit DEF HandleCycle, CycleFails, Step, NoCycle
    <3>2. CASE SetStandby \/ SetOperating
      BY <3>2, NextUnitTyped DEF SetStandby, SetOperating
    <3> QED
      BY <1>4, <3>1, <3>2 DEF CycleInverters
  <2> QED
    BY <2>1, <2>2, <2>3, <2>4
<1>5. CASE Breaks
  BY <1>5 DEF Breaks
<1>6. CASE Tick
  <2>1. booting \in 0..BootTime /\ booting' = IF booting = 0 THEN 0 ELSE booting - 1
    BY <1>6 DEF Tick
  <2>2. booting' \in 0..BootTime
    BY <2>1, WaitConfig
  <2>3. rebootedBy' \in {"nobody", "controller", "operator"}
    BY <1>6 DEF Tick
  <2> QED
    BY <1>6, <2>2, <2>3 DEF Tick
<1> QED
  BY <1>1, <1>2, <1>3, <1>4, <1>5, <1>6 DEF Next, ControlLoop

-------------------------------------------------------------------------------
(* There is no third attempt                                                  *)

\* Strengthening: while two attempts are counted, the second is under way, and
\* nothing but its own steps, which end in resetEPCStuck, moves the loop on.
InAttempt == pc \in {"clear", "reboot stuck", "restart"}

SecondUnderWay ==
    /\ epcCycleCount \in 0..2
    /\ epcCycleCount = 2 => InAttempt

LEMMA NextSecond ==
    ASSUME SecondUnderWay, [Next]_vars
    PROVE  SecondUnderWay'
<1>1. CASE UNCHANGED <<epcCycleCount, pc>>
  BY <1>1 DEF SecondUnderWay, InAttempt
<1>2. CASE UNCHANGED epcCycleCount /\ ~InAttempt
  BY <1>2 DEF SecondUnderWay
<1>3. CASE epcCycleCount' = 0
  BY <1>3 DEF SecondUnderWay
<1>4. CASE /\ pc = "select"
           /\ \/ CheckEPCStuck
              \/ UNCHANGED timers
  <2>1. epcCycleCount \in 0..1 /\ epcCycleCount # MaxAttempts
    <3>1. ~InAttempt
      BY <1>4 DEF InAttempt
    <3> QED
      BY <3>1, AttemptConfig DEF SecondUnderWay
  <2>2. CASE ResetEPCStuck
    BY <2>2, <1>3 DEF ResetEPCStuck
  <2>3. CASE UNCHANGED epcCycleCount
    BY <2>3, <1>2, <1>4 DEF InAttempt
  <2>4. CASE epcCycleCount' = epcCycleCount + 1 /\ pc' = "clear"
    <3>1. InAttempt'
      BY <2>4 DEF InAttempt
    <3> QED
      BY <2>1, <2>4, <3>1 DEF SecondUnderWay
  <2> QED
    BY <1>4, <2>1, <2>2, <2>3, <2>4 DEF CheckEPCStuck
<1>5. CASE ReadBMS \/ KeepaliveWrites \/ KeepaliveQuiet \/ Probe
  BY <1>5, <1>4, <1>1 DEF ReadBMS, KeepaliveWrites, KeepaliveQuiet, Probe, Takes
<1>6. CASE ClearReturns
  <2>1. UNCHANGED epcCycleCount
    BY <1>6 DEF ClearReturns
  <2>2. epcCycleCount # 1 => InAttempt'
    BY <1>6 DEF ClearReturns, InAttempt
  <2> QED
    BY <2>1, <2>2 DEF SecondUnderWay
<1>7. CASE RebootSucceeds \/ RebootFails
  <2>1. CASE pc = "reboot stuck"
    <3>1. UNCHANGED epcCycleCount /\ InAttempt'
      BY <1>7, <2>1, SleptIs DEF RebootSucceeds, RebootFails, InAttempt
    <3> QED
      BY <3>1 DEF SecondUnderWay
  <2>2. CASE pc \in {"reboot lost", "reboot safe"}
    <3>1. UNCHANGED epcCycleCount
      BY <1>7 DEF RebootSucceeds, RebootFails
    <3>2. ~InAttempt
      BY <2>2, Zenon DEF InAttempt
    <3> QED
      BY <3>1, <3>2, <1>2
  <2> QED
    BY <1>7, <2>1, <2>2, SleptIs DEF RebootSucceeds, RebootFails
<1>8. CASE RebootNoted \/ LostGoesSafe
  BY <1>8, <1>2 DEF RebootNoted, LostGoesSafe, Awake, InAttempt
<1>9. CASE Restart \/ LowSOCStop
  BY <1>9, <1>3 DEF Restart, LowSOCStop, ResetEPCStuck
<1>10. CASE RegimeChanges \/ MeterFails \/ HandleReboot \/ HandleClear \/ Breaks \/ Tick
            \/ UNCHANGED vars
  BY <1>10, <1>1 DEF RegimeChanges, MeterFails, HandleReboot, HandleClear, Breaks, Tick, vars
<1>11. CASE CycleInverters
  BY <1>11, <1>1, CycleKeeps DEF ControlKept
<1> QED
  BY <1>5, <1>6, <1>7, <1>8, <1>9, <1>10, <1>11 DEF Next, ControlLoop

\* The branch of checkEPCStuck that gives up and alerts is never reached by a
\* controller that may make three attempts or more: its second attempt always
\* ends by counting from none again.  README.md says the opposite; this is why
\* RetriesThreeTimes fails.
THEOREM GivingUpIsUnreachable == Spec => [](MaxAttempts >= 3 => ~GivenUp)
<1>1. Init => SecondUnderWay
  BY DEF Init, SecondUnderWay
<1>2. SecondUnderWay /\ [Next]_vars => SecondUnderWay'
  BY NextSecond
<1>3. SecondUnderWay => (MaxAttempts >= 3 => ~GivenUp)
  BY AttemptConfig DEF SecondUnderWay, GivenUp
<1> QED
  BY <1>1, <1>2, <1>3, PTL DEF Spec

-------------------------------------------------------------------------------
(* The order of the attempts                                                  *)

\* Strengthening: every attempt that has left "clear" has asked the gateway to
\* clear its alerts once, and has succeeded or failed.
AttemptsTried ==
    /\ clears \in Nat
    /\ failedClears \in Nat
    /\ pc = "clear" => epcCycleCount = clears + failedClears + 1
    /\ pc # "clear" => epcCycleCount = clears + failedClears

LEMMA CheckTried ==
    ASSUME SecondUnderWay, AttemptsTried, pc = "select", CheckEPCStuck
    PROVE  AttemptsTried'
<1>1. epcCycleCount # MaxAttempts
  <2>1. epcCycleCount # 2
    BY DEF SecondUnderWay, InAttempt
  <2> QED
    BY <2>1, AttemptConfig DEF SecondUnderWay
<1>2. CASE ResetEPCStuck /\ UNCHANGED pc
  BY <1>2 DEF ResetEPCStuck, AttemptsTried
<1>3. CASE UNCHANGED <<epcCycleCount, tried, pc>>
  BY <1>3 DEF AttemptsTried
<1>4. CASE epcCycleCount' = epcCycleCount + 1 /\ pc' = "clear" /\ UNCHANGED tried
  BY <1>4 DEF AttemptsTried
<1> QED
  BY <1>1, <1>2, <1>3, <1>4, Zenon DEF CheckEPCStuck, timers, tried

LEMMA NextTried ==
    ASSUME SecondUnderWay, AttemptsTried, [Next]_vars
    PROVE  AttemptsTried'
<1>1. CASE UNCHANGED <<epcCycleCount, tried, pc>>
  BY <1>1 DEF AttemptsTried
<1>2. CASE UNCHANGED <<epcCycleCount, tried>> /\ pc # "clear" /\ pc' # "clear"
  BY <1>2 DEF AttemptsTried
<1>3. CASE ResetEPCStuck /\ pc' # "clear"
  BY <1>3 DEF ResetEPCStuck, AttemptsTried
<1>4. CASE KeepaliveWrites
  <2>1. pc = "select"
    BY <1>4 DEF KeepaliveWrites, Takes
  <2>2. CASE CheckEPCStuck
    BY <2>1, <2>2, CheckTried
  <2>3. CASE CountException3 /\ UNCHANGED <<timers, tried>>
    BY <2>1, <2>3, <1>2 DEF CountException3
  <2>4. CASE UNCHANGED <<timers, tried, pc>>
    BY <2>4, <1>1
  <2> QED
    BY <1>4, <2>2, <2>3, <2>4 DEF KeepaliveWrites
<1>5. CASE ReadBMS \/ KeepaliveQuiet
  BY <1>5, <1>1 DEF ReadBMS, KeepaliveQuiet, Takes
<1>6. CASE Probe
  BY <1>6, <1>2 DEF Probe, Takes
<1>7. CASE ClearReturns
  <2>1. pc = "clear" /\ pc' # "clear" /\ UNCHANGED epcCycleCount
    BY <1>7 DEF ClearReturns
  <2>2. \/ clears' = clears + 1 /\ failedClears' = failedClears
        \/ failedClears' = failedClears + 1 /\ clears' = clears
    BY <1>7 DEF ClearReturns, AlertsCleared
  <2> QED
    BY <2>1, <2>2 DEF AttemptsTried
<1>8. CASE RebootSucceeds \/ RebootFails
  BY <1>8, <1>2, SleptIs DEF RebootSucceeds, RebootFails
<1>9. CASE RebootNoted \/ LostGoesSafe
  BY <1>9, <1>2 DEF RebootNoted, LostGoesSafe, Awake
<1>10. CASE Restart \/ LowSOCStop
  BY <1>10, <1>3 DEF Restart, LowSOCStop
<1>11. CASE RegimeChanges \/ MeterFails \/ HandleReboot \/ HandleClear \/ Breaks \/ Tick
            \/ UNCHANGED vars
  BY <1>11, <1>1 DEF RegimeChanges, MeterFails, HandleReboot, HandleClear, Breaks, Tick, vars
<1>12. CASE CycleInverters
  BY <1>12, <1>1, CycleKeeps DEF ControlKept
<1> QED
  BY <1>4, <1>5, <1>6, <1>7, <1>8, <1>9, <1>10, <1>11, <1>12 DEF Next, ControlLoop

LEMMA InitTried == Init => SecondUnderWay /\ AttemptsTried
BY DEF Init, SecondUnderWay, AttemptsTried

LEMMA TriedTyped == SecondUnderWay /\ AttemptsTried => TriedTypes
<1> SUFFICES ASSUME SecondUnderWay, AttemptsTried PROVE TriedTypes
  OBVIOUS
<1>1. clears \in Nat /\ failedClears \in Nat
  BY DEF AttemptsTried
<1>2. clears + failedClears <= 2
  BY <1>1 DEF SecondUnderWay, AttemptsTried
<1> QED
  BY <1>1, <1>2 DEF TriedTypes

LEMMA OnlySecond ==
    SecondUnderWay /\ AttemptsTried /\ pc = "clear" /\ epcCycleCount # 1 => epcCycleCount = 2
<1> SUFFICES ASSUME SecondUnderWay, AttemptsTried, pc = "clear", epcCycleCount # 1
             PROVE  epcCycleCount = 2
  OBVIOUS
<1>1. epcCycleCount \in 0..2
  BY DEF SecondUnderWay
<1>2. epcCycleCount >= 1
  BY DEF AttemptsTried
<1> QED
  BY <1>1, <1>2

\* A stuck recovery reboots the gateway in its second attempt only, after both
\* have asked it to clear its alerts: the counter of attempts and what has been
\* tried never come apart, whoever else clears, reboots or stops meanwhile.
THEOREM RebootComesLast == Spec => RebootIsLastResort
<1> DEFINE Inv == SecondUnderWay /\ AttemptsTried
<1>1. Init => Inv
  BY InitTried
<1>2. Inv /\ [Next]_vars => Inv'
  BY NextSecond, NextTried
<1>3. Inv /\ Inv' /\ [Next]_vars =>
        [pc # "reboot stuck" /\ pc' = "reboot stuck" => clears' + failedClears' = 2]_vars
  <2> SUFFICES ASSUME SecondUnderWay, AttemptsTried, AttemptsTried', Next,
                      pc # "reboot stuck", pc' = "reboot stuck"
               PROVE  clears' + failedClears' = 2
    OBVIOUS
  <2>1. ClearReturns
    BY SleptIs DEF Next, ControlLoop, ReadBMS, KeepaliveWrites, CheckEPCStuck, CountException3,
       KeepaliveQuiet, Probe, Takes, RebootSucceeds, RebootFails, RebootNoted, LostGoesSafe,
       Restart, LowSOCStop, RegimeChanges, MeterFails, HandleReboot, HandleClear,
       CycleInverters, loop, Breaks, Tick
  <2>2. pc = "clear" /\ epcCycleCount # 1 /\ epcCycleCount' = epcCycleCount
    BY <2>1 DEF ClearReturns
  <2>3. epcCycleCount = 2
    BY <2>2, OnlySecond
  <2>4. epcCycleCount' = clears' + failedClears'
    BY DEF AttemptsTried
  <2> QED
    BY <2>2, <2>3, <2>4
<1> QED
  BY <1>1, <1>2, <1>3, PTL DEF Spec, RebootIsLastResort

-------------------------------------------------------------------------------
(* The types                                                                  *)

LEMMA NextStranded == stranded \in BOOLEAN /\ [Next]_vars => stranded' \in BOOLEAN
<1> SUFFICES ASSUME stranded \in BOOLEAN, [Next]_vars PROVE stranded' \in BOOLEAN
  OBVIOUS
<1>1. CASE CycleInverters
  BY <1>1, Zenon DEF CycleInverters, HandleCycle, SetStandby, SetOperating, CycleFails
<1>2. CASE ~CycleInverters
  <2>1. UNCHANGED stranded
    BY <1>2, Zenon DEF Next, ControlLoop, ReadBMS, KeepaliveWrites,
       KeepaliveQuiet, Probe, ClearReturns, RebootSucceeds, RebootFails, RebootNoted,
       LostGoesSafe, Restart, LowSOCStop, RegimeChanges, MeterFails, HandleReboot,
       HandleClear, Breaks, Tick, vars
  <2> QED
    BY <2>1, Zenon
<1> QED
  BY <1>1, <1>2

\* Every variable keeps its type: no counter or timer of the recovery runs
\* away, for any number of inverters and any times.
THEOREM RecoveryTypes == Spec => []TypeOK
<1> DEFINE Counts == SecondUnderWay /\ AttemptsTried
           Inv == ControlInv /\ PlantTypes /\ Counts /\ stranded \in BOOLEAN
<1>1. Init => Inv
  <2>1. Init => stranded \in BOOLEAN
    BY DEF Init
  <2> QED
    BY <2>1, InitControl, InitPlant, InitTried
<1>2. Inv /\ [Next]_vars => Inv'
  BY NextControl, NextPlant, NextSecond, NextTried, NextStranded
<1>3. Inv => TypeOK
  BY TypesAre, TriedTyped DEF ControlInv
<1> QED
  BY <1>1, <1>2, <1>3, PTL DEF Spec

-------------------------------------------------------------------------------
(* The wait for a gateway that the loop has rebooted                          *)

LEMMA NextUndisturbed ==
    ASSUME PlantTypes, left \in 0..RebootWait, OwnBootUndisturbed, [Next]_vars
    PROVE  OwnBootUndisturbed'
<1> DEFINE Own == booting > 0 /\ rebootedBy = "controller"
<1>1. booting \in 0..BootTime
  BY DEF PlantTypes
<1>2. CASE UNCHANGED <<booting, rebootedBy>> /\ ~Own
  BY <1>2 DEF OwnBootUndisturbed
<1>3. CASE UNCHANGED <<booting, rebootedBy, pc, left>>
  BY <1>3 DEF OwnBootUndisturbed
<1>4. pc = "select" => ~Own
  BY DEF OwnBootUndisturbed
<1>5. pc \in {"clear", "reboot stuck", "reboot lost", "reboot safe"} => ~Own
  BY DEF OwnBootUndisturbed
<1>6. left = 0 => ~Own
  <2>1. Own => booting > 0 /\ booting <= left
    BY DEF OwnBootUndisturbed
  <2>2. booting > 0 => ~(booting <= 0)
    BY <1>1, WaitConfig
  <2> QED
    BY <2>1, <2>2
<1>7. CASE ReadBMS \/ KeepaliveWrites \/ KeepaliveQuiet \/ Probe
  BY <1>7, <1>4, <1>2 DEF ReadBMS, KeepaliveWrites, KeepaliveQuiet, Probe, Takes
<1>8. CASE ClearReturns \/ RebootFails
  BY <1>8, <1>5, <1>2, SleptIs DEF ClearReturns, RebootFails
<1>9. CASE RebootNoted \/ LostGoesSafe \/ Restart
  BY <1>9, <1>6, <1>2 DEF RebootNoted, LostGoesSafe, Restart, Awake
<1>10. CASE RebootSucceeds
  <2>1. left' = RebootWait /\ booting' = BootTime
    BY <1>10 DEF RebootSucceeds, Reboots
  <2>2. pc' \in {"note", "enter safe", "restart"}
    BY <1>10, SleptIs DEF RebootSucceeds
  <2>3. booting' <= left'
    BY <2>1, WaitConfig
  <2> QED
    BY <2>2, <2>3 DEF OwnBootUndisturbed
<1>11. CASE HandleReboot
  BY <1>11 DEF HandleReboot, Reboots, OwnBootUndisturbed
<1>12. CASE CycleInverters
  BY <1>12, <1>3, CycleKeeps DEF ControlKept
<1>13. CASE LowSOCStop \/ RegimeChanges \/ MeterFails \/ HandleClear \/ Breaks \/ UNCHANGED vars
  BY <1>13, <1>3 DEF LowSOCStop, RegimeChanges, MeterFails, HandleClear, Breaks, vars
<1>14. CASE Tick
  <2>1. SUFFICES ASSUME booting' > 0, rebootedBy' = "controller"
        PROVE  pc' \in {"note", "enter safe", "restart"} /\ booting' <= left'
    BY DEF OwnBootUndisturbed
  <2>2. booting # 0 /\ booting' = booting - 1
    BY <1>14, <2>1 DEF Tick
  <2>3. rebootedBy = "controller"
    BY <1>14, <2>1 DEF Tick
  <2>4. booting > 0
    BY <1>1, <2>2, WaitConfig
  <2>5. pc \in {"note", "enter safe", "restart"} /\ booting <= left
    BY <2>3, <2>4 DEF OwnBootUndisturbed
  <2>6. pc' = pc /\ left > 0 /\ left' = IF left = 0 THEN 0 ELSE left - 1
    BY <1>14, <2>5 DEF Tick
  <2>7. booting' <= left'
    <3>1. left' = left - 1
      BY <2>6, WaitConfig
    <3>2. booting <= left => booting - 1 <= left - 1
      BY <1>1, WaitConfig
    <3> QED
      BY <2>2, <2>5, <3>1, <3>2
  <2> QED
    BY <2>5, <2>6, <2>7
<1> QED
  BY <1>7, <1>8, <1>9, <1>10, <1>11, <1>12, <1>13, <1>14 DEF Next, ControlLoop

\* The loop leaves a gateway alone that it has rebooted, until it is back: the
\* sleep of every recovery outlasts the boot, and nothing cuts it short.
THEOREM OwnBootIsUndisturbed == Spec => []OwnBootUndisturbed
<1> DEFINE Inv == ControlInv /\ PlantTypes /\ OwnBootUndisturbed
<1>1. Init => Inv
  <2>1. Init => OwnBootUndisturbed
    BY DEF Init, OwnBootUndisturbed
  <2> QED
    BY <2>1, InitControl, InitPlant
<1>2. Inv /\ [Next]_vars => Inv'
  <2>1. ControlInv => left \in 0..RebootWait
    BY DEF ControlInv, ControlTypes
  <2> QED
    BY <2>1, NextControl, NextPlant, NextUndisturbed
<1>3. Inv => OwnBootUndisturbed
  OBVIOUS
<1> QED
  BY <1>1, <1>2, <1>3, PTL DEF Spec

-------------------------------------------------------------------------------
(* The units that a /cycle holds in standby                                   *)

\* Strengthening: the units that a /cycle has passed on its way back operate.
PassedOperate ==
    cycler.step = "operating" =>
        \A u \in Units : u < cycler.unit => opmode[u] = "operating"

LEMMA NextStandby ==
    ASSUME PlantTypes, StandbyOwned, PassedOperate, [Next]_vars
    PROVE  StandbyOwned' /\ PassedOperate'
<1>1. /\ cycler \in [step : {"none", "standby", "operating"}, unit : Units]
      /\ opmode \in [Units -> {"operating", "standby"}]
  BY DEF PlantTypes
<1>2. CASE UNCHANGED <<opmode, cycler, stranded>>
  BY <1>2 DEF StandbyOwned, PassedOperate
<1>3. CASE HandleCycle
  BY <1>3 DEF HandleCycle, StandbyOwned, PassedOperate, Step, NoCycle
<1>4. CASE SetStandby
  BY <1>1, <1>4 DEF SetStandby, NextUnit, StandbyOwned, PassedOperate, Step, NoCycle, Units
<1>5. CASE SetOperating
  <2>1. opmode' = [opmode EXCEPT ![cycler.unit] = "operating"]
    BY <1>5 DEF SetOperating
  <2>2. \A u \in Units : u < cycler.unit \/ u = cycler.unit => opmode'[u] = "operating"
    BY <1>1, <1>5, <2>1 DEF SetOperating, PassedOperate
  <2>3. CASE cycler.unit + 1 \in Units
    <3>1. cycler' = Step("operating", cycler.unit + 1)
      BY <1>5, <2>3 DEF SetOperating, NextUnit
    <3>2. \A u \in Units : u < cycler.unit + 1 => opmode'[u] = "operating"
      BY <1>1, <2>2 DEF Units
    <3> QED
      BY <3>1, <3>2 DEF StandbyOwned, PassedOperate, Step, NoCycle
  <2>4. CASE cycler.unit + 1 \notin Units
    <3>1. cycler' = NoCycle
      BY <1>5, <2>4 DEF SetOperating, NextUnit
    <3>2. \A u \in Units : u < cycler.unit \/ u = cycler.unit
      BY <1>1, <2>4, RecoveryConfig DEF Units
    <3>3. \A u \in Units : opmode'[u] = "operating"
      BY <2>2, <3>2
    <3> QED
      BY <3>1, <3>3 DEF StandbyOwned, PassedOperate, Step, NoCycle
  <2> QED
    BY <2>3, <2>4
<1>6. CASE CycleFails
  BY <1>6 DEF CycleFails, StandbyOwned, PassedOperate, Step, NoCycle
<1>7. CASE CycleInverters
  BY <1>7, <1>3, <1>4, <1>5, <1>6 DEF CycleInverters
<1>8. CASE ~CycleInverters
  <2>1. UNCHANGED <<opmode, cycler, stranded>>
    BY <1>8 DEF Next, ControlLoop, ReadBMS, KeepaliveWrites,
       KeepaliveQuiet, Probe, ClearReturns, RebootSucceeds, RebootFails, RebootNoted,
       LostGoesSafe, Restart, LowSOCStop, RegimeChanges, MeterFails, HandleReboot,
       HandleClear, Breaks, Tick, vars
  <2> QED
    BY <2>1, <1>2
<1> QED
  BY <1>7, <1>8

\* A unit in standby is always in the hands of a /cycle, or of one that has
\* failed: no interleaving with the recovery leaves a unit behind otherwise.
THEOREM StandbyIsOwned == Spec => []StandbyOwned
<1> DEFINE Inv == PlantTypes /\ StandbyOwned /\ PassedOperate
<1>1. Init => Inv
  <2>1. Init => StandbyOwned /\ PassedOperate
    BY DEF Init, StandbyOwned, PassedOperate, Units, NoCycle, Step
  <2> QED
    BY <2>1, InitPlant
<1>2. Inv /\ [Next]_vars => Inv'
  BY NextPlant, NextStandby
<1>3. Inv => StandbyOwned
  OBVIOUS
<1> QED
  BY <1>1, <1>2, <1>3, PTL DEF Spec

===============================================================================
