------------------------------ MODULE EpcRecovery ------------------------------
(* Recovery of the gateway and of inverters that accept commands and do not   *)
(* act on them: the keepalive with its exception 3 counter, the stuck check   *)
(* with its attempts, the SAFE probe with its reboots, the battery reading    *)
(* they rely on, and the gateway's REST calls, which the operator's commands  *)
(* make from goroutines of their own.                                         *)
(* A tick is a minute: the keepalive and the battery reading fall due once    *)
(* per tick.  Timers are ages that stop at the time they are compared with.   *)
(* What the controller commands, and when, is left open here.                 *)
EXTENDS Integers

CONSTANTS
    NumUnits,           \* how many inverters DEVLIST shows as active
    StuckHold,          \* 3 min without power before a recovery
    RetryInterval,      \* retryInterval, between two attempts
    RebootRetryInterval,\* rebootRetryInterval, in SAFE mode
    RebootWait,         \* rebootRecoveryWait, after a reboot
    BootTime,           \* how long the gateway is away after a reboot
    BMSMaxAge,          \* 5 min, after which the stuck check is blind
    MaxWriteFail,       \* maxWriteFail
    MaxAttempts         \* maxAttempts

ASSUME RecoveryConfig ==
    /\ {NumUnits, StuckHold, RetryInterval, RebootRetryInterval, RebootWait, BootTime,
        BMSMaxAge, MaxWriteFail} \subseteq Nat \ {0}
    /\ MaxAttempts \in Nat \ {0, 1}
    /\ BootTime <= RebootWait

VARIABLES
    state,           \* commanded: a regime with a rate; quiet: none; SAFE
    epcStuckSince, epcCycleCount, lastCycleAt, lastRebootAt,
    consecutiveWriteFail,
    bms, lastBMSAt,  \* what the last battery reading showed, and its age
    due,             \* the tickers of controlLoop that have fired
    pc, left,        \* where controlLoop is, and how long it still sleeps
    fault,           \* what is wrong with inverters or gateway
    booting,         \* how long the gateway is still away
    opmode, cycler,  \* CFG_OPMODE of each unit, and the goroutine of /cycle
    rebootedBy,      \* auxiliary: who has rebooted the gateway, while it boots
    clears, failedClears, \* auxiliary: the ClearAlerts of this episode that
                     \* went through, and those that failed
    stranded         \* auxiliary: a /cycle has failed half way

timers  == <<epcStuckSince, epcCycleCount, lastCycleAt>>
battery == <<bms, lastBMSAt>>
gateway == <<fault, booting, rebootedBy>>
cycling == <<opmode, cycler, stranded>>
tried   == <<clears, failedClears>>
loop    == <<due, pc, left>>
vars == <<state, timers, lastRebootAt, consecutiveWriteFail, battery, loop,
          gateway, cycling, tried>>

Units == 1..NumUnits

Unset == -1

Least(a, b) == IF a <= b THEN a ELSE b

Aged(age, hold) == IF age = Unset THEN Unset ELSE Least(age + 1, hold)

Up == booting = 0

\* Power flows when it is commanded and a unit acts on it.
Flowing ==
    /\ state = "commanded"
    /\ fault = "none"
    /\ \E u \in Units : opmode[u] = "operating"

-------------------------------------------------------------------------------
(* The REST calls, as the gateway carries them out                            *)

ClearsAlerts == fault' = IF fault = "alert" THEN "none" ELSE fault

Reboots(who) ==
    /\ booting' = BootTime
    /\ rebootedBy' = who
    /\ fault' = IF fault \in {"epc", "xanbus"} THEN "none" ELSE fault

-------------------------------------------------------------------------------
(* controlLoop                                                                *)

Takes(ticker) ==
    /\ pc = "select"
    /\ ticker \in due
    /\ due' = due \ {ticker}

ReadBMS ==
    /\ Takes("bms")
    /\ IF Up
       THEN /\ \/ bms' = IF Flowing THEN "power" ELSE "no power"
               \/ bms' = "limit"    \* full, or empty: no power is expected
            /\ lastBMSAt' = 0
       ELSE UNCHANGED battery
    /\ UNCHANGED <<state, timers, lastRebootAt, consecutiveWriteFail, pc, left,
                   gateway, cycling, tried>>

\* Mutant: the attempts of an episode are not forgotten with it.
ResetEPCStuckTimer ==
    /\ epcStuckSince' = Unset
    /\ clears' = 0 /\ failedClears' = 0
    /\ UNCHANGED epcCycleCount

ResetEPCStuck ==
    /\ epcStuckSince' = Unset
    /\ epcCycleCount' = 0
    /\ clears' = 0 /\ failedClears' = 0

Blind == bms = "unknown" \/ lastBMSAt > BMSMaxAge

GivenUp == epcCycleCount >= MaxAttempts

TooSoon == lastCycleAt < RetryInterval

\* checkEPCStuck, from a keepalive whose writes have all succeeded.
CheckEPCStuck ==
    \/ /\ Blind
       /\ UNCHANGED <<timers, tried, pc>>
    \/ /\ ~Blind
       /\ bms \in {"power", "limit"}
       /\ ResetEPCStuck
       /\ UNCHANGED <<lastCycleAt, pc>>
    \/ /\ ~Blind
       /\ bms = "no power"
       /\ epcStuckSince < StuckHold
       /\ epcStuckSince' = IF epcStuckSince = Unset THEN 0 ELSE epcStuckSince
       /\ UNCHANGED <<epcCycleCount, lastCycleAt, tried, pc>>
    \/ /\ ~Blind
       /\ bms = "no power"
       /\ epcStuckSince = StuckHold
       /\ GivenUp \/ TooSoon
       /\ epcCycleCount' = IF epcCycleCount = MaxAttempts THEN MaxAttempts + 1
                           ELSE epcCycleCount
       /\ UNCHANGED <<epcStuckSince, lastCycleAt, tried, pc>>
    \/ /\ ~Blind
       /\ bms = "no power"
       /\ epcStuckSince = StuckHold
       /\ ~GivenUp
       /\ ~TooSoon
       /\ epcCycleCount' = epcCycleCount + 1
       /\ lastCycleAt' = 0
       /\ pc' = "clear"
       /\ UNCHANGED <<epcStuckSince, tried>>

\* Mutant: one exception too many.
CountException3Late ==
    /\ consecutiveWriteFail' = consecutiveWriteFail + 1
    /\ pc' = IF consecutiveWriteFail' > MaxWriteFail THEN "reboot lost" ELSE pc

CountException3 ==
    /\ consecutiveWriteFail' = consecutiveWriteFail + 1
    /\ pc' = IF consecutiveWriteFail' >= MaxWriteFail THEN "reboot lost" ELSE pc

\* sendKeepalive in a regime with a rate: the writes succeed, are refused with
\* exception 3, or time out.
KeepaliveWrites ==
    /\ Takes("keepalive")
    /\ state = "commanded"
    /\ \/ /\ Up
          /\ fault # "xanbus"
          /\ consecutiveWriteFail' = 0
          /\ CheckEPCStuck
       \/ /\ Up
          /\ fault = "xanbus"
          /\ CountException3
          /\ UNCHANGED <<timers, tried>>
       \/ /\ ~Up
          /\ UNCHANGED <<consecutiveWriteFail, timers, tried, pc>>
    /\ UNCHANGED <<state, lastRebootAt, battery, left, gateway, cycling>>

\* sendKeepalive otherwise: DAY_CHARGE without a rate writes nothing and counts
\* that as success, STOPPED returns at once.
KeepaliveQuiet ==
    /\ Takes("keepalive")
    /\ state = "quiet"
    /\ consecutiveWriteFail' \in {0, consecutiveWriteFail}
    /\ UNCHANGED <<state, timers, lastRebootAt, battery, pc, left, gateway,
                   cycling, tried>>

\* applyCurrentState: by day it waits for export, by night it discharges.
Reapplied == IF state = "commanded" THEN {"quiet", "commanded"} ELSE {state}

\* Mutant: every failed probe counts as an attempt to reboot.
ProbeNotes ==
    /\ Takes("keepalive")
    /\ state = "SAFE"
    /\ \/ /\ Up
          /\ fault # "xanbus"
          /\ consecutiveWriteFail' = 0
          /\ state' \in {"quiet", "commanded"}
          /\ UNCHANGED <<pc, lastRebootAt>>
       \/ /\ ~Up \/ fault = "xanbus"
          /\ pc' = IF lastRebootAt = RebootRetryInterval THEN "reboot safe" ELSE pc
          /\ lastRebootAt' = 0
          /\ UNCHANGED <<consecutiveWriteFail, state>>
    /\ UNCHANGED <<timers, battery, left, gateway, cycling, tried>>

\* probeSafeModeRecovery
Probe ==
    /\ Takes("keepalive")
    /\ state = "SAFE"
    /\ \/ /\ Up
          /\ fault # "xanbus"
          /\ consecutiveWriteFail' = 0
          /\ state' \in {"quiet", "commanded"}
          /\ UNCHANGED pc
       \/ /\ ~Up \/ fault = "xanbus"
          /\ pc' = IF lastRebootAt = RebootRetryInterval THEN "reboot safe" ELSE pc
          /\ UNCHANGED <<consecutiveWriteFail, state>>
    /\ UNCHANGED <<timers, lastRebootAt, battery, left, gateway, cycling, tried>>

\* ClearAlerts of a recovery returns, having worked or not: an error is logged.
AlertsCleared ==
    \/ /\ Up
       /\ ClearsAlerts
       /\ clears' = clears + 1
       /\ UNCHANGED failedClears
    \/ /\ failedClears' = failedClears + 1
       /\ UNCHANGED <<fault, clears>>

\* Mutant: the first attempt ends by starting over.
ClearReturnsResets ==
    /\ pc = "clear"
    /\ (Up /\ ClearsAlerts) \/ UNCHANGED fault
    /\ IF epcCycleCount = 1
       THEN pc' = "select" /\ ResetEPCStuck
       ELSE pc' = "reboot stuck" /\ UNCHANGED <<epcStuckSince, epcCycleCount, tried>>
    /\ UNCHANGED <<state, lastCycleAt, lastRebootAt, consecutiveWriteFail, battery,
                   due, left, booting, rebootedBy, cycling>>

\* The first attempt ends here; the others idle the units and go on to reboot.
ClearReturns ==
    /\ pc = "clear"
    /\ AlertsCleared
    /\ pc' = IF epcCycleCount = 1 THEN "select" ELSE "reboot stuck"
    /\ UNCHANGED <<state, timers, lastRebootAt, consecutiveWriteFail, battery,
                   due, left, booting, rebootedBy, cycling>>

Slept == [p \in {"reboot stuck", "reboot lost", "reboot safe"} |->
            CASE p = "reboot stuck" -> "restart"
              [] p = "reboot lost"  -> "enter safe"
              [] p = "reboot safe"  -> "select"]

\* enterSafeMode as far as recovery is concerned.
EnterSafe ==
    /\ state' = "SAFE"
    /\ consecutiveWriteFail' = IF state = "SAFE" THEN consecutiveWriteFail ELSE 0

\* Mutant: the loop does not wait for the gateway.
RebootSucceedsNoWait ==
    /\ pc \in DOMAIN Slept
    /\ Up
    /\ Reboots("controller")
    /\ left' = 0
    /\ pc' = IF pc = "reboot safe" THEN "note" ELSE Slept[pc]
    /\ lastRebootAt' = IF pc = "reboot stuck" THEN 0 ELSE lastRebootAt
    /\ UNCHANGED <<state, timers, consecutiveWriteFail, battery, due, cycling, tried>>

\* Reboot succeeds, and the loop sleeps until the gateway should be back.
\* Only the stuck recovery notes the time before the sleep.
RebootSucceeds ==
    /\ pc \in DOMAIN Slept
    /\ Up
    /\ Reboots("controller")
    /\ left' = RebootWait
    /\ pc' = IF pc = "reboot safe" THEN "note" ELSE Slept[pc]
    /\ lastRebootAt' = IF pc = "reboot stuck" THEN 0 ELSE lastRebootAt
    /\ UNCHANGED <<state, timers, consecutiveWriteFail, battery, due, cycling, tried>>

\* Reboot returns an error.  The stuck recovery sleeps all the same.
RebootFails ==
    /\ pc \in DOMAIN Slept
    /\ lastRebootAt' = 0
    /\ pc' = Slept[pc]
    /\ left' = IF pc = "reboot stuck" THEN RebootWait ELSE 0
    /\ UNCHANGED <<state, timers, consecutiveWriteFail, battery, due, gateway,
                   cycling, tried>>

Awake(p) == pc = p /\ left = 0

RebootNoted ==
    /\ Awake("note")
    /\ lastRebootAt' = 0
    /\ pc' = "select"
    /\ UNCHANGED <<state, timers, consecutiveWriteFail, battery, due, left,
                   gateway, cycling, tried>>

LostGoesSafe ==
    /\ Awake("enter safe")
    /\ lastRebootAt' = 0
    /\ EnterSafe
    /\ pc' = "select"
    /\ UNCHANGED <<timers, battery, due, left, gateway, cycling, tried>>

Restart ==
    /\ Awake("restart")
    /\ state' \in Reapplied
    /\ ResetEPCStuck
    /\ pc' = "select"
    /\ UNCHANGED <<lastCycleAt, lastRebootAt, consecutiveWriteFail, battery, due,
                   left, gateway, cycling>>

\* The control cycle of runNightDischargeLogic that finds the batteries empty.
LowSOCStop ==
    /\ pc = "select"
    /\ state = "commanded"
    /\ state' = "quiet"
    /\ ResetEPCStuck
    /\ UNCHANGED <<lastCycleAt, lastRebootAt, consecutiveWriteFail, battery, loop,
                   gateway, cycling>>

-------------------------------------------------------------------------------
(* Other goroutines                                                           *)

\* Control cycles and operator commands change what is commanded.
RegimeChanges ==
    /\ state' \in {"commanded", "quiet"} \ {state}
    /\ UNCHANGED <<timers, lastRebootAt, consecutiveWriteFail, battery, loop,
                   gateway, cycling, tried>>

\* gridReadLoop: the meter has failed too often.
MeterFails ==
    /\ state # "SAFE"
    /\ EnterSafe
    /\ UNCHANGED <<timers, lastRebootAt, battery, loop, gateway, cycling, tried>>

\* The goroutines of /reboot and /clear.
HandleReboot ==
    /\ Up
    /\ Reboots("operator")
    /\ UNCHANGED <<state, timers, lastRebootAt, consecutiveWriteFail, battery,
                   loop, cycling, tried>>

HandleClear ==
    /\ Up
    /\ ClearsAlerts
    /\ UNCHANGED <<state, timers, lastRebootAt, consecutiveWriteFail, battery,
                   loop, booting, rebootedBy, cycling, tried>>

\* The goroutine of /cycle: CycleInverters, one call per unit and direction,
\* then applyCurrentState.  Any call may fail and ends it.
Step(what, u) == [step |-> what, unit |-> u]
NoCycle == Step("none", 1)

HandleCycle ==
    /\ cycler = NoCycle
    /\ Up
    /\ cycler' = Step("standby", 1)
    /\ UNCHANGED <<state, opmode, stranded, fault>>

NextUnit(next) ==
    IF cycler.unit + 1 \in Units THEN Step(cycler.step, cycler.unit + 1) ELSE next

SetStandby ==
    /\ cycler.step = "standby"
    /\ Up
    /\ opmode' = [opmode EXCEPT ![cycler.unit] = "standby"]
    /\ cycler' = NextUnit(Step("operating", 1))
    /\ UNCHANGED <<state, stranded, fault>>

\* Mutant: the last unit is left out.
SetOperatingShort ==
    /\ cycler.step = "operating"
    /\ Up
    /\ opmode' = [opmode EXCEPT ![cycler.unit] = "operating"]
    /\ cycler' = IF cycler.unit + 1 < NumUnits THEN Step("operating", cycler.unit + 1)
                 ELSE NoCycle
    /\ stranded' = (stranded /\ cycler' # NoCycle)
    /\ UNCHANGED <<state, fault>>

SetOperating ==
    /\ cycler.step = "operating"
    /\ Up
    /\ opmode' = [opmode EXCEPT ![cycler.unit] = "operating"]
    /\ cycler' = NextUnit(NoCycle)
    /\ stranded' = (stranded /\ cycler' # NoCycle)
    /\ IF cycler' = NoCycle
       THEN /\ state' \in Reapplied
            /\ fault' = IF fault = "epc" THEN "none" ELSE fault
       ELSE UNCHANGED <<state, fault>>

CycleFails ==
    /\ cycler # NoCycle
    /\ stranded' = (stranded \/ \E u \in Units : opmode[u] = "standby")
    /\ cycler' = NoCycle
    /\ UNCHANGED <<state, opmode, fault>>

CycleInverters ==
    /\ HandleCycle \/ SetStandby \/ SetOperating \/ CycleFails
    /\ UNCHANGED <<timers, lastRebootAt, consecutiveWriteFail, battery, loop,
                   booting, rebootedBy, tried>>

-------------------------------------------------------------------------------
(* The world                                                                  *)

Breaks ==
    /\ fault = "none"
    /\ fault' \in {"alert", "epc", "xanbus"}
    /\ UNCHANGED <<state, timers, lastRebootAt, consecutiveWriteFail, battery,
                   loop, booting, rebootedBy, cycling, tried>>

Tick ==
    /\ pc = "select" => due = {}
    /\ pc \notin {"clear"} \cup DOMAIN Slept
    /\ pc # "select" => left > 0
    /\ due' = {"bms", "keepalive"}
    /\ left' = IF left = 0 THEN 0 ELSE left - 1
    /\ booting' = IF booting = 0 THEN 0 ELSE booting - 1
    /\ rebootedBy' = IF booting' = 0 THEN "nobody" ELSE rebootedBy
    /\ epcStuckSince' = Aged(epcStuckSince, StuckHold)
    /\ lastCycleAt' = Aged(lastCycleAt, RetryInterval)
    /\ lastRebootAt' = Aged(lastRebootAt, RebootRetryInterval)
    /\ lastBMSAt' = Aged(lastBMSAt, BMSMaxAge + 1)
    /\ UNCHANGED <<state, epcCycleCount, consecutiveWriteFail, bms, pc, fault,
                   cycling, tried>>

Init ==
    /\ state \in {"commanded", "quiet"}
    /\ epcStuckSince = Unset
    /\ epcCycleCount = 0
    /\ lastCycleAt = RetryInterval           \* Go's zero time is long ago
    /\ lastRebootAt = RebootRetryInterval
    /\ consecutiveWriteFail = 0
    /\ bms = "unknown"
    /\ lastBMSAt = BMSMaxAge + 1
    /\ due = {}
    /\ pc = "select"
    /\ left = 0
    /\ fault = "none"
    /\ booting = 0
    /\ opmode = [u \in Units |-> "operating"]
    /\ cycler = NoCycle
    /\ rebootedBy = "nobody"
    /\ clears = 0 /\ failedClears = 0
    /\ stranded = FALSE

ControlLoop ==
    \/ ReadBMS \/ KeepaliveWrites \/ KeepaliveQuiet \/ Probe
    \/ ClearReturns \/ RebootSucceeds \/ RebootFails
    \/ RebootNoted \/ LostGoesSafe \/ Restart

Next ==
    \/ ControlLoop \/ LowSOCStop
    \/ RegimeChanges \/ MeterFails
    \/ HandleReboot \/ HandleClear \/ CycleInverters
    \/ Breaks \/ Tick

\* The loop is scheduled, and its REST calls succeed if they are made often
\* enough.
Fairness ==
    /\ WF_vars(Tick)
    /\ WF_vars(ControlLoop)
    /\ SF_vars(RebootSucceeds)
    /\ SF_vars(ClearReturns /\ fault' # "alert")

Spec == Init /\ [][Next]_vars /\ Fairness

===============================================================================
