----------------------------- MODULE SolarControl -----------------------------
(* The supervisor of solarcontrol: the controller struct, the regime that its *)
(* StateManager holds, and the goroutines that act on both with no lock held  *)
(* across a handler.  Processes:                                              *)
(*   main  main(): zero the units, Controller.Start, wait for a signal, Stop  *)
(*   grid  gridReadLoop: readGrid, and SAFE after repeated failures           *)
(*   ctl   controlLoop: runControlCycle and sendKeepalive                     *)
(*   tg    the bot's poll loop, which runs the command handlers               *)
(*   cyc   the goroutine that HandleCycle starts and nobody waits for         *)
(* A handler's code between two blocking calls is one step; every write to an *)
(* inverter is a step of its own, so other goroutines run in between.         *)
(* Powers are counted in steps of 300 W (manual_step_w), rounded up: 0 is off *)
(* and 1 is the rate a discharge starts with.  Grid power, SOC and the hold   *)
(* timers only decide which branch a handler takes, and here any branch they  *)
(* can select is possible.  NIGHT_REDUCED is left out: no transition of the   *)
(* code leads to it.                                                          *)
EXTENDS Integers

CONSTANTS
    N,                \* number of inverters; unit 1 is the master
    MaxChargeW,       \* charge.max_per_inv_w, in steps
    MaxDischargeW,    \* discharge.max_per_inv_w, in steps
    MaxReadFailures,  \* safety.max_read_failures
    MaxWriteFail,     \* maxWriteFail of sendKeepalive
    ZeroAllOnStart,   \* startup.zero_all_on_start
    Commands,         \* the operator commands that may arrive
    Events            \* what else may happen, see below

ASSUME SizesAssumption ==
    /\ N \in Nat \ {0}
    /\ MaxChargeW \in Nat \ {0}
    /\ MaxDischargeW \in Nat \ {0}
    /\ MaxReadFailures \in Nat \ {0}
    /\ MaxWriteFail \in Nat \ {0}
    /\ ZeroAllOnStart \in BOOLEAN

ASSUME ScenarioAssumption ==
    /\ Commands \subseteq {"stop", "start", "up", "down", "charge", "discharge", "cycle"}
    \* fail: a write is not applied; lost: it is applied and its answer is lost;
    \* exc3: a keepalive is refused with Modbus exception 3; stuck: the battery
    \* shows no power; meter: a WattNode read fails; signal: SIGTERM; crash.
    /\ Events \subseteq {"fail", "lost", "exc3", "stuck", "meter", "signal", "crash"}

VARIABLES
    phase,   \* of the process: starting, running, draining (in Stop), exited
    window,  \* the wall clock is within the charge window
    \* The StateManager's current state, and the fields of the Controller.
    state, currentChargeW, currentDischargeW, waitingForExport, dayDischarging,
    manualOverride, manualOverrideInDay, manualStopped,
    consecutiveFail, consecutiveWriteFail,
    mode,    \* the EPC mode register of each inverter
    pc,      \* where each goroutine is
    job,     \* the bus operation each goroutine performs,
    at,      \* the next unit it writes to,
    failed,  \* and whether one of its writes has failed
    alone,   \* auxiliary: the handler that runs has overlapped with no other
    trust,   \* auxiliary: since the last complete command to all inverters
             \* no handler has overlapped with another and no write has failed
    misrated \* auxiliary: trust holds, but since that command /up or /down has
             \* set a charge rate while peak shaving was on

rates  == <<currentChargeW, currentDischargeW>>
day    == <<waitingForExport, dayDischarging>>
manual == <<manualOverride, manualOverrideInDay, manualStopped>>
fails  == <<consecutiveFail, consecutiveWriteFail>>
fields == <<state, rates, day, manual, fails>>
place  == <<pc, job, at, failed>>
outer  == <<phase, window, mode>>
ghosts == <<alone, trust, misrated>>
vars   == <<outer, fields, place, ghosts>>

Units == 1..N
Procs == {"main", "grid", "ctl", "tg", "cyc"}
Loops == {"grid", "ctl", "tg"}

States == {"IDLE", "DAY_CHARGE", "NIGHT_DISCHARGE", "STOPPED", "SAFE"}
Modes  == {"idle", "charge", "discharge"}

PcSet == {"idle", "stopped", "toDay", "toNight", "toStopped", "act", "apply",
          "write", "keepalive", "reboot", "starve", "cycling"}

Ops == {"none", "idle", "charge", "discharge", "probe"}

Thens == {"done", "start", "run", "exit", "act", "rampTo", "startCharging", "lowSOC",
          "setCharge", "setDischarge", "recover", "standby", "reapply"}

(* A bus operation: what is written (op, w) and how the handler goes on.      *)
JobType == [op: Ops, w: Nat, then: Thens]

Bus(op, w, then) == [op |-> op, w |-> w, then |-> then]
IdleAll(then)    == Bus("idle", 0, then)
NoJob            == Bus("none", 0, "done")

DesiredState == IF window THEN "DAY_CHARGE" ELSE "NIGHT_DISCHARGE"
-------------------------------------------------------------------------------
(* Goroutine bookkeeping                                                      *)

Settled(p) == pc[p] \in {"idle", "stopped"}
Quiet      == \A p \in Procs : Settled(p)
Live       == phase \in {"running", "draining"}

(* p's loop or poll picks up something to do.                                 *)
Begin(p) ==
    /\ Live
    /\ pc[p] = "idle"
    /\ alone' = (\A q \in Procs \ {p} : Settled(q))
    /\ trust' = (trust /\ alone')
    /\ misrated' = (misrated /\ alone')

Move(p, l, j) ==
    /\ pc' = [pc EXCEPT ![p] = l]
    /\ job' = [job EXCEPT ![p] = j]
    /\ at' = [at EXCEPT ![p] = 1]
    /\ failed' = [failed EXCEPT ![p] = FALSE]

Write(p, j)        == Move(p, "write", j)
ApplyNext(p, then) == Move(p, "apply", Bus("none", 0, then))
GoTo(p, l)         == Move(p, l, NoJob)
Finish(p)          == GoTo(p, "idle")

(* p's bus operation that goes on with "then" is over.                        *)
Done(p, then) ==
    /\ pc[p] = "write"
    /\ at[p] = N + 1
    /\ job[p].then = then
-------------------------------------------------------------------------------
(* Writing to the inverters: IdleAllInverters stops at the first error, the   *)
(* rate writes go on, the probe writes to the master only.  A share of the    *)
(* balanced charge may be 0 W, which is written as idle.                      *)

Targets(j) == IF j.w = 0 THEN {"idle"}
              ELSE IF j.op = "charge" THEN {"charge", "idle"} ELSE {"discharge"}

ToAll(j) == j.op \in {"idle", "charge", "discharge"}

LastUnit(j) == IF j.op = "probe" THEN 1 ELSE N

WriteOk(p) ==
    /\ pc[p] = "write"
    /\ at[p] <= N
    /\ \E m \in Targets(job[p]) : mode' = [mode EXCEPT ![at[p]] = m]
    /\ LET last == at[p] = LastUnit(job[p])
           complete == last /\ alone /\ ~failed[p] /\ ToAll(job[p])
       IN  /\ at' = [at EXCEPT ![p] = IF last THEN N + 1 ELSE @ + 1]
           /\ trust' = (trust \/ complete)
           /\ misrated' = (misrated /\ ~complete)
    /\ UNCHANGED <<phase, window, fields, pc, job, failed, alone>>

WriteFails(p) ==
    /\ pc[p] = "write"
    /\ at[p] <= N
    /\ \/ "fail" \in Events /\ UNCHANGED mode
       \/ /\ "lost" \in Events
          /\ \E m \in Targets(job[p]) : mode' = [mode EXCEPT ![at[p]] = m]
    /\ at' = [at EXCEPT ![p] = IF job[p].op \in {"idle", "probe"} THEN N + 1 ELSE @ + 1]
    /\ failed' = [failed EXCEPT ![p] = TRUE]
    /\ trust' = FALSE /\ misrated' = FALSE
    /\ UNCHANGED <<phase, window, fields, pc, job, alone>>

(* applyCurrentState reads the state anew.                                    *)
ApplyCurrentState(p) ==
    /\ pc[p] = "apply"
    /\ CASE state = "DAY_CHARGE" ->
              /\ currentChargeW' = 0
              /\ waitingForExport' = TRUE
              /\ dayDischarging' = FALSE
              /\ Write(p, IdleAll(job[p].then))
              /\ UNCHANGED currentDischargeW
         [] state = "NIGHT_DISCHARGE" ->
              /\ currentDischargeW' = 1
              /\ Write(p, Bus("discharge", 1, job[p].then))
              /\ UNCHANGED <<currentChargeW, day>>
         [] OTHER ->
              /\ Write(p, IdleAll(job[p].then))
              /\ UNCHANGED <<rates, day>>
    /\ UNCHANGED <<outer, state, manual, fails, ghosts>>

EnterSafeMode(p) ==
    IF state = "SAFE"
    THEN Finish(p) /\ UNCHANGED <<state, dayDischarging, consecutiveWriteFail>>
    ELSE /\ state' = "SAFE"
         /\ dayDischarging' = FALSE
         /\ consecutiveWriteFail' = 0
         /\ Write(p, IdleAll("done"))

(* A handler whose last bus operation has no follow-up.                       *)
HandlerDone(p) ==
    /\ Done(p, "done")
    /\ Finish(p)
    /\ UNCHANGED <<outer, fields, ghosts>>
-------------------------------------------------------------------------------
(* grid: readGrid                                                             *)

GridReadOk ==
    /\ Begin("grid")
    /\ consecutiveFail' = 0
    /\ UNCHANGED <<outer, state, rates, day, manual, consecutiveWriteFail, place>>

(* The counter saturates: only reaching the limit matters.                    *)
GridReadFails ==
    /\ "meter" \in Events
    /\ Begin("grid")
    /\ consecutiveFail' = IF consecutiveFail < MaxReadFailures
                          THEN consecutiveFail + 1 ELSE MaxReadFailures
    /\ IF consecutiveFail' >= MaxReadFailures
       THEN EnterSafeMode("grid")
       ELSE UNCHANGED <<state, dayDischarging, consecutiveWriteFail, place>>
    /\ UNCHANGED <<outer, rates, waitingForExport, manual>>
-------------------------------------------------------------------------------
(* ctl: runControlCycle.  checkTimeTransitions decides on a snapshot ...      *)

(* Mutant: a low-battery stop does not end with the next charge window.       *)
ParkedForGood == state \in {"SAFE", "STOPPED"}

Parked == \/ state = "SAFE"
          \/ state = "STOPPED" /\ (manualStopped \/ ~window)

Held == manualOverride /\ window = manualOverrideInDay

CycleBegin ==
    /\ Begin("ctl")
    /\ IF Parked \/ Held
       THEN GoTo("ctl", "act") /\ UNCHANGED manualOverride
       ELSE /\ manualOverride' = FALSE
            /\ \/ window /\ state # "DAY_CHARGE" /\ GoTo("ctl", "toDay")
               \/ ~window /\ state # "NIGHT_DISCHARGE" /\ GoTo("ctl", "toNight")
               \* 0 < SOC < 30
               \/ ~window /\ state # "NIGHT_DISCHARGE" /\ GoTo("ctl", "toStopped")
               \/ state = DesiredState /\ GoTo("ctl", "act")
    /\ UNCHANGED <<outer, state, rates, day, manualOverrideInDay, manualStopped, fails>>

(* ... and transitions later, without looking at the state again.             *)
CommitDay ==
    /\ pc["ctl"] = "toDay"
    /\ state' = "DAY_CHARGE"
    /\ currentChargeW' = 0
    /\ ApplyNext("ctl", "act")
    /\ UNCHANGED <<outer, currentDischargeW, day, manual, fails, ghosts>>

CommitNight ==
    /\ pc["ctl"] = "toNight"
    /\ state' = "NIGHT_DISCHARGE"
    /\ ApplyNext("ctl", "act")
    /\ UNCHANGED <<outer, rates, day, manual, fails, ghosts>>

CommitLowSOC ==
    /\ pc["ctl"] = "toStopped"
    /\ state' = "STOPPED"
    /\ Write("ctl", IdleAll("act"))
    /\ UNCHANGED <<outer, rates, day, manual, fails, ghosts>>

TransitionApplied ==
    /\ Done("ctl", "act")
    /\ GoTo("ctl", "act")
    /\ UNCHANGED <<outer, fields, ghosts>>

(* The regime's logic, on the state as it is by now: nothing to do (SAFE,     *)
(* STOPPED, IDLE, stale reading, dead band, a hold timer that still runs) ... *)
ActNothing ==
    /\ pc["ctl"] \in {"act", "starve"}
    /\ Finish("ctl")
    /\ UNCHANGED <<outer, fields, ghosts>>

DayAct ==
    /\ pc["ctl"] = "act"
    /\ state = "DAY_CHARGE"
    /\ UNCHANGED <<outer, state, manual, fails, ghosts>>

(* Mutant: stopDayDischarge forgets to clear dayDischarging.                  *)
ShaveStopFlagKept ==
    /\ DayAct
    /\ dayDischarging
    /\ currentDischargeW' = 0
    /\ waitingForExport' = TRUE
    /\ \E then \in {"done", "startCharging"} : Write("ctl", IdleAll(then))
    /\ UNCHANGED <<currentChargeW, dayDischarging>>

(* ... runDayChargeLogic while peak shaving: stopDayDischarge, after which    *)
(* charging starts at once if the sun is back; or adjust the rate ...         *)
ShaveStop ==
    /\ DayAct
    /\ dayDischarging
    /\ dayDischarging' = FALSE
    /\ currentDischargeW' = 0
    /\ waitingForExport' = TRUE
    /\ \E then \in {"done", "startCharging"} : Write("ctl", IdleAll(then))
    /\ UNCHANGED currentChargeW

ShaveRamp ==
    /\ DayAct
    /\ dayDischarging
    /\ currentDischargeW' \in 1..MaxDischargeW
    /\ Write("ctl", Bus("discharge", currentDischargeW', "done"))
    /\ UNCHANGED <<currentChargeW, day>>

ShaveToCharge ==
    /\ Done("ctl", "startCharging")
    /\ waitingForExport' = FALSE
    /\ currentChargeW' \in 1..MaxChargeW
    /\ Write("ctl", Bus("charge", currentChargeW', "done"))
    /\ UNCHANGED <<outer, state, currentDischargeW, dayDischarging, manual, fails, ghosts>>

(* ... and while not: startDayDischarge, startCharging, or a ramp of the      *)
(* charge rate, which is recorded only if every write succeeds.               *)
ShaveStart ==
    /\ DayAct
    /\ ~dayDischarging
    /\ waitingForExport \/ currentChargeW = 0
    /\ dayDischarging' = TRUE
    /\ currentDischargeW' = 1
    /\ currentChargeW' = 0
    /\ Write("ctl", Bus("discharge", 1, "done"))
    /\ UNCHANGED waitingForExport

ChargeStart ==
    /\ DayAct
    /\ ~dayDischarging
    /\ waitingForExport
    /\ waitingForExport' = FALSE
    /\ currentChargeW' \in 1..MaxChargeW
    /\ Write("ctl", Bus("charge", currentChargeW', "done"))
    /\ UNCHANGED <<currentDischargeW, dayDischarging>>

ChargeRamp ==
    /\ DayAct
    /\ ~dayDischarging
    /\ ~waitingForExport
    /\ \E w \in 1..MaxChargeW : Write("ctl", Bus("charge", w, "rampTo"))
    /\ UNCHANGED <<rates, day>>

ChargeRamped ==
    /\ Done("ctl", "rampTo")
    /\ currentChargeW' = IF failed["ctl"] THEN currentChargeW ELSE job["ctl"].w
    /\ GoTo("ctl", "starve")
    /\ UNCHANGED <<outer, state, currentDischargeW, day, manual, fails, ghosts>>

(* The tail of runDayChargeLogic: ten minutes of import stop the charge.      *)
ChargeStop ==
    /\ \/ pc["ctl"] = "act" /\ state = "DAY_CHARGE" /\ ~dayDischarging /\ ~waitingForExport
       \/ pc["ctl"] = "starve"
    /\ currentChargeW > 0
    /\ currentChargeW' = 0
    /\ waitingForExport' = TRUE
    /\ Write("ctl", IdleAll("done"))
    /\ UNCHANGED <<outer, state, currentDischargeW, dayDischarging, manual, fails, ghosts>>

(* ... runNightDischargeLogic: stop on a low battery, or ramp the rate (the   *)
(* export guard ramps down by the same writes).                               *)
NightLowSOC ==
    /\ pc["ctl"] = "act"
    /\ state = "NIGHT_DISCHARGE"
    /\ Write("ctl", IdleAll("lowSOC"))
    /\ UNCHANGED <<outer, fields, ghosts>>

NightLowSOCStopped ==
    /\ Done("ctl", "lowSOC")
    /\ currentDischargeW' = 0
    /\ state' = "STOPPED"
    /\ Finish("ctl")
    /\ UNCHANGED <<outer, currentChargeW, day, manual, fails, ghosts>>

NightRamp ==
    /\ pc["ctl"] = "act"
    /\ state = "NIGHT_DISCHARGE"
    /\ currentDischargeW' \in 0..MaxDischargeW
    /\ Write("ctl", IF currentDischargeW' = 0 THEN IdleAll("done")
                    ELSE Bus("discharge", currentDischargeW', "done"))
    /\ UNCHANGED <<outer, state, currentChargeW, day, manual, fails, ghosts>>
-------------------------------------------------------------------------------
(* ctl: sendKeepalive.  Its power-only writes leave the modes alone.          *)

KeptRate == CASE state = "DAY_CHARGE" /\ ~dayDischarging -> currentChargeW
              [] state = "DAY_CHARGE" /\ dayDischarging  -> currentDischargeW
              [] state = "NIGHT_DISCHARGE"               -> currentDischargeW
              [] OTHER                                   -> 0

KeepaliveBegin ==
    /\ state \in {"DAY_CHARGE", "NIGHT_DISCHARGE"}
    /\ Begin("ctl")
    /\ Move("ctl", "keepalive", Bus("none", KeptRate, "done"))
    /\ UNCHANGED <<outer, fields>>

(* All writes succeeded.  checkEPCStuck may then find the inverters idle, and *)
(* from its second attempt on it idles them, reboots the gateway, idles them  *)
(* again and applies the state.                                               *)
KeepaliveOk ==
    /\ pc["ctl"] = "keepalive"
    /\ consecutiveWriteFail' = 0
    /\ \/ Finish("ctl")
       \/ "stuck" \in Events /\ KeptRate > 0 /\ Write("ctl", IdleAll("standby"))
    /\ UNCHANGED <<outer, state, rates, day, manual, consecutiveFail, ghosts>>

GatewayRebooted ==
    /\ Done("ctl", "standby")
    /\ Write("ctl", IdleAll("reapply"))
    /\ UNCHANGED <<outer, fields, ghosts>>

(* Mutant: the state is not applied again after the reboot.                   *)
IdledAfterRebootOnly ==
    /\ Done("ctl", "reapply")
    /\ Finish("ctl")
    /\ UNCHANGED <<outer, fields, ghosts>>

IdledAfterReboot ==
    /\ Done("ctl", "reapply")
    /\ ApplyNext("ctl", "done")
    /\ UNCHANGED <<outer, fields, ghosts>>

KeepaliveFails ==
    /\ {"fail", "lost"} \cap Events # {}
    /\ pc["ctl"] = "keepalive"
    /\ job["ctl"].w > 0
    /\ Finish("ctl")
    /\ UNCHANGED <<outer, fields, ghosts>>

(* Exception 3: the gateway has lost its bus.  At the limit it is rebooted.   *)
KeepaliveExc3 ==
    /\ "exc3" \in Events
    /\ pc["ctl"] = "keepalive"
    /\ job["ctl"].w > 0
    /\ consecutiveWriteFail' = IF consecutiveWriteFail < MaxWriteFail
                               THEN consecutiveWriteFail + 1 ELSE MaxWriteFail
    /\ GoTo("ctl", IF consecutiveWriteFail' >= MaxWriteFail THEN "reboot" ELSE "idle")
    /\ UNCHANGED <<outer, state, rates, day, manual, consecutiveFail, ghosts>>

RebootThenSafe ==
    /\ pc["ctl"] = "reboot"
    /\ EnterSafeMode("ctl")
    /\ UNCHANGED <<outer, rates, waitingForExport, manual, consecutiveFail, ghosts>>

(* probeSafeModeRecovery: idle the master; if that works, resume by the clock *)
(* whatever the state is by now.                                              *)
ProbeBegin ==
    /\ state = "SAFE"
    /\ Begin("ctl")
    /\ Write("ctl", Bus("probe", 0, "recover"))
    /\ UNCHANGED <<outer, fields>>

(* Mutant: the test of the probe's error is inverted.                         *)
ProbeDoneInverted ==
    /\ Done("ctl", "recover")
    /\ IF ~failed["ctl"]
       THEN Finish("ctl") /\ UNCHANGED <<state, consecutiveWriteFail>>
       ELSE /\ state' = DesiredState
            /\ consecutiveWriteFail' = 0
            /\ ApplyNext("ctl", "done")
    /\ UNCHANGED <<outer, rates, day, manual, consecutiveFail, ghosts>>

ProbeDone ==
    /\ Done("ctl", "recover")
    /\ IF failed["ctl"]
       THEN Finish("ctl") /\ UNCHANGED <<state, consecutiveWriteFail>>
       ELSE /\ state' = DesiredState
            /\ consecutiveWriteFail' = 0
            /\ ApplyNext("ctl", "done")
    /\ UNCHANGED <<outer, rates, day, manual, consecutiveFail, ghosts>>
-------------------------------------------------------------------------------
(* tg: the command handlers                                                   *)

Command(cmd) ==
    /\ cmd \in Commands
    /\ Begin("tg")
    /\ UNCHANGED <<outer, rates, waitingForExport, fails>>

ManualStop ==
    /\ Command("stop")
    /\ state' = "STOPPED"
    /\ manualStopped' = TRUE
    /\ manualOverride' = FALSE
    /\ dayDischarging' = FALSE
    /\ Write("tg", IdleAll("done"))
    /\ UNCHANGED manualOverrideInDay

ManualStart ==
    /\ Command("start")
    /\ state' = DesiredState
    /\ manualStopped' = FALSE
    /\ manualOverride' = FALSE
    /\ ApplyNext("tg", "done")
    /\ UNCHANGED <<dayDischarging, manualOverrideInDay>>

ManualTo(s) ==
    /\ state' = s
    /\ manualOverride' = TRUE
    /\ manualOverrideInDay' = window
    /\ dayDischarging' = FALSE
    /\ ApplyNext("tg", "done")
    /\ UNCHANGED manualStopped

ManualCharge    == Command("charge") /\ ManualTo("DAY_CHARGE")
ManualDischarge == Command("discharge") /\ ManualTo("NIGHT_DISCHARGE")

(* Mutant: no limit on the rate asked for.                                    *)
AskAnyRate(cw, dw) ==
    /\ \/ state = "DAY_CHARGE" /\ Write("tg", Bus("charge", cw, "setCharge"))
       \/ state = "NIGHT_DISCHARGE" /\ Write("tg", Bus("discharge", dw, "setDischarge"))
    /\ UNCHANGED <<state, dayDischarging, manual>>

(* HandleUp and HandleDown ask for a rate; at the maximum /up is refused.     *)
AskRate(cw, dw) ==
    /\ \/ /\ state = "DAY_CHARGE"
          /\ cw <= MaxChargeW
          /\ Write("tg", Bus("charge", cw, "setCharge"))
       \/ /\ state = "NIGHT_DISCHARGE"
          /\ dw <= MaxDischargeW
          /\ Write("tg", Bus("discharge", dw, "setDischarge"))
    /\ UNCHANGED <<state, dayDischarging, manual>>

Less(w) == IF w > 0 THEN w - 1 ELSE 0

HandleUp   == Command("up") /\ AskRate(currentChargeW + 1, currentDischargeW + 1)
HandleDown == Command("down") /\ AskRate(Less(currentChargeW), Less(currentDischargeW))

(* setChargeRate looks at no flag: while peak shaving is on, the inverters    *)
(* have been switched to charging and dayDischarging stays as it is.          *)
SetChargeRate ==
    /\ Done("tg", "setCharge")
    /\ IF failed["tg"]
       THEN UNCHANGED <<currentChargeW, manualOverride>>
       ELSE currentChargeW' = job["tg"].w /\ manualOverride' = TRUE
    /\ misrated' = (trust /\ dayDischarging)
    /\ Finish("tg")
    /\ UNCHANGED <<outer, state, currentDischargeW, day, manualOverrideInDay,
                   manualStopped, fails, alone, trust>>

SetDischargeRate ==
    /\ Done("tg", "setDischarge")
    /\ IF failed["tg"]
       THEN UNCHANGED <<currentDischargeW, manualOverride>>
       ELSE currentDischargeW' = job["tg"].w /\ manualOverride' = TRUE
    /\ Finish("tg")
    /\ UNCHANGED <<outer, state, currentChargeW, day, manualOverrideInDay,
                   manualStopped, fails, ghosts>>

(* HandleCycle: the handler answers at once, the goroutine cycles the units   *)
(* through standby and applies the state; on an error it gives up.  One such  *)
(* goroutine at a time is modelled.                                           *)
HandleCycle ==
    /\ Command("cycle")
    /\ pc["cyc"] = "idle"
    /\ GoTo("cyc", "cycling")
    /\ UNCHANGED <<state, dayDischarging, manual>>

CycleDone ==
    /\ pc["cyc"] = "cycling"
    /\ \/ ApplyNext("cyc", "done")
       \/ {"fail", "lost"} \cap Events # {} /\ Finish("cyc")
    /\ UNCHANGED <<outer, fields, ghosts>>
-------------------------------------------------------------------------------
(* main: start, stop; the process and its clock                               *)

StartPc    == [p \in Procs |-> IF p = "main" THEN "write" ELSE "idle"]
\* With nothing to zero, main finds an empty operation, over at once.
FirstJob   == IF ZeroAllOnStart THEN IdleAll("start") ELSE Bus("none", 0, "start")
StartJob   == [p \in Procs |-> IF p = "main" THEN FirstJob ELSE NoJob]
StartAt    == [p \in Procs |-> IF p = "main" /\ ~ZeroAllOnStart THEN N + 1 ELSE 1]
NoneFailed == [p \in Procs |-> FALSE]

(* The inverters are in whatever mode they were left in.                      *)
Init ==
    /\ phase = "starting"
    /\ window \in BOOLEAN
    /\ mode \in [Units -> Modes]
    /\ state = "IDLE"
    /\ currentChargeW = 0 /\ currentDischargeW = 0
    /\ waitingForExport = FALSE /\ dayDischarging = FALSE
    /\ manualOverride = FALSE /\ manualOverrideInDay = FALSE /\ manualStopped = FALSE
    /\ consecutiveFail = 0 /\ consecutiveWriteFail = 0
    /\ pc = StartPc /\ job = StartJob /\ at = StartAt /\ failed = NoneFailed
    /\ alone = TRUE /\ trust = FALSE /\ misrated = FALSE

(* The process starts anew: memory is lost, the inverters stay as they are.   *)
ProcessStart ==
    /\ phase' = "starting"
    /\ state' = "IDLE"
    /\ currentChargeW' = 0 /\ currentDischargeW' = 0
    /\ waitingForExport' = FALSE /\ dayDischarging' = FALSE
    /\ manualOverride' = FALSE /\ manualOverrideInDay' = FALSE /\ manualStopped' = FALSE
    /\ consecutiveFail' = 0 /\ consecutiveWriteFail' = 0
    /\ pc' = StartPc /\ job' = StartJob /\ at' = StartAt /\ failed' = NoneFailed
    /\ alone' = TRUE /\ trust' = FALSE /\ misrated' = FALSE
    /\ UNCHANGED <<window, mode>>

ControllerStart ==
    /\ Done("main", "start")
    /\ state' = DesiredState
    /\ ApplyNext("main", "run")
    /\ UNCHANGED <<outer, rates, day, manual, fails, ghosts>>

LoopsStart ==
    /\ Done("main", "run")
    /\ phase' = "running"
    /\ Finish("main")
    /\ UNCHANGED <<window, mode, fields, ghosts>>

(* SIGTERM: the context is cancelled; each loop returns when it next selects  *)
(* that case, and it may select a ticker that is ready too a few times first. *)
Signal ==
    /\ "signal" \in Events
    /\ phase = "running"
    /\ phase' = "draining"
    /\ UNCHANGED <<window, mode, fields, place, ghosts>>

LoopExitButGrid(p) ==  \* mutant: gridReadLoop does not select ctx.Done
    /\ phase = "draining"
    /\ pc[p] = "idle"
    /\ p # "grid"
    /\ GoTo(p, "stopped")
    /\ UNCHANGED <<outer, fields, ghosts>>

LoopExit(p) ==
    /\ phase = "draining"
    /\ pc[p] = "idle"
    /\ GoTo(p, "stopped")
    /\ UNCHANGED <<outer, fields, ghosts>>

(* Mutant: the inverters are idled before the loops have returned.            *)
StopIdleEarly ==
    /\ phase = "draining"
    /\ Begin("main")
    /\ Write("main", IdleAll("exit"))
    /\ UNCHANGED <<outer, fields>>

(* bot.Stop and the controller's WaitGroup have returned: idle all units.     *)
StopIdle ==
    /\ phase = "draining"
    /\ \A p \in Loops : pc[p] = "stopped"
    /\ Begin("main")
    /\ Write("main", IdleAll("exit"))
    /\ UNCHANGED <<outer, fields>>

(* The process ends and takes every goroutine with it.                        *)
Exit ==
    /\ Done("main", "exit")
    /\ phase' = "exited"
    /\ pc' = [p \in Procs |-> "stopped"]
    /\ UNCHANGED <<window, mode, fields, job, at, failed, ghosts>>

Restart == phase = "exited" /\ ProcessStart

Crash == "crash" \in Events /\ phase # "exited" /\ ProcessStart

WindowFlip ==
    /\ window' = ~window
    /\ UNCHANGED <<phase, mode, fields, place, ghosts>>

ControlStep ==
    \/ CommitDay \/ CommitNight \/ CommitLowSOC \/ TransitionApplied
    \/ ActNothing \/ ShaveStop \/ ShaveRamp \/ ShaveToCharge \/ ShaveStart
    \/ ChargeStart \/ ChargeRamp \/ ChargeRamped \/ ChargeStop
    \/ NightLowSOC \/ NightLowSOCStopped \/ NightRamp
    \/ KeepaliveOk \/ GatewayRebooted \/ IdledAfterReboot
    \/ KeepaliveFails \/ KeepaliveExc3 \/ RebootThenSafe \/ ProbeDone

(* A step within a handler of p: code that is running, not waiting for input. *)
Step(p) ==
    \/ WriteOk(p) \/ WriteFails(p) \/ ApplyCurrentState(p) \/ HandlerDone(p)
    \/ p = "ctl" /\ ControlStep
    \/ p = "tg" /\ (SetChargeRate \/ SetDischargeRate)
    \/ p = "cyc" /\ CycleDone
    \/ p = "main" /\ (ControllerStart \/ LoopsStart \/ StopIdle \/ Exit)

OperatorCommand ==
    \/ ManualStop \/ ManualStart \/ ManualCharge \/ ManualDischarge
    \/ HandleUp \/ HandleDown \/ HandleCycle

Next ==
    \/ \E p \in Procs : Step(p)
    \/ GridReadOk \/ GridReadFails
    \/ CycleBegin \/ KeepaliveBegin \/ ProbeBegin
    \/ OperatorCommand
    \/ \E p \in Loops : LoopExit(p)
    \/ Signal \/ Restart \/ Crash \/ WindowFlip

Spec == Init /\ [][Next]_vars

(* Goroutines run (WF).  A select with several ready cases picks one at       *)
(* random, and a ticker holds a tick while its loop is busy, so a loop that   *)
(* keeps coming back to its select serves every case in the end (SF).         *)
Fairness ==
    /\ \A p \in Procs : WF_vars(Step(p))
    /\ \A p \in Loops : SF_vars(LoopExit(p))
    /\ SF_vars(CycleBegin)
    /\ SF_vars(KeepaliveBegin \/ ProbeBegin)

LiveSpec == Spec /\ Fairness
===============================================================================
