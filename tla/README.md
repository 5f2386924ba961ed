# A TLA+ model of solarcontrol

`solarcontrol` is a Go daemon that drives the battery inverters of a house. It
reads the grid power from a WattNode meter, decides by the time of day whether
the batteries charge from the sun or discharge into the house, writes modes and
powers to the inverters over Modbus TCP through an Insight gateway, recovers the
gateway and the inverters when they stop responding, and takes commands and
sends alerts over Telegram. This directory holds TLA+ modules of its logic, TLC
configurations that check them, and proofs that TLAPS checks.

Source lines below are of the repository's files (`controller/controller.go` and
so on).

## 1. Inventory

| Component | State | Operations | Interacts with |
|---|---|---|---|
| Controller (`controller/controller.go`) | rates `currentChargeW`, `currentDischargeW`; `waitingForExport`, `dayDischarging`; manual flags; failure counters; hold timers; EPC stuck counters; last grid and battery readings | `Start`, `Stop`, `readGrid`, `runControlCycle`, `sendKeepalive`, `probeSafeModeRecovery`, `checkEPCStuck`, the regimes' logic, the manual commands | everything below |
| StateManager (`controller/state.go`) | current and previous state, a channel of 10 state changes | `Transition`, `Current` | controller, alertLoop |
| Scheduler (`controller/scheduler.go`) | none (wall clock) | `IsChargeWindow`, `DesiredState` | controller |
| Operator commands (`controller/telegram_handler.go`) | none; the goroutine of `/cycle` | `HandleStop` ... `HandleClear` | called by the bot, calls the controller |
| Session statistics (`controller/stats.go`) | current and last sessions, ring buffer of samples | `StartSession`, `EndSession`, `Record*`, `AvgOver` | controller, handlers |
| Insight client (`insight/client.go`) | two connections, a mutex, `stuck`, `lastWriteAt` | reads and writes with a timeout, reconnection | EPC operations, battery reading |
| EPC operations (`insight/epc.go`) | none | `SetChargeMode`, `SetIdleMode`, `SetDischargeMode`, power-only writes, `IdleAllInverters` | client |
| Gateway API (`insight/gateway.go`) | session and one-time key per call | `Reboot`, `CycleInverters`, `ClearAlerts` | controller, handlers |
| Battery reading (`insight/soc.go`) | none | `ReadBMS` | client |
| WattNode reader (`wattnode/`) | one connection, a failure counter | `Read` (never reconnects) | controller |
| Telegram bot (`telegram/bot.go`) | update offset, last alert per type | `pollLoop`, `handleUpdate`, `Alert` | handlers, alertLoop |
| Texts, configuration, tools | - | - | - |

### How they interact

`main` builds everything, idles the inverters when `startup.zero_all_on_start`
is set, calls `Controller.Start` (transition to the state of the clock, apply
it) and waits for a signal. Four goroutines of the controller and the bot then
run side by side: `gridReadLoop` reads the meter, `controlLoop` selects among
the control cycle, the keepalive and the SAFE probe, `alertLoop` turns state
changes into alerts, and the bot's poll loop runs the command handlers in its
own goroutine. `/cycle` starts one more, which nobody waits for. They share the
controller's fields. `c.mu` protects the two cached readings; the StateManager
protects the state; **the other fields have no lock and no handler holds one
from its decision to its last write.** Each write to an inverter blocks, so
another goroutine's handler may run between any two of them.

### What is hard

* *Interleaving.* A command in the middle of a control cycle; a decision taken
  before and a write done after it; `/cycle` and shutdown.
* *Split knowledge.* Which mode the inverters are in is not stored. It follows
  from the state, `dayDischarging` and the rates, and the keepalive, which only
  writes powers, relies on the modes having been written when these changed.
* *Partial failure.* A write to four units may fail at one; writes may take
  effect although their answer is lost.
* *Recovery.* SAFE and its probe, the stuck check with its gateway reboot, a
  crash that loses all memory while the inverters go on.
* *Timers and closed loops.* Three hold timers by day, the export guard and its
  cap by night.
* *Late effects.* A Modbus operation that timed out still holds the mutex and
  may write when its caller has moved on.

### What makes each component correct

* Controller: modes agree with what the fields stand for; one direction at a
  time; stops and overrides hold until their end (but see section 9); SAFE is
  left once its reason is gone, and not before; shutdown idles and ends.
* StateManager: changes reach the alert loop, in order.
* Statistics: peaks are of the averages over the session's own samples; gaps are
  not integrated.
* Client: a caller that was told of an error is not overtaken by its own write;
  one operation on the bus at a time; recovery leaves a usable connection.
* Gateway API and its recovery: no inverter is left in standby, a gateway that boots
  is left alone, stuck inverters and SAFE come to an end, a reboot is the last resort.
* Bot: every command once, one alert per type per hour, SAFE is reported.
* Arithmetic and timers: powers within their limits; ramps settle in the band and do
  not overshoot; the sun is used and the grid does not charge for good.

## 2. The core model

### Modules

| Module | Content |
|---|---|
| `SolarControl` | the model: state, one action per handler section, `Spec`, `LiveSpec` |
| `SolarControlProps` | type invariant, safety invariants, action properties, liveness |
| `SolarControlInv` | the inductive invariants of the proofs |
| `SolarControl_proofs` | type lemmas, `TypeCorrect` |
| `SolarAgreement_proofs` | `ModesAgree` |
| `SolarSafety_proofs` | `ShavingExcludesCharging`, `ShutdownIdles` |

The processes are `main`, `grid` (gridReadLoop), `ctl` (controlLoop), `tg` (the
bot running a handler) and `cyc` (the goroutine of `/cycle`).

### State

`state` and the variables with Go names are the fields of StateManager and
Controller. `mode[u]` is the EPC mode register of unit `u`, outside the process:
it survives crashes. `phase` is the life of the process (`starting`, `running`,
`draining` while `Controller.Stop` waits, `exited`), `window` is
`IsChargeWindow()`. `pc[p]`, `job[p]`, `at[p]` and `failed[p]` are what goroutine
`p` holds on its stack: where it is, the bus operation it performs (what is
written, the rate, and how the handler goes on), the next unit it writes to, and
whether a write has failed. Three variables are auxiliary and change no other:
`alone`, whether the handler at work has overlapped with no other; `trust`, whether
since the last complete command to all units no handlers have overlapped and no
write has failed; `misrated`, whether since that command `/up` or `/down` has set a
charge rate while peak shaving was on.

### Steps

A handler's code from one blocking call to the next is one action, and each
write to a unit is one (`WriteOk`, `WriteFails`), shared by all handlers through
`job`. Thus `ManualStop` is an action that sets the flags and the state and
starts "idle all"; the writes follow, one step per unit. Where the code reads
shared fields and acts on them later without a lock, the read and the act are
two actions: `CycleBegin` takes the snapshot of `checkTimeTransitions`,
`CommitDay`, `CommitNight` and `CommitLowSOC` transition later, and the regime's
logic (`DayAct` and the actions built on it, `NightRamp` ...) looks at the state
once more, as `runControlCycle` does. `sendKeepalive` and the probe likewise.
`applyCurrentState` reads the state when it runs, not when it was called for.

| Code | Actions |
|---|---|
| `readGrid`, `enterSafeMode` | `GridReadOk`, `GridReadFails`, `EnterSafeMode` |
| `checkTimeTransitions` | `CycleBegin`, `Commit...`, `TransitionApplied` |
| `runDayChargeLogic` and its helpers | `ShaveStop`, `ShaveRamp`, `ShaveToCharge`, `ShaveStart`, `ChargeStart`, `ChargeRamp`, `ChargeRamped`, `ChargeStop`, `ActNothing` |
| `runNightDischargeLogic` | `NightLowSOC`, `NightLowSOCStopped`, `NightRamp`, `ActNothing` |
| `sendKeepalive`, `checkEPCStuck` | `KeepaliveBegin`, `KeepaliveOk`, `KeepaliveFails`, `KeepaliveExc3`, `RebootThenSafe`, `GatewayRebooted`, `IdledAfterReboot` |
| `probeSafeModeRecovery` | `ProbeBegin`, `ProbeDone` |
| command handlers | `ManualStop`, `ManualStart`, `ManualCharge`, `ManualDischarge`, `HandleUp`, `HandleDown`, `SetChargeRate`, `SetDischargeRate`, `HandleCycle`, `CycleDone` |
| `main`, `Start`, `Stop` | `ControllerStart`, `LoopsStart`, `Signal`, `LoopExit`, `StopIdle`, `Exit`, `Restart`, `Crash` |

### Abstractions

* Powers are steps of 300 W rounded up, so 0 is "off". Which branch the day and
  night logic takes depends on grid power, battery and hold timers; the model
  allows every branch that the fields it keeps permit, with any rate the branch
  can produce. Safety proved this way holds for every sequence of readings.
* A write to a unit is one step although the code writes a power and a mode
  register. Only the mode is modelled. A write that fails has either had no
  effect (`fail`) or all of it (`lost`). A write that takes effect after its
  caller has gone on belongs to the client (section 3).
* With balanced charging a unit's share may be 0 W, which the code writes as
  idle; with a positive charge rate a unit may therefore be in either mode.
* `checkEPCStuck` may find the units stuck at any keepalive whose rate is
  positive; attempt 1 changes nothing the model keeps. Its thresholds and timers are
  in `EpcRecovery`.
* `consecutiveFail` and `consecutiveWriteFail` saturate at their limits. Only
  reaching the limit has an effect.
* NIGHT_REDUCED is left out because no transition of the code leads to it.
* One `/cycle` goroutine at a time. `/reboot` and `/clear` change no state of
  the controller; they are in `EpcRecovery`.
* `Events` names the faults that can occur in a run, `Commands` the commands;
  the theorems hold for all of them together, the runs take subsets.

## 3. The Modbus client

`InsightClient` models `insight/client.go`; `RegisterBank` is the abstract
specification of what its callers may rely on. `InsightClient_proofs` holds the
theorems. The core model does not include the client: it takes a write as one
step that succeeds, fails or loses its answer, which is what `RegisterBank`
offers to a caller except for late effects.

`reg[u]` is the register of inverter `u`. A caller's `Call` starts the goroutine
of the operation `o`; its states `pc[o]` are `lock` (waiting for `c.mu`),
`recover` (inside `connectLocked` called from `recoverIfStuck`), `send` (in the
retry loop) and, after its result is in the channel, `ok` or `error`. `Timeout`
is the timer branch of the caller's `select`: the caller goes on, `stuck` is set
and the goroutine stays where it is; when such a goroutine ends, its slot is
free. `holder` is the mutex, `attempt` the loop counter of the goroutine that
has it, `lastWriteAt` the age of the last write in ticks.

`bound[k]` is the part of the connection state that matters: which handler the
`modbus.Client` of port `k` sends with. Normally it is the handler in the field
(`handler`), whose `SlaveId` every operation sets just before its request. When
a reconnect fails the field holds a new handler while the client keeps the old
one, whose `SlaveId` stays at the unit of that moment; then `bound[k]` is that
unit. `nil` is the client that `recoverIfStuck` dropped; a request through it
ends the process (`Panics`), and `main` starts anew. `refused` is auxiliary: the
ports whose last reconnection after an error has failed.

| Code | Actions |
|---|---|
| `ReadRegister`, `ReadHoldingRegisters`, `WriteRegister`: caller's side | `Call`, `Return`, `Timeout` |
| `c.mu.Lock`, `recoverIfStuck` | `Lock`, `Recover` |
| the loop: `waitForGap`, `SlaveId`, the request, its outcome | `Succeeds`, `Rejected`, `Dropped`, `DroppedForGood`, `Panics` |

A request with its answer or error is one step; a goroutine in `send` may stay
there for any time, so the timer may run out at any point. On a lost connection
the write may or may not have been carried out. Left out: `conditionBus`, whose
read changes nothing the model keeps, `Close`, and which of several waiting
goroutines gets the mutex (any of them may: Go hands it over roughly in order
but lets newcomers overtake).

## 4. Powers and hold timers

`PowerRates` holds the formulas as constant operators: charge target by state of
charge, the ramps, the night guard's step, and `balancedChargeRates`, which
distributes a charge by weights, caps the shares and gives the remainder to the
emptiest inverter. `PowerLoop` is the control cycle built on them, with the house
as its environment: `power[i]` is what inverter `i` does, `surplus` is sun minus
load, and `Meter`, the sum of both, is what the next `ReadGrid` stores in `grid`.
A cycle may therefore act on a reading from before the last write.

| Code | Actions |
|---|---|
| `checkTimeTransitions`, `applyCurrentState` | `TimeTransition`, `Enter` |
| `runDayChargeLogic` while peak shaving | `Shave` |
| `runDayChargeLogic` otherwise | `Day`: `ShaveBegins`, `Wait`, `Charge` |
| `runNightDischargeLogic` | `Night`: `LowSOCStop`, `ExportGuard`, `DischargeRamp` |
| `writeChargeKeepalive` | `Keepalive`: the charge distributed anew, powers only, skipping shares of 0 |
| `readGrid`, `readBMS`, `enterSafeMode`, the probe | `ReadGrid`, `ReadBMS`, `EnterSafeMode`, `SafeModeRecovery` |
| wall clock and hold timers; sun and load | `Tick`; `House` |

`startCharging` reads the cached grid power itself: `StartCharging` takes the reading
of the cycle or one that has come in since, in `Shave` one taken while the units were
being idled.

Timers are ages that stop at the hold time they are compared with, `lastRampAt` at the
longest of its three (`RampHold`); `Unset` is Go's zero time. `importFor` is auxiliary: it measures the import that earns a peak
shave, and unlike `dayDischargeSince` cannot survive a change of regime.
Writes succeed and the operator is absent: `SolarControl` has both, with the
watts left open. The two overlap in the regimes and their transitions.

## 5. Recovery of gateway and inverters

`EpcRecovery` models what `sendKeepalive`, `checkEPCStuck` and
`probeSafeModeRecovery` do about a gateway or inverters that do not respond, with
the REST calls of `insight/gateway.go`. `pc` is where `controlLoop` is: in its
`select`, in a call (`clear`, `reboot stuck`, `reboot lost`, `reboot safe`), or
asleep afterwards for `left` minutes. A tick is a minute, in which the battery
reading and the keepalive fall due once; while the loop sleeps the tickers keep
one tick each. The environment breaks things: blocking alerts (`alert`: clearing
helps), inverters that ignore commands (`epc`: a reboot or a standby cycle
helps), a gateway without Xanbus (`xanbus`: writes give exception 3, a reboot
helps). `/reboot`, `/clear` and `/cycle` act from goroutines of their own, at any
moment; `/cycle` is one step per unit and direction, and any call may fail. What
the controller commands changes freely. `clears` and `failedClears` are auxiliary:
they count the `ClearAlerts` calls of a stuck episode that went through and that
failed; the code only logs a failure (`AlertsCleared`).

| Code | Actions |
|---|---|
| `readBMS` | `ReadBMS` |
| `sendKeepalive`, exception 3 | `KeepaliveWrites`, `KeepaliveQuiet`, `LostGoesSafe` |
| `checkEPCStuck` | `CheckEPCStuck`, `ClearReturns` with `AlertsCleared`, `Restart` |
| `Reboot` and the sleep after it, from all three places | `RebootSucceeds`, `RebootFails`, `RebootNoted` |
| `probeSafeModeRecovery` | `Probe` |
| `HandleReboot`, `HandleClear`, `HandleCycle` with `CycleInverters` | actions of the same names |

## 6. Telegram and statistics

`Telegram` models `alertLoop` with the channel of state changes, `Bot.Alert`,
and `pollLoop`, in a process that restarts at any moment. `Alert` is three steps
(`Check`, `Send` or `SendFails`, `Record`) since it takes its lock twice with the
message in between, and two goroutines call it. `confirmed` is Telegram's side: an
update below it is not delivered again. The chat id check and texts are left out.
`CommandQueue` is the abstract specification of `pollLoop` for the operator: a queue
of which commands are carried out one by one, with no polls, batches, offsets or lost
answers. `Expected`, the first update a fetch would return, is its `next`, and
`confirmed` its `behind`; a restart of the process is `StartOver`, and the fetch,
answered or not, is `PutBehind`.

`SessionStats` models sessions and grid readings of `StatsTracker`. The ring is
the code's array with `pos` and `count`; `AvgOver` walks back over it until an
entry is too old. `samples` is auxiliary, the plain sequence of readings that the
ring is compared with. Averages are kept as sum and count, to stay in the integers.
`SumOfFirst` adds up as the loop of `AvgOver` does, one entry after the other.

## 7. Properties

The core's are in `SolarControlProps`, the client's in `InsightClient`, the others
in `PowerLoopProps`, `EpcRecoveryProps`, `TelegramProps` and `SessionStatsProps`.

Core:

* `TypeOK` - types, and the rates within their configured maxima.
* `Agreement` - whenever no handler is at work, and none has overlapped with
  another and no write has failed since the units were last commanded as a whole,
  each unit's mode is one that `state`, `dayDischarging` and the rates stand for.
  It is what the keepalive, the status and the stuck check rely on. The one path
  that breaks it with nothing overlapping is `/up` or `/down` while peak shaving
  (section 9); the property says what holds then: until the next complete command
  the units are in the modes of the charge that was asked for (`Expected`).
* `OneDirection` - peak shaving and a charge rate exclude each other, under every
  interleaving; `/up` and `/down` are not in its run (section 9).
* `ExitIdle` - when the process has stopped in order, all units are idle.
* `ShutdownCompletes`, `SafeRecovers`, `WindowWins` - liveness: shutdown ends; SAFE
  is left again; with the clock and the operator quiet the controller settles
  in the regime of the window.

That the clock respects SAFE, stops and overrides is not among them: with no other
goroutine at work it is the guard of `checkTimeTransitions` and nothing more, and
with others it does not hold (`StopIsManual`, section 9).

Client:

* `ReachesItsUnit` - every request of an operation goes to the unit it names, unless
  the last reconnection of its port has failed (`refused`). It is checked and proved
  with reconnections and recoveries that fail: one that succeeds puts the port right.
* `GapKept` - from the end of a write request to the next at least `MinGap`
  ticks pass, over retries, callers and late goroutines.
* `ImplementsBank` - the client implements `RegisterBank`: an operation touches
  its own unit only, and whoever is told of success had it carried out. The
  refinement mapping shows all of `lock`, `recover` and `send` as `open`.
* `OperationsEnd` - an operation that waits for the mutex gets it and ends.

Powers:

* `PowerInLimits` - no inverter charges or discharges beyond its limit, nor do all of
  them together charge beyond the larger of `max_total_w` and four times
  `start_per_inverter_w` (the code does not hold the starting rate against
  `max_total_w`), through balancing, ramps, keepalives and changes of regime.
  The sum is not claimed for a charge of under 304 W in all (`RoundsAway`): a share may
  round to nothing, and the keepalive skips that inverter and leaves it as it was.
* `RampKeepsSide` - a ramp on a reading that is still true does not carry the power
  to the other side of the meter (`KeepsSide`): more discharge never turns import
  into export; more charge never turns export into import, if before it the
  inverters together took what was recorded; less charge never turns import into
  export, if they took at most what was recorded before, take what is recorded
  afterwards, and the dead band is not below the smallest trim. Balancing may give the inverters less than the rate, hence the
  conditions.
* `PowerIsRecorded` - the inverters do all of a recorded discharge, at most all of a
  recorded charge, and nothing in STOPPED and SAFE: what the ramps start from is true.
  Of a charge for which `RoundsAway` holds it says that no inverter discharges.
* `CapHolds` - while a cap of the export guard is in force the discharge of a night
  is within it, or within the rate that a discharge starts with (`applyCurrentState`
  starts at 300 W whatever the cap is).
* `SunIsUsed`, `NoLastingImport`, `NightSettles` - the closed loop: a steady sun
  that carries the starting rate ends in a charge that lasts; batteries are not
  charged from the grid for good; a steady night ends in the band or at a limit.
* `ShaveIsEarned` - peak shaving starts only after the whole hold time of high
  import, in every cycle of the same day: the timer carries nothing over.

Recovery:

* `OwnBootUndisturbed` - while a gateway boots that the loop itself has rebooted,
  the loop does nothing on the bus.
* `StandbyOwned` - a unit in standby belongs to a `/cycle` that goes on, or one of
  its calls has failed.
* `RebootIsLastResort` - a stuck recovery reboots only when two attempts of the same
  episode have asked the gateway to clear its alerts: they have been cleared, or the
  gateway has failed to do so twice.
* `RetriesThreeTimes` - what README.md of the repository promises: attempts are not
  forgotten before the third. Violated (run `EpcRetries`, section 9).
* `StuckRecovers`, `SafeEnds` - liveness: once nothing breaks any more, inverters
  that ignore commands come back, and SAFE ends although only a reboot may help.

Telegram and statistics:

* `NoCommandLost`, `NoCommandTwice` - what Telegram will not deliver again has been
  handled; one process handles no update twice.
* `ImplementsQueue` - polling implements `CommandQueue`: commands are carried out in
  the order sent, none is passed over, and what a restart repeats begins with the
  first that was not confirmed.
* `OnceAnHourEach` - no goroutine sends two alerts of a kind within an hour.
* `SafeIsTold` - a stay in SAFE is reported, unless the report got lost on its way.
* `PeaksAreRolling` - a session's peaks are the extremes of the averages over its own
  last readings, however often the ring has wrapped.
* `EnergyIsOfSession` - a session's energy is exactly the sum, over its own readings, of
  the power times the time since the reading before, where that time is under
  `MaxGap`: no longer gap counts, be it inside the session or between two. Before the
  first reading one shorter gap may count, for the reading before belongs to the
  session before.

## 8. Runs

| Run | What varies | Bounds | Shows |
|---|---|---|---|
| `SolarCommands` | all commands but cycle; fail, lost, exc3, stuck, crash | 2 units, limits 1 | `TypeOK`, `Agreement` |
| `SolarSafe` | stop, cycle; meter | 1 unit, limits 1, no zeroing on start, `LiveSpec` | `OneDirection`, `SafeRecovers` |
| `SolarWindow` | stop, discharge; signal | 1 unit, limits 1, `LiveSpec` | `ExitIdle`, `ShutdownCompletes`, `WindowWins` |
| `InsightBus` | drop, reject, late | 2 callers, units, values, operations; gap 1 | `GapKept`, `ImplementsBank` |
| `InsightFaults` | drop, reject, refuse, late | 2 callers, units and operations, 1 value, `LiveSpec` | `TypeOK`, `ReachesItsUnit`, `OperationsEnd` |
| `PowerDay` | sun, load, battery, SAFE; day only | 4 inverters, 3 surpluses, 2 SOC readings, hold times 1 and 2 | `PowerInLimits`, `RampKeepsSide`, `SunIsUsed`, `NoLastingImport` |
| `PowerNight` | the same, night and day in turn | the same, guard hold 2 | `TypeOK`, `PowerIsRecorded`, `CapHolds`, `RampKeepsSide`, `NightSettles`, `ShaveIsEarned` |
| `EpcRecovery` | faults, commands, failing calls | 2 units, hold times 1 and 2, 2 exceptions | `TypeOK` and all of Recovery but `RetriesThreeTimes` |
| `EpcRetries` | the same | 1 unit | violates `RetriesThreeTimes` |
| `Telegram` | commands, lost answers and messages, restarts | 2 updates, channel of 2, an hour of 1 tick | `TypeOK` and all of Telegram |
| `SessionStats` | sessions, readings, missing readings | ring of 3, 5 ticks | `PeaksAreRolling`, `EnergyIsOfSession` |
| `StopRace` | stop | 2 units | violates `StoppedIsIdle` |

*Bounds of the core.* Two units are the fewest for which "the first was written, the
second not yet" exists; every write loop treats units alike apart from the master,
which is unit 1. One unit is enough for the liveness runs: their properties are
about the fields, or, like `ExitIdle`, about each unit by itself; `ShutdownIdles`
proves it for any number. Rates have one positive value: the code compares
rates only with 0 and with the maximum, and `/up` at the maximum and `/down` to 0
both occur. A limit of 1 lets a failure counter reach it at once; that a counter
below its limit has no effect is the guard that compares them. Faults and commands
are split over runs since together they exceed what TLC explores in minutes; the
theorems take them all together. No deadlock check is switched off.

*Of the client.* Two operations at a time are the fewest for which one waits
while another is late and holds the mutex, and two units, with two values, for
which a request may go astray and be noticed. One value is enough in
`InsightFaults`, whose properties are about requests and not about what they write.

*Of the powers.* There are four inverters as in the code, and powers are watts. The
surpluses are chosen so that peak shaving starts, overshoots and is overtaken by the
sun, so that charging starts, ramps and starves, and so that the night ramp and the
guard work on both sides of the band; the SOC readings so that shares are capped and
a depleted battery stops. Hold times of 1 tick and 2 keep the order between the short
timers and the sustained ones; the guard's hold of 2 is the least for which its cap
outlasts the next ramp, so that the ramp meets it. By day the discharge limit is small, since PowerDay
asks about charging. The hours around the charge window in which export is allowed
(`shoulder`) exceed what TLC explores; the theorems include them.

*Of recovery.* Hold times of 1 and 2 minutes keep two attempts apart from one stuck
period; a boot as long as the wait is the tight case. Two units are the fewest of
which one may be in standby. *Of Telegram.* Two updates, so that one is handled and
the next not; a channel of two, so that it fills while a message is being sent; the
control loop sends failure alerts, the kind that both goroutines send. *Of the
statistics.* A ring of 3 with 5 ticks wraps around within a session and holds less
than the long window; a reading missing at each place is enough for a gap.

*Fairness of the core* (`LiveSpec`). A goroutine inside a handler goes on: every blocking
call of the code has a timeout (weak fairness of `Step(p)`). Go's `select` picks
among ready cases at random, a ticker keeps one tick for a busy loop and a
closed channel stays ready, so a case that is ready again and again is taken
(strong fairness of a loop's exit, of the control cycle, and of the keepalive or
probe, which share a ticker). Nothing is assumed of commands, readings, faults,
crashes, the clock or signals. *Of the client*: a goroutine that has the mutex
goes on, since the handlers have a timeout (weak fairness of `Step(o)`) and time
passes; a goroutine that waits for the mutex is not starved, since Go's mutex
hands over to one that has waited more than 1 ms (strong fairness of `Lock(o)`).
*Of the powers*: time passes and control cycles run. *Of recovery*: time passes and the
loop goes on; a REST call that is made again and again succeeds in the end, for
otherwise nothing could recover (strong fairness of `RebootSucceeds` and of a
successful `ClearReturns`). *Of Telegram*: the alert loop goes on, its messages
succeeding or failing.

## 9. Where repository and code disagree

Each is listed with its lines under `findings` in PROJECT.json. `StopRace` shows that a
cycle in progress writes its rates after `/stop` has replied "Inverters: all idle",
and `EpcRetries` that a second attempt of the stuck recovery ends by forgetting both.
The others whose property is written down can be seen by putting it in the place of
the properties of a `.cfg`:

| Property | In the place of those of | With | What happens |
|---|---|---|---|
| `StopIsManual` | `StopRace.cfg` | as it is | a transition of the clock, decided before `/stop`, is carried out after it |
| `StopIsManual` | `StopRace.cfg` | `Events = {"meter"}` | failed meter reads turn STOPPED into SAFE, and the probe resumes by the clock |
| `OneDirection` | `StopRace.cfg` | `Commands = {"up"}` | `/up` while peak shaving charges and keeps on shaving |
| `ExitIdle` | `StopRace.cfg` | `Commands = {"cycle"}`, `Events = {"signal"}` | the goroutine of `/cycle` applies the state after `Stop` has idled the units |
| `AbandonedIsOver` | `InsightBus.cfg` | `Events = {"late"}` | an operation abandoned after its timeout writes |
| `StartsOnSun` | `PowerNight.cfg` | as it is | the export of peak shaving itself, when its load goes away, is taken for sun |
| `OnceAnHour` | `Telegram.cfg` | as it is | two goroutines pass the rate limit together |

Others follow from reading the code that the modules translate:

* README "Auto-recovers when reads succeed" (WattNode failure): the probe leaves SAFE
  whenever a write to the master succeeds. `/up` and `/down` start an override
  without noting the window (`controller.go:62`). The comments "don't auto-resume"
  (`controller.go:63`) and "SAFE: never auto-resume" (`controller.go:768`) are
  contradicted by the probe.
* A failed reconnection leaves handler and client of its port apart, and requests go to
  an earlier unit until the next one succeeds: the exemption in `ReachesItsUnit`.
  `client.go:180` says that both connections are recreated: when that fails the process
  panics. README "2-second minimum gap between writes" does not survive a restart
  after 1 s. `epc.go:69-70` says power-only writes are for when the mode is already
  right, which fails whenever `Agreement`'s premise does.
* README "Retries 3 times": the giving up is unreachable for any number of attempts from
  three on (theorem `GivingUpIsUnreachable`). A stuck timer kept while nothing was commanded lets a recovery start at once.
* An export guard that reaches 0 W sets no cap. Ramping down may raise a rate below
  the floor. Balancing loses what exceeds the emptiest inverter's cap. A starvation
  timer from before a SAFE mode or a night may end a later charge early.
* `CycleInverters` leaves units in standby when a call fails half way (`stranded`).
* Battery energy is integrated over gaps of any length, and across sessions.

## 10. Proofs

The core's theorems hold for any number of units, any maxima and limits, and any set of
commands and events that `SizesAssumption` and `ScenarioAssumption` admit.

* `TypeCorrect == Spec => []TypeOK` (`SolarControl_proofs`). `TypeOK` alone is not
  inductive: a follow-up such as `ChargeRamped` records the rate of the operation
  that is over, which must be within the maximum. `TypeInv` (in `SolarControlInv`)
  adds `GoodJob`, which bounds the rate of the operations that will be recorded.
* `ModesAgree == Spec => []Agreement` (`SolarAgreement_proofs`). `Agreement` speaks
  of quiet states only. `AgreeInv` describes what lies between them, while a
  handler that overlaps with no other is at work: `Lone`, that it is the only
  one; `Progress`, that the units it has passed are in the mode it writes;
  `Purposes`, that what it writes is what the fields stand for, or will stand for
  once the follow-up has recorded it; `Agreed`, that the modes fit whenever nobody
  is writing or about to. With `misrated` what the modes fit is the charge asked for,
  through every step up to the next complete command. `IInv` is `TypeInv` with `AgreeInv`; its proof has one
  lemma per group of actions and uses the type lemmas of the first module.
* `ShavingExcludesCharging == NoRateCommands => (Spec => []OneDirection)`
  (`SolarSafety_proofs`), with `/up` and `/down` excluded. It does not assume `alone`:
  the point is that other goroutines may interleave at every step. `RampInv` says
  that only `ctl` ramps or starts a charge, and that peak shaving cannot begin
  between the computation of a charge rate and its recording. Section 9 shows that
  the assumption cannot be dropped.
* `ShutdownIdles == "cycle" \notin Commands => (Spec => []ExitIdle)`. `ExitInv` says
  that while `Stop` idles the units the loops have returned (`Idling`) and
  the units passed are idle. Section 9 shows that `/cycle` must be excluded.

The client's (`InsightClient_proofs`):

* `ClientTypes == Spec => []TypeOK`.
* `RequestsReachTheirUnit == Spec => ReachesItsUnit`, with refused reconnections and
  recoveries that fail. It rests on `ClientInv`: types, `MutexInv` (a goroutine in
  `recover` or `send` is the holder, so there is one at most) and `StrayInv` (a client
  outlives its handler only while the last reconnection of its port has failed). Only
  the holder's own request moves a sending goroutine on (`SentByRequest`).
* `GapIsKept` and `ClientImplementsBank`, each under `NoRefusal`
  (`"refuse" \notin Events`): `GapKept` and `ImplementsBank`. `PairInv` adds that then a
  client is missing only during a recovery, and none outlives its handler. Hence a
  goroutine that sends has both clients bound to their handlers (`SendingIsPaired`):
  its requests reach their unit, and no call goes through a nil client. `GapInv`, that
  the measured age of the last write is at most the true one, adds the gap; the
  refinement maps every request step to `Attempt`, `Lock` and `Recover` to stuttering.
  `NoRefusal` cannot be dropped: a refused reconnection sends a write to another unit,
  which the bank does not allow, and a nil client restarts the process, which forgets
  `lastWriteAt`.

The powers' (`PowerLoop_proofs`), for any configuration that `PowerConfig` and
`LoopConfig` admit, any house and any battery readings:

* `PowerTypes`, `EveryShaveIsEarned` and `PowerStaysInLimits`, from `PowerInv` and, for
  the last, `PowerRecorded`. The limits need `RateInLimit`, since a keepalive
  distributes the recorded rate anew with another state of charge: it is the rate that
  must fit, and lemmas about the shares of `balancedChargeRates` (each is at most the
  cap, their sum at most the total) then bound what is written. The shave needs
  `TimerAgrees`, that by day the timer of the code is the auxiliary one, and
  `ShavingUntimed`.
* `RestIsLostAtLimitOnly` and `EmptierGetsMore` are about `balancedChargeRates` for
  every rate and battery reading: the shares add up to the charge asked for unless an
  emptiest inverter is at its limit, and of two inverters the emptier never gets less.
* `PowerRecorded == Spec => []PowerIsRecorded`. With `PowerInv` it is inductive: every
  step that changes a rate writes it, and those that write nothing keep both. The
  keepalive needs most: it skips shares of 0 and leaves idle inverters idle, so its
  powers add up to no more than the rate only if every inverter gets a share
  (`KeepaliveFits`), which holds from 304 W on, the largest sum of the weights
  (`WeightsAreSmall`, `SharesArePositive`); hence `RoundsAway`.
* `RampsKeepSide == Spec => RampKeepsSide`. A ramp computes its step from the recorded
  rate, while the meter shows the real power, so the theorem rests on `PowerIsRecorded`.
  What remains is arithmetic: a discharge step times four inverters is at most the
  import, what `chargeTarget` gives is at most the production, and a trim that is above the
  minimum is below half of the import.
* `CapIsKept == Spec => []CapHolds`. `CapHolds` is inductive with the type invariant: an
  upward step is clamped to the cap, the guard's step sets cap and rate together, and
  a night that begins under a cap begins with the start rate.

Recovery's (`EpcRecovery_proofs`), for any hold times with the boot no longer than the
wait (`RecoveryConfig`):

* `RecoveryTypes`: the exception counter stays at its limit only because reaching it
  leads to SAFE before the loop gets back to its `select` (`FailuresActedOn`).
* `OwnBootIsUndisturbed`: while the loop's own reboot is going on, the remaining sleep
  is no shorter than the boot.
* `RebootComesLast == Spec => RebootIsLastResort`: `AttemptsTried`, that every attempt
  that has left its `clear` has called `ClearAlerts` once, and `SecondUnderWay`.
* `GivingUpIsUnreachable`: for three attempts or more the condition of the give-up branch
  is never true. `SecondUnderWay` says that two attempts are counted only while the loop
  is in a call or a restart of the second, which ends by setting the counter to 0. No
  hold time and no bound on faults enters. It is the reason why `RetriesThreeTimes` fails.
* `StandbyIsOwned`: `PassedOperate`, that a `/cycle` in its second half has set every
  unit operating that it has passed, unless an earlier one was stranded.

The bot's (`Telegram_proofs`), for any number of updates and any hour:

* `CommandsAreHandled` and `CommandsAreHandledOnce`, from `PollInv`: the batch follows
  the offset without a gap, everything below the offset has been handled, and what
  this process has handled is below the offset.
* `GoroutineIsLimited == Spec => OnceAnHourEach`, from `LimitInv`: what a goroutine has
  sent is in the bot's record unless it is about to record it (`SentIsRecorded`), so
  one that passes the check has sent nothing for an hour, and another goroutine's
  message does not change that (`PassedIsFree`).
* `AlertTypes`, from both and the channel's bound.
* `PollingImplementsQueue == Spec => ImplementsQueue`. `PollInv` gives that the next
  of a batch is the one expected, so each handled update is a `CarryOut`; a fetch is a
  `PutBehind` or a stutter, and all alert steps are stutters.

The statistics' (`SessionStats_proofs`), for any ring, windows, readings and run time:

* `PeaksAreOfReadings == Spec => []PeaksAreRolling`. `StatsInv` says that looking back
  over the ring gives the last readings of the session, as many as it holds (`Add`
  shifts what `Back` sees by one, over the wrap-around), and that reading times
  increase, so that the window is an interval (`WindowIsInterval`). `RingAverages` then
  turns `AvgOver` of the ring into the average of a window of the readings, and
  the peak steps follow from `Exceeds` being transitive.
* `NoEnergyFromGaps == Spec => []EnergyIsOfSession`: each reading adds its term to the
  sum (`EnergyOfNext`), and the first of a session at most one of less than `MaxGap`
  (`EnergyOfFirst`), since the reading before it was taken before the session.

`SumOfFirst` is a recursive function, and its lemmas are by induction over the naturals.
The library's induction theorems take an operator and cannot be instantiated here, so
`SessionStats_proofs` derives the set form (`SetInduction`: a subset of `Nat` with 0 and
every successor is `Nat`) from the well-foundedness of finite sets.

Every invariant and every action property that a passing run checks is stated by a
theorem, and so are both refinements. `ShavingExcludesCharging`, `ShutdownIdles`,
`GapIsKept` and `ClientImplementsBank` have the assumptions given with them, the others
none beyond the modules' `ASSUME`s. Only model-checked: the liveness properties (`ShutdownCompletes`,
`SafeRecovers`, `WindowWins`, `OperationsEnd`, `SunIsUsed`, `NoLastingImport`,
`NightSettles`, `StuckRecovers`, `SafeEnds`, `SafeIsTold`), which need fairness and
`ENABLED` and are beyond the prover. `NightSettles` and `SunIsUsed` depend on the figures of
the configuration besides.

## 11. Plan

Done: the core, the client, the power loops, recovery with the gateway's calls, the
bot with its alerts, and the statistics. What could be added, in this order:

1. *Abstract controller* - regimes as the operator and the clock see them, with
   `SolarControl` shown to implement it where no handlers overlap.
2. *Sessions and handlers* - `SessionStats` composed with the paths of `SolarControl`
   that start and end sessions.
3. *Proofs* - the safety cores of the liveness properties, such as what a settled night
   keeps; the refinement of the abstract controller.

## 12. Not modelled

Text formatting, configuration loading, the diagnostic tool and deployment
scripts have no behaviour to check. Register decoding (`soc.go`, `wattnode`) is
pure conversion. `NIGHT_REDUCED`, which the repository's README describes, has no
transition leading to it. Data races on Go ints and bools are modelled as atomic
reads and writes in any order, which is what they are on the target machines.
`PowerLoop` has no failing writes and no operator, so an override's exemption from
the export guard is not in it. `SessionStats` leaves out `RecordChargeRate`,
`RecordChargeEnergy`, `RecordMaxRateTime` and `RecordNightGuardEvent`, which add up or
note what they are given, and the copies for `/stats`. In `Telegram` a restart begins
with an empty history, as the code does; messages of handlers themselves are not
alerts and have no limit. The REST calls' login and one-time keys are part of each call.

## 13. Running

    tlc -workers 2 -config SolarCommands.cfg SolarControlProps
    tlc -workers 2 -config PowerDay.cfg MCPowerLoop
    tlapm SolarAgreement_proofs.tla

Each `.cfg` names its properties. The core runs use the module `SolarControlProps`,
those of the client `InsightClient`, `PowerDay` and `PowerNight` use `MCPowerLoop`, and
`EpcRecovery`, `Telegram` and `SessionStats` the module of that name with `Props`, and
`EpcRetries` uses `EpcRecoveryProps`.
Mutant operators (marked in the modules, each before the definition it distorts) are
not used by any specification: they are variants that the properties must reject.
