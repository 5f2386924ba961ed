--------------------------- MODULE SolarSafety_proofs --------------------------
(* Two things that SolarControl never does: after an orderly exit all units   *)
(* are idle unless a /cycle is under way; and without the rate commands /up   *)
(* and /down no charge rate is recorded while peak shaving is on.             *)
EXTENDS SolarAgreement_proofs

-------------------------------------------------------------------------------
(* OneDirection, without /up and /down.                                       *)

(* The follow-ups that record a charge rate.                                  *)
ChargeThens == {"rampTo", "startCharging", "setCharge"}

(* A handler may end peak shaving; only ctl may begin it, with no charge; and *)
(* only ctl takes up an operation that will record a charge rate.             *)
LEMMA RampMove ==
    ASSUME TypeInv, RampInv, NEW r \in Procs, NEW l, NEW j, Move(r, l, j),
           \/ l # "write"
           \/ j.then \notin ChargeThens
           \/ r = "ctl" /\ j.then # "setCharge" /\ ~dayDischarging',
           \/ ~dayDischarging'
           \/ dayDischarging /\ currentChargeW' = currentChargeW
           \/ r = "ctl" /\ currentChargeW' = 0
    PROVE  RampInv'
<1>1. pc'[r] = l /\ job'[r] = j
  BY DEF Move, TypeInv, PlaceOK
<1>2. \A q \in Procs \ {r} : pc'[q] = pc[q] /\ job'[q] = job[q]
  BY DEF Move, TypeInv, PlaceOK
<1>3. OneDirection'
  BY DEF RampInv, OneDirection
<1>4. ASSUME NEW q \in Procs
      PROVE  /\ pc'[q] = "write" /\ job'[q].then \in {"rampTo", "startCharging"} =>
                   q = "ctl" /\ ~dayDischarging'
             /\ ~(pc'[q] = "write" /\ job'[q].then = "setCharge")
  <2>1. CASE q = r
    BY <1>1, <2>1 DEF ChargeThens
  <2>2. CASE q # r
    BY <1>2, <2>2 DEF RampInv
  <2> QED BY <2>1, <2>2
<1> QED BY <1>3, <1>4 DEF RampInv

LEMMA RampStill ==
    ASSUME RampInv, UNCHANGED <<pc, job, dayDischarging, currentChargeW>> PROVE RampInv'
BY DEF RampInv, OneDirection

LEMMA Harmless ==
    /\ NoJob.then \notin ChargeThens
    /\ \A op, w, then : Bus(op, w, then).then = then /\ IdleAll(then).then = then
BY DEF NoJob, Bus, IdleAll, ChargeThens

(* The steps of the bus.                                                      *)
LEMMA RampBus ==
    ASSUME TypeInv, AgreeInv, RampInv, NEW p \in Procs,
           WriteOk(p) \/ WriteFails(p) \/ ApplyCurrentState(p) \/ HandlerDone(p)
    PROVE  RampInv'
<1>1. CASE WriteOk(p) \/ WriteFails(p)
  BY <1>1, RampStill DEF WriteOk, WriteFails, fields, rates, day
<1>2. CASE ApplyCurrentState(p)
  <2>1. PICK then \in {"done", "act", "run"} : then = job[p].then
    BY <1>2 DEF ApplyCurrentState, AgreeInv, Purposes
  <2>2. PICK op, w : Write(p, Bus(op, w, then))
    BY <1>2, <2>1 DEF ApplyCurrentState, IdleAll
  <2>3. Move(p, "write", Bus(op, w, then)) /\ Bus(op, w, then).then \notin ChargeThens
    BY <2>2, Harmless DEF Write, ChargeThens
  <2>4. \/ ~dayDischarging'
        \/ dayDischarging /\ currentChargeW' = currentChargeW
    BY <1>2 DEF ApplyCurrentState, rates, day
  <2> QED BY <2>3, <2>4, RampMove
<1>3. CASE HandlerDone(p)
  <2>1. Move(p, "idle", NoJob) /\ UNCHANGED <<dayDischarging, currentChargeW>>
    BY <1>3 DEF HandlerDone, Finish, GoTo, fields, rates, day
  <2> QED BY <2>1, RampMove
<1> QED BY <1>1, <1>2, <1>3

(* Entering SAFE ends peak shaving.                                           *)
LEMMA RampSafe ==
    ASSUME TypeInv, RampInv, NEW p \in Procs, EnterSafeMode(p), UNCHANGED rates
    PROVE  RampInv'
<1>1. \/ Move(p, "idle", NoJob) /\ dayDischarging' = dayDischarging
      \/ Move(p, "write", IdleAll("done")) /\ ~dayDischarging'
  BY DEF EnterSafeMode, Finish, GoTo, Write
<1>2. IdleAll("done").then \notin ChargeThens
  BY Harmless DEF ChargeThens
<1> QED BY <1>1, <1>2, RampMove DEF rates

LEMMA RampGrid ==
    ASSUME TypeInv, RampInv, GridReadOk \/ GridReadFails PROVE RampInv'
<1>1. "grid" \in Procs
  BY DEF Procs
<1>2. CASE EnterSafeMode("grid") /\ GridReadFails
  BY <1>1, <1>2, RampSafe DEF GridReadFails
<1>3. CASE UNCHANGED <<place, rates, dayDischarging>>
  BY <1>3, RampStill DEF place, rates
<1> QED BY <1>2, <1>3 DEF GridReadOk, GridReadFails, day

(* ctl, apart from the regime's logic.                                        *)
LEMMA RampControl ==
    ASSUME TypeInv, RampInv,
           \/ CycleBegin \/ CommitDay \/ CommitNight \/ CommitLowSOC
           \/ TransitionApplied \/ ActNothing
           \/ NightLowSOC \/ NightLowSOCStopped \/ NightRamp
           \/ KeepaliveBegin \/ KeepaliveOk \/ GatewayRebooted \/ IdledAfterReboot
           \/ KeepaliveFails \/ KeepaliveExc3 \/ RebootThenSafe \/ ProbeBegin \/ ProbeDone
    PROVE  RampInv'
<1>0. "ctl" \in Procs
  BY DEF Procs
<1>1. CASE CommitDay
  <2>1. Move("ctl", "apply", Bus("none", 0, "act"))
    BY <1>1 DEF CommitDay, ApplyNext
  <2>2. dayDischarging' = dayDischarging /\ currentChargeW' = 0
    BY <1>1 DEF CommitDay, day
  <2> QED BY <1>0, <2>1, <2>2, RampMove
<1>2. CASE RebootThenSafe
  BY <1>0, <1>2, RampSafe DEF RebootThenSafe
<1>3. CASE CycleBegin \/ CommitNight \/ TransitionApplied \/ ActNothing \/ NightLowSOCStopped
           \/ KeepaliveBegin \/ IdledAfterReboot \/ KeepaliveFails \/ KeepaliveExc3
  <2>1. UNCHANGED <<dayDischarging, currentChargeW>>
    BY <1>3 DEF CycleBegin, CommitNight, TransitionApplied, ActNothing, NightLowSOCStopped,
       KeepaliveBegin, IdledAfterReboot, KeepaliveFails, KeepaliveExc3, fields, rates, day
  <2>2. PICK l, j : l # "write" /\ Move("ctl", l, j)
    BY <1>3 DEF CycleBegin, CommitNight, TransitionApplied, ActNothing, NightLowSOCStopped,
       KeepaliveBegin, IdledAfterReboot, KeepaliveFails, KeepaliveExc3, GoTo, Finish, ApplyNext
  <2> QED BY <1>0, <2>1, <2>2, RampMove
<1>4. CASE CommitLowSOC \/ NightLowSOC \/ NightRamp \/ GatewayRebooted \/ ProbeBegin
  <2>1. UNCHANGED <<dayDischarging, currentChargeW>>
    BY <1>4 DEF CommitLowSOC, NightLowSOC, NightRamp, GatewayRebooted, ProbeBegin,
       fields, rates, day
  <2>2. PICK op, w, then : then \notin ChargeThens /\ Write("ctl", Bus(op, w, then))
    BY <1>4 DEF CommitLowSOC, NightLowSOC, NightRamp, GatewayRebooted, ProbeBegin,
       IdleAll, ChargeThens
  <2> QED BY <1>0, <2>1, <2>2, Harmless, RampMove DEF Write
<1>5. CASE KeepaliveOk \/ ProbeDone
  <2>1. UNCHANGED <<dayDischarging, currentChargeW>>
    BY <1>5 DEF KeepaliveOk, ProbeDone, rates, day
  <2>2. PICK l, j : Move("ctl", l, j) /\ (l # "write" \/ j = IdleAll("standby"))
    BY <1>5 DEF KeepaliveOk, ProbeDone, Finish, GoTo, ApplyNext, Write
  <2>3. IdleAll("standby").then \notin ChargeThens
    BY Harmless DEF ChargeThens
  <2> QED BY <1>0, <2>1, <2>2, <2>3, RampMove
<1> QED BY <1>1, <1>2, <1>3, <1>4, <1>5

(* runDayChargeLogic.                                                         *)
LEMMA RampDay ==
    ASSUME TypeInv, RampInv,
           \/ ShaveStop \/ ShaveRamp \/ ShaveToCharge \/ ShaveStart
           \/ ChargeStart \/ ChargeRamp \/ ChargeRamped \/ ChargeStop
    PROVE  RampInv'
<1>0. "ctl" \in Procs
  BY DEF Procs
<1>1. CASE ShaveStop \/ ChargeRamp
  <2>1. ~dayDischarging'
    BY <1>1 DEF ShaveStop, ChargeRamp, day
  <2>2. PICK op, w, then : then # "setCharge" /\ Write("ctl", Bus(op, w, then))
    BY <1>1 DEF ShaveStop, ChargeRamp, IdleAll
  <2> QED BY <1>0, <2>1, <2>2, Harmless, RampMove DEF Write
<1>2. CASE ShaveRamp \/ ShaveStart \/ ChargeStart \/ ChargeStop
  <2>1. \/ ~dayDischarging'
        \/ dayDischarging /\ currentChargeW' = currentChargeW
        \/ currentChargeW' = 0
    BY <1>2 DEF ShaveRamp, ShaveStart, ChargeStart, ChargeStop, day
  <2>2. PICK op, w : Write("ctl", Bus(op, w, "done"))
    BY <1>2 DEF ShaveRamp, ShaveStart, ChargeStart, ChargeStop, IdleAll
  <2>3. "done" \notin ChargeThens
    BY DEF ChargeThens
  <2> QED BY <1>0, <2>1, <2>2, <2>3, Harmless, RampMove DEF Write
<1>3. CASE ShaveToCharge \/ ChargeRamped
  <2>1. ~dayDischarging /\ UNCHANGED dayDischarging
    BY <1>0, <1>3 DEF ShaveToCharge, ChargeRamped, Done, RampInv, day
  <2>2. PICK l, j : Move("ctl", l, j) /\ (l # "write" \/ \E w : j = Bus("charge", w, "done"))
    BY <1>3 DEF ShaveToCharge, ChargeRamped, GoTo, Write
  <2>3. l = "write" => j.then = "done"
    BY <2>2, Harmless
  <2>4. "done" \notin ChargeThens
    BY DEF ChargeThens
  <2> QED BY <1>0, <2>1, <2>2, <2>3, <2>4, RampMove
<1> QED BY <1>1, <1>2, <1>3

(* The command handlers but HandleUp and HandleDown, and their goroutines.    *)
LEMMA RampOperator ==
    ASSUME TypeInv, RampInv,
           \/ ManualStop \/ ManualStart \/ ManualCharge \/ ManualDischarge \/ HandleCycle
           \/ SetChargeRate \/ SetDischargeRate \/ CycleDone
    PROVE  RampInv'
<1>0. "tg" \in Procs /\ "cyc" \in Procs
  BY DEF Procs
<1>1. CASE SetChargeRate
  BY <1>0, <1>1 DEF SetChargeRate, Done, RampInv
<1>2. CASE ManualStop
  <2>1. Move("tg", "write", IdleAll("done")) /\ ~dayDischarging'
    BY <1>2 DEF ManualStop, Write
  <2>2. IdleAll("done").then \notin ChargeThens
    BY Harmless DEF ChargeThens
  <2> QED BY <1>0, <2>1, <2>2, RampMove
<1>3. CASE ManualStart \/ ManualCharge \/ ManualDischarge
  <2>1. Move("tg", "apply", Bus("none", 0, "done"))
    BY <1>3 DEF ManualStart, ManualCharge, ManualDischarge, ManualTo, ApplyNext
  <2>2. \/ ~dayDischarging'
        \/ dayDischarging' = dayDischarging /\ currentChargeW' = currentChargeW
    BY <1>3 DEF ManualStart, ManualCharge, ManualDischarge, ManualTo, Command, rates
  <2>3. dayDischarging \in BOOLEAN
    BY DEF TypeInv, FlagsOK
  <2> QED BY <1>0, <2>1, <2>2, <2>3, RampMove
<1>4. CASE HandleCycle \/ SetDischargeRate \/ CycleDone
  <2>1. UNCHANGED <<dayDischarging, currentChargeW>>
    BY <1>4 DEF HandleCycle, SetDischargeRate, CycleDone, Command, fields, rates, day
  <2>2. PICK p, l, j : p \in {"tg", "cyc"} /\ l # "write" /\ Move(p, l, j)
    BY <1>4 DEF HandleCycle, SetDischargeRate, CycleDone, GoTo, Finish, ApplyNext
  <2> QED BY <1>0, <2>1, <2>2, RampMove
<1> QED BY <1>1, <1>2, <1>3, <1>4

(* main, the process and its clock.                                           *)
LEMMA RampMain ==
    ASSUME TypeInv, RampInv,
           \/ ControllerStart \/ LoopsStart \/ StopIdle \/ Exit
           \/ (\E p \in Loops : LoopExit(p))
           \/ Signal \/ WindowFlip \/ UNCHANGED vars
    PROVE  RampInv'
<1>1. UNCHANGED <<dayDischarging, currentChargeW>>
  BY DEF ControllerStart, LoopsStart, StopIdle, Exit, LoopExit, Signal, WindowFlip, vars,
     fields, rates, day
<1>2. CASE Exit
  BY <1>1, <1>2 DEF Exit, RampInv, OneDirection
<1>3. CASE Signal \/ WindowFlip \/ UNCHANGED vars
  BY <1>1, <1>3, RampStill DEF Signal, WindowFlip, vars, place
<1>4. CASE ControllerStart \/ LoopsStart \/ StopIdle \/ (\E p \in Loops : LoopExit(p))
  <2>1. PICK p, l, j : /\ p \in Procs
                       /\ Move(p, l, j)
                       /\ l # "write" \/ j = IdleAll("exit")
    BY <1>4 DEF ControllerStart, LoopsStart, StopIdle, LoopExit, GoTo, Finish, ApplyNext,
       Write, Procs, Loops
  <2>2. IdleAll("exit").then \notin ChargeThens
    BY Harmless DEF ChargeThens
  <2> QED BY <1>1, <2>1, <2>2, RampMove
<1> QED BY <1>2, <1>3, <1>4

LEMMA RampInit == Init => RampInv
<1> SUFFICES ASSUME Init PROVE RampInv
  OBVIOUS
<1>1. \A p \in Procs : pc[p] = "write" => job[p].then = "start"
  BY DEF Init, StartPc, StartJob, FirstJob, IdleAll, Bus
<1> QED BY <1>1 DEF Init, RampInv, OneDirection

LEMMA RampStart == ProcessStart => RampInv'
<1> SUFFICES ASSUME ProcessStart PROVE RampInv'
  OBVIOUS
<1>1. \A p \in Procs : pc'[p] = "write" => job'[p].then = "start"
  BY DEF ProcessStart, StartPc, StartJob, FirstJob, IdleAll, Bus
<1> QED BY <1>1 DEF ProcessStart, RampInv, OneDirection

NoRateCommands == {"up", "down"} \cap Commands = {}

LEMMA RampStep ==
    ASSUME NoRateCommands, IInv, RampInv, [Next]_vars PROVE RampInv'
<1> USE DEF IInv
<1>1. ASSUME NEW p \in Procs, Step(p) PROVE RampInv'
  <2>1. CASE WriteOk(p) \/ WriteFails(p) \/ ApplyCurrentState(p) \/ HandlerDone(p)
    BY <2>1, RampBus
  <2>2. CASE ControlStep
    BY <2>2, RampControl, RampDay DEF ControlStep
  <2>3. CASE SetChargeRate \/ SetDischargeRate \/ CycleDone
    BY <2>3, RampOperator
  <2>4. CASE ControllerStart \/ LoopsStart \/ StopIdle \/ Exit
    BY <2>4, RampMain
  <2> QED BY <1>1, <2>1, <2>2, <2>3, <2>4 DEF Step
<1>2. CASE GridReadOk \/ GridReadFails
  BY <1>2, RampGrid
<1>3. CASE CycleBegin \/ KeepaliveBegin \/ ProbeBegin
  BY <1>3, RampControl
<1>4. CASE OperatorCommand
  <2>1. ~HandleUp /\ ~HandleDown
    BY DEF NoRateCommands, HandleUp, HandleDown, Command
  <2> QED BY <1>4, <2>1, RampOperator DEF OperatorCommand
<1>5. CASE Restart \/ Crash
  BY <1>5, RampStart DEF Restart, Crash
<1>6. CASE (\E p \in Loops : LoopExit(p)) \/ Signal \/ WindowFlip \/ UNCHANGED vars
  BY <1>6, RampMain
<1> QED BY <1>1, <1>2, <1>3, <1>4, <1>5, <1>6 DEF Next

(* As long as nobody asks for a rate by /up or /down, the two rates the       *)
(* status, the keepalive and the stuck check choose from never contradict     *)
(* each other by day, however goroutines, failures and restarts interleave.   *)
THEOREM ShavingExcludesCharging == NoRateCommands => (Spec => []OneDirection)
<1> SUFFICES ASSUME NoRateCommands PROVE Spec => []OneDirection
  OBVIOUS
<1>1. Init => IInv /\ RampInv
  BY TypeInit, AgreeInit, RampInit DEF IInv
<1>2. IInv /\ RampInv /\ [Next]_vars => (IInv /\ RampInv)'
  BY TypeStep, AgreeStep, RampStep DEF IInv
<1>3. RampInv => OneDirection
  BY DEF RampInv
<1> QED BY <1>1, <1>2, <1>3, PTL DEF Spec

-------------------------------------------------------------------------------
(* ExitIdle.                                                                  *)

(* r's handler goes on, or r takes up a handler: what most actions do.        *)
Turns(r, l, j) ==
    /\ Move(r, l, j)
    /\ (Begin(r) /\ r # "cyc") \/ (~Settled(r) /\ alone' = alone)
    /\ r = "main" => l # "write" \/ j.then # "exit"
    /\ phase' \in {phase, "running"}

Ordinary == \E r \in Procs : \E l, j : Turns(r, l, j)

(* Nothing that the invariant speaks of changes, but for the signal.          *)
Idly ==
    /\ UNCHANGED <<place, mode>>
    /\ phase' = phase \/ (phase = "running" /\ phase' = "draining")

LEMMA MoveExits ==
    ASSUME TypeInv, ExitInv, NEW r \in Loops \cup {"main"}, NEW l, NEW j, Move(r, l, j),
           pc[r] # "stopped",
           r = "main" => l # "write" \/ j.then # "exit",
           phase' \in {phase, "running"}
    PROVE  ExitInv'
<1>1. r \in Procs /\ r # "cyc"
  BY DEF Procs, Loops
<1>2. /\ pc'[r] = l /\ job'[r] = j
      /\ \A q \in Procs \ {r} : pc'[q] = pc[q] /\ job'[q] = job[q]
  BY <1>1 DEF Move, TypeInv, PlaceOK
<1>3. phase # "exited" /\ phase' # "exited"
  BY <1>1 DEF ExitInv
<1>4. NoCycle'
  BY <1>1, <1>2 DEF NoCycle, ExitInv, Procs
<1>5. ~Idling'
  <2>1. CASE r = "main"
    BY <1>2, <2>1 DEF Idling
  <2>2. CASE r \in Loops
    <3>1. ~Idling
      BY <2>2 DEF ExitInv
    <3>2. "main" \in Procs \ {r}
      BY <2>2 DEF Procs, Loops
    <3> QED BY <1>2, <3>1, <3>2 DEF Idling
  <2> QED BY <2>1, <2>2
<1> QED BY <1>3, <1>4, <1>5 DEF ExitInv

LEMMA OrdinaryExits == TypeInv /\ ExitInv /\ Ordinary => ExitInv'
<1> SUFFICES ASSUME TypeInv, ExitInv, NEW r \in Procs, NEW l, NEW j, Turns(r, l, j)
             PROVE  ExitInv'
  BY DEF Ordinary
<1>1. pc[r] # "stopped" /\ r # "cyc"
  BY DEF Turns, Begin, Settled, ExitInv, NoCycle
<1> QED BY <1>1, MoveExits DEF Turns, Procs, Loops

LEMMA IdlyExits == Idly /\ ExitInv => ExitInv'
BY DEF Idly, ExitInv, ExitIdle, Idling, NoCycle, place
-------------------------------------------------------------------------------
(* Which actions are ordinary.                                                *)

LEMMA Unsettled ==
    \A p : pc[p] \notin {"idle", "stopped"} => ~Settled(p)
BY DEF Settled

LEMMA BusTurns ==
    ASSUME TypeInv, AgreeInv, NEW p \in Procs, ApplyCurrentState(p) \/ HandlerDone(p)
    PROVE  Ordinary
<1>1. ~Settled(p) /\ alone' = alone /\ phase' = phase
  BY DEF ApplyCurrentState, HandlerDone, Done, Settled, outer, ghosts
<1>2. CASE HandlerDone(p)
  <2>1. Turns(p, "idle", NoJob)
    BY <1>1, <1>2 DEF HandlerDone, Finish, GoTo, Turns
  <2> QED BY <2>1 DEF Ordinary
<1>3. CASE ApplyCurrentState(p)
  <2>1. job[p].then # "exit"
    BY <1>3 DEF ApplyCurrentState, AgreeInv, Purposes
  <2>2. PICK j : Write(p, j) /\ j.then = job[p].then
    BY <1>3 DEF ApplyCurrentState, IdleAll, Bus
  <2>3. Turns(p, "write", j)
    BY <1>1, <2>1, <2>2 DEF Write, Turns
  <2> QED BY <2>3 DEF Ordinary
<1> QED BY <1>2, <1>3

LEMMA SafeTurns ==
    ASSUME NEW p \in {"grid", "ctl"}, EnterSafeMode(p), phase' = phase,
           Begin(p) \/ (~Settled(p) /\ alone' = alone)
    PROVE  Ordinary
<1>1. p \in Procs
  BY DEF Procs
<1>2. PICK l, j : Move(p, l, j) /\ l \in {"idle", "write"}
  BY DEF EnterSafeMode, Finish, GoTo, Write
<1>3. Turns(p, l, j)
  BY <1>2 DEF Turns
<1> QED BY <1>1, <1>3 DEF Ordinary

LEMMA GridTurns ==
    ASSUME GridReadOk \/ GridReadFails
    PROVE  Ordinary \/ Idly
<1>1. CASE EnterSafeMode("grid") /\ GridReadFails
  BY <1>1, SafeTurns DEF GridReadFails, outer
<1>2. CASE UNCHANGED <<outer, place>>
  BY <1>2 DEF Idly, outer
<1> QED BY <1>1, <1>2 DEF GridReadOk, GridReadFails

LEMMA ControlTurns ==
    ASSUME ControlStep \/ KeepaliveBegin \/ ProbeBegin
    PROVE  Ordinary
<1>0. "ctl" \in Procs
  BY DEF Procs
<1>1. CASE RebootThenSafe
  BY <1>1, SafeTurns DEF RebootThenSafe, Settled, outer, ghosts
<1>2. CASE KeepaliveBegin \/ ProbeBegin
  <2>1. PICK l, j : Move("ctl", l, j) /\ l \in {"keepalive", "write"}
    BY <1>2 DEF KeepaliveBegin, ProbeBegin, Write
  <2>2. Turns("ctl", l, j)
    BY <1>2, <2>1 DEF KeepaliveBegin, ProbeBegin, Turns, outer
  <2> QED BY <1>0, <2>2 DEF Ordinary
<1>3. CASE ControlStep /\ ~RebootThenSafe
  <2>1. ~Settled("ctl") /\ alone' = alone /\ phase' = phase
    BY <1>3 DEF ControlStep, CommitDay, CommitNight, CommitLowSOC, TransitionApplied,
       ActNothing, DayAct, ShaveStop, ShaveRamp, ShaveToCharge, ShaveStart, ChargeStart,
       ChargeRamp, ChargeRamped, ChargeStop, NightLowSOC, NightLowSOCStopped, NightRamp,
       KeepaliveOk, GatewayRebooted, IdledAfterReboot, KeepaliveFails, KeepaliveExc3,
       ProbeDone, Done, Settled, outer, ghosts
  <2>2. \E l, j : Move("ctl", l, j)
    <3>1. CASE CommitDay \/ CommitNight \/ CommitLowSOC \/ TransitionApplied \/ ActNothing
      BY <3>1 DEF CommitDay, CommitNight, CommitLowSOC, TransitionApplied, ActNothing,
         ApplyNext, Write, GoTo, Finish
    <3>2. CASE ShaveStop \/ ShaveRamp \/ ShaveToCharge \/ ShaveStart
      BY <3>2 DEF ShaveStop, ShaveRamp, ShaveToCharge, ShaveStart, Write
    <3>3. CASE ChargeStart \/ ChargeRamp \/ ChargeRamped \/ ChargeStop
      BY <3>3 DEF ChargeStart, ChargeRamp, ChargeRamped, ChargeStop, Write, GoTo
    <3>4. CASE NightLowSOC \/ NightLowSOCStopped \/ NightRamp
      BY <3>4 DEF NightLowSOC, NightLowSOCStopped, NightRamp, Write, GoTo, Finish
    <3>5. CASE KeepaliveOk \/ GatewayRebooted \/ IdledAfterReboot \/ KeepaliveFails
               \/ KeepaliveExc3 \/ ProbeDone
      BY <3>5 DEF KeepaliveOk, GatewayRebooted, IdledAfterReboot, KeepaliveFails,
         KeepaliveExc3, ProbeDone, Write, GoTo, Finish, ApplyNext
    <3> QED BY <1>3, <3>1, <3>2, <3>3, <3>4, <3>5 DEF ControlStep
  <2>3. PICK l, j : Move("ctl", l, j)
    BY <2>2
  <2>4. Turns("ctl", l, j)
    BY <2>1, <2>3 DEF Turns
  <2> QED BY <1>0, <2>4 DEF Ordinary
<1> QED BY <1>1, <1>2, <1>3

(* The bot's handlers, and the end of a /cycle.                               *)
LEMMA OperatorTurns ==
    ASSUME \/ ManualStop \/ ManualStart \/ ManualCharge \/ ManualDischarge
           \/ HandleUp \/ HandleDown
           \/ SetChargeRate \/ SetDischargeRate \/ CycleDone
    PROVE  Ordinary
<1>0. {"tg", "cyc"} \subseteq Procs
  BY DEF Procs
<1>1. CASE ManualStop \/ ManualStart \/ ManualCharge \/ ManualDischarge
           \/ HandleUp \/ HandleDown
  <2>1. Begin("tg") /\ phase' = phase
    BY <1>1 DEF ManualStop, ManualStart, ManualCharge, ManualDischarge, HandleUp, HandleDown,
       Command, outer
  <2>2. PICK l, j : Move("tg", l, j)
    BY <1>1 DEF ManualStop, ManualStart, ManualCharge, ManualDischarge, HandleUp, HandleDown,
       ManualTo, AskRate, Write, ApplyNext
  <2>3. Turns("tg", l, j)
    BY <2>1, <2>2 DEF Turns
  <2> QED BY <1>0, <2>3 DEF Ordinary
<1>2. CASE SetChargeRate \/ SetDischargeRate
  <2>1. Turns("tg", "idle", NoJob)
    BY <1>2 DEF SetChargeRate, SetDischargeRate, Done, Settled, Finish, GoTo, Turns, outer,
       ghosts
  <2> QED BY <1>0, <2>1 DEF Ordinary
<1>3. CASE CycleDone
  <2>1. PICK l, j : Move("cyc", l, j)
    BY <1>3 DEF CycleDone, Finish, GoTo, ApplyNext
  <2>2. Turns("cyc", l, j)
    BY <1>3, <2>1 DEF CycleDone, Settled, Turns, outer, ghosts
  <2> QED BY <1>0, <2>2 DEF Ordinary
<1> QED BY <1>1, <1>2, <1>3

LEMMA StartTurns ==
    ASSUME ControllerStart \/ LoopsStart
    PROVE  Ordinary
<1>1. ~Settled("main") /\ alone' = alone /\ phase' \in {phase, "running"}
  BY DEF ControllerStart, LoopsStart, Done, Settled, outer, ghosts
<1>2. PICK l, j : Move("main", l, j) /\ l # "write"
  BY DEF ControllerStart, LoopsStart, ApplyNext, Finish, GoTo
<1>3. Turns("main", l, j) /\ "main" \in Procs
  BY <1>1, <1>2 DEF Turns, Procs
<1> QED BY <1>3 DEF Ordinary

LEMMA TransitionExits ==
    ASSUME TypeInv, ExitInv, CycleBegin PROVE ExitInv'
<1>1. PICK l : Move("ctl", l, NoJob)
  BY DEF CycleBegin, GoTo
<1>2. pc["ctl"] = "idle" /\ phase' = phase
  BY DEF CycleBegin, Begin, outer
<1> QED BY <1>1, <1>2, MoveExits DEF Loops

LEMMA LoopExits ==
    ASSUME TypeInv, ExitInv, NEW p \in Loops, LoopExit(p) PROVE ExitInv'
<1>1. /\ pc[p] = "idle" /\ Move(p, "stopped", NoJob) /\ phase' = phase
  BY DEF LoopExit, GoTo, outer
<1> QED BY <1>1, MoveExits

(* The writes themselves.                                                     *)
LEMMA WriteExits ==
    ASSUME TypeInv, ExitInv, NEW p \in Procs, WriteOk(p) \/ WriteFails(p)
    PROVE  ExitInv'
<1>1. /\ pc[p] = "write" /\ at[p] <= N
      /\ UNCHANGED <<phase, pc, job>>
  BY DEF WriteOk, WriteFails
<1>2. phase # "exited" /\ phase' # "exited"
  BY <1>1 DEF ExitInv
<1>3. CASE ~Idling
  BY <1>1, <1>2, <1>3 DEF ExitInv, Idling, NoCycle
<1>4. CASE Idling
  <2>1. p = "main"
    BY <1>1, <1>4 DEF ExitInv, NoCycle, Procs, Loops
  <2>2. CASE WriteFails(p)
    <3>1. failed'["main"]
      BY <2>1, <2>2 DEF WriteFails, TypeInv, PlaceOK
    <3> QED BY <1>1, <1>2, <1>4, <3>1 DEF ExitInv, Idling, NoCycle
  <2>3. CASE WriteOk(p)
    <3>1. job["main"] = IdleAll("exit")
      BY <1>4 DEF ExitInv
    <3>2. /\ mode' = [mode EXCEPT ![at["main"]] = "idle"]
          /\ at' = [at EXCEPT !["main"] = IF at["main"] = N THEN N + 1 ELSE @ + 1]
          /\ failed' = failed
      BY <2>1, <2>3, <3>1 DEF WriteOk, Targets, LastUnit, IdleAll, Bus
    <3>3. at["main"] \in 1..N /\ at'["main"] = at["main"] + 1
      BY <1>1, <2>1, <3>2, Sizes DEF TypeInv, PlaceOK
    <3>4. ASSUME ~failed["main"], NEW u \in Units, u < at'["main"]
          PROVE  mode'[u] = "idle"
      BY <1>4, <3>2, <3>3, <3>4, Sizes DEF ExitInv, TypeInv, OuterOK, Units
    <3> QED BY <1>1, <1>2, <1>4, <3>2, <3>4 DEF ExitInv, Idling, NoCycle
  <2> QED BY <2>2, <2>3
<1> QED BY <1>3, <1>4

(* Stop idles the inverters, and the process ends.                            *)
LEMMA StopExits ==
    ASSUME TypeInv, ExitInv, StopIdle \/ Exit PROVE ExitInv'
<1>1. CASE StopIdle
  <2>1. /\ phase = "draining" /\ phase' = "draining"
        /\ \A p \in Loops : pc[p] = "stopped"
        /\ Move("main", "write", IdleAll("exit"))
    BY <1>1 DEF StopIdle, Write, outer
  <2>2. /\ job'["main"] = IdleAll("exit") /\ at'["main"] = 1
        /\ \A p \in Procs \ {"main"} : pc'[p] = pc[p]
    BY <2>1 DEF Move, TypeInv, PlaceOK, Procs
  <2>3. (\A p \in Loops : pc'[p] = "stopped") /\ NoCycle'
    BY <2>1, <2>2 DEF Procs, Loops, ExitInv, NoCycle
  <2>4. \A u \in Units : ~(u < at'["main"])
    BY <2>2, Sizes DEF Units
  <2> QED BY <2>1, <2>2, <2>3, <2>4 DEF ExitInv
<1>2. CASE Exit
  <2>1. Idling /\ at["main"] = N + 1 /\ mode' = mode /\ failed' = failed
    BY <1>2 DEF Exit, Done, Idling, place
  <2>2. ~failed["main"] => \A u \in Units : mode[u] = "idle"
    BY <2>1, Sizes DEF ExitInv, Units
  <2>3. phase' = "exited" /\ \A p \in Procs : pc'[p] = "stopped"
    BY <1>2 DEF Exit
  <2> QED BY <2>1, <2>2, <2>3 DEF ExitInv, ExitIdle, Idling, NoCycle, Procs
<1> QED BY <1>1, <1>2

LEMMA ExitInit == Init => ExitInv
<1> SUFFICES ASSUME Init PROVE ExitInv
  OBVIOUS
<1>1. pc["cyc"] = "idle" /\ job["main"].then = "start"
  BY DEF Init, StartPc, StartJob, FirstJob, IdleAll, Bus, Procs
<1> QED BY <1>1 DEF Init, ExitInv, Idling, NoCycle

LEMMA ExitStart == ProcessStart => ExitInv'
<1> SUFFICES ASSUME ProcessStart PROVE ExitInv'
  OBVIOUS
<1>1. pc'["cyc"] = "idle" /\ job'["main"].then = "start"
  BY DEF ProcessStart, StartPc, StartJob, FirstJob, IdleAll, Bus, Procs
<1> QED BY <1>1 DEF ProcessStart, ExitInv, Idling, NoCycle

LEMMA ClockIdles == Signal \/ WindowFlip \/ UNCHANGED vars => Idly
BY DEF Signal, WindowFlip, vars, outer, fields, ghosts, Idly
-------------------------------------------------------------------------------
(* Every step is ordinary, idle, or one of the lemmas' actions.               *)
LEMMA StepCases ==
    ASSUME TypeInv, AgreeInv, [Next]_vars
    PROVE  \/ Ordinary \/ Idly \/ CycleBegin \/ HandleCycle \/ ProcessStart
           \/ \E p \in Procs : WriteOk(p) \/ WriteFails(p)
           \/ \E p \in Loops : LoopExit(p)
           \/ StopIdle \/ Exit
<1>1. ASSUME NEW p \in Procs, Step(p), ~WriteOk(p), ~WriteFails(p), ~StopIdle, ~Exit
      PROVE  Ordinary
  BY <1>1, BusTurns, ControlTurns, OperatorTurns, StartTurns DEF Step
<1>2. CASE OperatorCommand
  BY <1>2, OperatorTurns DEF OperatorCommand
<1>3. CASE GridReadOk \/ GridReadFails \/ KeepaliveBegin \/ ProbeBegin
  BY <1>3, GridTurns, ControlTurns
<1>4. CASE Signal \/ WindowFlip \/ UNCHANGED vars
  BY <1>4, ClockIdles
<1> QED BY <1>1, <1>2, <1>3, <1>4 DEF Next, Restart, Crash

LEMMA ExitStep ==
    ASSUME "cycle" \notin Commands, IInv, ExitInv, [Next]_vars PROVE ExitInv'
<1>1. ~HandleCycle
  BY DEF HandleCycle, Command
<1> QED BY <1>1, StepCases, OrdinaryExits, IdlyExits, TransitionExits, ExitStart,
           WriteExits, LoopExits, StopExits DEF IInv

(* When Controller.Stop has idled the inverters without an error, nothing     *)
(* sets one of them to charge or discharge before the process ends, provided  *)
(* no /cycle was ever asked for.                                              *)
THEOREM ShutdownIdles == "cycle" \notin Commands => (Spec => []ExitIdle)
<1> SUFFICES ASSUME "cycle" \notin Commands PROVE Spec => []ExitIdle
  OBVIOUS
<1>1. Init => IInv /\ ExitInv
  BY TypeInit, AgreeInit, ExitInit DEF IInv
<1>2. IInv /\ ExitInv /\ [Next]_vars => (IInv /\ ExitInv)'
  BY TypeStep, AgreeStep, ExitStep DEF IInv
<1>3. ExitInv => ExitIdle
  BY DEF ExitInv, ExitIdle
<1> QED BY <1>1, <1>2, <1>3, PTL DEF Spec
===============================================================================
