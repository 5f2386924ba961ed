-------------------------- MODULE SolarControl_proofs --------------------------
(* Proofs about SolarControl, for any number of inverters, any rates and      *)
(* limits, and any choice of commands and events.                             *)
EXTENDS SolarControlInv, TLAPS

-------------------------------------------------------------------------------
(* Types                                                                      *)

LEMMA Sizes ==
    /\ N \in Nat /\ N > 0
    /\ MaxChargeW \in Nat /\ MaxChargeW > 0
    /\ MaxDischargeW \in Nat /\ MaxDischargeW > 0
    /\ MaxReadFailures \in Nat /\ MaxReadFailures > 0
    /\ MaxWriteFail \in Nat /\ MaxWriteFail > 0
BY SizesAssumption

(* The bus operations the handlers make are well formed.                      *)
LEMMA JobTypes ==
    ASSUME NEW op \in Ops, NEW w \in Nat, NEW then \in Thens,
           then \in {"rampTo", "setCharge"} => w <= MaxChargeW,
           then = "setDischarge" => w <= MaxDischargeW
    PROVE  Bus(op, w, then) \in GoodJob
BY DEF Bus, GoodJob, JobType

LEMMA IdleTypes ==
    /\ NoJob \in GoodJob
    /\ \A then \in Thens : IdleAll(then) \in GoodJob /\ Bus("none", 0, then) \in GoodJob
<1>1. ASSUME NEW then \in Thens PROVE IdleAll(then) \in GoodJob
  BY JobTypes, Sizes DEF IdleAll, Ops
<1>2. ASSUME NEW then \in Thens PROVE Bus("none", 0, then) \in GoodJob
  BY JobTypes, Sizes DEF Ops
<1> QED BY <1>1, <1>2 DEF NoJob, Thens

(* Moving a goroutine keeps the types of all of them.                         *)
LEMMA Moves ==
    ASSUME PlaceOK, NEW p \in Procs
    PROVE  /\ \A l \in PcSet, j \in GoodJob : Move(p, l, j) => PlaceOK'
           /\ \A j \in GoodJob : Write(p, j) => PlaceOK'
           /\ \A then \in Thens : Write(p, IdleAll(then)) => PlaceOK'
           /\ \A then \in Thens : ApplyNext(p, then) => PlaceOK'
           /\ \A l \in PcSet : GoTo(p, l) => PlaceOK'
           /\ Finish(p) => PlaceOK'
<1>1. ASSUME NEW l \in PcSet, NEW j \in GoodJob, Move(p, l, j) PROVE PlaceOK'
  BY <1>1, Sizes DEF Move, PlaceOK
<1>2. {"write", "apply", "idle"} \subseteq PcSet
  BY DEF PcSet
<1> QED BY <1>1, <1>2, IdleTypes DEF Write, ApplyNext, GoTo, Finish

(* Initially the types hold, and again when the process starts anew.          *)
LEMMA TypeInit == Init => TypeInv
<1> SUFFICES ASSUME Init PROVE TypeInv
  OBVIOUS
<1>1. PlaceOK
  BY IdleTypes, Sizes DEF Init, PlaceOK, StartPc, StartJob, FirstJob, StartAt, NoneFailed, PcSet, Thens
<1>2. FieldsOK
  BY Sizes DEF Init, FieldsOK, States
<1>3. FlagsOK
  BY DEF Init, FlagsOK
<1> QED BY <1>1, <1>2, <1>3 DEF Init, OuterOK, TypeInv

LEMMA TypeStart == TypeInv /\ ProcessStart => TypeInv'
<1> SUFFICES ASSUME TypeInv, ProcessStart PROVE TypeInv'
  OBVIOUS
<1>1. PlaceOK'
  BY IdleTypes, Sizes
  DEF ProcessStart, PlaceOK, StartPc, StartJob, FirstJob, StartAt, NoneFailed, PcSet, Thens
<1>2. FieldsOK'
  BY Sizes DEF ProcessStart, FieldsOK, States
<1>3. FlagsOK'
  BY DEF ProcessStart, FlagsOK
<1> QED BY <1>1, <1>2, <1>3 DEF ProcessStart, OuterOK, TypeInv

(* The steps of the bus.                                                      *)
LEMMA TypeBus ==
    ASSUME TypeInv, NEW p \in Procs,
           WriteOk(p) \/ WriteFails(p) \/ ApplyCurrentState(p) \/ HandlerDone(p)
    PROVE  TypeInv'
<1> USE DEF TypeInv
<1>1. CASE WriteOk(p) \/ WriteFails(p)
  <2>1. at[p] \in 1..(N + 1) /\ at[p] <= N
    BY <1>1 DEF WriteOk, WriteFails, PlaceOK
  <2>2. at[p] + 1 \in 1..(N + 1) /\ N + 1 \in 1..(N + 1)
    BY <2>1, Sizes
  <2>3. PlaceOK'
    BY <1>1, <2>1, <2>2 DEF WriteOk, WriteFails, PlaceOK
  <2>4. \A m \in Targets(job[p]) : m \in Modes
    BY DEF Targets, Modes
  <2>5. OuterOK'
    BY <1>1, <2>4 DEF WriteOk, WriteFails, OuterOK
  <2>6. FieldsOK'
    BY <1>1 DEF WriteOk, WriteFails, FieldsOK, fields, rates, day, manual, fails
  <2>7. FlagsOK'
    BY <1>1 DEF WriteOk, WriteFails, FlagsOK, fields, rates, day, manual, fails
  <2> QED BY <2>3, <2>5, <2>6, <2>7
<1>2. CASE ApplyCurrentState(p)
  <2>1. job[p] \in GoodJob /\ job[p].then \in Thens
    BY DEF PlaceOK, GoodJob, JobType
  <2>2. Bus("discharge", 1, job[p].then) \in GoodJob
    BY <2>1, JobTypes, Sizes DEF Ops
  <2>3. PlaceOK'
    BY <1>2, <2>1, <2>2, Moves DEF ApplyCurrentState
  <2>4. FieldsOK'
    BY <1>2, Sizes DEF ApplyCurrentState, FieldsOK, rates, day, manual, fails
  <2>5. FlagsOK'
    BY <1>2 DEF ApplyCurrentState, FlagsOK, day, manual, ghosts
  <2> QED BY <1>2, <2>3, <2>4, <2>5 DEF ApplyCurrentState, OuterOK, outer
<1>3. CASE HandlerDone(p)
  <2>1. PlaceOK'
    BY <1>3, Moves DEF HandlerDone
  <2> QED BY <1>3, <2>1
          DEF HandlerDone, FieldsOK, FlagsOK, OuterOK, fields, rates, day, manual, fails, outer, ghosts
<1> QED BY <1>1, <1>2, <1>3

(* A move that changes nothing but the goroutine's place.                     *)
LEMMA TypeStill ==
    ASSUME TypeInv, PlaceOK', UNCHANGED <<outer, fields, ghosts>>
    PROVE  TypeInv'
BY DEF TypeInv, FieldsOK, FlagsOK, OuterOK, outer, fields, rates, day, manual, fails, ghosts

LEMMA TypeSafe ==
    ASSUME TypeInv, NEW p \in Procs, EnterSafeMode(p)
    PROVE  /\ PlaceOK'
           /\ state' \in States /\ dayDischarging' \in BOOLEAN
           /\ consecutiveWriteFail' \in 0..MaxWriteFail
<1>1. PlaceOK'
  BY Moves DEF EnterSafeMode, TypeInv, Thens
<1>2. state' \in States /\ consecutiveWriteFail' \in 0..MaxWriteFail
  BY Sizes DEF EnterSafeMode, TypeInv, FieldsOK, States
<1>3. dayDischarging' \in BOOLEAN
  BY DEF EnterSafeMode, TypeInv, FlagsOK
<1> QED BY <1>1, <1>2, <1>3

(* The grid goroutine.                                                        *)
LEMMA TypeGrid == TypeInv /\ (GridReadOk \/ GridReadFails) => TypeInv'
<1> SUFFICES ASSUME TypeInv, GridReadOk \/ GridReadFails PROVE TypeInv'
  OBVIOUS
<1> USE DEF TypeInv
<1>1. CASE GridReadOk
  <2>1. PlaceOK' /\ OuterOK'
    BY <1>1 DEF GridReadOk, PlaceOK, OuterOK, place, outer
  <2>2. FieldsOK'
    BY <1>1, Sizes DEF GridReadOk, FieldsOK, rates
  <2>3. FlagsOK'
    BY <1>1 DEF GridReadOk, Begin, FlagsOK, day, manual
  <2> QED BY <2>1, <2>2, <2>3
<1>2. CASE GridReadFails
  <2>0. "grid" \in Procs
    BY DEF Procs
  <2>1. /\ PlaceOK'
        /\ state' \in States /\ dayDischarging' \in BOOLEAN
        /\ consecutiveWriteFail' \in 0..MaxWriteFail
    <3>1. CASE consecutiveFail' >= MaxReadFailures
      BY <1>2, <2>0, <3>1, TypeSafe DEF GridReadFails
    <3>2. CASE ~(consecutiveFail' >= MaxReadFailures)
      BY <1>2, <3>2 DEF GridReadFails, PlaceOK, FieldsOK, FlagsOK, place
    <3> QED BY <3>1, <3>2
  <2>2. consecutiveFail' \in 0..MaxReadFailures
    BY <1>2, Sizes DEF GridReadFails, FieldsOK
  <2>3. FieldsOK'
    BY <1>2, <2>1, <2>2 DEF GridReadFails, FieldsOK, rates
  <2>4. FlagsOK'
    BY <1>2, <2>1 DEF GridReadFails, Begin, FlagsOK, manual
  <2> QED BY <1>2, <2>1, <2>3, <2>4 DEF GridReadFails, OuterOK, outer
<1> QED BY <1>1, <1>2

(* checkTimeTransitions.                                                      *)
LEMMA TypeTransitions ==
    TypeInv /\ (CycleBegin \/ CommitDay \/ CommitNight \/ CommitLowSOC \/
                TransitionApplied \/ ActNothing) => TypeInv'
<1> SUFFICES ASSUME TypeInv,
                    CycleBegin \/ CommitDay \/ CommitNight \/ CommitLowSOC \/
                    TransitionApplied \/ ActNothing
             PROVE  TypeInv'
  OBVIOUS
<1> USE DEF TypeInv
<1>0. "ctl" \in Procs
  BY DEF Procs
<1>1. CASE CycleBegin
  <2>1. PlaceOK'
    BY <1>0, <1>1, Moves DEF CycleBegin, PcSet
  <2>2. FieldsOK'
    BY <1>1, Sizes DEF CycleBegin, FieldsOK, rates, fails
  <2>3. FlagsOK'
    BY <1>1 DEF CycleBegin, FlagsOK, Begin, day
  <2> QED BY <1>1, <2>1, <2>2, <2>3 DEF CycleBegin, OuterOK, outer
<1>2. CASE CommitDay
  <2>1. PlaceOK'
    BY <1>0, <1>2, Moves DEF CommitDay, Thens
  <2>2. FieldsOK'
    BY <1>2, Sizes DEF CommitDay, FieldsOK, rates, fails, States
  <2>3. FlagsOK'
    BY <1>2 DEF CommitDay, FlagsOK, day, manual, ghosts
  <2> QED BY <1>2, <2>1, <2>2, <2>3 DEF CommitDay, OuterOK, outer
<1>3. CASE CommitNight
  <2>1. PlaceOK'
    BY <1>0, <1>3, Moves DEF CommitNight, Thens
  <2>2. FieldsOK'
    BY <1>3, Sizes DEF CommitNight, FieldsOK, rates, fails, States
  <2>3. FlagsOK'
    BY <1>3 DEF CommitNight, FlagsOK, day, manual, ghosts
  <2> QED BY <1>3, <2>1, <2>2, <2>3 DEF CommitNight, OuterOK, outer
<1>4. CASE CommitLowSOC
  <2>1. PlaceOK'
    BY <1>0, <1>4, Moves DEF CommitLowSOC, Thens
  <2>2. FieldsOK'
    BY <1>4, Sizes DEF CommitLowSOC, FieldsOK, rates, fails, States
  <2>3. FlagsOK'
    BY <1>4 DEF CommitLowSOC, FlagsOK, day, manual, ghosts
  <2> QED BY <1>4, <2>1, <2>2, <2>3 DEF CommitLowSOC, OuterOK, outer
<1>5. CASE TransitionApplied
  <2>1. PlaceOK'
    BY <1>0, <1>5, Moves DEF TransitionApplied, PcSet
  <2> QED BY <1>5, <2>1, TypeStill DEF TransitionApplied
<1>6. CASE ActNothing
  <2>1. PlaceOK'
    BY <1>0, <1>6, Moves DEF ActNothing
  <2> QED BY <1>6, <2>1, TypeStill DEF ActNothing
<1> QED BY <1>1, <1>2, <1>3, <1>4, <1>5, <1>6

(* runDayChargeLogic.                                                         *)
LEMMA TypeDay ==
    TypeInv /\ (ShaveStop \/ ShaveRamp \/ ShaveToCharge \/ ShaveStart \/
                ChargeStart \/ ChargeRamp \/ ChargeRamped \/ ChargeStop) => TypeInv'
<1> SUFFICES ASSUME TypeInv,
                    ShaveStop \/ ShaveRamp \/ ShaveToCharge \/ ShaveStart \/
                    ChargeStart \/ ChargeRamp \/ ChargeRamped \/ ChargeStop
             PROVE  TypeInv'
  OBVIOUS
<1> USE DEF TypeInv
<1>0. "ctl" \in Procs
  BY DEF Procs
<1>1. CASE ShaveStop
  <2>1. PlaceOK'
    BY <1>0, <1>1, Moves DEF ShaveStop, Thens
  <2>2. FieldsOK'
    BY <1>1, Sizes DEF ShaveStop, FieldsOK, DayAct, rates, fails
  <2>3. FlagsOK'
    BY <1>1 DEF ShaveStop, FlagsOK, DayAct, day, manual, ghosts
  <2> QED BY <1>1, <2>1, <2>2, <2>3 DEF ShaveStop, OuterOK, outer, DayAct
<1>2. CASE ShaveRamp
  <2>1. PlaceOK'
    BY <1>0, <1>2, Moves, JobTypes, Sizes DEF ShaveRamp, Ops, Thens
  <2>2. FieldsOK'
    BY <1>2, <1>0, Sizes DEF ShaveRamp, FieldsOK, DayAct, rates, fails
  <2>3. FlagsOK'
    BY <1>2 DEF ShaveRamp, FlagsOK, DayAct, day, manual, ghosts
  <2> QED BY <1>2, <2>1, <2>2, <2>3 DEF ShaveRamp, OuterOK, outer, DayAct
<1>3. CASE ShaveToCharge
  <2>1. PlaceOK'
    BY <1>0, <1>3, Moves, JobTypes, Sizes DEF ShaveToCharge, Ops, Thens
  <2>2. FieldsOK'
    BY <1>3, <1>0, Sizes DEF ShaveToCharge, FieldsOK, rates, fails
  <2>3. FlagsOK'
    BY <1>3 DEF ShaveToCharge, FlagsOK, day, manual, ghosts
  <2> QED BY <1>3, <2>1, <2>2, <2>3 DEF ShaveToCharge, OuterOK, outer
<1>4. CASE ShaveStart
  <2>1. PlaceOK'
    BY <1>0, <1>4, Moves, JobTypes, Sizes DEF ShaveStart, Ops, Thens
  <2>2. FieldsOK'
    BY <1>4, Sizes DEF ShaveStart, FieldsOK, DayAct, rates, fails
  <2>3. FlagsOK'
    BY <1>4 DEF ShaveStart, FlagsOK, DayAct, day, manual, ghosts
  <2> QED BY <1>4, <2>1, <2>2, <2>3 DEF ShaveStart, OuterOK, outer, DayAct
<1>5. CASE ChargeStart
  <2>1. PlaceOK'
    BY <1>0, <1>5, Moves, JobTypes, Sizes DEF ChargeStart, Ops, Thens
  <2>2. FieldsOK'
    BY <1>5, <1>0, Sizes DEF ChargeStart, FieldsOK, DayAct, rates, fails
  <2>3. FlagsOK'
    BY <1>5 DEF ChargeStart, FlagsOK, DayAct, day, manual, ghosts
  <2> QED BY <1>5, <2>1, <2>2, <2>3 DEF ChargeStart, OuterOK, outer, DayAct
<1>6. CASE ChargeRamp
  <2>1. PlaceOK'
    BY <1>0, <1>6, Moves, JobTypes, Sizes DEF ChargeRamp, Ops, Thens
  <2>2. FieldsOK'
    BY <1>6, Sizes DEF ChargeRamp, FieldsOK, DayAct, rates, fails
  <2>3. FlagsOK'
    BY <1>6 DEF ChargeRamp, FlagsOK, DayAct, day, manual, ghosts
  <2> QED BY <1>6, <2>1, <2>2, <2>3 DEF ChargeRamp, OuterOK, outer, DayAct
<1>7. CASE ChargeRamped
  <2>1. PlaceOK'
    BY <1>0, <1>7, Moves DEF ChargeRamped, PcSet
  <2>2. FieldsOK'
    BY <1>7, <1>0, Sizes
      DEF ChargeRamped, FieldsOK, rates, fails, Done, PlaceOK, GoodJob, JobType
  <2>3. FlagsOK'
    BY <1>7 DEF ChargeRamped, FlagsOK, day, manual, ghosts
  <2> QED BY <1>7, <2>1, <2>2, <2>3 DEF ChargeRamped, OuterOK, outer
<1>8. CASE ChargeStop
  <2>1. PlaceOK'
    BY <1>0, <1>8, Moves DEF ChargeStop, Thens
  <2>2. FieldsOK'
    BY <1>8, Sizes DEF ChargeStop, FieldsOK, rates, fails
  <2>3. FlagsOK'
    BY <1>8 DEF ChargeStop, FlagsOK, day, manual, ghosts
  <2> QED BY <1>8, <2>1, <2>2, <2>3 DEF ChargeStop, OuterOK, outer
<1> QED BY <1>1, <1>2, <1>3, <1>4, <1>5, <1>6, <1>7, <1>8

(* runNightDischargeLogic.                                                    *)
LEMMA TypeNight ==
    TypeInv /\ (NightLowSOC \/ NightLowSOCStopped \/ NightRamp) => TypeInv'
<1> SUFFICES ASSUME TypeInv,
                    NightLowSOC \/ NightLowSOCStopped \/ NightRamp
             PROVE  TypeInv'
  OBVIOUS
<1> USE DEF TypeInv
<1>0. "ctl" \in Procs
  BY DEF Procs
<1>1. CASE NightLowSOC
  <2>1. PlaceOK'
    BY <1>0, <1>1, Moves DEF NightLowSOC, Thens
  <2> QED BY <1>1, <2>1, TypeStill DEF NightLowSOC
<1>2. CASE NightLowSOCStopped
  <2>1. PlaceOK'
    BY <1>0, <1>2, Moves DEF NightLowSOCStopped
  <2>2. FieldsOK'
    BY <1>2, Sizes DEF NightLowSOCStopped, FieldsOK, rates, fails, States
  <2>3. FlagsOK'
    BY <1>2 DEF NightLowSOCStopped, FlagsOK, day, manual, ghosts
  <2> QED BY <1>2, <2>1, <2>2, <2>3 DEF NightLowSOCStopped, OuterOK, outer
<1>3. CASE NightRamp
  <2>1. PlaceOK'
    BY <1>0, <1>3, Moves, JobTypes, Sizes DEF NightRamp, Ops, Thens
  <2>2. FieldsOK'
    BY <1>3, <1>0, Sizes DEF NightRamp, FieldsOK, rates, fails
  <2>3. FlagsOK'
    BY <1>3 DEF NightRamp, FlagsOK, day, manual, ghosts
  <2> QED BY <1>3, <2>1, <2>2, <2>3 DEF NightRamp, OuterOK, outer
<1> QED BY <1>1, <1>2, <1>3

(* sendKeepalive, checkEPCStuck and probeSafeModeRecovery.                    *)
LEMMA TypeKeepalive ==
    TypeInv /\ (KeepaliveBegin \/ KeepaliveOk \/ GatewayRebooted \/
                IdledAfterReboot \/ KeepaliveFails \/ KeepaliveExc3 \/
                RebootThenSafe \/ ProbeBegin \/ ProbeDone) => TypeInv'
<1> SUFFICES ASSUME TypeInv,
                    KeepaliveBegin \/ KeepaliveOk \/ GatewayRebooted \/
                    IdledAfterReboot \/ KeepaliveFails \/ KeepaliveExc3 \/
                    RebootThenSafe \/ ProbeBegin \/ ProbeDone
             PROVE  TypeInv'
  OBVIOUS
<1> USE DEF TypeInv
<1>0. "ctl" \in Procs
  BY DEF Procs
<1>1. CASE KeepaliveBegin
  <2>1. PlaceOK'
    BY <1>0, <1>1, Moves, JobTypes, Sizes DEF KeepaliveBegin, KeptRate, FieldsOK, Ops, Thens, PcSet
  <2>2. FieldsOK'
    BY <1>1, Sizes DEF KeepaliveBegin, FieldsOK, fields, rates, day, manual, fails
  <2>3. FlagsOK'
    BY <1>1
      DEF KeepaliveBegin, FlagsOK, Begin, fields, rates, day, manual, fails, ghosts
  <2> QED BY <1>1, <2>1, <2>2, <2>3 DEF KeepaliveBegin, OuterOK, outer
<1>2. CASE KeepaliveOk
  <2>1. PlaceOK'
    BY <1>0, <1>2, Moves DEF KeepaliveOk, Thens
  <2>2. FieldsOK'
    BY <1>2, Sizes DEF KeepaliveOk, FieldsOK, rates, fails
  <2>3. FlagsOK'
    BY <1>2 DEF KeepaliveOk, FlagsOK, day, manual, ghosts
  <2> QED BY <1>2, <2>1, <2>2, <2>3 DEF KeepaliveOk, OuterOK, outer
<1>3. CASE GatewayRebooted
  <2>1. PlaceOK'
    BY <1>0, <1>3, Moves DEF GatewayRebooted, Thens
  <2> QED BY <1>3, <2>1, TypeStill DEF GatewayRebooted
<1>4. CASE IdledAfterReboot
  <2>1. PlaceOK'
    BY <1>0, <1>4, Moves DEF IdledAfterReboot, Thens
  <2> QED BY <1>4, <2>1, TypeStill DEF IdledAfterReboot
<1>5. CASE KeepaliveFails
  <2>1. PlaceOK'
    BY <1>0, <1>5, Moves DEF KeepaliveFails
  <2> QED BY <1>5, <2>1, TypeStill DEF KeepaliveFails
<1>6. CASE KeepaliveExc3
  <2>1. PlaceOK'
    BY <1>0, <1>6, Moves DEF KeepaliveExc3, PcSet
  <2>2. FieldsOK'
    BY <1>6, Sizes DEF KeepaliveExc3, FieldsOK, rates, fails
  <2>3. FlagsOK'
    BY <1>6 DEF KeepaliveExc3, FlagsOK, day, manual, ghosts
  <2> QED BY <1>6, <2>1, <2>2, <2>3 DEF KeepaliveExc3, OuterOK, outer
<1>7. CASE RebootThenSafe
  <2>1. PlaceOK'
    BY <1>0, <1>7, Moves, TypeSafe DEF RebootThenSafe
  <2>2. FieldsOK'
    BY <1>7, <1>0, Sizes, TypeSafe DEF RebootThenSafe, FieldsOK, rates, fails
  <2>3. FlagsOK'
    BY <1>7, <1>0, TypeSafe DEF RebootThenSafe, FlagsOK, day, manual, ghosts
  <2> QED BY <1>7, <2>1, <2>2, <2>3 DEF RebootThenSafe, OuterOK, outer
<1>8. CASE ProbeBegin
  <2>1. PlaceOK'
    BY <1>0, <1>8, Moves, JobTypes, Sizes DEF ProbeBegin, Ops, Thens
  <2>2. FieldsOK'
    BY <1>8, Sizes DEF ProbeBegin, FieldsOK, fields, rates, day, manual, fails
  <2>3. FlagsOK'
    BY <1>8
      DEF ProbeBegin, FlagsOK, Begin, fields, rates, day, manual, fails, ghosts
  <2> QED BY <1>8, <2>1, <2>2, <2>3 DEF ProbeBegin, OuterOK, outer
<1>9. CASE ProbeDone
  <2>1. PlaceOK'
    BY <1>0, <1>9, Moves DEF ProbeDone, Thens
  <2>2. FieldsOK'
    BY <1>9, <1>0, Sizes DEF ProbeDone, FieldsOK, rates, fails, States, DesiredState
  <2>3. FlagsOK'
    BY <1>9 DEF ProbeDone, FlagsOK, day, manual, ghosts
  <2> QED BY <1>9, <2>1, <2>2, <2>3 DEF ProbeDone, OuterOK, outer
<1> QED BY <1>1, <1>2, <1>3, <1>4, <1>5, <1>6, <1>7, <1>8, <1>9

(* The commands.                                                              *)
LEMMA TypeOperator ==
    TypeInv /\ (ManualStop \/ ManualStart \/ ManualCharge \/ ManualDischarge \/
                HandleUp \/ HandleDown \/ HandleCycle \/ SetChargeRate \/
                SetDischargeRate \/ CycleDone) => TypeInv'
<1> SUFFICES ASSUME TypeInv,
                    ManualStop \/ ManualStart \/ ManualCharge \/ ManualDischarge \/
                    HandleUp \/ HandleDown \/ HandleCycle \/ SetChargeRate \/
                    SetDischargeRate \/ CycleDone
             PROVE  TypeInv'
  OBVIOUS
<1> USE DEF TypeInv
<1>0. "tg" \in Procs /\ "cyc" \in Procs
  BY DEF Procs
<1>1. CASE ManualStop
  <2>1. PlaceOK'
    BY <1>0, <1>1, Moves DEF ManualStop, Thens
  <2>2. FieldsOK'
    BY <1>1, Sizes DEF ManualStop, FieldsOK, Command, rates, fails, States
  <2>3. FlagsOK'
    BY <1>1 DEF ManualStop, FlagsOK, Command, Begin, manual
  <2> QED BY <1>1, <2>1, <2>2, <2>3 DEF ManualStop, OuterOK, outer, Command
<1>2. CASE ManualStart
  <2>1. PlaceOK'
    BY <1>0, <1>2, Moves DEF ManualStart, Thens
  <2>2. FieldsOK'
    BY <1>2, Sizes
      DEF ManualStart, FieldsOK, Command, rates, fails, States, DesiredState
  <2>3. FlagsOK'
    BY <1>2 DEF ManualStart, FlagsOK, Command, Begin, manual
  <2> QED BY <1>2, <2>1, <2>2, <2>3 DEF ManualStart, OuterOK, outer, Command
<1>3. CASE ManualCharge
  <2>1. PlaceOK'
    BY <1>0, <1>3, Moves DEF ManualCharge, ManualTo, Thens
  <2>2. FieldsOK'
    BY <1>3, Sizes
      DEF ManualCharge, FieldsOK, ManualTo, Command, rates, fails, States
  <2>3. FlagsOK'
    BY <1>3 DEF ManualCharge, FlagsOK, ManualTo, Command, Begin, manual, OuterOK
  <2> QED BY <1>3, <2>1, <2>2, <2>3
      DEF ManualCharge, OuterOK, outer, ManualTo, Command
<1>4. CASE ManualDischarge
  <2>1. PlaceOK'
    BY <1>0, <1>4, Moves DEF ManualDischarge, ManualTo, Thens
  <2>2. FieldsOK'
    BY <1>4, Sizes
      DEF ManualDischarge, FieldsOK, ManualTo, Command, rates, fails, States
  <2>3. FlagsOK'
    BY <1>4 DEF ManualDischarge, FlagsOK, ManualTo, Command, Begin, manual, OuterOK
  <2> QED BY <1>4, <2>1, <2>2, <2>3
      DEF ManualDischarge, OuterOK, outer, ManualTo, Command
<1>5. CASE HandleUp
  <2>1. PlaceOK'
    BY <1>0, <1>5, Moves, JobTypes, Sizes DEF HandleUp, AskRate, Ops, Thens, FieldsOK
  <2>2. FieldsOK'
    BY <1>5, Sizes DEF HandleUp, FieldsOK, AskRate, Command, rates, fails
  <2>3. FlagsOK'
    BY <1>5 DEF HandleUp, FlagsOK, AskRate, Command, Begin, manual
  <2> QED BY <1>5, <2>1, <2>2, <2>3 DEF HandleUp, OuterOK, outer, AskRate, Command
<1>6. CASE HandleDown
  <2>1. PlaceOK'
    BY <1>0, <1>6, Moves, JobTypes, Sizes DEF HandleDown, AskRate, Less, Ops, Thens, FieldsOK
  <2>2. FieldsOK'
    BY <1>6, Sizes DEF HandleDown, FieldsOK, AskRate, Command, rates, fails
  <2>3. FlagsOK'
    BY <1>6 DEF HandleDown, FlagsOK, AskRate, Command, Begin, manual
  <2> QED BY <1>6, <2>1, <2>2, <2>3 DEF HandleDown, OuterOK, outer, AskRate, Command
<1>7. CASE HandleCycle
  <2>1. PlaceOK'
    BY <1>0, <1>7, Moves DEF HandleCycle, PcSet
  <2>2. FieldsOK'
    BY <1>7, Sizes DEF HandleCycle, FieldsOK, Command, rates, fails
  <2>3. FlagsOK'
    BY <1>7 DEF HandleCycle, FlagsOK, Command, Begin, manual
  <2> QED BY <1>7, <2>1, <2>2, <2>3 DEF HandleCycle, OuterOK, outer, Command
<1>8. CASE SetChargeRate
  <2>1. PlaceOK'
    BY <1>0, <1>8, Moves DEF SetChargeRate
  <2>2. FieldsOK'
    BY <1>8, <1>0, Sizes
      DEF SetChargeRate, FieldsOK, rates, fails, Done, PlaceOK, GoodJob, JobType
  <2>3. FlagsOK'
    BY <1>8 DEF SetChargeRate, FlagsOK, day, manual, ghosts
  <2> QED BY <1>8, <2>1, <2>2, <2>3 DEF SetChargeRate, OuterOK, outer
<1>9. CASE SetDischargeRate
  <2>1. PlaceOK'
    BY <1>0, <1>9, Moves DEF SetDischargeRate
  <2>2. FieldsOK'
    BY <1>9, <1>0, Sizes
      DEF SetDischargeRate, FieldsOK, rates, fails, Done, PlaceOK, GoodJob, JobType
  <2>3. FlagsOK'
    BY <1>9 DEF SetDischargeRate, FlagsOK, day, manual, ghosts
  <2> QED BY <1>9, <2>1, <2>2, <2>3 DEF SetDischargeRate, OuterOK, outer
<1>10. CASE CycleDone
  <2>1. PlaceOK'
    BY <1>0, <1>10, Moves DEF CycleDone, Thens
  <2> QED BY <1>10, <2>1, TypeStill DEF CycleDone
<1> QED BY <1>1, <1>2, <1>3, <1>4, <1>5, <1>6, <1>7, <1>8, <1>9, <1>10

(* main, the process and the clock.                                           *)
LEMMA TypeMain ==
    TypeInv /\ (ControllerStart \/ LoopsStart \/ StopIdle) => TypeInv'
<1> SUFFICES ASSUME TypeInv,
                    ControllerStart \/ LoopsStart \/ StopIdle
             PROVE  TypeInv'
  OBVIOUS
<1> USE DEF TypeInv
<1>0. "main" \in Procs
  BY DEF Procs
<1>1. CASE ControllerStart
  <2>1. PlaceOK'
    BY <1>0, <1>1, Moves DEF ControllerStart, Thens
  <2>2. FieldsOK'
    BY <1>1, Sizes DEF ControllerStart, FieldsOK, rates, fails, States, DesiredState
  <2>3. FlagsOK'
    BY <1>1 DEF ControllerStart, FlagsOK, day, manual, ghosts
  <2> QED BY <1>1, <2>1, <2>2, <2>3 DEF ControllerStart, OuterOK, outer
<1>2. CASE LoopsStart
  <2>1. PlaceOK'
    BY <1>0, <1>2, Moves DEF LoopsStart
  <2>2. FieldsOK'
    BY <1>2, Sizes DEF LoopsStart, FieldsOK, fields, rates, day, manual, fails
  <2>3. FlagsOK'
    BY <1>2 DEF LoopsStart, FlagsOK, fields, rates, day, manual, fails, ghosts
  <2> QED BY <1>2, <2>1, <2>2, <2>3 DEF LoopsStart, OuterOK, outer
<1>3. CASE StopIdle
  <2>1. PlaceOK'
    BY <1>0, <1>3, Moves DEF StopIdle, Thens
  <2>2. FieldsOK'
    BY <1>3, Sizes DEF StopIdle, FieldsOK, fields, rates, day, manual, fails
  <2>3. FlagsOK'
    BY <1>3 DEF StopIdle, FlagsOK, Begin, fields, rates, day, manual, fails, ghosts
  <2> QED BY <1>3, <2>1, <2>2, <2>3 DEF StopIdle, OuterOK, outer
<1> QED BY <1>1, <1>2, <1>3

LEMMA TypeProcess ==
    ASSUME TypeInv, \/ \E p \in Loops : LoopExit(p)
                    \/ Signal \/ Exit \/ Restart \/ Crash \/ WindowFlip
    PROVE  TypeInv'
<1> USE DEF TypeInv
<1>1. ASSUME NEW p \in Loops, LoopExit(p) PROVE TypeInv'
  <2>1. PlaceOK'
    BY <1>1, Moves DEF LoopExit, Loops, Procs, PcSet
  <2> QED BY <1>1, <2>1, TypeStill DEF LoopExit
<1>2. CASE Signal \/ WindowFlip
  <2>1. PlaceOK' /\ FieldsOK' /\ FlagsOK'
    BY <1>2 DEF Signal, WindowFlip, PlaceOK, FieldsOK, FlagsOK, place, fields, rates, day,
      manual, fails, ghosts
  <2> QED BY <1>2, <2>1 DEF Signal, WindowFlip, OuterOK
<1>3. CASE Exit
  <2>1. PlaceOK'
    BY <1>3 DEF Exit, PlaceOK, PcSet
  <2>2. FieldsOK' /\ FlagsOK'
    BY <1>3 DEF Exit, FieldsOK, FlagsOK, fields, rates, day, manual, fails, ghosts
  <2> QED BY <1>3, <2>1, <2>2 DEF Exit, OuterOK
<1>4. CASE Restart \/ Crash
  BY <1>4, TypeStart DEF Restart, Crash
<1> QED BY <1>1, <1>2, <1>3, <1>4

(* Every step keeps the types.                                                *)
LEMMA TypeStep == TypeInv /\ [Next]_vars => TypeInv'
<1> SUFFICES ASSUME TypeInv, [Next]_vars PROVE TypeInv'
  OBVIOUS
<1>1. ASSUME NEW p \in Procs, Step(p) PROVE TypeInv'
  BY <1>1, TypeBus, TypeTransitions, TypeDay, TypeNight, TypeKeepalive, TypeOperator, TypeMain,
     TypeProcess
  DEF Step, ControlStep
<1>2. CASE GridReadOk \/ GridReadFails
  BY <1>2, TypeGrid
<1>3. CASE CycleBegin \/ KeepaliveBegin \/ ProbeBegin
  BY <1>3, TypeTransitions, TypeKeepalive
<1>4. CASE OperatorCommand
  BY <1>4, TypeOperator DEF OperatorCommand
<1>5. CASE (\E p \in Loops : LoopExit(p)) \/ Signal \/ Restart \/ Crash \/ WindowFlip
  BY <1>5, TypeProcess
<1>6. CASE UNCHANGED vars
  BY <1>6 DEF vars, TypeInv, PlaceOK, FieldsOK, FlagsOK, OuterOK, outer, fields, rates, day,
    manual, fails, place, ghosts
<1> QED BY <1>1, <1>2, <1>3, <1>4, <1>5, <1>6 DEF Next

LEMMA TypeInvariant == Spec => []TypeInv
<1>1. Init => TypeInv
  BY TypeInit
<1>2. TypeInv /\ [Next]_vars => TypeInv'
  BY TypeStep
<1> QED BY <1>1, <1>2, PTL DEF Spec

(* Type correctness: the controller's fields keep their ranges; in particular *)
(* no sequence of ramps, commands, failures and restarts takes a rate beyond  *)
(* its configured maximum.                                                    *)
THEOREM TypeCorrect == Spec => []TypeOK
<1>1. TypeInv => TypeOK
  BY DEF TypeInv, PlaceOK, FieldsOK, FlagsOK, OuterOK, TypeOK, GoodJob
<1> QED BY <1>1, TypeInvariant, PTL
===============================================================================
