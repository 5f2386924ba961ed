------------------------- MODULE SolarAgreement_proofs -------------------------
(* The modes of the inverters agree with the controller's fields: Agreement   *)
(* is an invariant of SolarControl for any number of inverters, any rates and *)
(* limits, and any choice of commands and events.                             *)
EXTENDS SolarControl_proofs

(* Only r moves, alone means that nobody else is within a handler, and trust  *)
(* needs alone: true of every step of the goroutines but Exit.                *)
Turn(r) ==
    /\ \A q \in Procs \ {r} :
          pc'[q] = pc[q] /\ job'[q] = job[q] /\ at'[q] = at[q] /\ failed'[q] = failed[q]
    /\ alone' => \A q \in Procs \ {r} : Settled(q)
    /\ trust' => alone'

LEMMA MoveTurn ==
    ASSUME TypeInv, AgreeInv, NEW r \in Procs, NEW l, NEW j, Move(r, l, j),
           \/ Begin(r)
           \/ ~Settled(r) /\ alone' = alone /\ (trust' => trust)
    PROVE  Turn(r)
<1>1. \A q \in Procs \ {r} :
         pc'[q] = pc[q] /\ job'[q] = job[q] /\ at'[q] = at[q] /\ failed'[q] = failed[q]
  BY DEF Move, TypeInv, PlaceOK
<1>2. CASE Begin(r)
  BY <1>1, <1>2 DEF Begin, Turn
<1>3. CASE ~Settled(r) /\ alone' = alone /\ (trust' => trust)
  BY <1>1, <1>3 DEF Turn, AgreeInv, Lone
<1> QED BY <1>2, <1>3

LEMMA TurnLone ==
    ASSUME NEW r \in Procs, Turn(r) PROVE Lone'
BY DEF Turn, Lone, Settled

(* A goroutine that another one's lone turn meets is not within a handler.    *)
LEMMA TurnOthers ==
    ASSUME NEW r \in Procs, Turn(r), NEW q \in Procs, q # r, alone'
    PROVE  pc'[q] \in {"idle", "stopped"}
BY DEF Turn, Settled

LEMMA MoveAgrees ==
    ASSUME TypeInv, AgreeInv, NEW r \in Procs, Turn(r), NEW l, NEW j, Move(r, l, j),
           l = "write" /\ alone' => Purpose(j)',
           l = "starve" /\ alone' => Charging',
           l = "apply" => j.then \in {"done", "act", "run"},
           l \notin {"write", "apply"} /\ Live' /\ Calm' /\ trust' => ModesFit'
    PROVE  AgreeInv'
<1>1. pc'[r] = l /\ job'[r] = j /\ at'[r] = 1 /\ failed'[r] = FALSE
  BY DEF Move, TypeInv, PlaceOK
<1>2. Lone'
  BY TurnLone
<1>3. Progress'
  <2> SUFFICES ASSUME NEW p \in Procs, pc'[p] = "write"
               PROVE  /\ trust' => ~failed'[p]
                      /\ alone' /\ ~failed'[p] /\ ToAll(job'[p]) =>
                            /\ \A u \in Units : u < at'[p] => mode'[u] \in Targets(job'[p])
                            /\ at'[p] = N + 1 => ~misrated'
    BY DEF Progress, Units, Targets
  <2>1. CASE p = r
    BY <1>1, <2>1, Sizes DEF Units
  <2>2. CASE p # r
    BY <2>2, TurnOthers DEF Turn
  <2> QED BY <2>1, <2>2
<1>4. Purposes'
  <2> SUFFICES ASSUME NEW p \in Procs
               PROVE  /\ alone' /\ pc'[p] = "write" => Purpose(job[p])'
                      /\ alone' /\ pc'[p] = "starve" => Charging'
                      /\ pc'[p] = "apply" => job'[p].then \in {"done", "act", "run"}
    BY DEF Purposes
  <2>1. CASE p = r
    <3>1. alone' /\ pc'[p] = "write" => Purpose(job[p])'
      BY <1>1, <2>1 DEF Purpose, Targets, Charging, Allowed, Discharging
    <3> QED BY <1>1, <2>1, <3>1
  <2>2. CASE p # r
    <3>1. pc'[p] = "apply" => job'[p].then \in {"done", "act", "run"}
      BY <2>2 DEF Turn, AgreeInv, Purposes
    <3> QED BY <2>2, <3>1, TurnOthers
  <2> QED BY <2>1, <2>2
<1>5. Agreed'
  <2>1. l \in {"write", "apply"} => ~Calm'
    BY <1>1 DEF Calm
  <2> QED BY <2>1 DEF Agreed
<1> QED BY <1>2, <1>3, <1>4, <1>5 DEF AgreeInv

(* The four kinds of move: to the bus, to applyCurrentState, between places   *)
(* that do not write, and away from a bus operation that is over.             *)
LEMMA WriteAgrees ==
    ASSUME TypeInv, AgreeInv, NEW r \in Procs, NEW j, Write(r, j),
           \/ Begin(r)
           \/ ~Settled(r) /\ alone' = alone /\ (trust' => trust),
           alone' => Purpose(j)'
    PROVE  AgreeInv'
<1>1. Move(r, "write", j)
  BY DEF Write
<1>2. Turn(r)
  BY <1>1, MoveTurn
<1> QED BY <1>1, <1>2, MoveAgrees

LEMMA ApplyAgrees ==
    ASSUME TypeInv, AgreeInv, NEW r \in Procs, NEW then \in {"done", "act", "run"},
           ApplyNext(r, then),
           \/ Begin(r)
           \/ ~Settled(r) /\ alone' = alone /\ (trust' => trust)
    PROVE  AgreeInv'
<1>1. Move(r, "apply", Bus("none", 0, then)) /\ Bus("none", 0, then).then = then
  BY DEF ApplyNext, Bus
<1>2. Turn(r)
  BY <1>1, MoveTurn
<1> QED BY <1>1, <1>2, MoveAgrees

LEMMA CalmAgrees ==
    ASSUME TypeInv, AgreeInv, NEW r \in Procs, NEW l, NEW j, Move(r, l, j), Turn(r),
           pc[r] \notin {"write", "apply"}, l \notin {"write", "apply", "starve"},
           mode' = mode, Allowed' = Allowed, Live' => Live,
           trust' => trust /\ misrated' = misrated
    PROVE  AgreeInv'
<1>1. Calm' => Calm
  BY DEF Calm, Turn
<1>2. Live' /\ Calm' /\ trust' => ModesFit'
  BY <1>1 DEF AgreeInv, Agreed, ModesFit, Expected
<1> QED BY <1>2, MoveAgrees

LEMMA DoneExpects ==
    ASSUME TypeInv, AgreeInv, NEW r \in Procs, NEW l, NEW j, Move(r, l, j),
           pc[r] = "write", at[r] = N + 1, l \notin {"write", "apply"},
           mode' = mode, alone' = alone, trust' => trust,
           trust' /\ ~failed[r] => ToAll(job[r]),
           trust' /\ ~failed[r] /\ ~misrated => Targets(job[r]) \subseteq Expected',
           l = "starve" /\ alone' => Charging'
    PROVE  AgreeInv'
<1>1. Turn(r)
  BY MoveTurn DEF Settled
<1>2. ASSUME trust' PROVE ModesFit'
  <2>1. trust /\ alone /\ ~failed[r]
    BY <1>2 DEF AgreeInv, Lone, Progress
  <2>2. ToAll(job[r])
    BY <1>2, <2>1
  <2>3. (\A u \in Units : u < at[r] => mode[u] \in Targets(job[r])) /\ ~misrated
    BY <2>1, <2>2 DEF AgreeInv, Progress
  <2>4. \A u \in Units : u < at[r]
    BY Sizes DEF Units
  <2> QED BY <1>2, <2>1, <2>3, <2>4 DEF ModesFit
<1> QED BY <1>1, <1>2, MoveAgrees

LEMMA DoneAgrees ==
    ASSUME TypeInv, AgreeInv, NEW r \in Procs, NEW l, NEW j, Move(r, l, j),
           pc[r] = "write", at[r] = N + 1, l \notin {"write", "apply"},
           mode' = mode, alone' = alone, trust' => trust, misrated' = misrated,
           trust' /\ ~failed[r] => ToAll(job[r]) /\ Targets(job[r]) \subseteq Allowed',
           l = "starve" /\ alone' => Charging'
    PROVE  AgreeInv'
<1>1. ~misrated => Expected' = Allowed'
  BY DEF Expected
<1> QED BY <1>1, DoneExpects

(* What idling serves: everything but a regime with a positive rate.          *)
LEMMA FieldsSame ==
    ASSUME state' = state, dayDischarging' = dayDischarging,
           currentChargeW' = currentChargeW, currentDischargeW' = currentDischargeW
    PROVE  Allowed' = Allowed /\ Charging' = Charging
BY DEF Allowed, Charging, Discharging

(* The steps of the bus.                                                      *)
LEMMA AgreeWriteOk ==
    ASSUME TypeInv, AgreeInv, NEW p \in Procs, WriteOk(p) PROVE AgreeInv'
<1> DEFINE last == at[p] = LastUnit(job[p])
<1>1. PICK m \in Targets(job[p]) : mode' = [mode EXCEPT ![at[p]] = m]
  BY DEF WriteOk
<1>2. /\ pc[p] = "write" /\ at[p] \in Units
      /\ at'[p] = IF last THEN N + 1 ELSE at[p] + 1
      /\ \A q \in Procs \ {p} : at'[q] = at[q]
      /\ UNCHANGED <<phase, fields, pc, job, failed, alone>>
  BY Sizes DEF WriteOk, TypeInv, PlaceOK, Units
<1>3. /\ trust' = (trust \/ (last /\ alone /\ ~failed[p] /\ ToAll(job[p])))
      /\ last /\ alone /\ ~failed[p] /\ ToAll(job[p]) => ~misrated'
  BY DEF WriteOk
<1>4. Allowed' = Allowed /\ Charging' = Charging
  BY <1>2, FieldsSame DEF fields, rates, day
<1>5. Lone'
  BY <1>2, <1>3 DEF AgreeInv, Lone, Settled
<1>6. Progress'
  <2> SUFFICES ASSUME NEW q \in Procs, pc'[q] = "write"
               PROVE  /\ trust' => ~failed'[q]
                      /\ alone' /\ ~failed'[q] /\ ToAll(job'[q]) =>
                            /\ \A u \in Units : u < at'[q] => mode'[u] \in Targets(job'[q])
                            /\ at'[q] = N + 1 => ~misrated'
    BY DEF Progress, Units, Targets
  <2>1. CASE q = p
    <3>1. trust' => ~failed'[q]
      BY <1>2, <1>3, <2>1 DEF AgreeInv, Progress
    <3>2. ASSUME alone', ~failed'[q], ToAll(job'[q]), NEW u \in Units, u < at'[q]
          PROVE  mode'[u] \in Targets(job'[q])
      <4>1. u < at[p] \/ u = at[p]
        BY <1>2, <2>1, <3>2, Sizes DEF Units, LastUnit, ToAll
      <4>2. CASE u < at[p]
        BY <1>1, <1>2, <2>1, <3>2, <4>2 DEF AgreeInv, Progress, TypeInv, OuterOK, Units
      <4>3. CASE u = at[p]
        BY <1>1, <1>2, <2>1, <4>3 DEF TypeInv, OuterOK
      <4> QED BY <4>1, <4>2, <4>3
    <3>3. ASSUME alone', ~failed'[q], ToAll(job'[q]), at'[q] = N + 1
          PROVE  ~misrated'
      <4>1. last
        BY <1>2, <2>1, <3>3, Sizes DEF Units, LastUnit, ToAll
      <4> QED BY <1>2, <1>3, <2>1, <3>3, <4>1
    <3> QED BY <3>1, <3>2, <3>3
  <2>2. CASE q # p
    BY <1>2, <1>5, <2>2 DEF AgreeInv, Lone, Settled
  <2> QED BY <2>1, <2>2
<1>7. Purposes'
  BY <1>2, <1>4 DEF AgreeInv, Purposes, Purpose, Targets, fields
<1>8. Agreed'
  BY <1>2 DEF Agreed, Calm
<1> QED BY <1>5, <1>6, <1>7, <1>8 DEF AgreeInv

LEMMA AgreeWriteFails ==
    ASSUME TypeInv, AgreeInv, NEW p \in Procs, WriteFails(p) PROVE AgreeInv'
<1>1. /\ pc[p] = "write" /\ ~trust' /\ failed'[p]
      /\ \A q \in Procs \ {p} : at'[q] = at[q] /\ failed'[q] = failed[q]
      /\ UNCHANGED <<phase, fields, pc, job, alone>>
  BY DEF WriteFails, TypeInv, PlaceOK
<1>2. Allowed' = Allowed /\ Charging' = Charging
  BY <1>1, FieldsSame DEF fields, rates, day
<1>3. Lone'
  BY <1>1 DEF AgreeInv, Lone, Settled
<1>4. \A q \in Procs \ {p} : alone' => pc'[q] # "write"
  BY <1>1, <1>3 DEF Lone, Settled
<1>5. Progress'
  <2> SUFFICES ASSUME NEW q \in Procs, pc'[q] = "write", alone', ~failed'[q]
               PROVE  FALSE
    BY <1>1 DEF Progress
  <2> QED BY <1>1, <1>4
<1>6. Purposes'
  BY <1>1, <1>2 DEF AgreeInv, Purposes, Purpose, Targets, fields
<1>7. Agreed'
  BY <1>1 DEF Agreed
<1> QED BY <1>3, <1>5, <1>6, <1>7 DEF AgreeInv

LEMMA AgreeApply ==
    ASSUME TypeInv, AgreeInv, NEW p \in Procs, ApplyCurrentState(p) PROVE AgreeInv'
<1>1. PICK then \in {"done", "act", "run"} : then = job[p].then
  BY DEF ApplyCurrentState, AgreeInv, Purposes
<1>0. ~Settled(p)
  BY DEF ApplyCurrentState, Settled
<1>2. alone' = alone /\ (trust' => trust)
  BY DEF ApplyCurrentState, ghosts
<1>3. CASE state = "NIGHT_DISCHARGE"
  <2>1. Write(p, Bus("discharge", 1, then)) /\ state' = state /\ currentDischargeW' = 1
    BY <1>1, <1>3 DEF ApplyCurrentState
  <2>2. Purpose(Bus("discharge", 1, then))'
    <3>1. Allowed' = {"discharge"}
      BY <1>3, <2>1 DEF Allowed, Charging, Discharging
    <3> QED BY <3>1 DEF Purpose, Bus, Targets, ToAll
  <2> QED BY <1>0, <1>2, <2>1, <2>2, WriteAgrees
<1>4. CASE state # "NIGHT_DISCHARGE"
  <2>1. Write(p, IdleAll(then))
    BY <1>1, <1>4 DEF ApplyCurrentState
  <2>2. Allowed' = {"idle"}
    <3>1. CASE state = "DAY_CHARGE"
      BY <3>1 DEF ApplyCurrentState, Allowed, Charging, Discharging
    <3>2. CASE state # "DAY_CHARGE"
      BY <1>4, <3>2 DEF ApplyCurrentState, Allowed, Charging, Discharging
    <3> QED BY <3>1, <3>2
  <2>3. Purpose(IdleAll(then))'
    BY <1>1, <2>2 DEF Purpose, IdleAll, Bus, Targets, ToAll
  <2> QED BY <1>0, <1>2, <2>1, <2>3, WriteAgrees
<1> QED BY <1>3, <1>4

LEMMA AgreeHandlerDone ==
    ASSUME TypeInv, AgreeInv, NEW p \in Procs, HandlerDone(p) PROVE AgreeInv'
<1>1. /\ Move(p, "idle", NoJob) /\ pc[p] = "write" /\ at[p] = N + 1 /\ job[p].then = "done"
      /\ UNCHANGED <<outer, fields, ghosts>>
  BY DEF HandlerDone, Finish, GoTo, Done
<1>2. Allowed' = Allowed
  BY <1>1, FieldsSame DEF fields, rates, day
<1>3. trust => ToAll(job[p]) /\ Targets(job[p]) \subseteq Allowed
  BY <1>1 DEF AgreeInv, Lone, Purposes, Purpose
<1> QED BY <1>1, <1>2, <1>3, DoneAgrees DEF outer, ghosts

(* Steps that leave the goroutines within a handler where they are.           *)
LEMMA StillAgrees ==
    ASSUME TypeInv, AgreeInv,
           \A q \in Procs :
              \/ pc'[q] = pc[q] /\ job'[q] = job[q] /\ at'[q] = at[q] /\ failed'[q] = failed[q]
              \/ Settled(q) /\ pc'[q] \in {"idle", "stopped"},
           UNCHANGED <<mode, state, rates, dayDischarging>>, Live' => Live,
           alone' => alone \/ Quiet, misrated' => misrated,
           trust' => trust /\ alone' /\ misrated' = misrated
    PROVE  AgreeInv'
<1>1. Allowed' = Allowed /\ Charging' = Charging
  BY FieldsSame DEF rates
<1>2. \A q \in Procs : Settled(q) => pc'[q] \in {"idle", "stopped"}
  BY DEF Settled
<1>3. CASE Quiet
  BY <1>1, <1>2, <1>3
  DEF Quiet, AgreeInv, Lone, Progress, Purposes, Agreed, Settled, Calm, ModesFit, Expected
<1>4. CASE ~Quiet
  <2>0. alone' => alone
    BY <1>4
  <2>1. \A q \in Procs : pc'[q] \notin {"idle", "stopped"} =>
           pc'[q] = pc[q] /\ job'[q] = job[q] /\ at'[q] = at[q] /\ failed'[q] = failed[q]
    BY DEF Settled
  <2>2. Lone'
    BY <2>0, <2>1 DEF AgreeInv, Lone, Settled
  <2>3. Progress'
    BY <2>0, <2>1 DEF AgreeInv, Progress
  <2>4. Purposes'
    BY <1>1, <2>0, <2>1 DEF AgreeInv, Purposes, Purpose
  <2>5. Agreed'
    BY <1>1, <1>2 DEF AgreeInv, Agreed, Calm, ModesFit, Expected, Settled
  <2> QED BY <2>2, <2>3, <2>4, <2>5 DEF AgreeInv
<1> QED BY <1>3, <1>4

(* What writing idle, a discharge rate or a charge rate serves.               *)
LEMMA IdlePurpose ==
    ASSUME NEW then, then \notin {"rampTo", "setCharge", "setDischarge"},
           then \in {"done", "act", "run"} => "idle" \in Allowed',
           then = "startCharging" => Charging'
    PROVE  Purpose(IdleAll(then))'
BY DEF Purpose, IdleAll, Bus, Targets, ToAll

LEMMA RatePurpose ==
    ASSUME NEW w \in Nat, w > 0
    PROVE  /\ Allowed' = {"discharge"} => Purpose(Bus("discharge", w, "done"))'
           /\ Allowed' = {"charge", "idle"} => Purpose(Bus("charge", w, "done"))'
BY DEF Purpose, Bus, Targets, ToAll

(* The modes that the fields call for after a step.                           *)
LEMMA IdleAllowed ==
    ASSUME state' \notin {"DAY_CHARGE", "NIGHT_DISCHARGE"} PROVE Allowed' = {"idle"}
BY DEF Allowed, Charging, Discharging

LEMMA ChargeAllowed ==
    ASSUME Charging', currentChargeW' \in Nat
    PROVE  Allowed' = IF currentChargeW' > 0 THEN {"charge", "idle"} ELSE {"idle"}
BY DEF Allowed, Charging, Discharging

LEMMA DischargeAllowed ==
    ASSUME Discharging', currentDischargeW' \in Nat
    PROVE  Allowed' = IF currentDischargeW' > 0 THEN {"discharge"} ELSE {"idle"}
BY DEF Allowed, Charging, Discharging

LEMMA FlagValues == TypeInv => misrated \in BOOLEAN
BY DEF TypeInv, FlagsOK

LEMMA Rates ==
    ASSUME TypeInv PROVE currentChargeW \in Nat /\ currentDischargeW \in Nat
BY Sizes DEF TypeInv, FieldsOK

(* SAFE is entered from the grid loop, or after a gateway reboot.             *)
LEMMA SafeAgrees ==
    ASSUME TypeInv, AgreeInv, NEW p \in Procs, EnterSafeMode(p),
           pc[p] \notin {"write", "apply"},
           \/ Begin(p)
           \/ ~Settled(p) /\ UNCHANGED ghosts,
           UNCHANGED <<outer, rates>>
    PROVE  AgreeInv'
<1>1. CASE state = "SAFE"
  <2>1. Move(p, "idle", NoJob) /\ state' = state /\ dayDischarging' = dayDischarging
    BY <1>1 DEF EnterSafeMode, Finish, GoTo
  <2>2. Turn(p)
    BY <2>1, MoveTurn DEF ghosts
  <2>3. Allowed' = Allowed
    BY <2>1, FieldsSame DEF rates
  <2>4. trust' => trust /\ misrated' = misrated
    BY FlagValues DEF Begin, ghosts
  <2> QED BY <2>1, <2>2, <2>3, <2>4, CalmAgrees DEF outer, Live
<1>2. CASE state # "SAFE"
  <2>1. Write(p, IdleAll("done")) /\ Allowed' = {"idle"}
    BY <1>2, IdleAllowed DEF EnterSafeMode
  <2>2. Purpose(IdleAll("done"))'
    BY <2>1, IdlePurpose
  <2> QED BY <2>1, <2>2, WriteAgrees DEF ghosts
<1> QED BY <1>1, <1>2

(* The grid goroutine.                                                        *)
LEMMA AgreeGrid ==
    ASSUME TypeInv, AgreeInv, GridReadOk \/ GridReadFails PROVE AgreeInv'
<1>0. "grid" \in Procs
  BY DEF Procs
<1>1. CASE UNCHANGED <<place, outer, state, rates, dayDischarging>>
  <2>1. Begin("grid")
    BY DEF GridReadOk, GridReadFails
  <2>2. /\ (alone' => Quiet) /\ (misrated' => misrated)
        /\ trust' => trust /\ alone' /\ misrated' = misrated
    BY <2>1, FlagValues DEF Begin, Quiet, Settled
  <2>3. pc' = pc /\ job' = job /\ at' = at /\ failed' = failed /\ mode' = mode /\ phase' = phase
    BY <1>1 DEF place, outer
  <2> QED BY <1>1, <2>2, <2>3, StillAgrees DEF Live
<1>2. CASE EnterSafeMode("grid") /\ GridReadFails
  <2>1. Begin("grid") /\ UNCHANGED <<outer, rates>>
    BY <1>2 DEF GridReadFails
  <2>2. pc["grid"] = "idle"
    BY <2>1 DEF Begin
  <2> QED BY <1>0, <1>2, <2>1, <2>2, SafeAgrees
<1>3. GridReadOk => UNCHANGED <<place, outer, state, rates, dayDischarging>>
  BY DEF GridReadOk, day
<1>4. GridReadFails => \/ UNCHANGED <<place, outer, state, rates, dayDischarging>>
                       \/ EnterSafeMode("grid")
  BY DEF GridReadFails
<1> QED BY <1>1, <1>2, <1>3, <1>4

(* A goroutine goes on, without the bus, after a place off the bus.           *)
LEMMA IdlyAgrees ==
    ASSUME TypeInv, AgreeInv, NEW p \in Procs, NEW l, NEW j, Move(p, l, j),
           pc[p] \notin {"write", "apply"}, l \notin {"write", "apply", "starve"},
           \/ Begin(p)
           \/ ~Settled(p) /\ UNCHANGED ghosts,
           UNCHANGED <<mode, phase, state, rates, dayDischarging>>
    PROVE  AgreeInv'
<1>1. Turn(p)
  BY MoveTurn DEF ghosts
<1>2. Allowed' = Allowed
  BY FieldsSame DEF rates
<1>3. trust' => trust /\ misrated' = misrated
  BY FlagValues DEF Begin, ghosts
<1> QED BY <1>1, <1>2, <1>3, CalmAgrees DEF Live

(* checkTimeTransitions.                                                      *)
LEMMA AgreeTransitions ==
    ASSUME TypeInv, AgreeInv,
           CycleBegin \/ CommitDay \/ CommitNight \/ CommitLowSOC \/
           TransitionApplied \/ ActNothing
    PROVE  AgreeInv'
<1>0. "ctl" \in Procs
  BY DEF Procs
<1>1. CASE CycleBegin
  <2>1. PICK l \in {"act", "toDay", "toNight", "toStopped"} : Move("ctl", l, NoJob)
    BY <1>1 DEF CycleBegin, GoTo
  <2>2. Begin("ctl") /\ UNCHANGED <<mode, phase, state, rates, dayDischarging>>
    BY <1>1 DEF CycleBegin, outer, day
  <2>3. pc["ctl"] = "idle"
    BY <2>2 DEF Begin
  <2> QED BY <1>0, <2>1, <2>2, <2>3, IdlyAgrees
<1>2. CASE CommitDay \/ CommitNight
  <2>1. ApplyNext("ctl", "act") /\ ~Settled("ctl") /\ UNCHANGED ghosts
    BY <1>2 DEF CommitDay, CommitNight, Settled
  <2> QED BY <1>0, <2>1, ApplyAgrees DEF ghosts
<1>3. CASE CommitLowSOC
  <2>1. Write("ctl", IdleAll("act")) /\ ~Settled("ctl") /\ UNCHANGED ghosts /\ state' = "STOPPED"
    BY <1>3 DEF CommitLowSOC, Settled
  <2>2. Purpose(IdleAll("act"))'
    BY <2>1, IdleAllowed, IdlePurpose
  <2> QED BY <1>0, <2>1, <2>2, WriteAgrees DEF ghosts
<1>4. CASE TransitionApplied
  <2>1. /\ Move("ctl", "act", NoJob) /\ pc["ctl"] = "write" /\ at["ctl"] = N + 1
        /\ job["ctl"].then = "act"
        /\ UNCHANGED <<outer, fields, ghosts>>
    BY <1>4 DEF TransitionApplied, GoTo, Done
  <2>2. Allowed' = Allowed
    BY <2>1, FieldsSame DEF fields, rates, day
  <2>3. trust => ToAll(job["ctl"]) /\ Targets(job["ctl"]) \subseteq Allowed
    BY <1>0, <2>1 DEF AgreeInv, Lone, Purposes, Purpose
  <2> QED BY <1>0, <2>1, <2>2, <2>3, DoneAgrees DEF outer, ghosts
<1>5. CASE ActNothing
  <2>1. /\ Move("ctl", "idle", NoJob) /\ ~Settled("ctl") /\ pc["ctl"] \notin {"write", "apply"}
        /\ UNCHANGED <<outer, fields, ghosts>>
    BY <1>5 DEF ActNothing, Finish, GoTo, Settled
  <2> QED BY <1>0, <2>1, IdlyAgrees DEF outer, fields, day, ghosts
<1> QED BY <1>1, <1>2, <1>3, <1>4, <1>5

(* runDayChargeLogic while peak shaving, and its start.                       *)
LEMMA AgreeShave ==
    ASSUME TypeInv, AgreeInv, ShaveStop \/ ShaveRamp \/ ShaveToCharge \/ ShaveStart
    PROVE  AgreeInv'
<1>0. "ctl" \in Procs
  BY DEF Procs
<1>1. CASE ShaveStop
  <2>1. PICK then \in {"done", "startCharging"} : Write("ctl", IdleAll(then))
    BY <1>1 DEF ShaveStop
  <2>2. ~Settled("ctl") /\ UNCHANGED ghosts /\ Charging' /\ currentChargeW' = currentChargeW
    BY <1>1 DEF ShaveStop, DayAct, Settled, Charging
  <2>3. Allowed' = IF currentChargeW' > 0 THEN {"charge", "idle"} ELSE {"idle"}
    BY <2>2, ChargeAllowed, Rates
  <2>4. "idle" \in Allowed'
    BY <2>3
  <2>5. Purpose(IdleAll(then))'
    BY <2>2, <2>4, IdlePurpose
  <2> QED BY <1>0, <2>1, <2>2, <2>5, WriteAgrees DEF ghosts
<1>2. CASE ShaveRamp \/ ShaveStart
  <2>1. PICK w \in 1..MaxDischargeW : w = currentDischargeW'
    BY <1>2, Sizes DEF ShaveRamp, ShaveStart
  <2>2. Write("ctl", Bus("discharge", w, "done"))
    BY <1>2, <2>1 DEF ShaveRamp, ShaveStart
  <2>3. ~Settled("ctl") /\ UNCHANGED ghosts /\ Discharging'
    BY <1>2 DEF ShaveRamp, ShaveStart, DayAct, Settled, Discharging, day
  <2>4. w \in Nat /\ w > 0
    BY <2>1, Sizes
  <2>5. Allowed' = {"discharge"}
    BY <2>1, <2>3, <2>4, DischargeAllowed
  <2>6. Purpose(Bus("discharge", w, "done"))'
    BY <2>4, <2>5, RatePurpose
  <2> QED BY <1>0, <2>2, <2>3, <2>6, WriteAgrees DEF ghosts
<1>3. CASE ShaveToCharge
  <2>1. PICK w \in 1..MaxChargeW : w = currentChargeW'
    BY <1>3, Sizes DEF ShaveToCharge
  <2>2. Write("ctl", Bus("charge", w, "done"))
    BY <1>3, <2>1 DEF ShaveToCharge
  <2>3. ~Settled("ctl") /\ UNCHANGED ghosts
    BY <1>3 DEF ShaveToCharge, Done, Settled
  <2>4. alone => Charging'
    BY <1>0, <1>3 DEF ShaveToCharge, Done, AgreeInv, Purposes, Purpose, Charging
  <2>5. w \in Nat /\ w > 0
    BY <2>1, Sizes
  <2>6. alone => Allowed' = {"charge", "idle"}
    BY <2>1, <2>4, <2>5, ChargeAllowed
  <2>7. alone => Purpose(Bus("charge", w, "done"))'
    BY <2>5, <2>6, RatePurpose
  <2> QED BY <1>0, <2>2, <2>3, <2>7, WriteAgrees DEF ghosts
<1> QED BY <1>1, <1>2, <1>3

(* The rest of runDayChargeLogic.                                             *)
LEMMA AgreeCharge ==
    ASSUME TypeInv, AgreeInv, ChargeStart \/ ChargeRamp \/ ChargeRamped \/ ChargeStop
    PROVE  AgreeInv'
<1>0. "ctl" \in Procs
  BY DEF Procs
<1>1. CASE ChargeStart
  <2>1. PICK w \in 1..MaxChargeW : w = currentChargeW'
    BY <1>1, Sizes DEF ChargeStart
  <2>2. Write("ctl", Bus("charge", w, "done"))
    BY <1>1, <2>1 DEF ChargeStart
  <2>3. ~Settled("ctl") /\ UNCHANGED ghosts /\ Charging'
    BY <1>1 DEF ChargeStart, DayAct, Settled, Charging
  <2>4. w \in Nat /\ w > 0
    BY <2>1, Sizes
  <2>5. Allowed' = {"charge", "idle"}
    BY <2>1, <2>3, <2>4, ChargeAllowed
  <2>6. Purpose(Bus("charge", w, "done"))'
    BY <2>4, <2>5, RatePurpose
  <2> QED BY <1>0, <2>2, <2>3, <2>6, WriteAgrees DEF ghosts
<1>2. CASE ChargeRamp
  <2>1. PICK w \in 1..MaxChargeW : Write("ctl", Bus("charge", w, "rampTo"))
    BY <1>2 DEF ChargeRamp
  <2>2. ~Settled("ctl") /\ UNCHANGED ghosts /\ Charging'
    BY <1>2 DEF ChargeRamp, DayAct, Settled, Charging, day
  <2>3. w > 0
    BY Sizes
  <2>4. Purpose(Bus("charge", w, "rampTo"))'
    BY <2>2, <2>3 DEF Purpose, Bus
  <2> QED BY <1>0, <2>1, <2>2, <2>4, WriteAgrees DEF ghosts
<1>3. CASE ChargeRamped
  <2>1. /\ Move("ctl", "starve", NoJob) /\ pc["ctl"] = "write" /\ at["ctl"] = N + 1
        /\ job["ctl"].then = "rampTo"
        /\ UNCHANGED <<outer, state, day, ghosts>>
    BY <1>3 DEF ChargeRamped, GoTo, Done
  <2>2. alone => Charging /\ job["ctl"].op = "charge" /\ job["ctl"].w > 0
    BY <1>0, <2>1 DEF AgreeInv, Purposes, Purpose
  <2>3. alone => Charging'
    BY <2>1, <2>2 DEF Charging, day
  <2>4. ~failed["ctl"] => currentChargeW' = job["ctl"].w
    BY <1>3 DEF ChargeRamped
  <2>5. job["ctl"].w \in Nat
    BY <1>0 DEF TypeInv, PlaceOK, GoodJob, JobType
  <2>6. alone /\ ~failed["ctl"] => Allowed' = {"charge", "idle"}
    BY <2>2, <2>3, <2>4, <2>5, ChargeAllowed
  <2>7. alone => ToAll(job["ctl"]) /\ Targets(job["ctl"]) = {"charge", "idle"}
    BY <2>2, <2>5 DEF ToAll, Targets
  <2>8. trust' => alone
    BY <2>1 DEF ghosts, AgreeInv, Lone
  <2> QED BY <1>0, <2>1, <2>3, <2>6, <2>7, <2>8, DoneAgrees DEF outer, ghosts
<1>4. CASE ChargeStop
  <2>1. /\ Write("ctl", IdleAll("done")) /\ ~Settled("ctl") /\ UNCHANGED <<state, dayDischarging>>
        /\ UNCHANGED ghosts /\ currentChargeW' = 0
    BY <1>4 DEF ChargeStop, Settled
  <2>2. alone => Charging'
    BY <1>0, <1>4, <2>1 DEF ChargeStop, AgreeInv, Purposes, Charging
  <2>3. alone => Allowed' = {"idle"}
    BY <2>1, <2>2, ChargeAllowed
  <2>4. alone => Purpose(IdleAll("done"))'
    BY <2>3, IdlePurpose
  <2> QED BY <1>0, <2>1, <2>4, WriteAgrees DEF ghosts
<1> QED BY <1>1, <1>2, <1>3, <1>4

(* runNightDischargeLogic.                                                    *)
LEMMA AgreeNight ==
    ASSUME TypeInv, AgreeInv, NightLowSOC \/ NightLowSOCStopped \/ NightRamp
    PROVE  AgreeInv'
<1>0. "ctl" \in Procs
  BY DEF Procs
<1>1. CASE NightLowSOC
  <2>1. Write("ctl", IdleAll("lowSOC")) /\ ~Settled("ctl") /\ UNCHANGED ghosts
    BY <1>1 DEF NightLowSOC, Settled
  <2>2. Purpose(IdleAll("lowSOC"))'
    BY DEF Purpose, IdleAll, Bus
  <2> QED BY <1>0, <2>1, <2>2, WriteAgrees DEF ghosts
<1>2. CASE NightLowSOCStopped
  <2>1. /\ Move("ctl", "idle", NoJob) /\ pc["ctl"] = "write" /\ at["ctl"] = N + 1
        /\ job["ctl"].then = "lowSOC" /\ state' = "STOPPED"
        /\ UNCHANGED <<outer, ghosts>>
    BY <1>2 DEF NightLowSOCStopped, Finish, GoTo, Done
  <2>2. trust => alone
    BY DEF AgreeInv, Lone
  <2>3. trust => job["ctl"].op = "idle" /\ job["ctl"].w = 0
    BY <1>0, <2>1, <2>2 DEF AgreeInv, Purposes, Purpose
  <2>4. trust => ToAll(job["ctl"]) /\ Targets(job["ctl"]) = {"idle"}
    BY <2>3 DEF ToAll, Targets
  <2>5. Allowed' = {"idle"}
    BY <2>1, IdleAllowed
  <2> QED BY <1>0, <2>1, <2>4, <2>5, DoneAgrees DEF outer, ghosts
<1>3. CASE NightRamp
  <2>1. PICK w \in 0..MaxDischargeW : w = currentDischargeW'
    BY <1>3, Sizes DEF NightRamp
  <2>2. w \in Nat
    BY <2>1, Sizes
  <2>3. ~Settled("ctl") /\ UNCHANGED ghosts /\ Discharging'
    BY <1>3 DEF NightRamp, Settled, Discharging
  <2>4. CASE w = 0
    <3>1. Write("ctl", IdleAll("done"))
      BY <1>3, <2>1, <2>4 DEF NightRamp
    <3>2. Allowed' = {"idle"}
      BY <2>1, <2>3, <2>4, DischargeAllowed
    <3>3. Purpose(IdleAll("done"))'
      BY <3>2, IdlePurpose
    <3> QED BY <1>0, <2>3, <3>1, <3>3, WriteAgrees DEF ghosts
  <2>5. CASE w # 0
    <3>1. Write("ctl", Bus("discharge", w, "done"))
      BY <1>3, <2>1, <2>5 DEF NightRamp
    <3>2. Allowed' = {"discharge"}
      BY <2>1, <2>2, <2>3, <2>5, DischargeAllowed
    <3>3. Purpose(Bus("discharge", w, "done"))'
      BY <2>2, <2>5, <3>2, RatePurpose
    <3> QED BY <1>0, <2>3, <3>1, <3>3, WriteAgrees DEF ghosts
  <2> QED BY <2>4, <2>5
<1> QED BY <1>1, <1>2, <1>3

(* sendKeepalive, checkEPCStuck and the probe in SAFE.                        *)
LEMMA AgreeKeepalive ==
    ASSUME TypeInv, AgreeInv,
           KeepaliveBegin \/ KeepaliveOk \/ GatewayRebooted \/ IdledAfterReboot \/
           KeepaliveFails \/ KeepaliveExc3 \/ RebootThenSafe
    PROVE  AgreeInv'
<1>0. "ctl" \in Procs
  BY DEF Procs
<1>1. CASE KeepaliveBegin
  <2>1. PICK j : j = Bus("none", KeptRate, "done")
    OBVIOUS
  <2>2. Move("ctl", "keepalive", j) /\ Begin("ctl") /\ UNCHANGED <<outer, fields>>
    BY <1>1, <2>1 DEF KeepaliveBegin
  <2>3. pc["ctl"] = "idle"
    BY <2>2 DEF Begin
  <2> QED BY <1>0, <2>2, <2>3, IdlyAgrees DEF outer, fields, day
<1>2. CASE KeepaliveOk
  <2>1. /\ pc["ctl"] = "keepalive"
        /\ ~Settled("ctl") /\ UNCHANGED ghosts
        /\ UNCHANGED <<mode, phase, state, rates, dayDischarging>>
    BY <1>2 DEF KeepaliveOk, Settled, outer, day
  <2>2. CASE Finish("ctl")
    <3>1. Move("ctl", "idle", NoJob)
      BY <2>2 DEF Finish, GoTo
    <3> QED BY <1>0, <2>1, <3>1, IdlyAgrees DEF ghosts
  <2>3. CASE Write("ctl", IdleAll("standby"))
    <3>1. Purpose(IdleAll("standby"))'
      BY IdlePurpose
    <3> QED BY <1>0, <2>1, <2>3, <3>1, WriteAgrees DEF ghosts
  <2> QED BY <1>2, <2>2, <2>3 DEF KeepaliveOk
<1>3. CASE GatewayRebooted
  <2>1. Write("ctl", IdleAll("reapply")) /\ ~Settled("ctl") /\ UNCHANGED ghosts
    BY <1>3 DEF GatewayRebooted, Done, Settled
  <2>2. Purpose(IdleAll("reapply"))'
    BY IdlePurpose
  <2> QED BY <1>0, <2>1, <2>2, WriteAgrees DEF ghosts
<1>4. CASE IdledAfterReboot
  <2>1. ApplyNext("ctl", "done") /\ ~Settled("ctl") /\ UNCHANGED ghosts
    BY <1>4 DEF IdledAfterReboot, Done, Settled
  <2> QED BY <1>0, <2>1, ApplyAgrees DEF ghosts
<1>5. CASE KeepaliveFails \/ KeepaliveExc3
  <2>1. /\ pc["ctl"] = "keepalive" /\ ~Settled("ctl")
        /\ UNCHANGED ghosts
        /\ UNCHANGED <<mode, phase, state, rates, dayDischarging>>
    BY <1>5 DEF KeepaliveFails, KeepaliveExc3, Settled, outer, fields, day
  <2>2. PICK l \in {"reboot", "idle"} : Move("ctl", l, NoJob)
    BY <1>5 DEF KeepaliveFails, KeepaliveExc3, Finish, GoTo
  <2> QED BY <1>0, <2>1, <2>2, IdlyAgrees DEF ghosts
<1>6. CASE RebootThenSafe
  BY <1>0, <1>6, SafeAgrees DEF RebootThenSafe, Settled, ghosts
<1> QED BY <1>1, <1>2, <1>3, <1>4, <1>5, <1>6

LEMMA AgreeProbe ==
    ASSUME TypeInv, AgreeInv, ProbeBegin \/ ProbeDone PROVE AgreeInv'
<1>0. "ctl" \in Procs
  BY DEF Procs
<1>1. CASE ProbeBegin
  <2>1. Purpose(Bus("probe", 0, "recover"))'
    BY DEF Purpose, Bus
  <2> QED BY <1>0, <1>1, <2>1, WriteAgrees DEF ProbeBegin
<1>2. CASE ProbeDone
  <2>1. /\ pc["ctl"] = "write" /\ at["ctl"] = N + 1 /\ ~Settled("ctl")
        /\ UNCHANGED <<outer, ghosts>>
    BY <1>2 DEF ProbeDone, Done, Settled
  <2>2. CASE failed["ctl"]
    <3>1. Move("ctl", "idle", NoJob)
      BY <1>2, <2>2 DEF ProbeDone, Finish, GoTo
    <3> QED BY <1>0, <2>1, <2>2, <3>1, DoneAgrees DEF outer, ghosts
  <2>3. CASE ~failed["ctl"]
    <3>1. ApplyNext("ctl", "done")
      BY <1>2, <2>3 DEF ProbeDone
    <3> QED BY <1>0, <2>1, <3>1, ApplyAgrees DEF ghosts
  <2> QED BY <2>2, <2>3
<1> QED BY <1>1, <1>2

(* The command handlers.                                                      *)
LEMMA AgreeOperator ==
    ASSUME TypeInv, AgreeInv, OperatorCommand PROVE AgreeInv'
<1>0. "tg" \in Procs /\ "cyc" \in Procs /\ "tg" # "cyc"
  BY DEF Procs
<1>1. Begin("tg") /\ UNCHANGED <<outer, rates>>
  BY DEF OperatorCommand, ManualStop, ManualStart, ManualCharge, ManualDischarge,
     HandleUp, HandleDown, HandleCycle, Command
<1>2. CASE ManualStop
  <2>1. Write("tg", IdleAll("done")) /\ state' = "STOPPED"
    BY <1>2 DEF ManualStop
  <2>2. Purpose(IdleAll("done"))'
    BY <2>1, IdleAllowed, IdlePurpose
  <2> QED BY <1>0, <1>1, <2>1, <2>2, WriteAgrees
<1>3. CASE ManualStart \/ ManualCharge \/ ManualDischarge
  <2>1. ApplyNext("tg", "done")
    BY <1>3 DEF ManualStart, ManualCharge, ManualDischarge, ManualTo
  <2> QED BY <1>0, <1>1, <2>1, ApplyAgrees
<1>4. CASE HandleUp \/ HandleDown
  <2>1. PICK cw, dw : AskRate(cw, dw)
    BY <1>4 DEF HandleUp, HandleDown
  <2>2. CASE Write("tg", Bus("charge", cw, "setCharge")) /\ state' = "DAY_CHARGE"
    <3>1. Purpose(Bus("charge", cw, "setCharge"))'
      BY <2>2 DEF Purpose, Bus
    <3> QED BY <1>0, <1>1, <2>2, <3>1, WriteAgrees
  <2>3. CASE Write("tg", Bus("discharge", dw, "setDischarge")) /\ state' = "NIGHT_DISCHARGE"
    <3>1. Purpose(Bus("discharge", dw, "setDischarge"))'
      BY <2>3 DEF Purpose, Bus
    <3> QED BY <1>0, <1>1, <2>3, <3>1, WriteAgrees
  <2> QED BY <2>1, <2>2, <2>3 DEF AskRate
<1>5. CASE HandleCycle
  <2>1. Move("cyc", "cycling", NoJob) /\ UNCHANGED <<state, dayDischarging>> /\ pc["cyc"] = "idle"
    BY <1>5 DEF HandleCycle, GoTo
  <2>2. \A q \in Procs \ {"cyc"} :
           pc'[q] = pc[q] /\ job'[q] = job[q] /\ at'[q] = at[q] /\ failed'[q] = failed[q]
    BY <2>1 DEF Move, TypeInv, PlaceOK
  <2>3. alone' => \A q \in Procs \ {"cyc"} : Settled(q)
    BY <1>1 DEF Begin, Settled
  <2>4. Turn("cyc") /\ (trust' => trust /\ misrated' = misrated)
    BY <1>1, <2>2, <2>3, FlagValues DEF Turn, Begin
  <2>5. Allowed' = Allowed
    BY <1>1, <2>1, FieldsSame DEF rates
  <2> QED BY <1>0, <1>1, <2>1, <2>4, <2>5, CalmAgrees DEF outer, Live
<1> QED BY <1>2, <1>3, <1>4, <1>5 DEF OperatorCommand

(* What setChargeRate, setDischargeRate and the cycling goroutine do last.    *)
LEMMA AgreeSet ==
    ASSUME TypeInv, AgreeInv, SetChargeRate \/ SetDischargeRate \/ CycleDone
    PROVE  AgreeInv'
<1>0. "tg" \in Procs /\ "cyc" \in Procs
  BY DEF Procs
<1>1. trust => alone
  BY DEF AgreeInv, Lone
<1>2. job["tg"].w \in Nat
  BY <1>0 DEF TypeInv, PlaceOK, GoodJob, JobType
<1>3. CASE SetChargeRate
  <2>1. /\ Move("tg", "idle", NoJob) /\ pc["tg"] = "write" /\ at["tg"] = N + 1
        /\ job["tg"].then = "setCharge"
        /\ UNCHANGED <<outer, state, day, alone, trust>>
        /\ misrated' = (trust /\ dayDischarging)
    BY <1>3 DEF SetChargeRate, Finish, GoTo, Done
  <2>2. trust => state = "DAY_CHARGE" /\ job["tg"].op = "charge"
    BY <1>0, <1>1, <2>1 DEF AgreeInv, Purposes, Purpose
  <2>3. trust => ToAll(job["tg"]) /\ Targets(job["tg"]) \subseteq {"charge", "idle"}
    BY <2>2 DEF ToAll, Targets
  <2>4. ~failed["tg"] => currentChargeW' = job["tg"].w
    BY <1>3 DEF SetChargeRate
  <2>5. ASSUME trust, ~failed["tg"] PROVE Targets(job["tg"]) \subseteq Expected'
    <3>1. CASE dayDischarging
      BY <2>1, <2>3, <2>5, <3>1 DEF Expected
    <3>2. CASE ~dayDischarging
      <4>1. Charging' /\ ~misrated'
        BY <2>1, <2>2, <2>5, <3>2 DEF Charging, day
      <4>2. Targets(job["tg"]) = IF job["tg"].w > 0 THEN {"charge", "idle"} ELSE {"idle"}
        BY <1>2, <2>2, <2>5 DEF Targets
      <4>3. Allowed' = IF job["tg"].w > 0 THEN {"charge", "idle"} ELSE {"idle"}
        BY <1>2, <2>4, <2>5, <4>1, ChargeAllowed
      <4> QED BY <4>1, <4>2, <4>3 DEF Expected
    <3> QED BY <3>1, <3>2
  <2> QED BY <1>0, <2>1, <2>3, <2>5, DoneExpects DEF outer
<1>4. CASE SetDischargeRate
  <2>1. /\ Move("tg", "idle", NoJob) /\ pc["tg"] = "write" /\ at["tg"] = N + 1
        /\ job["tg"].then = "setDischarge"
        /\ UNCHANGED <<outer, state, ghosts>>
    BY <1>4 DEF SetDischargeRate, Finish, GoTo, Done
  <2>2. trust => state = "NIGHT_DISCHARGE" /\ job["tg"].op = "discharge"
    BY <1>0, <1>1, <2>1 DEF AgreeInv, Purposes, Purpose
  <2>3. trust => Discharging'
    BY <2>1, <2>2 DEF Discharging
  <2>4. ~failed["tg"] => currentDischargeW' = job["tg"].w
    BY <1>4 DEF SetDischargeRate
  <2>5. ASSUME trust, ~failed["tg"] PROVE ToAll(job["tg"]) /\ Targets(job["tg"]) \subseteq Allowed'
    <3>2. ToAll(job["tg"])
      BY <2>2, <2>5 DEF ToAll
    <3>3. Targets(job["tg"]) = IF job["tg"].w > 0 THEN {"discharge"} ELSE {"idle"}
      BY <1>2, <2>2, <2>5 DEF Targets
    <3>4. Allowed' = IF job["tg"].w > 0 THEN {"discharge"} ELSE {"idle"}
      BY <1>2, <2>3, <2>4, <2>5, DischargeAllowed
    <3> QED BY <3>2, <3>3, <3>4
  <2> QED BY <1>0, <2>1, <2>5, DoneAgrees DEF outer, ghosts
<1>5. CASE CycleDone
  <2>1. /\ pc["cyc"] = "cycling" /\ ~Settled("cyc") /\ UNCHANGED ghosts
        /\ UNCHANGED <<mode, phase, state, rates, dayDischarging>>
    BY <1>5 DEF CycleDone, Settled, outer, fields, day
  <2>2. CASE ApplyNext("cyc", "done")
    BY <1>0, <2>1, <2>2, ApplyAgrees DEF ghosts
  <2>3. CASE Finish("cyc")
    <3>1. Move("cyc", "idle", NoJob)
      BY <2>3 DEF Finish, GoTo
    <3> QED BY <1>0, <2>1, <3>1, IdlyAgrees DEF ghosts
  <2> QED BY <1>5, <2>2, <2>3 DEF CycleDone
<1> QED BY <1>3, <1>4, <1>5

(* main.                                                                      *)
LEMMA AgreeMain ==
    ASSUME TypeInv, AgreeInv, ControllerStart \/ LoopsStart \/ StopIdle \/ Exit
    PROVE  AgreeInv'
<1>0. "main" \in Procs
  BY DEF Procs
<1>1. CASE ControllerStart
  <2>1. ApplyNext("main", "run") /\ ~Settled("main") /\ UNCHANGED ghosts
    BY <1>1 DEF ControllerStart, Done, Settled
  <2> QED BY <1>0, <2>1, ApplyAgrees DEF ghosts
<1>2. CASE LoopsStart
  <2>1. /\ Move("main", "idle", NoJob) /\ pc["main"] = "write" /\ at["main"] = N + 1
        /\ job["main"].then = "run"
        /\ UNCHANGED <<mode, fields, ghosts>>
    BY <1>2 DEF LoopsStart, Finish, GoTo, Done
  <2>2. Allowed' = Allowed
    BY <2>1, FieldsSame DEF fields, rates, day
  <2>3. trust => ToAll(job["main"]) /\ Targets(job["main"]) \subseteq Allowed
    BY <1>0, <2>1 DEF AgreeInv, Lone, Purposes, Purpose
  <2> QED BY <1>0, <2>1, <2>2, <2>3, DoneAgrees DEF ghosts
<1>3. CASE StopIdle
  <2>1. Write("main", IdleAll("exit")) /\ Begin("main")
    BY <1>3 DEF StopIdle
  <2>2. Purpose(IdleAll("exit"))'
    BY IdlePurpose
  <2> QED BY <1>0, <2>1, <2>2, WriteAgrees
<1>4. CASE Exit
  <2>1. pc' = [p \in Procs |-> "stopped"] /\ phase' = "exited" /\ UNCHANGED ghosts
    BY <1>4 DEF Exit
  <2>2. Lone'
    BY <2>1 DEF AgreeInv, Lone, Settled, ghosts
  <2>3. Progress' /\ Purposes'
    BY <2>1 DEF Progress, Purposes
  <2>4. Agreed'
    BY <2>1 DEF Agreed, Live
  <2> QED BY <2>2, <2>3, <2>4 DEF AgreeInv
<1> QED BY <1>1, <1>2, <1>3, <1>4

(* Memory is fresh when the process starts, and nothing is trusted yet.       *)
LEMMA AgreeInit == Init => AgreeInv
<1> SUFFICES ASSUME Init PROVE AgreeInv
  OBVIOUS
<1>1. \A p \in Procs : ~Settled(p) <=> p = "main"
  BY DEF Init, StartPc, Settled
<1>2. ~trust
  BY DEF Init
<1>3. Lone
  BY <1>1, <1>2 DEF Lone
<1>4. \A p \in Procs : pc[p] = "write" => /\ job[p].then = "start"
                                          /\ ToAll(job[p]) => at[p] = 1
  BY DEF Init, StartPc, StartJob, StartAt, FirstJob, IdleAll, Bus, ToAll
<1>5. Progress
  BY <1>2, <1>4, Sizes DEF Progress, Units
<1>6. \A p \in Procs : pc[p] \notin {"starve", "apply"}
  BY DEF Init, StartPc
<1>7. Purposes
  BY <1>4, <1>6 DEF Purposes, Purpose
<1> QED BY <1>2, <1>3, <1>5, <1>7 DEF Agreed, AgreeInv

LEMMA AgreeStart == ProcessStart => AgreeInv'
<1> SUFFICES ASSUME ProcessStart PROVE AgreeInv'
  OBVIOUS
<1>1. \A p \in Procs : ~Settled(p)' <=> p = "main"
  BY DEF ProcessStart, StartPc, Settled
<1>2. ~trust'
  BY DEF ProcessStart
<1>3. Lone'
  BY <1>1, <1>2 DEF Lone
<1>4. \A p \in Procs : pc'[p] = "write" => /\ job'[p].then = "start"
                                           /\ ToAll(job'[p]) => at'[p] = 1
  BY DEF ProcessStart, StartPc, StartJob, StartAt, FirstJob, IdleAll, Bus, ToAll
<1>5. Progress'
  BY <1>2, <1>4, Sizes DEF Progress, Units
<1>6. \A p \in Procs : pc'[p] \notin {"starve", "apply"}
  BY DEF ProcessStart, StartPc
<1>7. Purposes'
  BY <1>4, <1>6 DEF Purposes, Purpose
<1> QED BY <1>2, <1>3, <1>5, <1>7 DEF Agreed, AgreeInv

(* The steps that leave every handler where it is.                            *)
LEMMA AgreeProcess ==
    ASSUME TypeInv, AgreeInv,
           (\E p \in Loops : LoopExit(p)) \/ Signal \/ WindowFlip \/ UNCHANGED vars
    PROVE  AgreeInv'
<1>1. /\ UNCHANGED <<mode, state, rates, dayDischarging, ghosts>>
      /\ Live' => Live
  BY DEF LoopExit, Signal, WindowFlip, vars, outer, fields, day, Live
<1>2. /\ (alone' => alone) /\ (misrated' => misrated)
      /\ trust' => trust /\ alone' /\ misrated' = misrated
  BY <1>1 DEF ghosts, AgreeInv, Lone
<1>3. CASE \E p \in Loops : LoopExit(p)
  <2>1. PICK p \in Procs : LoopExit(p)
    BY <1>3 DEF Loops, Procs
  <2>2. pc[p] = "idle" /\ Move(p, "stopped", NoJob)
    BY <2>1 DEF LoopExit, GoTo
  <2>3. /\ pc'[p] = "stopped"
        /\ \A q \in Procs \ {p} :
              pc'[q] = pc[q] /\ job'[q] = job[q] /\ at'[q] = at[q] /\ failed'[q] = failed[q]
    BY <2>2 DEF Move, TypeInv, PlaceOK
  <2> QED BY <1>1, <1>2, <2>2, <2>3, StillAgrees DEF Settled
<1>4. CASE Signal \/ WindowFlip \/ UNCHANGED vars
  <2>1. pc' = pc /\ job' = job /\ at' = at /\ failed' = failed
    BY <1>4 DEF Signal, WindowFlip, vars, place
  <2> QED BY <1>1, <1>2, <2>1, StillAgrees
<1> QED BY <1>3, <1>4

LEMMA AgreeStep == TypeInv /\ AgreeInv /\ [Next]_vars => AgreeInv'
<1> SUFFICES ASSUME TypeInv, AgreeInv, [Next]_vars PROVE AgreeInv'
  OBVIOUS
<1>1. ASSUME NEW p \in Procs, Step(p) PROVE AgreeInv'
  <2>1. CASE WriteOk(p) \/ WriteFails(p) \/ ApplyCurrentState(p) \/ HandlerDone(p)
    BY <2>1, AgreeWriteOk, AgreeWriteFails, AgreeApply, AgreeHandlerDone
  <2>2. CASE ControlStep
    BY <2>2, AgreeTransitions, AgreeShave, AgreeCharge, AgreeNight, AgreeKeepalive, AgreeProbe
    DEF ControlStep
  <2>3. CASE SetChargeRate \/ SetDischargeRate \/ CycleDone
    BY <2>3, AgreeSet
  <2>4. CASE ControllerStart \/ LoopsStart \/ StopIdle \/ Exit
    BY <2>4, AgreeMain
  <2> QED BY <1>1, <2>1, <2>2, <2>3, <2>4 DEF Step
<1>2. CASE GridReadOk \/ GridReadFails
  BY <1>2, AgreeGrid
<1>3. CASE CycleBegin \/ KeepaliveBegin \/ ProbeBegin
  BY <1>3, AgreeTransitions, AgreeKeepalive, AgreeProbe
<1>4. CASE OperatorCommand
  BY <1>4, AgreeOperator
<1>5. CASE Restart \/ Crash
  BY <1>5, AgreeStart DEF Restart, Crash
<1>6. CASE (\E p \in Loops : LoopExit(p)) \/ Signal \/ WindowFlip \/ UNCHANGED vars
  BY <1>6, AgreeProcess
<1> QED BY <1>1, <1>2, <1>3, <1>4, <1>5, <1>6 DEF Next

(* Whatever the goroutines, the operator and the gateway do, a command to all *)
(* inverters that completed without failure and without overlap leaves each   *)
(* of them in a mode that the controller's state and rates call for, until    *)
(* the next write that fails or overlaps; except after /up or /down while     *)
(* peak shaving, which leaves all of them charging or idle until the next     *)
(* command to all of them.                                                    *)
THEOREM ModesAgree == Spec => []Agreement
<1>1. Init => IInv
  BY TypeInit, AgreeInit DEF IInv
<1>2. IInv /\ [Next]_vars => IInv'
  BY TypeStep, AgreeStep DEF IInv
<1>3. IInv => Agreement
  <2>1. Quiet => Calm
    BY DEF Quiet, Calm, Settled
  <2> QED BY <2>1 DEF IInv, AgreeInv, Agreed, ModesFit, Agreement
<1> QED BY <1>1, <1>2, <1>3, PTL DEF Spec
===============================================================================
