---------------------------- MODULE SolarControlInv ----------------------------
(* The inductive strengthenings behind the theorems of SolarControl_proofs.   *)
EXTENDS SolarControlProps

(* The rate that a follow-up will record is within the configured maximum.    *)
GoodJob ==
    {j \in JobType : /\ j.then \in {"rampTo", "setCharge"} => j.w <= MaxChargeW
                     /\ j.then = "setDischarge" => j.w <= MaxDischargeW}

PlaceOK ==
    /\ pc \in [Procs -> PcSet]
    /\ job \in [Procs -> GoodJob]
    /\ at \in [Procs -> 1..(N + 1)]
    /\ failed \in [Procs -> BOOLEAN]

FieldsOK ==
    /\ state \in States
    /\ currentChargeW \in 0..MaxChargeW
    /\ currentDischargeW \in 0..MaxDischargeW
    /\ consecutiveFail \in 0..MaxReadFailures
    /\ consecutiveWriteFail \in 0..MaxWriteFail

FlagsOK ==
    /\ waitingForExport \in BOOLEAN
    /\ dayDischarging \in BOOLEAN
    /\ manualOverride \in BOOLEAN
    /\ manualOverrideInDay \in BOOLEAN
    /\ manualStopped \in BOOLEAN
    /\ alone \in BOOLEAN
    /\ trust \in BOOLEAN
    /\ misrated \in BOOLEAN

OuterOK ==
    /\ phase \in {"starting", "running", "draining", "exited"}
    /\ window \in BOOLEAN
    /\ mode \in [Units -> Modes]

TypeInv == PlaceOK /\ FieldsOK /\ FlagsOK /\ OuterOK
-------------------------------------------------------------------------------
(* While alone holds, at most one goroutine is within a handler.              *)
Lone ==
    /\ alone => \A p, q \in Procs : ~Settled(p) /\ ~Settled(q) => p = q
    /\ trust => alone

(* A trusted bus operation has not failed, and a lone operation on all units  *)
(* has put the units it has passed into the mode it writes; once complete, it *)
(* has undone what /up or /down did while peak shaving.                       *)
Progress ==
    \A p \in Procs : pc[p] = "write" =>
       /\ trust => ~failed[p]
       /\ alone /\ ~failed[p] /\ ToAll(job[p]) =>
             /\ \A u \in Units : u < at[p] => mode[u] \in Targets(job[p])
             /\ at[p] = N + 1 => ~misrated

(* What a lone operation writes is what the fields call for, or will once the *)
(* follow-up has recorded it.                                                 *)
Purpose(j) ==
    /\ j.then \in {"done", "act", "run"} => ToAll(j) /\ Targets(j) \subseteq Allowed
    /\ j.then = "rampTo" => Charging /\ j.op = "charge" /\ j.w > 0
    /\ j.then = "startCharging" => Charging
    /\ j.then = "lowSOC" => j.op = "idle" /\ j.w = 0
    /\ j.then = "setCharge" => state = "DAY_CHARGE" /\ j.op = "charge"
    /\ j.then = "setDischarge" => state = "NIGHT_DISCHARGE" /\ j.op = "discharge"

Purposes ==
    \A p \in Procs :
       /\ alone /\ pc[p] = "write" => Purpose(job[p])
       /\ alone /\ pc[p] = "starve" => Charging
       /\ pc[p] = "apply" => job[p].then \in {"done", "act", "run"}

(* No goroutine is writing or about to apply the state.                       *)
Calm == \A p \in Procs : pc[p] \notin {"write", "apply"}

ModesFit == \A u \in Units : mode[u] \in Expected

Agreed == Live /\ Calm /\ trust => ModesFit

AgreeInv == Lone /\ Progress /\ Purposes /\ Agreed

IInv == TypeInv /\ AgreeInv
-------------------------------------------------------------------------------
(* Only ctl starts peak shaving, and not between a ramp of the charge and the *)
(* moment it records the new rate.                                            *)
RampInv ==
    /\ OneDirection
    /\ \A p \in Procs :
          /\ pc[p] = "write" /\ job[p].then \in {"rampTo", "startCharging"} =>
                p = "ctl" /\ ~dayDischarging
          /\ ~(pc[p] = "write" /\ job[p].then = "setCharge")
-------------------------------------------------------------------------------
(* While Stop idles the inverters nobody else can write to them, and the ones *)
(* it has passed are idle; the process ends with every goroutine stopped.     *)
Idling == pc["main"] = "write" /\ job["main"].then = "exit"

NoCycle == pc["cyc"] \in {"idle", "stopped"}

ExitInv ==
    /\ NoCycle
    /\ Idling =>
          /\ phase = "draining"
          /\ \A p \in Loops : pc[p] = "stopped"
          /\ job["main"] = IdleAll("exit")
          /\ ~failed["main"] => \A u \in Units : u < at["main"] => mode[u] = "idle"
    /\ phase = "exited" => (\A p \in Procs : pc[p] = "stopped") /\ ExitIdle
===============================================================================
