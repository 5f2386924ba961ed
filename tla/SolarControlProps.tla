--------------------------- MODULE SolarControlProps ---------------------------
(* What SolarControl promises: invariants, action properties and liveness.    *)
EXTENDS SolarControl

(* Type invariant: the fields of the controller and of each goroutine keep    *)
(* their ranges, in particular the rates stay within the configured maxima.   *)
TypeOK ==
    /\ phase \in {"starting", "running", "draining", "exited"}
    /\ window \in BOOLEAN
    /\ state \in States
    /\ currentChargeW \in 0..MaxChargeW
    /\ currentDischargeW \in 0..MaxDischargeW
    /\ {waitingForExport, dayDischarging} \subseteq BOOLEAN
    /\ {manualOverride, manualOverrideInDay, manualStopped} \subseteq BOOLEAN
    /\ consecutiveFail \in 0..MaxReadFailures
    /\ consecutiveWriteFail \in 0..MaxWriteFail
    /\ mode \in [Units -> Modes]
    /\ pc \in [Procs -> PcSet]
    /\ job \in [Procs -> JobType]
    /\ at \in [Procs -> 1..(N + 1)]
    /\ failed \in [Procs -> BOOLEAN]
    /\ {alone, trust, misrated} \subseteq BOOLEAN
-------------------------------------------------------------------------------
(* The modes that the controller's fields stand for.                          *)
Discharging == \/ state = "NIGHT_DISCHARGE"
               \/ state = "DAY_CHARGE" /\ dayDischarging
Charging == state = "DAY_CHARGE" /\ ~dayDischarging

Allowed == CASE Discharging /\ currentDischargeW > 0 -> {"discharge"}
             [] Charging /\ currentChargeW > 0       -> {"charge", "idle"}
             [] OTHER                                  -> {"idle"}

(* /up and /down while peak shaving are the exception: DAY_CHARGE makes them  *)
(* write a charge rate, and dayDischarging goes on calling for a discharge.   *)
Expected == IF misrated THEN {"charge", "idle"} ELSE Allowed

(* Every path through the handlers (transitions, ramps, peak shaving, manual  *)
(* commands, SAFE and its recovery, gateway recovery, restart) that was not   *)
(* overlapped by another goroutine and whose writes succeeded leaves each     *)
(* inverter in a mode that the state, dayDischarging and the current rates    *)
(* call for: the keepalives, which never write the mode, rely on it.  One     *)
(* path does not: a rate set by /up or /down while peak shaving leaves the    *)
(* inverters charging, against the fields, and only until the next complete   *)
(* command to all of them.                                                    *)
Agreement ==
    Live /\ Quiet /\ trust => \A u \in Units : mode[u] \in Expected

(* While peak shaving is on, no charge rate is recorded, however the          *)
(* goroutines interleave: the status, the keepalive and the stuck check take  *)
(* exactly one of the two rates as the one in force.                          *)
OneDirection == dayDischarging => currentChargeW = 0

(* Controller.Stop idles the inverters after every loop has returned, so once *)
(* the process has exited and those writes succeeded, all of them are idle.   *)
ExitIdle ==
    phase = "exited" /\ ~failed["main"] => \A u \in Units : mode[u] = "idle"

(* What README.md says of /stop and alerts.go tells the operator: once the    *)
(* stop has been carried out the inverters are all idle.                      *)
StoppedIsIdle ==
    Live /\ Quiet /\ state = "STOPPED" /\ manualStopped
        => \A u \in Units : mode[u] = "idle"
-------------------------------------------------------------------------------
ByOperator == pc'["tg"] # pc["tg"]
SameProcess == phase' = phase \/ phase' = "draining"

(* README.md: "/stop -> STOPPED (manual, no auto-resume)": after /stop only a *)
(* command makes the controller charge or discharge again.                    *)
StopIsManual ==
    [][/\ manualStopped
       /\ state \in {"STOPPED", "SAFE"}
       /\ state' \in {"DAY_CHARGE", "NIGHT_DISCHARGE"}
       /\ SameProcess
       => ByOperator]_vars
-------------------------------------------------------------------------------
(* Once signalled, the process idles the inverters and exits (or crashes):    *)
(* no loop can keep Controller.Stop waiting for ever.                         *)
ShutdownCompletes == phase = "draining" ~> phase # "draining"

(* With a working gateway a process that keeps running leaves SAFE in the     *)
(* end, by the probe, even if the WattNode keeps failing now and then.        *)
SafeRecovers ==
    phase = "running" /\ state = "SAFE" ~> phase # "running" \/ state # "SAFE"

ManuallyStopped == state = "STOPPED" /\ manualStopped

NoMoreEvents == phase = "running" /\ pc["tg"] = "idle" /\ consecutiveFail = 0

(* If the clock stays within the charge window, no command arrives any more   *)
(* and no read fails any more, the controller ends up in DAY_CHARGE for good, *)
(* unless an operator stopped it or holds it by an override of this window;   *)
(* outside the window it ends up discharging, or stopped.                     *)
WindowWins ==
    /\ <>[](window /\ NoMoreEvents)
          => <>[](state = "DAY_CHARGE" \/ ManuallyStopped \/ Held)
    /\ <>[](~window /\ NoMoreEvents)
          => <>[](state \in {"NIGHT_DISCHARGE", "STOPPED"} \/ Held)
===============================================================================
