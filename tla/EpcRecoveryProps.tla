--------------------------- MODULE EpcRecoveryProps ---------------------------
(* What the recovery of gateway and inverters should do.                      *)
EXTENDS EpcRecovery

TypeOK ==
    /\ state \in {"commanded", "quiet", "SAFE"}
    /\ epcStuckSince \in Unset..StuckHold
    /\ epcCycleCount \in 0..(MaxAttempts + 1)
    /\ lastCycleAt \in 0..RetryInterval
    /\ lastRebootAt \in 0..RebootRetryInterval
    /\ consecutiveWriteFail \in 0..MaxWriteFail
    /\ bms \in {"unknown", "power", "no power", "limit"}
    /\ lastBMSAt \in 0..(BMSMaxAge + 1)
    /\ due \subseteq {"bms", "keepalive"}
    /\ pc \in {"select", "clear", "note", "enter safe", "restart"} \cup DOMAIN Slept
    /\ left \in 0..RebootWait
    /\ fault \in {"none", "alert", "epc", "xanbus"}
    /\ booting \in 0..BootTime
    /\ opmode \in [Units -> {"operating", "standby"}]
    /\ cycler \in [step : {"none", "standby", "operating"}, unit : Units]
    /\ rebootedBy \in {"nobody", "controller", "operator"}
    /\ clears \in 0..2
    /\ failedClears \in 0..2
    /\ stranded \in BOOLEAN

\* Rebooting is the last resort of a stuck recovery: in the same episode, with
\* no power seen and no restart in between, two attempts have asked the gateway
\* to clear its alerts, so either the alerts have been cleared, or the gateway
\* has failed to do so twice.
RebootIsLastResort ==
    [][pc # "reboot stuck" /\ pc' = "reboot stuck" => clears' + failedClears' = 2]_vars

\* The loop stays away from a gateway that it has rebooted itself until the
\* gateway is back: no write, probe, battery reading or second reboot.
OwnBootUndisturbed ==
    booting > 0 /\ rebootedBy = "controller" =>
        pc \in {"note", "enter safe", "restart"} /\ booting <= left

\* An inverter in standby is in the hands of a /cycle that will set it
\* operating again, unless one of its calls has failed.
StandbyOwned ==
    (\E u \in Units : opmode[u] = "standby") => cycler # NoCycle \/ stranded

\* From some time on nothing breaks and nobody reboots the gateway.
QuietWorld == <>[][~Breaks /\ ~HandleReboot]_vars

\* Inverters that do not act on what is commanded come back, by the cleared
\* alerts or by the reboot of a later attempt.
StuckRecovers ==
    /\ QuietWorld
    /\ <>[](state = "commanded" /\ bms # "limit")
    => <>[](fault = "none")

\* README.md promises of inverters that do not respond: "Retries 3 times with
\* 10-minute gaps, then alerts via Telegram".  So while power is commanded and
\* the battery has shown none, the attempts made are not forgotten before the
\* last of them; the branch of checkEPCStuck that gives up counts on it.
RetriesThreeTimes ==
    [][/\ state = "commanded" /\ state' = "commanded"
       /\ bms = "no power"
       /\ epcCycleCount < MaxAttempts
       => epcCycleCount' >= epcCycleCount]_vars

\* SAFE mode ends, also when only a reboot brings the gateway back.
SafeEnds == QuietWorld => [](state = "SAFE" => <>(state # "SAFE"))

===============================================================================
