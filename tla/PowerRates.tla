------------------------------ MODULE PowerRates ------------------------------
(* The arithmetic that turns a grid reading into powers for the inverters:    *)
(* the charge target, the ramps by day and by night, and the distribution of  *)
(* a charge over the four inverters by their state of charge.  All powers are *)
(* whole watts, as in the code.  Divisions are of non-negative numbers, where *)
(* Go's and TLA+'s agree.                                                     *)
EXTENDS Integers

CONSTANTS
    StartPerInvW,         \* charge.start_per_inverter_w
    MaxPerInvW,           \* charge.max_per_inverter_w
    MaxTotalW,            \* charge.max_total_w
    MaxDischargePerInvW   \* discharge.max_per_inverter_w

ASSUME PowerConfig ==
    /\ StartPerInvW \in Nat
    /\ MaxPerInvW \in Nat
    /\ MaxTotalW \in Nat
    /\ MaxDischargePerInvW \in Nat

Inverters == 1..4

Least(a, b) == IF a <= b THEN a ELSE b
Most(a, b)  == IF a >= b THEN a ELSE b

clamp(v, lo, hi) == Most(lo, Least(v, hi))

Total(f) == f[1] + f[2] + f[3] + f[4]

-------------------------------------------------------------------------------
(* State of charge.  Before the first answer of the battery there is none,    *)
(* and the controller then works with 0.                                      *)

NoBMS == <<>>

TotalSOC(soc) == Total(soc) \div 4

currentSOC(soc) == IF soc = NoBMS THEN 0 ELSE TotalSOC(soc)

-------------------------------------------------------------------------------
(* Charging                                                                   *)

maxExportW == 10000

socShareW(production, soc) ==
    IF currentSOC(soc) = 0 \/ currentSOC(soc) > 75 THEN production \div 4
    ELSE IF currentSOC(soc) > 50 THEN production \div 2
    ELSE production

chargeTarget(production, soc) ==
    Most(Most(production - maxExportW, 0), socShareW(production, soc))

StartRate(export, soc) ==
    clamp(Least(chargeTarget(export, soc), MaxTotalW) \div 4, StartPerInvW, MaxPerInvW)

\* Mutant: the target is added to what is charged already.
RampUpRateTwice(chargeW, export, soc) ==
    Least(Least(chargeW * 4 + chargeTarget(chargeW * 4 + export, soc), MaxTotalW) \div 4,
          MaxPerInvW)

RampUpRate(chargeW, export, soc) ==
    Least(Least(chargeTarget(chargeW * 4 + export, soc), MaxTotalW) \div 4, MaxPerInvW)

trimBufferW == 500
minTrimW    == 600

RampDownRate(chargeW, import) ==
    LET trimW == Most((import - trimBufferW) \div 2, minTrimW)
    IN  Most(chargeW * 4 - trimW, StartPerInvW * 4) \div 4

-------------------------------------------------------------------------------
(* Discharging: the same ramp keeps the import between the floor and the      *)
(* ceiling by night and while peak shaving.                                   *)

importFloor == 500
importCeil  == 1000
minStep     == 50
maxStep     == 300
startDischargeW == 300

\* Mutant: each inverter answers the whole import, in a single step.
DischargeUpUndivided(dischargeW, import, maxW) ==
    Least(dischargeW + Most(import - importCeil, minStep), maxW)

DischargeUp(dischargeW, import, maxW) ==
    Least(dischargeW + clamp((import - importCeil) \div 4, minStep, maxStep), maxW)

DischargeDown(dischargeW, import) ==
    Most(dischargeW - clamp((importFloor - import) \div 4, minStep, maxStep), 0)

\* Mutants: the reduced rate is not kept above zero; it stops at the rate a
\* discharge starts with.
GuardDownUnfloored(dischargeW, export) ==
    dischargeW - clamp(export \div 4, minStep, maxStep)
GuardDownToStart(dischargeW, export) ==
    Most(dischargeW - clamp(export \div 4, minStep, maxStep), startDischargeW)

GuardDown(dischargeW, export) ==
    Most(dischargeW - clamp(export \div 4, minStep, maxStep), 0)

-------------------------------------------------------------------------------
(* The distribution of a charge of perInvW per inverter                       *)

balanceThreshold == 5

HighestSOC(soc) == CHOOSE s \in {soc[i] : i \in Inverters} : \A i \in Inverters : soc[i] <= s
LowestSOC(soc)  == CHOOSE s \in {soc[i] : i \in Inverters} : \A i \in Inverters : soc[i] >= s

\* The first of the inverters with the lowest state of charge.
lowestIdx(soc) ==
    CHOOSE i \in Inverters :
        /\ soc[i] = LowestSOC(soc)
        /\ \A j \in Inverters : j < i => soc[j] # soc[i]

Weights(soc) == [i \in Inverters |-> HighestSOC(soc) - soc[i] + 1]

CappedShare(totalW, weights, i) ==
    Most(Least((totalW * weights[i]) \div Total(weights), MaxPerInvW), 0)

CappedShares(perInvW, soc) ==
    [i \in Inverters |-> CappedShare(perInvW * 4, Weights(soc), i)]

\* Mutant: the remainder goes to the emptiest inverter, whatever it has.
WithRemainderUncapped(rates, totalW, low) ==
    [rates EXCEPT ![low] = @ + (totalW - Total(rates))]

WithRemainder(rates, totalW, low) ==
    IF totalW > Total(rates)
    THEN [rates EXCEPT ![low] = Least(@ + (totalW - Total(rates)), MaxPerInvW)]
    ELSE rates

balancedChargeRates(perInvW, soc) ==
    IF \/ soc = NoBMS
       \/ perInvW <= 0
       \/ HighestSOC(soc) - LowestSOC(soc) <= balanceThreshold
    THEN [i \in Inverters |-> perInvW]
    ELSE WithRemainder(CappedShares(perInvW, soc), perInvW * 4, lowestIdx(soc))

===============================================================================
