--------------------------- MODULE PowerLoop_proofs ---------------------------
(* Theorems about the control cycle for every configuration, every sun and    *)
(* load, and every battery reading: types, the limits of the powers and how a *)
(* charge is distributed, that the inverters do what is recorded, that ramps  *)
(* keep to their side of the meter and under the guard's cap, and the ten     *)
(* minutes of import that every peak shave has behind it.                     *)
EXTENDS PowerLoopProps, TLAPS

BatteryReading == [Inverters -> 0..100] \cup {NoBMS}

\* The limits are numbers.
LEMMA LimitsType ==
    /\ HighestChargeW \in Nat /\ StartPerInvW <= HighestChargeW
    /\ MaxPerInvW <= HighestChargeW
    /\ HighestDischargeW \in Nat /\ MaxDischargePerInvW <= HighestDischargeW
    /\ startDischargeW <= HighestDischargeW
    /\ ChargeLimitW \in Nat
    /\ StartPerInvW * 4 <= ChargeLimitW /\ MaxTotalW <= ChargeLimitW
BY PowerConfig DEF HighestChargeW, HighestDischargeW, ChargeLimitW, Most, startDischargeW

-------------------------------------------------------------------------------
(* The ramps                                                                  *)

\* A charge target is never negative, whatever the meter shows.
LEMMA ChargeTargetNat ==
    ASSUME NEW production \in Int, NEW s
    PROVE  chargeTarget(production, s) \in Nat
<1>1. socShareW(production, s) \in Int
  BY DEF socShareW
<1> QED
  BY <1>1 DEF chargeTarget, Most, maxExportW

IsRate(w) == w \in 0..HighestChargeW /\ 4 * w <= ChargeLimitW

LEMMA StartRateInLimit ==
    ASSUME NEW export \in Int, NEW s
    PROVE  IsRate(StartRate(export, s))
<1> DEFINE target == chargeTarget(export, s)
<1>1. target \in Nat
  BY ChargeTargetNat
<1> HIDE DEF target
<1>2. IsRate(clamp(Least(target, MaxTotalW) \div 4, StartPerInvW, MaxPerInvW))
  <2> DEFINE share == Least(target, MaxTotalW) \div 4
  <2>1. share \in Nat /\ 4 * share <= MaxTotalW
    BY <1>1, PowerConfig DEF Least
  <2> HIDE DEF share
  <2>2. IsRate(clamp(share, StartPerInvW, MaxPerInvW))
    BY <2>1, PowerConfig, LimitsType DEF IsRate, clamp, Most, Least
  <2> QED
    BY <2>2 DEF share
<1> QED
  BY <1>2 DEF StartRate, target

LEMMA RampUpRateInLimit ==
    ASSUME NEW w \in Nat, NEW export \in Int, NEW s
    PROVE  IsRate(RampUpRate(w, export, s))
<1> DEFINE target == chargeTarget(w * 4 + export, s)
<1>1. target \in Nat
  BY ChargeTargetNat
<1> HIDE DEF target
<1> DEFINE share == Least(target, MaxTotalW) \div 4
<1>2. share \in Nat /\ 4 * share <= MaxTotalW
  BY <1>1, PowerConfig DEF Least
<1> HIDE DEF share
<1>3. IsRate(Least(share, MaxPerInvW))
  BY <1>2, PowerConfig, LimitsType DEF IsRate, Least
<1> QED
  BY <1>3 DEF RampUpRate, target, share

LEMMA RampDownRateInLimit ==
    ASSUME NEW w \in Nat, IsRate(w), NEW import \in Int
    PROVE  IsRate(RampDownRate(w, import))
<1> DEFINE trim == Most((import - trimBufferW) \div 2, minTrimW)
<1>1. trim \in Nat
  BY DEF Most, trimBufferW, minTrimW
<1> HIDE DEF trim
<1> DEFINE rate == Most(w * 4 - trim, StartPerInvW * 4) \div 4
<1>2. rate \in Nat /\ (4 * rate <= 4 * w \/ rate = StartPerInvW)
  BY <1>1, PowerConfig DEF Most
<1> HIDE DEF rate
<1>3. IsRate(rate)
  BY <1>2, PowerConfig, LimitsType DEF IsRate
<1> QED
  BY <1>3 DEF RampDownRate, trim, rate

IsDischarge(w) == w \in 0..HighestDischargeW

LEMMA DischargeInLimit ==
    ASSUME NEW w \in Nat, IsDischarge(w), NEW g \in Int
    PROVE  /\ \A max \in 0..HighestDischargeW : IsDischarge(DischargeUp(w, g, max))
           /\ IsDischarge(DischargeDown(w, g))
           /\ IsDischarge(GuardDown(w, g))
<1> DEFINE step(x) == clamp(x \div 4, minStep, maxStep)
<1>1. \A x \in Int : step(x) \in minStep..maxStep
  BY DEF clamp, Most, Least, minStep, maxStep
<1>2. /\ step(g - importCeil) \in 0..300
      /\ step(importFloor - g) \in 0..300
      /\ step(g) \in 0..300
  <2>1. g - importCeil \in Int /\ importFloor - g \in Int
    BY DEF importCeil, importFloor
  <2> QED
    BY <1>1, <2>1 DEF minStep, maxStep
<1> HIDE DEF step
<1>3. \A max \in 0..HighestDischargeW : IsDischarge(Least(w + step(g - importCeil), max))
  BY <1>2, LimitsType DEF IsDischarge, Least
<1>4. IsDischarge(Most(w - step(importFloor - g), 0))
  BY <1>2, LimitsType DEF IsDischarge, Most
<1>5. IsDischarge(Most(w - step(g), 0))
  BY <1>2, LimitsType DEF IsDischarge, Most
<1> QED
  BY <1>3, <1>4, <1>5 DEF DischargeUp, DischargeDown, GuardDown, step

-------------------------------------------------------------------------------
(* The distribution over the inverters                                        *)

LEMMA InvertersAre == Inverters = {1, 2, 3, 4}
BY DEF Inverters

LEMMA HighestOfFour ==
    ASSUME NEW a \in Int, NEW b \in Int, NEW c \in Int, NEW d \in Int
    PROVE  \E x \in {a, b, c, d} : a <= x /\ b <= x /\ c <= x /\ d <= x
<1>1. \E x \in {a, b} : a <= x /\ b <= x
  OBVIOUS
<1>2. \E y \in {c, d} : c <= y /\ d <= y
  OBVIOUS
<1>3. PICK x \in {a, b}, y \in {c, d} : a <= x /\ b <= x /\ c <= y /\ d <= y
  BY <1>1, <1>2
<1>4. CASE y <= x
  BY <1>3, <1>4
<1>5. CASE x <= y
  BY <1>3, <1>5
<1> QED
  BY <1>3, <1>4, <1>5

LEMMA HighestSOCIs ==
    ASSUME NEW s \in [Inverters -> 0..100]
    PROVE  /\ HighestSOC(s) \in 0..100
           /\ \A i \in Inverters : s[i] <= HighestSOC(s)
           /\ \E i \in Inverters : s[i] = HighestSOC(s)
<1> DEFINE S == {s[i] : i \in Inverters}
<1>1. \E x \in S : \A i \in Inverters : s[i] <= x
  <2>1. s[1] \in Int /\ s[2] \in Int /\ s[3] \in Int /\ s[4] \in Int
    BY InvertersAre
  <2>2. PICK x \in {s[1], s[2], s[3], s[4]} :
            s[1] <= x /\ s[2] <= x /\ s[3] <= x /\ s[4] <= x
    BY <2>1, HighestOfFour
  <2>3. x \in S /\ \A i \in Inverters : s[i] <= x
    BY <2>2, InvertersAre
  <2> QED
    BY <2>3
<1>2. HighestSOC(s) \in S /\ \A i \in Inverters : s[i] <= HighestSOC(s)
  BY <1>1 DEF HighestSOC
<1> QED
  BY <1>2

LEMMA LowestOfFour ==
    ASSUME NEW a \in Int, NEW b \in Int, NEW c \in Int, NEW d \in Int
    PROVE  \E x \in {a, b, c, d} : a >= x /\ b >= x /\ c >= x /\ d >= x
<1>1. \E x \in {a, b} : a >= x /\ b >= x
  OBVIOUS
<1>2. \E y \in {c, d} : c >= y /\ d >= y
  OBVIOUS
<1>3. PICK x \in {a, b}, y \in {c, d} : a >= x /\ b >= x /\ c >= y /\ d >= y
  BY <1>1, <1>2
<1>4. CASE y >= x
  BY <1>3, <1>4
<1>5. CASE x >= y
  BY <1>3, <1>5
<1> QED
  BY <1>3, <1>4, <1>5

\* The remainder goes to one of the emptiest inverters.
LEMMA LowestIdxIs ==
    ASSUME NEW s \in [Inverters -> 0..100]
    PROVE  /\ lowestIdx(s) \in Inverters
           /\ \A i \in Inverters : s[lowestIdx(s)] <= s[i]
<1> DEFINE S == {s[i] : i \in Inverters}
           L == {i \in Inverters : s[i] = LowestSOC(s)}
<1>1. \E x \in S : \A i \in Inverters : s[i] >= x
  <2>1. s[1] \in Int /\ s[2] \in Int /\ s[3] \in Int /\ s[4] \in Int
    BY InvertersAre
  <2>2. PICK x \in {s[1], s[2], s[3], s[4]} :
            s[1] >= x /\ s[2] >= x /\ s[3] >= x /\ s[4] >= x
    BY <2>1, LowestOfFour
  <2>3. x \in S /\ \A i \in Inverters : s[i] >= x
    BY <2>2, InvertersAre
  <2> QED
    BY <2>3
<1>2. LowestSOC(s) \in S /\ \A i \in Inverters : s[i] >= LowestSOC(s)
  BY <1>1 DEF LowestSOC
<1>3. \E i \in L : \A j \in Inverters : j < i => j \notin L
  <2>1. L # {} /\ L \subseteq {1, 2, 3, 4}
    BY <1>2, InvertersAre
  <2> HIDE DEF L
  <2>2. CASE 1 \in L
    BY <2>2, InvertersAre
  <2>3. CASE 1 \notin L /\ 2 \in L
    BY <2>3, InvertersAre
  <2>4. CASE 1 \notin L /\ 2 \notin L /\ 3 \in L
    <3> SUFFICES \A j \in Inverters : j < 3 => j \notin L
      BY <2>4
    <3> QED
      BY <2>4, InvertersAre
  <2>5. CASE 1 \notin L /\ 2 \notin L /\ 3 \notin L
    <3>1. 4 \in L
      BY <2>1, <2>5
    <3> SUFFICES \A j \in Inverters : j < 4 => j \notin L
      BY <3>1
    <3> QED
      BY <2>5, InvertersAre
  <2> QED
    BY <2>2, <2>3, <2>4, <2>5
<1>4. lowestIdx(s) \in L
  BY <1>3 DEF lowestIdx
<1> QED
  BY <1>2, <1>4

\* Shares of a total by weight, rounded down, are together at most the total.
LEMMA SharesFit ==
    ASSUME NEW T \in Nat,
           NEW a \in Nat \ {0}, NEW b \in Nat \ {0}, NEW c \in Nat \ {0}, NEW d \in Nat \ {0}
    PROVE  LET W == a + b + c + d
           IN  /\ (T * a) \div W \in Nat /\ (T * b) \div W \in Nat
               /\ (T * c) \div W \in Nat /\ (T * d) \div W \in Nat
               /\ (T * a) \div W + (T * b) \div W + (T * c) \div W + (T * d) \div W <= T
<1> DEFINE W == a + b + c + d
           p == (T * a) \div W
           q == (T * b) \div W
           r == (T * c) \div W
           s == (T * d) \div W
<1>1. W \in Nat \ {0}
  OBVIOUS
<1>2. \A x \in Nat, w \in Nat \ {0} : x \div w \in Nat /\ w * (x \div w) <= x
  OBVIOUS
<1>3. T * a \in Nat /\ T * b \in Nat /\ T * c \in Nat /\ T * d \in Nat
  OBVIOUS
<1>4. T * a + T * b + T * c + T * d = W * T
  OBVIOUS
<1> HIDE DEF W
<1>5. /\ p \in Nat /\ W * p <= T * a
      /\ q \in Nat /\ W * q <= T * b
      /\ r \in Nat /\ W * r <= T * c
      /\ s \in Nat /\ W * s <= T * d
  BY <1>1, <1>2, <1>3
<1> HIDE DEF p, q, r, s
<1>6. W * (p + q + r + s) <= W * T
  <2>1. W * (p + q + r + s) = W * p + W * q + W * r + W * s
    BY <1>1, <1>5
  <2>2. /\ W * p \in Int /\ W * q \in Int /\ W * r \in Int /\ W * s \in Int
    BY <1>1, <1>5
  <2> QED
    BY <2>1, <2>2, <1>3, <1>4, <1>5
<1>7. p + q + r + s <= T
  <2>1. \A x \in Nat, y \in Nat, w \in Nat \ {0} : w * x <= w * y => x <= y
    OBVIOUS
  <2> QED
    BY <2>1, <1>1, <1>5, <1>6
<1> QED
  BY <1>5, <1>7 DEF p, q, r, s, W

\* However a charge is distributed, no inverter gets more than the limit of
\* one, and all together no more than was asked for; and less only because an
\* emptiest inverter is at its limit already.
LEMMA BalancedInLimit ==
    ASSUME NEW w \in Nat, IsRate(w), NEW s \in BatteryReading
    PROVE  /\ balancedChargeRates(w, s) \in [Inverters -> 0..HighestChargeW]
           /\ Total(balancedChargeRates(w, s)) <= ChargeLimitW
           /\ Total(balancedChargeRates(w, s)) <= 4 * w
           /\ Total(balancedChargeRates(w, s)) < 4 * w
              => balancedChargeRates(w, s)[lowestIdx(s)] = MaxPerInvW
           /\ \/ balancedChargeRates(w, s) = [i \in Inverters |-> w]
              \/ balancedChargeRates(w, s) \in [Inverters -> 0..MaxPerInvW]
<1>1. CASE \/ s = NoBMS
           \/ w <= 0
           \/ HighestSOC(s) - LowestSOC(s) <= balanceThreshold
  <2>1. balancedChargeRates(w, s) = [i \in Inverters |-> w]
    BY <1>1 DEF balancedChargeRates
  <2> QED
    BY <2>1, LimitsType, InvertersAre DEF IsRate, Total
<1>2. CASE ~ \/ s = NoBMS
             \/ w <= 0
             \/ HighestSOC(s) - LowestSOC(s) <= balanceThreshold
  <2> DEFINE T == w * 4
             u == Weights(s)
             R == CappedShares(w, s)
             low == lowestIdx(s)
  <2>1. s \in [Inverters -> 0..100]
    BY <1>2 DEF BatteryReading
  <2>2. u \in [Inverters -> Nat \ {0}]
    <3>1. \A i \in Inverters : HighestSOC(s) - s[i] + 1 \in Nat \ {0}
      BY <2>1, HighestSOCIs
    <3> QED
      BY <3>1 DEF Weights
  <2>3. T \in Nat /\ T <= ChargeLimitW /\ T = 4 * w
    BY LimitsType DEF IsRate
  <2> HIDE DEF T
  <2>4. /\ \A i \in Inverters : (T * u[i]) \div Total(u) \in Nat
        /\ (T * u[1]) \div Total(u) + (T * u[2]) \div Total(u)
             + (T * u[3]) \div Total(u) + (T * u[4]) \div Total(u) <= T
    <3>1. /\ u[1] \in Nat \ {0} /\ u[2] \in Nat \ {0}
          /\ u[3] \in Nat \ {0} /\ u[4] \in Nat \ {0}
      BY <2>2, InvertersAre
    <3> HIDE DEF u
    <3>2. LET W == u[1] + u[2] + u[3] + u[4]
          IN  /\ (T * u[1]) \div W \in Nat /\ (T * u[2]) \div W \in Nat
              /\ (T * u[3]) \div W \in Nat /\ (T * u[4]) \div W \in Nat
              /\ (T * u[1]) \div W + (T * u[2]) \div W
                   + (T * u[3]) \div W + (T * u[4]) \div W <= T
      BY <2>3, <3>1, SharesFit
    <3> QED
      BY <3>2, InvertersAre DEF Total
  <2> DEFINE q == [i \in Inverters |-> (T * u[i]) \div Total(u)]
  <2>5. q \in [Inverters -> Nat] /\ Total(q) <= T
    BY <2>4, InvertersAre DEF Total
  <2>6. R = [i \in Inverters |-> Most(Least(q[i], MaxPerInvW), 0)]
    BY DEF CappedShares, CappedShare, T
  <2> HIDE DEF q, u, R, low
  <2>7. R \in [Inverters -> 0..MaxPerInvW] /\ Total(R) \in Int /\ Total(R) <= T
    <3>1. \A i \in Inverters : R[i] \in 0..MaxPerInvW /\ R[i] <= q[i]
      BY <2>5, <2>6, PowerConfig DEF Most, Least
    <3>2. R \in [Inverters -> 0..MaxPerInvW]
      BY <3>1, <2>6
    <3>3. /\ R[1] \in Nat /\ R[2] \in Nat /\ R[3] \in Nat /\ R[4] \in Nat
          /\ q[1] \in Nat /\ q[2] \in Nat /\ q[3] \in Nat /\ q[4] \in Nat
          /\ R[1] <= q[1] /\ R[2] <= q[2] /\ R[3] <= q[3] /\ R[4] <= q[4]
      BY <3>1, <2>5, InvertersAre, PowerConfig
    <3> QED
      BY <3>2, <3>3, <2>3, <2>5 DEF Total
  <2> DEFINE F == WithRemainder(R, T, low)
  <2>12. low \in Inverters
    BY <2>1, LowestIdxIs DEF low
  <2>8. /\ F \in [Inverters -> 0..MaxPerInvW]
        /\ Total(F) <= T
        /\ Total(F) < T => F[low] = MaxPerInvW
    <3>1. CASE ~(T > Total(R))
      <4>1. F = R
        BY <3>1 DEF WithRemainder
      <4> QED
        BY <4>1, <3>1, <2>3, <2>7
    <3>2. CASE T > Total(R)
      <4> DEFINE more == T - Total(R)
                 x == Least(R[low] + more, MaxPerInvW)
      <4>1. more \in Nat /\ R[low] \in 0..MaxPerInvW
        BY <3>2, <2>3, <2>7, <2>12
      <4>2. /\ x \in 0..MaxPerInvW /\ x <= R[low] + more
            /\ x = MaxPerInvW \/ x = R[low] + more
        BY <4>1, PowerConfig DEF Least
      <4>3. F = [R EXCEPT ![low] = x]
        BY <3>2 DEF WithRemainder
      <4>4. more + Total(R) = T
        BY <2>3, <2>7
      <4> HIDE DEF x, more, F
      <4>5. F \in [Inverters -> 0..MaxPerInvW]
        BY <4>2, <4>3, <2>7
      <4>6. /\ Total(F) <= Total(R) + more
            /\ F[low] = x
            /\ x = R[low] + more => Total(F) = Total(R) + more
        <5>1. /\ R[1] \in Nat /\ R[2] \in Nat /\ R[3] \in Nat /\ R[4] \in Nat
          BY <2>7, InvertersAre, PowerConfig
        <5>2. \A i \in Inverters : F[i] = IF i = low THEN x ELSE R[i]
          BY <4>3, <2>7, <2>12
        <5>3. low = 1 \/ low = 2 \/ low = 3 \/ low = 4
          BY <2>12, InvertersAre
        <5>4. /\ F[1] = IF 1 = low THEN x ELSE R[1]
              /\ F[2] = IF 2 = low THEN x ELSE R[2]
              /\ F[3] = IF 3 = low THEN x ELSE R[3]
              /\ F[4] = IF 4 = low THEN x ELSE R[4]
          BY <5>2, InvertersAre
        <5>5. x \in Int
          BY <4>2, PowerConfig
        <5>6. F[low] = x
          BY <5>2, <2>12
        <5> QED
          BY <5>1, <5>3, <5>4, <5>5, <5>6, <4>1, <4>2 DEF Total
      <4> QED
        BY <2>3, <2>7, <4>1, <4>2, <4>4, <4>5, <4>6
    <3> QED
      BY <3>1, <3>2
  <2>9. balancedChargeRates(w, s) = F
    BY <1>2 DEF balancedChargeRates, T, R, low
  <2> HIDE DEF F
  <2>10. Total(F) \in Int
    BY <2>8, InvertersAre, PowerConfig DEF Total
  <2>11. F \in [Inverters -> 0..HighestChargeW]
    BY <2>8, LimitsType, PowerConfig
  <2>13. Total(F) < T => F[lowestIdx(s)] = MaxPerInvW
    BY <2>8 DEF low
  <2> QED
    BY <2>3, <2>8, <2>9, <2>10, <2>11, <2>13, LimitsType
<1> QED
  BY <1>1, <1>2

\* Division keeps the order.
LEMMA QuotientsRise ==
    ASSUME NEW x \in Nat, NEW y \in Nat, x <= y, NEW w \in Nat \ {0}
    PROVE  x \div w \in Nat /\ y \div w \in Nat /\ x \div w <= y \div w
<1> DEFINE p == x \div w
           q == y \div w
<1>1. /\ p \in Nat /\ w * p <= x
      /\ q \in Nat /\ y < w * (q + 1)
  OBVIOUS
<1> HIDE DEF p, q
<1>2. w * p < w * (q + 1) /\ w * p \in Int /\ w * (q + 1) \in Int
  BY <1>1
<1>3. p < q + 1
  <2>1. \A a \in Nat, b \in Nat : a >= b => w * a >= w * b
    OBVIOUS
  <2> QED
    BY <1>1, <1>2, <2>1
<1> QED
  BY <1>1, <1>3 DEF p, q

LEMMA FourWeights ==
    ASSUME NEW u \in [Inverters -> 1..101], NEW k \in Inverters, u[k] = 1
    PROVE  Total(u) \in 1..304
<1>1. \A a, b, c, d \in Nat :
          /\ a >= 1 /\ b >= 1 /\ c >= 1 /\ d >= 1
          /\ a <= 101 /\ b <= 101 /\ c <= 101 /\ d <= 101
          /\ (a <= 1 \/ b <= 1 \/ c <= 1 \/ d <= 1)
          => /\ a + b + c + d \in Nat
             /\ a + b + c + d >= 1 /\ a + b + c + d <= 304
  OBVIOUS
<1>2. \A i \in Inverters : u[i] \in Nat /\ u[i] >= 1 /\ u[i] <= 101
  OBVIOUS
<1>3. /\ u[1] \in Nat /\ u[2] \in Nat /\ u[3] \in Nat /\ u[4] \in Nat
      /\ u[1] >= 1 /\ u[2] >= 1 /\ u[3] >= 1 /\ u[4] >= 1
      /\ u[1] <= 101 /\ u[2] <= 101 /\ u[3] <= 101 /\ u[4] <= 101
      /\ (u[1] <= 1 \/ u[2] <= 1 \/ u[3] <= 1 \/ u[4] <= 1)
  BY <1>2, InvertersAre
<1>4. /\ u[1] + u[2] + u[3] + u[4] \in Nat
      /\ u[1] + u[2] + u[3] + u[4] >= 1 /\ u[1] + u[2] + u[3] + u[4] <= 304
  BY <1>1, <1>3
<1> QED
  BY <1>4 DEF Total

\* Weights that add up to no more than the total leave no share at nothing.
LEMMA WeightsAreSmall ==
    ASSUME NEW s \in [Inverters -> 0..100]
    PROVE  Weights(s) \in [Inverters -> 1..101] /\ Total(Weights(s)) \in 1..304
<1> DEFINE u == Weights(s)
<1>1. u \in [Inverters -> 1..101]
  <2>1. \A i \in Inverters : HighestSOC(s) - s[i] + 1 \in 1..101
    BY HighestSOCIs
  <2> QED
    BY <2>1 DEF Weights
<1>2. PICK k \in Inverters : u[k] = 1
  <2>1. PICK k \in Inverters : s[k] = HighestSOC(s)
    BY HighestSOCIs
  <2>2. s[k] \in Int
    OBVIOUS
  <2> QED
    BY <2>1, <2>2 DEF Weights
<1> QED
  BY <1>1, <1>2, FourWeights

LEMMA SharesArePositive ==
    ASSUME NEW w \in Nat, 4 * w >= 304, MaxPerInvW > 0,
           NEW s \in BatteryReading, NEW i \in Inverters
    PROVE  balancedChargeRates(w, s)[i] > 0
<1> DEFINE T == w * 4
           u == Weights(s)
           R == CappedShares(w, s)
           low == lowestIdx(s)
           F == WithRemainder(R, T, low)
<1>1. CASE \/ s = NoBMS
           \/ w <= 0
           \/ HighestSOC(s) - LowestSOC(s) <= balanceThreshold
  BY <1>1 DEF balancedChargeRates
<1>2. CASE ~ \/ s = NoBMS
             \/ w <= 0
             \/ HighestSOC(s) - LowestSOC(s) <= balanceThreshold
  <2>1. balancedChargeRates(w, s) = F
    BY <1>2 DEF balancedChargeRates
  <2>2. s \in [Inverters -> 0..100]
    BY <1>2 DEF BatteryReading
  <2>3. u \in [Inverters -> 1..101] /\ Total(u) \in 1..304
    BY <2>2, WeightsAreSmall
  <2>4. T \in Nat /\ T >= 304
    OBVIOUS
  <2> HIDE DEF T, u
  <2>5. \A k \in Inverters : (T * u[k]) \div Total(u) \in Nat \ {0}
    <3> TAKE k \in Inverters
    <3>1. T * u[k] \in Nat /\ T * u[k] >= Total(u)
      <4>1. \A t \in Nat, a \in Nat : a >= 1 => t * a \in Nat /\ t * a >= t
        OBVIOUS
      <4>2. u[k] \in Nat /\ u[k] >= 1
        BY <2>3
      <4>3. T * u[k] \in Nat /\ T * u[k] >= T
        BY <2>4, <4>1, <4>2
      <4> QED
        BY <2>3, <2>4, <4>3
    <3> DEFINE W == Total(u)
    <3>2. W \in Nat \ {0}
      BY <2>3
    <3> HIDE DEF W
    <3>3. W \div W = 1
      BY <3>2
    <3>4. W \div W <= (T * u[k]) \div W /\ (T * u[k]) \div W \in Nat
      BY <3>1, <3>2, QuotientsRise DEF W
    <3> QED
      BY <3>3, <3>4 DEF W
  <2>6. \A k \in Inverters : R[k] = Most(Least((T * u[k]) \div Total(u), MaxPerInvW), 0)
    BY DEF CappedShares, CappedShare, u, T
  <2>7. \A k \in Inverters : R[k] \in Nat /\ R[k] > 0
    BY <2>5, <2>6, PowerConfig DEF Most, Least
  <2>8. R = [k \in Inverters |-> R[k]] /\ low \in Inverters
    BY <2>2, LowestIdxIs DEF CappedShares
  <2> HIDE DEF R, low
  <2>9. CASE ~(T > Total(R))
    BY <2>1, <2>7, <2>9 DEF WithRemainder
  <2>10. CASE T > Total(R)
    <3> DEFINE more == T - Total(R)
               x == Least(R[low] + more, MaxPerInvW)
    <3>1. more \in Nat
      <4>1. Total(R) \in Int
        BY <2>7, InvertersAre DEF Total
      <4> QED
        BY <2>4, <2>10, <4>1
    <3>2. F = [R EXCEPT ![low] = x]
      BY <2>10 DEF WithRemainder
    <3>3. x > 0
      BY <2>7, <2>8, <3>1, PowerConfig DEF Least
    <3> HIDE DEF x, F
    <3>4. F[i] = IF i = low THEN x ELSE R[i]
      BY <2>8, <3>2
    <3> QED
      BY <2>1, <2>7, <3>3, <3>4
  <2> QED
    BY <2>9, <2>10
<1> QED
  BY <1>1, <1>2

\* Of a charge that leaves every inverter a share, the keepalive gives away no
\* more than was asked for.
LEMMA KeepaliveFits ==
    ASSUME NEW w \in Nat, IsRate(w), 4 * w >= 304, NEW s \in BatteryReading,
           NEW f \in [Inverters -> Nat], Total(f) <= 4 * w
    PROVE  LET shares == balancedChargeRates(w, s)
           IN  Total([i \in Inverters |-> IF shares[i] > 0 /\ f[i] > 0
                                          THEN shares[i] ELSE f[i]]) <= 4 * w
<1> DEFINE shares == balancedChargeRates(w, s)
           p == [i \in Inverters |-> IF shares[i] > 0 /\ f[i] > 0 THEN shares[i] ELSE f[i]]
<1>1. shares \in [Inverters -> Nat] /\ Total(shares) <= 4 * w
  BY BalancedInLimit, LimitsType
<1>2. CASE \A i \in Inverters : shares[i] > 0
  <2> HIDE DEF shares
  <2>1. \A i \in Inverters : p[i] \in Nat /\ p[i] <= shares[i]
    BY <1>1, <1>2
  <2> HIDE DEF p
  <2>2. /\ p[1] \in Nat /\ p[2] \in Nat /\ p[3] \in Nat /\ p[4] \in Nat
        /\ shares[1] \in Nat /\ shares[2] \in Nat /\ shares[3] \in Nat /\ shares[4] \in Nat
        /\ p[1] <= shares[1] /\ p[2] <= shares[2] /\ p[3] <= shares[3] /\ p[4] <= shares[4]
    BY <1>1, <2>1, InvertersAre
  <2>3. Total(p) <= 4 * w
    BY <1>1, <2>2 DEF Total
  <2> QED
    BY <2>3 DEF p, shares
<1>3. CASE ~ \A i \in Inverters : shares[i] > 0
  <2>1. MaxPerInvW = 0
    BY <1>3, SharesArePositive, PowerConfig
  <2>2. shares # [i \in Inverters |-> w]
    BY <1>3
  <2>3. shares \in [Inverters -> 0..MaxPerInvW]
    BY <2>2, BalancedInLimit
  <2> HIDE DEF shares
  <2>4. \A i \in Inverters : ~(shares[i] > 0)
    BY <2>1, <2>3
  <2>5. p = f
    BY <2>4
  <2> QED
    BY <2>5 DEF shares
<1> QED
  BY <1>2, <1>3

\* Nothing of a charge is given away: together the inverters get what was asked
\* for, unless an emptiest one is at its limit.  There the code gives up the
\* rest, even where the others have room.
THEOREM RestIsLostAtLimitOnly ==
    ASSUME NEW w \in Nat, IsRate(w), NEW s \in BatteryReading
    PROVE  /\ Total(balancedChargeRates(w, s)) <= 4 * w
           /\ \/ Total(balancedChargeRates(w, s)) = 4 * w
              \/ balancedChargeRates(w, s)[lowestIdx(s)] = MaxPerInvW
<1>1. Total(balancedChargeRates(w, s)) \in Int
  BY BalancedInLimit, LimitsType, InvertersAre DEF Total
<1> QED
  BY <1>1, BalancedInLimit

\* A charge levels the batteries: an inverter with a lower state of charge
\* never gets less than one with a higher, with the caps, the roundings and the
\* remainder that goes to the emptiest.
THEOREM EmptierGetsMore ==
    ASSUME NEW w \in Nat, NEW s \in [Inverters -> 0..100],
           NEW i \in Inverters, NEW j \in Inverters, s[i] < s[j]
    PROVE  balancedChargeRates(w, s)[i] >= balancedChargeRates(w, s)[j]
<1> DEFINE T == w * 4
           u == Weights(s)
           W == Total(u)
           R == CappedShares(w, s)
           low == lowestIdx(s)
           F == WithRemainder(R, T, low)
<1>1. CASE \/ s = NoBMS
           \/ w <= 0
           \/ HighestSOC(s) - LowestSOC(s) <= balanceThreshold
  BY <1>1 DEF balancedChargeRates
<1>2. CASE ~ \/ s = NoBMS
             \/ w <= 0
             \/ HighestSOC(s) - LowestSOC(s) <= balanceThreshold
  <2>1. balancedChargeRates(w, s) = F
    BY <1>2 DEF balancedChargeRates
  <2>2. u \in [Inverters -> Nat \ {0}] /\ u[i] >= u[j]
    <3>1. \A k \in Inverters : HighestSOC(s) - s[k] + 1 \in Nat \ {0}
      BY HighestSOCIs
    <3>2. HighestSOC(s) \in Int /\ s[i] \in Int /\ s[j] \in Int
      BY HighestSOCIs
    <3> QED
      BY <3>1, <3>2 DEF Weights
  <2>3. W \in Nat \ {0}
    BY <2>2, InvertersAre DEF Total
  <2> HIDE DEF W, u
  <2>4. /\ \A k \in Inverters : T * u[k] \in Nat /\ (T * u[k]) \div W \in Nat
        /\ (T * u[i]) \div W >= (T * u[j]) \div W
    <3>1. \A k \in Inverters : T * u[k] \in Nat
      BY <2>2
    <3>2. T * u[j] <= T * u[i]
      <4>1. \A t \in Nat, a \in Nat, b \in Nat : a <= b => t * a <= t * b
        OBVIOUS
      <4> QED
        BY <2>2, <4>1
    <3> QED
      BY <2>3, <3>1, <3>2, QuotientsRise
  <2>5. \A k \in Inverters : R[k] = Most(Least((T * u[k]) \div W, MaxPerInvW), 0)
    BY DEF CappedShares, CappedShare, u, W
  <2> HIDE DEF T
  <2>6. /\ \A k \in Inverters : R[k] \in 0..MaxPerInvW
        /\ R[i] >= R[j]
    BY <2>4, <2>5, PowerConfig DEF Most, Least
  <2>7. R = [k \in Inverters |-> R[k]]
    BY DEF CappedShares
  <2>8. low \in Inverters /\ low # j
    <3>1. low \in Inverters /\ s[low] <= s[i]
      BY LowestIdxIs
    <3>2. s[low] \in Int /\ s[i] \in Int /\ s[j] \in Int
      BY <3>1
    <3> HIDE DEF low
    <3> QED
      BY <3>1, <3>2
  <2> HIDE DEF R, low
  <2>9. CASE ~(T > Total(R))
    BY <2>1, <2>6, <2>9 DEF WithRemainder
  <2>10. CASE T > Total(R)
    <3>1. T - Total(R) \in Nat
      <4>1. Total(R) \in Int /\ T \in Int
        BY <2>6, InvertersAre, PowerConfig DEF Total, T
      <4> QED
        BY <2>10, <4>1
    <3> DEFINE more == T - Total(R)
               x == Least(R[low] + more, MaxPerInvW)
    <3>2. F = [R EXCEPT ![low] = x]
      BY <2>10 DEF WithRemainder
    <3>3. x >= R[low] /\ x \in Int
      BY <2>6, <2>8, <3>1, PowerConfig DEF Least
    <3> HIDE DEF x, F
    <3>4. F[j] = R[j] /\ F[i] = IF i = low THEN x ELSE R[i]
      BY <2>7, <2>8, <3>2
    <3>5. F[i] >= R[i] /\ F[i] \in Int /\ R[i] \in Int /\ R[j] \in Int
      BY <2>6, <3>3, <3>4, PowerConfig
    <3> QED
      BY <2>1, <2>6, <3>4, <3>5
  <2> QED
    BY <2>9, <2>10
<1> QED
  BY <1>1, <1>2

-------------------------------------------------------------------------------
(* What is written to the inverters                                           *)

IsPower(f) == f \in [Inverters -> -HighestDischargeW..HighestChargeW]

\* An age that starts again, or grows, stays below the longest of the holds.
LEMMA RampHoldIs == RampHold \in Nat
BY LoopConfig DEF RampHold, Most

LEMMA TotalInt ==
    ASSUME NEW f \in [Inverters -> Int]
    PROVE  Total(f) \in Int
BY InvertersAre DEF Total

LEMMA DischargePower ==
    ASSUME NEW w \in Nat, IsDischarge(w)
    PROVE  IsPower([i \in Inverters |-> -w])
<1>1. -w \in -HighestDischargeW..HighestChargeW
  BY LimitsType DEF IsDischarge
<1> QED
  BY <1>1 DEF IsPower

LEMMA IdlePower == IsPower([i \in Inverters |-> 0])
BY LimitsType DEF IsPower

LEMMA ChargePower ==
    ASSUME NEW w \in Nat, IsRate(w), NEW s \in BatteryReading
    PROVE  IsPower(balancedChargeRates(w, s))
BY BalancedInLimit, LimitsType DEF IsPower

\* The keepalive takes no inverter out of its limits.
LEMMA KeepalivePower ==
    ASSUME NEW w \in Nat, IsRate(w), NEW s \in BatteryReading, NEW f, IsPower(f)
    PROVE  LET shares == balancedChargeRates(w, s)
           IN  IsPower([i \in Inverters |-> IF shares[i] > 0 /\ f[i] > 0
                                            THEN shares[i] ELSE f[i]])
BY ChargePower DEF IsPower

-------------------------------------------------------------------------------
(* The invariant in the parts that actions disturb                            *)

World ==
    /\ phase \in Phases
    /\ surplus \in Surpluses
    /\ soc \in SOCs \cup {NoBMS}
    /\ grid \in Int

Regime ==
    /\ state \in {"DAY_CHARGE", "NIGHT_DISCHARGE", "STOPPED", "SAFE"}
    /\ waitingForExport \in BOOLEAN
    /\ dayDischarging \in BOOLEAN

Rates ==
    /\ currentChargeW \in Nat /\ IsRate(currentChargeW)
    /\ currentDischargeW \in Nat /\ IsDischarge(currentDischargeW)
    /\ exportGuardCap \in Nat /\ IsDischarge(exportGuardCap)

DayTimers ==
    /\ dayDischargeSince \in Unset..SustainedHold
    /\ starvationAt \in Unset..SustainedHold
    /\ lastRampAt \in 0..RampHold
    /\ importFor \in Unset..SustainedHold

NightTimers ==
    /\ lastDischargeAdjust \in Unset..AdjustHold
    /\ exportGuardLeft \in 0..GuardHold

Parts ==
    /\ World
    /\ Regime
    /\ Rates
    /\ IsPower(power)
    /\ DayTimers
    /\ NightTimers
    /\ TimerAgrees
    /\ ShavingUntimed

LEMMA PartsOfInv == PowerInv <=> Parts
<1>2. IsPower(power) <=> power \in [Inverters -> Int] /\ EachInLimits
  BY LimitsType DEF IsPower, EachInLimits
<1>3. Rates <=> /\ currentChargeW \in 0..HighestChargeW /\ RateInLimit
                /\ currentDischargeW \in 0..HighestDischargeW
                /\ exportGuardCap \in 0..HighestDischargeW
  BY LimitsType DEF Rates, IsRate, IsDischarge, RateInLimit
<1> QED
  BY <1>2, <1>3 DEF PowerInv, Parts, TypeOK, World, Regime, DayTimers, NightTimers

\* What the parts give to every action.
LEMMA PartsGive ==
    ASSUME Parts
    PROVE  /\ soc \in BatteryReading
           /\ surplus \in Int
           /\ \A x \in Surpluses : x \in Int
           /\ power \in [Inverters -> Int]
           /\ Total(power) \in Int
           /\ Meter \in Int
<1>1. soc \in BatteryReading /\ surplus \in Int /\ \A x \in Surpluses : x \in Int
  BY LoopConfig DEF Parts, World, BatteryReading
<1>2. power \in [Inverters -> Int]
  BY LimitsType DEF Parts, IsPower
<1>3. Total(power) \in Int
  BY <1>2, TotalInt
<1> QED
  BY <1>1, <1>2, <1>3 DEF Meter

-------------------------------------------------------------------------------
(* Every step keeps the invariant                                             *)

LEMMA InitParts == Init => Parts
<1> SUFFICES ASSUME Init PROVE Parts
  OBVIOUS
<1>1. World
  BY DEF Init, World
<1>2. Regime
  BY DEF Init, Regime, IsChargeWindow
<1>3. currentDischargeW \in Nat /\ IsDischarge(currentDischargeW)
  BY LimitsType DEF Init, IsDischarge, startDischargeW
<1>4. Rates
  BY <1>3, LimitsType DEF Init, Rates, IsRate, IsDischarge
<1>5. IsPower(power)
  BY <1>3, DischargePower DEF Init
<1>6. DayTimers /\ NightTimers /\ TimerAgrees /\ ShavingUntimed
  BY LoopConfig, RampHoldIs DEF Init, DayTimers, NightTimers, TimerAgrees, ShavingUntimed, Unset
<1> QED
  BY <1>1, <1>2, <1>4, <1>5, <1>6 DEF Parts

LEMMA EnterParts ==
    ASSUME Parts, NEW s \in {"DAY_CHARGE", "NIGHT_DISCHARGE"}, Enter(s)
    PROVE  Parts'
<1>1. World'
  BY DEF Parts, World, Enter, house
<1>2. CASE s = "DAY_CHARGE"
  <2>1. Regime'
    BY <1>2 DEF Parts, Regime, Enter, ApplyDay
  <2>2. Rates'
    BY <1>2, LimitsType DEF Parts, Rates, Enter, ApplyDay, IsRate, nightTimers
  <2>3. IsPower(power)'
    BY <1>2, IdlePower DEF Enter, ApplyDay, IdleAllInverters
  <2>4. DayTimers' /\ NightTimers' /\ TimerAgrees' /\ ShavingUntimed'
    BY <1>2, LoopConfig DEF Parts, DayTimers, NightTimers, TimerAgrees, ShavingUntimed, Enter, ApplyDay,
       nightTimers, Unset
  <2> QED
    BY <1>1, <2>1, <2>2, <2>3, <2>4 DEF Parts
<1>3. CASE s = "NIGHT_DISCHARGE"
  <2>1. Regime'
    BY <1>3 DEF Parts, Regime, Enter, ApplyNight
  <2>2. startDischargeW \in Nat /\ IsDischarge(startDischargeW)
    BY LimitsType DEF IsDischarge, startDischargeW
  <2>3. Rates'
    BY <1>3, <2>2 DEF Parts, Rates, Enter, ApplyNight
  <2>4. IsPower(power)'
    BY <1>3, <2>2, DischargePower DEF Enter, ApplyNight, WriteDischargeRates
  <2>5. DayTimers' /\ NightTimers' /\ TimerAgrees' /\ ShavingUntimed'
    BY <1>3, LoopConfig DEF Parts, DayTimers, NightTimers, TimerAgrees, ShavingUntimed, Enter, ApplyNight,
       dayTimers, Unset
  <2> QED
    BY <1>1, <2>1, <2>3, <2>4, <2>5 DEF Parts
<1> QED
  BY <1>2, <1>3

LEMMA TransitionParts == Parts /\ TimeTransition => Parts'
<1> SUFFICES ASSUME Parts, TimeTransition PROVE Parts'
  OBVIOUS
<1>1. CASE Enter("DAY_CHARGE")
  BY <1>1, EnterParts
<1>2. CASE Enter("NIGHT_DISCHARGE")
  BY <1>2, EnterParts
<1>3. CASE /\ state' = "STOPPED"
           /\ IdleAllInverters
           /\ importFor' = Unset
           /\ UNCHANGED <<house, soc, grid, rates, waitingForExport,
                          dayDischarging, dayTimers, nightTimers>>
  <2>1. World' /\ Regime' /\ Rates'
    BY <1>3 DEF Parts, World, Regime, Rates, house, rates, nightTimers
  <2>2. IsPower(power)'
    BY <1>3, IdlePower DEF IdleAllInverters
  <2>3. DayTimers' /\ NightTimers' /\ TimerAgrees' /\ ShavingUntimed'
    BY <1>3, LoopConfig DEF Parts, DayTimers, NightTimers, TimerAgrees, ShavingUntimed, dayTimers,
       nightTimers, Unset
  <2> QED
    BY <2>1, <2>2, <2>3 DEF Parts
<1> QED
  BY <1>1, <1>2, <1>3 DEF TimeTransition

LEMMA SafeParts == Parts /\ (EnterSafeMode \/ SafeModeRecovery) => Parts'
<1> SUFFICES ASSUME Parts, EnterSafeMode \/ SafeModeRecovery PROVE Parts'
  OBVIOUS
<1>1. CASE EnterSafeMode
  <2>1. World' /\ Regime' /\ Rates'
    BY <1>1 DEF EnterSafeMode, Parts, World, Regime, Rates, house, rates, nightTimers
  <2>2. IsPower(power)'
    BY <1>1, IdlePower DEF EnterSafeMode, IdleAllInverters
  <2>3. DayTimers' /\ NightTimers' /\ TimerAgrees' /\ ShavingUntimed'
    BY <1>1, LoopConfig DEF EnterSafeMode, Parts, DayTimers, NightTimers, TimerAgrees, ShavingUntimed,
       nightTimers, Unset
  <2> QED
    BY <2>1, <2>2, <2>3 DEF Parts
<1>2. CASE SafeModeRecovery
  BY <1>2, EnterParts DEF SafeModeRecovery
<1> QED
  BY <1>1, <1>2

LEMMA StartChargingParts ==
    ASSUME Parts, NEW readings \in SUBSET Int, StartCharging(readings)
    PROVE  /\ currentChargeW' \in Nat /\ IsRate(currentChargeW')
           /\ WriteChargeRates(currentChargeW')
           /\ IsPower(power')
           /\ grid' \in Int
           /\ waitingForExport' = FALSE
           /\ lastRampAt' = 0
<1>1. PICK reading \in {grid} \cup readings :
        /\ grid' = reading
        /\ currentChargeW' = StartRate(exported(reading), soc)
  BY DEF StartCharging
<1>2. reading \in Int /\ exported(reading) \in Int
  BY DEF Parts, World, exported, Most
<1>3. IsRate(currentChargeW') /\ currentChargeW' \in Nat
  <2>1. IsRate(StartRate(exported(reading), soc))
    BY <1>2, StartRateInLimit
  <2> QED
    BY <1>1, <2>1, LimitsType DEF IsRate
<1>4. WriteChargeRates(currentChargeW') /\ waitingForExport' = FALSE /\ lastRampAt' = 0
  BY DEF StartCharging
<1>5. IsPower(power')
  BY <1>3, <1>4, PartsGive, ChargePower DEF WriteChargeRates
<1> QED
  BY <1>1, <1>2, <1>3, <1>4, <1>5

\* The readings that may arrive while a shave is being stopped.
LEMMA MeterIdledInt ==
    ASSUME Parts
    PROVE  {MeterIdled(upTo) : upTo \in 0..4} \in SUBSET Int /\ {Meter} \in SUBSET Int
<1>1. \A upTo \in 0..4 : MeterIdled(upTo) \in Int
  <2> TAKE upTo \in 0..4
  <2> DEFINE f == [i \in Inverters |-> IF i <= upTo THEN 0 ELSE power[i]]
  <2>1. f \in [Inverters -> Int]
    BY PartsGive
  <2>2. Total(f) \in Int
    BY <2>1, TotalInt
  <2> QED
    BY <2>2, PartsGive DEF MeterIdled
<1> QED
  BY <1>1, PartsGive

\* Shaving touches no state but these, and by day the timer is off.
LEMMA ShaveParts == Parts /\ Shave => Parts'
<1> SUFFICES ASSUME Parts, Shave PROVE Parts'
  OBVIOUS
<1>1. NightTimers' /\ exportGuardCap' = exportGuardCap
      /\ state' = state /\ importFor' = importFor
      /\ UNCHANGED <<house, soc>>
  BY DEF Shave, Steady, Parts, NightTimers, nightTimers
<1>2. /\ currentChargeW \in Nat /\ IsRate(currentChargeW)
      /\ currentDischargeW \in Nat /\ IsDischarge(currentDischargeW)
      /\ exportGuardCap \in Nat /\ IsDischarge(exportGuardCap)
      /\ grid \in Int
  BY DEF Parts, Rates, World
<1> DEFINE Effects ==
             /\ currentChargeW' \in Nat /\ IsRate(currentChargeW')
             /\ currentDischargeW' \in Nat /\ IsDischarge(currentDischargeW')
             /\ IsPower(power')
             /\ waitingForExport' \in BOOLEAN /\ dayDischarging' \in BOOLEAN
             /\ lastRampAt' \in 0..RampHold
             /\ starvationAt' = starvationAt
             /\ dayDischargeSince' \in {dayDischargeSince, Unset}
             /\ grid' \in Int
<1>4. importFor = dayDischargeSince
  BY DEF Shave, Parts, TimerAgrees
<1>5. dayDischargeSince = Unset
  BY DEF Shave, Parts, ShavingUntimed
<1>3. SUFFICES Effects /\ (state = "DAY_CHARGE" => importFor' = dayDischargeSince')
  <2>1. Regime'
    BY <1>1, <1>3 DEF Parts, Regime
  <2>2. Rates'
    BY <1>1, <1>2, <1>3 DEF Rates
  <2>3. TimerAgrees' /\ ShavingUntimed'
    BY <1>1, <1>3, <1>5 DEF TimerAgrees, ShavingUntimed
  <2>4. DayTimers'
    BY <1>1, <1>3, LoopConfig DEF Parts, DayTimers, Unset
  <2>5. World'
    BY <1>1, <1>3 DEF Parts, World, house
  <2> QED
    BY <1>1, <1>3, <2>1, <2>2, <2>3, <2>4, <2>5 DEF Parts
<1>6. 0 \in 0..RampHold /\ lastRampAt \in 0..RampHold
  BY RampHoldIs DEF Parts, DayTimers
<1>7. CASE /\ StopDayDischarge
           /\ StartCharging({MeterIdled(upTo) : upTo \in 0..4})
           /\ UNCHANGED starvationAt
  <2>1. currentDischargeW' \in Nat /\ IsDischarge(currentDischargeW')
    BY <1>7, LimitsType DEF StopDayDischarge, IsDischarge
  <2>2. /\ currentChargeW' \in Nat /\ IsRate(currentChargeW')
        /\ IsPower(power') /\ grid' \in Int
        /\ waitingForExport' = FALSE /\ lastRampAt' = 0
    BY <1>7, MeterIdledInt, StartChargingParts
  <2> QED
    BY <1>1, <1>4, <1>5, <1>6, <1>7, <2>1, <2>2 DEF StopDayDischarge
<1>8. CASE StopShaving
  <2>1. currentDischargeW' \in Nat /\ IsDischarge(currentDischargeW')
    BY <1>8, LimitsType DEF StopShaving, StopDayDischarge, IsDischarge
  <2>2. IsPower(power')
    BY <1>8, IdlePower DEF StopShaving, IdleAllInverters
  <2> QED
    BY <1>1, <1>2, <1>4, <1>5, <1>6, <1>8, <2>1, <2>2 DEF StopShaving, StopDayDischarge
<1>9. ASSUME NEW w \in Nat, IsDischarge(w), ShaveAt(w)
      PROVE  Effects /\ importFor' = dayDischargeSince'
  <2>1. IsPower(power')
    BY <1>9, DischargePower DEF ShaveAt, WriteDischargeRates
  <2> QED
    BY <1>1, <1>2, <1>4, <1>6, <1>9, <2>1 DEF ShaveAt, Parts, Regime
<1>10. \/ ShaveAt(DischargeUp(currentDischargeW, grid, MaxDischargePerInvW))
       \/ ShaveAt(ShavedDown)
       => Effects /\ importFor' = dayDischargeSince'
  <2>1. MaxDischargePerInvW \in 0..HighestDischargeW
    BY PowerConfig, LimitsType
  <2>2. IsDischarge(DischargeUp(currentDischargeW, grid, MaxDischargePerInvW))
    BY <1>2, <2>1, DischargeInLimit
  <2>3. IsDischarge(ShavedDown)
    BY <1>2, DischargeInLimit DEF ShavedDown
  <2>4. \A w : IsDischarge(w) => w \in Nat
    BY LimitsType DEF IsDischarge
  <2> QED
    BY <1>9, <2>2, <2>3, <2>4
<1> QED
  BY <1>7, <1>8, <1>10 DEF Shave

\* The timer of the next shave runs in step with the auxiliary one.
LEMMA ShaveTimerParts ==
    ASSUME Parts, ShaveTimer, state = "DAY_CHARGE", ~dayDischarging
    PROVE  /\ importFor' = dayDischargeSince'
           /\ dayDischargeSince' \in Unset..SustainedHold
BY LoopConfig DEF Parts, DayTimers, TimerAgrees, ShaveTimer, Most, Unset

LEMMA DayParts == Parts /\ Day => Parts'
<1> SUFFICES ASSUME Parts, Day PROVE Parts'
  OBVIOUS
<1>1. /\ NightTimers' /\ exportGuardCap' = exportGuardCap /\ state' = state
      /\ UNCHANGED <<house, soc>>
  BY DEF Day, Steady, Parts, NightTimers, nightTimers
<1>2. /\ currentChargeW \in Nat /\ IsRate(currentChargeW)
      /\ currentDischargeW \in Nat /\ IsDischarge(currentDischargeW)
      /\ exportGuardCap \in Nat /\ IsDischarge(exportGuardCap)
      /\ IsPower(power)
      /\ grid \in Int
      /\ waitingForExport \in BOOLEAN
  BY DEF Parts, Rates, World, Regime
<1>3. /\ 0 \in 0..RampHold /\ lastRampAt \in 0..RampHold
      /\ starvationAt \in Unset..SustainedHold /\ Unset \in Unset..SustainedHold
  BY LoopConfig, RampHoldIs DEF Parts, DayTimers, Unset
<1>4. state = "DAY_CHARGE" /\ ~dayDischarging
  BY DEF Day
<1>9. dayDischarging = FALSE
  BY <1>4 DEF Parts, Regime
<1> DEFINE Effects ==
             /\ currentChargeW' \in Nat /\ IsRate(currentChargeW')
             /\ currentDischargeW' \in Nat /\ IsDischarge(currentDischargeW')
             /\ IsPower(power')
             /\ waitingForExport' \in BOOLEAN /\ dayDischarging' \in BOOLEAN
             /\ lastRampAt' \in 0..RampHold
             /\ starvationAt' \in Unset..SustainedHold
             /\ dayDischargeSince' \in Unset..SustainedHold
             /\ importFor' = dayDischargeSince'
             /\ dayDischarging' => dayDischargeSince' = Unset
             /\ grid' \in Int
<1>5. SUFFICES Effects
  <2>1. Regime'
    BY <1>1, <1>5 DEF Parts, Regime
  <2>2. Rates'
    BY <1>1, <1>2, <1>5 DEF Rates
  <2>3. TimerAgrees' /\ ShavingUntimed' /\ DayTimers'
    BY <1>1, <1>5 DEF TimerAgrees, ShavingUntimed, DayTimers
  <2>4. World'
    BY <1>1, <1>5 DEF Parts, World, house
  <2> QED
    BY <1>1, <1>5, <2>1, <2>2, <2>3, <2>4 DEF Parts
<1>6. CASE ShaveBegins
  <2>1. startDischargeW \in Nat /\ IsDischarge(startDischargeW)
    BY LimitsType DEF IsDischarge, startDischargeW
  <2>2. IsPower(power')
    BY <1>6, <2>1, DischargePower DEF ShaveBegins, WriteDischargeRates
  <2>3. IsRate(0)
    BY LimitsType DEF IsRate
  <2> QED
    BY <1>2, <1>3, <1>6, <2>1, <2>2, <2>3 DEF ShaveBegins
<1>7. CASE Wait
  <2>1. importFor' = dayDischargeSince' /\ dayDischargeSince' \in Unset..SustainedHold
    BY <1>4, <1>7, ShaveTimerParts DEF Wait
  <2>4. /\ currentDischargeW' = currentDischargeW /\ starvationAt' = starvationAt
        /\ dayDischarging' = FALSE
    BY <1>7, <1>9 DEF Wait
  <2>2. CASE exportW >= ExportStartW
    <3>1. StartCharging({Meter})
      BY <1>7, <2>2 DEF Wait
    <3>2. /\ currentChargeW' \in Nat /\ IsRate(currentChargeW') /\ IsPower(power')
          /\ waitingForExport' = FALSE /\ lastRampAt' = 0 /\ grid' \in Int
      BY <3>1, MeterIdledInt, StartChargingParts
    <3> QED
      BY <1>2, <1>3, <2>1, <2>4, <3>2
  <2>3. CASE ~(exportW >= ExportStartW)
    <3>1. UNCHANGED <<waitingForExport, currentChargeW, power, lastRampAt, grid>>
      BY <1>7, <2>3 DEF Wait
    <3> QED
      BY <1>2, <1>3, <2>1, <2>4, <3>1
  <2> QED
    BY <2>2, <2>3
<1>8. CASE Charge
  <2>1. importFor' = dayDischargeSince' /\ dayDischargeSince' \in Unset..SustainedHold
    BY <1>4, <1>8, ShaveTimerParts DEF Charge
  <2>2. RampedW \in Nat /\ IsRate(RampedW)
    <3>1. IsRate(RampUpRate(currentChargeW, -grid, soc))
      BY <1>2, RampUpRateInLimit
    <3>2. IsRate(RampDownRate(currentChargeW, grid))
      BY <1>2, RampDownRateInLimit
    <3>3. IsRate(RampedW)
      BY <1>2, <3>1, <3>2 DEF RampedW
    <3> QED
      BY <3>3, LimitsType DEF IsRate
  <2>3. IsRate(0)
    BY LimitsType DEF IsRate
  <2>4. currentChargeW' \in Nat /\ IsRate(currentChargeW')
    BY <1>8, <2>2, <2>3 DEF Charge
  <2>5. IsPower(balancedChargeRates(RampedW, soc))
    BY <2>2, PartsGive, ChargePower
  <2>6. IsPower(power')
    BY <1>2, <1>8, <2>5, IdlePower DEF Charge, WriteChargeRates, IdleAllInverters
  <2>7. starvationAt' \in Unset..SustainedHold
    BY <1>3, <1>8, LoopConfig DEF Charge, StarvationTimer, Most, Unset
  <2>8. waitingForExport' \in BOOLEAN /\ lastRampAt' \in 0..RampHold
    BY <1>2, <1>3, <1>8 DEF Charge
  <2>9. currentDischargeW' = currentDischargeW /\ dayDischarging' = FALSE /\ grid' \in Int
    BY <1>2, <1>8, <1>9 DEF Charge
  <2> QED
    BY <1>2, <2>1, <2>4, <2>6, <2>7, <2>8, <2>9
<1> QED
  BY <1>6, <1>7, <1>8 DEF Day

\* A night cycle leaves the day alone and keeps rate, cap and power in limits.
LEMMA NightParts == Parts /\ Night => Parts'
<1> SUFFICES ASSUME Parts, Night PROVE Parts'
  OBVIOUS
<1>1. /\ World'
      /\ DayTimers'
      /\ UNCHANGED <<waitingForExport, dayDischarging, currentChargeW, dayDischargeSince>>
  BY DEF Night, Steady, Parts, World, DayTimers, house, dayTimers
<1>2. /\ currentChargeW \in Nat /\ IsRate(currentChargeW)
      /\ currentDischargeW \in Nat /\ IsDischarge(currentDischargeW)
      /\ exportGuardCap \in Nat /\ IsDischarge(exportGuardCap)
      /\ IsPower(power)
      /\ grid \in Int
      /\ lastDischargeAdjust \in Unset..AdjustHold
      /\ exportGuardLeft \in 0..GuardHold
  BY DEF Parts, Rates, World, NightTimers
<1>3. 0 \in Unset..AdjustHold /\ GuardHold \in 0..GuardHold
  BY LoopConfig DEF Unset
<1>4. \A w : IsDischarge(w) => w \in Nat
  BY LimitsType DEF IsDischarge
<1>5. IsDischarge(0)
  BY LimitsType DEF IsDischarge
<1> DEFINE Effects ==
             /\ state' \in {"NIGHT_DISCHARGE", "STOPPED"}
             /\ IsDischarge(currentDischargeW')
             /\ IsDischarge(exportGuardCap')
             /\ IsPower(power')
             /\ lastDischargeAdjust' \in Unset..AdjustHold
             /\ exportGuardLeft' \in 0..GuardHold
<1>6. SUFFICES Effects
  <2>1. Regime'
    BY <1>1, <1>6 DEF Parts, Regime
  <2>2. Rates'
    BY <1>1, <1>2, <1>4, <1>6 DEF Rates
  <2>3. NightTimers' /\ TimerAgrees'
    BY <1>6 DEF NightTimers, TimerAgrees
  <2>4. ShavingUntimed'
    BY <1>1 DEF Parts, ShavingUntimed
  <2> QED
    BY <1>1, <1>6, <2>1, <2>2, <2>3, <2>4 DEF Parts
<1>7. ASSUME NEW w \in Nat, IsDischarge(w), DischargeAt(w)
      PROVE  /\ IsDischarge(currentDischargeW')
             /\ IsPower(power')
             /\ lastDischargeAdjust' \in Unset..AdjustHold
  BY <1>3, <1>7, DischargePower DEF DischargeAt, WriteDischargeRates
<1>8. state = "NIGHT_DISCHARGE"
  BY DEF Night
<1>9. CASE LowSOCStop
  BY <1>2, <1>5, <1>9, IdlePower DEF LowSOCStop, IdleAllInverters, nightTimers
<1>10. CASE ExportGuard
  <2>1. IsDischarge(GuardDown(currentDischargeW, -grid))
    BY <1>2, DischargeInLimit
  <2> QED
    BY <1>3, <1>4, <1>7, <1>8, <1>10, <2>1 DEF ExportGuard
<1>11. CASE DischargeRamp
  <2>1. NightMaxW \in 0..HighestDischargeW
    BY <1>2, PowerConfig, LimitsType DEF NightMaxW, IsDischarge
  <2>2. /\ IsDischarge(DischargeUp(currentDischargeW, grid, NightMaxW))
        /\ IsDischarge(DischargeDown(currentDischargeW, grid))
    BY <1>2, <2>1, DischargeInLimit
  <2>3. /\ state' = "NIGHT_DISCHARGE"
        /\ IsDischarge(exportGuardCap')
        /\ exportGuardLeft' \in 0..GuardHold
    BY <1>2, <1>5, <1>8, <1>11 DEF DischargeRamp
  <2>4. CASE \/ DischargeAt(DischargeUp(currentDischargeW, grid, NightMaxW))
             \/ DischargeAt(DischargeDown(currentDischargeW, grid))
    BY <1>4, <1>7, <2>2, <2>3, <2>4
  <2>5. CASE /\ lastDischargeAdjust' = Most(lastDischargeAdjust, 0)
             /\ UNCHANGED <<currentDischargeW, power>>
    <3>1. lastDischargeAdjust' \in Unset..AdjustHold
      BY <1>2, <2>5, LoopConfig DEF Most, Unset
    <3> QED
      BY <1>2, <2>3, <2>5, <3>1
  <2> QED
    BY <1>11, <2>4, <2>5 DEF DischargeRamp
<1> QED
  BY <1>9, <1>10, <1>11 DEF Night

\* The clock, the house, the meter, the battery and the keepalive.
LEMMA WorldParts ==
    Parts /\ (ReadGrid \/ Keepalive \/ Tick \/ House \/ ReadBMS) => Parts'
<1> SUFFICES ASSUME Parts, ReadGrid \/ Keepalive \/ Tick \/ House \/ ReadBMS PROVE Parts'
  OBVIOUS
<1>1. CASE ReadGrid
  <2>1. World'
    BY <1>1, PartsGive DEF ReadGrid, Parts, World, house
  <2> QED
    BY <1>1, <2>1 DEF ReadGrid, Parts, Regime, Rates, DayTimers, NightTimers, TimerAgrees,
       ShavingUntimed, rates, dayTimers, nightTimers
<1>2. CASE Keepalive
  <2>1. World'
    BY <1>2 DEF Keepalive, Parts, World, house
  <2>2. IsPower(power')
    <3>1. /\ currentChargeW \in Nat /\ IsRate(currentChargeW)
          /\ soc \in BatteryReading /\ IsPower(power)
      BY PartsGive DEF Parts, Rates
    <3>2. WriteChargeKeepalive(currentChargeW)
      BY <1>2 DEF Keepalive
    <3> QED
      BY <3>1, <3>2, KeepalivePower DEF WriteChargeKeepalive
  <2> QED
    BY <1>2, <2>1, <2>2 DEF Keepalive, Parts, Regime, Rates, DayTimers, NightTimers,
       TimerAgrees, ShavingUntimed, rates, dayTimers, nightTimers
<1>3. CASE Tick
  <2>1. World' /\ Regime' /\ Rates' /\ power' = power
    BY <1>3, PartsGive DEF Tick, Parts, World, Regime, Rates, house, rates
  <2>2. /\ dayDischargeSince' \in Unset..SustainedHold
        /\ starvationAt' \in Unset..SustainedHold
        /\ importFor' \in Unset..SustainedHold
    BY <1>3, LoopConfig DEF Tick, Parts, DayTimers, Aged, Least, Unset
  <2>3. lastRampAt' \in 0..RampHold
    BY <1>3, RampHoldIs DEF Tick, Parts, DayTimers, Aged, Least, Unset
  <2>4. NightTimers'
    BY <1>3, LoopConfig DEF Tick, Parts, NightTimers, Aged, Least, Most, Unset
  <2>5. TimerAgrees'
    BY <1>3 DEF Tick, Parts, TimerAgrees
  <2>6. ShavingUntimed'
    BY <1>3 DEF Tick, Parts, ShavingUntimed, Aged
  <2> QED
    BY <2>1, <2>2, <2>3, <2>4, <2>5, <2>6 DEF Parts, DayTimers
<1>4. CASE House
  <2>1. World'
    BY <1>4, PartsGive DEF House, Parts, World
  <2> QED
    BY <1>4, <2>1 DEF House, Parts, Regime, Rates, DayTimers, NightTimers, TimerAgrees,
       ShavingUntimed, rates, dayTimers, nightTimers
<1>5. CASE ReadBMS
  <2>1. World'
    BY <1>5 DEF ReadBMS, Parts, World, house
  <2> QED
    BY <1>5, <2>1 DEF ReadBMS, Parts, Regime, Rates, DayTimers, NightTimers, TimerAgrees,
       ShavingUntimed, rates, dayTimers, nightTimers
<1> QED
  BY <1>1, <1>2, <1>3, <1>4, <1>5

LEMMA NextParts == Parts /\ [Next]_vars => Parts'
<1> SUFFICES ASSUME Parts, [Next]_vars PROVE Parts'
  OBVIOUS
<1>1. CASE UNCHANGED vars
  BY <1>1 DEF vars, house, rates, dayTimers, nightTimers, Parts, World, Regime, Rates,
     DayTimers, NightTimers, TimerAgrees, ShavingUntimed
<1>2. CASE Next
  BY <1>2, TransitionParts, SafeParts, ShaveParts, DayParts, NightParts, WorldParts
  DEF Next, ControlCycle
<1> QED
  BY <1>1, <1>2

-------------------------------------------------------------------------------
(* What the inverters do is what is recorded                                  *)

\* Every regime but the discharge is entered with inverters that charge or idle.
Discharges == state = "NIGHT_DISCHARGE" \/ (state = "DAY_CHARGE" /\ dayDischarging)
Charges    == state = "DAY_CHARGE" /\ ~dayDischarging

DoesDischarge == power = [i \in Inverters |-> -currentDischargeW]
DoesCharge    ==
    /\ \A i \in Inverters : power[i] >= 0
    /\ ~RoundsAway => Total(power) <= 4 * currentChargeW
DoesNothing   == power = [i \in Inverters |-> 0]

LEMMA SmallCharges ==
    ASSUME NEW w \in Nat, w > 0, ~(4 * w \in 1..303)
    PROVE  4 * w >= 304
OBVIOUS

LEMMA RecordedIs ==
    PowerIsRecorded <=> /\ Discharges => DoesDischarge
                        /\ Charges => DoesCharge
                        /\ state \in {"STOPPED", "SAFE"} => DoesNothing
BY DEF PowerIsRecorded, Discharges, Charges, DoesDischarge, DoesCharge, DoesNothing,
       BatteryW

LEMMA Unrecorded ==
    ASSUME PowerIsRecorded,
           UNCHANGED <<state, dayDischarging, currentChargeW, currentDischargeW, power>>
    PROVE  PowerIsRecorded'
BY DEF PowerIsRecorded, BatteryW, RoundsAway

LEMMA IdleRecorded ==
    ASSUME power' = [i \in Inverters |-> 0], ~Discharges', currentChargeW' \in Nat
    PROVE  PowerIsRecorded'
<1>1. Total(power') = 0
  BY InvertersAre DEF Total
<1>2. \A i \in Inverters : power'[i] >= 0
  OBVIOUS
<1>3. Total(power') <= 4 * currentChargeW'
  <2>1. \A c \in Nat : 0 <= 4 * c
    OBVIOUS
  <2>2. 0 <= 4 * currentChargeW'
    BY <2>1
  <2> QED
    BY <1>1, <2>2, Zenon
<1>4. /\ ~(state' = "NIGHT_DISCHARGE")
      /\ ~(state' = "DAY_CHARGE" /\ dayDischarging')
  BY DEF Discharges
<1> QED
  BY <1>2, <1>3, <1>4 DEF PowerIsRecorded, BatteryW

LEMMA DischargeRecorded ==
    ASSUME NEW w, WriteDischargeRates(w), currentDischargeW' = w, Discharges'
    PROVE  PowerIsRecorded'
BY DEF WriteDischargeRates, PowerIsRecorded, Discharges

LEMMA ChargeRecorded ==
    ASSUME Parts, NEW w \in Nat, IsRate(w), WriteChargeRates(w), currentChargeW' = w,
           Charges'
    PROVE  PowerIsRecorded'
<1>1. /\ power' \in [Inverters -> 0..HighestChargeW]
      /\ Total(power') <= 4 * w
  BY PartsGive, BalancedInLimit DEF WriteChargeRates
<1>2. \A i \in Inverters : power'[i] >= 0
  BY <1>1, LimitsType
<1> QED
  BY <1>1, <1>2 DEF PowerIsRecorded, Charges, BatteryW

LEMMA InitRecorded == Init => PowerIsRecorded
<1> SUFFICES ASSUME Init PROVE PowerIsRecorded
  OBVIOUS
<1>1. CASE IsChargeWindow
  <2>1. /\ power = [i \in Inverters |-> -currentDischargeW]
        /\ currentDischargeW = 0 /\ currentChargeW = 0
        /\ state = "DAY_CHARGE" /\ dayDischarging = FALSE
    BY <1>1 DEF Init
  <2>2. \A i \in Inverters : power[i] = 0
    <3>1. \A w \in Int : w <= 0 /\ w >= 0 => -w = 0
      OBVIOUS
    <3>2. currentDischargeW \in Int /\ currentDischargeW <= 0 /\ currentDischargeW >= 0
      BY <2>1
    <3>3. -currentDischargeW = 0
      BY <3>1, <3>2, Zenon
    <3> QED
      BY <2>1, <3>3
  <2>3. Total(power) = 0
    BY <2>2, InvertersAre DEF Total
  <2> QED
    BY <2>1, <2>2, <2>3 DEF PowerIsRecorded, BatteryW
<1>2. CASE ~IsChargeWindow
  BY <1>2 DEF Init, PowerIsRecorded
<1> QED
  BY <1>1, <1>2

LEMMA EnterRecorded ==
    ASSUME Parts, NEW s \in {"DAY_CHARGE", "NIGHT_DISCHARGE"}, Enter(s)
    PROVE  PowerIsRecorded'
<1>1. CASE s = "DAY_CHARGE"
  BY <1>1, IdleRecorded DEF Enter, ApplyDay, IdleAllInverters, Discharges
<1>2. CASE s = "NIGHT_DISCHARGE"
  BY <1>2, DischargeRecorded DEF Enter, ApplyNight, Discharges
<1> QED
  BY <1>1, <1>2

LEMMA RegimeRecorded ==
    Parts /\ (TimeTransition \/ EnterSafeMode \/ SafeModeRecovery) => PowerIsRecorded'
<1> SUFFICES ASSUME Parts, TimeTransition \/ EnterSafeMode \/ SafeModeRecovery
             PROVE  PowerIsRecorded'
  OBVIOUS
<1>1. currentChargeW \in Nat
  BY DEF Parts, Rates
<1>2. CASE \E s \in {"DAY_CHARGE", "NIGHT_DISCHARGE"} : Enter(s)
  BY <1>2, EnterRecorded
<1>3. CASE /\ state' \in {"STOPPED", "SAFE"}
           /\ IdleAllInverters
           /\ currentChargeW' = currentChargeW
  BY <1>1, <1>3, IdleRecorded DEF IdleAllInverters, Discharges
<1> QED
  BY <1>2, <1>3 DEF TimeTransition, EnterSafeMode, SafeModeRecovery, rates

LEMMA ShaveRecorded == Parts /\ Shave => PowerIsRecorded'
<1> SUFFICES ASSUME Parts, Shave PROVE PowerIsRecorded'
  OBVIOUS
<1>1. state' = "DAY_CHARGE" /\ dayDischarging
  BY DEF Shave
<1>2. CASE StopDayDischarge /\ StartCharging({MeterIdled(upTo) : upTo \in 0..4})
  <2>1. /\ currentChargeW' \in Nat /\ IsRate(currentChargeW')
        /\ WriteChargeRates(currentChargeW')
    BY <1>2, MeterIdledInt, StartChargingParts
  <2> QED
    BY <1>1, <1>2, <2>1, ChargeRecorded DEF StopDayDischarge, Charges
<1>3. CASE StopShaving
  <2>1. currentChargeW' \in Nat
    BY <1>3 DEF StopShaving, Parts, Rates
  <2>2. ~Discharges'
    BY <1>1, <1>3 DEF StopShaving, StopDayDischarge, Discharges
  <2>3. power' = [i \in Inverters |-> 0]
    BY <1>3 DEF StopShaving, IdleAllInverters
  <2> QED
    BY <2>1, <2>2, <2>3, IdleRecorded
<1>4. CASE \E w : ShaveAt(w)
  BY <1>1, <1>4, DischargeRecorded DEF ShaveAt, Discharges
<1> QED
  BY <1>2, <1>3, <1>4 DEF Shave

\* The rate after the dead band check is a rate.
LEMMA RampedIsRate == Parts => RampedW \in Nat /\ IsRate(RampedW)
<1> SUFFICES ASSUME Parts PROVE RampedW \in Nat /\ IsRate(RampedW)
  OBVIOUS
<1>1. currentChargeW \in Nat /\ IsRate(currentChargeW) /\ grid \in Int
  BY DEF Parts, Rates, World
<1>2. IsRate(RampUpRate(currentChargeW, -grid, soc))
  BY <1>1, RampUpRateInLimit
<1>3. IsRate(RampDownRate(currentChargeW, grid))
  BY <1>1, RampDownRateInLimit
<1>4. IsRate(RampedW)
  BY <1>1, <1>2, <1>3 DEF RampedW
<1> QED
  BY <1>4, LimitsType DEF IsRate

LEMMA DayRecorded == Parts /\ PowerIsRecorded /\ Day => PowerIsRecorded'
<1> SUFFICES ASSUME Parts, PowerIsRecorded, Day PROVE PowerIsRecorded'
  OBVIOUS
<1>1. state' = state /\ state = "DAY_CHARGE" /\ ~dayDischarging
  BY DEF Day
<1>2. CASE ShaveBegins
  BY <1>1, <1>2, DischargeRecorded DEF ShaveBegins, Discharges
<1>3. CASE Wait /\ StartCharging({Meter})
  <2>1. /\ currentChargeW' \in Nat /\ IsRate(currentChargeW')
        /\ WriteChargeRates(currentChargeW')
    BY <1>3, MeterIdledInt, StartChargingParts
  <2> QED
    BY <1>1, <1>3, <2>1, ChargeRecorded DEF Wait, Charges
<1>4. CASE Wait /\ ~StartCharging({Meter})
  BY <1>1, <1>4, Unrecorded DEF Wait
<1>5. CASE Charge
  <2>1. RampedW \in Nat /\ IsRate(RampedW)
    BY RampedIsRate
  <2>2. ~dayDischarging'
    BY <1>1, <1>5 DEF Charge
  <2>3. CASE Starved
    <3>1. currentChargeW' \in Nat /\ power' = [i \in Inverters |-> 0]
      BY <1>5, <2>3 DEF Charge, IdleAllInverters
    <3>2. ~Discharges'
      BY <1>1, <2>2 DEF Discharges
    <3> QED
      BY <3>1, <3>2, IdleRecorded
  <2>4. CASE ~Starved /\ RampedW # currentChargeW
    BY <1>1, <1>5, <2>1, <2>2, <2>4, ChargeRecorded DEF Charge, Charges
  <2>5. CASE ~Starved /\ RampedW = currentChargeW
    BY <1>1, <1>5, <2>5, Unrecorded DEF Charge
  <2> QED
    BY <2>3, <2>4, <2>5
<1> QED
  BY <1>2, <1>3, <1>4, <1>5 DEF Day

LEMMA NightRecorded == Parts /\ PowerIsRecorded /\ Night => PowerIsRecorded'
<1> SUFFICES ASSUME Parts, PowerIsRecorded, Night PROVE PowerIsRecorded'
  OBVIOUS
<1>1. /\ state = "NIGHT_DISCHARGE" /\ currentChargeW \in Nat
      /\ UNCHANGED <<currentChargeW, dayDischarging>>
  BY DEF Night, Parts, Rates
<1>2. CASE LowSOCStop
  BY <1>1, <1>2, IdleRecorded DEF LowSOCStop, IdleAllInverters, Discharges
<1>3. CASE state' = state /\ \E w : DischargeAt(w)
  BY <1>1, <1>3, DischargeRecorded DEF DischargeAt, Discharges
<1>4. CASE state' = state /\ UNCHANGED <<currentDischargeW, power>>
  BY <1>1, <1>4, Unrecorded
<1> QED
  BY <1>2, <1>3, <1>4 DEF Night, ExportGuard, DischargeRamp

\* The keepalive only repeats powers of inverters that charge already.
LEMMA KeepaliveRecorded == Parts /\ PowerIsRecorded /\ Keepalive => PowerIsRecorded'
<1> SUFFICES ASSUME Parts, PowerIsRecorded, Keepalive PROVE PowerIsRecorded'
  OBVIOUS
<1>1. /\ Charges /\ Charges'
      /\ UNCHANGED <<state, dayDischarging, currentChargeW>>
      /\ currentChargeW > 0
      /\ WriteChargeKeepalive(currentChargeW)
  BY DEF Keepalive, Charges, rates
<1>2. DoesCharge
  BY <1>1, RecordedIs
<1>3. /\ currentChargeW \in Nat /\ IsRate(currentChargeW)
      /\ soc \in BatteryReading
  BY PartsGive DEF Parts, Rates
<1>4. power \in [Inverters -> Nat]
  <2>1. \A i \in Inverters : power[i] >= 0 /\ power[i] \in Int
    BY <1>2, PartsGive DEF DoesCharge
  <2> QED
    BY <2>1, PartsGive
<1>5. \A i \in Inverters : power'[i] >= 0
  <2>1. balancedChargeRates(currentChargeW, soc) \in [Inverters -> Nat]
    BY <1>3, BalancedInLimit, LimitsType
  <2> QED
    BY <1>1, <1>4, <2>1 DEF WriteChargeKeepalive
<1>6. RoundsAway' <=> RoundsAway
  BY <1>1 DEF RoundsAway
<1>7. ~RoundsAway => Total(power') <= 4 * currentChargeW
  <2> SUFFICES ASSUME ~RoundsAway PROVE Total(power') <= 4 * currentChargeW
    OBVIOUS
  <2>1. ~(4 * currentChargeW \in 1..303)
    BY <1>1 DEF RoundsAway, Charges
  <2>2. 4 * currentChargeW >= 304
    BY <1>1, <1>3, <2>1, SmallCharges
  <2>3. Total(power) <= 4 * currentChargeW
    BY <1>2 DEF DoesCharge
  <2> QED
    BY <1>1, <1>3, <1>4, <2>2, <2>3, KeepaliveFits DEF WriteChargeKeepalive
<1>8. Total(power') <= 4 * currentChargeW => Total(power') <= 4 * currentChargeW'
  BY <1>1, Zenon
<1> QED
  BY <1>1, <1>5, <1>6, <1>7, <1>8, Zenon DEF PowerIsRecorded, BatteryW, Charges

LEMMA NextRecorded == Parts /\ PowerIsRecorded /\ [Next]_vars => PowerIsRecorded'
<1> SUFFICES ASSUME Parts, PowerIsRecorded, [Next]_vars PROVE PowerIsRecorded'
  OBVIOUS
<1>1. CASE Keepalive
  BY <1>1, KeepaliveRecorded
<1>2. CASE ReadGrid \/ Tick \/ House \/ ReadBMS \/ UNCHANGED vars
  BY <1>2, Unrecorded DEF ReadGrid, Tick, House, ReadBMS, vars, rates
<1> QED
  BY <1>1, <1>2, RegimeRecorded, ShaveRecorded, DayRecorded, NightRecorded
  DEF Next, ControlCycle

-------------------------------------------------------------------------------
(* Ramps do not overshoot                                                     *)

\* The four steps of a discharge together are less than the import answered.
LEMMA DischargeUpStep ==
    ASSUME NEW w \in Nat, NEW import \in Int, import > importCeil, NEW max \in Int
    PROVE  /\ DischargeUp(w, import, max) \in Int
           /\ 4 * (DischargeUp(w, import, max) - w) <= import
<1> DEFINE step == clamp((import - importCeil) \div 4, minStep, maxStep)
<1>1. step \in Int /\ 4 * step <= import
  <2>1. import \in Int /\ import > 1000
    BY DEF importCeil
  <2> DEFINE quarter == (import - 1000) \div 4
  <2>2. quarter \in Int /\ 4 * quarter <= import - 1000
    BY <2>1
  <2> HIDE DEF quarter
  <2>3. clamp(quarter, 50, 300) \in Int /\ 4 * clamp(quarter, 50, 300) <= import
    BY <2>1, <2>2 DEF clamp, Most, Least
  <2> QED
    BY <2>3 DEF quarter, importCeil, minStep, maxStep
<1> HIDE DEF step
<1>2. /\ Least(w + step, max) \in Int
      /\ 4 * (Least(w + step, max) - w) <= import
  BY <1>1 DEF Least
<1> QED
  BY <1>2 DEF DischargeUp, step

LEMMA DischargeDownStep ==
    ASSUME NEW w \in Nat, NEW import \in Int
    PROVE  DischargeDown(w, import) \in Int /\ DischargeDown(w, import) <= w
<1> DEFINE step == clamp((importFloor - import) \div 4, minStep, maxStep)
<1>1. step \in Nat
  <2> DEFINE quarter == (500 - import) \div 4
  <2>1. quarter \in Int
    OBVIOUS
  <2> HIDE DEF quarter
  <2>2. clamp(quarter, 50, 300) \in Nat
    BY <2>1 DEF clamp, Most, Least
  <2> QED
    BY <2>2 DEF quarter, importFloor, minStep, maxStep
<1> HIDE DEF step
<1>2. Most(w - step, 0) \in Int /\ Most(w - step, 0) <= w
  BY <1>1 DEF Most
<1> QED
  BY <1>2 DEF DischargeDown, step

\* A charge target takes at most what the sun produces.
LEMMA TargetIsProduced ==
    ASSUME NEW production \in Nat, NEW s
    PROVE  chargeTarget(production, s) \in Nat /\ chargeTarget(production, s) <= production
<1>1. socShareW(production, s) \in Nat /\ socShareW(production, s) <= production
  BY DEF socShareW
<1> QED
  BY <1>1 DEF chargeTarget, Most, maxExportW

LEMMA RampUpWithinExport ==
    ASSUME NEW w \in Nat, NEW export \in Nat, NEW s
    PROVE  4 * RampUpRate(w, export, s) <= 4 * w + export
<1> DEFINE target == chargeTarget(w * 4 + export, s)
<1>1. target \in Nat /\ target <= 4 * w + export
  <2>1. w * 4 + export \in Nat /\ w * 4 + export = 4 * w + export
    OBVIOUS
  <2> QED
    BY <2>1, TargetIsProduced
<1> HIDE DEF target
<1> DEFINE share == Least(target, MaxTotalW) \div 4
<1>2. share \in Nat /\ 4 * share <= target
  BY <1>1, PowerConfig DEF Least
<1> HIDE DEF share
<1>3. 4 * Least(share, MaxPerInvW) <= 4 * w + export
  BY <1>1, <1>2, PowerConfig DEF Least
<1> QED
  BY <1>3 DEF RampUpRate, target, share

LEMMA RampDownWithinImport ==
    ASSUME NEW w \in Nat, NEW import \in Int, import > minTrimW + 3
    PROVE  4 * RampDownRate(w, import) >= 4 * w - import
<1> DEFINE trim == Most((import - trimBufferW) \div 2, minTrimW)
<1>1. trim \in Nat /\ trim + 3 <= import
  <2> DEFINE half == (import - 500) \div 2
  <2>1. half \in Int /\ half + 3 <= import
    BY DEF minTrimW
  <2> HIDE DEF half
  <2>2. Most(half, 600) \in Nat /\ Most(half, 600) + 3 <= import
    BY <2>1 DEF Most, minTrimW
  <2> QED
    BY <2>2 DEF half, trimBufferW, minTrimW
<1> HIDE DEF trim
<1> DEFINE keptW == Most(w * 4 - trim, StartPerInvW * 4)
<1>2. keptW \in Int /\ keptW >= 4 * w - trim
  BY <1>1, PowerConfig DEF Most
<1> HIDE DEF keptW
<1>3. 4 * (keptW \div 4) >= 4 * w - import
  BY <1>1, <1>2
<1> QED
  BY <1>3 DEF RampDownRate, trim, keptW

\* What the batteries take is four times what each is told to give.
LEMMA DischargeTotal ==
    ASSUME NEW w \in Int, NEW p, p = [i \in Inverters |-> -w]
    PROVE  Total(p) = -(4 * w)
<1>1. /\ p[1] = -w /\ p[2] = -w /\ p[3] = -w /\ p[4] = -w
  BY InvertersAre
<1> QED
  BY <1>1 DEF Total

\* A new rate of discharge is on the same side of the meter when it is lower,
\* when it answers no more than the import, and when there is no import.
LEMMA DischargeKeepsSide ==
    ASSUME Parts, DoesDischarge, grid = Meter, surplus' = surplus,
           NEW w \in Int, WriteDischargeRates(w),
           \/ w <= currentDischargeW
           \/ 4 * (w - currentDischargeW) <= grid
           \/ grid <= 0
    PROVE  KeepsSide
<1>1. currentDischargeW \in Nat /\ surplus \in Int /\ grid \in Int
  BY PartsGive DEF Parts, Rates, World
<1>2. BatteryW = -(4 * currentDischargeW)
  BY <1>1, DischargeTotal DEF DoesDischarge, BatteryW
<1>3. BatteryW' = -(4 * w)
  BY DischargeTotal DEF WriteDischargeRates, BatteryW
<1>4. grid = BatteryW - surplus /\ Meter' = BatteryW' - surplus
  BY DEF Meter, BatteryW
<1> QED
  BY <1>1, <1>2, <1>3, <1>4 DEF KeepsSide

\* So is every step that writes nothing.
LEMMA StillKeepsSide == Parts /\ power' = power => KeepsSide
<1> SUFFICES ASSUME Parts, power' = power PROVE KeepsSide
  OBVIOUS
<1>1. Total(power) \in Int
  BY PartsGive, TotalInt
<1> QED
  BY <1>1 DEF KeepsSide, BatteryW

LEMMA ShaveKeepsSide ==
    ASSUME Parts, PowerIsRecorded, Shave, grid = Meter, Ramps
    PROVE  KeepsSide
<1>1. /\ DoesDischarge /\ surplus' = surplus
      /\ currentDischargeW \in Nat /\ grid \in Int
  BY RecordedIs DEF Shave, Steady, house, Parts, Rates, World, Discharges
<1>2. ~StopDayDischarge /\ ~StopShaving
  BY DEF Ramps, StopShaving, StopDayDischarge, Shave
<1>3. CASE /\ grid > importCeil
           /\ ShaveAt(DischargeUp(currentDischargeW, grid, MaxDischargePerInvW))
  <2> DEFINE w == DischargeUp(currentDischargeW, grid, MaxDischargePerInvW)
  <2>1. w \in Int /\ 4 * (w - currentDischargeW) <= grid
    BY <1>1, <1>3, DischargeUpStep, PowerConfig
  <2>2. WriteDischargeRates(w)
    BY <1>3 DEF ShaveAt
  <2> HIDE DEF w
  <2> QED
    BY <1>1, <2>1, <2>2, DischargeKeepsSide
<1>4. CASE ShaveAt(ShavedDown)
  <2>1. ShavedDown \in Int /\ ShavedDown <= currentDischargeW
    BY <1>1, DischargeDownStep DEF ShavedDown
  <2>2. WriteDischargeRates(ShavedDown)
    BY <1>4 DEF ShaveAt
  <2> QED
    BY <1>1, <2>1, <2>2, DischargeKeepsSide
<1> QED
  BY <1>2, <1>3, <1>4 DEF Shave

LEMMA ChargeKeepsSide ==
    ASSUME Parts, PowerIsRecorded, PowerIsRecorded', Day, grid = Meter, Ramps
    PROVE  KeepsSide
<1>1. /\ DoesCharge /\ DoesCharge'
      /\ surplus' = surplus /\ surplus \in Int /\ grid \in Int
      /\ currentChargeW \in Nat
  <2>1. Charges /\ Charges'
    BY DEF Day, Ramps, Charges
  <2>2. DoesCharge /\ DoesCharge'
    BY <2>1 DEF PowerIsRecorded, Charges, DoesCharge, BatteryW
  <2> QED
    BY <2>2, PartsGive DEF Day, Steady, house, Parts, Rates, World
<1>2. Charge /\ ~Starved /\ RampedW # currentChargeW
  <2>1. ~ShaveBegins
    BY DEF ShaveBegins, Ramps, Day
  <2>2. ~Wait
    BY DEF Wait, StartCharging, Ramps, Day, nightTimers
  <2>3. Charge
    BY <2>1, <2>2 DEF Day
  <2>4. ~Starved
    BY <2>3 DEF Charge, Ramps
  <2>5. lastRampAt' # lastRampAt
    BY DEF Ramps, Day, nightTimers
  <2> QED
    BY <2>3, <2>4, <2>5 DEF Charge
<1>3. currentChargeW' = RampedW /\ RampedW \in Nat
  BY <1>2, RampedIsRate DEF Charge
<1>4. /\ BatteryW \in Int /\ BatteryW >= 0
      /\ BatteryW' \in Int /\ BatteryW' >= 0 /\ BatteryW' <= 4 * RampedW
  <2>1. \A p \in [Inverters -> Int] :
          (\A i \in Inverters : p[i] >= 0) => Total(p) \in Int /\ Total(p) >= 0
    BY InvertersAre DEF Total
  <2>2. /\ power \in [Inverters -> Int] /\ power' \in [Inverters -> Int]
        /\ Total(power') <= 4 * RampedW
    <3>1. power \in [Inverters -> Int]
      BY PartsGive
    <3>2. IsRate(RampedW)
      BY RampedIsRate
    <3>3. WriteChargeRates(RampedW)
      BY <1>2 DEF Charge
    <3>4. power' \in [Inverters -> 0..HighestChargeW] /\ Total(power') <= 4 * RampedW
      BY <1>3, <3>2, <3>3, PartsGive, BalancedInLimit DEF WriteChargeRates
    <3> QED
      BY <3>1, <3>4, LimitsType
  <2>3. /\ Total(power) \in Int /\ Total(power) >= 0
        /\ Total(power') \in Int /\ Total(power') >= 0
    BY <1>1, <2>1, <2>2 DEF DoesCharge
  <2> QED
    BY <2>2, <2>3 DEF BatteryW
<1>5. Meter' = grid + (BatteryW' - BatteryW)
  <2>1. grid = BatteryW - surplus /\ Meter' = BatteryW' - surplus
    BY <1>1 DEF Meter, BatteryW
  <2> QED
    BY <1>1, <1>4, <2>1
<1>6. CASE grid < -DeadBandExportW
  <2>1. grid < 0 /\ -grid \in Nat
    BY <1>1, <1>6, LoopConfig
  <2>2. 4 * RampedW <= 4 * currentChargeW - grid
    <3> DEFINE export == -grid
    <3>1. RampedW = RampUpRate(currentChargeW, export, soc)
      <4>1. ~(grid > DeadBandImportW)
        BY <1>1, <2>1, LoopConfig
      <4> QED
        BY <1>2, <1>6, <4>1 DEF RampedW
    <3>2. export \in Nat /\ 4 * currentChargeW + export = 4 * currentChargeW - grid
      BY <1>1, <2>1
    <3> HIDE DEF export
    <3> QED
      BY <1>1, <3>1, <3>2, RampUpWithinExport
  <2>3. BatteryW = 4 * currentChargeW => Meter' <= 0
    <3>1. \A g, before, after \in Int, c, r \in Nat :
            after <= 4 * r /\ 4 * r <= 4 * c - g /\ before = 4 * c => g + (after - before) <= 0
      OBVIOUS
    <3>2. BatteryW = 4 * currentChargeW => grid + (BatteryW' - BatteryW) <= 0
      BY <1>1, <1>3, <1>4, <2>2, <3>1, Zenon
    <3> QED
      BY <1>5, <3>2, Zenon
  <2> QED
    BY <1>1, <1>4, <2>1, <2>3 DEF KeepsSide
<1>7. CASE grid > DeadBandImportW /\ ~(grid < -DeadBandExportW)
  <2>1. grid > 0
    BY <1>1, <1>7, LoopConfig
  <2>2. DeadBandImportW >= minTrimW + 3 => 4 * RampedW >= 4 * currentChargeW - grid
    <3>1. RampedW = RampDownRate(currentChargeW, grid)
      BY <1>2, <1>7 DEF RampedW
    <3>2. DeadBandImportW >= minTrimW + 3 => grid > minTrimW + 3
      BY <1>1, <1>7, LoopConfig DEF minTrimW
    <3> QED
      BY <1>1, <3>1, <3>2, RampDownWithinImport
  <2>3. BatteryW <= 4 * currentChargeW /\ BatteryW' = 4 * currentChargeW'
        /\ DeadBandImportW >= minTrimW + 3
        => Meter' >= 0
    BY <1>1, <1>3, <1>4, <1>5, <2>2
  <2> QED
    BY <1>1, <1>4, <2>1, <2>3 DEF KeepsSide
<1> QED
  BY <1>2, <1>6, <1>7 DEF RampedW

LEMMA NightKeepsSide ==
    ASSUME Parts, PowerIsRecorded, Night, grid = Meter, Ramps
    PROVE  KeepsSide
<1>1. /\ DoesDischarge /\ surplus' = surplus
      /\ currentDischargeW \in Nat /\ grid \in Int
  BY RecordedIs DEF Night, Steady, house, Parts, Rates, World, Discharges
<1>2. ~LowSOCStop
  BY DEF LowSOCStop, Ramps, Night
<1>3. CASE ExportGuard
  <2>1. grid <= 0
    BY <1>1, <1>3, LoopConfig DEF ExportGuard, Exporting
  <2>2. /\ GuardDown(currentDischargeW, -grid) \in Int
        /\ WriteDischargeRates(GuardDown(currentDischargeW, -grid))
    <3> DEFINE export == -grid
    <3>1. export \in Int /\ IsDischarge(currentDischargeW)
      BY <1>1 DEF Parts, Rates
    <3> HIDE DEF export
    <3>2. IsDischarge(GuardDown(currentDischargeW, export))
      BY <1>1, <3>1, DischargeInLimit
    <3> QED
      BY <1>3, <3>2, LimitsType DEF ExportGuard, DischargeAt, IsDischarge, export
  <2> QED
    BY <1>1, <2>1, <2>2, DischargeKeepsSide
<1>4. CASE grid > importCeil /\ DischargeAt(DischargeUp(currentDischargeW, grid, NightMaxW))
  <2> DEFINE w == DischargeUp(currentDischargeW, grid, NightMaxW)
  <2>1. NightMaxW \in Int
    BY PowerConfig DEF NightMaxW, Parts, Rates
  <2>2. w \in Int /\ 4 * (w - currentDischargeW) <= grid
    BY <1>1, <1>4, <2>1, DischargeUpStep
  <2>3. WriteDischargeRates(w)
    BY <1>4 DEF DischargeAt
  <2> HIDE DEF w
  <2> QED
    BY <1>1, <2>2, <2>3, DischargeKeepsSide
<1>5. CASE DischargeAt(DischargeDown(currentDischargeW, grid))
  <2> DEFINE w == DischargeDown(currentDischargeW, grid)
  <2>1. w \in Int /\ w <= currentDischargeW
    BY <1>1, DischargeDownStep
  <2>2. WriteDischargeRates(w)
    BY <1>5 DEF DischargeAt
  <2> HIDE DEF w
  <2> QED
    BY <1>1, <2>1, <2>2, DischargeKeepsSide
<1>6. CASE UNCHANGED power
  BY <1>6, StillKeepsSide
<1> QED
  BY <1>2, <1>3, <1>4, <1>5, <1>6 DEF Night, DischargeRamp

-------------------------------------------------------------------------------
(* The cap of the export guard                                                *)

CapTop == Most(exportGuardCap, startDischargeW)

LEMMA CapTopIs ==
    ASSUME Parts
    PROVE  CapTop \in Nat /\ exportGuardCap <= CapTop /\ startDischargeW <= CapTop
BY PowerConfig DEF Parts, Rates, CapTop, Most, startDischargeW

\* A ramp that starts under the cap stays under it: up it is clamped, and down
\* is down.
LEMMA RampHoldsCap ==
    ASSUME Parts, CapHolds, state = "NIGHT_DISCHARGE", DischargeRamp
    PROVE  CapHolds'
<1>1. /\ currentDischargeW \in Nat /\ grid \in Int /\ exportGuardCap \in Nat
      /\ exportGuardLeft \in Nat
  BY LoopConfig DEF Parts, Rates, World, NightTimers
<1>2. CapInForce' => CapInForce /\ exportGuardCap' = exportGuardCap
  BY DEF DischargeRamp, CapInForce
<1> SUFFICES ASSUME CapInForce, exportGuardCap' = exportGuardCap
             PROVE  currentDischargeW' <= CapTop
  BY <1>2 DEF CapHolds, CapTop
<1>3. currentDischargeW <= CapTop
  BY DEF CapHolds, CapTop
<1>4. CapTop \in Nat /\ exportGuardCap <= CapTop
  BY CapTopIs
<1>5. CASE grid > importCeil /\ DischargeAt(DischargeUp(currentDischargeW, grid, NightMaxW))
  <2>1. NightMaxW = exportGuardCap
    BY DEF NightMaxW
  <2>2. \A w \in Int : DischargeUp(currentDischargeW, grid, exportGuardCap) \in Int
                       => DischargeUp(currentDischargeW, grid, exportGuardCap) <= exportGuardCap
    <3> DEFINE up == currentDischargeW + clamp((grid - importCeil) \div 4, minStep, maxStep)
    <3>1. Least(up, exportGuardCap) \in Int => Least(up, exportGuardCap) <= exportGuardCap
      <4>1. up \in Int
        <5> DEFINE quarter == (grid - 1000) \div 4
        <5>1. quarter \in Int
          BY <1>1
        <5> HIDE DEF quarter
        <5>2. clamp(quarter, 50, 300) \in Int
          BY <5>1 DEF clamp, Most, Least
        <5> QED
          BY <1>1, <5>2 DEF quarter, importCeil, minStep, maxStep
      <4> HIDE DEF up
      <4> QED
        BY <1>1, <4>1 DEF Least
    <3> QED
      BY <3>1 DEF DischargeUp
  <2>3. DischargeUp(currentDischargeW, grid, exportGuardCap) \in Int
    BY <1>1, <1>5, DischargeUpStep
  <2> QED
    BY <1>1, <1>4, <1>5, <2>1, <2>2, <2>3 DEF DischargeAt
<1>6. CASE DischargeAt(DischargeDown(currentDischargeW, grid))
  BY <1>1, <1>3, <1>4, <1>6, DischargeDownStep DEF DischargeAt
<1>7. CASE UNCHANGED currentDischargeW
  BY <1>3, <1>7
<1> QED
  BY <1>5, <1>6, <1>7 DEF DischargeRamp

\* No step takes a rate past a cap in force: a night begins with the start
\* rate, and what is done by day is not under the cap.
LEMMA NextHoldsCap ==
    ASSUME Parts, Parts', CapHolds, [Next]_vars
    PROVE  CapHolds'
<1>1. CASE UNCHANGED <<state, currentDischargeW, exportGuardCap, exportGuardLeft>>
  BY <1>1 DEF CapHolds, CapInForce
<1>2. CASE state' # "NIGHT_DISCHARGE"
  BY <1>2 DEF CapHolds
<1>3. ASSUME NEW s, Enter(s), s \in {"DAY_CHARGE", "NIGHT_DISCHARGE"}
      PROVE  CapHolds'
  <2>1. CASE s = "DAY_CHARGE"
    BY <1>2, <1>3, <2>1 DEF Enter
  <2>2. CASE s = "NIGHT_DISCHARGE"
    <3>1. currentDischargeW' = startDischargeW /\ exportGuardCap' = exportGuardCap
      BY <1>3, <2>2 DEF Enter, ApplyNight
    <3>2. currentDischargeW' <= CapTop /\ CapTop' = CapTop
      BY <3>1, CapTopIs DEF CapTop, startDischargeW
    <3> QED
      BY <3>2 DEF CapHolds, CapTop
  <2> QED
    BY <1>3, <2>1, <2>2
<1>4. CASE TimeTransition
  BY <1>2, <1>3, <1>4 DEF TimeTransition
<1>5. CASE SafeModeRecovery
  BY <1>3, <1>5 DEF SafeModeRecovery
<1>6. CASE Shave \/ Day
  BY <1>2, <1>6 DEF Shave, Day
<1>7. CASE Night
  <2>1. CASE LowSOCStop
    BY <1>2, <2>1 DEF LowSOCStop
  <2>2. CASE ExportGuard
    <3>1. exportGuardCap' = currentDischargeW' /\ exportGuardCap' \in Int
      BY <2>2 DEF ExportGuard, Parts, Rates
    <3>2. currentDischargeW' <= Most(exportGuardCap', startDischargeW)
      BY <3>1, PowerConfig DEF Most, startDischargeW
    <3>3. currentDischargeW' <= Most(exportGuardCap, startDischargeW)'
      BY <3>2 DEF Most, startDischargeW
    <3> QED
      BY <3>3 DEF CapHolds
  <2>3. CASE DischargeRamp
    BY <1>7, <2>3, RampHoldsCap DEF Night
  <2> QED
    BY <1>7, <2>1, <2>2, <2>3 DEF Night
<1>8. CASE Tick
  <2>1. /\ state' = state /\ currentDischargeW' = currentDischargeW
        /\ exportGuardCap' = exportGuardCap
    BY <1>8 DEF Tick, rates
  <2>2. exportGuardLeft' > 0 => exportGuardLeft > 0
    BY <1>8, LoopConfig DEF Tick, Most, Parts, NightTimers
  <2>3. CapInForce' => CapInForce
    BY <2>1, <2>2 DEF CapInForce
  <2> QED
    BY <2>1, <2>3 DEF CapHolds
<1>9. CASE EnterSafeMode
  BY <1>2, <1>9 DEF EnterSafeMode
<1>10. CASE ReadGrid \/ Keepalive \/ House \/ ReadBMS \/ UNCHANGED vars
  BY <1>1, <1>10 DEF ReadGrid, Keepalive, House, ReadBMS, vars, rates, nightTimers
<1> QED
  BY <1>4, <1>5, <1>6, <1>7, <1>8, <1>9, <1>10 DEF Next, ControlCycle

-------------------------------------------------------------------------------
(* The theorems                                                               *)

LEMMA PartsAlways == Spec => []Parts
<1>1. Init => Parts
  BY InitParts
<1>2. Parts /\ [Next]_vars => Parts'
  BY NextParts
<1> QED
  BY <1>1, <1>2, PTL DEF Spec

\* Rates, timers and caps stay in their ranges for every configuration.
THEOREM PowerTypes == Spec => []TypeOK
<1>1. Parts => TypeOK
  BY PartsOfInv DEF PowerInv
<1> QED
  BY <1>1, PartsAlways, PTL

\* Every peak shave has its ten minutes of import behind it, seen by every
\* cycle since the regime was entered.
THEOREM EveryShaveIsEarned == Spec => ShaveIsEarned
<1> DEFINE Earned == ~dayDischarging /\ dayDischarging' => importFor = SustainedHold
<1>1. Parts /\ [Next]_vars => [Earned]_vars
  <2> SUFFICES ASSUME Parts, Next, ~dayDischarging, dayDischarging'
               PROVE  importFor = SustainedHold
    BY DEF vars
  <2>1. CASE Day
    <3>1. ShaveBegins
      BY <2>1 DEF Day, Wait, Charge
    <3> QED
      BY <2>1, <3>1 DEF Day, ShaveBegins, StartShaving, Parts, TimerAgrees
  <2>2. ~Shave
    BY DEF Shave
  <2>3. ~Night /\ ~ReadGrid /\ ~Keepalive /\ ~Tick /\ ~House /\ ~ReadBMS
    BY DEF Night, ReadGrid, Keepalive, Tick, House, ReadBMS
  <2>4. ~EnterSafeMode
    BY DEF EnterSafeMode
  <2>5. \A s : ~Enter(s)
    BY DEF Enter, ApplyDay, ApplyNight
  <2>6. ~TimeTransition /\ ~SafeModeRecovery
    BY <2>5 DEF TimeTransition, SafeModeRecovery
  <2> QED
    BY <2>1, <2>2, <2>3, <2>4, <2>6 DEF Next, ControlCycle
<1>2. Spec => [][Next]_vars
  BY PTL DEF Spec
<1> QED
  BY <1>1, <1>2, PartsAlways, PTL DEF ShaveIsEarned

LEMMA RecordedAlways == Spec => [](Parts /\ PowerIsRecorded)
<1>1. Init => Parts /\ PowerIsRecorded
  BY InitParts, InitRecorded
<1>2. Parts /\ PowerIsRecorded /\ [Next]_vars => (Parts /\ PowerIsRecorded)'
  BY NextParts, NextRecorded
<1> QED
  BY <1>1, <1>2, PTL DEF Spec

\* What the inverters do, all together, is limited by what is recorded.
LEMMA RecordedInLimits == Parts /\ PowerIsRecorded => PowerInLimits
<1> SUFFICES ASSUME Parts, PowerIsRecorded, ~RoundsAway PROVE BatteryW <= ChargeLimitW
  BY PartsOfInv DEF PowerInv, PowerInLimits
<1>1. ChargeLimitW \in Nat
  BY LimitsType
<1>2. CASE Discharges
  <2>1. currentDischargeW \in Nat /\ power = [i \in Inverters |-> -currentDischargeW]
    BY <1>2, RecordedIs DEF DoesDischarge, Parts, Rates
  <2>2. BatteryW = -(4 * currentDischargeW)
    BY <2>1, DischargeTotal DEF BatteryW
  <2> QED
    BY <1>1, <2>1, <2>2
<1>3. CASE Charges
  <2>1. currentChargeW \in Nat /\ 4 * currentChargeW <= ChargeLimitW
    BY DEF Parts, Rates, IsRate
  <2>2. BatteryW <= 4 * currentChargeW /\ BatteryW \in Int
    BY <1>3, RecordedIs, PartsGive DEF DoesCharge, BatteryW
  <2> QED
    BY <1>1, <2>1, <2>2
<1>4. CASE state \in {"STOPPED", "SAFE"}
  <2>1. power = [i \in Inverters |-> 0]
    BY <1>4, RecordedIs DEF DoesNothing
  <2>2. BatteryW = 0
    BY <2>1, InvertersAre DEF BatteryW, Total
  <2> QED
    BY <1>1, <2>2
<1> QED
  BY <1>2, <1>3, <1>4 DEF Parts, Regime, Discharges, Charges

\* No inverter, and not all of them together, are told to do more than the
\* configuration allows, however unevenly a charge is distributed; but for a
\* total of charges so small that shares round to nothing.
THEOREM PowerStaysInLimits == Spec => []PowerInLimits
BY RecordedInLimits, RecordedAlways, PTL

\* The inverters do what the controller has recorded: no path through ramps,
\* shaves, starvation, regime changes and keepalives leaves them with another
\* power than the rate the next ramp starts from.  What a charge adds up to is
\* not claimed where a share may round to nothing, for the keepalive then skips
\* that inverter.
THEOREM PowerRecorded == Spec => []PowerIsRecorded
BY RecordedAlways, PTL

\* No ramp on a true reading overshoots to the other side of the meter.
THEOREM RampsKeepSide == Spec => RampKeepsSide
<1>1. Parts /\ PowerIsRecorded /\ (PowerIsRecorded)' /\ [Next]_vars
      => [grid = Meter /\ Ramps => KeepsSide]_vars
  <2> SUFFICES ASSUME Parts, PowerIsRecorded, PowerIsRecorded', Next, grid = Meter, Ramps
               PROVE  KeepsSide
    OBVIOUS
  <2>1. CASE Shave
    BY <2>1, ShaveKeepsSide
  <2>2. CASE Day
    BY <2>2, ChargeKeepsSide
  <2>3. CASE Night
    BY <2>3, NightKeepsSide
  <2>4. CASE Tick
    BY <2>4, StillKeepsSide DEF Tick
  <2>5. ~ReadGrid /\ ~Keepalive /\ ~House /\ ~ReadBMS
    BY DEF ReadGrid, Keepalive, House, ReadBMS, Ramps, dayTimers, nightTimers
  <2>6. ~TimeTransition /\ ~EnterSafeMode /\ ~SafeModeRecovery
    BY DEF TimeTransition, EnterSafeMode, SafeModeRecovery, Enter, Ramps
  <2> QED
    BY <2>1, <2>2, <2>3, <2>4, <2>5, <2>6 DEF Next, ControlCycle
<1>2. Spec => [][Next]_vars
  BY PTL DEF Spec
<1> QED
  BY <1>1, <1>2, RecordedAlways, PTL DEF RampKeepsSide

\* While a cap of the export guard is in force, no night exceeds it, but for
\* the rate that a discharge starts with: through ramps, SAFE modes and days
\* in between.
THEOREM CapIsKept == Spec => []CapHolds
<1>1. Init => CapHolds
  BY DEF Init, CapHolds, CapInForce
<1>2. Parts /\ Parts' /\ CapHolds /\ [Next]_vars => CapHolds'
  BY NextHoldsCap
<1> QED
  BY <1>1, <1>2, PartsAlways, PTL DEF Spec

===============================================================================
