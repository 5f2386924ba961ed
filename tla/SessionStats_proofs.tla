-------------------------- MODULE SessionStats_proofs -------------------------
(* The figures of a session for every configuration: the rolling averages of  *)
(* the ring buffer are those of the session's readings, the peaks are the     *)
(* highest of them, and the energy is the sum over them.                      *)
EXTENDS SessionStatsProps, FiniteSetTheorems, TLAPS

-------------------------------------------------------------------------------
(* Induction over the naturals, for sets: the theorems of the library take    *)
(* the induction hypothesis as an operator.  The finite subsets of Nat are    *)
(* well-founded, hence a set of initial segments 0..n has a smallest one.     *)

LEMMA LeastNat ==
    ASSUME NEW T \in SUBSET Nat, T # {}
    PROVE  \E m \in T : \A k \in T : m <= k
<1> DEFINE U == {0..n : n \in T}
           R == StrictSubsetOrdering(Nat)
<1>1. U \subseteq FiniteSubsetsOf(Nat)
  <2> SUFFICES ASSUME NEW n \in T PROVE 0..n \in FiniteSubsetsOf(Nat)
    OBVIOUS
  <2>1. IsFiniteSet(0..n)
    BY FS_Interval
  <2> QED BY <2>1 DEF FiniteSubsetsOf
<1>2. IsWellFoundedOn(R, FiniteSubsetsOf(Nat))
  BY FS_StrictSubsetOrderingWellFounded
<1>3. \E x \in U : \A y \in U : <<y, x>> \notin R
  <2> HIDE DEF U, R
  <2>1. U # {}
    BY DEF U
  <2> QED BY <1>1, <1>2, <2>1, WFMin
<1>4. PICK m \in T : \A y \in U : <<y, 0..m>> \notin R
  BY <1>3
<1>5. ASSUME NEW k \in T, k < m PROVE FALSE
  <2>1. <<0..k, 0..m>> \notin R
    BY <1>4
  <2>2. 0..k \subseteq Nat /\ 0..m \subseteq Nat /\ 0..k \subseteq 0..m
    BY <1>5
  <2>3. m \in 0..m /\ m \notin 0..k
    BY <1>5
  <2> QED BY <2>1, <2>2, <2>3 DEF StrictSubsetOrdering
<1> QED BY <1>5

LEMMA SetInduction ==
    ASSUME NEW S \in SUBSET Nat, 0 \in S, \A n \in S : n + 1 \in S
    PROVE  S = Nat
<1> DEFINE T == Nat \ S
<1> SUFFICES ASSUME T # {} PROVE FALSE
  OBVIOUS
<1>1. PICK m \in T : \A k \in T : m <= k
  BY LeastNat
<1>2. m - 1 \in S
  BY <1>1
<1> QED BY <1>1, <1>2

-------------------------------------------------------------------------------
(* Sums.                                                                      *)

(* sum is the table of the sums of the first values of w, up to n.            *)
Sums(sum, w, n) ==
    sum = [k \in 0..n |-> IF k = 0 THEN 0 ELSE sum[k - 1] + w[k]]

(* The table that SumOfFirst looks the sum up in.                             *)
Table(w, n) == CHOOSE sum : Sums(sum, w, n)

LEMMA TableExists ==
    ASSUME NEW w, NEW n \in Nat PROVE \E sum : Sums(sum, w, n)
<1> DEFINE S == {k \in Nat : \E sum : Sums(sum, w, k)}
<1>1. 0 \in S
  <2> DEFINE zero == [k \in 0..0 |-> 0]
  <2>1. zero = [k \in 0..0 |-> IF k = 0 THEN 0 ELSE zero[k - 1] + w[k]]
    OBVIOUS
  <2> QED BY <2>1 DEF Sums
<1>2. ASSUME NEW m \in S PROVE m + 1 \in S
  <2>1. PICK old : Sums(old, w, m)
    OBVIOUS
  <2> DEFINE new == [k \in 0..(m + 1) |->
                        IF k = m + 1 THEN old[m] + w[m + 1] ELSE old[k]]
  <2>2. \A k \in 0..m : old[k] = IF k = 0 THEN 0 ELSE old[k - 1] + w[k]
    BY <2>1 DEF Sums
  <2>3. ASSUME NEW k \in 0..(m + 1)
        PROVE  new[k] = IF k = 0 THEN 0 ELSE new[k - 1] + w[k]
    <3>1. CASE k = m + 1
      BY <3>1
    <3>2. CASE k \in 0..m /\ k # 0
      <4>1. new[k] = old[k] /\ new[k - 1] = old[k - 1]
        BY <3>2
      <4> QED BY <3>2, <4>1, <2>2
    <3>3. CASE k = 0
      BY <3>3, <2>2
    <3> QED BY <3>1, <3>2, <3>3
  <2>4. Sums(new, w, m + 1)
    <3> new = [k \in 0..(m + 1) |-> new[k]]
      OBVIOUS
    <3> HIDE DEF new
    <3> QED BY <2>3 DEF Sums
  <2> QED BY <2>4
<1>3. S = Nat
  <2> HIDE DEF S
  <2>1. S \in SUBSET Nat
    BY DEF S
  <2> QED BY <1>1, <1>2, <2>1, SetInduction
<1> QED BY <1>3

LEMMA TableSums ==
    ASSUME NEW w, NEW n \in Nat
    PROVE  /\ SumOfFirst(w, n) = Table(w, n)[n]
           /\ \A k \in 0..n : Table(w, n)[k] =
                  IF k = 0 THEN 0 ELSE Table(w, n)[k - 1] + w[k]
<1>1. Sums(Table(w, n), w, n)
  BY TableExists DEF Table
<1>2. SumOfFirst(w, n) = Table(w, n)[n]
  BY DEF SumOfFirst, Table, Sums
<1> HIDE DEF Table
<1> QED BY <1>1, <1>2 DEF Sums

LEMMA TablesAgree ==
    ASSUME NEW v, NEW w, NEW m \in Nat, NEW n \in Nat, m <= n,
           \A k \in 1..m : v[k] = w[k]
    PROVE  \A k \in 0..m : Table(v, m)[k] = Table(w, n)[k]
<1> DEFINE S == {k \in Nat : k <= m => Table(v, m)[k] = Table(w, n)[k]}
<1>1. 0 \in S
  BY TableSums
<1>2. ASSUME NEW k \in S PROVE k + 1 \in S
  <2> SUFFICES ASSUME k + 1 <= m PROVE Table(v, m)[k + 1] = Table(w, n)[k + 1]
    OBVIOUS
  <2>1. Table(v, m)[k + 1] = Table(v, m)[k] + v[k + 1]
    BY TableSums
  <2>2. Table(w, n)[k + 1] = Table(w, n)[k] + w[k + 1]
    BY TableSums
  <2> QED BY <2>1, <2>2
<1>3. S = Nat
  <2> HIDE DEF S
  <2>1. S \in SUBSET Nat
    BY DEF S
  <2> QED BY <1>1, <1>2, <2>1, SetInduction
<1> QED BY <1>3

(* A sum depends on the values it adds up.                                    *)
LEMMA SumOfSame ==
    ASSUME NEW v, NEW w, NEW n \in Nat, \A k \in 1..n : v[k] = w[k]
    PROVE  SumOfFirst(v, n) = SumOfFirst(w, n)
BY TableSums, TablesAgree

LEMMA SumOfNone == ASSUME NEW w PROVE SumOfFirst(w, 0) = 0
BY TableSums

LEMMA SumOfNext ==
    ASSUME NEW w, NEW n \in Nat
    PROVE  SumOfFirst(w, n + 1) = SumOfFirst(w, n) + w[n + 1]
<1>1. SumOfFirst(w, n + 1) = Table(w, n + 1)[n] + w[n + 1]
  BY TableSums
<1>2. Table(w, n + 1)[n] = Table(w, n)[n]
  BY TablesAgree
<1> QED BY <1>1, <1>2, TableSums

LEMMA SumIsInt ==
    ASSUME NEW w, NEW n \in Nat, \A k \in 1..n : w[k] \in Int
    PROVE  SumOfFirst(w, n) \in Int
<1> DEFINE S == {k \in Nat : k <= n => SumOfFirst(w, k) \in Int}
<1>1. 0 \in S
  BY SumOfNone
<1>2. ASSUME NEW k \in S PROVE k + 1 \in S
  BY SumOfNext
<1>3. S = Nat
  <2> HIDE DEF S
  <2>1. S \in SUBSET Nat
    BY DEF S
  <2> QED BY <1>1, <1>2, <2>1, SetInduction
<1> QED BY <1>3

(* Adding up backwards from the k-th value gives the difference of two totals. *)
LEMMA SumLookingBack ==
    ASSUME NEW v, NEW k \in Nat, NEW n \in 0..k, \A i \in 1..k : v[i] \in Int
    PROVE  SumOfFirst([i \in 1..n |-> v[k + 1 - i]], n)
               = SumOfFirst(v, k) - SumOfFirst(v, k - n)
<1> DEFINE back == [i \in 1..k |-> v[k + 1 - i]]
           S == {m \in Nat : m <= k =>
                    SumOfFirst(back, m) = SumOfFirst(v, k) - SumOfFirst(v, k - m)}
<1>1. 0 \in S
  BY SumOfNone, SumIsInt
<1>2. ASSUME NEW m \in S PROVE m + 1 \in S
  <2> SUFFICES ASSUME m + 1 <= k
               PROVE  SumOfFirst(back, m + 1)
                          = SumOfFirst(v, k) - SumOfFirst(v, k - (m + 1))
    OBVIOUS
  <2> DEFINE j == k - (m + 1)
  <2>1. j \in Nat /\ j + 1 \in 1..k /\ j + 1 = k - m
    OBVIOUS
  <2>2. SumOfFirst(back, m + 1) = SumOfFirst(back, m) + v[j + 1]
    <3>1. SumOfFirst(back, m + 1) = SumOfFirst(back, m) + back[m + 1]
      BY SumOfNext
    <3>2. back[m + 1] = v[j + 1]
      OBVIOUS
    <3> QED BY <3>1, <3>2
  <2>3. SumOfFirst(v, j + 1) = SumOfFirst(v, j) + v[j + 1]
    BY <2>1, SumOfNext
  <2>4. SumOfFirst(back, m) = SumOfFirst(v, k) - SumOfFirst(v, j + 1)
    BY <2>1
  <2>5. SumOfFirst(v, j) \in Int /\ SumOfFirst(v, k) \in Int /\ v[j + 1] \in Int
    BY <2>1, SumIsInt
  <2> HIDE DEF j, back
  <2>6. SumOfFirst(back, m + 1) = SumOfFirst(v, k) - SumOfFirst(v, j)
    BY <2>2, <2>3, <2>4, <2>5
  <2> QED BY <2>6 DEF j
<1>3. S = Nat
  <2> HIDE DEF S
  <2>1. S \in SUBSET Nat
    BY DEF S
  <2> QED BY <1>1, <1>2, <2>1, SetInduction
<1>4. SumOfFirst(back, n) = SumOfFirst(v, k) - SumOfFirst(v, k - n)
  <2>1. n \in S
    BY <1>3
  <2> QED BY <2>1
<1>5. SumOfFirst([i \in 1..n |-> v[k + 1 - i]], n) = SumOfFirst(back, n)
  <2> DEFINE b == [i \in 1..n |-> v[k + 1 - i]]
  <2>1. \A i \in 1..n : b[i] = back[i]
    OBVIOUS
  <2> HIDE DEF b, back
  <2>2. SumOfFirst(b, n) = SumOfFirst(back, n)
    BY <2>1, SumOfSame
  <2> QED BY <2>2 DEF b
<1> QED BY <1>4, <1>5

-------------------------------------------------------------------------------
(* The ring buffer.                                                           *)

LEMMA Wrap ==
    ASSUME NEW x \in 0..(3 * RingSize - 1)
    PROVE  x % RingSize = IF x < RingSize THEN x
                          ELSE IF x < 2 * RingSize THEN x - RingSize
                          ELSE x - 2 * RingSize
BY StatsConfig

Slots == 0..(RingSize - 1)

Rings == [entries: [Slots -> [w: Int, at: Nat]], pos: Slots, count: Nat]

(* What is added is the latest entry; the others are one further back.        *)
LEMMA AddShifts ==
    ASSUME NEW rb \in Rings, NEW w \in Int, NEW at \in Nat
    PROVE  /\ Add(rb, w, at) \in Rings
           /\ Back(Add(rb, w, at), 0) = [w |-> w, at |-> at]
           /\ \A i \in 1..(RingSize - 1) : Back(Add(rb, w, at), i) = Back(rb, i - 1)
<1> DEFINE R  == RingSize
           up == Add(rb, w, at)
<1>1. R \in Nat \ {0}
  BY StatsConfig
<1>2. rb.pos \in Nat /\ rb.pos < R
  BY <1>1 DEF Rings, Slots
<1>3. up.pos = IF rb.pos + 1 = R THEN 0 ELSE rb.pos + 1
  BY <1>1, <1>2, Wrap DEF Add
<1>4. up \in Rings
  <2>1. up.pos \in Slots
    BY <1>1, <1>2, <1>3 DEF Slots
  <2>2. up.entries \in [Slots -> [w: Int, at: Nat]] /\ up.count \in Nat
    BY DEF Add, Rings
  <2>3. up = [entries |-> up.entries, pos |-> up.pos, count |-> up.count]
    BY DEF Add
  <2> HIDE DEF up
  <2> QED BY <2>1, <2>2, <2>3 DEF Rings
<1>5. ASSUME NEW i \in Slots
      PROVE  (up.pos - 1 - i + 2 * R) % R =
                 IF i <= rb.pos THEN rb.pos - i ELSE rb.pos - i + R
  <2> DEFINE x == up.pos - 1 - i + 2 * R
  <2>1. i \in Nat /\ i < R
    BY <1>1 DEF Slots
  <2>2. x \in 0..(3 * R - 1)
    BY <1>1, <1>2, <1>3, <2>1
  <2>3. x % R = IF x < R THEN x ELSE IF x < 2 * R THEN x - R ELSE x - 2 * R
    BY <2>2, Wrap
  <2> QED BY <1>1, <1>2, <1>3, <2>1, <2>3
<1>6. Back(up, 0) = [w |-> w, at |-> at]
  <2>1. up.entries[rb.pos] = [w |-> w, at |-> at]
    BY DEF Add, Rings
  <2>2. (up.pos - 1 - 0 + 2 * R) % R = rb.pos
    BY <1>1, <1>2, <1>5 DEF Slots
  <2> QED BY <2>1, <2>2 DEF Back
<1>7. ASSUME NEW i \in 1..(R - 1) PROVE Back(up, i) = Back(rb, i - 1)
  <2> DEFINE x == rb.pos - 1 - (i - 1) + 2 * R
             y == IF i <= rb.pos THEN rb.pos - i ELSE rb.pos - i + R
  <2>1. (up.pos - 1 - i + 2 * R) % R = y
    BY <1>1, <1>5 DEF Slots
  <2>2. x % R = y
    <3>1. x \in 0..(3 * R - 1)
      BY <1>1, <1>2
    <3>2. x % R = IF x < R THEN x ELSE IF x < 2 * R THEN x - R ELSE x - 2 * R
      BY <3>1, Wrap
    <3> QED BY <1>1, <1>2, <3>2
  <2>3. y \in Slots /\ y # rb.pos
    BY <1>1, <1>2 DEF Slots
  <2>4. up.entries[y] = rb.entries[y]
    BY <2>3 DEF Add, Rings
  <2> QED BY <2>1, <2>2, <2>4 DEF Back
<1> QED BY <1>4, <1>6, <1>7

-------------------------------------------------------------------------------
(* The averages of a sequence of readings, and those of a ring that holds the *)
(* latest of them.                                                            *)

Readings == [w: Powers, at: Nat]
Averages == [sum: Int, n: Nat \ {0}]

TimesRise(s) == \A i, j \in 1..Len(s) : i <= j => s[i].at <= s[j].at

RingHolds(rb, s) ==
    /\ rb.count = IF Len(s) < RingSize THEN Len(s) ELSE RingSize
    /\ \A i \in 0..(rb.count - 1) : Back(rb, i) = s[Len(s) - i]

LEMMA PowersAreInt == Powers \subseteq Int
BY StatsConfig DEF Powers

LEMMA ReadingTypes ==
    ASSUME NEW s \in Seq(Readings), NEW i \in 1..Len(s)
    PROVE  s[i].w \in Int /\ s[i].at \in Nat
<1>1. s[i] \in Readings
  OBVIOUS
<1> QED BY <1>1, PowersAreInt DEF Readings

LEMMA WindowIsInterval ==
    ASSUME NEW s \in Seq(Readings), TimesRise(s), NEW k \in 1..Len(s), NEW d \in Nat
    PROVE  \E n \in 1..k : /\ n <= RingSize
                           /\ Window(s, k, d) = (k - n + 1)..k
                           /\ Cardinality(Window(s, k, d)) = n
<1> DEFINE W == Window(s, k, d)
<1>1. \A i \in 1..Len(s) : s[i].at \in Nat
  BY ReadingTypes
<1>2. RingSize \in Nat \ {0}
  BY StatsConfig
<1>3. k \in W /\ W \subseteq 1..k
  BY <1>1, <1>2 DEF Window
<1>4. PICK first \in W : \A i \in W : first <= i
  <2> HIDE DEF W
  <2> QED BY <1>3, LeastNat
<1>5. ASSUME NEW i \in first..k PROVE i \in W
  <2>1. first \in 1..k /\ first > k - RingSize /\ s[first].at >= s[k].at - d
    BY <1>4 DEF Window
  <2>2. i \in 1..k /\ i > k - RingSize
    BY <1>2, <2>1
  <2>3. s[first].at <= s[i].at
    BY <2>1, <2>2 DEF TimesRise
  <2>4. s[first].at \in Nat /\ s[i].at \in Nat /\ s[k].at \in Nat
    BY <1>1, <2>1, <2>2
  <2> QED BY <2>1, <2>2, <2>3, <2>4 DEF Window
<1>6. W = first..k
  <2> HIDE DEF W
  <2>1. W \subseteq first..k
    BY <1>3, <1>4
  <2>2. first..k \subseteq W
    BY <1>5
  <2> QED BY <2>1, <2>2
<1>7. first \in 1..k /\ first > k - RingSize
  BY <1>4 DEF Window
<1> DEFINE n == k - first + 1
<1>8. n \in 1..k /\ n <= RingSize /\ first = k - n + 1
  BY <1>2, <1>7
<1>9. Cardinality(W) = n
  BY <1>6, <1>7, FS_Interval
<1> QED BY <1>6, <1>8, <1>9

(* The totals of the readings.                                                *)
Watts(s) == [i \in 1..Len(s) |-> s[i].w]

LEMMA TotalOf ==
    ASSUME NEW s \in Seq(Readings), NEW m \in 0..Len(s)
    PROVE  /\ SumOfFirst([i \in 1..m |-> s[i].w], m) = SumOfFirst(Watts(s), m)
           /\ SumOfFirst(Watts(s), m) \in Int
<1> DEFINE v == [i \in 1..m |-> s[i].w]
<1>1. \A i \in 1..m : v[i] = Watts(s)[i]
  BY DEF Watts
<1>2. \A i \in 1..m : Watts(s)[i] \in Int
  BY ReadingTypes DEF Watts
<1> HIDE DEF v
<1>3. SumOfFirst(v, m) = SumOfFirst(Watts(s), m) /\ SumOfFirst(Watts(s), m) \in Int
  BY <1>1, <1>2, SumOfSame, SumIsInt
<1> QED BY <1>3 DEF v

LEMMA AverageIs ==
    ASSUME NEW s \in Seq(Readings), NEW k \in 1..Len(s), NEW d \in Nat,
           NEW n \in 1..k, Cardinality(Window(s, k, d)) = n
    PROVE  /\ Average(s, k, d) =
                  [sum |-> SumOfFirst(Watts(s), k) - SumOfFirst(Watts(s), k - n),
                   n |-> n]
           /\ Average(s, k, d) \in Averages
<1>1. k \in 0..Len(s) /\ k - n \in 0..Len(s)
  OBVIOUS
<1>2. Average(s, k, d) =
          [sum |-> SumOfFirst([i \in 1..k |-> s[i].w], k)
                       - SumOfFirst([i \in 1..(k - n) |-> s[i].w], k - n),
           n |-> n]
  BY DEF Average
<1>3. /\ SumOfFirst([i \in 1..k |-> s[i].w], k) = SumOfFirst(Watts(s), k)
      /\ SumOfFirst(Watts(s), k) \in Int
  BY <1>1, TotalOf
<1>4. /\ SumOfFirst([i \in 1..(k - n) |-> s[i].w], k - n)
             = SumOfFirst(Watts(s), k - n)
      /\ SumOfFirst(Watts(s), k - n) \in Int
  BY <1>1, TotalOf
<1> QED BY <1>2, <1>3, <1>4 DEF Averages

LEMMA AverageType ==
    ASSUME NEW s \in Seq(Readings), TimesRise(s), NEW k \in 1..Len(s), NEW d \in Nat
    PROVE  Average(s, k, d) \in Averages
BY WindowIsInterval, AverageIs

(* A later reading does not change the averages of the earlier ones.          *)
LEMMA AverageOfEarlier ==
    ASSUME NEW s \in Seq(Readings), TimesRise(s), NEW x \in Readings,
           NEW k \in 1..Len(s), NEW d \in Nat
    PROVE  Average(Append(s, x), k, d) = Average(s, k, d)
<1> DEFINE t == Append(s, x)
<1>1. t \in Seq(Readings) /\ k \in 1..Len(t) /\ \A i \in 1..k : t[i] = s[i]
  OBVIOUS
<1>2. PICK n \in 1..k : Cardinality(Window(s, k, d)) = n
  BY WindowIsInterval
<1>3. Window(t, k, d) = Window(s, k, d)
  BY <1>1 DEF Window
<1>4. \A i \in 1..k : Watts(t)[i] = Watts(s)[i]
  BY <1>1 DEF Watts
<1> HIDE DEF t
<1>5. /\ SumOfFirst(Watts(t), k) = SumOfFirst(Watts(s), k)
      /\ SumOfFirst(Watts(t), k - n) = SumOfFirst(Watts(s), k - n)
  BY <1>4, SumOfSame
<1>6. Average(t, k, d) = Average(s, k, d)
  BY <1>1, <1>2, <1>3, <1>5, AverageIs
<1> QED BY <1>6 DEF t

(* The loop of AvgOver adds up the very readings of the window.               *)
LEMMA RingAverages ==
    ASSUME NEW s \in Seq(Readings), TimesRise(s), s # <<>>,
           NEW rb \in Rings, RingHolds(rb, s), NEW d \in Nat
    PROVE  AvgOver(rb, d) = Average(s, Len(s), d)
<1> DEFINE k == Len(s)
           cutoff == Back(rb, 0).at - d
           inside == {i \in 0..(rb.count - 1) :
                          \A j \in 0..i : Back(rb, j).at >= cutoff}
<1>1. k \in 1..Len(s) /\ RingSize \in Nat \ {0}
  BY StatsConfig
<1>2. PICK n \in 1..k : /\ n <= RingSize
                        /\ Window(s, k, d) = (k - n + 1)..k
                        /\ Cardinality(Window(s, k, d)) = n
  BY <1>1, WindowIsInterval
<1>3. n <= rb.count /\ rb.count <= k /\ rb.count <= RingSize /\ rb.count \in Nat
  BY <1>1, <1>2 DEF RingHolds
<1>4. \A i \in 0..(rb.count - 1) : Back(rb, i) = s[k - i] /\ k - i \in 1..k
  BY <1>3 DEF RingHolds
<1>5. cutoff = s[k].at - d
  BY <1>1, <1>3, <1>4
<1>6. \A i \in 1..k : s[i].at \in Nat
  BY ReadingTypes
<1>7. ASSUME NEW i \in 0..(n - 1) PROVE i \in inside
  <2>1. ASSUME NEW j \in 0..i PROVE Back(rb, j).at >= cutoff
    <3>1. Back(rb, j) = s[k - j] /\ k - j \in (k - n + 1)..k
      BY <1>1, <1>3, <1>4
    <3>2. k - j \in Window(s, k, d)
      BY <1>2, <3>1
    <3> QED BY <1>5, <3>1, <3>2 DEF Window
  <2> QED BY <1>3, <2>1
<1>8. ASSUME NEW i \in inside PROVE i \in 0..(n - 1)
  <2>1. i \in 0..(rb.count - 1) /\ Back(rb, i).at >= cutoff
    OBVIOUS
  <2>2. s[k - i].at >= s[k].at - d /\ k - i \in 1..k
    BY <1>4, <1>5, <2>1
  <2>3. k - i > k - RingSize
    BY <1>1, <1>3, <2>1
  <2>4. k - i \in Window(s, k, d)
    BY <2>2, <2>3 DEF Window
  <2> QED BY <1>2, <2>1, <2>4
<1>9. Cardinality(inside) = n
  <2> HIDE DEF inside
  <2>1. inside = 0..(n - 1)
    <3>1. inside \subseteq 0..(n - 1)
      BY <1>8
    <3>2. 0..(n - 1) \subseteq inside
      BY <1>7
    <3> QED BY <3>1, <3>2
  <2> QED BY <1>2, <2>1, FS_Interval
<1> DEFINE found == [i \in 1..n |-> Back(rb, i - 1).w]
           back  == [i \in 1..n |-> Watts(s)[k + 1 - i]]
<1>10. AvgOver(rb, d) = [sum |-> SumOfFirst(found, n), n |-> n]
  BY <1>9 DEF AvgOver
<1>11. \A i \in 1..n : found[i] = back[i]
  <2> SUFFICES ASSUME NEW i \in 1..n PROVE found[i] = back[i]
    OBVIOUS
  <2>1. i - 1 \in 0..(rb.count - 1) /\ k - (i - 1) = k + 1 - i
    BY <1>1, <1>3
  <2>2. Back(rb, i - 1) = s[k + 1 - i] /\ k + 1 - i \in 1..k
    BY <1>4, <2>1
  <2> QED BY <2>2 DEF Watts
<1>12. SumOfFirst(found, n) = SumOfFirst(back, n)
  <2> HIDE DEF found, back
  <2> QED BY <1>11, SumOfSame
<1>13. SumOfFirst(back, n) = SumOfFirst(Watts(s), k) - SumOfFirst(Watts(s), k - n)
  <2>1. \A i \in 1..k : Watts(s)[i] \in Int
    BY ReadingTypes DEF Watts
  <2>2. k \in Nat /\ n \in 0..k
    OBVIOUS
  <2> HIDE DEF k
  <2> QED BY <2>1, <2>2, SumLookingBack
<1> HIDE DEF found, back
<1> QED BY <1>1, <1>2, <1>10, <1>12, <1>13, AverageIs

-------------------------------------------------------------------------------
(* Peaks: averages are compared as fractions.                                 *)

PeakValues == [sum: Nat, n: Nat \ {0}]

LEMMA Product ==
    ASSUME NEW a \in Int, NEW b \in Int, NEW n \in Nat \ {0}
    PROVE  /\ a <= b => a * n <= b * n
           /\ a < b => a * n < b * n
           /\ a * n \in Int
OBVIOUS

LEMMA Swap ==
    ASSUME NEW a \in Int, NEW b \in Int, NEW c \in Int PROVE (a * b) * c = (a * c) * b
OBVIOUS

LEMMA ExceedsIsTransitive ==
    ASSUME NEW a \in Averages, NEW b \in Averages, NEW c \in Averages,
           ~Exceeds(a, b), Exceeds(c, b)
    PROVE  ~Exceeds(a, c)
<1> DEFINE as == a.sum
           an == a.n
           bs == b.sum
           bn == b.n
           cs == c.sum
           cn == c.n
<1>1. /\ as \in Int /\ bs \in Int /\ cs \in Int
      /\ an \in Nat \ {0} /\ bn \in Nat \ {0} /\ cn \in Nat \ {0}
  BY DEF Averages
<1>2. as * bn <= bs * an /\ bs * cn < cs * bn
  <2>1. as * bn \in Int /\ bs * an \in Int /\ bs * cn \in Int /\ cs * bn \in Int
    BY <1>1, Product
  <2> QED BY <2>1 DEF Exceeds
<1> SUFFICES ASSUME cs * an < as * cn PROVE FALSE
  BY DEF Exceeds
<1> HIDE DEF as, an, bs, bn, cs, cn
<1>3. (as * bn) * cn <= (bs * an) * cn
  BY <1>1, <1>2, Product
<1>4. (bs * cn) * an < (cs * bn) * an
  BY <1>1, <1>2, Product
<1>5. (cs * an) * bn < (as * cn) * bn
  BY <1>1, Product
<1> DEFINE p == (as * cn) * bn
           q == (bs * cn) * an
           r == (cs * an) * bn
<1>6. (as * bn) * cn = p /\ (bs * an) * cn = q /\ (cs * bn) * an = r
  <2>1. as \in Int /\ an \in Int /\ bs \in Int /\ bn \in Int /\ cs \in Int /\ cn \in Int
    BY <1>1
  <2>2. (as * bn) * cn = p
    BY <2>1, Swap
  <2>3. (bs * an) * cn = q
    BY <2>1, Swap
  <2>4. (cs * bn) * an = r
    BY <2>1, Swap
  <2> QED BY <2>2, <2>3, <2>4
<1>7. p <= q /\ q < r /\ r < p
  BY <1>3, <1>4, <1>5, <1>6
<1>8. p \in Int /\ q \in Int /\ r \in Int
  BY <1>1, Product
<1> HIDE DEF p, q, r
<1> QED BY <1>7, <1>8

LEMMA HigherPeak ==
    ASSUME NEW A \in SUBSET Averages, NEW x \in Averages, NEW peak \in PeakValues,
           IsPeak(peak, A),
           NEW new, new = IF Exceeds(x, peak) THEN x ELSE peak
    PROVE  /\ IsPeak(new, A \cup {x})
           /\ new \in PeakValues
           /\ Exceeds(x, peak) => x.sum > 0
<1>1. peak \in Averages
  BY DEF PeakValues, Averages
<1>2. CASE ~Exceeds(x, peak)
  BY <1>2 DEF IsPeak
<1>3. CASE Exceeds(x, peak)
  <2>1. x.sum > 0
    <3>1. x.sum \in Int /\ peak.sum \in Nat /\ x.n \in Nat \ {0} /\ peak.n \in Nat \ {0}
      BY DEF Averages, PeakValues
    <3>2. x.sum * peak.n > peak.sum * x.n
      BY <1>3 DEF Exceeds
    <3>3. peak.sum * x.n >= 0
      BY <3>1
    <3>4. x.sum <= 0 => x.sum * peak.n <= 0
      BY <3>1
    <3>5. x.sum * peak.n \in Int /\ peak.sum * x.n \in Int
      BY <3>1, Product
    <3> QED BY <3>1, <3>2, <3>3, <3>4, <3>5
  <2>2. x \in PeakValues
    BY <2>1 DEF Averages, PeakValues
  <2>3. \A a \in A : ~Exceeds(a, x)
    BY <1>1, <1>3, ExceedsIsTransitive DEF IsPeak
  <2>4. ~Exceeds(x, x)
    <3>1. x.sum * x.n \in Int
      BY Product DEF Averages
    <3> QED BY <3>1 DEF Exceeds
  <2> QED BY <1>3, <2>1, <2>2, <2>3, <2>4 DEF IsPeak
<1> QED BY <1>2, <1>3

LEMMA NegatedType == ASSUME NEW a \in Averages
                     PROVE  Negated(a) \in Averages /\ Negated(a).sum = -a.sum
BY DEF Negated, Averages

-------------------------------------------------------------------------------
(* The inductive invariant.                                                   *)

Sessions == [type: Types, start: Nat, end: {Unset}, energy: Int,
             export: PeakValues, import: PeakValues]

StatsTypes ==
    /\ now \in Nat
    /\ current \in Sessions \cup {NoSession}
    /\ ring \in Rings
    /\ lastGridAt \in Nat \cup {Unset} /\ lastGridAt <= now
    /\ samples \in Seq(Readings)

(* While a session is open the ring holds its latest readings.                *)
RingMatches == current # NoSession => RingHolds(ring, samples)

(* Readings are taken in order, the last one by now.                          *)
ReadingsRise ==
    /\ TimesRise(samples)
    /\ \A i \in 1..Len(samples) : samples[i].at <= now

(* Where energy starts from, and where the next interval does.                *)
EnergyStarts ==
    current # NoSession =>
        /\ samples = <<>> => current.energy = 0
        /\ samples # <<>> => lastGridAt = samples[Len(samples)].at

StatsInv ==
    /\ StatsTypes
    /\ RingMatches
    /\ ReadingsRise
    /\ EnergyStarts
    /\ PeaksAreRolling
    /\ EnergyIsOfSession

(* The window over which the averages of a session are taken.                 *)
Span(session) == IF session.type = "charge" THEN LongWindow ELSE ShortWindow

LEMMA OpenSession ==
    /\ NoSession \notin Sessions
    /\ \A session \in Sessions : /\ session # NoSession
                                 /\ session.type \in Types
                                 /\ session.start \in Nat
                                 /\ session.energy \in Int
                                 /\ session.export \in PeakValues
                                 /\ session.import \in PeakValues
                                 /\ Span(session) \in Nat
<1>1. \A session \in Sessions : session.type \in Types
  BY DEF Sessions
<1>2. NoSession.type \notin Types
  BY DEF NoSession, Types
<1> QED BY <1>1, <1>2, StatsConfig DEF Sessions, Span

LEMMA StatsInit == Init => StatsInv
<1> SUFFICES ASSUME Init PROVE StatsInv
  OBVIOUS
<1> USE DEF Init
<1>1. EmptyRing \in Rings
  BY StatsConfig DEF EmptyRing, Rings, Slots
<1>2. StatsTypes
  BY <1>1 DEF StatsTypes, Unset
<1>3. ReadingsRise
  BY DEF ReadingsRise, TimesRise
<1> QED BY <1>2, <1>3 DEF StatsInv, RingMatches, EnergyStarts, PeaksAreRolling,
                       EnergyIsOfSession

LEMMA TypesStart ==
    ASSUME StatsTypes, NEW type \in Types, StartSession(type)
    PROVE  StatsTypes' /\ current' \in Sessions
<1>1. EmptyRing \in Rings
  BY StatsConfig DEF EmptyRing, Rings, Slots
<1>2. None \in PeakValues
  BY DEF None, PeakValues
<1>3. current' \in Sessions
  BY <1>2 DEF StartSession, StatsTypes, Sessions
<1> QED BY <1>1, <1>3 DEF StartSession, StatsTypes

LEMMA StatsStart ==
    ASSUME StatsInv, NEW type \in Types, StartSession(type) PROVE StatsInv'
<1>1. StatsTypes' /\ current' \in Sessions
  BY TypesStart DEF StatsInv
<1>2. samples' = <<>> /\ ring' = EmptyRing /\ now' = now
  BY DEF StartSession
<1>3. RingMatches'
  BY <1>2, StatsConfig DEF RingMatches, RingHolds, EmptyRing
<1>4. ReadingsRise'
  BY <1>2 DEF ReadingsRise, TimesRise
<1>5. EnergyStarts'
  BY <1>2 DEF EnergyStarts, StartSession, StatsInv, StatsTypes
<1>6. PeaksAreRolling'
  <2>1. current'.export = None /\ current'.import = None
    BY DEF StartSession
  <2>2. DOMAIN samples' = {}
    BY <1>2
  <2> QED BY <2>1, <2>2 DEF PeaksAreRolling, IsPeak
<1>7. EnergyIsOfSession'
  BY <1>2 DEF EnergyIsOfSession
<1> QED BY <1>1, <1>3, <1>4, <1>5, <1>6, <1>7 DEF StatsInv

LEMMA StatsEnd == StatsInv /\ EndSession => StatsInv'
<1> SUFFICES ASSUME StatsInv, EndSession PROVE StatsInv'
  OBVIOUS
<1>1. current' = NoSession /\ samples' = <<>> /\ UNCHANGED <<now, ring, lastGridAt>>
  BY DEF EndSession
<1>2. StatsTypes'
  BY <1>1 DEF StatsTypes, StatsInv
<1>3. ReadingsRise'
  BY <1>1 DEF ReadingsRise, TimesRise
<1> QED BY <1>1, <1>2, <1>3 DEF StatsInv, RingMatches, EnergyStarts, PeaksAreRolling,
                            EnergyIsOfSession

LEMMA StatsTick == StatsInv /\ Tick => StatsInv'
<1> SUFFICES ASSUME StatsInv, Tick PROVE StatsInv'
  OBVIOUS
<1>1. now' = now + 1 /\ UNCHANGED <<current, ring, lastGridAt, samples>>
  BY DEF Tick
<1>2. StatsTypes'
  BY <1>1 DEF StatsTypes, StatsInv, Unset
<1>3. ReadingsRise'
  BY <1>1, ReadingTypes DEF ReadingsRise, TimesRise, StatsInv, StatsTypes
<1>4. EnergyStarts'
  BY <1>1, OpenSession DEF EnergyStarts, StatsInv, StatsTypes
<1>5. RingMatches' /\ PeaksAreRolling' /\ EnergyIsOfSession'
  BY <1>1 DEF StatsInv, RingMatches, PeaksAreRolling, EnergyIsOfSession, IsPeak
<1> QED BY <1>2, <1>3, <1>4, <1>5 DEF StatsInv

LEMMA StatsStutter == StatsInv /\ UNCHANGED vars => StatsInv'
BY DEF vars, StatsInv, StatsTypes, RingMatches, ReadingsRise, EnergyStarts,
       PeaksAreRolling, EnergyIsOfSession, IsPeak

-------------------------------------------------------------------------------
(* A reading of an open session.                                              *)

(* What a session's peak becomes with one more average.                       *)
Raised(peak, avg) == IF Exceeds(avg, peak) THEN avg ELSE peak

LEMMA PeaksOf ==
    ASSUME NEW session \in Sessions, NEW rb, NEW avg \in Averages,
           AvgOver(rb, Span(session)) = avg,
           NEW new, new = Peaks(session, rb)
    PROVE  /\ new.export = IF avg.sum < 0 THEN Raised(session.export, Negated(avg))
                                          ELSE session.export
           /\ new.import = IF session.type = "charge" THEN Raised(session.import, avg)
                                                      ELSE session.import
BY DEF Peaks, Raised, Span, Sessions

LEMMA PeaksKeep ==
    ASSUME NEW session \in Sessions, NEW rb, NEW new, new = Peaks(session, rb)
    PROVE  /\ new.type = session.type /\ new.start = session.start
           /\ new.energy = session.energy
           /\ new.export \in PeakValues /\ new.import \in PeakValues => new \in Sessions
<1>1. new = [session EXCEPT !.export = new.export, !.import = new.import]
  BY DEF Peaks, Sessions
<1> QED BY <1>1 DEF Sessions

(* The peaks stay the highest of the averages, and of the right kind.         *)
LEMMA PeaksRaised ==
    ASSUME NEW A \in SUBSET Averages, NEW avg \in Averages, NEW session \in Sessions,
           NEW N, N = {Negated(a) : a \in A},
           IsPeak(session.export, N),
           session.type = "charge" => IsPeak(session.import, A),
           NEW rb, AvgOver(rb, Span(session)) = avg,
           NEW new, new = Peaks(session, rb)
    PROVE  /\ new.export \in PeakValues /\ new.import \in PeakValues
           /\ IsPeak(new.export, N \cup {Negated(avg)})
           /\ session.type = "charge" => IsPeak(new.import, A \cup {avg})
<1>1. session.export \in PeakValues /\ session.import \in PeakValues
  BY OpenSession
<1> DEFINE x == Negated(avg)
<1>2. N \in SUBSET Averages /\ x \in Averages /\ x.sum = -avg.sum
  BY NegatedType
<1>3. /\ new.export = IF avg.sum < 0 THEN Raised(session.export, x) ELSE session.export
      /\ new.import = IF session.type = "charge" THEN Raised(session.import, avg)
                                                 ELSE session.import
  BY PeaksOf
<1> HIDE DEF x
<1>4. new.export = Raised(session.export, x)
  <2>1. Exceeds(x, session.export) => x.sum > 0
    BY <1>1, <1>2, HigherPeak
  <2>2. avg.sum \in Int
    BY DEF Averages
  <2>3. Exceeds(x, session.export) => avg.sum < 0
    BY <2>1, <2>2, <1>2
  <2> QED BY <1>3, <2>3 DEF Raised
<1>5. IsPeak(new.export, N \cup {x}) /\ new.export \in PeakValues
  BY <1>1, <1>2, <1>4, HigherPeak DEF Raised
<1>6. /\ new.import \in PeakValues
      /\ session.type = "charge" => IsPeak(new.import, A \cup {avg})
  BY <1>1, <1>3, HigherPeak DEF Raised
<1> QED BY <1>5, <1>6 DEF x

(* The ring goes on to hold the latest readings.                              *)
LEMMA RingGoesOn ==
    ASSUME NEW rb \in Rings, NEW s \in Seq(Readings), RingHolds(rb, s),
           NEW w \in Powers, NEW at \in Nat
    PROVE  RingHolds(Add(rb, w, at), Append(s, [w |-> w, at |-> at]))
<1> DEFINE x == [w |-> w, at |-> at]
           t == Append(s, x)
           up == Add(rb, w, at)
<1>1. RingSize \in Nat \ {0} /\ w \in Int
  BY StatsConfig, PowersAreInt
<1>2. up.count = IF rb.count < RingSize THEN rb.count + 1 ELSE rb.count
  BY DEF Add
<1>3. /\ Len(t) = Len(s) + 1 /\ Len(s) \in Nat
      /\ t[Len(t)] = x
      /\ \A i \in 1..Len(s) : t[i] = s[i]
  OBVIOUS
<1>4. up.count = IF Len(t) < RingSize THEN Len(t) ELSE RingSize
  BY <1>1, <1>2, <1>3 DEF RingHolds
<1>5. ASSUME NEW i \in 0..(up.count - 1) PROVE Back(up, i) = t[Len(t) - i]
  <2>1. CASE i = 0
    BY <1>1, <1>3, <2>1, AddShifts
  <2>2. CASE i # 0
    <3>1. i \in 1..(RingSize - 1) /\ i - 1 \in 0..(rb.count - 1)
      BY <1>1, <1>2, <1>3, <1>4, <2>2 DEF RingHolds
    <3>2. Back(up, i) = Back(rb, i - 1)
      BY <1>1, <3>1, AddShifts
    <3>3. Back(rb, i - 1) = s[Len(s) - (i - 1)]
      BY <3>1 DEF RingHolds
    <3>4. Len(s) - (i - 1) \in 1..Len(s) /\ Len(s) - (i - 1) = Len(t) - i
      BY <1>1, <1>3, <3>1 DEF RingHolds
    <3>5. t[Len(t) - i] = s[Len(t) - i]
      BY <1>3, <3>4
    <3> HIDE DEF t, up
    <3> QED BY <3>2, <3>3, <3>4, <3>5
  <2> QED BY <2>1, <2>2
<1> HIDE DEF t, up
<1>6. RingHolds(up, t)
  BY <1>4, <1>5 DEF RingHolds
<1> QED BY <1>6 DEF t, up, x

LEMMA TimesGoOn ==
    ASSUME NEW s \in Seq(Readings), TimesRise(s), NEW x \in Readings,
           \A i \in 1..Len(s) : s[i].at <= x.at
    PROVE  TimesRise(Append(s, x))
<1> DEFINE t == Append(s, x)
<1>1. /\ Len(t) = Len(s) + 1 /\ Len(s) \in Nat
      /\ t[Len(t)] = x
      /\ \A i \in 1..Len(s) : t[i] = s[i]
  OBVIOUS
<1>2. x.at \in Nat
  BY DEF Readings
<1> HIDE DEF t
<1>3. ASSUME NEW i \in 1..Len(t), NEW j \in 1..Len(t), i <= j PROVE t[i].at <= t[j].at
  <2>1. CASE j \in 1..Len(s)
    BY <1>1, <1>3, <2>1 DEF TimesRise
  <2>2. CASE j = Len(t)
    <3>1. i = Len(t) \/ i \in 1..Len(s)
      BY <1>1
    <3> QED BY <1>1, <1>2, <2>2, <3>1
  <2> QED BY <1>1, <2>1, <2>2
<1>4. TimesRise(t)
  BY <1>3 DEF TimesRise
<1> QED BY <1>4 DEF t

(* The energies of a session's readings and of the next one.                  *)
Energies(s, before) == [k \in 1..Len(s) |-> EnergyOf(s, k, before)]

LEMMA EnergyOfFirst ==
    ASSUME StatsTypes, NEW x \in Readings, x.at = now
    PROVE  \E before \in 0..(MaxGap - 1) :
               Energy(x.w) = SumOfFirst(Energies(<<x>>, before), 1)
<1> DEFINE gap    == now - lastGridAt
           before == IF lastGridAt # Unset /\ gap > 0 /\ gap < MaxGap THEN gap ELSE 0
<1>1. x.w \in Int /\ now \in Nat /\ lastGridAt \in Int /\ MaxGap \in Nat \ {0}
  <2>1. x.w \in Int
    BY PowersAreInt DEF Readings
  <2>2. now \in Nat /\ lastGridAt \in Int
    BY DEF StatsTypes, Unset
  <2>3. MaxGap \in Nat \ {0}
    BY StatsConfig
  <2> QED BY <2>1, <2>2, <2>3
<1>2. before \in 0..(MaxGap - 1)
  BY <1>1
<1>3. Energy(x.w) = x.w * before
  BY <1>1 DEF Energy
<1>4. Energies(<<x>>, before)[1] = x.w * before
  <2> HIDE DEF before
  <2>1. before < MaxGap
    BY <1>1, <1>2
  <2> QED BY <2>1 DEF Energies, EnergyOf
<1>5. SumOfFirst(Energies(<<x>>, before), 0 + 1) =
          SumOfFirst(Energies(<<x>>, before), 0) + Energies(<<x>>, before)[0 + 1]
  BY SumOfNext
<1>6. SumOfFirst(Energies(<<x>>, before), 1) = x.w * before
  <2> HIDE DEF before
  <2>1. x.w * before \in Int
    BY <1>1, <1>2
  <2> QED BY <1>4, <1>5, <2>1, SumOfNone
<1> HIDE DEF before
<1> QED BY <1>2, <1>3, <1>6

LEMMA EnergyOfNext ==
    ASSUME NEW s \in Seq(Readings), s # <<>>, NEW x \in Readings,
           NEW before \in 0..(MaxGap - 1),
           lastGridAt = s[Len(s)].at, s[Len(s)].at <= x.at, x.at = now
    PROVE  SumOfFirst(Energies(Append(s, x), before), Len(s) + 1) =
               SumOfFirst(Energies(s, before), Len(s)) + Energy(x.w)
<1> DEFINE t == Append(s, x)
           n == Len(s)
<1>1. /\ n \in Nat /\ n >= 1 /\ Len(t) = n + 1
      /\ t[n + 1] = x
      /\ \A i \in 1..n : t[i] = s[i]
  OBVIOUS
<1>2. /\ s[n] \in Readings /\ s[n].at \in Nat /\ x.at \in Nat /\ x.w \in Int
  <2>1. s[n] \in Readings
    BY <1>1
  <2> QED BY <2>1, PowersAreInt DEF Readings
<1> HIDE DEF t, n
<1>3. SumOfFirst(Energies(t, before), n + 1) =
          SumOfFirst(Energies(t, before), n) + Energies(t, before)[n + 1]
  BY <1>1, SumOfNext
<1>4. \A k \in 1..n : Energies(t, before)[k] = Energies(s, before)[k]
  <2> SUFFICES ASSUME NEW k \in 1..n
               PROVE  Energies(t, before)[k] = Energies(s, before)[k]
    OBVIOUS
  <2>1. k \in 1..Len(t) /\ k \in 1..Len(s)
    BY <1>1 DEF n
  <2>2. t[k] = s[k] /\ (k # 1 => t[k - 1] = s[k - 1])
    BY <1>1
  <2> QED BY <2>1, <2>2 DEF Energies, EnergyOf
<1>5. SumOfFirst(Energies(t, before), n) = SumOfFirst(Energies(s, before), n)
  BY <1>1, <1>4, SumOfSame
<1>6. Energies(t, before)[n + 1] = Energy(x.w)
  <2> DEFINE gap == x.at - s[n].at
  <2>1. t[n + 1] = x /\ t[(n + 1) - 1] = s[n] /\ n + 1 # 1 /\ n + 1 \in 1..Len(t)
    BY <1>1
  <2>2. Energies(t, before)[n + 1] = IF gap < MaxGap THEN x.w * gap ELSE 0
    BY <2>1 DEF Energies, EnergyOf
  <2>3. Energy(x.w) = IF gap > 0 /\ gap < MaxGap THEN x.w * gap ELSE 0
    BY <1>2 DEF Energy, Unset, n
  <2>4. gap >= 0 /\ gap \in Int /\ x.w * 0 = 0
    BY <1>2 DEF n
  <2>5. CASE gap = 0
    BY <2>2, <2>3, <2>4, <2>5
  <2>6. CASE gap # 0
    <3>1. gap > 0
      BY <2>4, <2>6
    <3> QED BY <2>2, <2>3, <3>1
  <2> QED BY <2>5, <2>6
<1> QED BY <1>3, <1>5, <1>6 DEF t, n

LEMMA StatsReading ==
    ASSUME StatsInv, current # NoSession, NEW w \in Powers, RecordGridReading(w)
    PROVE  StatsInv'
<1> DEFINE x == [w |-> w, at |-> now]
           session == [current EXCEPT !.energy = @ + Energy(w)]
           d == Span(current)
           avg == AvgOver(ring', d)
<1> USE DEF StatsInv
<1>1. /\ lastGridAt' = now /\ UNCHANGED <<now, last>>
      /\ ring' = Add(ring, w, now)
      /\ samples' = Append(samples, x)
      /\ current' = Peaks(session, ring')
  BY DEF RecordGridReading
<1>2. now \in Nat /\ x \in Readings /\ w \in Int
  BY PowersAreInt DEF StatsTypes, Readings
<1>3. current \in Sessions /\ Energy(w) \in Int
  <2>1. current \in Sessions
    BY DEF StatsTypes
  <2>2. Energy(w) \in Int
    BY <1>2 DEF StatsTypes, Energy, Unset
  <2> QED BY <2>1, <2>2
<1>4. /\ session \in Sessions
      /\ session.type = current.type /\ session.start = current.start
      /\ session.export = current.export /\ session.import = current.import
      /\ session.energy = current.energy + Energy(w)
      /\ Span(session) = d /\ d \in Nat
  BY <1>3, StatsConfig DEF Sessions, Span
<1>5. ring' \in Rings /\ samples' \in Seq(Readings) /\ samples' # <<>>
  BY <1>1, <1>2, AddShifts DEF StatsTypes
<1>6. RingHolds(ring', samples')
  BY <1>1, <1>2, RingGoesOn DEF RingMatches, StatsTypes
<1>7. TimesRise(samples')
  BY <1>1, <1>2, TimesGoOn DEF ReadingsRise, StatsTypes
<1>8. ReadingsRise'
  <2>1. ASSUME NEW i \in 1..Len(samples') PROVE samples'[i].at <= now
    <3>1. CASE i = Len(samples) + 1
      BY <1>1, <1>2, <3>1 DEF StatsTypes
    <3>2. CASE i \in 1..Len(samples)
      BY <1>1, <1>2, <3>2 DEF StatsTypes, ReadingsRise
    <3> QED BY <1>1, <1>2, <3>1, <3>2 DEF StatsTypes
  <2> QED BY <1>1, <1>7, <2>1 DEF ReadingsRise
<1>9. avg = Average(samples', Len(samples'), d) /\ avg \in Averages
  <2>1. Len(samples') \in 1..Len(samples')
    BY <1>5
  <2> QED BY <1>4, <1>5, <1>6, <1>7, <2>1, RingAverages, AverageType
<1> DEFINE A == {Average(samples, k, d) : k \in DOMAIN samples}
           B == {Average(samples', k, d) : k \in DOMAIN samples'}
<1>10. A \in SUBSET Averages /\ B = A \cup {avg}
  <2>1. DOMAIN samples = 1..Len(samples) /\ samples \in Seq(Readings)
    BY DEF StatsTypes
  <2>2. /\ DOMAIN samples' = 1..Len(samples')
        /\ Len(samples') = Len(samples) + 1 /\ Len(samples) \in Nat
    BY <1>1, <1>2, <2>1
  <2>3. TimesRise(samples)
    BY DEF ReadingsRise
  <2>4. \A k \in 1..Len(samples) : /\ Average(samples', k, d) = Average(samples, k, d)
                                   /\ Average(samples, k, d) \in Averages
    BY <1>1, <1>2, <1>4, <2>1, <2>3, AverageOfEarlier, AverageType
  <2>5. DOMAIN samples' = 1..Len(samples) \cup {Len(samples')}
    BY <2>2
  <2> HIDE DEF d, avg
  <2>6. A \in SUBSET Averages
    BY <2>1, <2>4
  <2>7. ASSUME NEW k \in DOMAIN samples' PROVE Average(samples', k, d) \in A \cup {avg}
    BY <1>9, <2>1, <2>4, <2>5
  <2>8. avg \in B
    BY <1>9, <2>5
  <2>9. ASSUME NEW k \in DOMAIN samples PROVE Average(samples, k, d) \in B
    BY <2>1, <2>4, <2>5
  <2>10. B \subseteq A \cup {avg}
    <3> HIDE DEF A
    <3> QED BY <2>7
  <2>11. A \cup {avg} \subseteq B
    <3> HIDE DEF B
    <3> QED BY <2>8, <2>9
  <2> HIDE DEF A, B
  <2> QED BY <2>6, <2>10, <2>11
<1>11. /\ IsPeak(current.export, {Negated(a) : a \in A})
       /\ current.type = "charge" => IsPeak(current.import, A)
  BY DEF PeaksAreRolling, Span
<1> DEFINE N == {Negated(a) : a \in A}
<1>12. /\ current'.export \in PeakValues /\ current'.import \in PeakValues
       /\ IsPeak(current'.export, N \cup {Negated(avg)})
       /\ current.type = "charge" => IsPeak(current'.import, A \cup {avg})
  <2>1. AvgOver(ring', Span(session)) = avg
    BY <1>4
  <2>2. N = {Negated(a) : a \in A}
    OBVIOUS
  <2> HIDE DEF A, N, avg, session, d
  <2> QED BY <1>1, <1>4, <1>9, <1>10, <1>11, <2>1, <2>2, PeaksRaised DEF N
<1>13. /\ current' \in Sessions
       /\ current'.type = current.type /\ current'.start = current.start
       /\ current'.energy = current.energy + Energy(w)
  <2> HIDE DEF session, d
  <2>1. session \in Sessions
    BY <1>4
  <2>2. current' = Peaks(session, ring')
    BY <1>1
  <2>3. /\ current' \in Sessions
        /\ current'.type = session.type /\ current'.start = session.start
        /\ current'.energy = session.energy
    BY <1>12, <2>1, <2>2, PeaksKeep
  <2> QED BY <1>4, <2>3
<1>14. StatsTypes'
  BY <1>1, <1>2, <1>5, <1>13 DEF StatsTypes
<1>15. EnergyStarts'
  <2>1. samples'[Len(samples')] = x
    BY <1>1, <1>2 DEF StatsTypes
  <2> QED BY <1>1, <1>5, <1>13, <2>1 DEF EnergyStarts
<1>16. PeaksAreRolling'
  <2>1. Span(current') = d /\ Span(current') =
            IF current'.type = "charge" THEN LongWindow ELSE ShortWindow
    BY <1>13 DEF Span
  <2>2. {Negated(a) : a \in B} = N \cup {Negated(avg)}
    <3> HIDE DEF A, B, avg
    <3> QED BY <1>10
  <2>3. IsPeak(current'.export, {Negated(a) : a \in B})
    BY <1>12, <2>2
  <2>4. current'.type = "charge" => IsPeak(current'.import, B)
    BY <1>10, <1>12, <1>13
  <2> HIDE DEF d, avg, N
  <2> QED BY <2>1, <2>3, <2>4 DEF PeaksAreRolling
<1>17. EnergyIsOfSession'
  <2> SUFFICES \E before \in 0..(MaxGap - 1) :
                   current'.energy = SumOfFirst(Energies(samples', before), Len(samples'))
    BY DEF EnergyIsOfSession, Energies
  <2>1. samples \in Seq(Readings) /\ Len(samples') = Len(samples) + 1
    BY <1>1 DEF StatsTypes
  <2>2. x.w = w /\ x.at = now
    OBVIOUS
  <2>3. CASE samples = <<>>
    <3>1. samples' = <<x>> /\ Len(samples') = 1
      BY <1>1, <2>3
    <3>2. current'.energy = Energy(w)
      BY <1>3, <1>13, <2>3 DEF EnergyStarts
    <3>3. PICK before \in 0..(MaxGap - 1) :
              Energy(x.w) = SumOfFirst(Energies(<<x>>, before), 1)
      BY <1>2, <2>2, EnergyOfFirst
    <3> QED BY <2>2, <3>1, <3>2, <3>3
  <2>4. CASE samples # <<>>
    <3>1. PICK before \in 0..(MaxGap - 1) :
              current.energy = SumOfFirst(Energies(samples, before), Len(samples))
      BY <2>4 DEF EnergyIsOfSession, Energies
    <3>2. lastGridAt = samples[Len(samples)].at /\ samples[Len(samples)].at <= now
      BY <2>1, <2>4 DEF EnergyStarts, ReadingsRise
    <3>3. SumOfFirst(Energies(samples', before), Len(samples) + 1) =
              SumOfFirst(Energies(samples, before), Len(samples)) + Energy(w)
      <4> HIDE DEF x
      <4> QED BY <1>1, <1>2, <2>1, <2>2, <2>4, <3>2, EnergyOfNext
    <3> QED BY <1>13, <2>1, <3>1, <3>3
  <2> QED BY <2>3, <2>4
<1>18. RingMatches'
  BY <1>6 DEF RingMatches
<1> QED BY <1>8, <1>14, <1>15, <1>16, <1>17, <1>18

LEMMA StatsStep == StatsInv /\ [Next]_vars => StatsInv'
<1> SUFFICES ASSUME StatsInv, [Next]_vars PROVE StatsInv'
  OBVIOUS
<1>1. ASSUME NEW w \in Powers, Reading(w) PROVE StatsInv'
  <2>1. CASE current = NoSession
    BY <1>1, <2>1, StatsStutter DEF Reading, RecordGridReading
  <2>2. CASE current # NoSession
    BY <1>1, <2>2, StatsReading DEF Reading
  <2> QED BY <2>1, <2>2
<1> QED BY <1>1, StatsStart, StatsEnd, StatsTick, StatsStutter DEF Next

LEMMA StatsInvariant == Spec => []StatsInv
BY StatsInit, StatsStep, PTL DEF Spec

(* The peaks /stats and the session reports show are those of the rolling     *)
(* averages of the session's own readings, whatever the sizes of ring and     *)
(* windows, and wherever readings are missing.                                *)
THEOREM PeaksAreOfReadings == Spec => []PeaksAreRolling
<1>1. StatsInv => PeaksAreRolling
  BY DEF StatsInv
<1> QED BY <1>1, StatsInvariant, PTL

(* Grid energy is what the session's readings account for, one by one: a gap  *)
(* of MaxGap or more, inside the session or before it, adds nothing.          *)
THEOREM NoEnergyFromGaps == Spec => []EnergyIsOfSession
<1>1. StatsInv => EnergyIsOfSession
  BY DEF StatsInv
<1> QED BY <1>1, StatsInvariant, PTL

===============================================================================
