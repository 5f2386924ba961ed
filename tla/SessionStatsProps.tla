-------------------------- MODULE SessionStatsProps ---------------------------
(* What the figures of a session should be.                                   *)
EXTENDS SessionStats

\* Of the readings s, those of the last d ticks up to the k-th, as far as a ring
\* buffer of RingSize entries can hold them.
Window(s, k, d) ==
    {i \in 1..k : i > k - RingSize /\ s[i].at >= s[k].at - d}

\* Their average, from the totals of all readings up to the window's ends.
Average(s, k, d) ==
    LET total(m) == SumOfFirst([i \in 1..m |-> s[i].w], m)
        n        == Cardinality(Window(s, k, d))
    IN  [sum |-> total(k) - total(k - n), n |-> n]

\* peak is the highest of the averages that is above zero, or zero.
IsPeak(peak, averages) ==
    /\ \A a \in averages : ~Exceeds(a, peak)
    /\ peak = None \/ peak \in averages

\* The peaks of the open session are those of the averages over its own
\* readings, however often the ring has wrapped around and whatever it held
\* when the session began: the exports over 5 min or 1 min, the imports over
\* 5 min of a charge session.
PeaksAreRolling ==
    current # NoSession =>
        LET d == IF current.type = "charge" THEN LongWindow ELSE ShortWindow
            averages == {Average(samples, k, d) : k \in DOMAIN samples}
        IN  /\ IsPeak(current.export, {Negated(a) : a \in averages})
            /\ current.type = "charge" => IsPeak(current.import, averages)

\* What the k-th of the readings s adds to the energy: its power over the time
\* since the reading before it, or nothing if that is too long ago.  The first
\* one has been preceded by a reading of an earlier session, before ticks ago.
EnergyOf(s, k, before) ==
    LET interval == IF k = 1 THEN before ELSE s[k].at - s[k - 1].at
    IN  IF interval < MaxGap THEN s[k].w * interval ELSE 0

\* The grid energy of a session is the sum over its own readings, in which no
\* gap of MaxGap or more has a part: neither one inside the session nor the time
\* between sessions.  A shorter one before the first reading does count.
EnergyIsOfSession ==
    current # NoSession /\ samples # <<>> =>
        \E before \in 0..(MaxGap - 1) :
            LET energies == [k \in 1..Len(samples) |-> EnergyOf(samples, k, before)]
            IN  current.energy = SumOfFirst(energies, Len(samples))

===============================================================================
