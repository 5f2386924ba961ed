----------------------------- MODULE SessionStats -----------------------------
(* The statistics of charge and discharge sessions: StatsTracker with its     *)
(* ring buffer of grid samples, from which rolling averages and their peaks   *)
(* are taken, and the integration of grid power to energy.                    *)
(* A tick is the interval between grid readings, 10 s; a reading may be       *)
(* missing.  Callers begin and end sessions when they like.  Every operation  *)
(* is atomic under the tracker's lock.                                        *)
(* Averages are kept as a sum and a count, energies as watts times ticks.     *)
EXTENDS Integers, Sequences, FiniteSets

CONSTANTS
    RingSize,     \* ringSize: 30 entries
    LongWindow,   \* 5 min, for charge sessions
    ShortWindow,  \* 1 min, for discharge sessions
    MaxGap,       \* 60 s: longer intervals are not integrated
    Imports,      \* bound: the imports that are read,
    Exports,      \* and the exports, as positive numbers
    MaxTime       \* bound: how long the model runs

ASSUME StatsConfig ==
    /\ {RingSize, LongWindow, ShortWindow, MaxGap, MaxTime} \subseteq Nat \ {0}
    /\ Imports \cup Exports \subseteq Nat

VARIABLES
    now,
    current,      \* the session that is open, or NoSession
    last,         \* lastCharge and lastDischarge
    ring,         \* the ring buffer: entries, pos, count
    lastGridAt,   \* when the tracker took its last grid reading, or Unset
    samples       \* auxiliary: all readings of the open session, in order

vars == <<now, current, last, ring, lastGridAt, samples>>

Powers    == Imports \cup {-e : e \in Exports}
Types     == {"charge", "discharge"}
Unset     == -1
NoSession == [type |-> "none"]
None      == [sum |-> 0, n |-> 1]    \* a peak of zero

-------------------------------------------------------------------------------
(* RingBuffer: positions count from 0.                                        *)

EmptyRing == [entries |-> [i \in 0..(RingSize - 1) |-> [w |-> 0, at |-> 0]],
              pos |-> 0, count |-> 0]

Add(rb, w, at) ==
    [entries |-> [rb.entries EXCEPT ![rb.pos] = [w |-> w, at |-> at]],
     pos     |-> (rb.pos + 1) % RingSize,
     count   |-> IF rb.count < RingSize THEN rb.count + 1 ELSE rb.count]

\* The i-th entry looking back, 0 being the latest.
Back(rb, i) == rb.entries[(rb.pos - 1 - i + 2 * RingSize) % RingSize]

\* The sum of the first n of the values w, added up one by one.
SumOfFirst(w, n) ==
    LET sum[k \in 0..n] == IF k = 0 THEN 0 ELSE sum[k - 1] + w[k]
    IN  sum[n]

\* AvgOver: the loop ends at the first entry before the cutoff.
AvgOver(rb, d) ==
    LET cutoff == Back(rb, 0).at - d
        inside == {i \in 0..(rb.count - 1) :
                      \A j \in 0..i : Back(rb, j).at >= cutoff}
        n      == Cardinality(inside)
    IN  [sum |-> SumOfFirst([i \in 1..n |-> Back(rb, i - 1).w], n), n |-> n]

-------------------------------------------------------------------------------
(* StatsTracker                                                               *)

Finalized(session) ==
    IF session = NoSession THEN last
    ELSE [last EXCEPT ![session.type] = [session EXCEPT !.end = now]]

\* Mutant: a new session goes on with the samples of the one before.
StartSessionSameRing(type) ==
    /\ last' = Finalized(current)
    /\ current' = [type |-> type, start |-> now, end |-> Unset, energy |-> 0,
                   export |-> None, import |-> None]
    /\ samples' = <<>>
    /\ UNCHANGED <<now, ring, lastGridAt>>

StartSession(type) ==
    /\ last' = Finalized(current)
    /\ current' = [type |-> type, start |-> now, end |-> Unset, energy |-> 0,
                   export |-> None, import |-> None]
    /\ ring' = EmptyRing
    /\ samples' = <<>>
    /\ UNCHANGED <<now, lastGridAt>>

EndSession ==
    /\ last' = Finalized(current)
    /\ current' = NoSession
    /\ samples' = <<>>
    /\ UNCHANGED <<now, ring, lastGridAt>>

Exceeds(a, b) == a.sum * b.n > b.sum * a.n

Negated(avg) == [avg EXCEPT !.sum = -avg.sum]

\* Mutant: intervals of any length are integrated.
EnergyOfAnyGap(w) ==
    IF lastGridAt # Unset THEN w * (now - lastGridAt) ELSE 0

\* The energy since the last reading, unless that is too long ago.
Energy(w) ==
    IF lastGridAt # Unset /\ now - lastGridAt > 0 /\ now - lastGridAt < MaxGap
    THEN w * (now - lastGridAt)
    ELSE 0

\* Export peaks of both types and import peaks of charge sessions.
Peaks(session, rb) ==
    LET avg == AvgOver(rb, IF session.type = "charge" THEN LongWindow ELSE ShortWindow)
    IN  [session EXCEPT
            !.export = IF avg.sum < 0 /\ Exceeds(Negated(avg), @) THEN Negated(avg) ELSE @,
            !.import = IF session.type = "charge" /\ Exceeds(avg, @) THEN avg ELSE @]

RecordGridReading(w) ==
    IF current = NoSession
    THEN UNCHANGED vars
    ELSE /\ lastGridAt' = now
         /\ ring' = Add(ring, w, now)
         /\ current' = Peaks([current EXCEPT !.energy = @ + Energy(w)], ring')
         /\ samples' = Append(samples, [w |-> w, at |-> now])
         /\ UNCHANGED <<now, last>>

-------------------------------------------------------------------------------

\* One grid reading at most per tick.
Reading(w) == lastGridAt # now /\ RecordGridReading(w)

Tick ==
    /\ now < MaxTime
    /\ now' = now + 1
    /\ UNCHANGED <<current, last, ring, lastGridAt, samples>>

Init ==
    /\ now = 0
    /\ current = NoSession
    /\ last = [t \in Types |-> NoSession]
    /\ ring = EmptyRing
    /\ lastGridAt = Unset
    /\ samples = <<>>

Next ==
    \/ \E type \in Types : StartSession(type)
    \/ EndSession
    \/ \E w \in Powers : Reading(w)
    \/ Tick

Spec == Init /\ [][Next]_vars

===============================================================================
