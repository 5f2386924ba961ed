----------------------------- MODULE RegisterBank -----------------------------
(* What the callers of the Insight client may rely on: every inverter has a   *)
(* register; an operation names one inverter and touches only that one; an    *)
(* answer "ok" means that it has been carried out, an error that it may or    *)
(* may not have been; an operation whose caller gave up may still be carried  *)
(* out later.  There are no connections, no lock and no retries here.         *)
CONSTANTS Callers, Units, Values, Slots, NoSlot

VARIABLES
    reg,     \* the register of each inverter
    call,    \* the operation each caller waits for
    op,      \* what each operation is to do
    answer   \* of each operation: free (no operation), open, ok, error

vars == <<reg, call, op, answer>>

Operations == [kind : {"read"}, unit : Units]
                  \cup [kind : {"write"}, unit : Units, value : Values]

Init ==
    /\ reg \in [Units -> Values]
    /\ call = [p \in Callers |-> NoSlot]
    /\ op \in [Slots -> Operations]
    /\ answer = [o \in Slots |-> "free"]

Awaited(o) == \E p \in Callers : call[p] = o

Call(p, o, what) ==
    /\ call[p] = NoSlot
    /\ answer[o] = "free"
    /\ call' = [call EXCEPT ![p] = o]
    /\ op' = [op EXCEPT ![o] = what]
    /\ answer' = [answer EXCEPT ![o] = "open"]
    /\ UNCHANGED reg

CarriedOut(o) ==
    IF op[o].kind = "read" THEN reg' = reg
    ELSE reg' = [reg EXCEPT ![op[o].unit] = op[o].value]

End(o, result) == answer' = [answer EXCEPT ![o] = IF Awaited(o) THEN result ELSE "free"]

Attempt(o) ==
    /\ answer[o] = "open"
    /\ \/ CarriedOut(o) /\ End(o, "ok")
       \/ (CarriedOut(o) \/ UNCHANGED reg) /\ (UNCHANGED answer \/ End(o, "error"))
    /\ UNCHANGED <<call, op>>

Return(p) ==
    /\ \E o \in Slots : /\ call[p] = o
                        /\ answer[o] \in {"ok", "error"}
                        /\ answer' = [answer EXCEPT ![o] = "free"]
    /\ call' = [call EXCEPT ![p] = NoSlot]
    /\ UNCHANGED <<reg, op>>

GiveUp(p) ==
    /\ \E o \in Slots :
          /\ call[p] = o
          /\ answer' = [answer EXCEPT ![o] = IF @ = "open" THEN "open" ELSE "free"]
    /\ call' = [call EXCEPT ![p] = NoSlot]
    /\ UNCHANGED <<reg, op>>

Next ==
    \/ \E p \in Callers : Return(p) \/ GiveUp(p)
    \/ \E p \in Callers, o \in Slots, what \in Operations : Call(p, o, what)
    \/ \E o \in Slots : Attempt(o)

Spec == Init /\ [][Next]_vars
===============================================================================
