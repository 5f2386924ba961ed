----------------------------- MODULE CommandQueue -----------------------------
(* What the operator may rely on when sending commands: they are carried out  *)
(* one by one, in the order in which they were sent and with none left out.   *)
(* When the bot starts over it goes back to the first command that it has not *)
(* put behind it, and repeats from there.  There are no polls, offsets,       *)
(* batches or lost answers here.                                              *)
EXTENDS Integers

VARIABLES
    sent,     \* how many commands have been sent
    next,     \* the one to carry out next
    behind,   \* commands before this one are never carried out again
    done      \* the commands that have been carried out, once or more often

vars == <<sent, next, behind, done>>

Init ==
    /\ sent = 0
    /\ next = 1
    /\ behind = 1
    /\ done = {}

Send ==
    /\ sent' = sent + 1
    /\ UNCHANGED <<next, behind, done>>

CarryOut ==
    /\ next <= sent
    /\ next' = next + 1
    /\ done' = done \cup {next}
    /\ UNCHANGED <<sent, behind>>

PutBehind ==
    /\ behind' = next
    /\ UNCHANGED <<sent, next, done>>

StartOver ==
    /\ next' = behind
    /\ UNCHANGED <<sent, behind, done>>

Next == Send \/ CarryOut \/ PutBehind \/ StartOver

Spec == Init /\ [][Next]_vars

===============================================================================
