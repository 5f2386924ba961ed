----------------------------- MODULE InsightClient -----------------------------
(* The Modbus client of the Insight gateway.  ReadRegister and WriteRegister  *)
(* hand the operation to a goroutine of its own, which takes the mutex, and   *)
(* wait for its answer or for the operation timeout; after a timeout the      *)
(* goroutine goes on.  The gateway has a port for reads and one for writes;   *)
(* for each the client keeps a handler (the connection, with the unit id of   *)
(* the next request) and a modbus.Client made from a handler.                 *)
(* A request in flight is a goroutine in "send": it may stay there as long as *)
(* its caller's patience, or longer.  Timeouts and waiting times are not      *)
(* measured, except for the gap between writes.  conditionBus has no effect   *)
(* on what is modelled and is left out.                                       *)
EXTENDS Integers

CONSTANTS
    Callers,   \* the goroutines that use the client
    Units,     \* the inverters, one register each
    Values,    \* what a register may hold
    Slots,     \* bounds the operations that are under way at a time
    NoSlot,
    MinGap,    \* insight.min_gap_ms, in ticks
    Events     \* what may go wrong, see below

ASSUME ClientAssumption ==
    /\ NoSlot \notin Slots
    /\ MinGap \in Nat
    /\ Units # {}
    /\ {"nil", "handler"} \cap Units = {}
    \* drop: a connection error; reject: another error; refuse: no reconnection
    \* is possible; late: the operation timeout expires.
    /\ Events \subseteq {"drop", "reject", "refuse", "late"}

VARIABLES
    reg,          \* the register of each inverter
    \* The fields of the Client.
    bound,        \* which handler the modbus.Client of each port was made from:
                  \* "nil" (there is none), "handler" (the one of this port), or
                  \* one that was replaced when its unit id was this unit
    holder,       \* the operation whose goroutine holds c.mu
    stuck,
    lastWriteAt,  \* ticks since then, up to MinGap
    \* The calls and the goroutines.
    call,         \* the operation each caller waits for
    op,           \* what each operation is to do
    pc,           \* where its goroutine is
    attempt,      \* the loop counter of the goroutine that holds c.mu
    \* Auxiliary.
    reached,      \* the unit that last received a request of the operation
    refused,      \* the ports whose last reconnection after an error failed
    sinceWrite    \* ticks since the last write request ended, up to MinGap

client   == <<bound, stuck, lastWriteAt>>
routines == <<call, op, pc>>
vars     == <<reg, client, holder, routines, attempt, reached, refused, sinceWrite>>

Ports      == {"read", "write"}
Operations == [kind : {"read"}, unit : Units]
                  \cup [kind : {"write"}, unit : Units, value : Values]
SomeRead   == CHOOSE what \in Operations : what.kind = "read"
Open       == {"lock", "recover", "send"}

Init ==
    /\ reg \in [Units -> Values]
    /\ bound = [k \in Ports |-> "handler"]
    /\ holder = NoSlot
    /\ stuck = FALSE
    /\ lastWriteAt = MinGap
    /\ call = [p \in Callers |-> NoSlot]
    /\ op = [o \in Slots |-> SomeRead]
    /\ pc = [o \in Slots |-> "free"]
    /\ attempt = 0
    /\ reached = [o \in Slots |-> SomeRead.unit]
    /\ refused = {}
    /\ sinceWrite = MinGap
-------------------------------------------------------------------------------
(* The caller's side                                                          *)

Call(p, o, what) ==
    /\ call[p] = NoSlot
    /\ pc[o] = "free"
    /\ call' = [call EXCEPT ![p] = o]
    /\ op' = [op EXCEPT ![o] = what]
    /\ pc' = [pc EXCEPT ![o] = "lock"]
    /\ reached' = [reached EXCEPT ![o] = what.unit]
    /\ UNCHANGED <<reg, client, holder, attempt, refused, sinceWrite>>

Return(p) ==
    /\ \E o \in Slots : /\ call[p] = o
                        /\ pc[o] \in {"ok", "error"}
                        /\ pc' = [pc EXCEPT ![o] = "free"]
    /\ call' = [call EXCEPT ![p] = NoSlot]
    /\ UNCHANGED <<reg, client, holder, op, attempt, reached, refused, sinceWrite>>

(* select may pick the timer although the answer is there too.                *)
Timeout(p) ==
    /\ "late" \in Events
    /\ \E o \in Slots :
          /\ call[p] = o
          /\ pc' = [pc EXCEPT ![o] = IF @ \in Open THEN @ ELSE "free"]
    /\ call' = [call EXCEPT ![p] = NoSlot]
    /\ stuck' = TRUE
    /\ UNCHANGED <<reg, bound, lastWriteAt, holder, op, attempt, reached, refused,
                   sinceWrite>>
-------------------------------------------------------------------------------
(* The goroutine of an operation                                              *)

(* Any goroutine that waits may get the mutex; recoverIfStuck then drops the  *)
(* handlers and the clients, closing nothing.                                 *)
Lock(o) ==
    /\ pc[o] = "lock"
    /\ holder = NoSlot
    /\ holder' = o
    /\ attempt' = 0
    /\ stuck' = FALSE
    /\ IF stuck
       THEN /\ bound' = [k \in Ports |-> "nil"]
            /\ pc' = [pc EXCEPT ![o] = "recover"]
       ELSE /\ pc' = [pc EXCEPT ![o] = "send"]
            /\ UNCHANGED bound
    /\ UNCHANGED <<reg, lastWriteAt, call, op, reached, refused, sinceWrite>>

(* connectLocked: the read port first; on an error the operation goes on.     *)
Recover(o) ==
    /\ pc[o] = "recover"
    /\ \/ bound' = [k \in Ports |-> "handler"] /\ refused' = {}
       \/ "refuse" \in Events /\ UNCHANGED <<bound, refused>>
       \/ /\ "refuse" \in Events
          /\ bound' = [bound EXCEPT !["read"] = "handler"]
          /\ refused' = refused \ {"read"}
    /\ pc' = [pc EXCEPT ![o] = "send"]
    /\ UNCHANGED <<reg, stuck, lastWriteAt, holder, call, op, attempt, reached, sinceWrite>>

(* The goroutine ends; nobody may be waiting for its answer any more.         *)
Answer(o, result) ==
    /\ pc' = [pc EXCEPT ![o] = IF \E p \in Callers : call[p] = o THEN result ELSE "free"]
    /\ holder' = NoSlot
    /\ UNCHANGED attempt

(* The unit a request of o goes to: the handler of the port gets the id, the  *)
(* client sends with the handler it was made from.                            *)
Reaches(o) == IF bound[op[o].kind] = "handler" THEN op[o].unit ELSE bound[op[o].kind]

(* Mutant: waitForGap is called before the loop, not in it.                   *)
RequestGapOnce(o) ==
    /\ pc[o] = "send"
    /\ bound[op[o].kind] # "nil"
    /\ op[o].kind = "write" => lastWriteAt >= MinGap \/ attempt > 0
    /\ reached' = [reached EXCEPT ![o] = Reaches(o)]
    /\ IF op[o].kind = "write" THEN lastWriteAt' = 0 /\ sinceWrite' = 0
       ELSE UNCHANGED <<lastWriteAt, sinceWrite>>
    /\ UNCHANGED <<stuck, call, op>>

(* waitForGap has returned, a request goes out and its answer or error comes. *)
Request(o) ==
    /\ pc[o] = "send"
    /\ bound[op[o].kind] # "nil"
    /\ op[o].kind = "write" => lastWriteAt >= MinGap
    /\ reached' = [reached EXCEPT ![o] = Reaches(o)]
    /\ IF op[o].kind = "write" THEN lastWriteAt' = 0 /\ sinceWrite' = 0
       ELSE UNCHANGED <<lastWriteAt, sinceWrite>>
    /\ UNCHANGED <<stuck, call, op>>

TakesEffect(o) ==
    IF op[o].kind = "read" THEN UNCHANGED reg
    ELSE reg' = [reg EXCEPT ![Reaches(o)] = op[o].value]

Succeeds(o) ==
    /\ Request(o)
    /\ TakesEffect(o)
    /\ Answer(o, "ok")
    /\ UNCHANGED <<bound, refused>>

Rejected(o) ==
    /\ "reject" \in Events
    /\ Request(o)
    /\ Answer(o, "error")
    /\ UNCHANGED <<reg, bound, refused>>

(* Mutants of the loop: one attempt too many; no limit; a second failure is   *)
(* taken for a success.                                                       *)
RetryTwice(o) ==
    IF attempt <= 1
    THEN attempt' = attempt + 1 /\ UNCHANGED <<pc, holder>>
    ELSE Answer(o, "error")

RetryForEver(o) == attempt' = 1 /\ UNCHANGED <<pc, holder>>

RetryThenOk(o) ==
    IF attempt = 0
    THEN attempt' = 1 /\ UNCHANGED <<pc, holder>>
    ELSE Answer(o, "ok")

RetryOrGiveUp(o) ==
    IF attempt = 0
    THEN attempt' = 1 /\ UNCHANGED <<pc, holder>>
    ELSE Answer(o, "error")

(* Mutant: the handler is replaced, the client is not.                        *)
ReconnectedHandlerOnly(o) ==
    /\ bound' = [bound EXCEPT ![op[o].kind] = IF @ = "handler" THEN op[o].unit ELSE @]
    /\ refused' = refused \ {op[o].kind}

Reconnected(o) ==
    /\ bound' = [bound EXCEPT ![op[o].kind] = "handler"]
    /\ refused' = refused \ {op[o].kind}

(* A connection error, the request carried out or not: reconnect the port.    *)
(* connectReadLocked and connectWriteLocked replace the handler before they   *)
(* know whether it connects, and the client only if it does; the client of a  *)
(* closed handler reconnects by itself.                                       *)
Dropped(o) ==
    /\ "drop" \in Events
    /\ Request(o)
    /\ TakesEffect(o) \/ UNCHANGED reg
    /\ Reconnected(o)
    /\ RetryOrGiveUp(o)

DroppedForGood(o) ==
    /\ {"drop", "refuse"} \subseteq Events
    /\ Request(o)
    /\ TakesEffect(o) \/ UNCHANGED reg
    /\ bound' = [bound EXCEPT ![op[o].kind] = IF @ = "handler" THEN op[o].unit ELSE @]
    /\ refused' = refused \cup {op[o].kind}
    /\ Answer(o, "error")

(* A call through a nil client ends the process; main connects anew.          *)
Panics(o) ==
    /\ pc[o] = "send"
    /\ bound[op[o].kind] = "nil"
    /\ bound' = [k \in Ports |-> "handler"]
    /\ holder' = NoSlot
    /\ stuck' = FALSE
    /\ lastWriteAt' = MinGap
    /\ call' = [p \in Callers |-> NoSlot]
    /\ pc' = [x \in Slots |-> "free"]
    /\ attempt' = 0
    /\ refused' = {}
    /\ UNCHANGED <<reg, op, reached, sinceWrite>>

Tick ==
    /\ lastWriteAt < MinGap \/ sinceWrite < MinGap
    /\ lastWriteAt' = IF lastWriteAt < MinGap THEN lastWriteAt + 1 ELSE MinGap
    /\ sinceWrite' = IF sinceWrite < MinGap THEN sinceWrite + 1 ELSE MinGap
    /\ UNCHANGED <<reg, bound, stuck, holder, routines, attempt, reached, refused>>

Step(o) ==
    \/ Recover(o)
    \/ Succeeds(o) \/ Rejected(o) \/ Dropped(o) \/ DroppedForGood(o) \/ Panics(o)

Next ==
    \/ \E p \in Callers, o \in Slots, what \in Operations : Call(p, o, what)
    \/ \E p \in Callers : Return(p) \/ Timeout(p)
    \/ \E o \in Slots : Lock(o) \/ Step(o)
    \/ Tick

Spec == Init /\ [][Next]_vars

(* A request ends: the handlers have a timeout.  Go's mutex is fair to those  *)
(* who wait for it, and time passes.                                          *)
Fairness ==
    /\ \A o \in Slots : SF_vars(Lock(o)) /\ WF_vars(Step(o))
    /\ WF_vars(Tick)

LiveSpec == Spec /\ Fairness
-------------------------------------------------------------------------------
TypeOK ==
    /\ reg \in [Units -> Values]
    /\ bound \in [Ports -> {"nil", "handler"} \cup Units]
    /\ holder \in Slots \cup {NoSlot}
    /\ stuck \in BOOLEAN
    /\ lastWriteAt \in 0..MinGap
    /\ call \in [Callers -> Slots \cup {NoSlot}]
    /\ op \in [Slots -> Operations]
    /\ pc \in [Slots -> Open \cup {"free", "ok", "error"}]
    /\ attempt \in 0..1
    /\ reached \in [Slots -> Units]
    /\ refused \subseteq Ports
    /\ sinceWrite \in 0..MinGap

RequestSent(o) ==
    /\ pc[o] = "send" /\ bound[op[o].kind] # "nil"
    /\ pc'[o] # "send" \/ attempt' # attempt

(* client.go: "WriteRegister writes a single holding register to an inverter" *)
(* - the one it is given: through all reconnections, retries, recoveries and  *)
(* restarts, every request of an operation goes to the unit the operation     *)
(* names, unless the last reconnection of its port has been refused.          *)
ReachesItsUnit ==
    [][\A o \in Slots :
          RequestSent(o) => reached'[o] = op[o].unit \/ op[o].kind \in refused]_vars

(* README.md: "2-second minimum gap between writes": from the end of a write  *)
(* request to the next, whichever goroutine sends it, retries included.       *)
GapKept ==
    [][\A o \in Slots :
          RequestSent(o) /\ op[o].kind = "write" => sinceWrite >= MinGap]_vars

(* client.go: after the operation timeout "the operation is abandoned": no    *)
(* register is written for a caller that has been told of the timeout.        *)
AbandonedIsOver == [][reg' # reg => \E p \in Callers : call[p] = holder]_vars

(* client.go: the goroutine of a timed-out operation "still holds c.mu but    *)
(* will eventually return": every operation that waits for the mutex gets it  *)
(* and ends.                                                                  *)
OperationsEnd == \A o \in Slots : pc[o] = "lock" ~> pc[o] \notin Open

(* The client implements the register bank.                                   *)
Bank == INSTANCE RegisterBank WITH
            answer <- [o \in Slots |-> IF pc[o] \in Open THEN "open" ELSE pc[o]]

(* Every operation touches only the unit it names and, when its caller is     *)
(* told that it succeeded, has been carried out, whatever was retried.        *)
ImplementsBank == Bank!Spec
===============================================================================
