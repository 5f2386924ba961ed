-------------------------- MODULE InsightClient_proofs --------------------------
(* Proofs about the Insight client: every request goes to the unit that it    *)
(* names, unless its port has been refused a reconnection; when none is       *)
(* refused, the gap between writes is kept and the client implements the      *)
(* register bank.                                                             *)
EXTENDS InsightClient, TLAPS

NoRefusal == "refuse" \notin Events

OnBus(o) == pc[o] \in {"recover", "send"}

(* The mutex: the goroutine that holds it, and no other, uses the connections.*)
MutexInv == \A o \in Slots : OnBus(o) <=> holder = o

(* A client outlives its handler only after a refused reconnection.           *)
StrayInv == \A k \in Ports : bound[k] \in Units => k \in refused

ClientInv == TypeOK /\ MutexInv /\ StrayInv

(* Without refusals none does, and there is none only while the recovery of a *)
(* stuck client is making it.                                                 *)
PairInv ==
    \A k \in Ports :
        /\ bound[k] \in {"nil", "handler"}
        /\ bound[k] = "nil" => \E o \in Slots : pc[o] = "recover"

BusInv == ClientInv /\ PairInv

GapInv == lastWriteAt <= sinceWrite

-------------------------------------------------------------------------------
(* Types                                                                      *)

LEMMA SomeReadIsAnOperation == SomeRead \in Operations
<1>1. PICK u \in Units : TRUE
  BY ClientAssumption
<1>2. [kind |-> "read", unit |-> u] \in Operations
  BY <1>1 DEF Operations
<1>3. \E what \in Operations : what.kind = "read"
  BY <1>2
<1> QED
  BY <1>3 DEF SomeRead

LEMMA OperationFacts ==
    ASSUME NEW what \in Operations
    PROVE  /\ what.unit \in Units
           /\ what.kind \in Ports
           /\ what.kind # "read" => what.kind = "write" /\ what.value \in Values
  BY DEF Operations, Ports

LEMMA InitTypeOK == Init => TypeOK
<1> SUFFICES ASSUME Init PROVE TypeOK
  OBVIOUS
<1>1. SomeRead \in Operations /\ SomeRead.unit \in Units
  BY SomeReadIsAnOperation, OperationFacts
<1>2. \A o \in Slots : /\ op[o] = SomeRead /\ pc[o] = "free"
                      /\ reached[o] = SomeRead.unit
  BY DEF Init
<1>3. /\ op \in [Slots -> Operations]
      /\ pc \in [Slots -> Open \cup {"free", "ok", "error"}]
      /\ reached \in [Slots -> Units]
  BY <1>1, <1>2 DEF Init
<1>4. /\ bound \in [Ports -> {"nil", "handler"} \cup Units]
      /\ lastWriteAt \in 0..MinGap /\ sinceWrite \in 0..MinGap
  BY ClientAssumption DEF Init
<1>5. call \in [Callers -> Slots \cup {NoSlot}]
  BY DEF Init
<1>6. holder \in Slots \cup {NoSlot} /\ stuck \in BOOLEAN
  BY DEF Init
<1>7. attempt \in 0..1
  BY DEF Init
<1>8. reg \in [Units -> Values] /\ refused \subseteq Ports
  BY DEF Init
<1> QED
  BY <1>3, <1>4, <1>5, <1>6, <1>7, <1>8 DEF TypeOK

(* A request goes to an inverter, and what it changes keeps its type.         *)
LEMMA RequestTypeOK ==
    ASSUME TypeOK, NEW o \in Slots, Request(o)
    PROVE  /\ op[o] \in Operations
           /\ bound[op[o].kind] \in {"handler"} \cup Units
           /\ Reaches(o) \in Units
           /\ reached' \in [Slots -> Units]
           /\ lastWriteAt' \in 0..MinGap
           /\ sinceWrite' \in 0..MinGap
           /\ UNCHANGED <<stuck, call, op>>
           /\ TakesEffect(o) \/ UNCHANGED reg => reg' \in [Units -> Values]
<1>1. op[o] \in Operations /\ op[o].unit \in Units /\ op[o].kind \in Ports
  BY OperationFacts DEF TypeOK
<1>2. bound[op[o].kind] \in {"handler"} \cup Units
  BY <1>1 DEF TypeOK, Request
<1>3. Reaches(o) \in Units
  BY <1>1, <1>2 DEF Reaches
<1>4. /\ reached' \in [Slots -> Units]
      /\ lastWriteAt' \in 0..MinGap
      /\ sinceWrite' \in 0..MinGap
      /\ UNCHANGED <<stuck, call, op>>
  BY <1>3, ClientAssumption DEF TypeOK, Request
<1>5. TakesEffect(o) \/ UNCHANGED reg => reg' \in [Units -> Values]
  BY <1>1, <1>3, OperationFacts DEF TypeOK, TakesEffect
<1> QED
  BY <1>1, <1>2, <1>3, <1>4, <1>5

LEMMA AnswerTypeOK ==
    ASSUME TypeOK, NEW o \in Slots, NEW result \in {"ok", "error"}, Answer(o, result)
    PROVE  /\ pc' \in [Slots -> Open \cup {"free", "ok", "error"}]
           /\ holder' \in Slots \cup {NoSlot}
           /\ attempt' \in 0..1
  BY DEF TypeOK, Answer, Open

LEMMA NextTypeOK == TypeOK /\ [Next]_vars => TypeOK'
<1> SUFFICES ASSUME TypeOK, [Next]_vars PROVE TypeOK'
  OBVIOUS
<1> USE DEF TypeOK
<1>1. ASSUME NEW p \in Callers, NEW o \in Slots, NEW what \in Operations,
             Call(p, o, what)
      PROVE  TypeOK'
  <2>1. what.unit \in Units
    BY <1>1, OperationFacts
  <2>2. /\ call' \in [Callers -> Slots \cup {NoSlot}]
        /\ op' \in [Slots -> Operations]
    BY <1>1 DEF Call
  <2>3. /\ pc' \in [Slots -> Open \cup {"free", "ok", "error"}]
        /\ reached' \in [Slots -> Units]
    BY <1>1, <2>1 DEF Call, Open
  <2> QED
    BY <1>1, <2>2, <2>3 DEF Call, client
<1>2. ASSUME NEW p \in Callers, Return(p) PROVE TypeOK'
  <2>1. PICK o \in Slots : pc' = [pc EXCEPT ![o] = "free"]
    BY <1>2 DEF Return
  <2>2. pc' \in [Slots -> Open \cup {"free", "ok", "error"}]
    BY <2>1
  <2>3. call' \in [Callers -> Slots \cup {NoSlot}]
    BY <1>2 DEF Return
  <2> QED
    BY <1>2, <2>2, <2>3 DEF Return, client
<1>3. ASSUME NEW p \in Callers, Timeout(p) PROVE TypeOK'
  <2>1. PICK o \in Slots :
            pc' = [pc EXCEPT ![o] = IF @ \in Open THEN @ ELSE "free"]
    BY <1>3 DEF Timeout
  <2>2. pc' \in [Slots -> Open \cup {"free", "ok", "error"}]
    BY <2>1
  <2>3. call' \in [Callers -> Slots \cup {NoSlot}]
    BY <1>3 DEF Timeout
  <2> QED
    BY <1>3, <2>2, <2>3 DEF Timeout
<1>4. ASSUME NEW o \in Slots, Lock(o) PROVE TypeOK'
  <2>1. pc' \in [Slots -> Open \cup {"free", "ok", "error"}]
    BY <1>4 DEF Lock, Open
  <2>2. bound' \in [Ports -> {"nil", "handler"} \cup Units]
    BY <1>4 DEF Lock
  <2>3. holder' \in Slots \cup {NoSlot} /\ stuck' \in BOOLEAN
    BY <1>4 DEF Lock
  <2>4. attempt' \in 0..1
    BY <1>4 DEF Lock
  <2> QED
    BY <1>4, <2>1, <2>2, <2>3, <2>4 DEF Lock
<1>5. ASSUME NEW o \in Slots, Recover(o) PROVE TypeOK'
  <2>1. pc' \in [Slots -> Open \cup {"free", "ok", "error"}]
    BY <1>5 DEF Recover, Open
  <2>2. bound' \in [Ports -> {"nil", "handler"} \cup Units] /\ refused' \subseteq Ports
    BY <1>5 DEF Recover
  <2> QED
    BY <1>5, <2>1, <2>2 DEF Recover
<1>6. ASSUME NEW o \in Slots, Succeeds(o) PROVE TypeOK'
  <2>1. Request(o) /\ TakesEffect(o) /\ Answer(o, "ok") /\ UNCHANGED <<bound, refused>>
    BY <1>6 DEF Succeeds
  <2> QED
    BY <2>1, RequestTypeOK, AnswerTypeOK
<1>7. ASSUME NEW o \in Slots, Rejected(o) PROVE TypeOK'
  <2>1. Request(o) /\ Answer(o, "error") /\ UNCHANGED <<reg, bound, refused>>
    BY <1>7 DEF Rejected
  <2> QED
    BY <2>1, RequestTypeOK, AnswerTypeOK
<1>8. ASSUME NEW o \in Slots, Dropped(o) PROVE TypeOK'
  <2>1. Request(o) /\ (TakesEffect(o) \/ UNCHANGED reg) /\ Reconnected(o)
        /\ RetryOrGiveUp(o)
    BY <1>8 DEF Dropped
  <2>2. bound' \in [Ports -> {"nil", "handler"} \cup Units] /\ refused' \subseteq Ports
    BY <2>1 DEF Reconnected
  <2>3. /\ pc' \in [Slots -> Open \cup {"free", "ok", "error"}]
        /\ holder' \in Slots \cup {NoSlot}
        /\ attempt' \in 0..1
    BY <2>1, AnswerTypeOK DEF RetryOrGiveUp
  <2> QED
    BY <2>1, <2>2, <2>3, RequestTypeOK
<1>9. ASSUME NEW o \in Slots, DroppedForGood(o) PROVE TypeOK'
  <2>1. /\ Request(o) /\ (TakesEffect(o) \/ UNCHANGED reg) /\ Answer(o, "error")
        /\ bound' = [bound EXCEPT ![op[o].kind] =
                        IF @ = "handler" THEN op[o].unit ELSE @]
        /\ refused' = refused \cup {op[o].kind}
    BY <1>9 DEF DroppedForGood
  <2>2. bound' \in [Ports -> {"nil", "handler"} \cup Units] /\ refused' \subseteq Ports
    BY <2>1, OperationFacts
  <2> QED
    BY <2>1, <2>2, RequestTypeOK, AnswerTypeOK
<1>10. ASSUME NEW o \in Slots, Panics(o) PROVE TypeOK'
  <2>1. /\ bound' \in [Ports -> {"nil", "handler"} \cup Units]
        /\ call' \in [Callers -> Slots \cup {NoSlot}]
        /\ pc' \in [Slots -> Open \cup {"free", "ok", "error"}]
    BY <1>10 DEF Panics
  <2>2. lastWriteAt' \in 0..MinGap
    BY <1>10, ClientAssumption DEF Panics
  <2>3. stuck' \in BOOLEAN
    BY <1>10 DEF Panics
  <2>4. attempt' \in 0..1
    BY <1>10 DEF Panics
  <2>5. holder' \in Slots \cup {NoSlot}
    BY <1>10 DEF Panics
  <2>6. UNCHANGED <<reg, op, reached, sinceWrite>> /\ refused' = {}
    BY <1>10 DEF Panics
  <2> QED
    BY <2>1, <2>2, <2>3, <2>4, <2>5, <2>6
<1>11. CASE Tick
  BY <1>11, ClientAssumption DEF Tick, routines
<1>12. CASE UNCHANGED vars
  BY <1>12 DEF vars, client, routines
<1> HIDE DEF TypeOK
<1> QED
  BY <1>1, <1>2, <1>3, <1>4, <1>5, <1>6, <1>7, <1>8, <1>9, <1>10, <1>11, <1>12
  DEF Next, Step
(* Types hold whatever goes wrong: in particular every request reaches some   *)
(* inverter, and no operation is tried more than twice.                       *)
THEOREM ClientTypes == Spec => []TypeOK
<1> QED
  BY InitTypeOK, NextTypeOK, PTL DEF Spec
-------------------------------------------------------------------------------
(* The mutex and the connections                                              *)

LEMMA InitBus == Init => BusInv /\ GapInv
<1> SUFFICES ASSUME Init PROVE BusInv /\ GapInv
  OBVIOUS
<1>1. TypeOK
  BY InitTypeOK
<1>2. MutexInv
  BY ClientAssumption DEF Init, MutexInv, OnBus
<1>3. StrayInv /\ PairInv
  BY ClientAssumption DEF Init, StrayInv, PairInv
<1>4. GapInv
  BY ClientAssumption DEF Init, GapInv
<1> QED
  BY <1>1, <1>2, <1>3, <1>4 DEF BusInv, ClientInv

(* What Answer does to the mutex.                                             *)
LEMMA AnswerReleases ==
    ASSUME TypeOK, MutexInv, NEW o \in Slots, NEW result \in {"ok", "error"},
           pc[o] = "send", Answer(o, result)
    PROVE  MutexInv'
<1>1. /\ pc' = [pc EXCEPT ![o] = pc'[o]]
      /\ pc'[o] \in {result, "free"}
      /\ holder' = NoSlot
  BY DEF Answer, TypeOK
<1>2. holder = o
  BY DEF MutexInv, OnBus
<1>3. \A x \in Slots : ~OnBus(x)'
  BY <1>1, <1>2 DEF MutexInv, OnBus, TypeOK
<1> QED
  BY <1>1, <1>3, ClientAssumption DEF MutexInv

LEMMA NextMutex == TypeOK /\ MutexInv /\ [Next]_vars => MutexInv'
<1> SUFFICES ASSUME TypeOK, MutexInv, [Next]_vars PROVE MutexInv'
  OBVIOUS
<1>1. ASSUME NEW p \in Callers, NEW o \in Slots, NEW what \in Operations,
             Call(p, o, what)
      PROVE  MutexInv'
  BY <1>1 DEF Call, MutexInv, OnBus, TypeOK
<1>2. ASSUME NEW p \in Callers, Return(p) PROVE MutexInv'
  <2>1. PICK o \in Slots : /\ pc[o] \in {"ok", "error"}
                           /\ pc' = [pc EXCEPT ![o] = "free"]
    BY <1>2 DEF Return
  <2> QED
    BY <1>2, <2>1 DEF Return, MutexInv, OnBus, TypeOK
<1>3. ASSUME NEW p \in Callers, Timeout(p) PROVE MutexInv'
  <2>1. PICK o \in Slots :
            pc' = [pc EXCEPT ![o] = IF @ \in Open THEN @ ELSE "free"]
    BY <1>3 DEF Timeout
  <2>2. \A x \in Slots : OnBus(x)' <=> OnBus(x)
    BY <2>1 DEF OnBus, TypeOK, Open
  <2> QED
    BY <1>3, <2>2 DEF Timeout, MutexInv
<1>4. ASSUME NEW o \in Slots, Lock(o) PROVE MutexInv'
  <2>1. \A x \in Slots : ~OnBus(x)
    BY <1>4, ClientAssumption DEF Lock, MutexInv
  <2>2. /\ pc' = [pc EXCEPT ![o] = pc'[o]]
        /\ pc'[o] \in {"recover", "send"}
        /\ holder' = o
    BY <1>4 DEF Lock, TypeOK
  <2> QED
    BY <2>1, <2>2 DEF MutexInv, OnBus, TypeOK
<1>5. ASSUME NEW o \in Slots, Recover(o) PROVE MutexInv'
  BY <1>5 DEF Recover, MutexInv, OnBus, TypeOK
<1>6. ASSUME NEW o \in Slots, NEW result \in {"ok", "error"},
             Request(o), Answer(o, result)
      PROVE  MutexInv'
  BY <1>6, AnswerReleases DEF Request
<1>7. ASSUME NEW o \in Slots, Dropped(o) PROVE MutexInv'
  <2>1. CASE attempt = 0
    BY <1>7, <2>1 DEF Dropped, RetryOrGiveUp, MutexInv, OnBus
  <2>2. CASE attempt # 0
    BY <1>7, <2>2, <1>6 DEF Dropped, RetryOrGiveUp
  <2> QED
    BY <2>1, <2>2
<1>8. ASSUME NEW o \in Slots, Panics(o) PROVE MutexInv'
  BY <1>8, ClientAssumption DEF Panics, MutexInv, OnBus
<1>9. CASE Tick \/ UNCHANGED vars
  BY <1>9 DEF Tick, vars, routines, MutexInv, OnBus
<1> QED
  BY <1>1, <1>2, <1>3, <1>4, <1>5, <1>6, <1>7, <1>8, <1>9
  DEF Next, Step, Succeeds, Rejected, DroppedForGood

(* What a request may do to the connection of its port.                       *)
LEMMA NextStray == TypeOK /\ StrayInv /\ [Next]_vars => StrayInv'
<1> SUFFICES ASSUME TypeOK, StrayInv, [Next]_vars PROVE StrayInv'
  OBVIOUS
<1>1. CASE UNCHANGED <<bound, refused>>
  BY <1>1 DEF StrayInv
<1>2. "nil" \notin Units /\ "handler" \notin Units
  BY ClientAssumption
<1>3. ASSUME NEW o \in Slots, Lock(o) PROVE StrayInv'
  BY <1>2, <1>3 DEF Lock, StrayInv
<1>4. ASSUME NEW o \in Slots, Recover(o) PROVE StrayInv'
  BY <1>2, <1>4 DEF Recover, StrayInv, TypeOK
<1>5. ASSUME NEW o \in Slots, Dropped(o) PROVE StrayInv'
  BY <1>2, <1>5 DEF Dropped, Reconnected, StrayInv, TypeOK
<1>6. ASSUME NEW o \in Slots, DroppedForGood(o) PROVE StrayInv'
  BY <1>6 DEF DroppedForGood, StrayInv, TypeOK
<1>7. ASSUME NEW o \in Slots, Panics(o) PROVE StrayInv'
  BY <1>2, <1>7 DEF Panics, StrayInv
<1>8. ASSUME NEW o \in Slots, Succeeds(o) \/ Rejected(o) PROVE StrayInv'
  BY <1>1, <1>8 DEF Succeeds, Rejected
<1>9. ASSUME \/ \E p \in Callers, o \in Slots, what \in Operations : Call(p, o, what)
             \/ \E p \in Callers : Return(p) \/ Timeout(p)
             \/ Tick \/ UNCHANGED vars
      PROVE  StrayInv'
  BY <1>1, <1>9 DEF Call, Return, Timeout, Tick, vars, client
<1> QED
  BY <1>3, <1>4, <1>5, <1>6, <1>7, <1>8, <1>9 DEF Next, Step

LEMMA NextClient == ClientInv /\ [Next]_vars => ClientInv'
BY NextTypeOK, NextMutex, NextStray DEF ClientInv

(* A goroutine that sends has the mutex, so only its own request, or the end  *)
(* of the process in a call through a nil client, moves it on.                *)
LEMMA SentByRequest ==
    ASSUME TypeOK, MutexInv, [Next]_vars, NEW o \in Slots, RequestSent(o)
    PROVE  Request(o)
<1>1. /\ pc[o] = "send"
      /\ bound[op[o].kind] # "nil"
      /\ pc'[o] # "send" \/ attempt' # attempt
      /\ holder = o
  BY DEF RequestSent, MutexInv, OnBus
<1>2. \A x \in Slots : pc[x] \in {"recover", "send"} => x = o
  BY <1>1 DEF MutexInv, OnBus
<1>4. ASSUME NEW p \in Callers, NEW x \in Slots, NEW what \in Operations,
             Call(p, x, what)
      PROVE  FALSE
  BY <1>1, <1>4 DEF Call, TypeOK
<1>5. ASSUME NEW p \in Callers, Return(p) PROVE FALSE
  <2>1. PICK x \in Slots : /\ pc[x] \in {"ok", "error"}
                           /\ pc' = [pc EXCEPT ![x] = "free"]
    BY <1>5 DEF Return
  <2> QED
    BY <1>1, <1>5, <2>1 DEF Return, TypeOK
<1>6. ASSUME NEW p \in Callers, Timeout(p) PROVE FALSE
  <2>1. PICK x \in Slots :
            pc' = [pc EXCEPT ![x] = IF @ \in Open THEN @ ELSE "free"]
    BY <1>6 DEF Timeout
  <2> QED
    BY <1>1, <1>6, <2>1 DEF Timeout, Open, TypeOK
<1>7. ASSUME NEW x \in Slots PROVE ~Lock(x)
  BY <1>1, ClientAssumption DEF Lock
<1>8. ASSUME NEW x \in Slots, Step(x) PROVE Request(o)
  <2>1. x = o
    BY <1>2, <1>8
    DEF Step, Recover, Succeeds, Rejected, Dropped, DroppedForGood, Panics, Request
  <2>2. ~Recover(o) /\ ~Panics(o)
    BY <1>1 DEF Recover, Panics
  <2> QED
    BY <1>8, <2>1, <2>2 DEF Step, Succeeds, Rejected, Dropped, DroppedForGood
<1>9. ASSUME Tick \/ UNCHANGED vars PROVE FALSE
  BY <1>1, <1>9 DEF Tick, vars, routines
<1> QED
  BY <1>4, <1>5, <1>6, <1>7, <1>8, <1>9 DEF Next

(* Whatever is dropped, refused, late or restarted, and whichever goroutines  *)
(* late operations leave behind: a request goes to the unit of its operation, *)
(* except between a refused reconnection of its port and the next one that    *)
(* succeeds.                                                                  *)
THEOREM RequestsReachTheirUnit == Spec => ReachesItsUnit
<1>1. Init => ClientInv
  BY InitBus DEF BusInv
<1>2. ClientInv /\ [Next]_vars => ClientInv'
  BY NextClient
<1>3. ClientInv /\ [Next]_vars
        => [\A o \in Slots :
              RequestSent(o) => reached'[o] = op[o].unit \/ op[o].kind \in refused]_vars
  <2> SUFFICES ASSUME ClientInv, [Next]_vars, NEW o \in Slots, RequestSent(o),
                      op[o].kind \notin refused
               PROVE  reached'[o] = op[o].unit
    OBVIOUS
  <2>1. Request(o)
    BY SentByRequest DEF ClientInv
  <2>2. op[o].kind \in Ports
    BY OperationFacts DEF ClientInv, TypeOK
  <2>3. bound[op[o].kind] = "handler"
    BY <2>1, <2>2 DEF Request, ClientInv, TypeOK, StrayInv
  <2> QED
    BY <2>1, <2>3 DEF Request, Reaches, ClientInv, TypeOK
<1> QED
  BY <1>1, <1>2, <1>3, PTL DEF Spec, ReachesItsUnit
-------------------------------------------------------------------------------
(* Without refusals                                                           *)

(* While a goroutine is sending, both clients belong to their handlers.       *)
LEMMA SendingIsPaired ==
    ASSUME BusInv, NEW o \in Slots, pc[o] = "send"
    PROVE  \A k \in Ports : bound[k] = "handler"
<1>1. holder = o
  BY DEF BusInv, ClientInv, MutexInv, OnBus
<1>2. \A x \in Slots : pc[x] # "recover"
  BY <1>1 DEF BusInv, ClientInv, MutexInv, OnBus
<1> QED
  BY <1>2 DEF BusInv, PairInv

LEMMA SendingReaches ==
    ASSUME BusInv, NEW o \in Slots, pc[o] = "send"
    PROVE  bound[op[o].kind] = "handler" /\ Reaches(o) = op[o].unit
<1>1. op[o].kind \in Ports
  BY OperationFacts DEF BusInv, ClientInv, TypeOK
<1> QED
  BY <1>1, SendingIsPaired DEF Reaches

LEMMA NextPair == NoRefusal /\ BusInv /\ [Next]_vars => PairInv'
<1> SUFFICES ASSUME NoRefusal, BusInv, [Next]_vars PROVE PairInv'
  OBVIOUS
<1>0. TypeOK /\ MutexInv /\ PairInv
  BY DEF BusInv, ClientInv
<1>1. ASSUME NEW p \in Callers, NEW o \in Slots, NEW what \in Operations,
             Call(p, o, what)
      PROVE  PairInv'
  BY <1>0, <1>1 DEF Call, PairInv, client, TypeOK
<1>2. ASSUME NEW p \in Callers, Return(p) PROVE PairInv'
  <2>1. PICK o \in Slots : /\ pc[o] \in {"ok", "error"}
                           /\ pc' = [pc EXCEPT ![o] = "free"]
    BY <1>2 DEF Return
  <2> QED
    BY <1>0, <1>2, <2>1 DEF Return, client, PairInv, TypeOK
<1>3. ASSUME NEW p \in Callers, Timeout(p) PROVE PairInv'
  <2>1. PICK o \in Slots :
            pc' = [pc EXCEPT ![o] = IF @ \in Open THEN @ ELSE "free"]
    BY <1>3 DEF Timeout
  <2>2. \A x \in Slots : pc[x] = "recover" => pc'[x] = "recover"
    BY <1>0, <2>1 DEF TypeOK, Open
  <2> QED
    BY <1>0, <1>3, <2>2 DEF Timeout, PairInv
<1>4. ASSUME NEW o \in Slots, Lock(o) PROVE PairInv'
  <2>1. CASE stuck
    BY <1>0, <1>4, <2>1 DEF Lock, PairInv, TypeOK
  <2>2. CASE ~stuck
    <3>1. \A x \in Slots : ~OnBus(x)
      BY <1>0, <1>4, ClientAssumption DEF Lock, MutexInv
    <3>2. \A k \in Ports : bound[k] = "handler"
      BY <1>0, <3>1 DEF PairInv, OnBus
    <3> QED
      BY <1>4, <2>2, <3>2 DEF Lock, PairInv
  <2> QED
    BY <2>1, <2>2
<1>5. ASSUME NEW o \in Slots, Recover(o) PROVE PairInv'
  BY <1>5 DEF Recover, NoRefusal, PairInv
<1>6. ASSUME NEW o \in Slots, Request(o), UNCHANGED bound PROVE PairInv'
  BY <1>6, SendingIsPaired DEF Request, PairInv
<1>7. ASSUME NEW o \in Slots, Dropped(o) PROVE PairInv'
  <2>1. \A k \in Ports : bound'[k] = "handler"
    BY <1>0, <1>7, SendingIsPaired DEF Dropped, Request, Reconnected, TypeOK
  <2> QED
    BY <2>1 DEF PairInv
<1>8. ASSUME NEW o \in Slots PROVE ~DroppedForGood(o)
  BY DEF DroppedForGood, NoRefusal
<1>9. ASSUME NEW o \in Slots PROVE ~Panics(o)
  BY SendingReaches DEF Panics
<1>10. CASE Tick \/ UNCHANGED vars
  BY <1>0, <1>10 DEF Tick, vars, routines, client, PairInv
<1> QED
  BY <1>1, <1>2, <1>3, <1>4, <1>5, <1>6, <1>7, <1>8, <1>9, <1>10
  DEF Next, Step, Succeeds, Rejected

LEMMA NextBus == NoRefusal /\ BusInv /\ [Next]_vars => BusInv'
BY NextClient, NextPair DEF BusInv
-------------------------------------------------------------------------------
(* The gap between writes                                                     *)

(* What the client measures is never more than what has passed.               *)
LEMMA NextGap == NoRefusal /\ BusInv /\ GapInv /\ [Next]_vars => GapInv'
<1> SUFFICES ASSUME NoRefusal, BusInv, GapInv, [Next]_vars PROVE GapInv'
  OBVIOUS
<1>1. lastWriteAt \in 0..MinGap /\ sinceWrite \in 0..MinGap
  BY DEF BusInv, ClientInv, TypeOK
<1>2. ASSUME UNCHANGED <<lastWriteAt, sinceWrite>> PROVE GapInv'
  BY <1>2 DEF GapInv
<1>3. ASSUME NEW o \in Slots, Request(o) PROVE GapInv'
  BY <1>1, <1>3 DEF Request, GapInv
<1>4. ASSUME Tick PROVE GapInv'
  BY <1>1, <1>4, ClientAssumption DEF Tick, GapInv
<1>5. ASSUME NEW o \in Slots PROVE ~Panics(o)
  BY SendingReaches DEF Panics
<1>6. ASSUME NEW o \in Slots, Step(o) PROVE GapInv'
  BY <1>2, <1>3, <1>5, <1>6
  DEF Step, Recover, Succeeds, Rejected, Dropped, DroppedForGood
<1>7. ASSUME \/ \E p \in Callers, o \in Slots, what \in Operations : Call(p, o, what)
             \/ \E p \in Callers : Return(p) \/ Timeout(p)
             \/ \E o \in Slots : Lock(o)
             \/ UNCHANGED vars
      PROVE  GapInv'
  BY <1>2, <1>7 DEF Call, Return, Timeout, Lock, vars, client
<1> QED
  BY <1>4, <1>6, <1>7 DEF Next

(* The gap is kept between any two write requests, of one operation or of     *)
(* two.  A restart of the process, which a refused reconnection can bring     *)
(* about, forgets the last write: hence the assumption.                       *)
THEOREM GapIsKept == NoRefusal => (Spec => GapKept)
<1> SUFFICES ASSUME NoRefusal PROVE Spec => GapKept
  OBVIOUS
<1>1. Init => BusInv /\ GapInv
  BY InitBus
<1>2. BusInv /\ GapInv /\ [Next]_vars => BusInv' /\ GapInv'
  BY NextBus, NextGap
<1>3. BusInv /\ GapInv /\ [Next]_vars
        => [\A o \in Slots :
              RequestSent(o) /\ op[o].kind = "write" => sinceWrite >= MinGap]_vars
  <2> SUFFICES ASSUME BusInv, GapInv, [Next]_vars, NEW o \in Slots, RequestSent(o),
                      op[o].kind = "write"
               PROVE  sinceWrite >= MinGap
    OBVIOUS
  <2>1. Request(o)
    BY SentByRequest DEF BusInv, ClientInv
  <2> QED
    BY <2>1, ClientAssumption DEF Request, GapInv, BusInv, ClientInv, TypeOK
<1> QED
  BY <1>1, <1>2, <1>3, PTL DEF Spec, GapKept
-------------------------------------------------------------------------------
(* The register bank                                                          *)

AnswerOf == [o \in Slots |-> IF pc[o] \in Open THEN "open" ELSE pc[o]]

LEMMA InitBank == Init => Bank!Init
<1> SUFFICES ASSUME Init PROVE Bank!Init
  OBVIOUS
<1>1. op \in [Slots -> Bank!Operations]
  BY InitTypeOK DEF TypeOK, Operations, Bank!Operations
<1>2. AnswerOf = [o \in Slots |-> "free"]
  BY DEF Init, AnswerOf, Open
<1> QED
  BY <1>1, <1>2 DEF Init, Bank!Init, AnswerOf

(* A request and its outcome are one attempt.                                 *)
LEMMA RequestIsAttempt ==
    ASSUME BusInv, NEW o \in Slots, Request(o),
           \/ TakesEffect(o) /\ Answer(o, "ok")
           \/ (TakesEffect(o) \/ UNCHANGED reg) /\ Answer(o, "error")
           \/ (TakesEffect(o) \/ UNCHANGED reg) /\ UNCHANGED pc
    PROVE  Bank!Attempt(o)
<1>1. pc[o] = "send" /\ UNCHANGED <<call, op>>
  BY DEF Request
<1>2. TakesEffect(o) => Bank!CarriedOut(o)
  BY <1>1, SendingReaches DEF TakesEffect, Bank!CarriedOut
<1>3. ASSUME NEW result \in {"ok", "error"}, Answer(o, result)
      PROVE  Bank!End(o, result)
  <2>1. pc' = [pc EXCEPT ![o] = IF Bank!Awaited(o) THEN result ELSE "free"]
    BY <1>3 DEF Answer, Bank!Awaited
  <2>2. AnswerOf' = [AnswerOf EXCEPT ![o] = IF Bank!Awaited(o) THEN result ELSE "free"]
    BY <2>1 DEF AnswerOf, Open, BusInv, ClientInv, TypeOK
  <2> QED
    BY <2>2 DEF Bank!End, AnswerOf
<1>4. UNCHANGED pc => UNCHANGED AnswerOf
  BY DEF AnswerOf
<1>5. AnswerOf[o] = "open"
  BY <1>1 DEF AnswerOf, Open
<1> QED
  BY <1>1, <1>2, <1>3, <1>4, <1>5 DEF Bank!Attempt, AnswerOf

LEMMA NextBank ==
    NoRefusal /\ BusInv /\ [Next]_vars => [Bank!Next]_(Bank!vars)
<1> SUFFICES ASSUME NoRefusal, BusInv, [Next]_vars
             PROVE  Bank!Next \/ UNCHANGED Bank!vars
  OBVIOUS
<1>0. pc \in [Slots -> Open \cup {"free", "ok", "error"}]
  BY DEF BusInv, ClientInv, TypeOK
<1>1. ASSUME UNCHANGED <<reg, call, op>>, UNCHANGED AnswerOf
      PROVE  UNCHANGED Bank!vars
  BY <1>1 DEF Bank!vars, AnswerOf
<1>2. ASSUME NEW p \in Callers, NEW o \in Slots, NEW what \in Operations,
             Call(p, o, what)
      PROVE  Bank!Next
  <2>1. AnswerOf' = [AnswerOf EXCEPT ![o] = "open"] /\ AnswerOf[o] = "free"
    BY <1>0, <1>2 DEF Call, AnswerOf, Open
  <2>2. Bank!Call(p, o, what)
    BY <1>2, <2>1 DEF Call, Bank!Call, AnswerOf
  <2>3. what \in Bank!Operations
    BY DEF Operations, Bank!Operations
  <2> QED
    BY <2>2, <2>3 DEF Bank!Next
<1>3. ASSUME NEW p \in Callers, Return(p) PROVE Bank!Next
  <2>1. PICK o \in Slots : /\ call[p] = o
                           /\ pc[o] \in {"ok", "error"}
                           /\ pc' = [pc EXCEPT ![o] = "free"]
    BY <1>3 DEF Return
  <2>2. /\ AnswerOf' = [AnswerOf EXCEPT ![o] = "free"]
        /\ AnswerOf[o] \in {"ok", "error"}
    BY <1>0, <2>1 DEF AnswerOf, Open
  <2>3. Bank!Return(p)
    BY <1>3, <2>1, <2>2 DEF Return, Bank!Return, AnswerOf
  <2> QED
    BY <2>3 DEF Bank!Next
<1>4. ASSUME NEW p \in Callers, Timeout(p) PROVE Bank!Next
  <2>1. PICK o \in Slots :
            /\ call[p] = o
            /\ pc' = [pc EXCEPT ![o] = IF @ \in Open THEN @ ELSE "free"]
    BY <1>4 DEF Timeout
  <2>2. AnswerOf' = [AnswerOf EXCEPT ![o] = IF @ = "open" THEN "open" ELSE "free"]
    BY <1>0, <2>1 DEF AnswerOf, Open
  <2>3. Bank!GiveUp(p)
    BY <1>4, <2>1, <2>2 DEF Timeout, Bank!GiveUp, AnswerOf
  <2> QED
    BY <2>3 DEF Bank!Next
<1>5. ASSUME NEW o \in Slots, Lock(o) \/ Recover(o) PROVE UNCHANGED Bank!vars
  <2>1. /\ pc[o] \in Open
        /\ pc' = [pc EXCEPT ![o] = pc'[o]]
        /\ pc'[o] \in Open
        /\ UNCHANGED <<reg, call, op>>
    BY <1>0, <1>5 DEF Lock, Recover, Open
  <2>2. UNCHANGED AnswerOf
    BY <1>0, <2>1 DEF AnswerOf
  <2> QED
    BY <1>1, <2>1, <2>2
<1>6. ASSUME NEW o \in Slots, Succeeds(o) \/ Rejected(o) \/ Dropped(o)
      PROVE  Bank!Next
  <2>1. Bank!Attempt(o)
    BY <1>6, RequestIsAttempt DEF Succeeds, Rejected, Dropped, RetryOrGiveUp
  <2> QED
    BY <2>1 DEF Bank!Next
<1>7. ASSUME NEW o \in Slots PROVE ~Panics(o) /\ ~DroppedForGood(o)
  BY SendingReaches DEF Panics, DroppedForGood, NoRefusal
<1>8. CASE Tick \/ UNCHANGED vars
  <2>1. UNCHANGED <<reg, call, op, pc>>
    BY <1>8 DEF Tick, vars, routines
  <2> QED
    BY <1>1, <2>1 DEF AnswerOf
<1> QED
  BY <1>2, <1>3, <1>4, <1>5, <1>6, <1>7, <1>8 DEF Next, Step

(* With reconnections that succeed, the client implements the register bank:  *)
(* an operation touches its own unit only, "ok" means that it was carried     *)
(* out, and all that goes wrong shows as an error or as a late effect.        *)
THEOREM ClientImplementsBank == NoRefusal => (Spec => ImplementsBank)
<1> SUFFICES ASSUME NoRefusal PROVE Spec => ImplementsBank
  OBVIOUS
<1>1. Init => BusInv /\ Bank!Init
  BY InitBus, InitBank
<1>2. BusInv /\ [Next]_vars => BusInv'
  BY NextBus
<1>3. BusInv /\ [Next]_vars => [Bank!Next]_(Bank!vars)
  BY NextBank
<1> QED
  BY <1>1, <1>2, <1>3, PTL DEF Spec, ImplementsBank, Bank!Spec
===============================================================================
