---------------------------- MODULE Telegram_proofs ----------------------------
(* Theorems about commands and alerts, for any number of updates and any      *)
(* pattern of lost answers and restarts: no command is confirmed before it    *)
(* has been handled, no process handles one twice, polling implements a queue *)
(* of commands, and no goroutine sends two alerts of a kind within an hour.   *)
EXTENDS TelegramProps, TLAPS

\* Strengthening: the numbers of updates keep within what has arrived.
NumbersTyped ==
    /\ arrived \in Nat
    /\ offset \in 0..(arrived + 1)
    /\ confirmed \in 1..(arrived + 1)

\* Strengthening: what is fetched and not yet handled follows, without a gap,
\* what was expected.
BatchFollows ==
    /\ batch \in Seq(Nat)
    /\ Expected + Len(batch) <= arrived + 1
    /\ \A i \in 1..Len(batch) : batch[i] = Expected + i - 1

\* Strengthening: all before it have been handled, at some time.
PastHandled == \A i \in Nat : 1 <= i /\ i < Expected => i \in handled

\* Strengthening: this process has handled nothing from its offset on.
NowBelowOffset == \A i \in handledNow : i \in Int /\ i < offset

PollInv == NumbersTyped /\ BatchFollows /\ PastHandled /\ NowBelowOffset

USE DEF alerting, polling

LEMMA ExpectedIs ==
    ASSUME NumbersTyped
    PROVE  /\ Expected \in Nat /\ Expected >= 1
           /\ Expected >= offset /\ Expected >= confirmed
           /\ Expected \in {offset, confirmed}
           /\ Expected <= arrived + 1
BY DEF NumbersTyped, Expected, Later

LEMMA PollInit == Init => PollInv
<1> SUFFICES ASSUME Init PROVE PollInv
  OBVIOUS
<1>1. offset = 0 /\ confirmed = 1 /\ arrived = 0 /\ batch = <<>> /\ handledNow = {}
  BY DEF Init
<1>2. Expected = 1
  BY <1>1 DEF Expected, Later
<1>3. NumbersTyped
  BY <1>1 DEF NumbersTyped
<1>4. BatchFollows
  BY <1>1, <1>2 DEF BatchFollows
<1> QED
  BY <1>1, <1>2, <1>3, <1>4 DEF PollInv, PastHandled, NowBelowOffset

LEMMA PollGet == PollInv /\ GetUpdates => PollInv'
<1> SUFFICES ASSUME PollInv, GetUpdates PROVE PollInv'
  OBVIOUS
<1>1. /\ confirmed' = Expected
      /\ UNCHANGED <<arrived, offset, handled, handledNow>>
  BY DEF GetUpdates, Expected
<1>2. /\ Expected \in Nat /\ Expected >= 1
      /\ Expected >= offset
      /\ Expected <= arrived + 1
      /\ arrived \in Nat
  BY ExpectedIs DEF PollInv, NumbersTyped
<1>3. Expected' = Expected
  BY <1>1, <1>2 DEF Expected, Later, PollInv, NumbersTyped
<1>4. NumbersTyped'
  BY <1>1, <1>2 DEF PollInv, NumbersTyped
<1>5. BatchFollows'
  <2>1. CASE batch' = <<>>
    BY <2>1, <1>1, <1>2, <1>3 DEF BatchFollows
  <2>2. CASE batch' = Updates(Expected)
    <3> DEFINE n == arrived - Expected + 1
    <3>1. n \in Nat
      BY <1>2
    <3>2. batch' = [i \in 1..n |-> Expected + i - 1]
      BY <2>2 DEF Updates
    <3> HIDE DEF n
    <3>3. batch' \in Seq(Nat) /\ Len(batch') = n
      BY <3>1, <3>2, <1>2
    <3>4. \A i \in 1..Len(batch') : batch'[i] = Expected + i - 1
      BY <3>1, <3>2, <3>3
    <3>5. Expected + n <= arrived + 1
      BY <1>2 DEF n
    <3> QED
      BY <1>1, <1>3, <3>3, <3>4, <3>5 DEF BatchFollows
  <2> QED
    BY <2>1, <2>2, <1>1 DEF GetUpdates
<1>6. PastHandled' /\ NowBelowOffset'
  BY <1>1, <1>3 DEF PollInv, PastHandled, NowBelowOffset
<1> QED
  BY <1>4, <1>5, <1>6 DEF PollInv

LEMMA PollHandle == PollInv /\ HandleUpdate => PollInv' /\ Head(batch) \notin handledNow
<1> SUFFICES ASSUME PollInv, HandleUpdate PROVE PollInv' /\ Head(batch) \notin handledNow
  OBVIOUS
<1>1. /\ Expected \in Nat /\ Expected >= 1
      /\ Expected >= offset /\ Expected >= confirmed
      /\ arrived \in Nat
      /\ confirmed \in 1..(arrived + 1)
  BY ExpectedIs DEF PollInv, NumbersTyped
<1>2. /\ batch \in Seq(Nat) /\ batch # <<>>
      /\ Expected + Len(batch) <= arrived + 1
      /\ \A i \in 1..Len(batch) : batch[i] = Expected + i - 1
  BY DEF PollInv, BatchFollows, HandleUpdate
<1>3. Len(batch) \in Nat /\ Len(batch) >= 1 /\ Head(batch) = batch[1]
  BY <1>2
<1>4. Head(batch) = Expected
  BY <1>1, <1>2, <1>3
<1>5. /\ offset' = Expected + 1
      /\ handled' = handled \cup {Expected}
      /\ handledNow' = handledNow \cup {Expected}
      /\ batch' = Tail(batch)
      /\ UNCHANGED <<arrived, confirmed>>
  BY <1>4 DEF HandleUpdate
<1>6. Expected' = Expected + 1
  BY <1>1, <1>5 DEF Expected, Later
<1>7. NumbersTyped'
  <2>1. Expected + 1 \in 0..(arrived + 1)
    BY <1>1, <1>2, <1>3
  <2> QED
    BY <2>1, <1>1, <1>5 DEF NumbersTyped
<1>8. BatchFollows'
  <2>1. batch' \in Seq(Nat) /\ Len(batch') = Len(batch) - 1
    BY <1>2, <1>3, <1>5
  <2>2. \A i \in 1..Len(batch') : batch'[i] = batch[i + 1] /\ i + 1 \in 1..Len(batch)
    BY <1>2, <1>3, <1>5, <2>1
  <2>3. \A i \in 1..Len(batch') : batch'[i] = Expected + 1 + i - 1
    BY <1>1, <1>2, <2>2
  <2>4. Expected + 1 + Len(batch') <= arrived + 1
    BY <1>1, <1>2, <1>3, <2>1
  <2> QED
    BY <1>5, <1>6, <2>1, <2>3, <2>4 DEF BatchFollows
<1>9. PastHandled'
  <2>1. SUFFICES ASSUME NEW i \in Nat, 1 <= i, i < Expected + 1
                 PROVE  i \in handled \cup {Expected}
    BY <1>5, <1>6 DEF PastHandled
  <2>2. i < Expected \/ i = Expected
    BY <2>1, <1>1
  <2> QED
    BY <2>1, <2>2 DEF PollInv, PastHandled
<1>10. NowBelowOffset'
  <2>1. \A i \in handledNow : i \in Int /\ i < Expected + 1
    BY <1>1 DEF PollInv, NowBelowOffset, NumbersTyped
  <2> QED
    BY <2>1, <1>1, <1>5 DEF NowBelowOffset
<1>11. Expected \notin handledNow
  <2>1. offset \in Int
    BY DEF PollInv, NumbersTyped
  <2>2. ~(Expected < offset)
    BY <1>1, <2>1
  <2> QED
    BY <2>2 DEF PollInv, NowBelowOffset
<1> QED
  BY <1>4, <1>7, <1>8, <1>9, <1>10, <1>11 DEF PollInv

LEMMA PollRest ==
    ASSUME PollInv, Restart \/ Operator \/ UNCHANGED polling
    PROVE  PollInv'
<1>1. CASE UNCHANGED polling
  BY <1>1 DEF PollInv, NumbersTyped, BatchFollows, PastHandled, NowBelowOffset, Expected
<1>2. CASE Operator
  <2>1. /\ arrived' = arrived + 1
        /\ UNCHANGED <<offset, batch, confirmed, handled, handledNow>>
    BY <1>2 DEF Operator
  <2>2. Expected' = Expected
    BY <2>1 DEF Expected
  <2>3. NumbersTyped'
    BY <2>1 DEF PollInv, NumbersTyped
  <2>4. BatchFollows'
    <3>1. Expected \in Nat /\ arrived \in Nat
      BY ExpectedIs DEF PollInv, NumbersTyped
    <3> QED
      BY <3>1, <2>1, <2>2 DEF PollInv, BatchFollows
  <2> QED
    BY <2>1, <2>2, <2>3, <2>4 DEF PollInv, PastHandled, NowBelowOffset
<1>3. CASE Restart
  <2>1. /\ offset' = 0 /\ batch' = <<>> /\ handledNow' = {}
        /\ UNCHANGED <<arrived, confirmed, handled>>
    BY <1>3 DEF Restart
  <2>2. arrived \in Nat /\ confirmed \in 1..(arrived + 1)
    BY DEF PollInv, NumbersTyped
  <2>3. Expected' = confirmed
    BY <2>1, <2>2 DEF Expected, Later
  <2>4. NumbersTyped'
    BY <2>1, <2>2 DEF NumbersTyped
  <2>5. BatchFollows'
    BY <2>1, <2>2, <2>3 DEF BatchFollows
  <2>6. PastHandled'
    <3>1. confirmed <= Expected /\ Expected \in Nat
      BY ExpectedIs DEF PollInv
    <3> QED
      BY <3>1, <2>1, <2>2, <2>3 DEF PollInv, PastHandled
  <2> QED
    BY <2>1, <2>4, <2>5, <2>6 DEF PollInv, NowBelowOffset
<1> QED
  BY <1>1, <1>2, <1>3

LEMMA OthersKeepPolling ==
    ASSUME [Next]_vars, ~GetUpdates, ~HandleUpdate, ~Operator, ~Restart
    PROVE  UNCHANGED polling
BY DEF Next, vars, Transition, AlertLoop, TakeChange, ControlAlerts, Alert, Check, Send,
   SendFails, Record, Tick

LEMMA PollNext == PollInv /\ [Next]_vars => PollInv'
BY PollGet, PollHandle, PollRest, OthersKeepPolling

\* A command that Telegram will not deliver again has been handled, whatever
\* answers get lost and whenever the process is restarted: the offset, which
\* confirms, moves only after handleUpdate.
THEOREM CommandsAreHandled == Spec => []NoCommandLost
<1>1. PollInv => NoCommandLost
  <2> SUFFICES ASSUME PollInv, NEW i \in 1..(confirmed - 1) PROVE i \in handled
    BY DEF NoCommandLost
  <2>1. arrived \in Nat /\ confirmed \in 1..(arrived + 1)
    BY DEF PollInv, NumbersTyped
  <2>2. Expected \in Nat /\ confirmed <= Expected
    BY ExpectedIs DEF PollInv
  <2>3. i \in Nat /\ 1 <= i /\ i < Expected
    BY <2>1, <2>2
  <2> QED
    BY <2>3 DEF PollInv, PastHandled
<1> QED
  BY <1>1, PollInit, PollNext, PTL DEF Spec

\* And no process carries a command out twice, however often it is delivered.
THEOREM CommandsAreHandledOnce == Spec => []NoCommandTwice
<1> DEFINE Inv == PollInv /\ NoCommandTwice
<1>1. Init => Inv
  <2>1. Init => NoCommandTwice
    BY DEF Init, NoCommandTwice
  <2> QED
    BY <2>1, PollInit
<1>2. Inv /\ [Next]_vars => Inv'
  <2> SUFFICES ASSUME PollInv, NoCommandTwice, [Next]_vars PROVE NoCommandTwice'
    BY PollNext
  <2>1. CASE HandleUpdate
    BY <2>1, PollHandle, Zenon DEF HandleUpdate, NoCommandTwice
  <2>2. CASE ~HandleUpdate
    <3>1. handledTwice' = handledTwice
      BY <2>2, OthersKeepPolling, Zenon DEF GetUpdates, Operator, Restart, polling
    <3> QED
      BY <3>1, Zenon DEF NoCommandTwice
  <2> QED
    BY <2>1, <2>2
<1> QED
  BY <1>1, <1>2, PTL DEF Spec

-------------------------------------------------------------------------------
(* The poll loop is a queue                                                   *)

LEMMA InitQueue == Init => Queue!Init
BY DEF Init, Queue!Init, Expected, Later

LEMMA NextQueue == PollInv /\ [Next]_vars => [Queue!Next]_(Queue!vars)
<1> SUFFICES ASSUME PollInv, [Next]_vars
             PROVE  Queue!Next \/ UNCHANGED Queue!vars
  OBVIOUS
<1>1. CASE GetUpdates
  <2>1. confirmed' = Expected /\ UNCHANGED <<arrived, offset, handled>>
    BY <1>1 DEF GetUpdates, Expected
  <2>2. Expected' = Expected
    <3>1. /\ offset \in Int /\ Expected \in Int
          /\ Expected >= offset
      BY ExpectedIs DEF PollInv, NumbersTyped
    <3>2. Later(offset, Expected) = Expected
      BY <3>1 DEF Later
    <3> QED
      BY <2>1, <3>2 DEF Expected
  <2> QED
    BY <2>1, <2>2 DEF Queue!Next, Queue!PutBehind
<1>2. CASE HandleUpdate
  <2>1. /\ Expected \in Nat /\ Expected >= confirmed
        /\ arrived \in Nat /\ confirmed \in Int
    BY ExpectedIs DEF PollInv, NumbersTyped
  <2>2. Head(batch) = Expected /\ Expected <= arrived
    <3>1. /\ batch \in Seq(Nat) /\ batch # <<>>
          /\ Expected + Len(batch) <= arrived + 1
          /\ \A i \in 1..Len(batch) : batch[i] = Expected + i - 1
      BY <1>2 DEF PollInv, BatchFollows, HandleUpdate
    <3>2. Len(batch) \in Nat /\ Len(batch) >= 1 /\ Head(batch) = batch[1]
      BY <3>1
    <3> QED
      BY <2>1, <3>1, <3>2
  <2>3. /\ offset' = Expected + 1
        /\ handled' = handled \cup {Expected}
        /\ UNCHANGED <<arrived, confirmed>>
    BY <1>2, <2>2 DEF HandleUpdate
  <2>4. Expected' = Expected + 1
    BY <2>1, <2>3 DEF Expected, Later
  <2> QED
    BY <2>2, <2>3, <2>4 DEF Queue!Next, Queue!CarryOut
<1>3. CASE Operator
  BY <1>3 DEF Operator, Expected, Queue!Next, Queue!Send
<1>4. CASE Restart
  <2>1. offset' = 0 /\ UNCHANGED <<arrived, confirmed, handled>>
    BY <1>4 DEF Restart
  <2>2. Expected' = confirmed
    BY <2>1 DEF PollInv, NumbersTyped, Expected, Later
  <2> QED
    BY <2>1, <2>2 DEF Queue!Next, Queue!StartOver
<1>5. CASE UNCHANGED polling
  BY <1>5 DEF Expected, Queue!vars
<1> QED
  BY <1>1, <1>2, <1>3, <1>4, <1>5, OthersKeepPolling

\* Polls, lost answers, batches and restarts implement a queue of commands:
\* each is carried out after all those sent before it, and a restart goes back
\* to the first unconfirmed one and no further.
THEOREM PollingImplementsQueue == Spec => ImplementsQueue
<1>1. Spec => []PollInv
  BY PollInit, PollNext, PTL DEF Spec
<1> QED
  BY <1>1, InitQueue, NextQueue, PTL DEF Spec, ImplementsQueue, Queue!Spec

-------------------------------------------------------------------------------
(* The rate limit.                                                            *)

Ages == 0..Hour

AlertsTyped ==
    /\ sender \in [Senders -> [at : {"idle", "check", "send", "record"}, kind : Kinds]]
    /\ lastSent \in [Kinds -> Ages]
    /\ sentBy \in [Senders -> [Kinds -> Ages]]

\* Strengthening: what a goroutine has sent is in the bot's record, unless the
\* goroutine is about to record it.
SentIsRecorded ==
    \A s \in Senders, k \in Kinds :
        sender[s] # At("record", k) => lastSent[k] <= sentBy[s][k]

\* Strengthening: a goroutine that passed the check has sent nothing of the
\* kind for an hour, whatever another one sends in the meantime.
PassedIsFree ==
    \A s \in Senders : sender[s].at = "send" => sentBy[s][sender[s].kind] = Hour

LimitInv == AlertsTyped /\ SentIsRecorded /\ PassedIsFree

LEMMA HourIsPositive == Hour \in Nat /\ Hour > 0
BY TelegramConfig

LEMMA LimitInit ==
    ASSUME sender = [s \in Senders |-> Idle], lastSent = NoAlerts,
           sentBy = [s \in Senders |-> NoAlerts]
    PROVE  LimitInv
BY HourIsPositive DEF LimitInv, AlertsTyped, SentIsRecorded, PassedIsFree, NoAlerts, Never, Idle,
   Ages, Kinds, At

LEMMA NotRecording ==
    ASSUME LimitInv, NEW s \in Senders, sender[s].at # "record", NEW k \in Kinds
    PROVE  lastSent[k] <= sentBy[s][k]
<1>1. At("record", k).at = "record"
  BY DEF At
<1>2. sender[s] # At("record", k)
  BY <1>1
<1> QED
  BY <1>2 DEF LimitInv, SentIsRecorded

LEMMA LimitBegins ==
    ASSUME LimitInv, NEW s \in Senders, NEW k \in Kinds,
           sender[s] = Idle, sender' = [sender EXCEPT ![s] = At("check", k)],
           UNCHANGED <<lastSent, sentBy>>
    PROVE  LimitInv'
<1>1. AlertsTyped'
  BY DEF LimitInv, AlertsTyped, At
<1>2. SentIsRecorded' /\ PassedIsFree'
  BY DEF LimitInv, AlertsTyped, SentIsRecorded, PassedIsFree, At, Idle
<1> QED
  BY <1>1, <1>2 DEF LimitInv

LEMMA LimitCheck ==
    ASSUME LimitInv, NEW s \in Senders, Check(s)
    PROVE  LimitInv'
<1> DEFINE k == sender[s].kind
<1>1. k \in Kinds /\ lastSent[k] \in Ages /\ sentBy[s][k] \in Ages
  BY DEF LimitInv, AlertsTyped
<1>2. lastSent[k] <= sentBy[s][k]
  BY <1>1, NotRecording DEF Check
<1>3. CASE lastSent[k] < Hour
  <2>1. sender' = [sender EXCEPT ![s] = Idle] /\ UNCHANGED <<lastSent, sentBy>>
    BY <1>3 DEF Check
  <2> QED
    BY <2>1, <1>2 DEF LimitInv, AlertsTyped, SentIsRecorded, PassedIsFree, Idle, At, Check, Kinds
<1>4. CASE ~(lastSent[k] < Hour)
  <2>1. sender' = [sender EXCEPT ![s] = At("send", k)] /\ UNCHANGED <<lastSent, sentBy>>
    BY <1>4 DEF Check
  <2>2. sentBy[s][k] = Hour
    BY <1>1, <1>2, <1>4, HourIsPositive DEF Ages
  <2> QED
    BY <1>1, <1>2, <2>1, <2>2 DEF LimitInv, AlertsTyped, SentIsRecorded, PassedIsFree, At, Check
<1> QED
  BY <1>3, <1>4

LEMMA LimitSend ==
    ASSUME LimitInv, NEW s \in Senders, Send(s)
    PROVE  LimitInv'
<1> DEFINE k == sender[s].kind
<1>1. k \in Kinds
  BY DEF LimitInv, AlertsTyped
<1>2. /\ sender' = [sender EXCEPT ![s].at = "record"]
      /\ sentBy' = [sentBy EXCEPT ![s][k] = 0]
      /\ lastSent' = lastSent
  BY DEF Send
<1>3. AlertsTyped'
  BY <1>1, <1>2, HourIsPositive DEF LimitInv, AlertsTyped, Ages
<1>4. sender'[s] = At("record", k)
  BY <1>1, <1>2 DEF LimitInv, AlertsTyped, At
<1>5. SentIsRecorded'
  <2> SUFFICES ASSUME NEW r \in Senders, NEW j \in Kinds, sender'[r] # At("record", j)
               PROVE  lastSent'[j] <= sentBy'[r][j]
    BY DEF SentIsRecorded
  <2>1. CASE r = s
    <3>1. j # k
      BY <2>1, <1>4
    <3>2. sentBy'[r][j] = sentBy[s][j]
      BY <2>1, <3>1, <1>2, <1>1 DEF LimitInv, AlertsTyped
    <3>3. sender[s] # At("record", j)
      BY DEF Send, At
    <3> QED
      BY <3>2, <3>3, <1>2 DEF LimitInv, SentIsRecorded
  <2>2. CASE r # s
    BY <2>2, <1>2 DEF LimitInv, AlertsTyped, SentIsRecorded
  <2> QED
    BY <2>1, <2>2
<1>6. PassedIsFree'
  BY <1>2, <1>4 DEF LimitInv, AlertsTyped, PassedIsFree, At
<1> QED
  BY <1>3, <1>5, <1>6 DEF LimitInv

LEMMA LimitSendFails ==
    ASSUME LimitInv, NEW s \in Senders, SendFails(s)
    PROVE  LimitInv'
<1>1. sender' = [sender EXCEPT ![s] = Idle] /\ UNCHANGED <<lastSent, sentBy>>
  BY DEF SendFails
<1>2. \A k \in Kinds : lastSent[k] <= sentBy[s][k]
  BY NotRecording DEF SendFails
<1> QED
  BY <1>1, <1>2 DEF LimitInv, AlertsTyped, SentIsRecorded, PassedIsFree, Idle, At, Kinds

LEMMA LimitRecord ==
    ASSUME LimitInv, NEW s \in Senders, Record(s)
    PROVE  LimitInv'
<1> DEFINE k == sender[s].kind
<1>1. k \in Kinds /\ sender[s] = At("record", k)
  BY DEF LimitInv, AlertsTyped, Record, At
<1>2. /\ sender' = [sender EXCEPT ![s] = Idle]
      /\ lastSent' = [lastSent EXCEPT ![k] = 0]
      /\ sentBy' = sentBy
  BY DEF Record
<1>3. AlertsTyped'
  BY <1>1, <1>2, HourIsPositive DEF LimitInv, AlertsTyped, Ages, Idle, Kinds
<1>4. SentIsRecorded'
  <2> SUFFICES ASSUME NEW r \in Senders, NEW j \in Kinds, sender'[r] # At("record", j)
               PROVE  lastSent'[j] <= sentBy[r][j]
    BY <1>2 DEF SentIsRecorded
  <2>0. sentBy[r][j] \in Nat
    BY HourIsPositive DEF LimitInv, AlertsTyped, Ages
  <2>1. CASE j = k
    BY <2>0, <2>1, <1>1, <1>2 DEF LimitInv, AlertsTyped
  <2>2. CASE j # k
    <3>1. lastSent'[j] = lastSent[j]
      BY <2>2, <1>1, <1>2 DEF LimitInv, AlertsTyped
    <3>2. sender[r] # At("record", j)
      <4>1. CASE r = s
        BY <4>1, <1>1, <2>2 DEF At
      <4>2. CASE r # s
        BY <4>2, <1>2 DEF LimitInv, AlertsTyped
      <4> QED
        BY <4>1, <4>2
    <3> QED
      BY <3>1, <3>2 DEF LimitInv, SentIsRecorded
  <2> QED
    BY <2>1, <2>2
<1>5. PassedIsFree'
  BY <1>2 DEF LimitInv, AlertsTyped, PassedIsFree, Idle
<1> QED
  BY <1>3, <1>4, <1>5 DEF LimitInv

LEMMA LimitTick == LimitInv /\ Tick => LimitInv'
<1> SUFFICES ASSUME LimitInv, Tick PROVE LimitInv'
  OBVIOUS
<1>1. /\ lastSent' = [k \in Kinds |-> Older(lastSent[k])]
      /\ sentBy' = [s \in Senders |-> [k \in Kinds |-> Older(sentBy[s][k])]]
      /\ sender' = sender
  BY DEF Tick
<1>2. \A a \in Ages : Older(a) \in Ages
  BY HourIsPositive DEF Ages, Older
<1>3. \A a, b \in Ages : a <= b => Older(a) <= Older(b)
  BY HourIsPositive DEF Ages, Older
<1>4. AlertsTyped'
  BY <1>1, <1>2 DEF LimitInv, AlertsTyped
<1>5. SentIsRecorded'
  <2> SUFFICES ASSUME NEW s \in Senders, NEW k \in Kinds, sender[s] # At("record", k)
               PROVE  lastSent'[k] <= sentBy'[s][k]
    BY <1>1 DEF SentIsRecorded
  <2>1. lastSent[k] \in Ages /\ sentBy[s][k] \in Ages /\ lastSent[k] <= sentBy[s][k]
    BY DEF LimitInv, AlertsTyped, SentIsRecorded
  <2> QED
    BY <2>1, <1>1, <1>3
<1>6. PassedIsFree'
  <2> SUFFICES ASSUME NEW s \in Senders, sender[s].at = "send"
               PROVE  sentBy'[s][sender[s].kind] = Hour
    BY <1>1 DEF PassedIsFree
  <2>1. sender[s].kind \in Kinds /\ sentBy[s][sender[s].kind] = Hour
    BY DEF LimitInv, AlertsTyped, PassedIsFree
  <2> QED
    BY <2>1, <1>1, HourIsPositive DEF Older
<1> QED
  BY <1>4, <1>5, <1>6 DEF LimitInv

LEMMA LimitNext == LimitInv /\ [Next]_vars => LimitInv'
<1> SUFFICES ASSUME LimitInv, [Next]_vars PROVE LimitInv'
  OBVIOUS
<1>1. ASSUME NEW s \in Senders, Alert(s) PROVE LimitInv'
  BY <1>1, LimitCheck, LimitSend, LimitSendFails, LimitRecord DEF Alert
<1>2. CASE TakeChange
  <2>1. /\ "alertLoop" \in Senders /\ AlertFor(Head(changes)) \in Kinds
        /\ sender["alertLoop"] = Idle
        /\ sender' = [sender EXCEPT !["alertLoop"] = At("check", AlertFor(Head(changes)))]
        /\ UNCHANGED <<lastSent, sentBy>>
    BY <1>2 DEF TakeChange, AlertFor, Senders, Kinds
  <2> HIDE DEF AlertFor
  <2> QED
    BY <2>1, LimitBegins
<1>3. ASSUME NEW kind \in ControlKinds, ControlAlerts(kind) PROVE LimitInv'
  <2>1. /\ "controlLoop" \in Senders /\ kind \in Kinds
        /\ sender["controlLoop"] = Idle
        /\ sender' = [sender EXCEPT !["controlLoop"] = At("check", kind)]
        /\ UNCHANGED <<lastSent, sentBy>>
    BY <1>3, ControlKindsAssumption DEF ControlAlerts, Senders
  <2> QED
    BY <2>1, LimitBegins
<1>4. CASE Tick
  BY <1>4, LimitTick
<1>5. CASE Restart
  <2>1. /\ sender' = [s \in Senders |-> Idle] /\ lastSent' = NoAlerts
        /\ sentBy' = [s \in Senders |-> NoAlerts]
    BY <1>5 DEF Restart
  <2> QED
    BY <2>1, HourIsPositive DEF LimitInv, AlertsTyped, SentIsRecorded, PassedIsFree, NoAlerts,
       Never, Idle, Ages, Kinds, At
<1>6. CASE UNCHANGED <<sender, lastSent, sentBy>>
  BY <1>6 DEF LimitInv, AlertsTyped, SentIsRecorded, PassedIsFree
<1>7. \/ \E s \in Senders : Alert(s)
      \/ TakeChange
      \/ \E kind \in ControlKinds : ControlAlerts(kind)
      \/ Tick \/ Restart
      \/ UNCHANGED <<sender, lastSent, sentBy>>
  BY DEF Next, vars, AlertLoop, Senders, Transition, GetUpdates, HandleUpdate, Operator
<1> QED
  BY <1>1, <1>2, <1>3, <1>4, <1>5, <1>6, <1>7

\* No goroutine sends two alerts of a kind within an hour, although the check
\* and the record are made under two locks with the message in between.
THEOREM GoroutineIsLimited == Spec => OnceAnHourEach
<1>1. Init => LimitInv
  BY LimitInit DEF Init
<1>2. LimitInv /\ [Next]_vars =>
          [\A s \in Senders : Send(s) => sentBy[s][sender[s].kind] = Hour]_vars
  BY DEF LimitInv, PassedIsFree, Send
<1> QED
  BY <1>1, <1>2, LimitNext, PTL DEF Spec, OnceAnHourEach

-------------------------------------------------------------------------------
(* Types.                                                                     *)

Running == Regimes \cup {"SAFE"}
Changes == [from : Regimes \cup {"IDLE", "SAFE"}, to : Running]

ChangesTyped ==
    /\ state \in Regimes \cup {"IDLE", "SAFE"}
    /\ changes \in Seq(Changes)
    /\ Len(changes) <= ChanCap
    /\ told \in BOOLEAN /\ lost \in BOOLEAN

HandledTyped ==
    /\ arrived <= MaxUpdates
    /\ handled \subseteq 1..MaxUpdates
    /\ handledNow \subseteq handled
    /\ handledTwice \in BOOLEAN

TypeInv == PollInv /\ LimitInv /\ ChangesTyped /\ HandledTyped

LEMMA TypesOfInv == TypeInv => TypeOK
<1> SUFFICES ASSUME TypeInv PROVE TypeOK
  OBVIOUS
<1>1. /\ MaxUpdates \in Nat /\ arrived \in Nat /\ arrived <= MaxUpdates
      /\ offset \in 0..(arrived + 1) /\ confirmed \in 1..(arrived + 1)
  BY TelegramConfig DEF TypeInv, PollInv, NumbersTyped, HandledTyped
<1>2. arrived \in 0..MaxUpdates /\ offset \in 0..(MaxUpdates + 1)
      /\ confirmed \in 1..(MaxUpdates + 1)
  BY <1>1
<1>3. \A i \in DOMAIN batch : batch[i] \in 1..MaxUpdates
  <2>1. Expected \in Nat /\ Expected >= 1
    BY ExpectedIs DEF TypeInv, PollInv
  <2>2. /\ batch \in Seq(Nat) /\ Expected + Len(batch) <= arrived + 1
        /\ \A i \in 1..Len(batch) : batch[i] = Expected + i - 1
    BY DEF TypeInv, PollInv, BatchFollows
  <2>3. DOMAIN batch = 1..Len(batch) /\ Len(batch) \in Nat
    BY <2>2
  <2> SUFFICES ASSUME NEW i \in 1..Len(batch) PROVE batch[i] \in 1..MaxUpdates
    BY <2>3
  <2> QED
    BY <1>1, <2>1, <2>2, <2>3
<1>4. \A i \in DOMAIN changes : changes[i] \in Changes
  BY DEF TypeInv, ChangesTyped
<1> QED
  BY <1>2, <1>3, <1>4 DEF TypeInv, ChangesTyped, HandledTyped, LimitInv, AlertsTyped, Ages,
     Changes, Running, TypeOK

LEMMA EmptyChanges == <<>> \in Seq(Changes) /\ Len(<<>>) <= ChanCap
BY TelegramConfig

LEMMA TypeInit == Init => TypeInv
<1> SUFFICES ASSUME Init PROVE TypeInv
  OBVIOUS
<1>1. PollInv /\ LimitInv
  BY PollInit, LimitInit DEF Init
<1>2. ChangesTyped
  <2>1. state = "IDLE" /\ changes = <<>> /\ told \in BOOLEAN /\ lost \in BOOLEAN
    BY Zenon DEF Init
  <2> QED
    BY <2>1, EmptyChanges DEF ChangesTyped
<1>3. HandledTyped
  <2>1. arrived = 0 /\ handled = {} /\ handledNow = {} /\ handledTwice \in BOOLEAN
    BY Zenon DEF Init
  <2> QED
    BY <2>1, TelegramConfig DEF HandledTyped
<1> QED
  BY <1>1, <1>2, <1>3 DEF TypeInv

LEMMA ChangesNext == ChangesTyped /\ [Next]_vars => ChangesTyped'
<1> SUFFICES ASSUME ChangesTyped, [Next]_vars PROVE ChangesTyped'
  OBVIOUS
<1>1. ASSUME NEW to \in Running, Transition(to) PROVE ChangesTyped'
  <2> DEFINE change == [from |-> state, to |-> to]
  <2>1. state' = to /\ change \in Changes
    BY <1>1 DEF Transition, ChangesTyped, Changes, Running
  <2>2. changes' \in Seq(Changes) /\ Len(changes') <= ChanCap
    <3>1. CASE Len(changes) < ChanCap
      <4>1. changes' = Append(changes, change)
        BY <3>1, <1>1 DEF Transition
      <4> HIDE DEF change
      <4> QED
        BY <4>1, <3>1, <2>1, TelegramConfig DEF ChangesTyped
    <3>2. CASE ~(Len(changes) < ChanCap)
      BY <3>2, <1>1 DEF Transition, ChangesTyped
    <3> QED
      BY <3>1, <3>2
  <2>3. told' \in BOOLEAN /\ lost' \in BOOLEAN
    BY <1>1, Zenon DEF Transition, ChangesTyped
  <2> QED
    BY <2>1, <2>2, <2>3 DEF ChangesTyped, Running
<1>2. CASE TakeChange
  <2>1. /\ changes # <<>> /\ changes' = Tail(changes)
        /\ UNCHANGED <<state, told, lost>>
    BY <1>2 DEF TakeChange
  <2>2. changes' \in Seq(Changes) /\ Len(changes') = Len(changes) - 1
    BY <2>1 DEF ChangesTyped
  <2> QED
    BY <2>1, <2>2, TelegramConfig DEF ChangesTyped
<1>3. ASSUME NEW s \in Senders, Alert(s) PROVE ChangesTyped'
  <2>1. UNCHANGED <<state, changes>>
    BY <1>3 DEF Alert, Check, Send, SendFails, Record
  <2>2. told' \in BOOLEAN /\ lost' \in BOOLEAN
    BY <1>3, Zenon DEF Alert, Check, Send, SendFails, Record, ChangesTyped
  <2> QED
    BY <2>1, <2>2 DEF ChangesTyped
<1>4. CASE Restart
  <2>1. state' = "IDLE" /\ changes' = <<>> /\ told' \in BOOLEAN /\ lost' \in BOOLEAN
    BY <1>4, Zenon DEF Restart
  <2> QED
    BY <2>1, EmptyChanges DEF ChangesTyped
<1>5. CASE UNCHANGED <<state, changes, told, lost>>
  BY <1>5 DEF ChangesTyped
<1>6. \/ \E to \in Running : Transition(to)
      \/ \E s \in Senders : Alert(s)
      \/ TakeChange \/ Restart
      \/ UNCHANGED <<state, changes, told, lost>>
  BY DEF Next, vars, AlertLoop, Senders, Running, ControlAlerts, Tick, GetUpdates,
     HandleUpdate, Operator
<1> QED
  BY <1>1, <1>2, <1>3, <1>4, <1>5, <1>6

LEMMA HandledNext == PollInv /\ HandledTyped /\ [Next]_vars => HandledTyped'
<1> SUFFICES ASSUME PollInv, HandledTyped, [Next]_vars PROVE HandledTyped'
  OBVIOUS
<1>1. CASE HandleUpdate
  <2>1. /\ handled' = handled \cup {Head(batch)}
        /\ handledNow' = handledNow \cup {Head(batch)}
        /\ arrived' = arrived
    BY <1>1 DEF HandleUpdate
  <2>2. handledTwice' \in BOOLEAN
    BY <1>1, Zenon DEF HandleUpdate, HandledTyped
  <2>3. Head(batch) \in 1..MaxUpdates
    <3>1. Expected \in Nat /\ Expected >= 1
      BY ExpectedIs DEF PollInv
    <3>2. /\ batch \in Seq(Nat) /\ batch # <<>> /\ Expected + Len(batch) <= arrived + 1
          /\ \A i \in 1..Len(batch) : batch[i] = Expected + i - 1
      BY <1>1 DEF PollInv, BatchFollows, HandleUpdate
    <3>3. Len(batch) \in Nat /\ Len(batch) >= 1 /\ Head(batch) = batch[1]
      BY <3>2
    <3>4. Head(batch) = Expected
      BY <3>1, <3>2, <3>3
    <3>5. arrived \in Nat /\ arrived <= MaxUpdates /\ MaxUpdates \in Nat
      BY TelegramConfig DEF PollInv, NumbersTyped, HandledTyped
    <3> QED
      BY <3>1, <3>2, <3>3, <3>4, <3>5
  <2> QED
    BY <2>1, <2>2, <2>3 DEF HandledTyped
<1>2. CASE Operator
  BY <1>2, TelegramConfig DEF Operator, HandledTyped, PollInv, NumbersTyped
<1>3. CASE Restart
  BY <1>3 DEF Restart, HandledTyped
<1>4. CASE ~HandleUpdate /\ ~Operator /\ ~Restart
  <2>1. UNCHANGED <<arrived, handled, handledNow, handledTwice>>
    BY <1>4, OthersKeepPolling DEF GetUpdates
  <2> QED
    BY <2>1 DEF HandledTyped
<1> QED
  BY <1>1, <1>2, <1>3, <1>4

\* Types: the channel never holds more changes than it has room for, and no
\* update is handled that was not sent.
THEOREM AlertTypes == Spec => []TypeOK
<1>1. TypeInv /\ [Next]_vars => TypeInv'
  BY PollNext, LimitNext, ChangesNext, HandledNext DEF TypeInv
<1> QED
  BY <1>1, TypeInit, TypesOfInv, PTL DEF Spec

===============================================================================
