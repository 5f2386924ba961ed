------------------------------- MODULE Telegram -------------------------------
(* What the operator hears, and how commands reach the controller: the state  *)
(* manager with its channel of changes, the alert loop, the bot's rate limit, *)
(* which the control loop passes as well, and the loop that polls for         *)
(* commands, all in a process that may be restarted.                          *)
EXTENDS Integers, Sequences

CONSTANTS
    Regimes,      \* the states other than IDLE and SAFE
    ChanCap,      \* how many changes wait for the alert loop at most: 10
    Hour,         \* the time between two alerts of a kind, in ticks
    MaxUpdates,   \* bound: how many commands the operator sends
    ControlKinds  \* bound: the kinds of alert that the control loop sends

ASSUME TelegramConfig ==
    /\ Regimes # {} /\ {"IDLE", "SAFE"} \cap Regimes = {}
    /\ {ChanCap, Hour, MaxUpdates} \subseteq Nat \ {0}

VARIABLES
    state,        \* StateManager.current
    changes,      \* stateChangeCh
    sender,       \* where each goroutine that alerts is in Bot.Alert
    lastSent,     \* Bot.lastSent, as ages
    offset,       \* pollLoop: the first update to ask for
    batch,        \* pollLoop: updates fetched and not yet handled
    arrived,      \* Telegram: how many updates there have been
    confirmed,    \* Telegram: updates below are not delivered again
    sentBy,       \* auxiliary: when each goroutine last sent an alert of a kind
    told, lost,   \* auxiliary: of this stay in SAFE, see Transition and Send
    handled,      \* auxiliary: the updates that have ever been handled
    handledTwice, \* auxiliary: one process has handled an update again
    handledNow    \* auxiliary: the updates that this process has handled

alerting == <<state, changes, sender, lastSent, sentBy, told, lost>>
polling  == <<offset, batch, arrived, confirmed, handled, handledTwice, handledNow>>
vars == <<alerting, polling>>

Kinds   == {"mode_change", "failure", "recovery"}
Senders == {"alertLoop", "controlLoop"}

ASSUME ControlKindsAssumption == ControlKinds \subseteq Kinds

Idle           == [at |-> "idle", kind |-> "mode_change"]
At(pc, kind)   == [at |-> pc, kind |-> kind]
Never          == Hour    \* an age of an hour or more does not limit anything
NoAlerts       == [k \in Kinds |-> Never]

-------------------------------------------------------------------------------
(* StateManager and alertLoop                                                 *)

\* Mutant: the channel has room for one change more.
TransitionBeyond(to) ==
    /\ to # state
    /\ state' = to
    /\ changes' = IF Len(changes) <= ChanCap
                  THEN Append(changes, [from |-> state, to |-> to])
                  ELSE changes
    /\ UNCHANGED <<sender, lastSent, sentBy, told, lost, polling>>

\* Transition, called by the loops and by commands: atomic under the lock.
\* The change is dropped if the channel is full.
Transition(to) ==
    /\ to # state
    /\ state' = to
    /\ changes' = IF Len(changes) < ChanCap
                  THEN Append(changes, [from |-> state, to |-> to])
                  ELSE changes
    /\ IF to = "SAFE"
       THEN /\ told' = (\E s \in Senders : sentBy[s]["failure"] < Hour)
            /\ lost' = (Len(changes) = ChanCap)
       ELSE UNCHANGED <<told, lost>>
    /\ UNCHANGED <<sender, lastSent, sentBy, polling>>

AlertFor(change) ==
    CASE change.to = "SAFE"   -> "failure"
      [] change.from = "SAFE" -> "recovery"
      [] OTHER                -> "mode_change"

\* Mutant: an hour of silence also after a failure alert that got lost.
CheckRecords(s) ==
    /\ sender[s].at = "check"
    /\ IF lastSent[sender[s].kind] < Hour
       THEN sender' = [sender EXCEPT ![s] = Idle] /\ UNCHANGED lastSent
       ELSE /\ sender' = [sender EXCEPT ![s].at = "send"]
            /\ lastSent' = [lastSent EXCEPT ![sender[s].kind] = 0]
    /\ UNCHANGED <<state, changes, sentBy, told, lost, polling>>

\* alertLoop takes a change, and Alert begins.
TakeChange ==
    /\ sender["alertLoop"] = Idle
    /\ changes # <<>>
    /\ sender' = [sender EXCEPT !["alertLoop"] = At("check", AlertFor(Head(changes)))]
    /\ changes' = Tail(changes)
    /\ UNCHANGED <<state, lastSent, sentBy, told, lost, polling>>

\* The alerts that the control loop sends itself: shaving, reboots, recoveries.
ControlAlerts(kind) ==
    /\ sender["controlLoop"] = Idle
    /\ sender' = [sender EXCEPT !["controlLoop"] = At("check", kind)]
    /\ UNCHANGED <<state, changes, lastSent, sentBy, told, lost, polling>>

-------------------------------------------------------------------------------
(* Bot.Alert: the limit is read and written under two locks, with the message *)
(* sent in between.                                                           *)

Check(s) ==
    /\ sender[s].at = "check"
    /\ sender' = [sender EXCEPT ![s] = IF lastSent[sender[s].kind] < Hour THEN Idle
                                       ELSE At("send", sender[s].kind)]
    /\ UNCHANGED <<state, changes, lastSent, sentBy, told, lost, polling>>

Send(s) ==
    /\ sender[s].at = "send"
    /\ sender' = [sender EXCEPT ![s].at = "record"]
    /\ sentBy' = [sentBy EXCEPT ![s][sender[s].kind] = 0]
    /\ told' = (told \/ sender[s].kind = "failure")
    /\ UNCHANGED <<state, changes, lastSent, lost, polling>>

SendFails(s) ==
    /\ sender[s].at = "send"
    /\ sender' = [sender EXCEPT ![s] = Idle]
    /\ lost' = (lost \/ (s = "alertLoop" /\ sender[s].kind = "failure"))
    /\ UNCHANGED <<state, changes, lastSent, sentBy, told, polling>>

\* Mutant: the limit is only read.
RecordNothing(s) ==
    /\ sender[s].at = "record"
    /\ sender' = [sender EXCEPT ![s] = Idle]
    /\ UNCHANGED <<state, changes, lastSent, sentBy, told, lost, polling>>

Record(s) ==
    /\ sender[s].at = "record"
    /\ lastSent' = [lastSent EXCEPT ![sender[s].kind] = 0]
    /\ sender' = [sender EXCEPT ![s] = Idle]
    /\ UNCHANGED <<state, changes, sentBy, told, lost, polling>>

Alert(s) == Check(s) \/ Send(s) \/ SendFails(s) \/ Record(s)

-------------------------------------------------------------------------------
(* pollLoop                                                                   *)

\* Mutant: the newest first.
UpdatesNewestFirst(first) == [i \in 1..(arrived - first + 1) |-> arrived - i + 1]

Updates(first) == [i \in 1..(arrived - first + 1) |-> first + i - 1]

Later(a, b) == IF a >= b THEN a ELSE b

\* Mutant: what is fetched is confirmed at once.
GetUpdatesConfirms ==
    /\ batch = <<>>
    /\ Later(offset, confirmed) <= arrived
    /\ batch' = Updates(Later(offset, confirmed))
    /\ confirmed' = arrived + 1
    /\ UNCHANGED <<alerting, offset, arrived, handled, handledTwice, handledNow>>

\* getUpdates confirms everything below offset and returns the rest; the
\* answer may get lost.
GetUpdates ==
    /\ batch = <<>>
    /\ confirmed' = Later(offset, confirmed)
    /\ batch' \in {Updates(confirmed'), <<>>}
    /\ UNCHANGED <<alerting, offset, arrived, handled, handledTwice, handledNow>>

\* Mutant: the offset stays at the update just handled.
HandleUpdateSameOffset ==
    /\ batch # <<>>
    /\ offset' = Head(batch)
    /\ handledTwice' = (handledTwice \/ Head(batch) \in handledNow)
    /\ handled' = handled \cup {Head(batch)}
    /\ handledNow' = handledNow \cup {Head(batch)}
    /\ batch' = Tail(batch)
    /\ UNCHANGED <<alerting, arrived, confirmed>>

HandleUpdate ==
    /\ batch # <<>>
    /\ offset' = Head(batch) + 1
    /\ handledTwice' = (handledTwice \/ Head(batch) \in handledNow)
    /\ handled' = handled \cup {Head(batch)}
    /\ handledNow' = handledNow \cup {Head(batch)}
    /\ batch' = Tail(batch)
    /\ UNCHANGED <<alerting, arrived, confirmed>>

-------------------------------------------------------------------------------

Operator ==
    /\ arrived < MaxUpdates
    /\ arrived' = arrived + 1
    /\ UNCHANGED <<alerting, offset, batch, confirmed, handled, handledTwice, handledNow>>

Older(age) == IF age < Hour THEN age + 1 ELSE Hour

\* A tick is long against the 40 s that a message may take, so none passes
\* between a message and its record.
Tick ==
    /\ \A s \in Senders : sender[s].at # "record"
    /\ lastSent' = [k \in Kinds |-> Older(lastSent[k])]
    /\ sentBy' = [s \in Senders |-> [k \in Kinds |-> Older(sentBy[s][k])]]
    /\ UNCHANGED <<state, changes, sender, told, lost, polling>>

\* The process ends at any moment and is started again.
Restart ==
    /\ state' = "IDLE"
    /\ changes' = <<>>
    /\ sender' = [s \in Senders |-> Idle]
    /\ lastSent' = NoAlerts
    /\ sentBy' = [s \in Senders |-> NoAlerts]
    /\ told' = FALSE
    /\ lost' = FALSE
    /\ offset' = 0
    /\ batch' = <<>>
    /\ handledNow' = {}
    /\ UNCHANGED <<arrived, confirmed, handled, handledTwice>>

Init ==
    /\ state = "IDLE"
    /\ changes = <<>>
    /\ sender = [s \in Senders |-> Idle]
    /\ lastSent = NoAlerts
    /\ sentBy = [s \in Senders |-> NoAlerts]
    /\ told = FALSE
    /\ lost = FALSE
    /\ offset = 0
    /\ batch = <<>>
    /\ arrived = 0
    /\ confirmed = 1
    /\ handled = {}
    /\ handledTwice = FALSE
    /\ handledNow = {}

AlertLoop == TakeChange \/ Alert("alertLoop")

Next ==
    \/ \E to \in Regimes \cup {"SAFE"} : Transition(to)
    \/ AlertLoop
    \/ \E kind \in ControlKinds : ControlAlerts(kind)
    \/ Alert("controlLoop")
    \/ GetUpdates \/ HandleUpdate
    \/ Operator \/ Tick \/ Restart

\* The alert loop is scheduled, and a message is sent or fails in the end.
Fairness == WF_vars(AlertLoop)

Spec == Init /\ [][Next]_vars /\ Fairness

===============================================================================
