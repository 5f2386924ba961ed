----------------------------- MODULE TelegramProps -----------------------------
(* What the operator may rely on.                                             *)
EXTENDS Telegram

TypeOK ==
    /\ state \in Regimes \cup {"IDLE", "SAFE"}
    /\ \A i \in DOMAIN changes : changes[i] \in [from : Regimes \cup {"IDLE", "SAFE"},
                                                 to : Regimes \cup {"SAFE"}]
    /\ Len(changes) <= ChanCap
    /\ sender \in [Senders -> [at : {"idle", "check", "send", "record"}, kind : Kinds]]
    /\ lastSent \in [Kinds -> 0..Hour]
    /\ sentBy \in [Senders -> [Kinds -> 0..Hour]]
    /\ offset \in 0..(MaxUpdates + 1)
    /\ \A i \in DOMAIN batch : batch[i] \in 1..MaxUpdates
    /\ arrived \in 0..MaxUpdates
    /\ confirmed \in 1..(MaxUpdates + 1)
    /\ handled \subseteq 1..MaxUpdates
    /\ handledNow \subseteq handled
    /\ {told, lost, handledTwice} \subseteq BOOLEAN

\* The rate limit, as far as it holds: no goroutine sends an alert of a kind
\* twice in an hour, so there are at most as many as goroutines that alert.
OnceAnHourEach ==
    [][\A s \in Senders :
          Send(s) => sentBy[s][sender[s].kind] = Hour]_vars

\* README.md:219, bot.go:287: one alert of a kind in an hour, whoever sends it.
\* Does not hold: both goroutines may pass the check before either records.
OnceAnHour ==
    [][\A s, r \in Senders :
          Send(s) => sentBy[r][sender[s].kind] = Hour]_vars

\* A stay in SAFE mode is reported, unless its message was lost: there has been
\* a failure alert since it began or in the hour before.
SafeIsTold == state = "SAFE" ~> told \/ lost \/ state # "SAFE"

\* A command that Telegram will not deliver again has been handled, whenever
\* the process was restarted.
NoCommandLost == \A i \in 1..(confirmed - 1) : i \in handled

\* A command is not carried out twice by the same process.
NoCommandTwice == ~handledTwice

\* The update that the poller handles next: what a fetch would begin with.
Expected == Later(offset, confirmed)

Queue == INSTANCE CommandQueue
         WITH sent <- arrived, next <- Expected, behind <- confirmed, done <- handled

\* Polls, lost answers, batches and restarts together are a queue: commands are
\* carried out in the order sent, none is passed over, and a restart goes back
\* to what has not been confirmed and no further.
ImplementsQueue == Queue!Spec

===============================================================================
