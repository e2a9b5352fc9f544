----------------------------- MODULE MonitorFeed -----------------------------
(***************************************************************************)
(* How one-minute bars reach the live monitor (src/live_monitor): the      *)
(* producer that repairs gaps before it publishes a bar (command.py), the  *)
(* queue, the engine that records a bar and only then looks at it          *)
(* (engine.py), the heartbeats that overtake the queue, and a process that *)
(* may end at any step and start again from the recorded bars.             *)
(*                                                                         *)
(* One provider, one symbol, one-minute decisions.  Minutes are numbered   *)
(* from 1; a bar is the number of the minute it covers.                    *)
(***************************************************************************)
EXTENDS Integers, Sequences, FiniteSets

CONSTANTS
  MaxMinute,    \* bound: minutes the market closes
  MaxQueue,     \* bound: events waiting when the producer adds another
  MaxSessions,  \* bound: monitor processes that ever run
  MaxGap,       \* MAXIMUM_REPAIR_BARS
  RepairFaults  \* the historical endpoint may fail or miss a minute

ASSUME FeedAssumption ==
  /\ {MaxMinute, MaxQueue, MaxSessions, MaxGap} \subseteq Nat
  /\ RepairFaults \in BOOLEAN

Required == 2   \* contiguous bars that make a one-minute scope healthy

VARIABLES
  session,    \* number of the running process
  minute,     \* last minute the market has closed
  lastEnd,    \* last_bar_end of the producer, 0 for none
  blocked,    \* continuity_blocked
  repairing,  \* the bar that waits for the gap before it to be repaired, or 0
  transport,  \* transport_healthy
  queue,      \* events between producer and engine
  health,     \* health of the provider, as the engine has it
  continuity, \* _continuity_healthy
  ledger,     \* bars this process has accepted
  repaired,   \* those of them that come from a repair
  looking,    \* the bar that is recorded and not yet looked at, or 0
  lastRisk,   \* _last_risk_end, 0 for none
  evaluated,  \* _evaluated_buckets
  pending,    \* _pending: bars whose decision waits for a later quote
  recorded,   \* monitor_finalized_bars, of every session
  watched,    \* history: bars whose stops and targets have been looked at
  repairs,    \* history: bars that any process has recorded from a repair
  orphans,    \* history: bars that were recorded, and not looked at, when their process ended
  entries     \* history: bars on which an entry could be issued, with the newest bar known then

producer == <<lastEnd, blocked, repairing, transport>>
engine   == <<health, continuity, ledger, repaired, looking, lastRisk, evaluated, pending>>
history  == <<watched, repairs, orphans, entries>>
vars     == <<session, minute, producer, queue, engine, recorded, history>>

Minutes  == 1..MaxMinute
Statuses == {"warming", "healthy", "reconnecting", "stale"}
LastOf(bars) == IF bars = {} THEN 0 ELSE CHOOSE m \in bars : \A n \in bars : n <= m

Bar(m, verified) == [kind |-> "bar", minute |-> m, verified |-> verified]
Health(status)   == [kind |-> "health", status |-> status]
Quote            == [kind |-> "quote"]
Event == [kind : {"bar"}, minute : Minutes, verified : BOOLEAN]
           \cup [kind : {"health"}, status : Statuses] \cup {Quote}

TypeOK ==
  /\ session \in Nat /\ minute \in 0..MaxMinute
  /\ lastEnd \in 0..MaxMinute /\ repairing \in 0..MaxMinute
  /\ blocked \in BOOLEAN /\ transport \in BOOLEAN
  /\ queue \in Seq(Event)
  /\ health \in Statuses /\ continuity \in BOOLEAN
  /\ ledger \subseteq Minutes /\ repaired \subseteq ledger
  /\ looking \in 0..MaxMinute /\ lastRisk \in 0..MaxMinute
  /\ evaluated \subseteq ledger /\ pending \subseteq evaluated
  /\ recorded \subseteq Minutes
  /\ watched \subseteq recorded /\ repairs \subseteq recorded /\ orphans \subseteq recorded
  /\ entries \subseteq recorded \X recorded

\* A process starts from the newest recorded bar and otherwise empty.
StartsFrom(last) ==
  /\ lastEnd' = last /\ blocked' = FALSE /\ repairing' = 0
  /\ transport' = FALSE /\ queue' = <<>>
  /\ health' = "warming" /\ continuity' = FALSE
  /\ ledger' = {} /\ repaired' = {} /\ looking' = 0 /\ lastRisk' = 0
  /\ evaluated' = {} /\ pending' = {}

Init ==
  /\ session = 1 /\ minute = 0
  /\ lastEnd = 0 /\ blocked = FALSE /\ repairing = 0
  /\ transport = FALSE /\ queue = <<>>
  /\ health = "warming" /\ continuity = FALSE
  /\ ledger = {} /\ repaired = {} /\ looking = 0 /\ lastRisk = 0
  /\ evaluated = {} /\ pending = {}
  /\ recorded = {} /\ watched = {} /\ repairs = {} /\ orphans = {} /\ entries = {}

-----------------------------------------------------------------------------
(* The provider's stream, one message at a time, and the producer.         *)

\* A minute closes and its bar is never delivered: no connection, no process,
\* or no bar for that minute.
BarLost ==
  /\ minute < MaxMinute
  /\ minute' = minute + 1
  /\ UNCHANGED <<session, lastEnd, blocked, repairing, transport, queue, engine, recorded, history>>

Receives == repairing = 0 /\ Len(queue) < MaxQueue

Gap(m) == IF lastEnd = 0 THEN 0 ELSE m - 1 - lastEnd

BarArrives ==
  /\ Receives
  /\ minute < MaxMinute
  /\ minute' = minute + 1
  /\ transport' = TRUE
  /\ \/ /\ Gap(minute') = 0
        /\ lastEnd' = minute'
        /\ queue' = Append(queue, Bar(minute', FALSE))
        /\ UNCHANGED <<blocked, repairing>>
     \/ /\ Gap(minute') \in 1..MaxGap
        /\ repairing' = minute'
        /\ queue' = Append(queue, Health("reconnecting"))
        /\ UNCHANGED <<lastEnd, blocked>>
     \/ /\ Gap(minute') > MaxGap
        /\ blocked' = TRUE
        /\ queue' = Append(queue, Health("stale"))
        /\ UNCHANGED <<lastEnd, repairing>>
  /\ UNCHANGED <<session, engine, recorded, history>>

RepairSucceeds ==
  /\ repairing # 0
  /\ queue' = queue \o [i \in 1..Gap(repairing) |-> Bar(lastEnd + i, TRUE)]
                    \o <<Health("healthy"), Bar(repairing, FALSE)>>
  /\ blocked' = FALSE
  /\ lastEnd' = repairing
  /\ repairing' = 0
  /\ UNCHANGED <<session, minute, transport, engine, recorded, history>>

\* Mutant of RepairFails: the watermark moves past the gap.
RepairGivesUp ==
  /\ RepairFaults
  /\ repairing # 0
  /\ queue' = queue \o <<Health("stale"), Bar(repairing, FALSE)>>
  /\ blocked' = TRUE
  /\ lastEnd' = repairing
  /\ repairing' = 0
  /\ UNCHANGED <<session, minute, transport, engine, recorded, history>>

\* The bar is dropped and the watermark kept: the next bar retries.
RepairFails ==
  /\ RepairFaults
  /\ repairing # 0
  /\ queue' = Append(queue, Health("stale"))
  /\ blocked' = TRUE
  /\ repairing' = 0
  /\ UNCHANGED <<session, minute, lastEnd, transport, engine, recorded, history>>

\* A quote, or any other message that is neither a bar nor health.
QuoteArrives ==
  /\ Receives
  /\ transport' = TRUE
  /\ queue' = Append(queue, Quote)
  /\ UNCHANGED <<session, minute, lastEnd, blocked, repairing, engine, recorded, history>>

\* The connection breaks, is made again, or subscribes: news of a healthy
\* provider is dropped while a gap is open.
HealthArrives ==
  /\ Receives
  /\ \E status \in {"reconnecting", "warming", "healthy"} :
       /\ transport' = IF status = "warming" THEN transport ELSE status = "healthy"
       /\ queue' = IF status = "healthy" /\ blocked THEN queue ELSE Append(queue, Health(status))
  /\ UNCHANGED <<session, minute, lastEnd, blocked, repairing, engine, recorded, history>>

-----------------------------------------------------------------------------
(* The engine.                                                             *)

\* Mutant of ApplyHealth: decisions that wait survive the interruption.
ApplyHealthOnly(status) ==
  /\ health' = status
  /\ continuity' = (continuity /\ status = "healthy")
  /\ UNCHANGED pending

ApplyHealth(status) ==
  /\ health' = status
  /\ IF status = "healthy"
       THEN UNCHANGED <<continuity, pending>>
       ELSE continuity' = FALSE /\ pending' = {}

\* The decisions on these bars may be entries while provider and continuity are
\* healthy.
Enter(bars, newest) ==
  entries' = IF health' = "healthy" /\ continuity' THEN entries \cup (bars \X {newest}) ELSE entries

Pop == looking = 0 /\ queue # <<>> /\ queue' = Tail(queue)

ConsumeHealth ==
  /\ Pop
  /\ Head(queue).kind = "health"
  /\ ApplyHealth(Head(queue).status)
  /\ UNCHANGED <<session, minute, producer, ledger, repaired, looking, lastRisk, evaluated,
                 recorded, history>>

\* Every ten seconds, and after thirty without a message, from the state the
\* producer has by now reached, past whatever waits in the queue.
Heartbeat ==
  /\ looking = 0
  /\ \E silent \in BOOLEAN :
       ApplyHealth(IF blocked \/ silent THEN "stale"
                   ELSE IF transport THEN "healthy" ELSE "reconnecting")
  /\ UNCHANGED <<session, minute, producer, queue, ledger, repaired, looking, lastRisk, evaluated,
                 recorded, history>>

\* A quote decides the waiting bars that were available before it.
ConsumeQuote ==
  /\ Pop
  /\ Head(queue).kind = "quote"
  /\ health' = IF health = "warming" THEN "healthy" ELSE health
  /\ continuity' = continuity
  /\ \E newest \in 0..MaxMinute :
       LET due == {m \in pending : m <= newest}
       IN  /\ pending' = pending \ due
           /\ Enter(due, LastOf(ledger))
  /\ UNCHANGED <<session, minute, producer, ledger, repaired, looking, lastRisk,
                 evaluated, recorded, watched, repairs, orphans>>

\* The bar is accepted by the ledger and recorded.  The producer publishes
\* minutes in order and once, so the ledger meets no duplicate or revision here.
RecordBar ==
  /\ Pop
  /\ Head(queue).kind = "bar"
  /\ looking' = Head(queue).minute
  /\ ledger' = ledger \cup {Head(queue).minute}
  /\ repaired' = IF Head(queue).verified THEN repaired \cup {Head(queue).minute} ELSE repaired
  /\ recorded' = recorded \cup {Head(queue).minute}
  /\ repairs' = IF Head(queue).verified THEN repairs \cup {Head(queue).minute} ELSE repairs
  /\ UNCHANGED <<session, minute, producer, health, continuity, lastRisk, evaluated, pending,
                 watched, orphans, entries>>

ContiguousTail == {looking - i : i \in 0..Required - 1} \subseteq ledger

MonitorRiskWhenHealthy ==   \* mutant of MonitorRisk: a repaired bar is treated like any other
  IF health = "healthy" /\ continuity' /\ looking > lastRisk
    THEN lastRisk' = looking /\ watched' = watched \cup {looking}
    ELSE UNCHANGED <<lastRisk, watched>>

MonitorRisk ==
  IF (looking \in repaired \/ (health = "healthy" /\ continuity')) /\ looking > lastRisk
    THEN lastRisk' = looking /\ watched' = watched \cup {looking}
    ELSE UNCHANGED <<lastRisk, watched>>

\* A repaired bar is consumed without a decision; another one is decided at
\* once, if a quote is already newer than it, or waits for one.
Decide ==
  LET due == ledger \ evaluated
  IN  /\ evaluated' = ledger
      /\ IF looking \in repaired
           THEN UNCHANGED <<pending, entries>>
           ELSE \/ pending' = pending \cup due /\ UNCHANGED entries
                \/ /\ Enter(due, looking)
                   /\ UNCHANGED pending

LookAtBar ==
  /\ looking # 0
  /\ health' = health
  /\ continuity' = ContiguousTail
  /\ MonitorRisk
  /\ Decide
  /\ looking' = 0
  /\ UNCHANGED <<session, minute, producer, queue, ledger, repaired, recorded, repairs, orphans>>

-----------------------------------------------------------------------------
\* The process stops, fails or is killed, and another one starts.  No process will
\* look at a bar that this one had in hand: the next starts after what is recorded.
Restart ==
  /\ session < MaxSessions
  /\ session' = session + 1
  /\ StartsFrom(LastOf(recorded))
  /\ orphans' = IF looking = 0 THEN orphans ELSE orphans \cup {looking}
  /\ UNCHANGED <<minute, recorded, watched, repairs, entries>>

Next ==
  \/ BarLost \/ BarArrives \/ RepairSucceeds \/ RepairFails \/ QuoteArrives \/ HealthArrives
  \/ ConsumeHealth \/ Heartbeat \/ ConsumeQuote \/ RecordBar \/ LookAtBar
  \/ Restart

Spec == Init /\ [][Next]_vars

-----------------------------------------------------------------------------
(* Properties.                                                             *)

\* "It requests the exact missing expected minutes", "a failed repair retains
\* the old watermark": between two recorded minutes every minute is recorded,
\* over lost bars, failed repairs and processes that end with a full queue.
NoHoleInRecord ==
  \A first, last \in recorded : \A m \in first..last : m \in recorded

\* "Pending pre-gap decisions are discarded" and "the app never turns a repaired
\* historical bar into a retrospective entry": an entry is issued on no repaired
\* bar and on none that is older than one.
EntryIsCausal ==
  [][\A e \in entries' \ entries : \A m \in repaired' : m < e[1]]_vars

\* "Repaired historical stop/target crossings are labeled delayed observations":
\* over all processes, stops and targets are watched on one bar after the other,
\* never twice and never on a bar older than one that was watched, and every bar
\* recorded from a repair is watched, whatever health it was found in, except the
\* one that a process had recorded and not yet looked at when it ended.
WatchedInOrder ==
  [][/\ \A m \in watched' \ watched, n \in watched : n < m
     /\ repairs' \subseteq watched' \cup orphans' \cup {looking'}]_vars

=============================================================================
