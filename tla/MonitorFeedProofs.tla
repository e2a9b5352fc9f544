-------------------------- MODULE MonitorFeedProofs --------------------------
(***************************************************************************)
(* Theorems about the feed of the live monitor, for every number of        *)
(* minutes and processes, every length of queue and every repair bound:    *)
(* type correctness, a record of finalized bars without a hole, no         *)
(* repaired bar that is passed over, and no entry from before a repair.    *)
(***************************************************************************)
EXTENDS MonitorFeed, SequenceTheorems, TLAPS

HasLast(S) == S = {} \/ \E m \in S : \A n \in S : n <= m

LEMMA LastOfFacts ==
  ASSUME NEW S \in SUBSET Minutes, HasLast(S)
  PROVE  /\ LastOf(S) \in 0..MaxMinute
         /\ S # {} => LastOf(S) \in S /\ \A n \in S : n <= LastOf(S)
         /\ S = {} => LastOf(S) = 0
<1>1. CASE S = {}
  BY <1>1, FeedAssumption DEF LastOf, FeedAssumption
<1>2. CASE S # {}
  <2>1. PICK last \in S : \A n \in S : n <= last
    BY <1>2 DEF HasLast
  <2>2. LastOf(S) \in S /\ \A n \in S : n <= LastOf(S)
    BY <1>2, <2>1 DEF LastOf
  <2> QED
    BY <1>2, <2>2, FeedAssumption DEF Minutes, FeedAssumption
<1> QED
  BY <1>1, <1>2

LEMMA HasLastAdd ==
  ASSUME NEW S \in SUBSET Minutes, NEW m \in Minutes, HasLast(S)
  PROVE  HasLast(S \cup {m})
<1>1. CASE S = {}
  BY <1>1, FeedAssumption DEF HasLast, Minutes, FeedAssumption
<1>2. CASE S # {}
  <2>1. PICK last \in S : \A n \in S : n <= last
    BY <1>2 DEF HasLast
  <2>2. last \in Int /\ m \in Int /\ \A n \in S : n \in Int
    BY FeedAssumption DEF Minutes, FeedAssumption
  <2>3. CASE m <= last
    BY <2>1, <2>2, <2>3 DEF HasLast
  <2>4. CASE ~(m <= last)
    BY <2>1, <2>2, <2>4 DEF HasLast
  <2> QED
    BY <2>3, <2>4
<1> QED
  BY <1>1, <1>2

-----------------------------------------------------------------------------
(* Types.  What the engine remembers is in the record, and every set of    *)
(* bars it takes the last of has one.                                      *)

TypeInv ==
  /\ TypeOK
  /\ HasLast(ledger) /\ HasLast(recorded)
  /\ ledger \subseteq recorded
  /\ looking # 0 => looking \in ledger

LEMMA EventTypes ==
  /\ \A status \in Statuses : Health(status) \in Event
  /\ Quote \in Event
  /\ \A m \in Minutes, verified \in BOOLEAN : Bar(m, verified) \in Event
BY DEF Event, Health, Quote, Bar

LEMMA PairSeq == \A a, b \in Event : <<a, b>> \in Seq(Event)
<1> SUFFICES ASSUME NEW a \in Event, NEW b \in Event PROVE <<a, b>> \in Seq(Event)
  OBVIOUS
<1> HIDE DEF Event
<1> QED
  OBVIOUS

LEMMA EventSeq ==
  ASSUME NEW n \in Int, NEW f, f = [i \in 1..n |-> f[i]], \A i \in 1..n : f[i] \in Event
  PROVE  f \in Seq(Event)
<1>1. CASE n \in Nat
  <2>1. f \in [1..n -> Event]
    OBVIOUS
  <2> QED
    BY <1>1, <2>1, SeqDef
<1>2. CASE n < 0
  <2>1. 1..n = 1..0
    BY <1>2
  <2>2. f \in [1..0 -> Event]
    BY <2>1
  <2> QED
    BY <2>2, SeqDef
<1> QED
  BY <1>1, <1>2

LEMMA EventBar ==
  ASSUME NEW e \in Event, e.kind = "bar"
  PROVE  e.minute \in Minutes /\ e.verified \in BOOLEAN
BY DEF Event, Quote

LEMMA EventHealth ==
  ASSUME NEW e \in Event, e.kind = "health"
  PROVE  e.status \in Statuses
BY DEF Event, Quote

\* Popping leaves a queue of events.
LEMMA PopType ==
  ASSUME TypeOK, Pop
  PROVE  queue' \in Seq(Event) /\ Head(queue) \in Event
BY DEF TypeOK, Pop

\* An entry on bars of the ledger, with a newest bar of the ledger.
LEMMA EnterType ==
  ASSUME TypeInv, NEW bars, NEW newest, bars \subseteq ledger,
         bars # {} => newest \in ledger, Enter(bars, newest)
  PROVE  entries' \subseteq recorded \X recorded
<1>1. bars \X {newest} \subseteq recorded \X recorded
  BY DEF TypeInv
<1> QED
  BY <1>1 DEF Enter, TypeInv, TypeOK

LEMMA TypeInit == Init => TypeInv
<1> SUFFICES ASSUME Init PROVE TypeInv
  OBVIOUS
<1>1. queue \in Seq(Event)
  BY DEF Init
<1>2. 0 \in 0..MaxMinute
  BY FeedAssumption DEF FeedAssumption
<1>3. session \in Nat /\ health \in Statuses
  BY DEF Init, Required, Statuses
<1>4. HasLast(ledger) /\ HasLast(recorded) /\ ledger \subseteq recorded /\ looking = 0
  BY DEF Init, HasLast
<1>5. /\ ledger \subseteq Minutes /\ repaired \subseteq ledger /\ evaluated \subseteq ledger
      /\ pending \subseteq evaluated /\ recorded \subseteq Minutes
      /\ watched \subseteq recorded /\ repairs \subseteq recorded /\ orphans \subseteq recorded
      /\ entries \subseteq recorded \X recorded
  BY DEF Init
<1>6. TypeOK
  BY <1>1, <1>2, <1>3, <1>5 DEF Init, TypeOK
<1> QED
  BY <1>4, <1>6 DEF TypeInv

LEMMA TypeStep == TypeInv /\ [Next]_vars => TypeInv'
<1> SUFFICES ASSUME TypeInv, [Next]_vars PROVE TypeInv'
  OBVIOUS
<1> USE DEF TypeInv
<1>n. 0 \in 0..MaxMinute /\ MaxMinute \in Nat /\ MaxGap \in Nat
  BY FeedAssumption DEF FeedAssumption
<1>1. CASE BarLost
  BY <1>1, <1>n DEF BarLost, TypeOK, HasLast, engine, history, Required
<1>2. CASE BarArrives
  <2>1. minute' \in Minutes /\ minute' \in 0..MaxMinute
    BY <1>2, <1>n DEF BarArrives, TypeOK, Minutes
  <2>2. Bar(minute', FALSE) \in Event /\ Health("reconnecting") \in Event /\ Health("stale") \in Event
    BY <2>1, EventTypes DEF Statuses
  <2>3. queue' \in Seq(Event)
    <3>1. \E e \in Event : queue' = Append(queue, e)
      BY <1>2, <2>2 DEF BarArrives
    <3> QED
      BY <3>1, AppendProperties DEF TypeOK
  <2>5. lastEnd' \in 0..MaxMinute /\ repairing' \in 0..MaxMinute /\ blocked' \in BOOLEAN
    BY <1>2, <2>1 DEF BarArrives, TypeOK
  <2> QED
    BY <1>2, <2>1, <2>3, <2>5 DEF BarArrives, TypeOK, HasLast, engine, history
<1>3. CASE RepairSucceeds
  <2> DEFINE bars == [i \in 1..Gap(repairing) |-> Bar(lastEnd + i, TRUE)]
  <2>1. repairing \in Minutes /\ lastEnd \in 0..MaxMinute /\ Gap(repairing) \in Int
    BY <1>3, <1>n DEF RepairSucceeds, TypeOK, Minutes, Gap
  <2>2. \A i \in 1..Gap(repairing) : lastEnd + i \in Minutes
    BY <2>1, <1>n DEF Gap, Minutes
  <2>3. \A i \in 1..Gap(repairing) : bars[i] \in Event
    BY <2>2, EventTypes
  <2>4. bars \in Seq(Event)
    BY <2>1, <2>3, EventSeq
  <2>5. <<Health("healthy"), Bar(repairing, FALSE)>> \in Seq(Event)
    <3>1. Health("healthy") \in Event /\ Bar(repairing, FALSE) \in Event
      BY <2>1, EventTypes DEF Statuses
    <3> QED
      BY <3>1, PairSeq
  <2>6. queue' \in Seq(Event)
    <3>1. queue' = queue \o bars \o <<Health("healthy"), Bar(repairing, FALSE)>>
      BY <1>3 DEF RepairSucceeds
    <3>2. queue \in Seq(Event)
      BY DEF TypeOK
    <3> HIDE DEF bars
    <3>3. queue \o bars \in Seq(Event)
      BY <3>2, <2>4, ConcatProperties
    <3> QED
      BY <3>1, <3>3, <2>5, ConcatProperties
  <2> QED
    BY <1>3, <1>n, <2>6 DEF RepairSucceeds, TypeOK, HasLast, engine, history
<1>4. CASE RepairFails
  <2>1. Health("stale") \in Event
    BY EventTypes DEF Statuses
  <2> QED
    BY <1>4, <1>n, <2>1 DEF RepairFails, TypeOK, HasLast, engine, history
<1>5. CASE QuoteArrives
  <2>1. queue' \in Seq(Event)
    BY <1>5, EventTypes DEF QuoteArrives, TypeOK
  <2> QED
    BY <1>5, <2>1 DEF QuoteArrives, TypeOK, HasLast, engine, history
<1>6. CASE HealthArrives
  <2>1. PICK status \in {"reconnecting", "warming", "healthy"} :
          /\ transport' = IF status = "warming" THEN transport ELSE status = "healthy"
          /\ queue' = IF status = "healthy" /\ blocked THEN queue ELSE Append(queue, Health(status))
    BY <1>6 DEF HealthArrives
  <2>2. Health(status) \in Event
    BY EventTypes DEF Statuses
  <2>3. queue' \in Seq(Event) /\ transport' \in BOOLEAN
    <3>1. queue' = queue \/ queue' = Append(queue, Health(status))
      BY <2>1
    <3>2. queue \in Seq(Event) /\ transport \in BOOLEAN
      BY DEF TypeOK
    <3> QED
      BY <2>1, <2>2, <3>1, <3>2, AppendProperties
  <2> QED
    BY <1>6, <2>3 DEF HealthArrives, TypeOK, HasLast, engine, history
<1>7. CASE ConsumeHealth
  <2>1. Pop /\ Head(queue).kind = "health" /\ ApplyHealth(Head(queue).status)
    BY <1>7 DEF ConsumeHealth
  <2>2. queue' \in Seq(Event) /\ Head(queue).status \in Statuses
    BY <2>1, PopType, EventHealth
  <2>3. health' \in Statuses /\ continuity' \in BOOLEAN /\ pending' \subseteq evaluated
    BY <2>1, <2>2 DEF ApplyHealth, TypeOK
  <2> QED
    BY <1>7, <2>2, <2>3 DEF ConsumeHealth, TypeOK, HasLast, producer, history
<1>8. CASE Heartbeat
  <2>1. PICK silent \in BOOLEAN :
          ApplyHealth(IF blocked \/ silent THEN "stale"
                      ELSE IF transport THEN "healthy" ELSE "reconnecting")
    BY <1>8 DEF Heartbeat
  <2>2. health' \in Statuses /\ continuity' \in BOOLEAN /\ pending' \subseteq evaluated
    BY <2>1 DEF ApplyHealth, TypeOK, Statuses
  <2> QED
    BY <1>8, <2>2 DEF Heartbeat, TypeOK, HasLast, producer, history
<1>9. CASE ConsumeQuote
  <2>1. PICK newest \in 0..MaxMinute :
          /\ pending' = pending \ {m \in pending : m <= newest}
          /\ Enter({m \in pending : m <= newest}, LastOf(ledger))
    BY <1>9 DEF ConsumeQuote
  <2>2. queue' \in Seq(Event)
    BY <1>9, PopType DEF ConsumeQuote
  <2>3. ledger \in SUBSET Minutes /\ pending \subseteq ledger
    BY DEF TypeOK
  <2>4. ledger # {} => LastOf(ledger) \in ledger
    BY <2>3, LastOfFacts
  <2>5. entries' \subseteq recorded \X recorded
    <3> DEFINE due == {m \in pending : m <= newest}
    <3>1. due \subseteq ledger /\ (due # {} => LastOf(ledger) \in ledger)
      BY <2>3, <2>4
    <3>2. Enter(due, LastOf(ledger))
      BY <2>1
    <3> HIDE DEF due
    <3> QED
      BY <3>1, <3>2, EnterType
  <2>6. pending' \subseteq evaluated
    BY <2>1 DEF TypeOK
  <2> QED
    BY <1>9, <2>2, <2>5, <2>6 DEF ConsumeQuote, TypeOK, HasLast, producer, Statuses
<1>10. CASE RecordBar
  <2>1. Pop /\ Head(queue).kind = "bar"
    BY <1>10 DEF RecordBar
  <2>2. queue' \in Seq(Event) /\ Head(queue).minute \in Minutes
    BY <2>1, PopType, EventBar
  <2>3. HasLast(ledger)' /\ HasLast(recorded)'
    <3>1. ledger \in SUBSET Minutes /\ recorded \in SUBSET Minutes
      BY DEF TypeOK
    <3>2. HasLast(ledger \cup {Head(queue).minute}) /\ HasLast(recorded \cup {Head(queue).minute})
      BY <3>1, <2>2, HasLastAdd
    <3>3. ledger' = ledger \cup {Head(queue).minute} /\ recorded' = recorded \cup {Head(queue).minute}
      BY <1>10 DEF RecordBar
    <3> QED
      BY <3>2, <3>3 DEF HasLast
  <2>4. looking' \in 0..MaxMinute
    BY <1>10, <2>2, <1>n DEF RecordBar, Minutes
  <2>5. ledger' \subseteq Minutes /\ recorded' \subseteq Minutes /\ ledger' \subseteq recorded'
    BY <1>10, <2>2 DEF RecordBar, TypeOK
  <2>6. repaired' \subseteq ledger' /\ evaluated \subseteq ledger' /\ looking' \in ledger'
    BY <1>10 DEF RecordBar, TypeOK
  <2>7. /\ watched \subseteq recorded' /\ entries \subseteq recorded' \X recorded'
        /\ repairs' \subseteq recorded' /\ orphans \subseteq recorded'
    BY <1>10 DEF RecordBar, TypeOK
  <2> QED
    BY <1>10, <2>2, <2>3, <2>4, <2>5, <2>6, <2>7 DEF RecordBar, TypeOK, producer, history
<1>11. CASE LookAtBar
  <2>1. looking \in ledger /\ looking \in recorded
    BY <1>11 DEF LookAtBar
  <2>2. continuity' \in BOOLEAN
    BY <1>11 DEF LookAtBar, ContiguousTail
  <2>3. lastRisk' \in 0..MaxMinute /\ watched' \subseteq recorded
    BY <1>11, <2>1 DEF LookAtBar, MonitorRisk, TypeOK
  <2>4. evaluated' = ledger /\ pending' \subseteq ledger
    BY <1>11 DEF LookAtBar, Decide, TypeOK
  <2>5. entries' \subseteq recorded \X recorded
    <3> DEFINE due == ledger \ evaluated
    <3>1. entries' = entries \/ Enter(due, looking)
      BY <1>11 DEF LookAtBar, Decide
    <3>2. due \subseteq ledger
      OBVIOUS
    <3> HIDE DEF due
    <3>3. CASE entries' = entries
      BY <3>3 DEF TypeOK
    <3>4. CASE Enter(due, looking)
      BY <3>2, <3>4, <2>1, EnterType
    <3> QED
      BY <3>1, <3>3, <3>4
  <2> QED
    BY <1>11, <1>n, <2>2, <2>3, <2>4, <2>5 DEF LookAtBar, TypeOK, HasLast, producer
<1>12. CASE Restart
  <2>1. LastOf(recorded) \in 0..MaxMinute
    BY LastOfFacts DEF TypeOK
  <2>2. queue' \in Seq(Event)
    BY <1>12 DEF Restart, StartsFrom
  <2>3. session' \in Nat
    BY <1>12 DEF Restart, TypeOK
  <2>4. health' \in Statuses
    BY <1>12 DEF Restart, StartsFrom, Required, Statuses
  <2>5. /\ ledger' = {} /\ repaired' = {} /\ evaluated' = {} /\ pending' = {} /\ looking' = 0
        /\ UNCHANGED <<minute, recorded, watched, repairs, entries>>
        /\ orphans' \subseteq recorded
    BY <1>12 DEF Restart, StartsFrom, TypeOK
  <2>6. TypeOK'
    BY <1>12, <1>n, <2>1, <2>2, <2>3, <2>4, <2>5 DEF Restart, StartsFrom, TypeOK
  <2> QED
    BY <2>5, <2>6 DEF HasLast
<1>13. CASE UNCHANGED vars
  BY <1>13 DEF vars, producer, engine, history, TypeOK, HasLast
<1> QED
  BY <1>1, <1>2, <1>3, <1>4, <1>5, <1>6, <1>7, <1>8, <1>9, <1>10, <1>11, <1>12, <1>13 DEF Next

LEMMA TypeInvariant == Spec => []TypeInv
<1> QED
  BY TypeInit, TypeStep, PTL DEF Spec

\* Every variable keeps its type, whatever the market delivers and whenever the
\* process is killed.
THEOREM TypeCorrect == Spec => []TypeOK
<1>1. TypeInv => TypeOK
  BY DEF TypeInv
<1> QED
  BY <1>1, TypeInvariant, PTL

-----------------------------------------------------------------------------
(* The record.  What is recorded together with the bars of any initial     *)
(* part of the queue has no hole, so neither the next pop nor the end of   *)
(* the process can make one; the watermark is the last bar of the whole.   *)

BarsOf(q, n)  == {q[k].minute : k \in {j \in 1..n : q[j].kind = "bar"}}
Upto(r, q, n) == r \cup BarsOf(q, n)
NoHole(S)     == \A first, last \in S : \A m \in first..last : m \in S

InOrder(r, q, last) ==
  /\ \A n \in 0..Len(q) : NoHole(Upto(r, q, n))
  /\ \A m \in Upto(r, q, Len(q)) : m <= last
  /\ last # 0 => last \in Upto(r, q, Len(q))

FeedInv ==
  /\ InOrder(recorded, queue, lastEnd)
  /\ repairing # 0 => lastEnd # 0 /\ repairing > lastEnd

\* The bars of a queue are minutes.
LEMMA BarsOfType ==
  ASSUME NEW q \in Seq(Event), NEW n \in 0..Len(q)
  PROVE  BarsOf(q, n) \subseteq Minutes
<1>1. \A k \in 1..n : q[k] \in Event
  BY ElementOfSeq
<1> QED
  BY <1>1, EventBar DEF BarsOf

\* A queue that only grows at its end keeps the bars of its initial parts.
LEMMA BarsOfGrown ==
  ASSUME NEW q \in Seq(Event), NEW q2 \in Seq(Event), Len(q) <= Len(q2),
         \A k \in 1..Len(q) : q2[k] = q[k]
  PROVE  /\ \A n \in 0..Len(q) : BarsOf(q2, n) = BarsOf(q, n)
         /\ \A n \in Len(q)..Len(q2) :
              BarsOf(q2, n) = BarsOf(q, Len(q))
                \cup {q2[k].minute : k \in {j \in Len(q) + 1..n : q2[j].kind = "bar"}}
<1>1. Len(q) \in Nat /\ Len(q2) \in Nat
  OBVIOUS
<1>2. ASSUME NEW n \in 0..Len(q)
      PROVE  BarsOf(q2, n) = BarsOf(q, n)
  <2>1. \A k \in 1..n : q2[k] = q[k]
    BY <1>1
  <2> QED
    BY <2>1 DEF BarsOf
<1>3. ASSUME NEW n \in Len(q)..Len(q2)
      PROVE  BarsOf(q2, n) = BarsOf(q, Len(q))
               \cup {q2[k].minute : k \in {j \in Len(q) + 1..n : q2[j].kind = "bar"}}
  <2>1. 1..n = (1..Len(q)) \cup (Len(q) + 1..n)
    BY <1>1
  <2> QED
    BY <2>1 DEF BarsOf
<1> QED
  BY <1>2, <1>3

\* One event at the end adds its minute if it is a bar.
LEMMA BarsOfAppend ==
  ASSUME NEW q \in Seq(Event), NEW e \in Event
  PROVE  /\ Append(q, e) \in Seq(Event) /\ Len(Append(q, e)) = Len(q) + 1
         /\ \A n \in 0..Len(q) : BarsOf(Append(q, e), n) = BarsOf(q, n)
         /\ BarsOf(Append(q, e), Len(q) + 1)
              = BarsOf(q, Len(q)) \cup (IF e.kind = "bar" THEN {e.minute} ELSE {})
<1> DEFINE q2 == Append(q, e)
<1>1. /\ q2 \in Seq(Event) /\ Len(q2) = Len(q) + 1 /\ q2[Len(q) + 1] = e
      /\ \A k \in 1..Len(q) : q2[k] = q[k]
  BY AppendProperties
<1> HIDE DEF q2
<1>2. Len(q) \in Nat
  OBVIOUS
<1>3. \A n \in 0..Len(q) : BarsOf(q2, n) = BarsOf(q, n)
  BY <1>1, <1>2, BarsOfGrown
<1>4. BarsOf(q2, Len(q) + 1) = BarsOf(q, Len(q))
        \cup {q2[k].minute : k \in {j \in Len(q) + 1..Len(q) + 1 : q2[j].kind = "bar"}}
  BY <1>1, <1>2, BarsOfGrown
<1>5. Len(q) + 1..Len(q) + 1 = {Len(q) + 1}
  BY <1>2
<1>6. BarsOf(q2, Len(q) + 1)
        = BarsOf(q, Len(q)) \cup (IF e.kind = "bar" THEN {e.minute} ELSE {})
  BY <1>1, <1>4, <1>5
<1> QED
  BY <1>1, <1>3, <1>6 DEF q2

\* The head of a queue and the bars of the rest are the bars of the whole.
LEMMA BarsOfTail ==
  ASSUME NEW q \in Seq(Event), q # <<>>, NEW n \in 0..Len(Tail(q))
  PROVE  /\ n + 1 \in 0..Len(q)
         /\ BarsOf(q, n + 1)
              = BarsOf(Tail(q), n) \cup (IF Head(q).kind = "bar" THEN {Head(q).minute} ELSE {})
<1>1. /\ Tail(q) \in Seq(Event) /\ Len(Tail(q)) = Len(q) - 1 /\ Head(q) = q[1]
      /\ \A k \in 1..Len(Tail(q)) : Tail(q)[k] = q[k + 1]
  BY HeadTailProperties
<1>2. Len(q) \in Nat /\ n \in Nat /\ n + 1 \in 0..Len(q)
  BY <1>1
<1>3. \A k \in 1..n : k \in 1..Len(Tail(q))
  BY <1>1, <1>2
<1>4. ASSUME NEW m \in BarsOf(q, n + 1)
      PROVE  m \in BarsOf(Tail(q), n) \cup (IF Head(q).kind = "bar" THEN {Head(q).minute} ELSE {})
  <2>1. PICK k \in 1..n + 1 : q[k].kind = "bar" /\ m = q[k].minute
    BY DEF BarsOf
  <2>2. CASE k = 1
    BY <2>1, <2>2, <1>1
  <2>3. CASE k # 1
    <3>1. k - 1 \in 1..n /\ (k - 1) + 1 = k
      BY <2>3, <1>2
    <3>2. Tail(q)[k - 1] = q[k]
      BY <3>1, <1>1, <1>3
    <3> QED
      BY <3>1, <3>2, <2>1 DEF BarsOf
  <2> QED
    BY <2>2, <2>3
<1>5. ASSUME NEW m \in BarsOf(Tail(q), n)
      PROVE  m \in BarsOf(q, n + 1)
  <2>1. PICK k \in 1..n : Tail(q)[k].kind = "bar" /\ m = Tail(q)[k].minute
    BY DEF BarsOf
  <2>2. k + 1 \in 1..n + 1 /\ Tail(q)[k] = q[k + 1]
    BY <1>1, <1>2, <1>3
  <2> QED
    BY <2>1, <2>2 DEF BarsOf
<1>6. Head(q).kind = "bar" => Head(q).minute \in BarsOf(q, n + 1)
  <2>1. 1 \in 1..n + 1
    BY <1>2
  <2> QED
    BY <2>1, <1>1 DEF BarsOf
<1> QED
  BY <1>2, <1>4, <1>5, <1>6

\* Minutes that continue a set without a hole leave it without one.
LEMMA NoHoleExtended ==
  ASSUME NEW S \in SUBSET Int, NEW last \in S, \A m \in S : m <= last, NoHole(S),
         NEW end \in Int
  PROVE  NoHole(S \cup (last + 1..end))
BY DEF NoHole

LEMMA UptoType ==
  ASSUME NEW r \in SUBSET Minutes, NEW q \in Seq(Event), NEW n \in 0..Len(q)
  PROVE  Upto(r, q, n) \in SUBSET Minutes
BY BarsOfType DEF Upto

\* An event that is not a bar joins the queue.
LEMMA NewsJoins ==
  ASSUME NEW r \in SUBSET Minutes, NEW q \in Seq(Event), NEW last, InOrder(r, q, last),
         NEW e \in Event, e.kind # "bar"
  PROVE  InOrder(r, Append(q, e), last)
<1> DEFINE q2 == Append(q, e)
<1>1. /\ Len(q2) = Len(q) + 1 /\ Len(q) \in Nat
      /\ \A n \in 0..Len(q) : BarsOf(q2, n) = BarsOf(q, n)
      /\ BarsOf(q2, Len(q) + 1) = BarsOf(q, Len(q))
  <2>1. /\ Len(q2) = Len(q) + 1 /\ \A n \in 0..Len(q) : BarsOf(q2, n) = BarsOf(q, n)
        /\ BarsOf(q2, Len(q) + 1)
             = BarsOf(q, Len(q)) \cup (IF e.kind = "bar" THEN {e.minute} ELSE {})
    BY BarsOfAppend
  <2>2. BarsOf(q2, Len(q) + 1) = BarsOf(q, Len(q)) \cup {}
    BY <2>1
  <2> QED
    BY <2>1, <2>2
<1> HIDE DEF q2
<1>2. ASSUME NEW n \in 0..Len(q2)
      PROVE  NoHole(Upto(r, q2, n))
  <2>1. CASE n \in 0..Len(q)
    BY <2>1, <1>1 DEF InOrder, Upto
  <2>2. CASE n = Len(q) + 1
    <3>1. Upto(r, q2, n) = Upto(r, q, Len(q)) /\ Len(q) \in 0..Len(q)
      BY <2>2, <1>1 DEF Upto
    <3> QED
      BY <3>1 DEF InOrder
  <2> QED
    BY <1>1, <2>1, <2>2
<1>3. Upto(r, q2, Len(q2)) = Upto(r, q, Len(q))
  BY <1>1 DEF Upto
<1>4. InOrder(r, q2, last)
  BY <1>2, <1>3 DEF InOrder
<1> QED
  BY <1>4 DEF q2

\* Whatever joins the queue, if its bars continue the whole, leaves no hole.
\* reach(n) is the minute that the part up to n of the longer queue reaches.
LEMMA BarsJoin ==
  ASSUME NEW r \in SUBSET Minutes, NEW q \in Seq(Event), NEW q2 \in Seq(Event),
         NEW last \in Minutes, InOrder(r, q, last),
         Len(q) <= Len(q2), \A k \in 1..Len(q) : q2[k] = q[k],
         NEW reach \in [Len(q)..Len(q2) -> Int],
         reach[Len(q2)] > last,
         \A n \in Len(q)..Len(q2) :
           {q2[k].minute : k \in {j \in Len(q) + 1..n : q2[j].kind = "bar"}} = last + 1..reach[n]
  PROVE  InOrder(r, q2, reach[Len(q2)])
<1>1. /\ Len(q) \in Nat /\ Len(q2) \in Nat /\ last \in Int /\ last # 0
      /\ Len(q2) \in Len(q)..Len(q2) /\ Len(q) \in 0..Len(q)
  BY FeedAssumption DEF Minutes, FeedAssumption
<1> DEFINE whole == Upto(r, q, Len(q))
<1>2. /\ whole \in SUBSET Int /\ last \in whole /\ NoHole(whole)
      /\ \A m \in whole : m <= last
  <2>1. whole \in SUBSET Minutes
    BY <1>1, UptoType
  <2>2. Minutes \subseteq Int
    BY FeedAssumption DEF Minutes, FeedAssumption
  <2> QED
    BY <1>1, <2>1, <2>2 DEF InOrder
<1>3. ASSUME NEW n \in Len(q)..Len(q2)
      PROVE  Upto(r, q2, n) = whole \cup (last + 1..reach[n]) /\ reach[n] \in Int
  BY <1>3, BarsOfGrown DEF Upto
<1> HIDE DEF whole
<1>4. ASSUME NEW n \in 0..Len(q2)
      PROVE  NoHole(Upto(r, q2, n))
  <2>1. CASE n \in 0..Len(q)
    <3>1. Upto(r, q2, n) = Upto(r, q, n)
      BY <2>1, BarsOfGrown DEF Upto
    <3> QED
      BY <2>1, <3>1 DEF InOrder
  <2>2. CASE n \in Len(q)..Len(q2)
    <3>1. Upto(r, q2, n) = whole \cup (last + 1..reach[n]) /\ reach[n] \in Int
      BY <1>3, <2>2
    <3>2. NoHole(whole \cup (last + 1..reach[n]))
      <4> DEFINE end == reach[n]
      <4>1. end \in Int
        BY <3>1
      <4> HIDE DEF end
      <4>2. NoHole(whole \cup (last + 1..end))
        BY <1>2, <4>1, NoHoleExtended
      <4> QED
        BY <4>2 DEF end
    <3> QED
      BY <3>1, <3>2
  <2> QED
    BY <1>1, <2>1, <2>2
<1>5. Upto(r, q2, Len(q2)) = whole \cup (last + 1..reach[Len(q2)]) /\ reach[Len(q2)] \in Int
  BY <1>1, <1>3
<1>6. ASSUME NEW m \in Upto(r, q2, Len(q2))
      PROVE  m <= reach[Len(q2)]
  <2>1. CASE m \in whole
    BY <1>1, <1>2, <1>5, <2>1
  <2>2. CASE m \in last + 1..reach[Len(q2)]
    BY <1>5, <2>2
  <2> QED
    BY <1>5, <2>1, <2>2
<1>7. reach[Len(q2)] \in Upto(r, q2, Len(q2))
  BY <1>1, <1>5
<1> QED
  BY <1>4, <1>6, <1>7 DEF InOrder

\* The first bar of an empty record and queue.
LEMMA FirstJoins ==
  ASSUME NEW r \in SUBSET Minutes, NEW q \in Seq(Event), InOrder(r, q, 0),
         NEW e \in Event, e.kind = "bar"
  PROVE  InOrder(r, Append(q, e), e.minute)
<1> DEFINE q2 == Append(q, e)
<1>1. /\ Len(q2) = Len(q) + 1 /\ Len(q) \in Nat
      /\ \A n \in 0..Len(q) : BarsOf(q2, n) = BarsOf(q, n)
      /\ BarsOf(q2, Len(q) + 1) = BarsOf(q, Len(q)) \cup {e.minute}
  BY BarsOfAppend
<1> HIDE DEF q2
<1>2. Upto(r, q, Len(q)) = {}
  <2>1. Upto(r, q, Len(q)) \in SUBSET Minutes
    BY <1>1, UptoType
  <2>2. \A m \in Minutes : ~(m <= 0)
    BY FeedAssumption DEF Minutes, FeedAssumption
  <2> QED
    BY <2>1, <2>2 DEF InOrder
<1>3. Upto(r, q2, Len(q) + 1) = {e.minute} /\ e.minute \in Int
  <2>1. e.minute \in Minutes
    BY EventBar
  <2> QED
    BY <2>1, <1>1, <1>2, FeedAssumption DEF Upto, Minutes, FeedAssumption
<1>4. NoHole({e.minute})
  BY <1>3 DEF NoHole
<1>5. ASSUME NEW n \in 0..Len(q2)
      PROVE  NoHole(Upto(r, q2, n))
  <2>1. CASE n \in 0..Len(q)
    BY <2>1, <1>1 DEF InOrder, Upto
  <2>2. CASE n = Len(q) + 1
    BY <2>2, <1>3, <1>4
  <2> QED
    BY <1>1, <2>1, <2>2
<1>6. InOrder(r, q2, e.minute)
  BY <1>1, <1>3, <1>5 DEF InOrder
<1> QED
  BY <1>6 DEF q2

\* The head of the queue leaves it, and is recorded if it is a bar.
LEMMA HeadLeaves ==
  ASSUME NEW r \in SUBSET Minutes, NEW q \in Seq(Event), NEW last, InOrder(r, q, last),
         q # <<>>
  PROVE  InOrder(r \cup (IF Head(q).kind = "bar" THEN {Head(q).minute} ELSE {}), Tail(q), last)
<1> DEFINE r2 == r \cup (IF Head(q).kind = "bar" THEN {Head(q).minute} ELSE {})
<1>1. ASSUME NEW n \in 0..Len(Tail(q))
      PROVE  Upto(r2, Tail(q), n) = Upto(r, q, n + 1) /\ n + 1 \in 0..Len(q)
  BY BarsOfTail DEF Upto
<1> HIDE DEF r2
<1>2. Len(Tail(q)) \in 0..Len(Tail(q)) /\ Len(Tail(q)) + 1 = Len(q)
  BY HeadTailProperties
<1>3. Upto(r2, Tail(q), Len(Tail(q))) = Upto(r, q, Len(q))
  BY <1>1, <1>2
<1>4. InOrder(r2, Tail(q), last)
  BY <1>1, <1>3 DEF InOrder
<1> QED
  BY <1>4 DEF r2

LEMMA GapFacts ==
  ASSUME NEW m \in Minutes, NEW last \in 0..MaxMinute, last # 0
  PROVE  /\ last \in Minutes
         /\ m - 1 - last = 0 => m = last + 1
         /\ m - 1 - last > 0 => m > last
BY FeedAssumption DEF Minutes, FeedAssumption

\* The bar of the minute after the last one.
LEMMA NextJoins ==
  ASSUME NEW r \in SUBSET Minutes, NEW q \in Seq(Event), NEW last \in Minutes,
         InOrder(r, q, last), NEW e \in Event, e.kind = "bar", e.minute = last + 1
  PROVE  InOrder(r, Append(q, e), last + 1)
<1> DEFINE q2 == Append(q, e)
<1> DEFINE reach == [n \in Len(q)..Len(q) + 1 |-> IF n = Len(q) THEN last ELSE last + 1]
<1>1. /\ q2 \in Seq(Event) /\ Len(q2) = Len(q) + 1 /\ q2[Len(q) + 1] = e
      /\ \A k \in 1..Len(q) : q2[k] = q[k]
  BY AppendProperties
<1> HIDE DEF q2
<1>2. Len(q) \in Nat /\ last \in Int
  BY FeedAssumption DEF Minutes, FeedAssumption
<1>3. reach \in [Len(q)..Len(q2) -> Int] /\ reach[Len(q2)] = last + 1
  BY <1>1, <1>2
<1>4. ASSUME NEW n \in Len(q)..Len(q2)
      PROVE  {q2[k].minute : k \in {j \in Len(q) + 1..n : q2[j].kind = "bar"}} = last + 1..reach[n]
  <2>1. CASE n = Len(q)
    <3>1. Len(q) + 1..n = {} /\ last + 1..reach[n] = {}
      BY <2>1, <1>1, <1>2
    <3> QED
      BY <3>1
  <2>2. CASE n = Len(q) + 1
    <3>1. Len(q) + 1..n = {Len(q) + 1} /\ last + 1..reach[n] = {last + 1}
      BY <2>2, <1>1, <1>2
    <3> QED
      BY <3>1, <1>1
  <2> QED
    BY <1>1, <1>2, <2>1, <2>2
<1> HIDE DEF reach
<1>5. InOrder(r, q2, reach[Len(q2)])
  <2>1. Len(q) <= Len(q2) /\ reach[Len(q2)] > last
    BY <1>1, <1>2, <1>3
  <2> QED
    BY <1>1, <1>3, <1>4, <2>1, BarsJoin
<1> QED
  BY <1>3, <1>5 DEF q2

LEMMA LastThree ==
  ASSUME NEW len \in Nat, NEW gap \in Nat, NEW n \in len..len + gap + 2
  PROVE  \A k \in len + 1..n : k \in len + 1..len + gap \/ k = len + gap + 1 \/ k = len + gap + 2
OBVIOUS

\* A queue that a repair has made longer: the bars of the gap, the news, the bar that waited.
LEMMA RepairShape ==
  ASSUME NEW q \in Seq(Event), NEW gap \in Nat, NEW bars \in Seq(Event), Len(bars) = gap,
         NEW news \in Event, NEW e \in Event,
         NEW all, all = q \o bars \o <<news, e>>
  PROVE  /\ all \in Seq(Event) /\ Len(all) = Len(q) + gap + 2
         /\ \A k \in 1..Len(q) : all[k] = q[k]
         /\ \A k \in Len(q) + 1..Len(q) + gap : all[k] = bars[k - Len(q)]
         /\ all[Len(q) + gap + 1] = news /\ all[Len(q) + gap + 2] = e
<1> DEFINE q1 == q \o bars
<1> DEFINE q2 == q1 \o <<news, e>>
<1> DEFINE middle == Len(q) + gap
<1>1. Len(q) \in Nat
  OBVIOUS
<1>2. /\ q1 \in Seq(Event) /\ Len(q1) = middle
      /\ \A k \in 1..middle : q1[k] = IF k <= Len(q) THEN q[k] ELSE bars[k - Len(q)]
  BY ConcatProperties
<1> HIDE DEF q1
<1>3. /\ <<news, e>> \in Seq(Event) /\ Len(<<news, e>>) = 2
      /\ <<news, e>>[1] = news /\ <<news, e>>[2] = e
  BY PairSeq
<1>4. /\ q2 \in Seq(Event) /\ Len(q2) = middle + 2
      /\ \A k \in 1..middle + 2 : q2[k] = IF k <= middle THEN q1[k] ELSE <<news, e>>[k - middle]
  BY <1>2, <1>3, ConcatProperties
<1> HIDE DEF q2
<1>5. \A k \in Len(q) + 1..middle : k - Len(q) \in 1..gap /\ k \in 1..middle /\ ~(k <= Len(q))
  BY <1>1
<1>6. \A k \in 1..Len(q) : k \in 1..middle /\ k \in 1..middle + 2 /\ k <= middle
  BY <1>1
<1>7. /\ middle + 1 \in 1..middle + 2 /\ (middle + 1) - middle = 1 /\ ~(middle + 1 <= middle)
      /\ middle + 2 \in 1..middle + 2 /\ (middle + 2) - middle = 2 /\ ~(middle + 2 <= middle)
  BY <1>1
<1>8. \A k \in Len(q) + 1..middle : q2[k] = bars[k - Len(q)]
  BY <1>5, <1>1, <1>2, <1>4
<1>9. \A k \in 1..Len(q) : q2[k] = q[k]
  BY <1>6, <1>2, <1>4
<1>10. q2[middle + 1] = news /\ q2[middle + 2] = e
  BY <1>3, <1>4, <1>7
<1>11. all = q2
  BY DEF q1, q2
<1> QED
  BY <1>4, <1>8, <1>9, <1>10, <1>11

\* A repaired gap, the news that the provider is healthy, and the bar that waited.
LEMMA RepairJoins ==
  ASSUME NEW r \in SUBSET Minutes, NEW q \in Seq(Event), NEW last \in Minutes,
         InOrder(r, q, last), NEW gap \in Nat, NEW bars \in Seq(Event), Len(bars) = gap,
         \A i \in 1..gap : bars[i].kind = "bar" /\ bars[i].minute = last + i,
         NEW news \in Event, news.kind # "bar",
         NEW e \in Event, e.kind = "bar", e.minute = last + gap + 1
  PROVE  InOrder(r, q \o bars \o <<news, e>>, last + gap + 1)
<1>0. PICK q2 : q2 = q \o bars \o <<news, e>>
  OBVIOUS
<1>a. /\ q \in Seq(Event) /\ gap \in Nat /\ bars \in Seq(Event) /\ Len(bars) = gap
      /\ news \in Event /\ e \in Event /\ e.minute = last + gap + 1
  OBVIOUS
<1>2. /\ q2 \in Seq(Event) /\ Len(q2) = Len(q) + gap + 2
      /\ \A k \in 1..Len(q) : q2[k] = q[k]
      /\ \A k \in Len(q) + 1..Len(q) + gap : q2[k] = bars[k - Len(q)]
      /\ q2[Len(q) + gap + 1] = news /\ q2[Len(q) + gap + 2] = e
  BY ONLY <1>0, <1>a, RepairShape, SMTT(30)
<1> DEFINE middle == Len(q) + gap
<1> DEFINE reach ==
      [n \in Len(q)..middle + 2 |-> IF n <= middle THEN last + (n - Len(q))
                                    ELSE IF n = middle + 1 THEN last + gap ELSE last + gap + 1]
<1>1. Len(q) \in Nat /\ last \in Int /\ middle \in Nat
  BY FeedAssumption DEF Minutes, FeedAssumption
<1>4. q2 \in Seq(Event) /\ Len(q2) = middle + 2
  BY ONLY <1>1, <1>2, <1>a
<1>5. /\ \A k \in 1..Len(q) : q2[k] = q[k]
      /\ \A k \in Len(q) + 1..middle : q2[k].kind = "bar" /\ q2[k].minute = last + (k - Len(q))
      /\ q2[middle + 1] = news /\ q2[middle + 2] = e
  <2>1. ASSUME NEW k \in Len(q) + 1..middle
        PROVE  q2[k].kind = "bar" /\ q2[k].minute = last + (k - Len(q))
    <3>1. k - Len(q) \in 1..gap
      BY ONLY <1>1, <1>a, <2>1
    <3>2. q2[k] = bars[k - Len(q)]
      BY ONLY <1>2, <2>1
    <3> HIDE DEF middle, reach
    <3> QED
      BY <3>1, <3>2
  <2> QED
    BY ONLY <1>2, <2>1
<1>r. ASSUME NEW n \in Len(q)..middle + 2
      PROVE  /\ n <= middle => reach[n] = last + (n - Len(q))
             /\ n = middle + 1 => reach[n] = last + gap
             /\ n = middle + 2 => reach[n] = last + gap + 1
             /\ reach[n] \in Int /\ reach[n] <= last + (n - Len(q))
             /\ n <= middle \/ n = middle + 1 \/ n = middle + 2
  BY ONLY <1>1, <1>a, <1>r
<1>6. reach \in [Len(q)..Len(q2) -> Int] /\ reach[Len(q2)] = last + gap + 1
  BY ONLY <1>1, <1>4, <1>a
<1> HIDE DEF reach
<1>7. ASSUME NEW n \in Len(q)..Len(q2)
      PROVE  {q2[k].minute : k \in {j \in Len(q) + 1..n : q2[j].kind = "bar"}} = last + 1..reach[n]
  <2> DEFINE found == {q2[k].minute : k \in {j \in Len(q) + 1..n : q2[j].kind = "bar"}}
  <2>a. n \in Len(q)..middle + 2 /\ n \in Int
    BY ONLY <1>1, <1>4, <1>7
  <2>b. /\ n <= middle => reach[n] = last + (n - Len(q))
        /\ n = middle + 1 => reach[n] = last + gap
        /\ n = middle + 2 => reach[n] = last + gap + 1
        /\ reach[n] \in Int /\ reach[n] <= last + (n - Len(q))
        /\ n <= middle \/ n = middle + 1 \/ n = middle + 2
    BY ONLY <1>r, <2>a
  <2>0. \A k \in Len(q) + 1..n : k \in Len(q) + 1..middle \/ k = middle + 1 \/ k = middle + 2
    BY ONLY <1>1, <1>a, <2>a, LastThree
  <2>1. ASSUME NEW m \in found
        PROVE  m \in last + 1..reach[n]
    <3>1. PICK k \in Len(q) + 1..n : q2[k].kind = "bar" /\ m = q2[k].minute
      OBVIOUS
    <3>2. CASE k \in Len(q) + 1..middle
      <4>1. m = last + (k - Len(q))
        BY ONLY <3>1, <3>2, <1>5
      <4>2. last + 1 <= m /\ m \in Int
        BY ONLY <4>1, <3>2, <1>1, <1>a, SMTT(30)
      <4>3. m <= reach[n]
        BY ONLY <4>1, <3>1, <3>2, <1>1, <1>a, <2>a, <2>b, SMTT(30)
      <4> QED
        BY ONLY <4>2, <4>3, <1>1, <2>b
    <3>3. CASE k = middle + 2
      <4>1. n = middle + 2 /\ m = last + gap + 1
        <5>1. m = e.minute
          BY ONLY <3>1, <3>3, <1>5
        <5>2. n = middle + 2
          BY ONLY <3>1, <3>3, <1>1, <2>a
        <5> QED
          BY ONLY <5>1, <5>2, <1>a
      <4> QED
        <5>1. reach[n] = last + gap + 1 /\ m = last + gap + 1
          BY ONLY <4>1, <2>b
        <5> QED
          BY ONLY <5>1, <1>1, <1>a
    <3>4. k # middle + 1
      BY <3>1, <1>5
    <3>5. k \in Len(q) + 1..middle \/ k = middle + 1 \/ k = middle + 2
      BY ONLY <3>1, <2>0
    <3> HIDE DEF middle
    <3> QED
      BY ONLY <3>2, <3>3, <3>4, <3>5
  <2>2. ASSUME NEW m \in last + 1..reach[n]
        PROVE  m \in found
    <3>0. m \in Int /\ last + 1 <= m /\ m <= reach[n]
      BY ONLY <2>2, <1>1, <2>b
    <3>1. CASE m <= last + gap
      <4> DEFINE k == Len(q) + (m - last)
      <4>1. k \in Len(q) + 1..n /\ k \in Len(q) + 1..middle /\ last + (k - Len(q)) = m
        BY ONLY <3>0, <3>1, <1>1, <1>a, <2>a, <2>b
      <4> HIDE DEF k
      <4> QED
        BY <4>1, <1>5
    <3>2. CASE m = last + gap + 1
      <4>1. n = middle + 2 /\ middle + 2 \in Len(q) + 1..n
        BY ONLY <3>0, <3>2, <1>1, <1>a, <2>a, <2>b
      <4> QED
        BY <4>1, <3>2, <1>5
    <3> QED
      BY ONLY <3>0, <3>1, <3>2, <1>1, <1>a, <2>a, <2>b
  <2> QED
    BY <2>1, <2>2
<1>8. Len(q) <= Len(q2) /\ reach[Len(q2)] > last
  BY <1>1, <1>4, <1>6
<1>9. InOrder(r, q2, reach[Len(q2)])
  BY <1>4, <1>5, <1>6, <1>7, <1>8, BarsJoin
<1> QED
  BY <1>0, <1>6, <1>9

-----------------------------------------------------------------------------
(* Every action keeps the order of the bars.                               *)

LEMMA FeedInit == Init => FeedInv
<1> SUFFICES ASSUME Init PROVE FeedInv
  OBVIOUS
<1>1. Len(queue) = 0 /\ recorded = {} /\ lastEnd = 0 /\ repairing = 0
  BY DEF Init
<1>2. \A n \in 0..0 : Upto(recorded, queue, n) = {}
  BY <1>1 DEF Upto, BarsOf
<1>3. NoHole({})
  BY DEF NoHole
<1> QED
  BY <1>1, <1>2, <1>3 DEF FeedInv, InOrder

LEMMA FeedStep == TypeInv /\ FeedInv /\ [Next]_vars => FeedInv'
<1> SUFFICES ASSUME TypeInv, FeedInv, [Next]_vars PROVE FeedInv'
  OBVIOUS
<1>r. recorded \in SUBSET Minutes /\ queue \in Seq(Event)
  BY DEF TypeInv, TypeOK
<1>o. InOrder(recorded, queue, lastEnd) /\ (repairing # 0 => lastEnd # 0 /\ repairing > lastEnd)
  BY DEF FeedInv
<1>t. \A status \in Statuses : Health(status) \in Event /\ Health(status).kind # "bar"
  BY EventTypes DEF Health
<1>q. Quote \in Event /\ Quote.kind # "bar"
  BY EventTypes DEF Quote
<1>same. ASSUME UNCHANGED <<recorded, queue, lastEnd, repairing>>
         PROVE  FeedInv'
  BY <1>o, <1>same DEF FeedInv
<1>news. ASSUME NEW e \in Event, e.kind # "bar", queue' = Append(queue, e),
                UNCHANGED <<recorded, lastEnd>>
         PROVE  InOrder(recorded, queue, lastEnd)'
  <2>1. InOrder(recorded, Append(queue, e), lastEnd)
    BY <1>news, <1>o, <1>r, NewsJoins
  <2> QED
    BY <1>news, <2>1
<1>pop. ASSUME Pop, Head(queue).kind # "bar", UNCHANGED <<recorded, lastEnd, repairing>>
        PROVE  FeedInv'
  <2>1. queue # <<>> /\ queue' = Tail(queue)
    BY <1>pop DEF Pop
  <2>2. InOrder(recorded \cup {}, Tail(queue), lastEnd)
    BY <1>pop, <1>o, <1>r, <2>1, HeadLeaves
  <2>3. InOrder(recorded, Tail(queue), lastEnd)
    <3>1. recorded \cup {} = recorded
      OBVIOUS
    <3> QED
      BY <2>2, <3>1
  <2> QED
    BY <1>pop, <1>o, <2>1, <2>3 DEF FeedInv
<1>1. CASE BarLost
  BY <1>1, <1>same DEF BarLost
<1>2. CASE BarArrives
  <2>1. minute' \in Minutes /\ lastEnd \in 0..MaxMinute /\ MaxMinute \in Nat /\ repairing = 0
        /\ recorded' = recorded
    BY <1>2, FeedAssumption DEF BarArrives, Receives, TypeInv, TypeOK, Minutes, FeedAssumption
  <2>2. Bar(minute', FALSE) \in Event
    BY <2>1, EventTypes
  <2>3. CASE /\ Gap(minute') = 0 /\ lastEnd' = minute'
             /\ queue' = Append(queue, Bar(minute', FALSE)) /\ repairing' = repairing
    <3>1. CASE lastEnd = 0
      <4>1. InOrder(recorded, queue, 0)
        BY <1>o, <3>1
      <4>2. InOrder(recorded, Append(queue, Bar(minute', FALSE)), Bar(minute', FALSE).minute)
        <5>1. Bar(minute', FALSE).kind = "bar"
          BY DEF Bar
        <5> QED
          BY <4>1, <5>1, <1>r, <2>2, FirstJoins
      <4> QED
        BY <2>1, <2>3, <4>2 DEF FeedInv, Bar
    <3>2. CASE lastEnd # 0
      <4>0. minute' - 1 - lastEnd = 0
        BY <2>3, <3>2 DEF Gap
      <4>1. minute' = lastEnd + 1 /\ lastEnd \in Minutes
        BY <2>1, <3>2, <4>0, GapFacts
      <4>2. Bar(minute', FALSE).kind = "bar" /\ Bar(minute', FALSE).minute = lastEnd + 1
        BY <4>1 DEF Bar
      <4>3. InOrder(recorded, Append(queue, Bar(minute', FALSE)), lastEnd + 1)
        BY <1>o, <1>r, <2>2, <4>1, <4>2, NextJoins
      <4> QED
        BY <2>1, <2>3, <4>1, <4>3 DEF FeedInv
    <3> QED
      BY <3>1, <3>2
  <2>4. CASE /\ Gap(minute') \in 1..MaxGap /\ repairing' = minute' /\ lastEnd' = lastEnd
             /\ queue' = Append(queue, Health("reconnecting"))
    <3>1. InOrder(recorded, queue, lastEnd)'
      BY <1>news, <1>t, <2>1, <2>4 DEF Statuses
    <3>2. lastEnd # 0 /\ minute' - 1 - lastEnd > 0
      <4>1. Gap(minute') > 0 /\ Gap(minute') # 0
        BY <2>4, FeedAssumption DEF FeedAssumption
      <4> QED
        BY <4>1 DEF Gap
    <3>3. minute' > lastEnd
      BY <2>1, <3>2, GapFacts
    <3> QED
      BY <2>4, <3>1, <3>2, <3>3 DEF FeedInv
  <2>5. CASE /\ queue' = Append(queue, Health("stale"))
             /\ UNCHANGED <<lastEnd, repairing>>
    <3>1. InOrder(recorded, queue, lastEnd)'
      BY <1>news, <1>t, <2>1, <2>5 DEF Statuses
    <3> QED
      BY <2>1, <2>5, <3>1 DEF FeedInv
  <2> QED
    BY <1>2, <2>3, <2>4, <2>5 DEF BarArrives
<1>3. CASE RepairSucceeds
  <2> DEFINE gap == Gap(repairing)
  <2> DEFINE bars == [i \in 1..gap |-> Bar(lastEnd + i, TRUE)]
  <2>1. repairing # 0 /\ repairing > lastEnd /\ lastEnd # 0
    BY <1>3, <1>o DEF RepairSucceeds
  <2>2. lastEnd \in Minutes /\ repairing \in Minutes /\ Minutes \subseteq Nat
    BY <2>1, FeedAssumption DEF TypeInv, TypeOK, Minutes, FeedAssumption
  <2>3. gap \in Nat /\ repairing = lastEnd + gap + 1
    BY <2>1, <2>2 DEF Gap
  <2>4. \A i \in 1..gap : lastEnd + i \in Minutes
    BY <2>2, <2>3, FeedAssumption DEF Minutes, FeedAssumption
  <2>5. /\ queue' = queue \o bars \o <<Health("healthy"), Bar(repairing, FALSE)>>
        /\ recorded' = recorded /\ lastEnd' = repairing /\ repairing' = 0
    BY <1>3 DEF RepairSucceeds
  <2> HIDE DEF gap
  <2>6. bars \in Seq(Event) /\ Len(bars) = gap
    <3>1. \A i \in 1..gap : bars[i] \in Event
      BY <2>4, EventTypes
    <3>2. bars \in Seq(Event)
      <4>1. bars = [i \in 1..gap |-> bars[i]] /\ gap \in Int
        BY <2>3
      <4> HIDE DEF bars
      <4> QED
        BY <3>1, <4>1, EventSeq
    <3>3. DOMAIN bars = 1..gap
      OBVIOUS
    <3> HIDE DEF bars
    <3> QED
      BY <2>3, <3>2, <3>3
  <2>7. \A i \in 1..gap : bars[i].kind = "bar" /\ bars[i].minute = lastEnd + i
    BY DEF Bar
  <2>8. Bar(repairing, FALSE) \in Event
    BY <2>2, EventTypes
  <2>9. Bar(repairing, FALSE).kind = "bar" /\ Bar(repairing, FALSE).minute = lastEnd + gap + 1
    BY <2>3 DEF Bar
  <2>10. Health("healthy") \in Event /\ Health("healthy").kind # "bar"
    BY <1>t DEF Statuses
  <2> HIDE DEF bars
  <2>11. InOrder(recorded, queue \o bars \o <<Health("healthy"), Bar(repairing, FALSE)>>,
                 lastEnd + gap + 1)
    BY <1>o, <1>r, <2>2, <2>3, <2>6, <2>7, <2>8, <2>9, <2>10, RepairJoins
  <2> QED
    BY <2>3, <2>5, <2>11 DEF FeedInv
<1>4. CASE RepairFails
  <2>1. InOrder(recorded, queue, lastEnd)'
    BY <1>4, <1>news, <1>t DEF RepairFails, Statuses
  <2> QED
    BY <1>4, <2>1 DEF RepairFails, FeedInv
<1>5. CASE QuoteArrives
  <2>1. InOrder(recorded, queue, lastEnd)'
    BY <1>5, <1>news, <1>q DEF QuoteArrives
  <2> QED
    BY <1>5, <1>o, <2>1 DEF QuoteArrives, FeedInv
<1>6. CASE HealthArrives
  <2>1. PICK status \in {"reconnecting", "warming", "healthy"} :
          queue' = IF status = "healthy" /\ blocked THEN queue ELSE Append(queue, Health(status))
    BY <1>6 DEF HealthArrives
  <2>2. UNCHANGED <<recorded, lastEnd, repairing>>
    BY <1>6 DEF HealthArrives
  <2>3. CASE queue' = queue
    BY <1>same, <2>2, <2>3
  <2>4. CASE queue' = Append(queue, Health(status))
    <3>1. InOrder(recorded, queue, lastEnd)'
      BY <1>news, <1>t, <2>2, <2>4 DEF Statuses
    <3> QED
      BY <1>o, <2>2, <3>1 DEF FeedInv
  <2> QED
    BY <2>1, <2>3, <2>4
<1>7. CASE ConsumeHealth
  BY <1>7, <1>pop DEF ConsumeHealth, producer
<1>8. CASE Heartbeat
  BY <1>8, <1>same DEF Heartbeat, producer
<1>9. CASE ConsumeQuote
  BY <1>9, <1>pop DEF ConsumeQuote, producer
<1>10. CASE RecordBar
  <2>1. /\ queue # <<>> /\ queue' = Tail(queue) /\ Head(queue).kind = "bar"
        /\ recorded' = recorded \cup {Head(queue).minute} /\ UNCHANGED <<lastEnd, repairing>>
    BY <1>10 DEF RecordBar, Pop, producer
  <2>2. InOrder(recorded \cup {Head(queue).minute}, Tail(queue), lastEnd)
    BY <1>o, <1>r, <2>1, HeadLeaves
  <2> QED
    BY <1>o, <2>1, <2>2 DEF FeedInv
<1>11. CASE LookAtBar
  BY <1>11, <1>same DEF LookAtBar, producer
<1>12. CASE Restart
  <2>1. /\ queue' = <<>> /\ recorded' = recorded /\ repairing' = 0
        /\ lastEnd' = LastOf(recorded)
    BY <1>12 DEF Restart, StartsFrom
  <2>2. NoHole(recorded)
    <3>1. Upto(recorded, queue, 0) = recorded /\ 0 \in 0..Len(queue)
      BY <1>r DEF Upto, BarsOf
    <3> QED
      BY <1>o, <3>1 DEF InOrder
  <2>3. \A n \in 0..0 : Upto(recorded, <<>>, n) = recorded
    BY DEF Upto, BarsOf
  <2>4. \A m \in recorded : m <= LastOf(recorded)
    BY <1>r, LastOfFacts DEF TypeInv
  <2>5. LastOf(recorded) # 0 => LastOf(recorded) \in recorded
    BY <1>r, LastOfFacts DEF TypeInv
  <2>6. InOrder(recorded, <<>>, LastOf(recorded))
    BY <2>2, <2>3, <2>4, <2>5 DEF InOrder
  <2> QED
    BY <2>1, <2>6 DEF FeedInv
<1>13. CASE UNCHANGED vars
  BY <1>13, <1>same DEF vars, producer
<1> QED
  BY <1>1, <1>2, <1>3, <1>4, <1>5, <1>6, <1>7, <1>8, <1>9, <1>10, <1>11, <1>12, <1>13 DEF Next

\* Between two recorded minutes every minute is recorded, for every queue, every
\* repair bound, and processes that end anywhere, in the middle of a repair too.
THEOREM RecordIsContiguous == Spec => []NoHoleInRecord
<1>1. TypeInv /\ FeedInv => NoHoleInRecord
  <2> SUFFICES ASSUME TypeInv, FeedInv PROVE NoHoleInRecord
    OBVIOUS
  <2>1. Upto(recorded, queue, 0) = recorded /\ 0 \in 0..Len(queue)
    BY DEF Upto, BarsOf, TypeInv, TypeOK
  <2>2. NoHole(recorded)
    BY <2>1 DEF FeedInv, InOrder
  <2> QED
    BY <2>2 DEF NoHole, NoHoleInRecord
<1> QED
  BY <1>1, TypeInit, TypeStep, FeedInit, FeedStep, PTL DEF Spec

-----------------------------------------------------------------------------
(* The bars that wait in the queue are newer than all that the engine has  *)
(* accepted, one newer than the other.  So a bar is always newer than the  *)
(* last one looked at for stops and targets, and is looked at in its turn. *)

IsBar(q, k) == q[k].kind = "bar"

\* The bars of the queue rise from above the accepted ones to the watermark.
Rising(q, last, accepted) ==
  /\ \A i, j \in 1..Len(q) : i < j /\ IsBar(q, i) /\ IsBar(q, j) => q[i].minute < q[j].minute
  /\ \A i \in 1..Len(q) : IsBar(q, i) =>
       q[i].minute <= last /\ \A m \in accepted : m < q[i].minute

PlaceInv ==
  /\ lastEnd <= minute /\ repairing <= minute
  /\ Rising(queue, lastEnd, recorded)
  /\ \A m \in recorded : m <= lastEnd

WatchInv ==
  /\ looking # 0 => /\ \A m \in watched : m < looking
                    /\ lastRisk < looking
                    /\ looking \in repairs => looking \in repaired
  /\ lastRisk = 0 \/ lastRisk \in ledger
  /\ repairs \subseteq watched \cup orphans \cup {looking}

\* Newer bars join the queue.
LEMMA RisingMore ==
  ASSUME NEW q \in Seq(Event), NEW q2 \in Seq(Event), NEW accepted \in SUBSET Minutes,
         NEW last \in Nat, NEW end \in Nat, last <= end, Rising(q, last, accepted),
         \A m \in accepted : m <= last,
         Len(q) <= Len(q2), \A k \in 1..Len(q) : q2[k] = q[k],
         \A i \in Len(q) + 1..Len(q2) : IsBar(q2, i) => last < q2[i].minute /\ q2[i].minute <= end,
         \A i, j \in Len(q) + 1..Len(q2) :
           i < j /\ IsBar(q2, i) /\ IsBar(q2, j) => q2[i].minute < q2[j].minute
  PROVE  Rising(q2, end, accepted)
<1>1. /\ Len(q) \in Nat /\ Len(q2) \in Nat
      /\ \A i \in 1..Len(q2) : i \in 1..Len(q) \/ i \in Len(q) + 1..Len(q2)
  OBVIOUS
<1>2. /\ \A i \in 1..Len(q2) : IsBar(q2, i) => q2[i].minute \in Nat
      /\ \A m \in accepted : m \in Nat
  <2>1. \A i \in 1..Len(q2) : q2[i] \in Event
    BY ElementOfSeq
  <2>2. Minutes \subseteq Nat
    BY FeedAssumption DEF Minutes
  <2> QED
    BY <2>1, <2>2, EventBar DEF IsBar
<1>3. \A i \in 1..Len(q) : IsBar(q2, i) =>
        IsBar(q, i) /\ q2[i].minute <= last /\ \A m \in accepted : m < q2[i].minute
  BY DEF Rising, IsBar
<1>4. ASSUME NEW i \in 1..Len(q2), IsBar(q2, i)
      PROVE  q2[i].minute <= end /\ \A m \in accepted : m < q2[i].minute
  <2>1. CASE i \in 1..Len(q)
    BY <1>2, <1>3, <1>4, <2>1
  <2>2. CASE i \in Len(q) + 1..Len(q2)
    BY <1>2, <1>4, <2>2
  <2> QED
    BY <1>1, <2>1, <2>2
<1>5. ASSUME NEW i \in 1..Len(q2), NEW j \in 1..Len(q2), i < j, IsBar(q2, i), IsBar(q2, j)
      PROVE  q2[i].minute < q2[j].minute
  <2>1. CASE j \in 1..Len(q)
    <3>1. i \in 1..Len(q)
      BY <1>1, <1>5, <2>1
    <3>2. IsBar(q, i) /\ IsBar(q, j) /\ q2[i] = q[i] /\ q2[j] = q[j]
      BY <1>5, <2>1, <3>1 DEF IsBar
    <3> QED
      BY <1>5, <2>1, <3>1, <3>2 DEF Rising
  <2>2. CASE i \in Len(q) + 1..Len(q2)
    <3>1. j \in Len(q) + 1..Len(q2)
      BY <1>1, <1>5, <2>2
    <3> QED
      BY <1>5, <2>2, <3>1
  <2>3. CASE i \in 1..Len(q) /\ j \in Len(q) + 1..Len(q2)
    <3>1. q2[i].minute <= last /\ last < q2[j].minute
      BY <1>3, <1>5, <2>3
    <3> QED
      BY <1>2, <1>5, <3>1
  <2> QED
    BY <1>1, <2>1, <2>2, <2>3
<1> QED
  BY <1>4, <1>5 DEF Rising

\* The head leaves, and is accepted if it is a bar.
LEMMA RisingTail ==
  ASSUME NEW q \in Seq(Event), q # <<>>, NEW accepted, NEW last, Rising(q, last, accepted)
  PROVE  /\ Rising(Tail(q), last, accepted)
         /\ IsBar(q, 1) => /\ Rising(Tail(q), last, accepted \cup {Head(q).minute})
                           /\ Head(q).minute <= last
                           /\ \A m \in accepted : m < Head(q).minute
<1> DEFINE q2 == Tail(q)
<1>1. /\ q2 \in Seq(Event) /\ Len(q2) = Len(q) - 1 /\ Head(q) = q[1]
      /\ \A k \in 1..Len(q2) : q2[k] = q[k + 1]
  BY HeadTailProperties
<1> HIDE DEF q2
<1>2. Len(q) \in Nat /\ Len(q2) \in Nat /\ 1 \in 1..Len(q)
  BY <1>1
<1>3. \A k \in 1..Len(q2) : k + 1 \in 1..Len(q) /\ 1 < k + 1 /\ (IsBar(q2, k) => IsBar(q, k + 1))
  BY <1>1, <1>2 DEF IsBar
<1>4. ASSUME NEW i \in 1..Len(q2), NEW j \in 1..Len(q2), i < j, IsBar(q2, i), IsBar(q2, j)
      PROVE  q2[i].minute < q2[j].minute
  <2>1. i + 1 < j + 1
    BY <1>2, <1>4
  <2>2. q[i + 1].minute < q[j + 1].minute
    BY <1>3, <1>4, <2>1 DEF Rising
  <2> QED
    BY <1>1, <2>2
<1>5. ASSUME NEW i \in 1..Len(q2), IsBar(q2, i)
      PROVE  /\ q2[i].minute <= last /\ \A m \in accepted : m < q2[i].minute
             /\ IsBar(q, 1) => Head(q).minute < q2[i].minute
  BY <1>1, <1>2, <1>3, <1>5 DEF Rising
<1>6. Rising(q2, last, accepted)
  BY <1>4, <1>5 DEF Rising
<1>7. ASSUME IsBar(q, 1)
      PROVE  /\ Rising(q2, last, accepted \cup {Head(q).minute})
             /\ Head(q).minute <= last /\ \A m \in accepted : m < Head(q).minute
  BY <1>1, <1>2, <1>4, <1>5, <1>7 DEF Rising
<1> QED
  BY <1>6, <1>7 DEF q2

\* What the repair of a gap adds to a queue: its minutes, and then the bar that waited.
LEMMA RepairAdds ==
  ASSUME TypeInv, FeedInv, RepairSucceeds
  PROVE  /\ queue' \in Seq(Event) /\ Len(queue) <= Len(queue')
         /\ \A k \in 1..Len(queue) : queue'[k] = queue[k]
         /\ \A k \in Len(queue) + 1..Len(queue') :
              queue'[k].kind = "bar" =>
                /\ lastEnd < queue'[k].minute /\ queue'[k].minute <= repairing
                /\ queue'[k].verified \/ k = Len(queue')
         /\ ~queue'[Len(queue')].verified
         /\ \A i, j \in Len(queue) + 1..Len(queue') :
              i < j /\ queue'[i].kind = "bar" /\ queue'[j].kind = "bar"
                => queue'[i].minute < queue'[j].minute
<1> DEFINE gap == Gap(repairing)
<1> DEFINE bars == [i \in 1..gap |-> Bar(lastEnd + i, TRUE)]
<1> DEFINE news == Health("healthy")
<1> DEFINE e == Bar(repairing, FALSE)
<1>1. repairing # 0 /\ repairing > lastEnd /\ lastEnd # 0
  BY DEF RepairSucceeds, FeedInv
<1>2. lastEnd \in Minutes /\ repairing \in Minutes /\ Minutes \subseteq Nat /\ queue \in Seq(Event)
  BY <1>1, FeedAssumption DEF TypeInv, TypeOK, Minutes, FeedAssumption
<1>3. gap \in Nat /\ repairing = lastEnd + gap + 1
  BY <1>1, <1>2 DEF Gap
<1>4. \A i \in 1..gap : lastEnd + i \in Minutes
  BY <1>2, <1>3, FeedAssumption DEF Minutes, FeedAssumption
<1>5. queue' = queue \o bars \o <<news, e>>
  BY DEF RepairSucceeds
<1> HIDE DEF gap
<1>6. bars \in Seq(Event) /\ Len(bars) = gap
  <2>1. \A i \in 1..gap : bars[i] \in Event
    BY <1>4, EventTypes
  <2>2. bars \in Seq(Event)
    <3>1. bars = [i \in 1..gap |-> bars[i]] /\ gap \in Int
      BY <1>3
    <3> HIDE DEF bars
    <3> QED
      BY <2>1, <3>1, EventSeq
  <2>3. DOMAIN bars = 1..gap
    OBVIOUS
  <2> HIDE DEF bars
  <2> QED
    BY <1>3, <2>2, <2>3
<1>7. \A i \in 1..gap : /\ bars[i].kind = "bar" /\ bars[i].minute = lastEnd + i
                        /\ bars[i].verified = TRUE
  BY DEF Bar
<1>8. /\ news \in Event /\ news.kind # "bar" /\ e \in Event
      /\ e.minute = lastEnd + gap + 1 /\ e.verified = FALSE
  BY <1>2, <1>3, EventTypes DEF Bar, Health, Statuses
<1> HIDE DEF bars, news, e
<1>9. PICK q, q2 : q = queue /\ q2 = queue'
  OBVIOUS
<1>10. /\ q2 \in Seq(Event) /\ Len(q2) = Len(q) + gap + 2
       /\ \A k \in 1..Len(q) : q2[k] = q[k]
       /\ \A k \in Len(q) + 1..Len(q) + gap : q2[k] = bars[k - Len(q)]
       /\ q2[Len(q) + gap + 1] = news /\ q2[Len(q) + gap + 2] = e
  <2>1. PICK g, bs, new, last : g = gap /\ bs = bars /\ new = news /\ last = e
    OBVIOUS
  <2>2. /\ q2 = q \o bs \o <<new, last>> /\ q \in Seq(Event) /\ g \in Nat
        /\ bs \in Seq(Event) /\ Len(bs) = g /\ new \in Event /\ last \in Event
    <3>1. q2 = q \o bs \o <<new, last>>
      BY <1>5, <1>9, <2>1
    <3>2. q \in Seq(Event) /\ g \in Nat
      BY <1>2, <1>3, <1>9, <2>1
    <3>3. bs \in Seq(Event) /\ Len(bs) = g
      BY <1>6, <2>1
    <3>4. new \in Event /\ last \in Event
      BY <1>8, <2>1
    <3> QED
      BY <3>1, <3>2, <3>3, <3>4
  <2>3. /\ q2 \in Seq(Event) /\ Len(q2) = Len(q) + g + 2
        /\ \A k \in 1..Len(q) : q2[k] = q[k]
        /\ \A k \in Len(q) + 1..Len(q) + g : q2[k] = bs[k - Len(q)]
        /\ q2[Len(q) + g + 1] = new /\ q2[Len(q) + g + 2] = last
    BY <2>2, RepairShape
  <2> QED
    BY <2>1, <2>3
<1>11. Len(q) \in Nat /\ Len(q2) \in Nat /\ Len(q) <= Len(q2) /\ lastEnd \in Nat
  BY <1>2, <1>3, <1>9, <1>10
<1>12. \A k \in Len(q) + 1..Len(q2) :
         k \in Len(q) + 1..Len(q) + gap \/ k = Len(q) + gap + 1 \/ k = Len(q) + gap + 2
  <2>1. Len(q2) \in Len(q)..Len(q) + gap + 2
    BY <1>3, <1>10, <1>11
  <2> QED
    BY <1>3, <1>11, <2>1, LastThree
<1>13. \A k \in Len(q) + 1..Len(q) + gap :
         q2[k].minute = lastEnd + (k - Len(q)) /\ q2[k].verified = TRUE
  <2>1. \A k \in Len(q) + 1..Len(q) + gap : k - Len(q) \in 1..gap
    BY <1>3, <1>11
  <2> QED
    BY <1>7, <1>10, <2>1
<1>14. ASSUME NEW k \in Len(q) + 1..Len(q2), q2[k].kind = "bar"
       PROVE  \/ /\ k \in Len(q) + 1..Len(q) + gap /\ q2[k].minute = lastEnd + (k - Len(q))
                 /\ q2[k].verified
              \/ k = Len(q2) /\ q2[k].minute = lastEnd + gap + 1
  BY <1>8, <1>10, <1>12, <1>13, <1>14
<1>15. ASSUME NEW k \in Len(q) + 1..Len(q2), q2[k].kind = "bar"
       PROVE  /\ lastEnd < q2[k].minute /\ q2[k].minute <= repairing
              /\ q2[k].verified \/ k = Len(q2)
  BY <1>3, <1>11, <1>14, <1>15
<1>16. ASSUME NEW i \in Len(q) + 1..Len(q2), NEW j \in Len(q) + 1..Len(q2), i < j,
              q2[i].kind = "bar", q2[j].kind = "bar"
       PROVE  q2[i].minute < q2[j].minute
  <2>1. i # Len(q2)
    BY <1>11, <1>16
  <2>2. i \in Len(q) + 1..Len(q) + gap /\ q2[i].minute = lastEnd + (i - Len(q))
    BY <1>14, <1>16, <2>1
  <2>3. \/ j \in Len(q) + 1..Len(q) + gap /\ q2[j].minute = lastEnd + (j - Len(q))
        \/ q2[j].minute = lastEnd + gap + 1
    BY <1>14, <1>16
  <2> QED
    BY <1>3, <1>11, <1>16, <2>2, <2>3
<1>17. ~q2[Len(q2)].verified
  BY <1>8, <1>10
<1> QED
  BY <1>9, <1>10, <1>11, <1>15, <1>16, <1>17

LEMMA PlaceInit == Init => PlaceInv
<1> SUFFICES ASSUME Init PROVE PlaceInv
  OBVIOUS
<1>1. Len(queue) = 0
  BY DEF Init
<1> QED
  BY <1>1 DEF Init, PlaceInv, Rising

LEMMA PlaceStep == TypeInv /\ FeedInv /\ PlaceInv /\ [Next]_vars => PlaceInv'
<1> SUFFICES ASSUME TypeInv, FeedInv, PlaceInv, [Next]_vars PROVE PlaceInv'
  OBVIOUS
<1>r. /\ queue \in Seq(Event) /\ recorded \in SUBSET Minutes
      /\ lastEnd \in Nat /\ minute \in Nat /\ repairing \in Nat /\ Minutes \subseteq Nat
  BY FeedAssumption DEF TypeInv, TypeOK, Minutes
<1>o. /\ lastEnd <= minute /\ repairing <= minute /\ Rising(queue, lastEnd, recorded)
      /\ \A m \in recorded : m <= lastEnd
  BY DEF PlaceInv
<1>same. ASSUME UNCHANGED <<minute, lastEnd, repairing, queue, recorded>>
         PROVE  PlaceInv'
  BY <1>o, <1>same DEF PlaceInv
<1>news. ASSUME NEW e \in Event, queue' = Append(queue, e), recorded' = recorded,
                NEW end \in Nat, lastEnd' = end, lastEnd <= end,
                e.kind = "bar" => lastEnd < e.minute /\ e.minute <= end
         PROVE  Rising(queue, lastEnd, recorded)' /\ \A m \in recorded' : m <= lastEnd'
  <2>1. PICK q, q2, last : q = queue /\ q2 = Append(queue, e) /\ last = lastEnd
    OBVIOUS
  <2>2. /\ q2 \in Seq(Event) /\ Len(q2) = Len(q) + 1 /\ q2[Len(q) + 1] = e /\ q \in Seq(Event)
        /\ \A k \in 1..Len(q) : q2[k] = q[k]
    BY <1>r, <2>1, AppendProperties
  <2>3. Len(q) \in Nat /\ \A i \in Len(q) + 1..Len(q2) : i = Len(q) + 1
    BY <2>2
  <2>4. \A i \in Len(q) + 1..Len(q2) : IsBar(q2, i) => last < q2[i].minute /\ q2[i].minute <= end
    BY <1>news, <2>1, <2>2, <2>3 DEF IsBar
  <2>5. \A i, j \in Len(q) + 1..Len(q2) :
          i < j /\ IsBar(q2, i) /\ IsBar(q2, j) => q2[i].minute < q2[j].minute
    BY <2>3
  <2>6. Len(q) <= Len(q2) /\ last \in Nat /\ last <= end
    BY <1>r, <1>news, <2>1, <2>2, <2>3
  <2>7. PICK accepted \in SUBSET Minutes : accepted = recorded
    BY <1>r
  <2>8. Rising(q, last, accepted) /\ \A m \in accepted : m <= last
    BY <1>o, <2>1, <2>7
  <2>9. Rising(q2, end, accepted)
    BY <2>2, <2>4, <2>5, <2>6, <2>8, RisingMore
  <2>10. \A m \in recorded : m <= end
    BY <1>r, <1>o, <1>news
  <2> QED
    BY <1>news, <2>1, <2>7, <2>9, <2>10
<1>t. /\ \A status \in Statuses : Health(status) \in Event /\ Health(status).kind # "bar"
      /\ Quote \in Event /\ Quote.kind # "bar"
  BY EventTypes DEF Health, Quote
<1>pop. ASSUME Pop, Head(queue).kind # "bar", UNCHANGED <<minute, lastEnd, repairing, recorded>>
        PROVE  PlaceInv'
  <2>1. queue # <<>> /\ queue' = Tail(queue)
    BY <1>pop DEF Pop
  <2>2. Rising(Tail(queue), lastEnd, recorded)
    BY <1>r, <1>o, <2>1, RisingTail
  <2> QED
    BY <1>o, <1>pop, <2>1, <2>2 DEF PlaceInv
<1>1. CASE BarLost
  <2>1. minute' \in Nat /\ lastEnd <= minute' /\ repairing <= minute'
    BY <1>1, <1>r, <1>o DEF BarLost
  <2> QED
    BY <1>1, <1>o, <2>1 DEF BarLost, PlaceInv, engine
<1>2. CASE BarArrives
  <2>1. /\ minute' \in Minutes /\ minute' \in Nat /\ lastEnd < minute' /\ repairing = 0
        /\ recorded' = recorded
    BY <1>2, <1>r, <1>o, FeedAssumption DEF BarArrives, Receives, Minutes, engine, TypeInv, TypeOK
  <2>2. Bar(minute', FALSE) \in Event /\ Bar(minute', FALSE).minute = minute'
    BY <2>1, EventTypes DEF Bar
  <2>3. CASE /\ lastEnd' = minute' /\ queue' = Append(queue, Bar(minute', FALSE))
             /\ repairing' = repairing
    <3>1. PICK e, end : e = Bar(minute', FALSE) /\ end = minute'
      OBVIOUS
    <3>2. /\ e \in Event /\ end \in Nat /\ lastEnd < e.minute /\ e.minute <= end
          /\ lastEnd <= end /\ lastEnd' = end /\ queue' = Append(queue, e)
      <4>1. e \in Event /\ e.minute = end /\ end \in Nat /\ lastEnd < end
        BY <2>1, <2>2, <3>1
      <4>2. lastEnd' = end /\ queue' = Append(queue, e)
        BY <2>3, <3>1
      <4>3. lastEnd < e.minute /\ e.minute <= end /\ lastEnd <= end
        BY <1>r, <4>1
      <4> QED
        BY <4>1, <4>2, <4>3
    <3>3. Rising(queue, lastEnd, recorded)' /\ \A m \in recorded' : m <= lastEnd'
      BY <1>news, <2>1, <3>2
    <3>4. lastEnd' <= minute' /\ repairing' <= minute'
      <4>1. lastEnd' = minute' /\ repairing' = 0 /\ minute' \in Nat
        BY <2>1, <2>3
      <4> QED
        BY <4>1
    <3> QED
      BY <3>3, <3>4 DEF PlaceInv
  <2>4. ASSUME NEW status \in Statuses, queue' = Append(queue, Health(status)), lastEnd' = lastEnd,
               repairing' = minute' \/ repairing' = repairing
        PROVE  PlaceInv'
    <3>1. Rising(queue, lastEnd, recorded)' /\ \A m \in recorded' : m <= lastEnd'
      BY <1>news, <1>r, <1>t, <2>1, <2>4
    <3> QED
      BY <1>r, <1>o, <2>1, <2>4, <3>1 DEF PlaceInv
  <2> QED
    BY <1>2, <2>3, <2>4 DEF BarArrives, Statuses
<1>3. CASE RepairSucceeds
  <2>1. lastEnd' = repairing /\ lastEnd < repairing /\ repairing' = 0
        /\ UNCHANGED <<minute, recorded>>
    BY <1>3, <1>r DEF RepairSucceeds, FeedInv
  <2>2. PICK q, q2, last, end, accepted :
          q = queue /\ q2 = queue' /\ last = lastEnd /\ end = repairing /\ accepted = recorded
    OBVIOUS
  <2>3. /\ q2 \in Seq(Event) /\ Len(q) <= Len(q2) /\ \A k \in 1..Len(q) : q2[k] = q[k]
        /\ \A i \in Len(q) + 1..Len(q2) : IsBar(q2, i) => last < q2[i].minute /\ q2[i].minute <= end
        /\ \A i, j \in Len(q) + 1..Len(q2) :
             i < j /\ IsBar(q2, i) /\ IsBar(q2, j) => q2[i].minute < q2[j].minute
    BY <1>3, <2>2, RepairAdds DEF IsBar
  <2>4. /\ q \in Seq(Event) /\ accepted \in SUBSET Minutes /\ last \in Nat /\ end \in Nat
        /\ last <= end /\ Rising(q, last, accepted) /\ \A m \in accepted : m <= last
    BY <1>r, <1>o, <2>1, <2>2
  <2>5. Rising(q2, end, accepted)
    BY <2>3, <2>4, RisingMore
  <2>6. \A m \in recorded : m <= repairing
    BY <1>r, <1>o, <2>1
  <2> QED
    BY <1>r, <1>o, <2>1, <2>2, <2>5, <2>6 DEF PlaceInv
<1>4. CASE RepairFails
  <2>1. Health("stale") \in Event /\ Health("stale").kind # "bar"
    BY <1>t DEF Statuses
  <2>2. Rising(queue, lastEnd, recorded)' /\ \A m \in recorded' : m <= lastEnd'
    BY <1>4, <1>news, <1>r, <2>1 DEF RepairFails, engine
  <2> QED
    BY <1>4, <1>r, <1>o, <2>2 DEF RepairFails, PlaceInv
<1>5. CASE QuoteArrives
  <2>1. Rising(queue, lastEnd, recorded)' /\ \A m \in recorded' : m <= lastEnd'
    BY <1>5, <1>news, <1>r, <1>t DEF QuoteArrives, engine
  <2> QED
    BY <1>5, <1>o, <2>1 DEF QuoteArrives, PlaceInv
<1>6. CASE HealthArrives
  <2>1. PICK status \in {"reconnecting", "warming", "healthy"} :
          queue' = IF status = "healthy" /\ blocked THEN queue ELSE Append(queue, Health(status))
    BY <1>6 DEF HealthArrives
  <2>2. UNCHANGED <<minute, lastEnd, repairing, recorded>>
    BY <1>6 DEF HealthArrives, engine
  <2>3. CASE queue' = queue
    BY <1>same, <2>2, <2>3
  <2>4. CASE queue' = Append(queue, Health(status))
    <3>1. Rising(queue, lastEnd, recorded)' /\ \A m \in recorded' : m <= lastEnd'
      <4>1. Health(status) \in Event /\ Health(status).kind # "bar"
        BY <1>t DEF Statuses
      <4> QED
        BY <1>news, <1>r, <2>2, <2>4, <4>1
    <3> QED
      BY <1>o, <2>2, <3>1 DEF PlaceInv
  <2> QED
    BY <2>1, <2>3, <2>4
<1>7. CASE ConsumeHealth
  BY <1>7, <1>pop DEF ConsumeHealth, producer
<1>8. CASE Heartbeat
  BY <1>8, <1>same DEF Heartbeat, producer
<1>9. CASE ConsumeQuote
  BY <1>9, <1>pop DEF ConsumeQuote, producer
<1>10. CASE RecordBar
  <2>1. /\ queue # <<>> /\ queue' = Tail(queue) /\ Head(queue).kind = "bar"
        /\ recorded' = recorded \cup {Head(queue).minute}
        /\ UNCHANGED <<minute, lastEnd, repairing>>
    BY <1>10 DEF RecordBar, Pop, producer
  <2>2. Head(queue) = queue[1]
    BY <1>r, <2>1, HeadTailProperties
  <2>3. Rising(Tail(queue), lastEnd, recorded \cup {Head(queue).minute}) /\ Head(queue).minute <= lastEnd
    BY <1>r, <1>o, <2>1, <2>2, RisingTail DEF IsBar
  <2> QED
    BY <1>o, <2>1, <2>3 DEF PlaceInv
<1>11. CASE LookAtBar
  BY <1>11, <1>same DEF LookAtBar, producer
<1>12. CASE Restart
  <2>1. /\ queue' = <<>> /\ minute' = minute /\ repairing' = 0 /\ recorded' = recorded
        /\ lastEnd' = LastOf(recorded)
    BY <1>12 DEF Restart, StartsFrom
  <2>2. LastOf(recorded) <= lastEnd
    <3>1. \A m \in recorded : m <= lastEnd
      BY DEF FeedInv, InOrder, Upto
    <3>2. recorded # {} => LastOf(recorded) \in recorded
      BY <1>r, LastOfFacts DEF TypeInv
    <3>3. recorded = {} => LastOf(recorded) = 0
      BY <1>r, LastOfFacts DEF TypeInv
    <3>4. CASE recorded = {}
      <4>1. LastOf(recorded) = 0
        BY <3>3, <3>4
      <4> QED
        BY <1>r, <4>1
    <3>5. CASE recorded # {}
      BY <3>1, <3>2, <3>5
    <3> QED
      BY <3>4, <3>5
  <2>3. LastOf(recorded) \in Nat
    BY <1>r, LastOfFacts, FeedAssumption DEF TypeInv
  <2>4. LastOf(recorded) <= minute /\ 0 <= minute
    BY <1>r, <1>o, <2>2, <2>3
  <2>5. Rising(<<>>, LastOf(recorded), recorded)
    BY DEF Rising
  <2>6. \A m \in recorded : m <= LastOf(recorded)
    BY <1>r, LastOfFacts DEF TypeInv
  <2> QED
    BY <2>1, <2>4, <2>5, <2>6 DEF PlaceInv
<1>13. CASE UNCHANGED vars
  BY <1>13, <1>same DEF vars, producer, engine
<1> QED
  BY <1>1, <1>2, <1>3, <1>4, <1>5, <1>6, <1>7, <1>8, <1>9, <1>10, <1>11, <1>12, <1>13 DEF Next

LEMMA WatchInit == Init => WatchInv
BY DEF Init, WatchInv

LEMMA WatchStep == TypeInv /\ PlaceInv /\ WatchInv /\ [Next]_vars => WatchInv'
<1> SUFFICES ASSUME TypeInv, PlaceInv, WatchInv, [Next]_vars PROVE WatchInv'
  OBVIOUS
<1>r. /\ ledger \subseteq Minutes /\ ledger \subseteq recorded /\ recorded \subseteq Minutes
      /\ watched \subseteq recorded /\ repairs \subseteq recorded
      /\ Minutes \subseteq Nat \ {0} /\ lastRisk \in Nat /\ looking \in Nat
  BY FeedAssumption DEF TypeInv, TypeOK, Minutes
<1>o. /\ looking # 0 => /\ \A m \in watched : m < looking
                        /\ lastRisk < looking
                        /\ looking \in repairs => looking \in repaired
      /\ lastRisk = 0 \/ lastRisk \in ledger
      /\ repairs \subseteq watched \cup orphans \cup {looking}
  BY DEF WatchInv
<1>same. ASSUME UNCHANGED <<ledger, repaired, looking, lastRisk, watched, repairs, orphans>>
         PROVE  WatchInv'
  BY <1>o, <1>same DEF WatchInv
<1>1. CASE RecordBar
  <2>1. /\ queue # <<>> /\ Head(queue).kind = "bar" /\ looking = 0
        /\ looking' = Head(queue).minute /\ ledger' = ledger \cup {Head(queue).minute}
        /\ repaired' = IF Head(queue).verified THEN repaired \cup {Head(queue).minute} ELSE repaired
        /\ repairs' = IF Head(queue).verified THEN repairs \cup {Head(queue).minute} ELSE repairs
        /\ UNCHANGED <<lastRisk, watched, orphans>>
    BY <1>1 DEF RecordBar, Pop
  <2>2. Head(queue) = queue[1] /\ queue \in Seq(Event) /\ Head(queue) \in Event
    BY <1>1, <2>1, HeadTailProperties, PopType DEF TypeInv, TypeOK, RecordBar
  <2>3. PICK m \in Minutes : m = Head(queue).minute
    BY <2>1, <2>2, EventBar
  <2>4. \A n \in recorded : n < m
    BY <2>1, <2>2, <2>3, RisingTail DEF IsBar, PlaceInv
  <2>5. lastRisk < m
    BY <1>r, <1>o, <2>3, <2>4
  <2>6. \A n \in watched : n < m
    BY <1>r, <2>4
  <2>7. m \notin repairs /\ looking' # 0
    BY <1>r, <2>1, <2>3, <2>4
  <2>8. m \in repairs' => m \in repaired'
    BY <2>1, <2>3, <2>7
  <2>9. repairs' \subseteq watched' \cup orphans' \cup {looking'}
    BY <1>r, <1>o, <2>1, <2>3
  <2> QED
    BY <1>o, <2>1, <2>3, <2>5, <2>6, <2>8, <2>9 DEF WatchInv
<1>2. CASE LookAtBar
  <2>1. /\ looking # 0 /\ looking' = 0 /\ UNCHANGED <<ledger, repaired, repairs, orphans>>
        /\ MonitorRisk
    BY <1>2 DEF LookAtBar
  <2>2. looking \in ledger /\ lastRisk < looking
    BY <1>o, <2>1 DEF TypeInv
  <2>3. lastRisk' = 0 \/ lastRisk' \in ledger
    <3>1. CASE lastRisk' = looking
      BY <2>2, <3>1
    <3>2. CASE lastRisk' = lastRisk
      BY <1>o, <3>2
    <3> QED
      BY <2>1, <3>1, <3>2 DEF MonitorRisk
  <2>4. watched \subseteq watched' /\ (looking \in repaired => looking \in watched')
    BY <1>r, <2>1, <2>2 DEF MonitorRisk
  <2>5. repairs' \subseteq watched' \cup orphans'
    BY <1>o, <2>1, <2>4
  <2> QED
    BY <2>1, <2>3, <2>5 DEF WatchInv
<1>3. CASE Restart
  <2>1. looking' = 0 /\ lastRisk' = 0 /\ UNCHANGED <<repairs, watched>>
        /\ orphans' = IF looking = 0 THEN orphans ELSE orphans \cup {looking}
    BY <1>3 DEF Restart, StartsFrom
  <2>2. repairs' \subseteq watched' \cup orphans' \cup {looking'}
    BY <1>o, <2>1
  <2> QED
    BY <2>1, <2>2 DEF WatchInv
<1>4. CASE BarLost \/ BarArrives \/ RepairSucceeds \/ RepairFails \/ QuoteArrives \/ HealthArrives
  BY <1>4, <1>same DEF BarLost, BarArrives, RepairSucceeds, RepairFails, QuoteArrives,
       HealthArrives, engine, history
<1>5. CASE ConsumeHealth \/ Heartbeat \/ ConsumeQuote
  BY <1>5, <1>same DEF ConsumeHealth, Heartbeat, ConsumeQuote, history
<1>6. CASE UNCHANGED vars
  BY <1>6, <1>same DEF vars, engine, history
<1> QED
  BY <1>1, <1>2, <1>3, <1>4, <1>5, <1>6 DEF Next

\* Over all processes, stops and targets are watched in the order of the bars and
\* never twice on one, and a bar recorded from a repair is only passed over when its
\* process ends between the recording and the look.
THEOREM RepairsAreWatched == Spec => WatchedInOrder
<1>1. ASSUME TypeInv, WatchInv, WatchInv', [Next]_vars
      PROVE  [/\ \A m \in watched' \ watched, n \in watched : n < m
              /\ repairs' \subseteq watched' \cup orphans' \cup {looking'}]_vars
  <2>1. \A m \in watched' \ watched : m = looking /\ looking # 0
    <3>1. CASE LookAtBar
      BY <3>1 DEF LookAtBar, MonitorRisk
    <3>2. CASE watched' = watched
      BY <3>2
    <3> QED
      BY <1>1, <3>1, <3>2 DEF Next, BarLost, BarArrives, RepairSucceeds, RepairFails, QuoteArrives,
           HealthArrives, ConsumeHealth, Heartbeat, ConsumeQuote, RecordBar, Restart, history, vars
  <2>2. looking # 0 => \A n \in watched : n < looking
    BY <1>1 DEF WatchInv
  <2>3. repairs' \subseteq watched' \cup orphans' \cup {looking'}
    BY <1>1 DEF WatchInv
  <2> QED
    BY <2>1, <2>2, <2>3
<1> QED
  BY <1>1, TypeInit, TypeStep, FeedInit, FeedStep, PlaceInit, PlaceStep, WatchInit, WatchStep,
     PTL DEF Spec, WatchedInOrder

-----------------------------------------------------------------------------
(* No decision waits when a repaired bar is recorded: the producer told    *)
(* the engine of the gap before it sent any of its minutes, and no fresh   *)
(* bar can come between the two.                                           *)

Fresh(q, k)  == IsBar(q, k) /\ ~q[k].verified
Filled(q, k) == IsBar(q, k) /\ q[k].verified
Broken(q, k) == q[k].kind = "health" /\ q[k].status # "healthy"

\* Bars that are still to be decided.
Undecided == pending \cup ({looking} \ (repaired \cup {0}))

\* When the events before the i-th have been consumed no bar is undecided.
Clear(q, i, waiting) ==
  \/ \E j \in 1..i - 1 : Broken(q, j) /\ \A k \in j + 1..i - 1 : ~Fresh(q, k)
  \/ waiting = {} /\ \A k \in 1..i - 1 : ~Fresh(q, k)

Announced(q, waiting) == \A i \in 1..Len(q) : Filled(q, i) => Clear(q, i, waiting)

CausalInv ==
  /\ ledger \ evaluated \subseteq {looking}
  /\ \A p \in Undecided : \A m \in repaired : m < p
  /\ Announced(queue, Undecided)
  /\ repairing # 0 => Clear(queue, Len(queue) + 1, Undecided)

\* What comes later in the queue, and a decision taken, change nothing.
LEMMA ClearMore ==
  ASSUME NEW q \in Seq(Event), NEW q2 \in Seq(Event), Len(q) <= Len(q2),
         \A k \in 1..Len(q) : q2[k] = q[k],
         NEW i \in 1..Len(q) + 1, NEW waiting, NEW left \in SUBSET waiting, Clear(q, i, waiting)
  PROVE  Clear(q2, i, left)
<1>1. \A k \in 1..i - 1 : k \in 1..Len(q) /\ q2[k] = q[k]
  OBVIOUS
<1>2. CASE \E j \in 1..i - 1 : Broken(q, j) /\ \A k \in j + 1..i - 1 : ~Fresh(q, k)
  <2>1. PICK j \in 1..i - 1 : Broken(q, j) /\ \A k \in j + 1..i - 1 : ~Fresh(q, k)
    BY <1>2
  <2>2. Broken(q2, j)
    BY <1>1, <2>1 DEF Broken
  <2>3. \A k \in j + 1..i - 1 : k \in 1..i - 1
    BY <2>1
  <2>4. \A k \in j + 1..i - 1 : ~Fresh(q2, k)
    BY <1>1, <2>1, <2>3 DEF Fresh, IsBar
  <2> QED
    BY <2>1, <2>2, <2>4 DEF Clear
<1>3. CASE waiting = {} /\ \A k \in 1..i - 1 : ~Fresh(q, k)
  BY <1>1, <1>3 DEF Clear, Fresh, IsBar
<1> QED
  BY <1>2, <1>3 DEF Clear

\* Events that are no fresh bars leave nothing undecided.
LEMMA ClearPast ==
  ASSUME NEW q, NEW i \in Nat, NEW n \in Nat, i >= 1, i <= n, NEW waiting, Clear(q, i, waiting),
         \A k \in i..n - 1 : ~Fresh(q, k)
  PROVE  Clear(q, n, waiting)
<1>1. \A k \in 1..n - 1 : k \in 1..i - 1 \/ k \in i..n - 1
  OBVIOUS
<1>2. CASE \E j \in 1..i - 1 : Broken(q, j) /\ \A k \in j + 1..i - 1 : ~Fresh(q, k)
  <2>1. PICK j \in 1..i - 1 : Broken(q, j) /\ \A k \in j + 1..i - 1 : ~Fresh(q, k)
    BY <1>2
  <2>2. j \in 1..n - 1 /\ \A k \in j + 1..n - 1 : k \in j + 1..i - 1 \/ k \in i..n - 1
    BY <2>1
  <2> QED
    BY <2>1, <2>2 DEF Clear
<1>3. CASE waiting = {} /\ \A k \in 1..i - 1 : ~Fresh(q, k)
  BY <1>1, <1>3 DEF Clear
<1> QED
  BY <1>2, <1>3 DEF Clear

\* The head leaves: a break of the provider at the head has cleared the decisions.
LEMMA ClearTail ==
  ASSUME NEW q \in Seq(Event), q # <<>>, NEW i \in 2..Len(q) + 1,
         NEW waiting, NEW left, Clear(q, i, waiting),
         Broken(q, 1) \/ (waiting = {} /\ ~Fresh(q, 1)) => left = {}
  PROVE  Clear(Tail(q), i - 1, left)
<1>0. PICK q2 : q2 = Tail(q)
  OBVIOUS
<1> SUFFICES Clear(q2, i - 1, left)
  BY <1>0
<1>1. Len(q2) = Len(q) - 1 /\ \A k \in 1..Len(q2) : q2[k] = q[k + 1]
  BY <1>0, HeadTailProperties
<1>2. /\ i \in Nat /\ i >= 2 /\ Len(q) \in Nat
      /\ \A k \in 1..i - 2 : k + 1 \in 2..i - 1 /\ q2[k] = q[k + 1]
  BY <1>1
<1>3. ASSUME \A k \in 2..i - 1 : ~Fresh(q, k), left = {}
      PROVE  Clear(q2, i - 1, left)
  <2>1. \A k \in 1..i - 2 : ~Fresh(q2, k)
    BY <1>2, <1>3 DEF Fresh, IsBar
  <2>2. (i - 1) - 1 = i - 2
    BY <1>2
  <2> QED
    BY <1>3, <2>1, <2>2 DEF Clear
<1>4. CASE \E j \in 1..i - 1 : Broken(q, j) /\ \A k \in j + 1..i - 1 : ~Fresh(q, k)
  <2>1. PICK j \in 1..i - 1 : Broken(q, j) /\ \A k \in j + 1..i - 1 : ~Fresh(q, k)
    BY <1>4
  <2>2. CASE j = 1
    BY <1>3, <2>1, <2>2
  <2>3. CASE j # 1
    <3>1. j - 1 \in 1..i - 2 /\ (j - 1) + 1 = j
      BY <1>2, <2>1, <2>3
    <3>2. q2[j - 1] = q[j]
      BY <1>2, <3>1
    <3>3. Broken(q2, j - 1)
      BY <2>1, <3>2 DEF Broken
    <3>4. \A k \in j..i - 2 : k \in 1..i - 2 /\ k + 1 \in j + 1..i - 1
      BY <1>2, <2>1
    <3>5. \A k \in j..i - 2 : ~Fresh(q2, k)
      BY <1>2, <2>1, <3>4 DEF Fresh, IsBar
    <3>6. (i - 1) - 1 = i - 2
      BY <1>2
    <3>7. j - 1 \in 1..(i - 1) - 1 /\ \A k \in (j - 1) + 1..(i - 1) - 1 : ~Fresh(q2, k)
      BY <3>1, <3>5, <3>6
    <3> QED
      BY <3>3, <3>7 DEF Clear
  <2> QED
    BY <2>2, <2>3
<1>5. CASE waiting = {} /\ \A k \in 1..i - 1 : ~Fresh(q, k)
  <2>1. 1 \in 1..i - 1 /\ \A k \in 2..i - 1 : k \in 1..i - 1
    BY <1>2
  <2>2. ~Fresh(q, 1) /\ \A k \in 2..i - 1 : ~Fresh(q, k)
    BY <1>5, <2>1
  <2>3. left = {}
    BY <1>5, <2>2
  <2> QED
    BY <1>3, <2>2, <2>3
<1> QED
  BY <1>4, <1>5 DEF Clear

\* Events join the queue, and its repaired bars are announced.
LEMMA AnnouncedMore ==
  ASSUME NEW q \in Seq(Event), NEW q2 \in Seq(Event), Len(q) <= Len(q2),
         \A k \in 1..Len(q) : q2[k] = q[k],
         NEW waiting, NEW left \in SUBSET waiting, Announced(q, waiting),
         \A k \in Len(q) + 1..Len(q2) : Filled(q2, k) => Clear(q2, k, left)
  PROVE  Announced(q2, left)
<1>1. \A k \in 1..Len(q2) : k \in 1..Len(q) \/ k \in Len(q) + 1..Len(q2)
  OBVIOUS
<1>2. ASSUME NEW k \in 1..Len(q), Filled(q2, k) PROVE Clear(q2, k, left)
  <2>1. Filled(q, k)
    BY <1>2 DEF Filled, IsBar
  <2>2. Clear(q, k, waiting) /\ k \in 1..Len(q) + 1
    BY <2>1 DEF Announced
  <2> QED
    BY <2>2, ClearMore
<1> QED
  BY <1>1, <1>2 DEF Announced

LEMMA AnnouncedTail ==
  ASSUME NEW q \in Seq(Event), q # <<>>, NEW waiting, NEW left, Announced(q, waiting),
         Broken(q, 1) \/ (waiting = {} /\ ~Fresh(q, 1)) => left = {}
  PROVE  Announced(Tail(q), left)
<1>1. Len(Tail(q)) = Len(q) - 1 /\ \A k \in 1..Len(Tail(q)) : Tail(q)[k] = q[k + 1]
  BY HeadTailProperties
<1>2. ASSUME NEW k \in 1..Len(Tail(q)), Filled(Tail(q), k) PROVE Clear(Tail(q), k, left)
  <2>1. k + 1 \in 1..Len(q) /\ k + 1 \in 2..Len(q) + 1 /\ (k + 1) - 1 = k
    BY <1>1
  <2>2. Filled(q, k + 1)
    BY <1>1, <1>2 DEF Filled, IsBar
  <2>3. Clear(q, k + 1, waiting)
    BY <2>1, <2>2 DEF Announced
  <2>4. Clear(Tail(q), (k + 1) - 1, left)
    BY <2>1, <2>3, ClearTail
  <2> QED
    BY <2>1, <2>4
<1> QED
  BY <1>2 DEF Announced

LEMMA CausalInit == Init => CausalInv
<1> SUFFICES ASSUME Init PROVE CausalInv
  OBVIOUS
<1>1. Len(queue) = 0
  BY DEF Init
<1> QED
  BY <1>1 DEF Init, CausalInv, Announced, Undecided

LEMMA CausalStep == TypeInv /\ FeedInv /\ PlaceInv /\ CausalInv /\ [Next]_vars => CausalInv'
<1> SUFFICES ASSUME TypeInv, FeedInv, PlaceInv, CausalInv, [Next]_vars PROVE CausalInv'
  OBVIOUS
<1>r. /\ queue \in Seq(Event) /\ Len(queue) \in Nat
      /\ ledger \subseteq Minutes /\ repaired \subseteq ledger /\ pending \subseteq ledger
      /\ ledger \subseteq recorded /\ Minutes \subseteq Nat \ {0}
  BY FeedAssumption DEF TypeInv, TypeOK, Minutes
<1>o. /\ ledger \ evaluated \subseteq {looking}
      /\ \A p \in Undecided : \A m \in repaired : m < p
      /\ Announced(queue, Undecided)
      /\ repairing # 0 => Clear(queue, Len(queue) + 1, Undecided)
  BY DEF CausalInv
\* The engine stays, or decides; only the queue and the producer tell more.
<1>fewer. ASSUME ledger' \ evaluated' \subseteq {looking'}, Undecided' \subseteq Undecided,
                 repaired' = repaired,
                 Announced(queue, Undecided)' /\ (repairing # 0 => Clear(queue, Len(queue) + 1, Undecided))'
          PROVE  CausalInv'
  BY <1>o, <1>fewer DEF CausalInv
<1>engine. ASSUME UNCHANGED <<ledger, evaluated, looking, pending, repaired>>
           PROVE  /\ ledger' \ evaluated' \subseteq {looking'} /\ Undecided' = Undecided
                  /\ repaired' = repaired
  BY <1>o, <1>engine DEF Undecided
<1>same. ASSUME UNCHANGED <<queue, repairing>>, Undecided' \subseteq Undecided
         PROVE  /\ Announced(queue, Undecided)'
                /\ (repairing # 0 => Clear(queue, Len(queue) + 1, Undecided))'
  <2>1. PICK q, waiting, left : q = queue /\ waiting = Undecided /\ left = Undecided'
    OBVIOUS
  <2>2. q \in Seq(Event) /\ left \in SUBSET waiting /\ Announced(q, waiting) /\ Len(q) \in Nat
        /\ (repairing # 0 => Clear(q, Len(q) + 1, waiting))
    BY <1>r, <1>o, <1>same, <2>1
  <2>3. Announced(q, left)
    BY <2>2, AnnouncedMore
  <2>4. repairing # 0 => Clear(q, Len(q) + 1, left)
    <3>1. Len(q) + 1 \in 1..Len(q) + 1
      BY <2>2
    <3> QED
      BY <2>2, <3>1, ClearMore
  <2> QED
    BY <1>same, <2>1, <2>3, <2>4
\* One more event that is no repaired bar.
<1>news. ASSUME NEW e \in Event, e.kind = "bar" => ~e.verified, queue' = Append(queue, e),
                Undecided' = Undecided,
                repairing' # 0 => e.kind = "health" /\ e.status # "healthy"
         PROVE  /\ Announced(queue, Undecided)'
                /\ (repairing # 0 => Clear(queue, Len(queue) + 1, Undecided))'
  <2>1. PICK q, q2, waiting : q = queue /\ q2 = Append(queue, e) /\ waiting = Undecided
    OBVIOUS
  <2>2. /\ q2 \in Seq(Event) /\ Len(q2) = Len(q) + 1 /\ q2[Len(q) + 1] = e
        /\ q \in Seq(Event) /\ Len(q) \in Nat
        /\ \A k \in 1..Len(q) : q2[k] = q[k]
    BY <1>r, <2>1, AppendProperties
  <2>3. \A k \in Len(q) + 1..Len(q2) : Filled(q2, k) => Clear(q2, k, waiting)
    <3>1. \A k \in Len(q) + 1..Len(q2) : k = Len(q) + 1
      BY <2>2
    <3>2. ~Filled(q2, Len(q) + 1)
      BY <1>news, <2>2 DEF Filled, IsBar
    <3> QED
      BY <3>1, <3>2
  <2>4. Announced(q, waiting) /\ Len(q) <= Len(q2) /\ waiting \in SUBSET waiting
    BY <1>o, <2>1, <2>2
  <2>5. Announced(q2, waiting)
    BY <2>2, <2>3, <2>4, AnnouncedMore
  <2>6. repairing' # 0 => Clear(q2, Len(q2) + 1, waiting)
    <3> SUFFICES ASSUME repairing' # 0 PROVE Clear(q2, Len(q2) + 1, waiting)
      OBVIOUS
    <3>1. Broken(q2, Len(q2))
      BY <1>news, <2>2 DEF Broken
    <3>2. Len(q2) \in 1..(Len(q2) + 1) - 1 /\ \A k \in Len(q2) + 1..(Len(q2) + 1) - 1 : ~Fresh(q2, k)
      BY <2>2
    <3> QED
      BY <3>1, <3>2 DEF Clear
  <2> QED
    BY <1>news, <2>1, <2>5, <2>6
\* The engine takes the head of the queue.
<1>pop. ASSUME Pop, repairing' = repairing,
               Broken(queue, 1) \/ (Undecided = {} /\ ~Fresh(queue, 1)) => Undecided' = {}
        PROVE  /\ Announced(queue, Undecided)'
               /\ (repairing # 0 => Clear(queue, Len(queue) + 1, Undecided))'
  <2>1. PICK q, q2, waiting, left :
          q = queue /\ q2 = queue' /\ waiting = Undecided /\ left = Undecided'
    OBVIOUS
  <2>2. q \in Seq(Event) /\ q # <<>> /\ q2 = Tail(q)
    BY <1>r, <1>pop, <2>1 DEF Pop
  <2>3. /\ Announced(q, waiting)
        /\ Broken(q, 1) \/ (waiting = {} /\ ~Fresh(q, 1)) => left = {}
        /\ repairing # 0 => Clear(q, Len(q) + 1, waiting)
    BY <1>o, <1>pop, <2>1
  <2>4. Announced(q2, left)
    BY <2>2, <2>3, AnnouncedTail
  <2>5. ASSUME repairing # 0 PROVE Clear(q2, Len(q2) + 1, left)
    <3>1. Len(q) \in Nat /\ Len(q) >= 1 /\ Len(q2) = Len(q) - 1
      BY <2>2, HeadTailProperties
    <3>2. Len(q) + 1 \in 2..Len(q) + 1 /\ (Len(q) + 1) - 1 = Len(q2) + 1
      BY <3>1
    <3>3. Clear(Tail(q), (Len(q) + 1) - 1, left)
      BY <2>2, <2>3, <2>5, <3>2, ClearTail
    <3> QED
      BY <2>2, <3>2, <3>3
  <2> QED
    BY <1>pop, <2>1, <2>4, <2>5
<1>head. ASSUME Pop PROVE Head(queue) = queue[1]
  BY <1>r, <1>head, HeadTailProperties DEF Pop
<1>health. \A status \in Statuses : /\ Health(status) \in Event /\ Health(status).kind = "health"
                                   /\ Health(status).status = status
  BY EventTypes DEF Health
<1>1. CASE BarLost
  <2>1. UNCHANGED <<queue, repairing, ledger, evaluated, looking, pending, repaired>>
    BY <1>1 DEF BarLost, engine
  <2> QED
    BY <2>1, <1>engine, <1>same, <1>fewer
<1>2. CASE BarArrives
  <2>1. UNCHANGED <<ledger, evaluated, looking, pending, repaired>> /\ repairing = 0
        /\ minute' \in Minutes
    BY <1>2, FeedAssumption DEF BarArrives, Receives, engine, TypeInv, TypeOK, Minutes
  <2>2. Undecided' = Undecided
    BY <2>1, <1>engine
  <2>3. CASE queue' = Append(queue, Bar(minute', FALSE)) /\ repairing' = repairing
    <3>1. PICK e \in Event : e = Bar(minute', FALSE) /\ ~e.verified
      BY <2>1, EventTypes DEF Bar
    <3>2. /\ Announced(queue, Undecided)'
          /\ (repairing # 0 => Clear(queue, Len(queue) + 1, Undecided))'
      BY <1>news, <2>1, <2>2, <2>3, <3>1
    <3> QED
      BY <2>1, <3>2, <1>engine, <1>fewer
  <2>4. ASSUME NEW status \in Statuses \ {"healthy"}, queue' = Append(queue, Health(status))
        PROVE  CausalInv'
    <3>1. PICK e \in Event : e = Health(status) /\ e.kind = "health" /\ e.status # "healthy"
      BY <1>health, <2>4
    <3>2. /\ Announced(queue, Undecided)'
          /\ (repairing # 0 => Clear(queue, Len(queue) + 1, Undecided))'
      BY <1>news, <2>1, <2>2, <2>4, <3>1
    <3> QED
      BY <2>1, <3>2, <1>engine, <1>fewer
  <2> QED
    BY <1>2, <2>3, <2>4 DEF BarArrives, Statuses
<1>3. CASE RepairSucceeds
  <2>1. UNCHANGED <<ledger, evaluated, looking, pending, repaired>> /\ repairing' = 0
        /\ repairing # 0
    BY <1>3 DEF RepairSucceeds, engine
  <2>2. Undecided' = Undecided
    BY <2>1, <1>engine
  <2>3. PICK q, q2, waiting : q = queue /\ q2 = queue' /\ waiting = Undecided
    OBVIOUS
  <2>4. /\ q2 \in Seq(Event) /\ Len(q) <= Len(q2) /\ \A k \in 1..Len(q) : q2[k] = q[k]
        /\ \A k \in Len(q) + 1..Len(q2) : IsBar(q2, k) => q2[k].verified \/ k = Len(q2)
        /\ ~q2[Len(q2)].verified
    BY <1>3, <2>3, RepairAdds DEF IsBar
  <2>5. q \in Seq(Event) /\ Len(q) \in Nat /\ Len(q2) \in Nat /\ waiting \in SUBSET waiting
        /\ Announced(q, waiting) /\ Clear(q, Len(q) + 1, waiting)
    BY <1>r, <1>o, <2>1, <2>3, <2>4
  <2>6. Clear(q2, Len(q) + 1, waiting)
    <3>1. Len(q) + 1 \in 1..Len(q) + 1
      BY <2>5
    <3> QED
      BY <2>4, <2>5, <3>1, ClearMore
  <2>7. ASSUME NEW k \in Len(q) + 1..Len(q2), Filled(q2, k) PROVE Clear(q2, k, waiting)
    <3>1. k # Len(q2)
      BY <2>4, <2>7 DEF Filled
    <3>2. \A n \in Len(q) + 1..k - 1 : n \in Len(q) + 1..Len(q2) /\ n # Len(q2)
      BY <2>5, <3>1
    <3>3. \A n \in Len(q) + 1..k - 1 : ~Fresh(q2, n)
      BY <2>4, <3>2 DEF Fresh
    <3>4. Len(q) + 1 \in Nat /\ k \in Nat /\ Len(q) + 1 >= 1 /\ Len(q) + 1 <= k
      BY <2>5
    <3> QED
      BY <2>6, <3>3, <3>4, ClearPast
  <2>8. Announced(q2, waiting)
    BY <2>4, <2>5, <2>7, AnnouncedMore
  <2>9. /\ Announced(queue, Undecided)'
        /\ (repairing # 0 => Clear(queue, Len(queue) + 1, Undecided))'
    BY <2>1, <2>2, <2>3, <2>8
  <2> QED
    BY <2>1, <2>9, <1>engine, <1>fewer
<1>4. CASE RepairFails
  <2>1. UNCHANGED <<ledger, evaluated, looking, pending, repaired>> /\ repairing' = 0
        /\ queue' = Append(queue, Health("stale"))
    BY <1>4 DEF RepairFails, engine
  <2>2. PICK e \in Event : e = Health("stale") /\ e.kind = "health"
    BY <1>health DEF Statuses
  <2>3. Undecided' = Undecided
    BY <2>1, <1>engine
  <2>4. /\ Announced(queue, Undecided)'
        /\ (repairing # 0 => Clear(queue, Len(queue) + 1, Undecided))'
    BY <1>news, <2>1, <2>2, <2>3
  <2> QED
    BY <2>1, <2>4, <1>engine, <1>fewer
<1>5. CASE QuoteArrives
  <2>1. UNCHANGED <<ledger, evaluated, looking, pending, repaired>> /\ repairing' = 0
        /\ queue' = Append(queue, Quote)
    BY <1>5 DEF QuoteArrives, Receives, engine
  <2>2. PICK e \in Event : e = Quote /\ e.kind # "bar"
    BY EventTypes DEF Quote
  <2>3. Undecided' = Undecided
    BY <2>1, <1>engine
  <2>4. /\ Announced(queue, Undecided)'
        /\ (repairing # 0 => Clear(queue, Len(queue) + 1, Undecided))'
    BY <1>news, <2>1, <2>2, <2>3
  <2> QED
    BY <2>1, <2>4, <1>engine, <1>fewer
<1>6. CASE HealthArrives
  <2>1. UNCHANGED <<ledger, evaluated, looking, pending, repaired>> /\ repairing' = 0
        /\ repairing = 0
    BY <1>6 DEF HealthArrives, Receives, engine
  <2>2. Undecided' = Undecided
    BY <2>1, <1>engine
  <2>3. PICK status \in Statuses : queue' = queue \/ queue' = Append(queue, Health(status))
    BY <1>6 DEF HealthArrives, Statuses
  <2>4. CASE queue' = queue
    BY <2>1, <2>4, <1>engine, <1>same, <1>fewer
  <2>5. CASE queue' = Append(queue, Health(status))
    <3>1. PICK e \in Event : e = Health(status) /\ e.kind = "health"
      BY <1>health
    <3>2. /\ Announced(queue, Undecided)'
          /\ (repairing # 0 => Clear(queue, Len(queue) + 1, Undecided))'
      BY <1>news, <2>1, <2>2, <2>5, <3>1
    <3> QED
      BY <2>1, <3>2, <1>engine, <1>fewer
  <2> QED
    BY <2>3, <2>4, <2>5
<1>7. CASE ConsumeHealth
  <2>1. /\ Pop /\ looking = 0 /\ queue[1].kind = "health" /\ ApplyHealth(queue[1].status)
        /\ UNCHANGED <<ledger, evaluated, looking, repaired, repairing>>
    BY <1>7, <1>head DEF ConsumeHealth, Pop, producer
  <2>2. pending' \subseteq pending /\ (Broken(queue, 1) => pending' = {})
    BY <2>1 DEF ApplyHealth, Broken
  <2>3. Undecided' = pending' /\ Undecided = pending
    BY <2>1 DEF Undecided
  <2>4. ledger' \ evaluated' \subseteq {looking'} /\ Undecided' \subseteq Undecided
    BY <1>o, <2>1, <2>2, <2>3
  <2>5. Broken(queue, 1) \/ (Undecided = {} /\ ~Fresh(queue, 1)) => Undecided' = {}
    BY <2>2, <2>3
  <2> QED
    BY <2>1, <2>4, <2>5, <1>pop, <1>fewer
<1>8. CASE Heartbeat
  <2>1. /\ UNCHANGED <<ledger, evaluated, looking, repaired, repairing, queue>>
        /\ pending' \subseteq pending
    BY <1>8 DEF Heartbeat, ApplyHealth, producer
  <2>2. Undecided' \subseteq Undecided /\ ledger' \ evaluated' \subseteq {looking'}
    BY <1>o, <2>1 DEF Undecided
  <2> QED
    BY <2>1, <2>2, <1>same, <1>fewer
<1>9. CASE ConsumeQuote
  <2>1. /\ Pop /\ queue[1].kind = "quote" /\ pending' \subseteq pending
        /\ UNCHANGED <<ledger, evaluated, looking, repaired, repairing>>
    BY <1>9, <1>head DEF ConsumeQuote, producer
  <2>2. Undecided' \subseteq Undecided /\ ledger' \ evaluated' \subseteq {looking'}
    BY <1>o, <2>1 DEF Undecided
  <2>3. Broken(queue, 1) \/ (Undecided = {} /\ ~Fresh(queue, 1)) => Undecided' = {}
    BY <2>1, <2>2 DEF Broken
  <2> QED
    BY <2>1, <2>2, <2>3, <1>pop, <1>fewer
<1>10. CASE RecordBar
  <2>1. /\ Pop /\ looking = 0 /\ queue # <<>> /\ queue[1].kind = "bar"
        /\ looking' = queue[1].minute /\ ledger' = ledger \cup {queue[1].minute}
        /\ repaired' = IF queue[1].verified THEN repaired \cup {queue[1].minute} ELSE repaired
        /\ UNCHANGED <<evaluated, pending, repairing>>
    BY <1>10, <1>head DEF RecordBar, Pop, producer
  <2>2. queue[1] \in Event /\ 1 \in 1..Len(queue)
    BY <1>r, <1>head, <2>1, PopType, HeadTailProperties DEF TypeInv
  <2>3. PICK m \in Minutes : m = queue[1].minute
    BY <2>1, <2>2, EventBar
  <2>4. \A n \in ledger : n < m
    BY <1>head, <2>1, <2>3, <1>r, RisingTail DEF IsBar, PlaceInv
  <2>5. ledger' \ evaluated' \subseteq {looking'}
    BY <1>o, <1>r, <2>1
  <2>6. CASE queue[1].verified
    <3>1. Filled(queue, 1) /\ m # 0
      BY <1>r, <2>1, <2>6 DEF Filled, IsBar
    <3>2. Clear(queue, 1, Undecided)
      BY <1>o, <2>2, <3>1 DEF Announced
    <3>3. Undecided = {}
      BY <3>2 DEF Clear
    <3>4. Undecided' = {}
      BY <2>1, <2>3, <2>6, <3>3 DEF Undecided
    <3>5. /\ Announced(queue, Undecided)'
          /\ (repairing # 0 => Clear(queue, Len(queue) + 1, Undecided))'
      BY <2>1, <3>4, <1>pop
    <3> QED
      BY <2>5, <3>4, <3>5 DEF CausalInv
  <2>7. CASE ~queue[1].verified
    <3>1. Fresh(queue, 1) /\ ~Broken(queue, 1)
      BY <2>1, <2>7 DEF Fresh, IsBar, Broken
    <3>2. repaired' = repaired /\ Undecided' \subseteq Undecided \cup {m}
      BY <2>1, <2>3, <2>7 DEF Undecided
    <3>3. \A p \in Undecided' : \A n \in repaired' : n < p
      BY <1>o, <1>r, <2>4, <3>2
    <3>4. /\ Announced(queue, Undecided)'
          /\ (repairing # 0 => Clear(queue, Len(queue) + 1, Undecided))'
      BY <2>1, <3>1, <1>pop
    <3> QED
      BY <2>5, <3>3, <3>4 DEF CausalInv
  <2> QED
    BY <2>6, <2>7
<1>11. CASE LookAtBar
  <2>1. /\ UNCHANGED <<queue, repairing, ledger, repaired>> /\ looking' = 0 /\ looking # 0
        /\ evaluated' = ledger /\ Decide
    BY <1>11 DEF LookAtBar, producer, Decide
  <2>2. pending' \subseteq Undecided
    BY <1>o, <2>1 DEF Decide, Undecided
  <2>3. Undecided' \subseteq Undecided /\ ledger' \ evaluated' \subseteq {looking'}
    BY <2>1, <2>2 DEF Undecided
  <2> QED
    BY <2>1, <2>3, <1>same, <1>fewer
<1>12. CASE Restart
  <2>1. /\ queue' = <<>> /\ repairing' = 0 /\ ledger' = {} /\ repaired' = {} /\ looking' = 0
        /\ pending' = {}
    BY <1>12 DEF Restart, StartsFrom
  <2>2. Announced(<<>>, Undecided')
    BY DEF Announced
  <2> QED
    BY <2>1, <2>2 DEF CausalInv
<1>13. CASE UNCHANGED vars
  <2>1. UNCHANGED <<queue, repairing, ledger, evaluated, looking, pending, repaired>>
    BY <1>13 DEF vars, producer, engine
  <2> QED
    BY <2>1, <1>engine, <1>same, <1>fewer
<1> QED
  BY <1>1, <1>2, <1>3, <1>4, <1>5, <1>6, <1>7, <1>8, <1>9, <1>10, <1>11, <1>12, <1>13 DEF Next

\* An entry is issued on no repaired bar and on none older than one, however
\* heartbeats, quotes and the minutes of a repair follow each other.
THEOREM EntriesAreCausal == Spec => EntryIsCausal
<1>1. ASSUME TypeInv, CausalInv, [Next]_vars
      PROVE  [\A e \in entries' \ entries : \A m \in repaired' : m < e[1]]_vars
  <2>1. /\ ledger \ evaluated \subseteq {looking} /\ pending \subseteq Undecided
        /\ \A p \in Undecided : \A m \in repaired : m < p
    BY <1>1 DEF CausalInv, Undecided
  <2>2. ASSUME NEW due \in SUBSET Undecided, NEW newest, Enter(due, newest), repaired' = repaired
        PROVE  \A e \in entries' \ entries : \A m \in repaired' : m < e[1]
    BY <2>1, <2>2 DEF Enter
  <2>3. CASE ConsumeQuote
    <3>1. PICK newest \in 0..MaxMinute : Enter({m \in pending : m <= newest}, LastOf(ledger))
      BY <2>3 DEF ConsumeQuote
    <3>2. {m \in pending : m <= newest} \in SUBSET Undecided /\ repaired' = repaired
      BY <2>1, <2>3 DEF ConsumeQuote
    <3> QED
      BY <2>2, <3>1, <3>2
  <2>4. CASE LookAtBar
    <3>1. Decide /\ repaired' = repaired /\ looking # 0
      BY <2>4 DEF LookAtBar
    <3>2. CASE entries' = entries
      BY <3>2
    <3>3. CASE ~(looking \in repaired) /\ Enter(ledger \ evaluated, looking)
      <4>1. ledger \ evaluated \in SUBSET Undecided
        BY <2>1, <3>1, <3>3 DEF Undecided
      <4> QED
        BY <2>2, <3>1, <3>3, <4>1
    <3> QED
      BY <3>1, <3>2, <3>3 DEF Decide
  <2>5. CASE entries' = entries
    BY <2>5
  <2> QED
    BY <1>1, <2>3, <2>4, <2>5 DEF Next, BarLost, BarArrives, RepairSucceeds, RepairFails,
         QuoteArrives, HealthArrives, ConsumeHealth, Heartbeat, RecordBar, Restart, history, vars
<1> QED
  BY <1>1, TypeInit, TypeStep, FeedInit, FeedStep, PlaceInit, PlaceStep, CausalInit, CausalStep,
     PTL DEF Spec, EntryIsCausal

=============================================================================
