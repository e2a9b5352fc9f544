-------------------------- MODULE TradingSupervisor --------------------------
(***************************************************************************)
(* The broker-facing supervisor of src/trading: durable intents, order     *)
(* submission with ambiguous replies, the trade-update projection,         *)
(* reconciliation, freeze, shutdown and restart, against a broker that     *)
(* answers late, loses replies, fills at any moment and re-orders its      *)
(* update stream.                                                          *)
(*                                                                         *)
(* The supervisor holds one lock for the length of a public call, so at    *)
(* most one call is under way and pc says where it is.  The broker, the    *)
(* network, a crash and freeze(), which takes no lock, interleave with it. *)
(***************************************************************************)
EXTENDS Integers, FiniteSets, FiniteSetsExt

CONSTANTS
  Ids,            \* client order ids: one per logical order, whatever the session
  Sells,          \* the ids among them that sell; the others buy
  Quantity,       \* units every order asks for
  MaxSessions,    \* bound: supervisor processes that ever run
  MaxEvents,      \* bound: distinct trade updates that are ever recorded
  RiskEngine,     \* TRUE: the paper supervisor; FALSE: the shadow one
  ExternalFreeze, \* a second thread may call freeze()
  RestFaults,     \* listing orders or positions may raise AlpacaError
  DatabaseFaults, \* recording a submission or a comparison may raise
  TiedClock,      \* two changes of an order may carry one broker timestamp
  UnknownEvents   \* the broker may send an event name the parser does not know

ASSUME SupervisorAssumption ==
  /\ IsFiniteSet(Ids)
  /\ Sells \subseteq Ids
  /\ Quantity \in Nat \ {0}
  /\ MaxSessions \in Nat \ {0}
  /\ MaxEvents \in Nat
  /\ {RiskEngine, ExternalFreeze, RestFaults, DatabaseFaults, TiedClock, UnknownEvents}
       \subseteq BOOLEAN

VARIABLES
  session,     \* number of the running process, the key of its broker_sessions row
  phase,       \* _started and what came before and after it
  frozen,      \* _frozen
  orders,      \* _orders: the local projection of every submitted order
  pc,          \* where the call that holds the lock is
  current,     \* the id submit_intent is working on
  reply,       \* the order the broker answered with
  listed,      \* the open orders reconciliation has listed
  accountSeen, \* the account reconciliation has read is active and unblocked
  verdict,     \* last comparison of this session
  operator,    \* the second thread inside freeze()
  intents,     \* broker_order_intents: session that recorded the id, 0 for none
  approved,    \* risk_decisions with allowed = true
  submissions, \* broker_orders
  events,      \* broker_order_events
  lastEvent,   \* what record_event answered last
  wire,        \* submissions on their way to the broker
  book,        \* the broker's orders
  feed,        \* every trade update the broker has sent
  posts        \* history: POST requests sent for each id

process == <<session, phase, frozen, orders, pc, current, reply, listed, accountSeen, verdict, operator>>
durable == <<intents, approved, submissions, events>>
broker  == <<wire, book, feed>>
vars    == <<process, durable, lastEvent, broker, posts>>

(* Order states.  "canceled" stands for every closed state without a full  *)
(* fill: canceled, expired, rejected, done_for_day.                        *)
Open     == {"new", "partially_filled", "pending_cancel"}
Statuses == Open \cup {"absent", "filled", "canceled"}
Order    == [status : Statuses, filled : 0..Quantity, at : Nat]
Absent   == [status |-> "absent", filled |-> 0, at |-> 0]
Update   == [id : Ids, order : Order, known : BOOLEAN]

started      == phase = "started"

readyIgnoringFreeze == started  \* mutant of ready
ready        == started /\ ~frozen
Tracked(id)  == orders[id].status # "absent"
OpenAtBroker == {id \in Ids : book[id].status \in Open}
NetOf(state) == MapThenSumSet(LAMBDA id : state[id].filled, Ids \ Sells)
                  - MapThenSumSet(LAMBDA id : state[id].filled, Sells)

TypeOK ==
  /\ session \in 1..MaxSessions
  /\ phase \in {"new", "started", "stopped"}
  /\ frozen \in BOOLEAN
  /\ orders \in [Ids -> Order]
  /\ pc \in {"idle", "listing", "comparing", "risk", "post", "posted", "lookup", "persist"}
  /\ current \in Ids \cup {0}
  /\ pc \in {"risk", "post", "posted", "lookup", "persist"} => current \in Ids
  /\ reply \in Order
  /\ listed \in [Ids -> Order]
  /\ accountSeen \in BOOLEAN
  /\ verdict \in {"none", "matched", "orders", "positions", "account"}
  /\ operator \in {"idle", "cancelling"}
  /\ intents \in [Ids -> 0..MaxSessions]
  /\ approved \subseteq Ids
  /\ submissions \subseteq Ids
  /\ events \subseteq Update
  /\ lastEvent \in {"none", "inserted", "duplicate", "conflict"}
  /\ wire \subseteq Ids
  /\ book \in [Ids -> Order]
  /\ feed \subseteq Update
  /\ posts \in [Ids -> Nat]

Init ==
  /\ session = 1 /\ phase = "new" /\ frozen = FALSE
  /\ orders = [id \in Ids |-> Absent]
  /\ pc = "idle" /\ current = 0 /\ reply = Absent
  /\ listed = [id \in Ids |-> Absent]
  /\ accountSeen = FALSE /\ verdict = "none" /\ operator = "idle"
  /\ intents = [id \in Ids |-> 0]
  /\ approved = {} /\ submissions = {} /\ events = {} /\ lastEvent = "none"
  /\ wire = {} /\ book = [id \in Ids |-> Absent] /\ feed = {}
  /\ posts = [id \in Ids |-> 0]

-----------------------------------------------------------------------------
(* The broker.  Every change of an order is published once on the stream.  *)

Ticks  == IF TiedClock THEN {0, 1} ELSE {1}
\* bound: at most one change carries an event name the parser does not know
Namings == IF UnknownEvents /\ \A u \in feed : u.known THEN BOOLEAN ELSE {TRUE}

Restamped(order, status, tick) == [order EXCEPT !.status = status, !.at = @ + tick]

Publish(new) ==
  /\ book' = new
  /\ \E known \in Namings :
       feed' = feed \cup {[id |-> id, order |-> new[id], known |-> known] :
                            id \in {i \in Ids : new[i] # book[i]}}

BrokerAccepts(id) ==
  /\ id \in wire
  /\ book[id].status = "absent"
  /\ wire' = wire \ {id}
  /\ Publish([book EXCEPT ![id] = [status |-> "new", filled |-> 0, at |-> 1]])
  /\ UNCHANGED <<process, durable, lastEvent, posts>>

\* The request is refused (HTTP 4xx) or lost on its way.
BrokerRefuses(id) ==
  /\ id \in wire
  /\ wire' = wire \ {id}
  /\ UNCHANGED <<process, durable, lastEvent, book, feed, posts>>

BrokerFills(id) ==
  /\ book[id].status \in Open
  /\ book[id].filled < Quantity
  /\ \E tick \in Ticks :
       LET filled == book[id].filled + 1
       IN  Publish([book EXCEPT ![id] =
             [status |-> IF filled = Quantity THEN "filled" ELSE "partially_filled",
              filled |-> filled, at |-> book[id].at + tick]])
  /\ UNCHANGED <<process, durable, lastEvent, wire, posts>>

BrokerCloses(id) ==
  /\ book[id].status \in Open
  /\ \E tick \in Ticks :
       Publish([book EXCEPT ![id] = Restamped(book[id], "canceled", tick)])
  /\ UNCHANGED <<process, durable, lastEvent, wire, posts>>

\* DELETE /v2/orders: some of the open orders are canceled or on their way
\* there; none of them when the call fails.
CancelAllOrders ==
  \E done \in SUBSET OpenAtBroker, status \in {"pending_cancel", "canceled"}, tick \in Ticks :
     Publish([id \in Ids |->
       IF id \in done /\ book[id].status # status
         THEN Restamped(book[id], status, tick)
         ELSE book[id]])

-----------------------------------------------------------------------------
(* freeze(): the flag first, then the cancel request, which may raise.     *)

FreezeEffects ==
  /\ frozen' = TRUE
  /\ IF started THEN CancelAllOrders ELSE UNCHANGED <<book, feed>>

OperatorFreeze ==
  /\ ExternalFreeze
  /\ operator = "idle"
  /\ frozen' = TRUE
  /\ operator' = IF started THEN "cancelling" ELSE "idle"
  /\ UNCHANGED <<session, phase, orders, pc, current, reply, listed, accountSeen, verdict,
                 durable, lastEvent, broker, posts>>

OperatorCancels ==
  /\ operator = "cancelling"
  /\ operator' = "idle"
  /\ CancelAllOrders
  /\ UNCHANGED <<session, phase, frozen, orders, pc, current, reply, listed, accountSeen, verdict,
                 durable, lastEvent, wire, posts>>

-----------------------------------------------------------------------------
(* How a call ends: its locals die with it.                                *)

CallEnds ==
  /\ pc' = "idle"
  /\ current' = 0 /\ reply' = Absent
  /\ listed' = [id \in Ids |-> Absent] /\ accountSeen' = FALSE

\* The risk context is missing, the POST fails for certain, or the look-up
\* after an ambiguous POST fails: freeze() from inside the call, then raise.
EndFrozen(from) ==
  /\ pc = from
  /\ CallEnds
  /\ FreezeEffects
  /\ UNCHANGED <<session, phase, orders, verdict, operator, durable, lastEvent, wire, posts>>

\* The exception leaves the call where it is.
EndRaised(from) ==
  /\ pc = from
  /\ CallEnds
  /\ UNCHANGED <<session, phase, frozen, orders, verdict, operator,
                 durable, lastEvent, broker, posts>>

-----------------------------------------------------------------------------
(* start() and reconcile().                                                *)

Start ==
  /\ pc = "idle"
  /\ phase = "new"
  /\ phase' = "started"
  /\ accountSeen' \in BOOLEAN
  /\ pc' = "listing"
  /\ UNCHANGED <<session, frozen, orders, current, reply, listed, verdict, operator,
                 durable, lastEvent, broker, posts>>

Reconcile ==
  /\ pc = "idle"
  /\ started
  /\ accountSeen' \in BOOLEAN
  /\ pc' = "listing"
  /\ UNCHANGED <<session, phase, frozen, orders, current, reply, listed, verdict, operator,
                 durable, lastEvent, broker, posts>>

ListOrders ==
  /\ pc = "listing"
  /\ listed' = [id \in Ids |-> IF book[id].status \in Open THEN book[id] ELSE Absent]
  /\ pc' = "comparing"
  /\ UNCHANGED <<session, phase, frozen, orders, current, reply, accountSeen, verdict, operator,
                 durable, lastEvent, broker, posts>>

\* list_orders or list_positions raises, or what was compared cannot be recorded,
\* and the call ends before it looks at the verdict.
ComparisonFaults == RestFaults \/ DatabaseFaults

ListingFails ==
  /\ ComparisonFaults
  /\ EndRaised("listing") \/ EndRaised("comparing")

OrderMismatch(id) ==
  LET localOpen  == orders[id].status \in Open
      remoteOpen == listed[id].status \in Open
  IN  \/ localOpen # remoteOpen
      \/ /\ localOpen
         /\ <<orders[id].status, orders[id].filled>> # <<listed[id].status, listed[id].filled>>

\* The supervisor's own positions, _positions, stay empty.
ReconcileState(position) ==
  CASE \E id \in Ids : OrderMismatch(id) -> "orders"
    [] position # 0                      -> "positions"
    [] ~accountSeen                      -> "account"
    [] OTHER                             -> "matched"

Compare ==
  /\ pc = "comparing"
  /\ verdict' = ReconcileState(NetOf(book))
  /\ IF verdict' = "matched" THEN UNCHANGED <<frozen, book, feed>> ELSE FreezeEffects
  /\ CallEnds
  /\ UNCHANGED <<session, phase, orders, operator, durable, lastEvent, wire, posts>>

-----------------------------------------------------------------------------
(* submit_intent().                                                        *)

\* The intent row is unique per account, so an id that any session has
\* recorded raises and nothing else happens.
UnrecordedThisSession(id) == intents[id] # session   \* mutant of Unrecorded
Unrecorded(id) == intents[id] = 0

SkipRisk    == "post"                                \* mutant of AfterIntent
AfterIntent == IF RiskEngine THEN "risk" ELSE "post"

RecordIntent(id) ==
  /\ pc = "idle"
  /\ ready
  /\ Unrecorded(id)
  /\ intents' = [intents EXCEPT ![id] = session]
  /\ current' = id
  /\ pc' = AfterIntent
  /\ UNCHANGED <<session, phase, frozen, orders, reply, listed, accountSeen, verdict, operator,
                 approved, submissions, events, lastEvent, broker, posts>>

RiskAllows ==
  /\ pc = "risk"
  /\ approved' = approved \cup {current}
  /\ pc' = "post"
  /\ UNCHANGED <<session, phase, frozen, orders, current, reply, listed, accountSeen, verdict,
                 operator, intents, submissions, events, lastEvent, broker, posts>>

RiskRejects == EndRaised("risk")

RiskContextMissing == EndFrozen("risk")

Post ==
  /\ pc = "post"
  /\ wire' = wire \cup {current}
  /\ posts' = [posts EXCEPT ![current] = @ + 1]
  /\ pc' = "posted"
  /\ UNCHANGED <<session, phase, frozen, orders, current, reply, listed, accountSeen, verdict,
                 operator, durable, lastEvent, book, feed>>

\* The POST, or the look-up by client order id, answers with the order.
BrokerAnswers ==
  /\ pc \in {"posted", "lookup"}
  /\ book[current].status # "absent"
  /\ reply' = book[current]
  /\ pc' = "persist"
  /\ UNCHANGED <<session, phase, frozen, orders, current, listed, accountSeen, verdict, operator,
                 durable, lastEvent, broker, posts>>

\* Transport failure of the POST: ambiguous, whatever the broker did with it.
ReplyLost ==
  /\ pc = "posted"
  /\ pc' = "lookup"
  /\ UNCHANGED <<session, phase, frozen, orders, current, reply, listed, accountSeen, verdict,
                 operator, durable, lastEvent, broker, posts>>

\* An HTTP error, malformed JSON or an invalid order: not ambiguous to the
\* adapter, even when the broker has accepted the order.
SubmissionFails == EndFrozen("posted")

LookupGivesUp == EndRaised("lookup")   \* mutant of LookupFails
LookupFails   == EndFrozen("lookup")

Persist ==
  /\ pc = "persist"
  /\ submissions' = submissions \cup {current}
  /\ orders' = [orders EXCEPT ![current] = reply]
  /\ CallEnds
  /\ UNCHANGED <<session, phase, frozen, verdict, operator,
                 intents, approved, events, lastEvent, broker, posts>>

PersistFails ==
  /\ DatabaseFaults
  /\ EndRaised("persist")

-----------------------------------------------------------------------------
(* consume_update().                                                       *)

\* Mutants of Project: no look at the broker's clock, and a cumulative fill
\* taken for an increment.
ProjectAnything(u) ==
  IF Tracked(u.id) THEN orders' = [orders EXCEPT ![u.id] = u.order] ELSE UNCHANGED orders

Project(u) ==
  IF Tracked(u.id) /\ u.order.at >= orders[u.id].at
    THEN orders' = [orders EXCEPT ![u.id] = u.order]
    ELSE UNCHANGED orders

\* The row's hash covers the local receive time, so an update that arrives
\* again at another instant conflicts with the row it wrote the first time.
ConsumeUpdate(u) ==
  /\ pc = "idle"
  /\ phase # "new"
  /\ lastEvent' \in IF u \in events THEN {"duplicate", "conflict"} ELSE {"inserted"}
  /\ u \notin events => Cardinality(events) < MaxEvents
  /\ IF lastEvent' = "conflict"
       THEN UNCHANGED <<events, orders, frozen, book, feed>>
       ELSE /\ events' = events \cup {u}
            /\ Project(u)
            /\ IF u.known THEN UNCHANGED <<frozen, book, feed>> ELSE FreezeEffects
  /\ UNCHANGED <<session, phase, pc, current, reply, listed, accountSeen, verdict, operator,
                 intents, approved, submissions, wire, posts>>

-----------------------------------------------------------------------------
(* shutdown(), and a crash followed by a new process with a new session id. *)

Shutdown ==
  /\ pc = "idle"
  /\ started
  /\ phase' = "stopped"
  /\ frozen' = TRUE
  /\ UNCHANGED <<session, orders, pc, current, reply, listed, accountSeen, verdict, operator,
                 durable, lastEvent, broker, posts>>

Restart ==
  /\ session < MaxSessions
  /\ session' = session + 1
  /\ phase' = "new" /\ frozen' = FALSE
  /\ orders' = [id \in Ids |-> Absent]
  /\ CallEnds
  /\ verdict' = "none" /\ operator' = "idle"
  /\ lastEvent' = "none"
  /\ UNCHANGED <<durable, broker, posts>>

Submit ==
  \/ \E id \in Ids : RecordIntent(id)
  \/ RiskAllows \/ RiskRejects \/ RiskContextMissing
  \/ Post \/ BrokerAnswers \/ ReplyLost \/ SubmissionFails \/ LookupFails
  \/ Persist \/ PersistFails

Supervise ==
  \/ Start \/ Reconcile \/ ListOrders \/ ListingFails \/ Compare
  \/ \E u \in feed : ConsumeUpdate(u)
  \/ Shutdown \/ Restart
  \/ OperatorFreeze \/ OperatorCancels

Broker ==
  \/ \E id \in Ids : BrokerAccepts(id) \/ BrokerRefuses(id) \/ BrokerFills(id) \/ BrokerCloses(id)

Next == Submit \/ Supervise \/ Broker

Spec == Init /\ [][Next]_vars

-----------------------------------------------------------------------------
(* Properties.                                                             *)

\* One logical order is sent to the broker at most once, over every session,
\* crash and ambiguous reply: the unique intent row is written before the POST.
SentAtMostOnce == \A id \in Ids : posts[id] <= 1

\* Nothing the broker holds lacks its audit trail: the intent row, and with a
\* risk engine an allowing decision, were durable before the request left, so
\* they survive a crash at any point of the submission.
DurableBeforeEffect ==
  \A id \in Ids : id \in wire \/ book[id].status # "absent" =>
    /\ intents[id] # 0
    /\ RiskEngine => id \in approved

\* "Freezes whenever broker truth is uncertain": between calls, a supervisor
\* that is still ready has in its projection, as open, every order this session
\* sent that is or may yet be live at the broker: none is forgotten after a lost
\* reply, and none is believed closed too early.
ReadyKnowsItsOrders ==
  pc = "idle" /\ ready =>
    \A id \in Ids : intents[id] = session /\ (id \in wire \/ book[id].status \in Open) =>
      orders[id].status \in Open

\* Late, repeated and re-ordered updates never take back a fill that the
\* projection has already reported.
FillsNeverUnhappen ==
  [][session' = session =>
       \A id \in Ids : Tracked(id) => orders'[id].filled >= orders[id].filled]_vars

\* Every order that leaves was let through by a supervisor whose last comparison
\* of the session matched, or came to no end, and never by one that found a
\* mismatch.  Only a freeze from another thread finds an order past its check.
AdmissionGate ==
  [][posts' # posts => /\ verdict \in {"none", "matched"}
                       /\ verdict = "none" => ComparisonFaults
                       /\ frozen => ExternalFreeze]_vars

-----------------------------------------------------------------------------
(* The promise of OrderAdmission, and what the supervisor shows of it.      *)

MappedGate ==
  CASE frozen                         -> "frozen"
    [] ~frozen /\ verdict = "matched" -> "open"
    [] /\ ~frozen /\ verdict # "matched"
       /\ started /\ pc \notin {"listing", "comparing"} -> "unchecked"
    [] OTHER                          -> "closed"

MappedStage ==
  [id \in Ids |->
     CASE posts[id] > 0                                            -> "sent"
       [] posts[id] = 0 /\ pc \in {"risk", "post"} /\ current = id -> "intended"
       [] posts[id] = 0 /\ intents[id] = 0                         -> "none"
       [] OTHER                                                    -> "abandoned"]

Promise == INSTANCE OrderAdmission
             WITH gate <- MappedGate, stage <- MappedStage,
                  Compares <- ~ComparisonFaults, FreezesAtOnce <- ~ExternalFreeze

\* The supervisor implements the admission promise step by step, whatever fails
\* and whoever freezes it: once it is frozen, at most the order that is past its
\* check leaves.
KeepsPromise == Promise!AdmissionSpec

-----------------------------------------------------------------------------
(* Strengthenings under which the invariants above are inductive.          *)

\* A request is counted once, and only after what makes it auditable.
AuditInv ==
  /\ \A id \in Ids :
       /\ posts[id] <= 1
       /\ id \in wire \/ book[id].status # "absent" => posts[id] = 1
       /\ id \in wire => book[id].status = "absent"
       /\ posts[id] # 0 => intents[id] # 0 /\ (RiskEngine => id \in approved)
       /\ intents[id] <= session
  /\ pc \in {"risk", "post"} => posts[current] = 0 /\ intents[current] = session
  /\ pc = "post" /\ RiskEngine => current \in approved

\* Every live order of this session is known, or the supervisor is not ready,
\* or the call that sent it has not ended.
KnownInv ==
  /\ \A u \in feed : /\ book[u.id].status # "absent"
                     /\ book[u.id].status \in Open => u.order.status \in Open
  /\ pc = "persist" => /\ book[current].status # "absent"
                       /\ book[current].status \in Open => reply.status \in Open
  /\ \A id \in Ids :
       intents[id] = session /\ (id \in wire \/ book[id].status \in Open) =>
         \/ orders[id].status \in Open
         \/ ~ready
         \/ pc \in {"posted", "lookup", "persist"} /\ current = id
  /\ phase = "new" => pc = "idle" /\ \A id \in Ids : intents[id] < session

\* While the gate is being used it is open, but for a comparison that came to no
\* end and a freeze from outside.
GateInv ==
  /\ ~frozen => verdict \in {"none", "matched"}
  /\ ready /\ verdict = "none" => pc \in {"listing", "comparing"} \/ ComparisonFaults
  /\ pc \in {"risk", "post"} => /\ started
                                /\ verdict \in {"none", "matched"}
                                /\ verdict = "none" => ComparisonFaults
                                /\ frozen => ExternalFreeze
=============================================================================
