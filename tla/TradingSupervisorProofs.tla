----------------------- MODULE TradingSupervisorProofs -----------------------
(***************************************************************************)
(* Theorems about TradingSupervisor for every set of order ids, quantity,  *)
(* number of sessions and choice of faults, unless a theorem names the     *)
(* faults it excludes; and, in the last part, about RuleDiscovery for      *)
(* every grammar of rules, every fitness and every number of calls.        *)
(***************************************************************************)
EXTENDS TradingSupervisor, RuleDiscovery, SequenceTheorems, FiniteSetTheorems,
        NaturalsInduction, TLAPS

-----------------------------------------------------------------------------
(* How the broker's side changes, stated once for every step that uses it. *)

LEMMA AbsentIsOrder == Absent \in Order /\ Open \subseteq Statuses
  BY SupervisorAssumption DEF Absent, Order, Statuses, Open

\* Re-stamping an order with another status keeps it an order.
LEMMA RestampFacts ==
  ASSUME NEW order \in Order, NEW status \in Statuses, NEW tick \in Nat
  PROVE  /\ Restamped(order, status, tick) \in Order
         /\ Restamped(order, status, tick).status = status
  <1>1. \A at \in Nat : [order EXCEPT !.status = status, !.at = at] \in Order
    BY DEF Order
  <1>2. order.at + tick \in Nat
    BY DEF Order
  <1>3. Restamped(order, status, tick)
          = [order EXCEPT !.status = status, !.at = order.at + tick]
    BY DEF Restamped
  <1>4. [order EXCEPT !.status = status, !.at = order.at + tick].status = status
    BY DEF Order
  <1>5. QED
    BY <1>1, <1>2, <1>3, <1>4

\* Publishing keeps the types, and what it adds to the stream is the new book.
LEMMA PublishFacts ==
  ASSUME NEW new \in [Ids -> Order], TypeOK, Publish(new)
  PROVE  /\ book' = new
         /\ feed' \subseteq Update
         /\ \A u \in feed' : u \in feed \/ (u.order = new[u.id] /\ new[u.id] # book[u.id])
  <1>1. PICK known \in Namings :
          feed' = feed \cup {[id |-> id, order |-> new[id], known |-> known] :
                               id \in {i \in Ids : new[i] # book[i]}}
    BY DEF Publish
  <1>2. known \in BOOLEAN
    BY DEF Namings
  <1>3. QED
    BY <1>1, <1>2 DEF Publish, TypeOK, Update

\* cancel_all_orders touches only open orders and leaves each one pending
\* cancellation, canceled or as it was.
LEMMA CancelFacts ==
  ASSUME TypeOK, CancelAllOrders
  PROVE  /\ book' \in [Ids -> Order]
         /\ feed' \subseteq Update
         /\ \A id \in Ids : \/ book'[id] = book[id]
                            \/ /\ book[id].status \in Open
                               /\ book'[id].status \in {"pending_cancel", "canceled"}
         /\ \A u \in feed' : u \in feed \/ (u.order = book'[u.id] /\ book'[u.id] # book[u.id])
  <1>1. PICK done \in SUBSET OpenAtBroker, status \in {"pending_cancel", "canceled"}, tick \in Ticks :
          Publish([id \in Ids |->
            IF id \in done /\ book[id].status # status
              THEN Restamped(book[id], status, tick)
              ELSE book[id]])
    BY DEF CancelAllOrders
  <1> DEFINE new == [id \in Ids |->
            IF id \in done /\ book[id].status # status
              THEN Restamped(book[id], status, tick)
              ELSE book[id]]
  <1>2. /\ tick \in Nat
        /\ status \in Statuses
    BY DEF Ticks, Statuses, Open
  <1>3. ASSUME NEW id \in Ids
        PROVE  /\ new[id] \in Order
               /\ \/ new[id] = book[id]
                  \/ /\ book[id].status \in Open
                     /\ new[id].status \in {"pending_cancel", "canceled"}
    <2>1. book[id] \in Order
      BY DEF TypeOK
    <2>2. CASE id \in done /\ book[id].status # status
      <3>1. new[id] = Restamped(book[id], status, tick)
        BY <2>2
      <3>2. book[id].status \in Open
        BY <2>2 DEF OpenAtBroker
      <3>3. QED
        BY <1>2, <2>1, <3>1, <3>2, RestampFacts
    <2>3. CASE ~(id \in done /\ book[id].status # status)
      BY <2>1, <2>3
    <2>4. QED
      BY <2>2, <2>3
  <1>4. new \in [Ids -> Order]
    BY <1>3
  <1>5. Publish(new)
    BY <1>1
  <1> HIDE DEF new
  <1>6. QED
    BY <1>3, <1>4, <1>5, PublishFacts

\* A freeze, from whatever call, ends frozen and changes the broker no further.
LEMMA FreezeFacts ==
  ASSUME TypeOK, FreezeEffects
  PROVE  /\ frozen'
         /\ frozen' \in BOOLEAN
         /\ book' \in [Ids -> Order]
         /\ feed' \subseteq Update
         /\ \A id \in Ids : \/ book'[id] = book[id]
                            \/ /\ book[id].status \in Open
                               /\ book'[id].status \in {"pending_cancel", "canceled"}
         /\ \A u \in feed' : u \in feed \/ (u.order = book'[u.id] /\ book'[u.id] # book[u.id])
  <1>1. CASE started
    BY <1>1, CancelFacts DEF FreezeEffects
  <1>2. CASE ~started
    BY <1>2 DEF FreezeEffects, TypeOK
  <1>3. QED
    BY <1>1, <1>2

\* One order moves and is published.
LEMMA MoveFacts ==
  ASSUME TypeOK, NEW id \in Ids, NEW next \in Order, Publish([book EXCEPT ![id] = next])
  PROVE  /\ book' = [book EXCEPT ![id] = next]
         /\ book' \in [Ids -> Order]
         /\ feed' \subseteq Update
         /\ \A u \in feed' : u \in feed \/ (u.order = book'[u.id] /\ book'[u.id] # book[u.id])
  <1>1. [book EXCEPT ![id] = next] \in [Ids -> Order]
    BY DEF TypeOK
  <1>2. QED
    BY <1>1, PublishFacts

\* A fill and a close each publish one well-typed successor of an open order.
LEMMA FillFacts ==
  ASSUME TypeOK, NEW id \in Ids, BrokerFills(id)
  PROVE  \E next \in Order : /\ Publish([book EXCEPT ![id] = next])
                             /\ next.status \in {"filled", "partially_filled"}
  <1> DEFINE next(tick) == [status |-> IF book[id].filled + 1 = Quantity THEN "filled" ELSE "partially_filled",
                            filled |-> book[id].filled + 1,
                            at     |-> book[id].at + tick]
  <1>1. PICK tick \in Ticks : Publish([book EXCEPT ![id] = next(tick)])
    BY DEF BrokerFills
  <1>2. /\ book[id].filled \in 0..Quantity
        /\ book[id].at \in Nat
        /\ tick \in Nat
    BY DEF TypeOK, Order, Ticks
  <1>3. next(tick) \in Order
    BY <1>2, SupervisorAssumption DEF BrokerFills, Order, Statuses, Open
  <1>4. next(tick).status \in {"filled", "partially_filled"}
    OBVIOUS
  <1>5. QED
    BY <1>1, <1>3, <1>4

LEMMA CloseFacts ==
  ASSUME TypeOK, NEW id \in Ids, BrokerCloses(id)
  PROVE  \E next \in Order : /\ Publish([book EXCEPT ![id] = next])
                             /\ next.status = "canceled"
  <1>1. PICK tick \in Ticks : Publish([book EXCEPT ![id] = Restamped(book[id], "canceled", tick)])
    BY DEF BrokerCloses
  <1>2. /\ book[id] \in Order
        /\ "canceled" \in Statuses
        /\ tick \in Nat
    BY DEF TypeOK, Statuses, Ticks
  <1>3. QED
    BY <1>1, <1>2, RestampFacts

LEMMA AcceptFacts ==
  ASSUME NEW id \in Ids
  PROVE  [status |-> "new", filled |-> 0, at |-> 1] \in Order
  BY SupervisorAssumption DEF Order, Statuses, Open

\* A call that ends leaves its locals empty.
LEMMA EndFacts ==
  ASSUME CallEnds
  PROVE  /\ pc' = "idle" /\ current' = 0 /\ reply' \in Order
         /\ listed' \in [Ids -> Order] /\ accountSeen' = FALSE
  BY AbsentIsOrder DEF CallEnds

-----------------------------------------------------------------------------
(* Type correctness.                                                       *)

\* Every variable keeps its type, for all constants.
THEOREM TypeCorrect == Spec => []TypeOK
  <1>1. ASSUME Init PROVE TypeOK
    <2>1. /\ session \in 1..MaxSessions
          /\ intents \in [Ids -> 0..MaxSessions]
          /\ posts \in [Ids -> Nat]
      BY <1>1, SupervisorAssumption DEF Init
    <2>2. /\ orders \in [Ids -> Order] /\ listed \in [Ids -> Order]
          /\ book \in [Ids -> Order] /\ reply \in Order
      BY <1>1, AbsentIsOrder DEF Init
    <2>3. QED
      BY <1>1, <2>1, <2>2 DEF Init, TypeOK
  <1>2. TypeOK /\ [Next]_vars => TypeOK'
    <2> SUFFICES ASSUME TypeOK, [Next]_vars PROVE TypeOK'
      OBVIOUS
    <2> USE DEF process, durable, broker
    <2>1. CASE Submit
      <3>1. ASSUME NEW id \in Ids, RecordIntent(id) PROVE TypeOK'
        BY <3>1 DEF RecordIntent, TypeOK, Unrecorded, AfterIntent
      <3>2. CASE RiskAllows
        BY <3>2 DEF RiskAllows, TypeOK
      <3>3. CASE RiskRejects
        BY <3>3, EndFacts DEF RiskRejects, EndRaised, TypeOK
      <3>4. ASSUME NEW from \in {"risk", "posted", "lookup"}, EndFrozen(from) PROVE TypeOK'
        BY <3>4, FreezeFacts, EndFacts DEF EndFrozen, TypeOK
      <3>5. CASE Post
        BY <3>5 DEF Post, TypeOK
      <3>6. CASE BrokerAnswers
        BY <3>6 DEF BrokerAnswers, TypeOK
      <3>7. CASE ReplyLost
        BY <3>7 DEF ReplyLost, TypeOK
      <3>8. CASE Persist
        BY <3>8, EndFacts DEF Persist, TypeOK
      <3>9. CASE PersistFails
        BY <3>9, EndFacts DEF PersistFails, EndRaised, TypeOK
      <3>10. QED
        BY <2>1, <3>1, <3>2, <3>3, <3>4, <3>5, <3>6, <3>7, <3>8, <3>9
           DEF Submit, RiskContextMissing, SubmissionFails, LookupFails
    <2>2. CASE Supervise
      <3>1. CASE Start
        BY <3>1 DEF Start, TypeOK
      <3>2. CASE Reconcile
        BY <3>2 DEF Reconcile, TypeOK
      <3>3. CASE ListOrders
        BY <3>3, AbsentIsOrder DEF ListOrders, TypeOK
      <3>4. CASE ListingFails
        BY <3>4, EndFacts DEF ListingFails, EndRaised, TypeOK
      <3>5. CASE Compare
        <4>1. verdict' \in {"orders", "positions", "account", "matched"}
          BY <3>5, EndFacts DEF Compare, ReconcileState
        <4>2. CASE verdict' = "matched"
          BY <3>5, <4>2, EndFacts DEF Compare, TypeOK
        <4>3. CASE verdict' # "matched"
          BY <3>5, <4>1, <4>3, FreezeFacts, EndFacts DEF Compare, TypeOK
        <4>4. QED
          BY <4>2, <4>3
      <3>6. ASSUME NEW u \in feed, ConsumeUpdate(u) PROVE TypeOK'
        <4>1. u \in Update /\ u.id \in Ids /\ u.order \in Order
          BY <3>6 DEF TypeOK, Update
        <4>2. CASE lastEvent' = "conflict"
          BY <3>6, <4>2 DEF ConsumeUpdate, TypeOK
        <4>3. CASE lastEvent' # "conflict"
          <5>1. orders' \in [Ids -> Order]
            BY <3>6, <4>1, <4>3 DEF ConsumeUpdate, Project, TypeOK
          <5>2. frozen' \in BOOLEAN /\ book' \in [Ids -> Order] /\ feed' \subseteq Update
            <6>1. CASE u.known
              BY <3>6, <4>3, <6>1 DEF ConsumeUpdate, TypeOK
            <6>2. CASE ~u.known
              BY <3>6, <4>3, <6>2, FreezeFacts DEF ConsumeUpdate
            <6>3. QED
              BY <6>1, <6>2
          <5>3. QED
            BY <3>6, <4>1, <4>3, <5>1, <5>2 DEF ConsumeUpdate, TypeOK
        <4>4. QED
          BY <4>2, <4>3
      <3>7. CASE Shutdown
        BY <3>7 DEF Shutdown, TypeOK
      <3>8. CASE Restart
        <4>1. session' \in 1..MaxSessions
          BY <3>8, SupervisorAssumption, EndFacts DEF Restart, TypeOK
        <4>2. /\ orders' \in [Ids -> Order] /\ listed' \in [Ids -> Order]
              /\ reply' \in Order
          BY <3>8, AbsentIsOrder, EndFacts DEF Restart
        <4>3. QED
          BY <3>8, <4>1, <4>2, EndFacts DEF Restart, TypeOK
      <3>9. CASE OperatorFreeze
        BY <3>9 DEF OperatorFreeze, TypeOK
      <3>10. CASE OperatorCancels
        BY <3>10, CancelFacts DEF OperatorCancels, TypeOK
      <3>11. QED
        BY <2>2, <3>1, <3>2, <3>3, <3>4, <3>5, <3>6, <3>7, <3>8, <3>9, <3>10 DEF Supervise
    <2>3. CASE Broker
      <3>1. ASSUME NEW id \in Ids, BrokerAccepts(id) PROVE TypeOK'
        <4>1. book' \in [Ids -> Order] /\ feed' \subseteq Update
          BY <3>1, MoveFacts, AcceptFacts DEF BrokerAccepts
        <4>2. QED
          BY <3>1, <4>1 DEF BrokerAccepts, TypeOK
      <3>2. ASSUME NEW id \in Ids, BrokerRefuses(id) PROVE TypeOK'
        BY <3>2 DEF BrokerRefuses, TypeOK
      <3>3. ASSUME NEW id \in Ids, BrokerFills(id) PROVE TypeOK'
        <4>1. book' \in [Ids -> Order] /\ feed' \subseteq Update
          BY <3>3, MoveFacts, FillFacts
        <4>2. QED
          BY <3>3, <4>1 DEF BrokerFills, TypeOK
      <3>4. ASSUME NEW id \in Ids, BrokerCloses(id) PROVE TypeOK'
        <4>1. book' \in [Ids -> Order] /\ feed' \subseteq Update
          BY <3>4, MoveFacts, CloseFacts
        <4>2. QED
          BY <3>4, <4>1 DEF BrokerCloses, TypeOK
      <3>5. QED
        BY <2>3, <3>1, <3>2, <3>3, <3>4 DEF Broker
    <2>4. CASE UNCHANGED vars
      BY <2>4 DEF vars, TypeOK
    <2>5. QED
      BY <2>1, <2>2, <2>3, <2>4 DEF Next
  <1>3. QED
    BY <1>1, <1>2, PTL DEF Spec

-----------------------------------------------------------------------------
(* A request is counted once and only after its audit trail is durable.    *)

\* A freeze or a cancellation neither creates nor removes an order.
LEMMA SameOrdersKeepAudit ==
  ASSUME AuditInv, TypeOK,
         UNCHANGED <<session, intents, approved, wire, posts>>,
         UNCHANGED <<pc, current>> \/ pc' = "idle",
         \A id \in Ids : (book'[id].status = "absent") = (book[id].status = "absent")
  PROVE  AuditInv'
  BY DEF AuditInv

LEMMA AuditStep == TypeOK /\ AuditInv /\ [Next]_vars => AuditInv'
  <1> SUFFICES ASSUME TypeOK, AuditInv, [Next]_vars PROVE AuditInv'
    OBVIOUS
  <1> USE DEF process, durable, broker
  <1>1. CASE Submit
    <2>1. ASSUME NEW id \in Ids, RecordIntent(id) PROVE AuditInv'
      BY <2>1 DEF RecordIntent, AuditInv, TypeOK, Unrecorded, AfterIntent
    <2>2. CASE RiskAllows
      BY <2>2 DEF RiskAllows, AuditInv, TypeOK
    <2>3. CASE RiskRejects
      BY <2>3 DEF RiskRejects, EndRaised, AuditInv, CallEnds
    <2>4. ASSUME NEW from \in {"risk", "posted", "lookup"}, EndFrozen(from) PROVE AuditInv'
      <3>1. \A id \in Ids : (book'[id].status = "absent") = (book[id].status = "absent")
        BY <2>4, FreezeFacts DEF EndFrozen, Open, CallEnds
      <3>2. QED
        BY <2>4, <3>1, SameOrdersKeepAudit DEF EndFrozen, CallEnds
    <2>5. CASE Post
      <3>1. current \in Ids /\ posts[current] = 0 /\ book[current].status = "absent"
        BY <2>5 DEF Post, AuditInv, TypeOK
      <3>2. posts' = [posts EXCEPT ![current] = 1]
        BY <2>5, <3>1 DEF Post, TypeOK
      <3>3. intents[current] # 0 /\ (RiskEngine => current \in approved)
        BY <2>5, <3>1 DEF Post, AuditInv, TypeOK
      <3>4. QED
        BY <2>5, <3>1, <3>2, <3>3 DEF Post, AuditInv, TypeOK
    <2>6. CASE BrokerAnswers
      BY <2>6 DEF BrokerAnswers, AuditInv
    <2>7. CASE ReplyLost
      BY <2>7 DEF ReplyLost, AuditInv
    <2>8. CASE Persist
      BY <2>8 DEF Persist, AuditInv, CallEnds
    <2>9. CASE PersistFails
      BY <2>9 DEF PersistFails, EndRaised, AuditInv, CallEnds
    <2>10. QED
      BY <1>1, <2>1, <2>2, <2>3, <2>4, <2>5, <2>6, <2>7, <2>8, <2>9
         DEF Submit, RiskContextMissing, SubmissionFails, LookupFails
  <1>2. CASE Supervise
    <2>1. CASE Start
      BY <2>1 DEF Start, AuditInv
    <2>2. CASE Reconcile
      BY <2>2 DEF Reconcile, AuditInv
    <2>3. CASE ListOrders
      BY <2>3 DEF ListOrders, AuditInv
    <2>4. CASE ListingFails
      BY <2>4 DEF ListingFails, EndRaised, AuditInv, CallEnds
    <2>5. CASE Compare
      <3>1. \A id \in Ids : (book'[id].status = "absent") = (book[id].status = "absent")
        BY <2>5, FreezeFacts DEF Compare, Open, CallEnds
      <3>2. QED
        BY <2>5, <3>1, SameOrdersKeepAudit DEF Compare, CallEnds
    <2>6. ASSUME NEW u \in feed, ConsumeUpdate(u) PROVE AuditInv'
      <3>1. \A id \in Ids : (book'[id].status = "absent") = (book[id].status = "absent")
        BY <2>6, FreezeFacts DEF ConsumeUpdate, Open
      <3>2. QED
        BY <2>6, <3>1, SameOrdersKeepAudit DEF ConsumeUpdate
    <2>7. CASE Shutdown
      BY <2>7 DEF Shutdown, AuditInv
    <2>8. CASE Restart
      BY <2>8 DEF Restart, AuditInv, TypeOK, CallEnds
    <2>9. CASE OperatorFreeze
      BY <2>9 DEF OperatorFreeze, AuditInv
    <2>10. CASE OperatorCancels
      <3>1. \A id \in Ids : (book'[id].status = "absent") = (book[id].status = "absent")
        BY <2>10, CancelFacts DEF OperatorCancels, Open
      <3>2. QED
        BY <2>10, <3>1, SameOrdersKeepAudit DEF OperatorCancels
    <2>11. QED
      BY <1>2, <2>1, <2>2, <2>3, <2>4, <2>5, <2>6, <2>7, <2>8, <2>9, <2>10 DEF Supervise
  <1>3. CASE Broker
    <2>1. ASSUME NEW id \in Ids, BrokerAccepts(id) PROVE AuditInv'
      <3>1. book' = [book EXCEPT ![id] = [status |-> "new", filled |-> 0, at |-> 1]]
        BY <2>1, MoveFacts, AcceptFacts DEF BrokerAccepts
      <3>2. book'[id].status = "new" /\ \A other \in Ids \ {id} : book'[other] = book[other]
        BY <3>1 DEF TypeOK
      <3>3. UNCHANGED <<session, pc, current, intents, approved, posts>> /\ wire' = wire \ {id}
        BY <2>1 DEF BrokerAccepts
      <3>4. id \in wire
        BY <2>1 DEF BrokerAccepts
      <3>5. QED
        BY <3>2, <3>3, <3>4 DEF AuditInv
    <2>2. ASSUME NEW id \in Ids, BrokerRefuses(id) PROVE AuditInv'
      BY <2>2 DEF BrokerRefuses, AuditInv
    <2>3. ASSUME NEW id \in Ids, BrokerFills(id) PROVE AuditInv'
      <3>1. PICK next \in Order : /\ Publish([book EXCEPT ![id] = next])
                                  /\ next.status \in {"filled", "partially_filled"}
        BY <2>3, FillFacts
      <3>2. book' = [book EXCEPT ![id] = next]
        BY <3>1, MoveFacts
      <3>3. book[id].status # "absent"
        BY <2>3 DEF BrokerFills, Open
      <3>4. \A other \in Ids : (book'[other].status = "absent") = (book[other].status = "absent")
        BY <3>1, <3>2, <3>3 DEF TypeOK
      <3>5. QED
        BY <2>3, <3>4, SameOrdersKeepAudit DEF BrokerFills
    <2>4. ASSUME NEW id \in Ids, BrokerCloses(id) PROVE AuditInv'
      <3>1. PICK next \in Order : /\ Publish([book EXCEPT ![id] = next])
                                  /\ next.status = "canceled"
        BY <2>4, CloseFacts
      <3>2. book' = [book EXCEPT ![id] = next]
        BY <3>1, MoveFacts
      <3>3. book[id].status # "absent"
        BY <2>4 DEF BrokerCloses, Open
      <3>4. \A other \in Ids : (book'[other].status = "absent") = (book[other].status = "absent")
        BY <3>1, <3>2, <3>3 DEF TypeOK
      <3>5. QED
        BY <2>4, <3>4, SameOrdersKeepAudit DEF BrokerCloses
    <2>5. QED
      BY <1>3, <2>1, <2>2, <2>3, <2>4 DEF Broker
  <1>4. CASE UNCHANGED vars
    BY <1>4 DEF vars, AuditInv
  <1>5. QED
    BY <1>1, <1>2, <1>3, <1>4 DEF Next

LEMMA AuditHolds == Spec => []AuditInv
  <1>1. Init => AuditInv
    BY SupervisorAssumption DEF Init, AuditInv, Absent
  <1>2. QED
    BY <1>1, AuditStep, TypeCorrect, PTL DEF Spec

\* submit_intent never sends a logical order twice, for any number of sessions,
\* crashes and faults of the network, the database and the broker's clock.
THEOREM SubmissionIsUnique == Spec => []SentAtMostOnce
  <1>1. AuditInv => SentAtMostOnce
    BY DEF AuditInv, SentAtMostOnce
  <1>2. QED
    BY <1>1, AuditHolds, PTL

\* Nothing reaches the broker without a durable intent and, with a risk engine,
\* a durable allowing decision.
THEOREM EffectsAreAudited == Spec => []DurableBeforeEffect
  <1>1. AuditInv => DurableBeforeEffect
    BY DEF AuditInv, DurableBeforeEffect
  <1>2. QED
    BY <1>1, AuditHolds, PTL

-----------------------------------------------------------------------------
(* A ready supervisor knows its live orders, if the database takes its rows. *)

\* Orders that move at the broker while the supervisor's own state stands still
\* or freezes: an open order stays known, a closed one never opens.
LEMMA MovesKeepKnown ==
  ASSUME KnownInv, TypeOK,
         UNCHANGED <<session, phase, orders, intents, wire>>,
         UNCHANGED <<pc, current, reply>> \/ (pc' = "idle" /\ frozen'),
         frozen => frozen',
         feed' \subseteq Update,
         \A id \in Ids : \/ book'[id] = book[id]
                         \/ book[id].status \in Open /\ book'[id].status # "absent",
         \A u \in feed' : u \in feed \/ (u.order = book'[u.id] /\ book'[u.id] # book[u.id])
  PROVE  KnownInv'
  <1>1. ASSUME NEW u \in feed'
        PROVE  /\ book'[u.id].status # "absent"
               /\ book'[u.id].status \in Open => u.order.status \in Open
    <2>1. u.id \in Ids
      BY DEF Update
    <2>2. CASE u \in feed
      BY <2>1, <2>2 DEF KnownInv
    <2>3. CASE u.order = book'[u.id] /\ book'[u.id] # book[u.id]
      BY <2>1, <2>3
    <2>4. QED
      BY <2>2, <2>3
  <1>2. pc' = "persist" => /\ book'[current'].status # "absent"
                           /\ book'[current'].status \in Open => reply'.status \in Open
    BY DEF KnownInv, TypeOK
  <1>3. ASSUME NEW id \in Ids, intents'[id] = session',
               id \in wire' \/ book'[id].status \in Open
        PROVE  \/ orders'[id].status \in Open
               \/ ~ready'
               \/ pc' \in {"posted", "lookup", "persist"} /\ current' = id
    BY <1>3 DEF KnownInv, ready, started
  <1>4. phase' = "new" => pc' = "idle" /\ \A id \in Ids : intents'[id] < session'
    BY DEF KnownInv
  <1>5. QED
    BY <1>1, <1>2, <1>3, <1>4 DEF KnownInv

LEMMA KnownStep ==
  ASSUME DatabaseFaults = FALSE
  PROVE  TypeOK /\ AuditInv /\ KnownInv /\ [Next]_vars => KnownInv'
  <1> SUFFICES ASSUME TypeOK, AuditInv, KnownInv, [Next]_vars PROVE KnownInv'
    OBVIOUS
  <1> USE DEF process, durable, broker
  <1>1. CASE Submit
    <2>1. ASSUME NEW id \in Ids, RecordIntent(id) PROVE KnownInv'
      <3>1. id \notin wire /\ book[id].status = "absent"
        BY <2>1 DEF RecordIntent, AuditInv, TypeOK, Unrecorded, AfterIntent
      <3>2. QED
        BY <2>1, <3>1 DEF RecordIntent, KnownInv, TypeOK, ready, started, Open, Unrecorded, AfterIntent
    <2>2. CASE RiskAllows
      BY <2>2 DEF RiskAllows, KnownInv, ready, started
    <2>3. CASE RiskRejects
      BY <2>3 DEF RiskRejects, EndRaised, KnownInv, ready, started, CallEnds
    <2>4. ASSUME NEW from \in {"risk", "posted", "lookup"}, EndFrozen(from) PROVE KnownInv'
      <3>1. \A id \in Ids : \/ book'[id] = book[id]
                            \/ book[id].status \in Open /\ book'[id].status # "absent"
        BY <2>4, FreezeFacts DEF EndFrozen, CallEnds
      <3>2. QED
        BY <2>4, <3>1, FreezeFacts, MovesKeepKnown DEF EndFrozen, CallEnds
    <2>5. CASE Post
      BY <2>5 DEF Post, KnownInv, AuditInv, TypeOK, ready, started
    <2>6. CASE BrokerAnswers
      BY <2>6 DEF BrokerAnswers, KnownInv, TypeOK, ready, started
    <2>7. CASE ReplyLost
      BY <2>7 DEF ReplyLost, KnownInv, ready, started
    <2>8. CASE Persist
      <3>1. current \in Ids /\ orders' = [orders EXCEPT ![current] = reply]
        BY <2>8 DEF Persist, TypeOK, CallEnds
      <3>2. current \notin wire
        BY <2>8, <3>1 DEF Persist, KnownInv, AuditInv, CallEnds
      <3>3. orders'[current] = reply /\ \A id \in Ids \ {current} : orders'[id] = orders[id]
        BY <3>1 DEF TypeOK
      <3>4. QED
        BY <2>8, <3>1, <3>2, <3>3 DEF Persist, KnownInv, ready, started, CallEnds
    <2>9. QED
      BY <1>1, <2>1, <2>2, <2>3, <2>4, <2>5, <2>6, <2>7, <2>8
         DEF Submit, RiskContextMissing, SubmissionFails, LookupFails, PersistFails
  <1>2. CASE Supervise
    <2>1. CASE Start
      BY <2>1 DEF Start, KnownInv, ready, started, TypeOK
    <2>2. CASE Reconcile
      BY <2>2 DEF Reconcile, KnownInv, ready, started
    <2>3. CASE ListOrders
      BY <2>3 DEF ListOrders, KnownInv, ready, started
    <2>4. CASE ListingFails
      BY <2>4 DEF ListingFails, EndRaised, KnownInv, ready, started, CallEnds
    <2>5. CASE Compare
      <3>1. CASE verdict' = "matched"
        BY <2>5, <3>1 DEF Compare, KnownInv, ready, started, CallEnds
      <3>2. CASE verdict' # "matched"
        BY <2>5, <3>2, FreezeFacts, MovesKeepKnown DEF Compare, CallEnds
      <3>3. QED
        BY <3>1, <3>2
    <2>6. ASSUME NEW u \in feed, ConsumeUpdate(u) PROVE KnownInv'
      <3>1. u.id \in Ids /\ u.order \in Order
        BY <2>6 DEF TypeOK, Update
      <3>2. \A id \in Ids : orders'[id] = orders[id] \/ (id = u.id /\ orders'[id] = u.order)
        BY <2>6, <3>1 DEF ConsumeUpdate, Project, TypeOK
      <3>3. /\ frozen => frozen'
            /\ feed' \subseteq Update
            /\ \A id \in Ids : \/ book'[id] = book[id]
                               \/ book[id].status \in Open /\ book'[id].status # "absent"
            /\ \A v \in feed' : v \in feed \/ (v.order = book'[v.id] /\ book'[v.id] # book[v.id])
        <4>1. CASE UNCHANGED <<frozen, book, feed>>
          BY <4>1 DEF TypeOK
        <4>2. CASE FreezeEffects
          BY <4>2, FreezeFacts
        <4>3. QED
          BY <2>6, <4>1, <4>2 DEF ConsumeUpdate
      <3>4. UNCHANGED <<session, phase, pc, current, reply, intents, wire>>
        BY <2>6 DEF ConsumeUpdate
      <3>5. ASSUME NEW id \in Ids, book'[id].status \in Open \/ id \in wire
            PROVE  orders[id].status \in Open => orders'[id].status \in Open
        <4>1. CASE orders'[id] = orders[id]
          BY <4>1
        <4>2. CASE id = u.id /\ orders'[id] = u.order
          <5>1. book[id].status # "absent" /\ id \notin wire
            BY <4>2, <3>1 DEF KnownInv, AuditInv
          <5>2. book[id].status \in Open
            BY <3>3, <3>5, <5>1
          <5>3. QED
            BY <4>2, <5>2 DEF KnownInv
        <4>3. QED
          BY <3>2, <4>1, <4>2
      <3>6. ASSUME NEW v \in feed'
            PROVE  /\ book'[v.id].status # "absent"
                   /\ book'[v.id].status \in Open => v.order.status \in Open
        <4>1. v.id \in Ids
          BY <3>3 DEF Update
        <4>2. QED
          BY <3>3, <4>1 DEF KnownInv
      <3>7. pc = "idle"
        BY <2>6 DEF ConsumeUpdate
      <3>8. ASSUME NEW id \in Ids, intents'[id] = session',
                   id \in wire' \/ book'[id].status \in Open, ready'
            PROVE  orders'[id].status \in Open
        <4>1. ready /\ (id \in wire \/ book[id].status \in Open)
          BY <3>3, <3>4, <3>8 DEF ready, started
        <4>2. orders[id].status \in Open
          BY <3>4, <3>7, <3>8, <4>1 DEF KnownInv
        <4>3. QED
          BY <3>4, <3>5, <3>8, <4>2
      <3>9. QED
        BY <3>4, <3>6, <3>7, <3>8 DEF KnownInv
    <2>7. CASE Shutdown
      BY <2>7 DEF Shutdown, KnownInv, ready, started
    <2>8. CASE Restart
      BY <2>8 DEF Restart, KnownInv, AuditInv, TypeOK, ready, started, CallEnds
    <2>9. CASE OperatorFreeze
      BY <2>9 DEF OperatorFreeze, KnownInv, ready, started
    <2>10. CASE OperatorCancels
      BY <2>10, CancelFacts, MovesKeepKnown DEF OperatorCancels
    <2>11. QED
      BY <1>2, <2>1, <2>2, <2>3, <2>4, <2>5, <2>6, <2>7, <2>8, <2>9, <2>10 DEF Supervise
  <1>3. CASE Broker
    <2>1. ASSUME NEW id \in Ids, BrokerAccepts(id) PROVE KnownInv'
      <3>1. /\ book' = [book EXCEPT ![id] = [status |-> "new", filled |-> 0, at |-> 1]]
            /\ feed' \subseteq Update
            /\ \A u \in feed' : u \in feed \/ (u.order = book'[u.id] /\ book'[u.id] # book[u.id])
        BY <2>1, MoveFacts, AcceptFacts DEF BrokerAccepts
      <3>2. book'[id].status = "new" /\ \A other \in Ids \ {id} : book'[other] = book[other]
        BY <3>1 DEF TypeOK
      <3>3. /\ UNCHANGED <<session, phase, frozen, orders, pc, current, reply, intents>>
            /\ wire' = wire \ {id} /\ id \in wire /\ book[id].status = "absent"
        BY <2>1 DEF BrokerAccepts
      <3>4. ASSUME NEW u \in feed'
            PROVE  /\ book'[u.id].status # "absent"
                   /\ book'[u.id].status \in Open => u.order.status \in Open
        BY <3>1, <3>2, <3>3 DEF KnownInv, Update
      <3>5. pc = "persist" => current # id
        BY <3>3 DEF KnownInv
      <3>6. QED
        BY <3>2, <3>3, <3>4, <3>5 DEF KnownInv, ready, started, TypeOK
    <2>2. ASSUME NEW id \in Ids, BrokerRefuses(id) PROVE KnownInv'
      BY <2>2 DEF BrokerRefuses, KnownInv, ready, started
    <2>3. ASSUME NEW id \in Ids, BrokerFills(id) PROVE KnownInv'
      <3>1. PICK next \in Order : /\ Publish([book EXCEPT ![id] = next])
                                  /\ next.status \in {"filled", "partially_filled"}
        BY <2>3, FillFacts
      <3>2. /\ book' = [book EXCEPT ![id] = next]
            /\ feed' \subseteq Update
            /\ \A u \in feed' : u \in feed \/ (u.order = book'[u.id] /\ book'[u.id] # book[u.id])
        BY <3>1, MoveFacts
      <3>3. \A other \in Ids : \/ book'[other] = book[other]
                               \/ book[other].status \in Open /\ book'[other].status # "absent"
        BY <2>3, <3>1, <3>2 DEF BrokerFills, TypeOK
      <3>4. QED
        BY <2>3, <3>2, <3>3, MovesKeepKnown DEF BrokerFills
    <2>4. ASSUME NEW id \in Ids, BrokerCloses(id) PROVE KnownInv'
      <3>1. PICK next \in Order : /\ Publish([book EXCEPT ![id] = next])
                                  /\ next.status = "canceled"
        BY <2>4, CloseFacts
      <3>2. /\ book' = [book EXCEPT ![id] = next]
            /\ feed' \subseteq Update
            /\ \A u \in feed' : u \in feed \/ (u.order = book'[u.id] /\ book'[u.id] # book[u.id])
        BY <3>1, MoveFacts
      <3>3. \A other \in Ids : \/ book'[other] = book[other]
                               \/ book[other].status \in Open /\ book'[other].status # "absent"
        BY <2>4, <3>1, <3>2 DEF BrokerCloses, TypeOK
      <3>4. QED
        BY <2>4, <3>2, <3>3, MovesKeepKnown DEF BrokerCloses
    <2>5. QED
      BY <1>3, <2>1, <2>2, <2>3, <2>4 DEF Broker
  <1>4. CASE UNCHANGED vars
    BY <1>4 DEF vars, KnownInv, ready, started
  <1>5. QED
    BY <1>1, <1>2, <1>3, <1>4 DEF Next

\* As long as the submission row can be written, a lost reply, a restart or a
\* re-ordered stream never leaves a ready supervisor blind to a live order of
\* its own session.
THEOREM UncertaintyFreezes ==
  ASSUME DatabaseFaults = FALSE
  PROVE  Spec => []ReadyKnowsItsOrders
  <1>1. Init => KnownInv
    BY SupervisorAssumption DEF Init, KnownInv, Absent, Open
  <1>2. KnownInv => ReadyKnowsItsOrders
    BY DEF KnownInv, ReadyKnowsItsOrders
  <1>3. QED
    BY <1>1, <1>2, KnownStep, AuditHolds, TypeCorrect, PTL DEF Spec

-----------------------------------------------------------------------------
(* The gate: no order is let through after a mismatch or a freeze.         *)

\* A ready supervisor outside reconciliation has matched, unless a comparison
\* came to no end, and a submission that has not been sent yet finds it ready,
\* unless somebody froze it from outside.
LEMMA GateStep == GateInv /\ [Next]_vars => GateInv'
  <1> SUFFICES ASSUME GateInv, [Next]_vars PROVE GateInv'
    OBVIOUS
  <1> USE DEF GateInv, process, durable, broker, ready, started
  <1>1. CASE Submit
    BY <1>1 DEF Submit, RecordIntent, RiskAllows, RiskRejects, RiskContextMissing, Post,
                BrokerAnswers, ReplyLost, SubmissionFails, LookupFails, Persist, PersistFails,
                EndFrozen, FreezeEffects, Unrecorded, AfterIntent, EndRaised, CallEnds
  <1>2. CASE Supervise
    <2>1. CASE Start \/ Reconcile \/ ListOrders \/ Shutdown \/ Restart
      BY <2>1 DEF Start, Reconcile, ListOrders, Shutdown, Restart, CallEnds
    <2>2. CASE Compare
      BY <2>2 DEF Compare, FreezeEffects, CallEnds
    <2>3. ASSUME NEW u \in feed, ConsumeUpdate(u) PROVE GateInv'
      BY <2>3 DEF ConsumeUpdate, FreezeEffects
    <2>4. CASE OperatorFreeze \/ OperatorCancels
      BY <2>4 DEF OperatorFreeze, OperatorCancels
    <2>5. CASE ListingFails
      BY <2>5 DEF ListingFails, EndRaised, CallEnds
    <2>6. QED
      BY <1>2, <2>1, <2>2, <2>3, <2>4, <2>5 DEF Supervise
  <1>3. CASE Broker
    <2>1. UNCHANGED process
      BY <1>3 DEF Broker, BrokerAccepts, BrokerRefuses, BrokerFills, BrokerCloses
    <2>2. QED
      BY <2>1
  <1>4. CASE UNCHANGED vars
    BY <1>4 DEF vars
  <1>5. QED
    BY <1>1, <1>2, <1>3, <1>4 DEF Next

LEMMA GateHolds == Spec => []GateInv
  <1>1. Init => GateInv
    BY DEF Init, GateInv, ready, started
  <1>2. QED
    BY <1>1, GateStep, PTL DEF Spec

\* Only Post sends.
LEMMA OnlyPostSends ==
  ASSUME [Next]_vars, posts' # posts
  PROVE  Post
  <1> USE DEF process, durable, broker
  <1>1. CASE Submit
    BY <1>1 DEF Submit, RecordIntent, RiskAllows, RiskRejects, RiskContextMissing,
                BrokerAnswers, ReplyLost, SubmissionFails, LookupFails, Persist, PersistFails,
                EndFrozen, Unrecorded, AfterIntent, EndRaised, CallEnds
  <1>2. CASE Supervise
    BY <1>2 DEF Supervise, Start, Reconcile, ListOrders, ListingFails, Compare, ConsumeUpdate,
                Shutdown, Restart, OperatorFreeze, OperatorCancels, EndRaised, CallEnds
  <1>3. CASE Broker
    BY <1>3 DEF Broker, BrokerAccepts, BrokerRefuses, BrokerFills, BrokerCloses
  <1>4. QED
    BY <1>1, <1>2, <1>3 DEF Next, vars

\* For every fault and every freeze from outside: no order leaves after a
\* comparison that did not match; one leaves without a matched comparison only
\* where a comparison came to no end, and after a freeze only where it came from
\* another thread.
THEOREM GateIsKept == Spec => AdmissionGate
  <1> DEFINE Let == /\ verdict \in {"none", "matched"}
                    /\ verdict = "none" => ComparisonFaults
                    /\ frozen => ExternalFreeze
  <1>1. GateInv /\ [Next]_vars => [posts' # posts => Let]_vars
    <2> SUFFICES ASSUME GateInv, [Next]_vars, posts' # posts
                 PROVE  Let
      OBVIOUS
    <2>1. Post
      BY OnlyPostSends
    <2>2. QED
      BY <2>1 DEF Post, GateInv, ready
  <1>2. QED
    BY <1>1, GateHolds, PTL DEF Spec, AdmissionGate

-----------------------------------------------------------------------------
(* The supervisor implements OrderAdmission.                               *)

Intending == pc \in {"risk", "post"}

\* A step that neither sends nor records an intent, and neither begins nor ends
\* the submission of an announced order, leaves every order at its stage.
LEMMA SameStage ==
  ASSUME UNCHANGED <<posts, intents>>,
         \/ ~Intending /\ ~Intending'
         \/ Intending /\ Intending' /\ UNCHANGED current
  PROVE  MappedStage' = MappedStage
  BY DEF MappedStage, Intending

Comparing == pc \in {"listing", "comparing"}

\* A step that leaves the flag and the verdict alone, and is not one that begins
\* or ends a comparison, leaves the gate alone.
LEMMA SameGate ==
  ASSUME UNCHANGED <<frozen, verdict, phase>>, Comparing' = Comparing
  PROVE  MappedGate' = MappedGate
  BY DEF MappedGate, Comparing, started

\* One order moves to another stage.
LEMMA StageMoves ==
  ASSUME NEW id \in Ids, NEW next,
         \A other \in Ids : MappedStage'[other] = IF other = id THEN next ELSE MappedStage[other]
  PROVE  MappedStage' = [MappedStage EXCEPT ![id] = next]
  <1>1. MappedStage = [other \in Ids |-> MappedStage[other]]
    BY DEF MappedStage
  <1>2. MappedStage' = [other \in Ids |-> MappedStage'[other]]
    BY DEF MappedStage
  <1>3. QED
    BY <1>1, <1>2

\* The four steps that move an order through its stages.
LEMMA SubmissionMaps ==
  ASSUME TypeOK, AuditInv, GateInv, Submit
  PROVE  [Promise!AdmissionNext]_(Promise!admission)
  <1> USE DEF process, durable, broker, Promise!admission, Intending, Comparing
  <1>1. ASSUME NEW id \in Ids, RecordIntent(id)
        PROVE  Promise!Announce(id)
    <2>1. MappedGate \in {"unchecked", "open"} /\ MappedGate' = MappedGate
      BY <1>1, SameGate DEF RecordIntent, GateInv, MappedGate, ready, Unrecorded, AfterIntent
    <2>2. MappedStage[id] = "none" /\ \A other \in Ids : MappedStage[other] # "intended"
      BY <1>1 DEF RecordIntent, AuditInv, MappedStage, TypeOK, Unrecorded, AfterIntent
    <2>3. MappedStage' = [MappedStage EXCEPT ![id] = "intended"]
      <3>1. \A other \in Ids : MappedStage'[other] = IF other = id THEN "intended" ELSE MappedStage[other]
        BY <1>1, <2>2 DEF RecordIntent, AuditInv, MappedStage, TypeOK, Unrecorded, AfterIntent
      <3>2. QED
        BY <3>1, StageMoves
    <2>4. QED
      BY <2>1, <2>2, <2>3 DEF Promise!Announce, Promise!Passable
  <1>2. CASE RiskAllows
    BY <1>2, SameStage, SameGate DEF RiskAllows
  <1>3. CASE RiskRejects \/ EndFrozen("risk")
    <2>1. current \in Ids /\ MappedStage[current] = "intended"
      BY <1>3 DEF RiskRejects, EndRaised, EndFrozen, AuditInv, MappedStage, TypeOK, CallEnds
    <2>2. MappedGate' \in {MappedGate, "frozen"}
      BY <1>3, SameGate DEF RiskRejects, EndRaised, EndFrozen, FreezeEffects, MappedGate, CallEnds
    <2>3. /\ UNCHANGED <<posts, intents>>
          /\ pc \in {"risk", "post"} /\ pc' = "idle"
          /\ posts[current] = 0 /\ intents[current] # 0
      BY <1>3, <2>1 DEF RiskRejects, EndRaised, EndFrozen, AuditInv, TypeOK, CallEnds
    <2>4. MappedStage' = [MappedStage EXCEPT ![current] = "abandoned"]
      <3>1. \A id \in Ids : MappedStage'[id] = IF id = current THEN "abandoned" ELSE MappedStage[id]
        BY <2>3 DEF MappedStage
      <3>2. QED
        BY <2>1, <3>1, StageMoves
    <2>5. Promise!Abandon(current)
      BY <2>1, <2>2, <2>4 DEF Promise!Abandon
    <2>6. QED
      BY <2>1, <2>5 DEF Promise!AdmissionNext
  <1>4. CASE Post
    <2>1. current \in Ids /\ MappedStage[current] = "intended"
      BY <1>4 DEF Post, AuditInv, MappedStage, TypeOK
    <2>2. /\ ~ExternalFreeze => MappedGate \in {"unchecked", "open"}
          /\ MappedGate' = MappedGate
      BY <1>4, SameGate DEF Post, GateInv, MappedGate, started
    <2>3. posts' = [posts EXCEPT ![current] = 1]
      BY <1>4, <2>1 DEF Post, AuditInv, TypeOK
    <2>4. MappedStage' = [MappedStage EXCEPT ![current] = "sent"]
      <3>1. \A id \in Ids : MappedStage'[id] = IF id = current THEN "sent" ELSE MappedStage[id]
        BY <1>4, <2>1, <2>3 DEF Post, MappedStage, TypeOK
      <3>2. QED
        BY <2>1, <3>1, StageMoves
    <2>5. Promise!Send(current)
      BY <2>1, <2>2, <2>4 DEF Promise!Send, Promise!Passable
    <2>6. QED
      BY <2>1, <2>5 DEF Promise!AdmissionNext
  <1>5. CASE BrokerAnswers \/ ReplyLost \/ Persist \/ PersistFails
    BY <1>5, SameStage, SameGate DEF BrokerAnswers, ReplyLost, Persist, PersistFails, EndRaised, CallEnds
  <1>6. CASE EndFrozen("posted") \/ EndFrozen("lookup")
    <2>1. MappedStage' = MappedStage
      BY <1>6, SameStage DEF EndFrozen, CallEnds
    <2>2. MappedGate' = "frozen"
      BY <1>6 DEF EndFrozen, FreezeEffects, MappedGate, CallEnds
    <2>3. QED
      BY <2>1, <2>2 DEF Promise!AdmissionNext, Promise!Freeze
  <1>7. QED
    BY <1>1, <1>2, <1>3, <1>4, <1>5, <1>6
       DEF Submit, RiskContextMissing, SubmissionFails, LookupFails, Promise!AdmissionNext

\* Reconciliation opens the gate or shuts it, the stream and shutdown only shut
\* it, and a restart closes it and drops what was announced.
LEMMA SupervisionMaps ==
  ASSUME TypeOK, AuditInv, GateInv, Supervise
  PROVE  [Promise!AdmissionNext]_(Promise!admission)
  <1> USE DEF process, durable, broker, Promise!admission, Intending, Comparing
  <1>1. CASE Start \/ ListOrders \/ OperatorCancels
    <2>1. MappedStage' = MappedStage
      BY <1>1, SameStage DEF Start, ListOrders, OperatorCancels
    <2>2. MappedGate' = MappedGate
      BY <1>1 DEF Start, ListOrders, OperatorCancels, MappedGate, started
    <2>3. QED
      BY <2>1, <2>2
  <1>2. CASE Compare
    <2>1. MappedStage' = MappedStage
      BY <1>2, SameStage DEF Compare, CallEnds
    <2>2. CASE verdict' = "matched"
      <3>1. frozen' = frozen
        BY <1>2, <2>2 DEF Compare, CallEnds
      <3>2. MappedGate' = MappedGate \/ (MappedGate = "closed" /\ MappedGate' = "open")
        BY <2>2, <3>1 DEF MappedGate, TypeOK
      <3>3. QED
        BY <2>1, <3>2 DEF Promise!AdmissionNext, Promise!OpenGate
    <2>3. CASE verdict' # "matched"
      <3>1. MappedGate' = "frozen"
        BY <1>2, <2>3 DEF Compare, FreezeEffects, MappedGate, CallEnds
      <3>2. QED
        BY <2>1, <3>1 DEF Promise!AdmissionNext, Promise!Freeze
    <2>4. QED
      BY <2>2, <2>3
  <1>3. ASSUME NEW u \in feed, ConsumeUpdate(u)
        PROVE  [Promise!AdmissionNext]_(Promise!admission)
    <2>1. MappedStage' = MappedStage
      BY <1>3, SameStage DEF ConsumeUpdate
    <2>2. MappedGate' = MappedGate \/ MappedGate' = "frozen"
      <3>1. UNCHANGED <<phase, pc, verdict>> /\ (frozen' = frozen \/ frozen' = TRUE)
        BY <1>3 DEF ConsumeUpdate, FreezeEffects
      <3>2. CASE frozen' = frozen
        BY <3>1, <3>2, SameGate
      <3>3. CASE frozen' = TRUE
        BY <3>3 DEF MappedGate
      <3>4. QED
        BY <3>1, <3>2, <3>3
    <2>3. QED
      BY <2>1, <2>2 DEF Promise!AdmissionNext, Promise!Freeze
  <1>4. CASE Shutdown
    <2>1. MappedStage' = MappedStage
      BY <1>4, SameStage DEF Shutdown
    <2>2. MappedGate' = "frozen"
      BY <1>4 DEF Shutdown, MappedGate
    <2>3. QED
      BY <2>1, <2>2 DEF Promise!AdmissionNext, Promise!Freeze
  <1>5. CASE Restart
    <2>1. MappedGate' = "closed"
      <3>1. frozen' = FALSE /\ verdict' = "none" /\ phase' = "new"
        BY <1>5 DEF Restart
      <3>2. QED
        BY <3>1 DEF MappedGate, started
    <2>2. UNCHANGED <<posts, intents>> /\ pc' = "idle"
      BY <1>5 DEF Restart, CallEnds
    <2>3. \A id \in Ids : MappedStage[id] = "intended" => intents[id] # 0
      BY DEF AuditInv, MappedStage, TypeOK
    <2>4. \A id \in Ids : MappedStage'[id]
             = IF MappedStage[id] = "intended" THEN "abandoned" ELSE MappedStage[id]
      BY <2>2, <2>3 DEF MappedStage, TypeOK
    <2>5. MappedStage' = [id \in Ids |-> IF MappedStage[id] = "intended"
                                           THEN "abandoned" ELSE MappedStage[id]]
      BY <2>4 DEF MappedStage
    <2>6. QED
      BY <2>1, <2>5 DEF Promise!AdmissionNext, Promise!NewSession
  <1>6. CASE Reconcile
    <2>1. MappedStage' = MappedStage
      BY <1>6, SameStage DEF Reconcile
    <2>2. MappedGate' = MappedGate \/ (MappedGate = "unchecked" /\ MappedGate' = "closed")
      BY <1>6 DEF Reconcile, MappedGate, started
    <2>3. QED
      BY <2>1, <2>2 DEF Promise!AdmissionNext, Promise!Recheck
  <1>7. CASE ListingFails
    <2>1. MappedStage' = MappedStage
      BY <1>7, SameStage DEF ListingFails, EndRaised, CallEnds
    <2>2. \/ MappedGate' = MappedGate
          \/ MappedGate = "closed" /\ MappedGate' = "unchecked"
      BY <1>7 DEF ListingFails, EndRaised, CallEnds, MappedGate, started
    <2>3. ComparisonFaults
      BY <1>7 DEF ListingFails
    <2>4. QED
      BY <2>1, <2>2, <2>3 DEF Promise!AdmissionNext, Promise!Unchecked
  <1>8. CASE OperatorFreeze
    <2>1. MappedStage' = MappedStage
      BY <1>8, SameStage DEF OperatorFreeze
    <2>2. MappedGate' = "frozen"
      BY <1>8 DEF OperatorFreeze, MappedGate
    <2>3. QED
      BY <2>1, <2>2 DEF Promise!AdmissionNext, Promise!Freeze
  <1>9. QED
    BY <1>1, <1>2, <1>3, <1>4, <1>5, <1>6, <1>7, <1>8 DEF Supervise

\* Every step of the supervisor is a step of the admission promise or invisible
\* to it, whatever fails: announced durably, sent once or never, let through by
\* an open gate, or by one left unchecked by a comparison that came to no end.
THEOREM ImplementsAdmission == Spec => KeepsPromise
  <1>1. Init => Promise!AdmissionInit
    BY DEF Init, Promise!AdmissionInit, MappedGate, MappedStage, started
  <1>2. TypeOK /\ AuditInv /\ GateInv /\ [Next]_vars => [Promise!AdmissionNext]_(Promise!admission)
    <2> SUFFICES ASSUME TypeOK, AuditInv, GateInv, [Next]_vars
                 PROVE  [Promise!AdmissionNext]_(Promise!admission)
      OBVIOUS
    <2>1. CASE Submit
      BY <2>1, SubmissionMaps
    <2>2. CASE Supervise
      BY <2>2, SupervisionMaps
    <2>3. CASE Broker
      <3>1. UNCHANGED <<frozen, verdict, phase, posts, intents, pc, current>>
        BY <2>3 DEF Broker, BrokerAccepts, BrokerRefuses, BrokerFills, BrokerCloses, process, durable
      <3>2. QED
        BY <3>1, SameStage, SameGate DEF Promise!admission, Intending, Comparing
    <2>4. CASE UNCHANGED vars
      BY <2>4, SameStage, SameGate DEF vars, process, durable, Promise!admission, Intending, Comparing
    <2>5. QED
      BY <2>1, <2>2, <2>3, <2>4 DEF Next
  <1>3. QED
    BY <1>1, <1>2, TypeCorrect, AuditHolds, GateHolds, PTL
       DEF Spec, KeepsPromise, Promise!AdmissionSpec

-----------------------------------------------------------------------------
(* Fills are never taken back, when no two changes of an order carry one   *)
(* broker timestamp: everything the supervisor holds was once published,   *)
(* and of two published versions of an order the later has no fewer fills. *)

Submitting      == {"risk", "post", "posted", "lookup", "persist"}
Sent(id, order) == \E u \in feed : u.id = id /\ u.order = order

StreamInv ==
  /\ \A u \in feed : u.order.at <= book[u.id].at /\ u.order.filled <= book[u.id].filled
  /\ \A u, v \in feed :
       u.id = v.id /\ u.order.at <= v.order.at => u.order.filled <= v.order.filled
  /\ \A id \in Ids : IF book[id].status = "absent"
                       THEN book[id].at = 0 /\ book[id].filled = 0
                       ELSE Sent(id, book[id])

ViewInv ==
  /\ pc = "persist" => Sent(current, reply)
  /\ pc \in Submitting => ~Tracked(current) /\ intents[current] # 0
  /\ \A id \in Ids : Tracked(id) => Sent(id, orders[id]) /\ intents[id] # 0

\* The broker's orders stay or are published with a later timestamp and no
\* fewer fills.
BrokerMoves ==
  /\ feed \subseteq feed'
  /\ \A u \in feed' : u \in feed \/ u.order = book'[u.id]
  /\ \A id \in Ids : \/ book'[id] = book[id]
                     \/ /\ book[id].at < book'[id].at /\ book[id].filled <= book'[id].filled
                        /\ book'[id].status # "absent" /\ Sent(id, book[id])'

LEMMA PublishMoves ==
  ASSUME NEW new \in [Ids -> Order], Publish(new),
         \A id \in Ids : \/ new[id] = book[id]
                         \/ /\ book[id].at < new[id].at /\ book[id].filled <= new[id].filled
                            /\ new[id].status # "absent"
  PROVE  BrokerMoves
  <1>1. PICK known \in Namings :
          feed' = feed \cup {[id |-> id, order |-> new[id], known |-> known] :
                               id \in {i \in Ids : new[i] # book[i]}}
    BY DEF Publish
  <1>2. book' = new
    BY DEF Publish
  <1>3. \A u \in feed' : u \in feed \/ u.order = book'[u.id]
    BY <1>1, <1>2
  <1>4. ASSUME NEW id \in Ids, new[id] # book[id] PROVE Sent(id, book[id])'
    <2> DEFINE u == [id |-> id, order |-> new[id], known |-> known]
    <2>1. u \in feed' /\ u.id = id /\ u.order = new[id]
      BY <1>1, <1>4
    <2> HIDE DEF u
    <2>2. QED
      BY <1>2, <2>1 DEF Sent
  <1>5. QED
    BY <1>1, <1>2, <1>3, <1>4 DEF BrokerMoves

LEMMA StampMoves ==
  ASSUME TiedClock = FALSE, NEW order \in Order, NEW status \in Statuses \ {"absent"},
         NEW tick \in Ticks
  PROVE  LET next == Restamped(order, status, tick)
         IN  /\ next \in Order /\ order.at < next.at /\ order.filled <= next.filled
             /\ next.status # "absent"
  <1>1. tick = 1 /\ order.at \in Nat /\ order.filled \in Nat
    BY SupervisorAssumption DEF Ticks, Order
  <1>2. Restamped(order, status, tick) \in Order
    BY <1>1, RestampFacts
  <1>s. Restamped(order, status, tick).status = status
    BY <1>1, RestampFacts
  <1>3. /\ Restamped(order, status, tick).at = order.at + 1
        /\ Restamped(order, status, tick).filled = order.filled
    BY <1>1 DEF Restamped, Order
  <1>4. QED
    BY <1>1, <1>2, <1>3, <1>s

LEMMA CancelMoves ==
  ASSUME TiedClock = FALSE, TypeOK, CancelAllOrders
  PROVE  BrokerMoves
  <1>1. PICK done \in SUBSET OpenAtBroker, status \in {"pending_cancel", "canceled"}, tick \in Ticks :
          Publish([id \in Ids |->
            IF id \in done /\ book[id].status # status
              THEN Restamped(book[id], status, tick)
              ELSE book[id]])
    BY DEF CancelAllOrders
  <1> DEFINE new == [id \in Ids |->
            IF id \in done /\ book[id].status # status
              THEN Restamped(book[id], status, tick)
              ELSE book[id]]
  <1>2. ASSUME NEW id \in Ids
        PROVE  /\ new[id] \in Order
               /\ \/ new[id] = book[id]
                  \/ /\ book[id].at < new[id].at /\ book[id].filled <= new[id].filled
                     /\ new[id].status # "absent"
    <2>1. book[id] \in Order /\ status \in Statuses \ {"absent"}
      BY DEF TypeOK, Statuses, Open
    <2>2. new[id] = book[id] \/ new[id] = Restamped(book[id], status, tick)
      OBVIOUS
    <2> HIDE DEF new
    <2>3. QED
      BY <2>1, <2>2, StampMoves
  <1>3. new \in [Ids -> Order] /\ Publish(new)
    BY <1>1, <1>2
  <1> HIDE DEF new
  <1>4. QED
    BY <1>2, <1>3, PublishMoves

LEMMA FreezeMoves ==
  ASSUME TiedClock = FALSE, TypeOK, FreezeEffects
  PROVE  BrokerMoves
  <1>1. CASE started
    BY <1>1, CancelMoves DEF FreezeEffects
  <1>2. CASE ~started
    BY <1>2 DEF FreezeEffects, BrokerMoves
  <1>3. QED
    BY <1>1, <1>2

LEMMA BookMoves ==
  ASSUME TypeOK, NEW id \in Ids, NEW next \in Order, Publish([book EXCEPT ![id] = next]),
         book[id].at < next.at, book[id].filled <= next.filled, next.status # "absent"
  PROVE  BrokerMoves
  <1> DEFINE new == [book EXCEPT ![id] = next]
  <1>1. /\ new \in [Ids -> Order] /\ Publish(new) /\ new[id] = next
        /\ \A other \in Ids \ {id} : new[other] = book[other]
    BY DEF TypeOK
  <1> HIDE DEF new
  <1>2. QED
    BY <1>1, PublishMoves

LEMMA BrokerStepMoves ==
  ASSUME TiedClock = FALSE, TypeOK, StreamInv, Broker
  PROVE  BrokerMoves
  <1>1. ASSUME NEW id \in Ids, BrokerAccepts(id) PROVE BrokerMoves
    <2> DEFINE next == [status |-> "new", filled |-> 0, at |-> 1]
    <2>1. next \in Order /\ next.at = 1 /\ next.filled = 0 /\ next.status # "absent"
      BY AcceptFacts
    <2>2. Publish([book EXCEPT ![id] = next]) /\ book[id].at = 0 /\ book[id].filled = 0
      BY <1>1 DEF BrokerAccepts, StreamInv
    <2> HIDE DEF next
    <2>3. QED
      BY <2>1, <2>2, BookMoves
  <1>2. ASSUME NEW id \in Ids, BrokerRefuses(id) PROVE BrokerMoves
    BY <1>2 DEF BrokerRefuses, BrokerMoves
  <1>3. ASSUME NEW id \in Ids, BrokerFills(id) PROVE BrokerMoves
    <2> DEFINE next == [status |-> IF book[id].filled + 1 = Quantity THEN "filled" ELSE "partially_filled",
                        filled |-> book[id].filled + 1,
                        at     |-> book[id].at + 1]
    <2>1. Publish([book EXCEPT ![id] = next])
      BY <1>3 DEF BrokerFills, Ticks
    <2>2. book[id].filled \in 0..Quantity /\ book[id].at \in Nat /\ book[id].filled < Quantity
      BY <1>3 DEF TypeOK, Order, BrokerFills
    <2>3. next \in Order
      BY <2>2, SupervisorAssumption DEF Order, Statuses, Open
    <2>4. book[id].at < next.at /\ book[id].filled <= next.filled /\ next.status # "absent"
      BY <2>2, SupervisorAssumption
    <2> HIDE DEF next
    <2>5. QED
      BY <2>1, <2>3, <2>4, BookMoves
  <1>4. ASSUME NEW id \in Ids, BrokerCloses(id) PROVE BrokerMoves
    <2>1. PICK tick \in Ticks : Publish([book EXCEPT ![id] = Restamped(book[id], "canceled", tick)])
      BY <1>4 DEF BrokerCloses
    <2>2. PICK next : next = Restamped(book[id], "canceled", tick)
      OBVIOUS
    <2>3. book[id] \in Order /\ "canceled" \in Statuses \ {"absent"}
      BY DEF TypeOK, Statuses
    <2>4. /\ next \in Order /\ book[id].at < next.at /\ book[id].filled <= next.filled
          /\ next.status # "absent"
      BY <2>2, <2>3, StampMoves
    <2>5. QED
      BY <2>1, <2>2, <2>4, BookMoves
  <1>5. QED
    BY <1>1, <1>2, <1>3, <1>4 DEF Broker

\* A move of the broker keeps the order of what it has published.
LEMMA MovesKeepStream ==
  ASSUME TypeOK, TypeOK', StreamInv, BrokerMoves
  PROVE  StreamInv'
  <1>0. \A u \in feed' : u.id \in Ids
    BY DEF TypeOK, Update
  <1>n. /\ \A id \in Ids : /\ book[id].at \in Nat /\ book[id].filled \in Nat
                           /\ book'[id].at \in Nat /\ book'[id].filled \in Nat
        /\ \A u \in feed' : u.order.at \in Nat /\ u.order.filled \in Nat
    BY SupervisorAssumption DEF TypeOK, Order, Update
  <1>a. \A id \in Ids : book[id].at <= book'[id].at /\ book[id].filled <= book'[id].filled
    BY <1>n DEF BrokerMoves
  <1>1. ASSUME NEW u \in feed'
        PROVE  u.order.at <= book'[u.id].at /\ u.order.filled <= book'[u.id].filled
    <2>1. CASE u \in feed
      <3>1. u.order.at <= book[u.id].at /\ u.order.filled <= book[u.id].filled
        BY <2>1 DEF StreamInv
      <3>2. QED
        BY <1>0, <1>n, <1>a, <3>1
    <2>2. CASE u.order = book'[u.id]
      BY <1>0, <1>n, <2>2
    <2>3. QED
      BY <2>1, <2>2 DEF BrokerMoves
  <1>2. ASSUME NEW u \in feed', NEW v \in feed', u.id = v.id, u.order.at <= v.order.at
        PROVE  u.order.filled <= v.order.filled
    <2>1. CASE u \in feed /\ v \in feed
      BY <1>2, <2>1 DEF StreamInv
    <2>2. CASE v.order = book'[v.id]
      BY <1>1, <1>2, <2>2
    <2>3. CASE v \in feed /\ u.order = book'[u.id]
      <3>1. v.order.at <= book[v.id].at
        BY <2>3 DEF StreamInv
      <3>2. book'[u.id].at <= book[u.id].at
        BY <1>0, <1>n, <1>2, <2>3, <3>1
      <3>3. book'[u.id] = book[u.id]
        BY <1>0, <1>n, <3>2 DEF BrokerMoves
      <3>4. QED
        <4>1. CASE u \in feed
          BY <2>1, <2>3, <4>1
        <4>2. CASE book[u.id].status = "absent"
          <5>1. u.order.filled = 0
            BY <1>0, <2>3, <3>3, <4>2 DEF StreamInv
          <5>2. QED
            BY <1>n, <5>1
        <4>3. CASE book[u.id].status # "absent"
          <5>1. PICK w \in feed : w.id = u.id /\ w.order = book[u.id]
            BY <1>0, <4>3 DEF StreamInv, Sent
          <5>2. w.order.at <= v.order.at /\ w.id = v.id
            BY <1>2, <2>3, <3>3, <5>1
          <5>3. w.order.filled <= v.order.filled
            BY <2>3, <5>1, <5>2 DEF StreamInv
          <5>4. QED
            BY <2>3, <3>3, <5>1, <5>3
        <4>4. QED
          BY <4>2, <4>3
    <2>4. QED
      BY <2>1, <2>2, <2>3 DEF BrokerMoves
  <1>3. ASSUME NEW id \in Ids
        PROVE  IF book'[id].status = "absent"
                 THEN book'[id].at = 0 /\ book'[id].filled = 0
                 ELSE Sent(id, book[id])'
    <2>1. CASE book'[id] = book[id]
      BY <2>1 DEF StreamInv, BrokerMoves, Sent
    <2>2. CASE book'[id] # book[id]
      <3>1. Sent(id, book[id])' /\ book'[id].status # "absent"
        BY <2>2 DEF BrokerMoves
      <3>2. QED
        BY <3>1
    <2>3. QED
      BY <2>1, <2>2
  <1>4. QED
    BY <1>1, <1>2, <1>3 DEF StreamInv

\* Whatever a step does at the broker, it does by publishing.
LEMMA StepMoves ==
  ASSUME TiedClock = FALSE, TypeOK, StreamInv, [Next]_vars
  PROVE  BrokerMoves
  <1> USE DEF process, durable, broker
  <1>s. ASSUME UNCHANGED <<book, feed>> PROVE BrokerMoves
    BY <1>s DEF BrokerMoves
  <1>1. CASE Submit
    <2>1. ASSUME NEW id \in Ids, RecordIntent(id) PROVE BrokerMoves
      BY <1>s, <2>1 DEF RecordIntent
    <2>2. CASE RiskAllows \/ Post \/ BrokerAnswers \/ ReplyLost \/ Persist
      BY <1>s, <2>2 DEF RiskAllows, Post, BrokerAnswers, ReplyLost, Persist
    <2>3. CASE RiskRejects \/ PersistFails
      BY <1>s, <2>3 DEF RiskRejects, PersistFails, EndRaised
    <2>4. CASE RiskContextMissing \/ SubmissionFails \/ LookupFails
      BY <2>4, FreezeMoves DEF RiskContextMissing, SubmissionFails, LookupFails, EndFrozen
    <2>5. QED
      BY <1>1, <2>1, <2>2, <2>3, <2>4 DEF Submit
  <1>2. CASE Supervise
    <2>1. CASE Start \/ Reconcile \/ ListOrders \/ Shutdown \/ Restart \/ OperatorFreeze
      BY <1>s, <2>1 DEF Start, Reconcile, ListOrders, Shutdown, Restart, OperatorFreeze
    <2>2. CASE ListingFails
      BY <1>s, <2>2 DEF ListingFails, EndRaised
    <2>3. CASE Compare
      BY <1>s, <2>3, FreezeMoves DEF Compare
    <2>4. ASSUME NEW u \in feed, ConsumeUpdate(u) PROVE BrokerMoves
      BY <1>s, <2>4, FreezeMoves DEF ConsumeUpdate
    <2>5. CASE OperatorCancels
      BY <2>5, CancelMoves DEF OperatorCancels
    <2>6. QED
      BY <1>2, <2>1, <2>2, <2>3, <2>4, <2>5 DEF Supervise
  <1>3. CASE Broker
    BY <1>3, BrokerStepMoves
  <1>4. CASE UNCHANGED vars
    BY <1>s, <1>4 DEF vars
  <1>5. QED
    BY <1>1, <1>2, <1>3, <1>4 DEF Next

LEMMA ViewStep ==
  ASSUME TypeOK, StreamInv, ViewInv, BrokerMoves, [Next]_vars
  PROVE  ViewInv'
  <1> USE DEF process, durable, broker
  <1>sent. \A id, order : Sent(id, order) => \E u \in feed' : u.id = id /\ u.order = order
    BY DEF Sent, BrokerMoves
  <1>view. /\ pc = "persist" => Sent(current, reply)
           /\ pc \in Submitting => ~Tracked(current) /\ intents[current] # 0
           /\ \A id \in Ids : Tracked(id) => Sent(id, orders[id]) /\ intents[id] # 0
    BY DEF ViewInv
  <1>kept. ASSUME NEW id \in Ids, orders'[id] = orders[id],
                  intents[id] # 0 => intents'[id] # 0, Tracked(id)'
           PROVE  Sent(id, orders[id])' /\ intents'[id] # 0
    <2>1. Tracked(id)
      BY <1>kept DEF Tracked
    <2>2. Sent(id, orders[id]) /\ intents[id] # 0
      BY <1>view, <2>1
    <2>3. \E u \in feed' : u.id = id /\ u.order = orders[id]
      BY <1>sent, <2>2
    <2>4. QED
      BY <1>kept, <2>2, <2>3 DEF Sent
  \* The projection stays; the call ends, or goes on with the same order.
  <1>stay. ASSUME UNCHANGED <<orders, intents>>,
                  \/ pc' \notin Submitting
                  \/ current' = current /\ pc \in Submitting /\ pc' # "persist"
                  \/ UNCHANGED <<pc, current, reply>>
           PROVE  ViewInv'
    <2>1. pc' = "persist" => Sent(current, reply)'
      BY <1>sent, <1>view, <1>stay DEF Sent, Submitting
    <2>2. pc' \in Submitting => ~Tracked(current)' /\ intents'[current'] # 0
      BY <1>view, <1>stay DEF Tracked
    <2>3. \A id \in Ids : Tracked(id)' => Sent(id, orders[id])' /\ intents'[id] # 0
      BY <1>sent, <1>view, <1>stay DEF Sent, Tracked
    <2>4. QED
      BY <2>1, <2>2, <2>3 DEF ViewInv
  <1>1. CASE Submit
    <2>1. ASSUME NEW id \in Ids, RecordIntent(id) PROVE ViewInv'
      <3>1. /\ intents[id] = 0 /\ intents' = [intents EXCEPT ![id] = session] /\ current' = id
            /\ orders' = orders /\ pc' \in {"risk", "post"} /\ session # 0
        BY <2>1, SupervisorAssumption DEF RecordIntent, Unrecorded, AfterIntent, TypeOK
      <3>2. ~Tracked(id) /\ \A other \in Ids : intents[other] # 0 => intents'[other] # 0
        BY <1>view, <3>1 DEF TypeOK
      <3>3. intents'[id] # 0
        BY <3>1 DEF TypeOK
      <3>4. \A other \in Ids : Tracked(other)' => Sent(other, orders[other])' /\ intents'[other] # 0
        BY <1>kept, <3>1, <3>2
      <3>5. QED
        BY <3>1, <3>2, <3>3, <3>4 DEF ViewInv, Tracked
    <2>2. CASE RiskAllows \/ Post \/ ReplyLost
      BY <1>stay, <2>2 DEF RiskAllows, Post, ReplyLost, Submitting
    <2>3. CASE RiskRejects \/ PersistFails
      BY <1>stay, <2>3 DEF RiskRejects, PersistFails, EndRaised, CallEnds, Submitting
    <2>4. CASE RiskContextMissing \/ SubmissionFails \/ LookupFails
      BY <1>stay, <2>4 DEF RiskContextMissing, SubmissionFails, LookupFails, EndFrozen, CallEnds,
                           Submitting
    <2>5. CASE BrokerAnswers
      <3>1. /\ pc \in Submitting /\ UNCHANGED <<orders, intents, current, feed>>
            /\ reply' = book[current] /\ current \in Ids
            /\ book[current].status # "absent"
        BY <2>5 DEF BrokerAnswers, Submitting, TypeOK
      <3>2. Sent(current, reply)'
        BY <3>1 DEF StreamInv, Sent
      <3>3. \A id \in Ids : Tracked(id)' => Sent(id, orders[id])' /\ intents'[id] # 0
        BY <1>sent, <1>view, <3>1 DEF Sent, Tracked
      <3>4. QED
        BY <1>view, <3>1, <3>2, <3>3 DEF ViewInv, Tracked
    <2>6. CASE Persist
      <3>1. /\ pc = "persist" /\ orders' = [orders EXCEPT ![current] = reply] /\ current \in Ids
            /\ intents' = intents /\ pc' = "idle" /\ pc \in Submitting
        BY <2>6 DEF Persist, CallEnds, Submitting, TypeOK
      <3>2. ASSUME NEW id \in Ids, Tracked(id)' PROVE Sent(id, orders[id])' /\ intents'[id] # 0
        <4>1. CASE id = current
          <5>1. orders'[id] = reply /\ Sent(id, reply) /\ intents[id] # 0
            BY <1>view, <3>1, <4>1 DEF TypeOK
          <5>2. QED
            BY <1>sent, <3>1, <5>1 DEF Sent
        <4>2. CASE id # current
          <5>1. orders'[id] = orders[id]
            BY <3>1, <4>2 DEF TypeOK
          <5>2. QED
            BY <1>kept, <3>1, <3>2, <5>1
        <4>3. QED
          BY <4>1, <4>2
      <3>3. QED
        BY <3>1, <3>2 DEF ViewInv, Submitting
    <2>7. QED
      BY <1>1, <2>1, <2>2, <2>3, <2>4, <2>5, <2>6 DEF Submit
  <1>2. CASE Supervise
    <2>1. CASE Start \/ Reconcile \/ ListOrders
      BY <1>stay, <2>1 DEF Start, Reconcile, ListOrders, Submitting
    <2>2. CASE Shutdown \/ OperatorFreeze \/ OperatorCancels
      BY <1>stay, <2>2 DEF Shutdown, OperatorFreeze, OperatorCancels
    <2>3. CASE ListingFails \/ Compare
      BY <1>stay, <2>3 DEF ListingFails, Compare, EndRaised, CallEnds, Submitting
    <2>4. ASSUME NEW u \in feed, ConsumeUpdate(u) PROVE ViewInv'
      <3>1. pc = "idle" /\ pc' = pc /\ intents' = intents /\ (Project(u) \/ orders' = orders)
        BY <2>4 DEF ConsumeUpdate
      <3>2. u.id \in Ids /\ u \in feed'
        BY <2>4 DEF TypeOK, Update, BrokerMoves
      <3>3. CASE orders' = orders
        BY <1>stay, <3>1, <3>3 DEF Submitting
      <3>4. CASE Tracked(u.id) /\ orders' = [orders EXCEPT ![u.id] = u.order]
        <4>1. ASSUME NEW id \in Ids, Tracked(id)' PROVE Sent(id, orders[id])' /\ intents'[id] # 0
          <5>1. CASE id = u.id
            <6>1. orders'[id] = u.order /\ intents[id] # 0
              BY <1>view, <3>4, <5>1 DEF TypeOK
            <6>2. QED
              BY <3>1, <3>2, <5>1, <6>1 DEF Sent
          <5>2. CASE id # u.id
            <6>1. orders'[id] = orders[id]
              BY <3>2, <3>4, <5>2 DEF TypeOK
            <6>2. QED
              BY <1>kept, <3>1, <4>1, <6>1
          <5>3. QED
            BY <5>1, <5>2
        <4>2. QED
          BY <3>1, <4>1 DEF ViewInv, Submitting
      <3>5. QED
        BY <3>1, <3>3, <3>4 DEF Project
    <2>5. CASE Restart
      <3>1. pc' = "idle" /\ \A id \in Ids : ~Tracked(id)'
        BY <2>5 DEF Restart, CallEnds, Tracked, Absent
      <3>2. QED
        BY <3>1 DEF ViewInv, Submitting
    <2>6. QED
      BY <1>2, <2>1, <2>2, <2>3, <2>4, <2>5 DEF Supervise
  <1>3. CASE Broker
    <2>1. UNCHANGED process /\ UNCHANGED durable
      BY <1>3 DEF Broker, BrokerAccepts, BrokerRefuses, BrokerFills, BrokerCloses
    <2>2. QED
      BY <1>stay, <2>1
  <1>4. CASE UNCHANGED vars
    BY <1>stay, <1>4 DEF vars
  <1>5. QED
    BY <1>1, <1>2, <1>3, <1>4 DEF Next

\* The projection moves only to what the broker has published since.
LEMMA ProjectionRises ==
  ASSUME TypeOK, StreamInv, ViewInv, [Next]_vars, session' = session,
         NEW id \in Ids, Tracked(id)
  PROVE  orders'[id].filled >= orders[id].filled
  <1> USE DEF process, durable, broker
  <1>1. orders[id].filled \in Nat /\ Sent(id, orders[id])
    BY SupervisorAssumption DEF TypeOK, Order, ViewInv
  <1>2. CASE orders'[id] = orders[id]
    BY <1>1, <1>2
  <1>3. CASE Persist
    <2>1. id # current /\ orders' = [orders EXCEPT ![current] = reply]
      BY <1>3 DEF Persist, ViewInv, Submitting
    <2>2. QED
      BY <1>2, <2>1 DEF TypeOK
  <1>4. ASSUME NEW u \in feed, ConsumeUpdate(u) PROVE orders'[id].filled >= orders[id].filled
    <2>1. orders'[id] = orders[id]
            \/ (id = u.id /\ u.order.at >= orders[id].at /\ orders'[id] = u.order)
      BY <1>4 DEF ConsumeUpdate, Project, TypeOK
    <2>2. CASE id = u.id /\ u.order.at >= orders[id].at /\ orders'[id] = u.order
      <3>1. PICK w \in feed : w.id = id /\ w.order = orders[id]
        BY <1>1 DEF Sent
      <3>2. w.order.at \in Nat /\ u.order.at \in Nat /\ u.order.filled \in Nat
        BY SupervisorAssumption DEF TypeOK, Update, Order
      <3>3. w.order.filled <= u.order.filled
        BY <2>2, <3>1, <3>2 DEF StreamInv
      <3>4. QED
        BY <1>1, <2>2, <3>1, <3>2, <3>3
    <2>3. QED
      BY <1>2, <2>1, <2>2
  <1>5. ~Restart
    BY DEF Restart, TypeOK
  <1>6. ASSUME ~Persist, \A u \in feed : ~ConsumeUpdate(u) PROVE orders' = orders
    <2>1. CASE Submit
      BY <1>6, <2>1 DEF Submit, RecordIntent, RiskAllows, RiskRejects, RiskContextMissing, Post,
                  BrokerAnswers, ReplyLost, SubmissionFails, LookupFails, PersistFails,
                  EndFrozen, EndRaised
    <2>2. CASE Supervise
      BY <1>5, <1>6, <2>2 DEF Supervise, Start, Reconcile, ListOrders, ListingFails, Compare,
                  Shutdown, OperatorFreeze, OperatorCancels, EndRaised
    <2>3. CASE Broker
      BY <2>3 DEF Broker, BrokerAccepts, BrokerRefuses, BrokerFills, BrokerCloses
    <2>4. QED
      BY <2>1, <2>2, <2>3 DEF Next, vars
  <1>7. QED
    BY <1>2, <1>3, <1>4, <1>6

\* Updates that arrive late, twice or in another order never take back a fill
\* the projection has reported, over freezes, cancellations and lost replies,
\* as long as the broker's clock tells the changes of an order apart.
THEOREM FillsStay ==
  ASSUME TiedClock = FALSE
  PROVE  Spec => FillsNeverUnhappen
  <1>1. Init => StreamInv /\ ViewInv
    BY DEF Init, StreamInv, ViewInv, Submitting, Tracked, Absent
  <1>2. TypeOK /\ TypeOK' /\ StreamInv /\ ViewInv /\ [Next]_vars => StreamInv' /\ ViewInv'
    BY StepMoves, MovesKeepStream, ViewStep
  <1>3. TypeOK /\ StreamInv /\ ViewInv /\ [Next]_vars =>
          [session' = session =>
             \A id \in Ids : Tracked(id) => orders'[id].filled >= orders[id].filled]_vars
    BY ProjectionRises
  <1>4. QED
    BY <1>1, <1>2, <1>3, TypeCorrect, PTL DEF Spec, FillsNeverUnhappen

-----------------------------------------------------------------------------
(* The search for rules.                                                   *)

\* The rows of a ledger before its i-th.
Before(rows, i) == [k \in 1..(i - 1) |-> rows[k]]

\* Every row is what the search chooses after those before it.
Replays(r) ==
  \A i \in DOMAIN ledger[r] :
    ledger[r][i] = NextTrial(r.data, r.seed, Before(ledger[r], i), ledger[r][i].started)

OneContract(r) == \A i, j \in DOMAIN ledger[r] : ledger[r][i].started = ledger[r][j].started

\* The runs that were begun, one call each.
Begun == {r \in Run : ledger[r] # <<>> \/ (Searching /\ r = call.run)}

FoundOK(f) ==
  /\ f.trials = f.run.budget /\ Len(ledger[f.run]) = f.run.budget
  /\ f.rule \in Winner(f.run.data, ledger[f.run])
  /\ \A i \in DOMAIN ledger[f.run] : ledger[f.run][i].started = f.started

SearchInv ==
  /\ SearchTypeOK
  /\ IsFiniteSet(Begun) /\ Cardinality(Begun) <= learns
  /\ \A r \in Run : Len(ledger[r]) <= r.budget /\ OneContract(r) /\ Replays(r)
  /\ Searching => /\ call.run \in Run /\ call.trials = ledger[call.run]
                  /\ \A i \in DOMAIN call.trials : call.trials[i].started = call.started
  /\ \A f \in discovered : FoundOK(f)

-----------------------------------------------------------------------------
(* What the search tries.                                                  *)

LEMMA SeedRules ==
  ASSUME NEW s \in Seeds
  PROVE  /\ Len(Initial[s]) \in Nat /\ Last(Initial[s]) \in Rules
         /\ \A i \in 1..Len(Initial[s]) : Initial[s][i] \in Rules
  <1>1. Initial[s] \in Seq(Rules) /\ Initial[s] # <<>>
    BY SearchAssumption
  <1>2. Len(Initial[s]) \in Nat /\ Len(Initial[s]) # 0
    BY <1>1, EmptySeq, LenProperties
  <1>3. \A i \in 1..Len(Initial[s]) : Initial[s][i] \in Rules
    BY <1>1, ElementOfSeq
  <1>4. Len(Initial[s]) \in 1..Len(Initial[s])
    BY <1>2
  <1> QED BY <1>2, <1>3, <1>4 DEF Last

LEMMA NextRuleIsRule ==
  ASSUME NEW d, NEW s \in Seeds, NEW trials, Len(trials) \in Nat
  PROVE  NextRule(d, s, trials) \subseteq Rules
  <1>1. CASE Len(trials) < Warmup /\ Len(trials) < Len(Initial[s])
    <2>1. Len(trials) + 1 \in 1..Len(Initial[s])
      BY <1>1, SeedRules
    <2> QED BY <1>1, <2>1, SeedRules DEF NextRule
  <1>2. CASE ~(Len(trials) < Warmup /\ Len(trials) < Len(Initial[s]))
    <2> DEFINE all == Variants(d, s, Len(trials), Succeeded(trials))
               new == Untried(all, Tried(trials))
    <2>1. NextRule(d, s, trials) = {all[i] : i \in {j \in new : \A k \in new : j <= k}}
      BY <1>2 DEF NextRule
    <2>2. \A i \in new : all[i] \in Rules
      BY DEF Untried, InDomain
    <2> HIDE DEF all, new
    <2> QED BY <2>1, <2>2
  <1> QED BY <1>1, <1>2

LEMMA NextTrialFacts ==
  ASSUME NEW d, NEW s \in Seeds, NEW trials, Len(trials) \in Nat, NEW at \in 0..MaxTime
  PROVE  NextTrial(d, s, trials, at) \in Trial /\ NextTrial(d, s, trials, at).started = at
  <1> DEFINE next == NextRule(d, s, trials)
             rule == IF next = {} THEN Last(Initial[s]) ELSE CHOOSE r \in next : TRUE
             status == IF next = {} THEN "budget_stop"
                       ELSE IF InDomain(rule) THEN Evaluation(rule) ELSE "invalid"
  <1>1. NextTrial(d, s, trials, at) = [rule |-> rule, started |-> at, status |-> status]
    BY DEF NextTrial
  <1>2. rule \in Rules
    <2>1. next \subseteq Rules
      BY NextRuleIsRule
    <2> HIDE DEF next
    <2> QED BY <2>1, SeedRules
  <1>3. status \in {"succeeded", "failed", "invalid", "budget_stop"}
    BY DEF Evaluation
  <1> HIDE DEF rule, status
  <1> QED BY <1>1, <1>2, <1>3 DEF Trial

\* What is tried next depends on the rules tried and what became of them, not on when.
LEMMA SameSearch ==
  ASSUME NEW d, NEW s, NEW t, NEW u, Len(t) = Len(u), DOMAIN t = DOMAIN u,
         \A i \in DOMAIN t : t[i].rule = u[i].rule /\ t[i].status = u[i].status,
         NEW a, NEW b
  PROVE  /\ NextTrial(d, s, t, a).rule = NextTrial(d, s, u, b).rule
         /\ NextTrial(d, s, t, a).status = NextTrial(d, s, u, b).status
  <1>1. Tried(t) = Tried(u) /\ Succeeded(t) = Succeeded(u)
    BY DEF Tried, Succeeded
  <1>2. NextRule(d, s, t) = NextRule(d, s, u)
    BY <1>1 DEF NextRule
  <1> PICK next : next = NextRule(d, s, t)
    OBVIOUS
  <1> PICK rule : rule = IF next = {} THEN Last(Initial[s]) ELSE CHOOSE r \in next : TRUE
    OBVIOUS
  <1> PICK status : status = IF next = {} THEN "budget_stop"
                             ELSE IF InDomain(rule) THEN Evaluation(rule) ELSE "invalid"
    OBVIOUS
  <1>3. NextTrial(d, s, t, a) = [rule |-> rule, started |-> a, status |-> status]
    BY DEF NextTrial
  <1>4. NextTrial(d, s, u, b) = [rule |-> rule, started |-> b, status |-> status]
    BY <1>2 DEF NextTrial
  <1> QED BY ONLY <1>3, <1>4

\* Of the rules that succeeded one is better than all others.
LEMMA WinnerFacts ==
  ASSUME NEW d \in 1..DataSets, NEW trials, \A i \in DOMAIN trials : trials[i] \in Trial
  PROVE  /\ Winner(d, trials) \subseteq Succeeded(trials) /\ Succeeded(trials) \subseteq Rules
         /\ \A a, b \in Winner(d, trials) : a = b
         /\ \A a \in Winner(d, trials), r \in Succeeded(trials) : Score(d, r) <= Score(d, a)
  <1>1. Succeeded(trials) \subseteq Rules
    BY DEF Succeeded, Trial
  <1>2. \A r \in Rules : Score(d, r) \in Int /\ r \in Int
    <2>1. Rules \subseteq Nat /\ Fitness \in [1..DataSets -> [Rules -> Int]]
      BY SearchAssumption
    <2>2. Fitness[d] \in [Rules -> Int]
      BY <2>1
    <2> QED BY <2>1, <2>2 DEF Score
  <1>3. ASSUME NEW a \in Winner(d, trials), NEW b \in Winner(d, trials) PROVE a = b
    <2>1. a \in Rules /\ b \in Rules
      BY <1>1 DEF Winner
    <2>2. (b = a \/ Better(d, a, b)) /\ (a = b \/ Better(d, b, a))
      BY DEF Winner
    <2> QED BY <1>2, <2>1, <2>2 DEF Better
  <1>4. ASSUME NEW a \in Winner(d, trials), NEW r \in Succeeded(trials) PROVE Score(d, r) <= Score(d, a)
    <2>1. a \in Rules /\ r \in Rules
      BY <1>1 DEF Winner
    <2>2. r = a \/ Better(d, a, r)
      BY DEF Winner
    <2> QED BY <1>2, <2>1, <2>2 DEF Better
  <1> QED BY <1>1, <1>3, <1>4 DEF Winner

-----------------------------------------------------------------------------
(* The invariant of the searches.                                          *)

LEMMA RunFacts ==
  ASSUME NEW r \in Run
  PROVE  /\ r.data \in 1..DataSets /\ r.seed \in Seeds /\ r.budget \in Budgets
         /\ r.budget \in Nat /\ r.budget > 0
  <1>1. r.data \in 1..DataSets /\ r.seed \in Seeds /\ r.budget \in Budgets
    BY DEF Run
  <1>2. r.budget \in Nat \ {0}
    BY <1>1, SearchAssumption
  <1> QED BY <1>1, <1>2

LEMMA RowAppended ==
  ASSUME NEW rows \in Seq(Trial), NEW x \in Trial
  PROVE  /\ Append(rows, x) \in Seq(Trial) /\ Len(rows) \in Nat
         /\ Len(Append(rows, x)) = Len(rows) + 1
         /\ DOMAIN rows = 1..Len(rows) /\ DOMAIN Append(rows, x) = 1..(Len(rows) + 1)
         /\ \A i \in 1..Len(rows) : Append(rows, x)[i] = rows[i]
         /\ Append(rows, x)[Len(rows) + 1] = x
         /\ \A i \in 1..Len(rows) : Before(Append(rows, x), i) = Before(rows, i)
         /\ Before(Append(rows, x), Len(rows) + 1) = rows
  <1>1. /\ Append(rows, x) \in Seq(Trial) /\ Len(rows) \in Nat
        /\ Len(Append(rows, x)) = Len(rows) + 1
        /\ DOMAIN rows = 1..Len(rows) /\ DOMAIN Append(rows, x) = 1..(Len(rows) + 1)
        /\ \A i \in 1..Len(rows) : Append(rows, x)[i] = rows[i]
        /\ Append(rows, x)[Len(rows) + 1] = x
    BY AppendProperties, LenProperties
  <1>2. ASSUME NEW i \in 1..Len(rows) PROVE Before(Append(rows, x), i) = Before(rows, i)
    <2>1. \A k \in 1..(i - 1) : k \in 1..Len(rows)
      BY <1>1
    <2> QED BY <1>1, <2>1 DEF Before
  <1>3. Before(Append(rows, x), Len(rows) + 1) = rows
    <2>1. 1..((Len(rows) + 1) - 1) = 1..Len(rows)
      BY <1>1
    <2>2. Before(Append(rows, x), Len(rows) + 1) = [k \in 1..Len(rows) |-> Append(rows, x)[k]]
      BY <2>1 DEF Before
    <2>3. rows = [k \in 1..Len(rows) |-> rows[k]]
      BY <1>1
    <2>4. [k \in 1..Len(rows) |-> Append(rows, x)[k]] = [k \in 1..Len(rows) |-> rows[k]]
      BY <1>1
    <2> QED BY <2>2, <2>3, <2>4
  <1> QED BY <1>1, <1>2, <1>3

LEMMA NothingSearched ==
  SearchInit => SearchInv
  <1> SUFFICES ASSUME SearchInit PROVE SearchInv
    OBVIOUS
  <1>1. \A r \in Run : ledger[r] = <<>> /\ Len(ledger[r]) = 0 /\ DOMAIN ledger[r] = {}
    BY EmptySeq DEF SearchInit
  <1>2. SearchTypeOK
    <2>1. 0 \in 0..MaxTime /\ 1 \in 1..DataSets /\ 0 \in 0..MaxLearns
      BY SearchAssumption
    <2>2. ledger \in [Run -> Seq(Trial)]
      BY EmptySeq DEF SearchInit
    <2> QED BY <2>1, <2>2, EmptySeq DEF SearchInit, SearchTypeOK, Ended
  <1>3. ~Searching
    BY DEF SearchInit, Searching, Ended
  <1>4. Begun = {}
    BY <1>1, <1>3 DEF Begun
  <1>5. IsFiniteSet(Begun) /\ Cardinality(Begun) <= learns
    <2>1. learns = 0
      BY DEF SearchInit
    <2> QED BY <1>4, <2>1, FS_EmptySet
  <1>6. \A r \in Run : Len(ledger[r]) <= r.budget /\ OneContract(r) /\ Replays(r)
    BY <1>1, RunFacts DEF OneContract, Replays
  <1>7. \A f \in discovered : FoundOK(f)
    BY DEF SearchInit
  <1> QED BY <1>2, <1>3, <1>5, <1>6, <1>7 DEF SearchInv

\* A call's run is begun with it at the latest, and a refused or reused call begins none.
LEMMA LearnHolds ==
  ASSUME SearchInv, NEW seed \in Seeds, NEW budget \in Budgets, NEW force \in BOOLEAN,
         Learn(seed, budget, force)
  PROVE  SearchInv'
  <1> PICK run : run = RunId(seed, budget, force)
    OBVIOUS
  <1> USE DEF SearchInv
  <1>1. learns \in Nat /\ learns < MaxLearns /\ learns' = learns + 1 /\ ~Searching
    BY SearchAssumption DEF Learn, SearchTypeOK
  <1>2. run \in Run
    <2>1. Started(seed, budget) \subseteq Begun
      BY DEF Started, Begun
    <2>2. /\ IsFiniteSet(Started(seed, budget))
          /\ Cardinality(Started(seed, budget)) <= Cardinality(Begun)
      BY <2>1, FS_Subset
    <2>3. Cardinality(Started(seed, budget)) \in Nat /\ Cardinality(Begun) \in Nat
      BY <2>2, FS_CardinalityType
    <2>4. Cardinality(Started(seed, budget)) + 1 \in 0..MaxLearns /\ 0 \in 0..MaxLearns
      BY <1>1, <2>2, <2>3, SearchAssumption
    <2>5. data \in 1..DataSets
      BY DEF SearchTypeOK
    <2> PICK number : number = IF force THEN Cardinality(Started(seed, budget)) + 1 ELSE 0
      OBVIOUS
    <2>6. number \in 0..MaxLearns
      BY <2>4
    <2>7. run = [data |-> data, seed |-> seed, budget |-> budget, forced |-> number]
      BY DEF RunId
    <2> QED BY <2>5, <2>6, <2>7 DEF Run
  <1>3. UNCHANGED <<now, data, ledger, discovered>>
    BY DEF Learn
  <1>4. /\ ledger[run] \in Seq(Trial) /\ Resumed(run) = ledger[run]
        /\ DOMAIN ledger[run] = 1..Len(ledger[run])
    BY <1>2, LenProperties DEF SearchTypeOK, Resumed
  <1>5. \/ call' = Ended("reused")
        \/ call' = [Ended("refused") EXCEPT !.run = run]
        \/ /\ SameContract(run, now)
           /\ call' = [pc |-> "search", run |-> run, started |-> now, trials |-> Resumed(run)]
    BY DEF Learn
  <1>6. /\ call' \in [pc : {"idle", "search", "completed", "reused", "refused", "interrupted"},
                      run : Run \cup {NoRun}, started : 0..MaxTime, trials : Seq(Trial)]
        /\ Searching' => /\ call'.run = run /\ call'.trials = ledger[run] /\ call'.started = now
                         /\ SameContract(run, now)
    <2>1. now \in 0..MaxTime /\ 0 \in 0..MaxTime /\ <<>> \in Seq(Trial)
      BY SearchAssumption, EmptySeq DEF SearchTypeOK
    <2>2. CASE call' = Ended("reused")
      BY <2>1, <2>2 DEF Ended, Searching
    <2>3. CASE call' = [Ended("refused") EXCEPT !.run = run]
      BY <1>2, <2>1, <2>3 DEF Ended, Searching
    <2>4. CASE /\ SameContract(run, now)
               /\ call' = [pc |-> "search", run |-> run, started |-> now, trials |-> Resumed(run)]
      BY <1>2, <1>4, <2>1, <2>4 DEF Searching
    <2> QED BY <1>5, <2>2, <2>3, <2>4
  <1>7. SearchTypeOK'
    <2>1. learns' \in 0..MaxLearns
      BY <1>1, SearchAssumption
    <2> QED BY <1>3, <1>6, <2>1 DEF SearchTypeOK
  <1>8. (IsFiniteSet(Begun) /\ Cardinality(Begun) <= learns)'
    <2>1. Begun' \subseteq Begun \cup {run}
      BY <1>3, <1>6 DEF Begun
    <2>2. /\ IsFiniteSet(Begun \cup {run}) /\ Cardinality(Begun) \in Nat
          /\ Cardinality(Begun \cup {run}) <= Cardinality(Begun) + 1
      <3>1. Cardinality(Begun) \in Nat
        BY FS_CardinalityType
      <3>2. /\ IsFiniteSet(Begun \cup {run})
            /\ \/ Cardinality(Begun \cup {run}) = Cardinality(Begun)
               \/ Cardinality(Begun \cup {run}) = Cardinality(Begun) + 1
        BY FS_AddElement
      <3> QED BY <3>1, <3>2
    <2>3. IsFiniteSet(Begun') /\ Cardinality(Begun') <= Cardinality(Begun \cup {run})
      BY <2>1, <2>2, FS_Subset
    <2>4. Cardinality(Begun') \in Nat /\ Cardinality(Begun \cup {run}) \in Nat
      BY <2>2, <2>3, FS_CardinalityType
    <2> QED BY <1>1, <2>2, <2>3, <2>4
  <1>9. (\A r \in Run : Len(ledger[r]) <= r.budget /\ OneContract(r) /\ Replays(r))'
    BY <1>3 DEF OneContract, Replays
  <1>10. (Searching => /\ call.run \in Run /\ call.trials = ledger[call.run]
                       /\ \A i \in DOMAIN call.trials : call.trials[i].started = call.started)'
    BY <1>2, <1>3, <1>6 DEF SameContract
  <1>11. (\A f \in discovered : FoundOK(f))'
    BY <1>3 DEF FoundOK
  <1> QED BY <1>7, <1>8, <1>9, <1>10, <1>11

\* A new row belongs to a run whose ledger no discovery rests on yet.
LEMMA TryHolds ==
  ASSUME SearchInv, Try
  PROVE  SearchInv'
  <1> USE DEF SearchInv
  <1> PICK run : run = call.run
    OBVIOUS
  <1> PICK rows : rows = ledger[run]
    OBVIOUS
  <1> PICK trial : trial = NextTrial(run.data, run.seed, rows, call.started)
    OBVIOUS
  <1>1. /\ run \in Run /\ call.trials = rows /\ rows \in Seq(Trial) /\ Len(rows) \in Nat
        /\ call.started \in 0..MaxTime /\ Searching
        /\ Len(rows) < run.budget
        /\ \A i \in DOMAIN rows : rows[i].started = call.started
    BY LenProperties DEF Try, SearchTypeOK
  <1>2. trial \in Trial /\ trial.started = call.started
    BY <1>1, RunFacts, NextTrialFacts
  <1>3. /\ call' = [call EXCEPT !.trials = Append(@, trial)]
        /\ ledger' = [ledger EXCEPT ![run] = Append(@, trial)]
        /\ UNCHANGED <<now, data, discovered, learns>>
    BY <1>1 DEF Try
  <1> PICK next : next = Append(rows, trial)
    OBVIOUS
  <1>4. /\ next \in Seq(Trial)
        /\ Len(next) = Len(rows) + 1 /\ DOMAIN rows = 1..Len(rows)
        /\ DOMAIN next = 1..(Len(rows) + 1)
        /\ \A i \in 1..Len(rows) : next[i] = rows[i]
        /\ next[Len(rows) + 1] = trial
        /\ \A i \in 1..Len(rows) : Before(next, i) = Before(rows, i)
        /\ Before(next, Len(rows) + 1) = rows
    BY <1>1, <1>2, RowAppended
  <1>5. /\ ledger' \in [Run -> Seq(Trial)] /\ ledger'[run] = next
        /\ \A r \in Run : r # run => ledger'[r] = ledger[r]
    BY <1>1, <1>3, <1>4 DEF SearchTypeOK
  <1>6. /\ call' \in [pc : {"idle", "search", "completed", "reused", "refused", "interrupted"},
                      run : Run \cup {NoRun}, started : 0..MaxTime, trials : Seq(Trial)]
        /\ call'.run = run /\ call'.trials = next /\ call'.started = call.started
        /\ call'.pc = call.pc
    BY <1>1, <1>3, <1>4 DEF SearchTypeOK
  <1>7. SearchTypeOK'
    BY <1>3, <1>5, <1>6 DEF SearchTypeOK
  <1>8. \A i \in DOMAIN next : i \in 1..Len(rows) \/ i = Len(rows) + 1
    BY <1>1, <1>4
  <1>9. \A i \in DOMAIN next : next[i].started = call.started
    BY <1>1, <1>2, <1>4, <1>8
  <1>10. (IsFiniteSet(Begun) /\ Cardinality(Begun) <= learns)'
    <2>1. \A r \in Run : r # run => (ledger'[r] # <<>> <=> ledger[r] # <<>>)
      BY <1>5
    <2>2. run \in Begun /\ run \in Begun'
      BY <1>1, <1>6 DEF Begun, Searching
    <2>3. Begun' = Begun
      BY <1>1, <1>6, <2>1, <2>2 DEF Begun, Searching
    <2> QED BY <1>3, <2>3
  <1>11. ASSUME NEW r \in Run PROVE (Len(ledger[r]) <= r.budget /\ OneContract(r) /\ Replays(r))'
    <2>1. CASE r # run
      <3>1. ledger'[r] = ledger[r]
        BY <1>5, <2>1
      <3> QED BY <3>1 DEF OneContract, Replays
    <2>2. CASE r = run
      <3>1. Len(next) <= run.budget
        BY <1>1, <1>4, RunFacts
      <3>2. OneContract(run)'
        BY <1>5, <1>9 DEF OneContract
      <3>3. ASSUME NEW i \in DOMAIN next
            PROVE  next[i] = NextTrial(run.data, run.seed, Before(next, i), next[i].started)
        <4>1. CASE i \in 1..Len(rows)
          <5>1. rows[i] = NextTrial(run.data, run.seed, Before(rows, i), rows[i].started)
            BY <1>1, <1>4, <4>1 DEF Replays
          <5> QED BY <1>4, <4>1, <5>1
        <4>2. CASE i = Len(rows) + 1
          BY <1>2, <1>4, <4>2
        <4> QED BY <1>8, <4>1, <4>2
      <3>4. Replays(run)'
        BY <1>5, <3>3 DEF Replays
      <3> QED BY <1>5, <2>2, <3>1, <3>2, <3>4
    <2> QED BY <2>1, <2>2
  <1>12. (Searching => /\ call.run \in Run /\ call.trials = ledger[call.run]
                       /\ \A i \in DOMAIN call.trials : call.trials[i].started = call.started)'
    BY <1>1, <1>5, <1>6, <1>9
  <1>13. ASSUME NEW f \in discovered' PROVE FoundOK(f)'
    <2>1. f \in discovered /\ FoundOK(f) /\ f.run \in Run
      BY <1>3, <1>13 DEF SearchTypeOK, Found
    <2>2. f.run # run
      BY <1>1, <2>1, RunFacts DEF FoundOK
    <2>3. ledger'[f.run] = ledger[f.run]
      BY <1>5, <2>1, <2>2
    <2> QED BY <2>1, <2>3 DEF FoundOK
  <1> QED BY <1>7, <1>10, <1>11, <1>12, <1>13

\* A call that ends leaves no more runs begun than there were.
LEMMA LessBegun ==
  ASSUME IsFiniteSet(Begun), Cardinality(Begun) <= learns, learns \in Nat, ~Searching',
         UNCHANGED <<ledger, learns>>
  PROVE  IsFiniteSet(Begun') /\ Cardinality(Begun') <= learns'
  <1>1. Begun' \subseteq Begun
    BY DEF Begun
  <1>2. IsFiniteSet(Begun') /\ Cardinality(Begun') <= Cardinality(Begun)
    BY <1>1, FS_Subset
  <1>3. Cardinality(Begun') \in Nat /\ Cardinality(Begun) \in Nat
    BY <1>2, FS_CardinalityType
  <1> QED BY <1>2, <1>3

\* What is discovered rests on the ledger that the call has just filled.
LEMMA DiscoverHolds ==
  ASSUME SearchInv, Discover
  PROVE  SearchInv'
  <1> USE DEF SearchInv
  <1> PICK run : run = call.run
    OBVIOUS
  <1>1. /\ run \in Run /\ call.trials = ledger[run] /\ ledger[run] \in Seq(Trial)
        /\ call.started \in 0..MaxTime /\ Len(call.trials) = run.budget /\ Searching
        /\ \A i \in DOMAIN call.trials : call.trials[i].started = call.started
    BY DEF Discover, SearchTypeOK
  <1>2. /\ discovered' = discovered \cup
             {[run |-> run, rule |-> best, started |-> call.started, trials |-> Len(call.trials)] :
                best \in Winner(run.data, call.trials)}
        /\ call' = Ended("completed")
        /\ UNCHANGED <<now, data, ledger, learns>>
    BY DEF Discover
  <1>3. /\ \A i \in DOMAIN call.trials : call.trials[i] \in Trial
        /\ run.data \in 1..DataSets /\ run.budget \in Budgets
    BY <1>1, RunFacts, ElementOfSeq, LenProperties
  <1>4. Winner(run.data, call.trials) \subseteq Rules
    BY <1>3, WinnerFacts
  <1>5. ASSUME NEW best \in Winner(run.data, call.trials), NEW f,
               f = [run |-> run, rule |-> best, started |-> call.started, trials |-> Len(call.trials)]
        PROVE  f \in Found /\ FoundOK(f)'
    <2>1. /\ f.run = run /\ f.rule = best /\ f.started = call.started /\ f.trials = Len(call.trials)
          /\ best \in Rules
      BY <1>4, <1>5
    <2>2. f \in Found
      BY <1>1, <1>3, <1>5, <2>1 DEF Found
    <2> QED BY <1>1, <1>2, <2>1, <2>2 DEF FoundOK
  <1>6. \A f \in discovered : FoundOK(f)'
    BY <1>2 DEF FoundOK
  <1>7. discovered' \subseteq Found /\ (\A f \in discovered : FoundOK(f))'
    BY <1>2, <1>5, <1>6 DEF SearchTypeOK
  <1>8. ~Searching' /\ call' \in
          [pc : {"idle", "search", "completed", "reused", "refused", "interrupted"},
           run : Run \cup {NoRun}, started : 0..MaxTime, trials : Seq(Trial)]
    BY <1>2, EmptySeq, SearchAssumption DEF Ended, Searching
  <1>9. SearchTypeOK'
    BY <1>2, <1>7, <1>8 DEF SearchTypeOK
  <1>10. (IsFiniteSet(Begun) /\ Cardinality(Begun) <= learns)'
    BY <1>2, <1>8, LessBegun, SearchAssumption DEF SearchTypeOK
  <1>11. (\A r \in Run : Len(ledger[r]) <= r.budget /\ OneContract(r) /\ Replays(r))'
    BY <1>2 DEF OneContract, Replays
  <1> QED BY <1>7, <1>8, <1>9, <1>10, <1>11

LEMMA InterruptHolds ==
  ASSUME SearchInv, Interrupt
  PROVE  SearchInv'
  <1> USE DEF SearchInv
  <1>1. call' = Ended("interrupted") /\ UNCHANGED <<now, data, ledger, discovered, learns>>
    BY DEF Interrupt
  <1>2. ~Searching' /\ call' \in
          [pc : {"idle", "search", "completed", "reused", "refused", "interrupted"},
           run : Run \cup {NoRun}, started : 0..MaxTime, trials : Seq(Trial)]
    BY <1>1, EmptySeq, SearchAssumption DEF Ended, Searching
  <1>3. SearchTypeOK'
    BY <1>1, <1>2 DEF SearchTypeOK
  <1>4. (IsFiniteSet(Begun) /\ Cardinality(Begun) <= learns)'
    BY <1>1, <1>2, LessBegun, SearchAssumption DEF SearchTypeOK
  <1> QED BY <1>1, <1>2, <1>3, <1>4 DEF OneContract, Replays, FoundOK

\* The clock and the data are no part of what the ledgers say.
LEMMA OutsideHolds ==
  ASSUME SearchInv, UNCHANGED <<ledger, discovered, call, learns>>,
         now' \in 0..MaxTime, data' \in 1..DataSets
  PROVE  SearchInv'
  <1> USE DEF SearchInv
  <1>1. SearchTypeOK'
    BY DEF SearchTypeOK
  <1>2. Begun' = Begun /\ Searching' = Searching
    BY DEF Begun, Searching
  <1> QED BY <1>1, <1>2 DEF OneContract, Replays, FoundOK

LEMMA SearchHolds ==
  SearchSpec => []SearchInv
  <1>1. SearchInit => SearchInv
    BY NothingSearched
  <1>2. ASSUME SearchInv, [SearchNext]_svars PROVE SearchInv'
    <2>1. ASSUME NEW seed \in Seeds, NEW budget \in Budgets, NEW force \in BOOLEAN,
                 Learn(seed, budget, force)
          PROVE  SearchInv'
      BY <1>2, <2>1, LearnHolds
    <2>2. CASE Try
      BY <1>2, <2>2, TryHolds
    <2>3. CASE Discover
      BY <1>2, <2>3, DiscoverHolds
    <2>4. CASE Interrupt
      BY <1>2, <2>4, InterruptHolds
    <2>5. now \in 0..MaxTime /\ data \in 1..DataSets
      BY <1>2 DEF SearchInv, SearchTypeOK
    <2>6. CASE NewData
      <3>1. data' \in 1..DataSets
        BY <2>5, <2>6, SearchAssumption DEF NewData
      <3> QED BY <1>2, <2>5, <2>6, <3>1, OutsideHolds DEF NewData
    <2>7. CASE Tick
      <3>1. now' \in 0..MaxTime
        BY <2>5, <2>7, SearchAssumption DEF Tick
      <3> QED BY <1>2, <2>5, <2>7, <3>1, OutsideHolds DEF Tick
    <2>8. CASE UNCHANGED svars
      BY <1>2, <2>5, <2>8, OutsideHolds DEF svars
    <2> QED BY <1>2, <2>1, <2>2, <2>3, <2>4, <2>6, <2>7, <2>8 DEF SearchNext
  <1> QED BY <1>1, <1>2, PTL DEF SearchSpec

\* Data, ledgers, discoveries and the call under the lock keep their types, the
\* number of a forced run among them.
THEOREM SearchTypeCorrect ==
  SearchSpec => []SearchTypeOK
  <1>1. SearchInv => SearchTypeOK
    BY DEF SearchInv
  <1> QED BY <1>1, SearchHolds, PTL

LEMMA FoundIsJustified ==
  SearchInv => DiscoveryIsJustified
  <1> SUFFICES ASSUME SearchInv, NEW f \in discovered
               PROVE  /\ f.trials = f.run.budget /\ Len(ledger[f.run]) = f.run.budget
                      /\ f.rule \in Succeeded(ledger[f.run])
                      /\ \A r \in Succeeded(ledger[f.run]) :
                           Score(f.run.data, r) <= Score(f.run.data, f.rule)
                      /\ \A g \in discovered : g.run = f.run => g = f
    BY DEF DiscoveryIsJustified
  <1> USE DEF SearchInv
  <1> PICK rows : rows = ledger[f.run]
    OBVIOUS
  <1>1. FoundOK(f) /\ f.run \in Run /\ f \in Found /\ rows \in Seq(Trial)
    BY DEF SearchTypeOK, Found
  <1>2. /\ \A i \in DOMAIN rows : rows[i] \in Trial
        /\ f.run.data \in 1..DataSets /\ f.run.budget \in Nat /\ f.run.budget > 0
    BY <1>1, RunFacts, ElementOfSeq, LenProperties
  <1>3. /\ Winner(f.run.data, rows) \subseteq Succeeded(rows)
        /\ \A a, b \in Winner(f.run.data, rows) : a = b
        /\ \A a \in Winner(f.run.data, rows), r \in Succeeded(rows) :
             Score(f.run.data, r) <= Score(f.run.data, a)
    BY <1>2, WinnerFacts
  <1>4. /\ f.trials = f.run.budget /\ Len(rows) = f.run.budget /\ f.rule \in Winner(f.run.data, rows)
        /\ \A i \in DOMAIN rows : rows[i].started = f.started
    BY <1>1 DEF FoundOK
  <1>5. 1 \in DOMAIN rows
    BY <1>1, <1>2, <1>4, LenProperties
  <1>6. ASSUME NEW g \in discovered, g.run = f.run PROVE g = f
    <2>1. FoundOK(g) /\ g \in Found
      BY DEF SearchTypeOK
    <2>2. /\ g.trials = f.run.budget /\ g.rule \in Winner(f.run.data, rows)
          /\ \A i \in DOMAIN rows : rows[i].started = g.started
      BY <1>6, <2>1 DEF FoundOK
    <2>3. g.rule = f.rule /\ g.trials = f.trials /\ g.started = f.started
      BY <1>3, <1>4, <1>5, <2>2
    <2> QED BY <1>1, <1>6, <2>1, <2>3 DEF Found
  <1> QED BY <1>3, <1>4, <1>6

\* What the searches discover is the best of the whole ledger of its run, however
\* often the run was interrupted, continued or refused, and a run discovers once.
THEOREM DiscoveryIsTheBest ==
  SearchSpec => []DiscoveryIsJustified
  BY SearchHolds, FoundIsJustified, PTL

-----------------------------------------------------------------------------
(* All searches of one seed on one data set make the same trials.          *)

LEMMA LeastExists ==
  ASSUME NEW S, S \subseteq Nat, S # {}
  PROVE  \E x \in S : \A y \in S : x <= y
  <1>1. PICK x \in S : \A y \in S : ~(<<y, x>> \in OpToRel(<, Nat))
    BY NatLessThanWellFounded, WFMin
  <1>2. ASSUME NEW y \in S PROVE x <= y
    <2>1. x \in Nat /\ y \in Nat
      OBVIOUS
    <2>2. ~(y < x)
      <3>1. <<y, x>> \in Nat \X Nat /\ <<y, x>>[1] = y /\ <<y, x>>[2] = x
        BY <2>1
      <3> QED BY <1>1, <3>1 DEF OpToRel
    <2> QED BY <2>1, <2>2
  <1> QED BY <1>2

LEMMA FiniteIsBounded ==
  ASSUME NEW S, IsFiniteSet(S), S \subseteq Nat
  PROVE  \E B \in Nat : \A b \in S : b <= B
  <1>1. PICK n \in Nat : ExistsBijection(1..n, S)
    BY FS_NatBijection
  <1>2. PICK f : f \in Bijection(1..n, S)
    BY <1>1 DEF ExistsBijection
  <1>3. f \in [1..n -> S] /\ \A b \in S : \E i \in 1..n : f[i] = b
    BY <1>2 DEF Bijection, Injection, Surjection
  <1>4. \A i \in 1..n : f[i] \in Nat
    BY <1>3
  <1> DEFINE Bounded(k) == \E B \in Nat : \A i \in 1..k : f[i] <= B
             Unbounded == {k \in 0..n : ~Bounded(k)}
  <1>5. Unbounded = {}
    <2> SUFFICES ASSUME Unbounded # {} PROVE FALSE
      OBVIOUS
    <2>1. PICK k \in Unbounded : \A j \in Unbounded : k <= j
      <3>1. Unbounded \subseteq Nat
        OBVIOUS
      <3> HIDE DEF Unbounded
      <3> QED BY <3>1, LeastExists
    <2>2. k \in 0..n /\ k \in Nat /\ ~Bounded(k)
      OBVIOUS
    <2>3. k # 0
      <3>1. 1..0 = {} /\ 0 \in Nat
        OBVIOUS
      <3>2. \A i \in 1..0 : f[i] <= 0
        BY <3>1
      <3>3. Bounded(0)
        BY <3>1, <3>2
      <3> QED BY <2>2, <3>3
    <2>4. k - 1 \in 0..n /\ ~(k <= k - 1) /\ k \in 1..n
      BY <2>2, <2>3
    <2>5. Bounded(k - 1)
      BY <2>1, <2>4
    <2>6. PICK B \in Nat : \A i \in 1..(k - 1) : f[i] <= B
      BY <2>5
    <2>7. f[k] \in Nat /\ \A i \in 1..(k - 1) : f[i] \in Nat
      <3>1. \A i \in 1..(k - 1) : i \in 1..n
        BY <1>1, <2>2
      <3> QED BY <1>4, <2>4, <3>1
    <2>8. \A i \in 1..k : i \in 1..(k - 1) \/ i = k
      BY <2>2
    <2> PICK x \in Nat : x = f[k]
      BY <2>7
    <2>9. ASSUME NEW i \in 1..k PROVE f[i] <= B + x
      <3>1. CASE i = k
        BY <3>1
      <3>2. CASE i \in 1..(k - 1)
        <4>1. f[i] \in Nat /\ f[i] <= B
          BY <2>6, <2>7, <3>2
        <4> QED BY <4>1
      <3> QED BY <2>8, <3>1, <3>2
    <2>10. Bounded(k)
      <3>1. B + x \in Nat
        OBVIOUS
      <3> QED BY <2>9, <3>1
    <2> QED BY <2>2, <2>10
  <1>6. PICK B \in Nat : \A i \in 1..n : f[i] <= B
    <2>1. n \in 0..n
      BY <1>1
    <2>2. Bounded(n)
      BY <1>5, <2>1
    <2> QED BY <2>2
  <1> QED BY <1>3, <1>6

LEMMA LongestIsMax ==
  ASSUME NEW S, S # {}, NEW B \in Nat, S \subseteq 0..B
  PROVE  Max(S) \in S /\ \A y \in S : y <= Max(S)
  <1> DEFINE T == {B - x : x \in S}
  <1>1. T \subseteq Nat /\ T # {}
    <2>1. \A x \in S : B - x \in Nat
      OBVIOUS
    <2> QED BY <2>1
  <1>2. PICK d \in T : \A y \in T : d <= y
    <2> HIDE DEF T
    <2> QED BY <1>1, LeastExists
  <1>3. PICK x \in S : d = B - x
    OBVIOUS
  <1>4. ASSUME NEW y \in S PROVE x >= y
    <2>1. B - y \in T
      OBVIOUS
    <2>2. d <= B - y /\ x \in 0..B /\ y \in 0..B
      BY <1>2, <2>1
    <2> QED BY <1>3, <2>2
  <1>5. \A y \in S : y \in Nat /\ x \in Nat
    OBVIOUS
  <1>6. \E z \in S : \A y \in S : z >= y
    BY <1>4
  <1>7. Max(S) \in S /\ \A y \in S : Max(S) >= y
    BY <1>6 DEF Max
  <1>8. \A y \in S : y \in Nat
    OBVIOUS
  <1> QED BY <1>7, <1>8

LEMMA RowsBefore ==
  ASSUME NEW rows \in Seq(Trial), NEW i \in 1..Len(rows)
  PROVE  /\ DOMAIN Before(rows, i) = 1..(i - 1) /\ Len(Before(rows, i)) = i - 1
         /\ \A k \in 1..(i - 1) : Before(rows, i)[k] = rows[k]
  <1>1. Len(rows) \in Nat /\ i - 1 \in Nat
    BY LenProperties
  <1>2. /\ DOMAIN Before(rows, i) = 1..(i - 1)
        /\ \A k \in 1..(i - 1) : Before(rows, i)[k] = rows[k]
    BY DEF Before
  <1>3. \A k \in 1..(i - 1) : rows[k] \in Trial
    <2>1. \A k \in 1..(i - 1) : k \in 1..Len(rows)
      BY <1>1
    <2> QED BY <2>1, ElementOfSeq
  <1>4. Before(rows, i) \in Seq(Trial)
    BY <1>1, <1>3, IsASeq DEF Before
  <1>5. Len(Before(rows, i)) \in Nat /\ DOMAIN Before(rows, i) = 1..Len(Before(rows, i))
    BY <1>4, LenProperties
  <1>6. Len(Before(rows, i)) = i - 1
    BY <1>1, <1>2, <1>5
  <1> QED BY <1>2, <1>6

\* Two ledgers of one seed and one data set agree as far as both go.
LEMMA LedgersAgree ==
  ASSUME SearchInv, NEW q \in Run, NEW r \in Run, q.data = r.data, q.seed = r.seed
  PROVE  \A i \in 1..Len(ledger[q]) : i \in 1..Len(ledger[r]) =>
           ledger[q][i].rule = ledger[r][i].rule /\ ledger[q][i].status = ledger[r][i].status
  <1> PICK a : a = ledger[q]
    OBVIOUS
  <1> PICK b : b = ledger[r]
    OBVIOUS
  <1> DEFINE Agree(i) == a[i].rule = b[i].rule /\ a[i].status = b[i].status
             Differ   == {i \in 1..Len(a) : i \in 1..Len(b) /\ ~Agree(i)}
  <1>1. /\ a \in Seq(Trial) /\ b \in Seq(Trial) /\ Len(a) \in Nat /\ Len(b) \in Nat
        /\ DOMAIN a = 1..Len(a) /\ DOMAIN b = 1..Len(b) /\ Replays(q) /\ Replays(r)
    BY LenProperties DEF SearchInv, SearchTypeOK
  <1>2. Differ = {}
    <2> SUFFICES ASSUME Differ # {} PROVE FALSE
      OBVIOUS
    <2>1. PICK i \in Differ : \A k \in Differ : i <= k
      <3>1. Differ \subseteq Nat
        OBVIOUS
      <3> HIDE DEF Differ
      <3> QED BY <3>1, LeastExists
    <2>2. i \in 1..Len(a) /\ i \in 1..Len(b) /\ ~Agree(i)
      OBVIOUS
    <2>3. ASSUME NEW k \in 1..(i - 1) PROVE Agree(k)
      <3>1. k \in 1..Len(a) /\ k \in 1..Len(b) /\ ~(i <= k)
        BY <1>1, <2>2
      <3> QED BY <2>1, <3>1
    <2> PICK t : t = Before(a, i)
      OBVIOUS
    <2> PICK u : u = Before(b, i)
      OBVIOUS
    <2>4. /\ Len(t) = Len(u) /\ DOMAIN t = DOMAIN u
          /\ \A k \in DOMAIN t : t[k].rule = u[k].rule /\ t[k].status = u[k].status
      <3>1. /\ DOMAIN t = 1..(i - 1) /\ Len(t) = i - 1 /\ DOMAIN u = 1..(i - 1) /\ Len(u) = i - 1
            /\ \A k \in 1..(i - 1) : t[k] = a[k] /\ u[k] = b[k]
        BY <1>1, <2>2, RowsBefore
      <3> QED BY <2>3, <3>1
    <2>5. /\ a[i] = NextTrial(q.data, q.seed, t, a[i].started)
          /\ b[i] = NextTrial(q.data, q.seed, u, b[i].started)
      BY <1>1, <2>2 DEF Replays
    <2>6. PICK x : x = a[i].started
      OBVIOUS
    <2>7. PICK y : y = b[i].started
      OBVIOUS
    <2>8. /\ NextTrial(q.data, q.seed, t, x).rule = NextTrial(q.data, q.seed, u, y).rule
          /\ NextTrial(q.data, q.seed, t, x).status = NextTrial(q.data, q.seed, u, y).status
      <3> HIDE DEF Differ
      <3> QED BY <2>4, SameSearch
    <2>9. Agree(i)
      BY <2>5, <2>6, <2>7, <2>8
    <2> QED BY <2>2, <2>9
  <1> QED BY <1>2

LEMMA SearchesCount ==
  SearchInv => RepeatsAreCountedOnce
  <1> SUFFICES ASSUME SearchInv, NEW d \in 1..DataSets, NEW s \in Seeds
               PROVE  Cardinality(OfSeed(d, s))
                        = Max({Len(ledger[r]) : r \in {q \in Run : q.data = d /\ q.seed = s}})
    BY DEF RepeatsAreCountedOnce
  <1> DEFINE Same    == {q \in Run : q.data = d /\ q.seed = s}
             Lengths == {Len(ledger[r]) : r \in Same}
  <1>1. PICK B \in Nat : \A b \in Budgets : b <= B
    <2>1. Budgets \subseteq Nat /\ IsFiniteSet(Budgets)
      BY SearchAssumption
    <2> QED BY <2>1, FiniteIsBounded
  <1>2. ASSUME NEW r \in Run
        PROVE  Len(ledger[r]) \in 0..B /\ Len(ledger[r]) \in Nat /\ DOMAIN ledger[r] = 1..Len(ledger[r])
    <2>1. /\ Len(ledger[r]) \in Nat /\ DOMAIN ledger[r] = 1..Len(ledger[r])
          /\ Len(ledger[r]) <= r.budget
      BY LenProperties DEF SearchInv, SearchTypeOK
    <2>2. r.budget <= B /\ r.budget \in Nat
      BY <1>1, RunFacts
    <2> QED BY <2>1, <2>2
  <1>3. Same # {}
    <2>1. PICK b \in Budgets : TRUE
      BY SearchAssumption
    <2>2. 0 \in 0..MaxLearns
      BY SearchAssumption
    <2>3. PICK z : z = [data |-> d, seed |-> s, budget |-> b, forced |-> 0]
      OBVIOUS
    <2>4. z \in Run /\ z.data = d /\ z.seed = s
      BY <2>2, <2>3 DEF Run
    <2> QED BY <2>4
  <1>4. Lengths # {} /\ Lengths \subseteq 0..B
    BY <1>2, <1>3
  <1>5. Max(Lengths) \in Lengths /\ \A n \in Lengths : n <= Max(Lengths)
    <2> HIDE DEF Lengths
    <2> QED BY <1>4, LongestIsMax
  <1>6. PICK m \in Same : Len(ledger[m]) = Max(Lengths)
    BY <1>5
  <1>7. m \in Run /\ m.data = d /\ m.seed = s
    OBVIOUS
  <1> PICK rows : rows = ledger[m]
    OBVIOUS
  <1> PICK n : n = Len(rows)
    OBVIOUS
  <1>8. n \in Nat /\ n = Max(Lengths) /\ DOMAIN rows = 1..n
    BY <1>2, <1>6, <1>7
  <1>9. ASSUME NEW r \in Same, NEW i \in DOMAIN ledger[r]
        PROVE  i \in 1..n /\ GlobalId(r, i) = <<d, s, i, rows[i].rule>>
    <2>1. r \in Run /\ r.data = d /\ r.seed = s
      OBVIOUS
    <2>2. Len(ledger[r]) <= n /\ Len(ledger[r]) \in Nat /\ i \in 1..Len(ledger[r])
      BY <1>2, <1>5, <1>8, <1>9, <2>1
    <2>3. i \in 1..n
      BY <1>8, <2>2
    <2>4. ledger[r][i].rule = rows[i].rule
      BY <1>7, <2>1, <2>2, <2>3, LedgersAgree
    <2> QED BY <2>1, <2>3, <2>4 DEF GlobalId
  <1> DEFINE f == [i \in 1..n |-> <<d, s, i, rows[i].rule>>]
  <1>10. OfSeed(d, s) = {f[i] : i \in 1..n}
    <2>1. ASSUME NEW g \in OfSeed(d, s) PROVE g \in {f[i] : i \in 1..n}
      <3>1. PICK r \in Run : r.data = d /\ g \in {GlobalId(r, i) : i \in DOMAIN ledger[r]}
        BY DEF OfSeed, GlobalTrials
      <3>2. PICK i \in DOMAIN ledger[r] : g = GlobalId(r, i)
        BY <3>1
      <3>3. g[2] = r.seed /\ g[2] = s
        BY <3>2 DEF OfSeed, GlobalId
      <3>4. r \in Same
        BY <3>1, <3>3
      <3>5. i \in 1..n /\ g = <<d, s, i, rows[i].rule>>
        BY <1>9, <3>2, <3>4
      <3> QED BY <3>5
    <2>2. ASSUME NEW i \in 1..n PROVE f[i] \in OfSeed(d, s)
      <3>1. m \in Same /\ i \in DOMAIN ledger[m]
        BY <1>8
      <3>2. f[i] = GlobalId(m, i) /\ f[i][2] = s
        BY <1>9, <3>1
      <3>3. f[i] \in GlobalTrials(d)
        BY <1>7, <3>1, <3>2 DEF GlobalTrials
      <3> QED BY <3>2, <3>3 DEF OfSeed
    <2> HIDE DEF f, Same
    <2> QED BY <2>1, <2>2
  <1>11. f \in Bijection(1..n, OfSeed(d, s))
    <2>1. \A i, j \in 1..n : f[i] = f[j] => i = j
      OBVIOUS
    <2>2. f \in [1..n -> OfSeed(d, s)]
      BY <1>10
    <2>3. \A g \in OfSeed(d, s) : \E i \in 1..n : f[i] = g
      BY <1>10
    <2> HIDE DEF f
    <2>4. f \in Injection(1..n, OfSeed(d, s))
      BY <2>1, <2>2 DEF Injection, IsInjective
    <2>5. f \in Surjection(1..n, OfSeed(d, s))
      BY <2>2, <2>3 DEF Surjection
    <2> QED BY <2>4, <2>5 DEF Bijection
  <1>12. Cardinality(OfSeed(d, s)) = n
    <2> HIDE DEF f
    <2> QED BY <1>8, <1>11, FS_CountingElements DEF ExistsBijection
  <1> QED BY <1>8, <1>12

\* Repeating, forcing, interrupting, continuing or lengthening a search never makes
\* the global count of trials forget an attempt, nor count one twice.
THEOREM RepeatsCountOnce ==
  SearchSpec => []RepeatsAreCountedOnce
  BY SearchHolds, SearchesCount, PTL
=============================================================================
