------------------------- MODULE LiveReadinessProofs -------------------------
(***************************************************************************)
(* What is proved of LiveReadiness for every number of periods, callers,   *)
(* evaluations and receipts; and of WalkForward, whose division makes the  *)
(* evidence that readiness begins with, for every sample.                  *)
(***************************************************************************)
EXTENDS LiveReadiness, WalkForward, SequenceTheorems, FiniteSetTheorems, NaturalsInduction,
        WellFoundedInduction, TLAPS

\* Withdrawing changes nothing but the state of active rows.
LEMMA WithdrawnFacts ==
  ASSUME NEW rows \in Seq(Receipt), NEW reason \in {"superseded", "drifted"}
  PROVE  /\ Withdrawn(rows, reason) \in Seq(Receipt)
         /\ Len(Withdrawn(rows, reason)) = Len(rows)
         /\ \A i \in 1..Len(rows) :
              /\ Withdrawn(rows, reason)[i].state # "active"
              /\ Withdrawn(rows, reason)[i].issued = rows[i].issued
              /\ Withdrawn(rows, reason)[i].expires = rows[i].expires
              /\ Withdrawn(rows, reason)[i].evidence = rows[i].evidence
  <1> DEFINE new == Withdrawn(rows, reason)
  <1>1. DOMAIN rows = 1..Len(rows) /\ Len(rows) \in Nat
    OBVIOUS
  <1>2. new = [i \in 1..Len(rows) |->
                IF rows[i].state = "active" THEN [rows[i] EXCEPT !.state = reason] ELSE rows[i]]
    BY <1>1 DEF Withdrawn
  <1>3. ASSUME NEW i \in 1..Len(rows)
        PROVE  /\ new[i] \in Receipt
               /\ new[i].state # "active"
               /\ new[i].issued = rows[i].issued
               /\ new[i].expires = rows[i].expires
               /\ new[i].evidence = rows[i].evidence
    <2>1. rows[i] \in Receipt
      OBVIOUS
    <2>2. CASE rows[i].state = "active"
      <3>1. new[i] = [rows[i] EXCEPT !.state = reason]
        BY <1>2, <2>2
      <3>2. QED
        BY <2>1, <3>1 DEF Receipt
    <2>3. CASE rows[i].state # "active"
      BY <1>2, <2>1, <2>3
    <2>4. QED
      BY <2>2, <2>3
  <1>4. new \in Seq(Receipt) /\ Len(new) = Len(rows)
    <2>1. \A i \in 1..Len(rows) : new[i] \in Receipt
      BY <1>3
    <2>2. new \in [1..Len(rows) -> Receipt]
      <3> HIDE DEF new
      <3> QED
        BY <1>2, <2>1
    <2>3. new \in Seq(Receipt)
      BY <1>1, <2>2, SeqDef
    <2>4. DOMAIN new = 1..Len(rows)
      BY <1>2
    <2> HIDE DEF new
    <2> QED
      BY <1>1, <2>3, <2>4
  <1>5. QED
    BY <1>3, <1>4

\* Every variable keeps its type, and every receipt its life, for all constants.
THEOREM TypeCorrect == Spec => []TypeOK
  <1>1. ASSUME Init PROVE TypeOK
    <2>1. now \in Time /\ alerts \in [Scopes -> 0..MaxAlerts]
      <3>1. 0 \in 0..MaxTime /\ 0 \in 0..MaxAlerts
        BY ReadinessAssumption
      <3>2. QED
        BY <1>1, <3>1 DEF Init, Time
    <2>a. /\ drift \in SUBSET Scopes /\ confirming \in drift \cup {Idle}
          /\ drifted \in [Scopes -> {"no", "latched", "withdrawn"}]
          /\ monitor = "down" /\ drift = {}
      BY <1>1 DEF Init
    <2>2. /\ receipts \in Seq(Receipt) /\ Len(receipts) <= MaxReceipts
          /\ \A i \in DOMAIN receipts : receipts[i].expires = receipts[i].issued + Life
      BY <1>1, ReadinessAssumption DEF Init
    <2>3. forward \in Record /\ told \in [Periods -> SUBSET Results]
      BY <1>1 DEF Init, Record
    <2>4. /\ closing \in [Closers -> {Idle} \cup (Periods \X Results)]
          /\ asked \in [Qualifiers -> {Idle} \cup [evidence : Record, at : Time]]
      BY <1>1 DEF Init
    <2>5. QED
      BY <2>1, <2>a, <2>2, <2>3, <2>4 DEF TypeOK
  <1>2. TypeOK /\ [Next]_vars => TypeOK'
    <2> SUFFICES ASSUME TypeOK, [Next]_vars PROVE TypeOK'
      OBVIOUS
    <2> USE DEF record, engine
    <2>1. CASE Tick
      BY <2>1, ReadinessAssumption DEF Tick, TypeOK, Time
    <2>2. CASE Load
      BY <2>2 DEF Load, TypeOK
    <2>3. CASE Begin
      BY <2>3 DEF Begin, TypeOK
    <2>4. CASE End
      BY <2>4 DEF End, TypeOK
    <2>5. ASSUME NEW s \in Scopes, Alert(s) PROVE TypeOK'
      <3>1. alerts' \in [Scopes -> 0..MaxAlerts]
        BY <2>5, ReadinessAssumption DEF Alert, TypeOK
      <3>2. QED
        BY <2>5, <3>1 DEF Alert, TypeOK
    <2>a. ASSUME NEW s \in Scopes, ConfirmDrift(s) PROVE TypeOK'
      <3>1. drifted' \in [Scopes -> {"no", "latched", "withdrawn"}]
        BY <2>a DEF ConfirmDrift, TypeOK
      <3>2. drift' \in SUBSET Scopes /\ confirming' \in drift' \cup {Idle}
        BY <2>a DEF ConfirmDrift, TypeOK
      <3>3. QED
        BY <2>a, <3>1, <3>2 DEF ConfirmDrift, TypeOK
    <2>6. CASE WithdrawReceipt
      <3>1. /\ receipts' \in Seq(Receipt) /\ Len(receipts') = Len(receipts)
            /\ \A i \in 1..Len(receipts) : /\ receipts'[i].issued = receipts[i].issued
                                           /\ receipts'[i].expires = receipts[i].expires
        BY <2>6, WithdrawnFacts DEF WithdrawReceipt, TypeOK
      <3>2. \A i \in DOMAIN receipts' : receipts'[i].expires = receipts'[i].issued + Life
        <4>1. DOMAIN receipts' = 1..Len(receipts) /\ DOMAIN receipts = 1..Len(receipts)
          BY <3>1 DEF TypeOK
        <4>2. \A i \in DOMAIN receipts : receipts[i].expires = receipts[i].issued + Life
          BY DEF TypeOK
        <4>3. QED
          BY <3>1, <4>1, <4>2
      <3>3. drifted' \in [Scopes -> {"no", "latched", "withdrawn"}]
        BY <2>6 DEF WithdrawReceipt, TypeOK
      <3>4. Len(receipts') <= MaxReceipts
        BY <3>1 DEF TypeOK
      <3>5. QED
        BY <2>6, <3>1, <3>2, <3>3, <3>4 DEF WithdrawReceipt, TypeOK
    <2>7. ASSUME NEW c \in Closers, ClosePeriod(c) PROVE TypeOK'
      <3> DEFINE p == closing[c][1]
                 result == closing[c][2]
      <3>1. p \in Periods /\ result \in Results
        <4>1. closing[c] \in Periods \X Results
          BY <2>7 DEF TypeOK, ClosePeriod
        <4>2. QED
          BY <4>1
      <3>2. closing' \in [Closers -> {Idle} \cup (Periods \X Results)]
        BY <2>7 DEF TypeOK, ClosePeriod
      <3>3. forward' \in Record /\ told' \in [Periods -> SUBSET Results]
        <4>1. CASE forward[p] = "open"
          <5>1. forward' = [forward EXCEPT ![p] = result]
            BY <2>7, <4>1 DEF ClosePeriod
          <5>2. told' = [told EXCEPT ![p] = told[p] \cup {result}]
            BY <2>7, <4>1 DEF ClosePeriod
          <5>3. forward \in Record /\ told \in [Periods -> SUBSET Results]
            BY DEF TypeOK
          <5> HIDE DEF p, result
          <5>4. forward' \in Record
            BY <3>1, <5>1, <5>3 DEF Record
          <5>5. told' \in [Periods -> SUBSET Results]
            BY <3>1, <5>2, <5>3
          <5> QED
            BY <5>4, <5>5
        <4>2. CASE forward[p] # "open"
          BY <2>7, <4>2 DEF ClosePeriod, TypeOK
        <4>3. QED
          BY <4>1, <4>2
      <3>4. QED
        BY <2>7, <3>2, <3>3 DEF ClosePeriod, TypeOK
    <2>8. ASSUME NEW c \in Closers, NEW p \in Periods, NEW r \in Results, FindOpen(c, p, r)
          PROVE  TypeOK'
      BY <2>8 DEF FindOpen, TypeOK
    <2>9. ASSUME NEW q \in Qualifiers, Evaluate(q) PROVE TypeOK'
      BY <2>9 DEF Evaluate, TypeOK
    <2>10. ASSUME NEW q \in Qualifiers, Issue(q) PROVE TypeOK'
      <3> DEFINE rows == Withdrawn(receipts, "superseded")
                 new  == NewReceipt(asked[q])
      <3>1. asked[q] \in [evidence : Record, at : Time]
        BY <2>10 DEF Issue, TypeOK
      <3>2. new \in Receipt /\ new.expires = new.issued + Life
        BY <3>1, ReadinessAssumption DEF NewReceipt, Receipt, Time
      <3>3. /\ rows \in Seq(Receipt) /\ Len(rows) = Len(receipts)
            /\ \A i \in 1..Len(rows) : rows[i].expires = rows[i].issued + Life
        <4>1. \A i \in 1..Len(receipts) : receipts[i].expires = receipts[i].issued + Life
          BY DEF TypeOK
        <4>2. receipts \in Seq(Receipt)
          BY DEF TypeOK
        <4>3. /\ rows \in Seq(Receipt) /\ Len(rows) = Len(receipts)
              /\ \A i \in 1..Len(receipts) :
                   rows[i].issued = receipts[i].issued /\ rows[i].expires = receipts[i].expires
          BY <4>2, WithdrawnFacts
        <4> HIDE DEF rows, new
        <4>4. QED
          BY <4>1, <4>3
      <3>4. receipts' = Append(rows, new)
        BY <2>10 DEF Issue
      <3> HIDE DEF rows, new
      <3>5. /\ receipts' \in Seq(Receipt) /\ Len(receipts') = Len(receipts) + 1
            /\ \A i \in DOMAIN receipts' : receipts'[i].expires = receipts'[i].issued + Life
        <4>1. /\ DOMAIN receipts' = 1..(Len(rows) + 1)
              /\ \A i \in 1..Len(rows) : receipts'[i] = rows[i]
              /\ receipts'[Len(rows) + 1] = new
          BY <3>2, <3>3, <3>4
        <4>2. ASSUME NEW i \in DOMAIN receipts' PROVE receipts'[i].expires = receipts'[i].issued + Life
          <5>1. CASE i \in 1..Len(rows)
            BY <3>3, <4>1, <5>1
          <5>2. CASE i = Len(rows) + 1
            BY <3>2, <4>1, <5>2
          <5>3. QED
            BY <3>3, <4>1, <5>1, <5>2
        <4>3. QED
          BY <3>2, <3>3, <3>4, <4>2
      <3>6. Len(receipts') <= MaxReceipts
        BY <2>10, <3>5, ReadinessAssumption DEF Issue, TypeOK
      <3>7. asked' \in [Qualifiers -> {Idle} \cup [evidence : Record, at : Time]]
        BY <2>10 DEF Issue, TypeOK
      <3>8. QED
        BY <2>10, <3>5, <3>6, <3>7 DEF Issue, TypeOK
    <2>11. CASE UNCHANGED vars
      BY <2>11 DEF vars, TypeOK
    <2>12. QED
      BY <2>1, <2>2, <2>3, <2>4, <2>5, <2>6, <2>7, <2>8, <2>9, <2>10, <2>11, <2>a DEF Next
  <1>3. QED
    BY <1>1, <1>2, PTL DEF Spec

-----------------------------------------------------------------------------
(* One active receipt.                                                     *)

\* A cohort has at most one active receipt, however often it qualifies: a
\* transaction that inserts one withdraws all the others.
THEOREM OneReceiptIsActive == Spec => []OneActive
  <1>1. Init => OneActive
    BY DEF Init, OneActive
  <1>2. TypeOK /\ OneActive /\ [Next]_vars => OneActive'
    <2> SUFFICES ASSUME TypeOK, OneActive, [Next]_vars PROVE OneActive'
      OBVIOUS
    <2>1. ASSUME UNCHANGED receipts PROVE OneActive'
      BY <2>1 DEF OneActive
    <2>2. CASE WithdrawReceipt
      <3>1. \A i \in DOMAIN receipts' : receipts'[i].state # "active"
        <4>1. /\ receipts' \in Seq(Receipt) /\ Len(receipts') = Len(receipts)
              /\ \A i \in 1..Len(receipts) : receipts'[i].state # "active"
          BY <2>2, WithdrawnFacts DEF WithdrawReceipt, TypeOK
        <4>2. QED
          BY <4>1
      <3>2. QED
        BY <3>1 DEF OneActive
    <2>3. ASSUME NEW q \in Qualifiers, Issue(q) PROVE OneActive'
      <3> DEFINE rows == Withdrawn(receipts, "superseded")
                 new  == NewReceipt(asked[q])
      <3>1. rows \in Seq(Receipt) /\ \A i \in 1..Len(rows) : rows[i].state # "active"
        BY WithdrawnFacts DEF TypeOK
      <3>2. receipts' = Append(rows, new)
        BY <2>3 DEF Issue
      <3> HIDE DEF rows, new
      <3>3. /\ DOMAIN receipts' = 1..(Len(rows) + 1)
            /\ \A i \in 1..Len(rows) : receipts'[i] = rows[i]
        BY <3>1, <3>2
      <3>4. \A i \in DOMAIN receipts' : receipts'[i].state = "active" => i = Len(rows) + 1
        BY <3>1, <3>3
      <3>5. QED
        BY <3>4 DEF OneActive
    <2>4. CASE UNCHANGED vars
      BY <2>1, <2>4 DEF vars
    <2>5. QED
      BY <2>1, <2>2, <2>3, <2>4
      DEF Next, Tick, Load, Begin, End, Alert, ConfirmDrift, FindOpen, ClosePeriod, Evaluate
  <1>3. QED
    BY <1>1, <1>2, TypeCorrect, PTL DEF Spec

-----------------------------------------------------------------------------
(* A period closes once.                                                   *)

\* Callers that close one period at the same time are told the same, and it is what
\* the record keeps.
THEOREM PeriodsCloseOnce == Spec => []PeriodClosesOnce
  <1>1. Init => PeriodClosesOnce
    BY DEF Init, PeriodClosesOnce
  <1>2. TypeOK /\ PeriodClosesOnce /\ [Next]_vars => PeriodClosesOnce'
    <2> SUFFICES ASSUME TypeOK, PeriodClosesOnce, [Next]_vars PROVE PeriodClosesOnce'
      OBVIOUS
    <2>1. ASSUME UNCHANGED <<forward, told>> PROVE PeriodClosesOnce'
      BY <2>1 DEF PeriodClosesOnce
    <2>2. ASSUME NEW c \in Closers, ClosePeriod(c) PROVE PeriodClosesOnce'
      <3> DEFINE p == closing[c][1]
                 result == closing[c][2]
      <3>1. CASE forward[p] = "open"
        <4>1. p \in Periods /\ result \in Results
          <5>1. closing[c] \in Periods \X Results
            BY <2>2 DEF TypeOK, ClosePeriod
          <5>2. QED
            BY <5>1
        <4>2. /\ forward' = [forward EXCEPT ![p] = result]
              /\ told' = [told EXCEPT ![p] = told[p] \cup {result}]
          BY <2>2, <3>1 DEF ClosePeriod
        <4>3. told[p] = {}
          BY <3>1, <4>1 DEF PeriodClosesOnce
        <4>4. ASSUME NEW x \in Periods PROVE told'[x] \subseteq {forward'[x]} \ {"open"}
          <5> HIDE DEF p, result
          <5>1. CASE x = p
            <6>1. told'[x] = {result} /\ forward'[x] = result
              BY <4>1, <4>2, <4>3, <5>1 DEF TypeOK, Record
            <6>2. QED
              BY <4>1, <6>1 DEF Results
          <5>2. CASE x # p
            <6>1. told'[x] = told[x] /\ forward'[x] = forward[x]
              BY <4>1, <4>2, <5>2 DEF TypeOK, Record
            <6>2. QED
              BY <6>1 DEF PeriodClosesOnce
          <5>3. QED
            BY <5>1, <5>2
        <4>5. QED
          BY <4>4 DEF PeriodClosesOnce
      <3>2. CASE forward[p] # "open"
        BY <2>1, <2>2, <3>2 DEF ClosePeriod
      <3>3. QED
        BY <3>1, <3>2
    <2>3. CASE UNCHANGED vars
      BY <2>1, <2>3 DEF vars, record
    <2>4. QED
      BY <2>1, <2>2, <2>3
      DEF Next, Tick, Load, Begin, End, Alert, FindOpen, ConfirmDrift, WithdrawReceipt, Evaluate,
          Issue, record
  <1>3. QED
    BY <1>1, <1>2, TypeCorrect, PTL DEF Spec

-----------------------------------------------------------------------------
(* Only a record that qualifies starts a monitor.                          *)

\* Whatever an evaluation is about to issue, or has issued, covers a record that
\* passed every gate.
EvidenceInv ==
  /\ \A q \in Qualifiers : asked[q] # Idle => Qualified(asked[q].evidence)
  /\ \A i \in DOMAIN receipts : Qualified(receipts[i].evidence)

\* A monitor starts only on a record that passes every gate at that moment: the receipt
\* binds the record, and a record that qualified once is compared whole.
THEOREM StartsQualified == Spec => StartIsQualified
  <1>1. Init => EvidenceInv
    BY DEF Init, EvidenceInv
  <1>2. TypeOK /\ EvidenceInv /\ [Next]_vars => EvidenceInv'
    <2> SUFFICES ASSUME TypeOK, EvidenceInv, [Next]_vars PROVE EvidenceInv'
      OBVIOUS
    <2>1. ASSUME UNCHANGED <<asked, receipts>> PROVE EvidenceInv'
      BY <2>1 DEF EvidenceInv
    <2>2. CASE WithdrawReceipt
      <3>1. /\ receipts' \in Seq(Receipt) /\ Len(receipts') = Len(receipts)
            /\ \A i \in 1..Len(receipts) : receipts'[i].evidence = receipts[i].evidence
        BY <2>2, WithdrawnFacts DEF WithdrawReceipt, TypeOK
      <3>2. \A i \in 1..Len(receipts) : Qualified(receipts[i].evidence)
        BY DEF EvidenceInv, TypeOK
      <3>3. \A i \in DOMAIN receipts' : Qualified(receipts'[i].evidence)
        BY <3>1, <3>2
      <3>4. asked' = asked
        BY <2>2 DEF WithdrawReceipt
      <3>5. QED
        BY <3>3, <3>4 DEF EvidenceInv
    <2>3. ASSUME NEW q \in Qualifiers, Evaluate(q) PROVE EvidenceInv'
      <3>1. /\ asked' = [asked EXCEPT ![q] = [evidence |-> forward, at |-> now]]
            /\ Qualified(forward) /\ receipts' = receipts
        BY <2>3 DEF Evaluate
      <3>2. \A r \in Qualifiers : asked'[r] = IF r = q THEN [evidence |-> forward, at |-> now] ELSE asked[r]
        BY <3>1 DEF TypeOK
      <3>3. ASSUME NEW r \in Qualifiers, asked'[r] # Idle PROVE Qualified(asked'[r].evidence)
        <4>1. CASE r = q
          BY <3>1, <3>2, <4>1
        <4>2. CASE r # q
          BY <3>2, <3>3, <4>2 DEF EvidenceInv
        <4>3. QED
          BY <4>1, <4>2
      <3>4. QED
        BY <3>1, <3>3 DEF EvidenceInv
    <2>4. ASSUME NEW q \in Qualifiers, Issue(q) PROVE EvidenceInv'
      <3> DEFINE rows == Withdrawn(receipts, "superseded")
                 new  == NewReceipt(asked[q])
      <3>1. /\ rows \in Seq(Receipt) /\ Len(rows) = Len(receipts)
            /\ \A i \in 1..Len(receipts) : rows[i].evidence = receipts[i].evidence
        BY WithdrawnFacts DEF TypeOK
      <3>2. Qualified(new.evidence)
        BY <2>4 DEF Issue, NewReceipt, EvidenceInv
      <3>3. receipts' = Append(rows, new)
        BY <2>4 DEF Issue
      <3>4. \A i \in 1..Len(receipts) : Qualified(receipts[i].evidence)
        BY DEF EvidenceInv, TypeOK
      <3>5. \A r \in Qualifiers : asked'[r] # Idle => asked'[r] = asked[r]
        BY <2>4 DEF Issue, TypeOK
      <3> HIDE DEF rows, new
      <3>6. \A i \in DOMAIN receipts' : Qualified(receipts'[i].evidence)
        <4>1. /\ DOMAIN receipts' = 1..(Len(rows) + 1)
              /\ \A i \in 1..Len(rows) : receipts'[i] = rows[i]
              /\ receipts'[Len(rows) + 1] = new
          BY <3>1, <3>3
        <4>2. ASSUME NEW i \in DOMAIN receipts' PROVE Qualified(receipts'[i].evidence)
          <5>1. CASE i \in 1..Len(rows)
            BY <3>1, <3>4, <4>1, <5>1
          <5>2. CASE i = Len(rows) + 1
            BY <3>2, <4>1, <5>2
          <5>3. QED
            BY <3>1, <4>1, <5>1, <5>2
        <4>3. QED
          BY <4>2
      <3>7. QED
        BY <3>5, <3>6 DEF EvidenceInv
    <2>5. CASE UNCHANGED vars
      BY <2>1, <2>5 DEF vars
    <2>6. QED
      BY <2>1, <2>2, <2>3, <2>4, <2>5
      DEF Next, Tick, Load, Begin, End, Alert, ConfirmDrift, FindOpen, ClosePeriod
  <1>3. EvidenceInv /\ [Next]_vars => (monitor = "down" /\ monitor' = "starting" => Qualified(forward))
    <2> SUFFICES ASSUME EvidenceInv, [Next]_vars, monitor = "down", monitor' = "starting"
                 PROVE  Qualified(forward)
      OBVIOUS
    <2>1. Load
      BY DEF Next, vars, record, engine, Tick, Load, Begin, End, Alert, ConfirmDrift,
             WithdrawReceipt, FindOpen, ClosePeriod, Evaluate, Issue
    <2>2. PICK i \in DOMAIN receipts : receipts[i].evidence = forward
      BY <2>1 DEF Load, Loadable, Newest
    <2>3. QED
      BY <2>2 DEF EvidenceInv
  <1>4. EvidenceInv /\ [Next]_vars
          => [monitor = "down" /\ monitor' = "starting" => Qualified(forward)]_vars
    BY <1>3
  <1>5. QED
    BY <1>1, <1>2, <1>4, TypeCorrect, PTL DEF Spec, StartIsQualified

-----------------------------------------------------------------------------
(* Confirmed drift stops alerts.                                           *)

\* While a receipt is withdrawn for the drift of a scope no receipt is active, and the
\* process that saw the drift has the scope latched or has ended: the next one finds no
\* receipt.
DriftInv ==
  \A s \in Scopes : drifted[s] = "withdrawn" =>
    /\ \A i \in DOMAIN receipts : receipts[i].state # "active"
    /\ monitor = "down" \/ s \in drift

\* A scope for whose drift a receipt was withdrawn makes no alert, in the process that
\* saw it or in a later one, and none starts, until a receipt is issued again.
THEOREM DriftIsFinal == Spec => DriftStopsAlerts
  <1>1. Init => DriftInv
    BY DEF Init, DriftInv
  <1>2. TypeOK /\ DriftInv /\ [Next]_vars => DriftInv'
    <2> SUFFICES ASSUME TypeOK, DriftInv, [Next]_vars PROVE DriftInv'
      OBVIOUS
    <2>1. ASSUME UNCHANGED <<drifted, receipts, monitor, drift>> PROVE DriftInv'
      BY <2>1 DEF DriftInv
    <2>2. CASE WithdrawReceipt
      <3>1. \A i \in DOMAIN receipts' : receipts'[i].state # "active"
        <4>1. /\ receipts' \in Seq(Receipt) /\ Len(receipts') = Len(receipts)
              /\ \A i \in 1..Len(receipts) : receipts'[i].state # "active"
          BY <2>2, WithdrawnFacts DEF WithdrawReceipt, TypeOK
        <4>2. QED
          BY <4>1
      <3>2. confirming \in drift /\ drift' = drift /\ monitor' = monitor
        BY <2>2 DEF WithdrawReceipt, TypeOK
      <3>3. \A s \in Scopes : s # confirming => drifted'[s] = drifted[s]
        BY <2>2 DEF WithdrawReceipt, TypeOK
      <3>4. QED
        BY <3>1, <3>2, <3>3 DEF DriftInv
    <2>3. ASSUME NEW x \in Scopes, ConfirmDrift(x) PROVE DriftInv'
      <3>1. \A s \in Scopes : drifted'[s] = "withdrawn" => drifted[s] = "withdrawn"
        BY <2>3 DEF ConfirmDrift, TypeOK
      <3>2. receipts' = receipts /\ monitor' = monitor /\ drift' = drift \cup {x}
        BY <2>3 DEF ConfirmDrift
      <3>3. QED
        BY <3>1, <3>2 DEF DriftInv
    <2>4. CASE Load
      BY <2>4 DEF Load, Loadable, Newest, DriftInv
    <2>5. CASE Begin
      BY <2>5 DEF Begin, DriftInv, TypeOK
    <2>6. CASE End
      BY <2>6 DEF End, DriftInv
    <2>7. ASSUME NEW q \in Qualifiers, Issue(q) PROVE DriftInv'
      BY <2>7 DEF Issue, DriftInv
    <2>8. CASE UNCHANGED vars
      BY <2>1, <2>8 DEF vars, engine
    <2>9. QED
      BY <2>1, <2>2, <2>3, <2>4, <2>5, <2>6, <2>7, <2>8
      DEF Next, Tick, Alert, FindOpen, ClosePeriod, Evaluate, engine
  <1>3. ASSUME TypeOK, DriftInv, [Next]_vars, NEW s \in Scopes, drifted[s] = "withdrawn"
        PROVE  alerts'[s] = alerts[s] /\ (monitor = "down" => monitor' = "down")
    <2>1. ASSUME NEW x \in Scopes, Alert(x)
          PROVE  alerts'[s] = alerts[s] /\ monitor' = monitor
      <3>1. x # s
        BY <1>3, <2>1 DEF Alert, DriftInv
      <3>2. QED
        BY <2>1, <3>1 DEF Alert, TypeOK
    <2>2. ~Load
      BY <1>3 DEF Load, Loadable, Newest, DriftInv
    <2>3. CASE Begin \/ End
      BY <2>3 DEF Begin, End
    <2>4. CASE UNCHANGED vars
      BY <2>4 DEF vars, engine
    <2>5. ASSUME \A x \in Scopes : ~Alert(x), ~(Begin \/ End), ~(UNCHANGED vars)
          PROVE  alerts' = alerts /\ monitor' = monitor
      BY <1>3, <2>2, <2>5 DEF Next, engine, Tick, WithdrawReceipt, ConfirmDrift, FindOpen,
         ClosePeriod, Evaluate, Issue
    <2>6. QED
      BY <2>1, <2>3, <2>4, <2>5
  <1>4. TypeOK /\ DriftInv /\ [Next]_vars
          => [\A s \in Scopes : drifted[s] = "withdrawn" =>
                alerts'[s] = alerts[s] /\ (monitor = "down" => monitor' = "down")]_vars
    BY <1>3
  <1>5. QED
    BY <1>1, <1>2, <1>4, TypeCorrect, PTL DEF Spec, DriftStopsAlerts

-----------------------------------------------------------------------------
(* The division of a sample (WalkForward).                                 *)

\* A set of naturals has a least member, which Min chooses.
LEMMA LeastOf ==
  ASSUME NEW S \in SUBSET Nat, S # {}
  PROVE  Min(S) \in S /\ \A x \in S : Min(S) <= x
  <1>1. PICK x \in S : \A y \in S : ~(<<y, x>> \in OpToRel(<, Nat))
    <2>1. \E x \in S : \A y \in S : ~(<<y, x>> \in OpToRel(<, Nat))
      BY NatLessThanWellFounded, WFMin
    <2>2. QED
      BY <2>1
  <1>2. ASSUME NEW y \in S, y < x
        PROVE  FALSE
    <2>1. <<y, x>> \in Nat \X Nat /\ <<y, x>>[1] = y /\ <<y, x>>[2] = x
      OBVIOUS
    <2>2. <<y, x>> \in OpToRel(<, Nat)
      BY <1>2, <2>1 DEF OpToRel
    <2>3. QED
      BY <1>1, <2>2
  <1>3. \A y \in S : x <= y
    BY <1>2
  <1>4. QED
    BY <1>3 DEF Min

\* A bounded one has a greatest, which Max chooses.
LEMMA GreatestOf ==
  ASSUME NEW n \in Nat, NEW S \in SUBSET (0..n), S # {}
  PROVE  Max(S) \in S /\ \A x \in S : x <= Max(S)
  <1> DEFINE T == {n - x : x \in S}
  <1>1. T \in SUBSET Nat /\ T # {}
    <2>1. \A x \in S : n - x \in Nat
      OBVIOUS
    <2>2. QED
      BY <2>1
  <1>2. Min(T) \in T /\ \A y \in T : Min(T) <= y
    <2> HIDE DEF T
    <2> QED
      BY <1>1, LeastOf
  <1>3. PICK x \in S : Min(T) = n - x
    BY <1>2
  <1>4. \A y \in S : n - x <= n - y
    BY <1>2, <1>3
  <1>5. \A y \in S : x >= y
    BY <1>4
  <1>6. QED
    BY <1>5 DEF Max

\* The greatest of two sets is the same if each has something as great.
LEMMA SameGreatest ==
  ASSUME NEW n \in Nat, NEW S \in SUBSET (0..n), NEW T \in SUBSET S, S # {},
         \A x \in S : \E y \in T : x <= y
  PROVE  Max(S) = Max(T)
  <1>1. T # {} /\ T \in SUBSET (0..n)
    OBVIOUS
  <1>2. Max(S) \in S /\ \A x \in S : x <= Max(S)
    BY GreatestOf
  <1>3. Max(T) \in T /\ \A x \in T : x <= Max(T)
    BY <1>1, GreatestOf
  <1>4. PICK y \in T : Max(S) <= y
    BY <1>2
  <1>5. y <= Max(T) /\ Max(T) <= Max(S)
    BY <1>2, <1>3
  <1>6. Max(S) \in Nat /\ Max(T) \in Nat /\ y \in Nat
    <2>1. S \subseteq Nat /\ T \subseteq Nat
      BY <1>1
    <2>2. QED
      BY ONLY <1>2, <1>3, <1>4, <2>1
  <1>7. QED
    BY <1>4, <1>5, <1>6

\* The first rows up to some row are as many as they reach.
LEMMA PrefixIsInterval ==
  ASSUME NEW lo \in Nat \ {0}, NEW hi \in Nat, NEW E \in SUBSET (lo..hi),
         \A r \in E : lo..r \subseteq E
  PROVE  /\ Cardinality(E) \in Nat
         /\ E = lo..(lo + Cardinality(E) - 1)
  <1>1. CASE E = {}
    <2>1. Cardinality(E) = 0
      BY <1>1, FS_EmptySet
    <2>2. lo..(lo + 0 - 1) = {}
      OBVIOUS
    <2>3. QED
      BY <1>1, <2>1, <2>2
  <1>2. CASE E # {}
    <2> DEFINE m == Max(E)
    <2>1. m \in E /\ \A r \in E : r <= m
      <3>1. E \in SUBSET (0..hi)
        OBVIOUS
      <3>2. QED
        BY <1>2, <3>1, GreatestOf
    <2> HIDE DEF m
    <2>2. m \in Nat /\ lo <= m /\ E = lo..m
      <3>1. m \in lo..hi /\ lo..m \subseteq E
        BY <2>1
      <3>2. m \in Nat /\ lo <= m
        BY <3>1
      <3>3. \A r \in E : r \in lo..m
        <4>1. \A r \in E : r \in lo..hi
          OBVIOUS
        <4>2. QED
          BY ONLY <2>1, <3>2, <4>1
      <3>4. QED
        BY ONLY <3>1, <3>2, <3>3
    <2>3. Cardinality(E) = m - lo + 1
      BY <2>2, FS_Interval
    <2>4. QED
      BY <2>2, <2>3
  <1>3. QED
    BY <1>1, <1>2

\* Of two multiples of the block the greater is a block further.
LEMMA BlocksAreApart ==
  ASSUME NEW x \in Nat, NEW y \in Nat, x % Block = 0, y % Block = 0, x < y
  PROVE  x + Block <= y
  <1>1. Block \in Nat /\ Block > 0
    BY WalkForwardAssumption
  <1> DEFINE p == x \div Block
             q == y \div Block
  <1>2. p \in Nat /\ q \in Nat /\ x = Block * p /\ y = Block * q
    BY <1>1
  <1> HIDE DEF p, q
  <1>3. p < q
    <2>1. ASSUME q <= p PROVE FALSE
      <3>1. Block * q <= Block * p
        BY <1>1, <1>2, <2>1
      <3>2. QED
        BY <1>2, <3>1
    <2>2. QED
      BY <1>2, <2>1
  <1>4. Block * (p + 1) <= Block * q
    BY <1>1, <1>2, <1>3
  <1>5. Block * (p + 1) = Block * p + Block
    BY <1>1, <1>2
  <1>6. QED
    BY <1>1, <1>2, <1>4, <1>5

\* The times of a sample.
LEMMA SampleFacts ==
  ASSUME IsSample(sample), Latest > 0
  PROVE  /\ Latest \in Nat /\ Len(sample.close) = Latest + 1 /\ sample.embargo \in Nat
         /\ \A r \in 1..Latest : Decision(r) \in Nat /\ Outcome(r) \in Nat /\ Decision(r) < Outcome(r)
         /\ \A r \in 1..(Latest + 1) : sample.close[r] \in Nat /\ sample.available[r] \in Nat
                                       /\ sample.close[r] <= sample.available[r]
         /\ \A r, q \in 1..(Latest + 1) : r < q => sample.close[r] < sample.close[q]
         /\ \A r, q \in 1..Latest : r <= q <=> Decision(r) <= Decision(q)
  <1> DEFINE n == Latest
  <1>1. Len(sample.close) \in Nat /\ Len(sample.close) = n + 1
    BY DEF IsSample, Latest
  <1>2. n \in Nat
    BY <1>1 DEF Latest
  <1>0. sample.close \in Seq(Nat) /\ sample.available \in Seq(Nat)
    BY DEF IsSample
  <1>3. DOMAIN sample.close = 1..(n + 1) /\ DOMAIN sample.available = 1..(n + 1)
    BY <1>0, <1>1 DEF IsSample
  <1>4. \A r \in 1..(n + 1) : sample.close[r] \in Nat /\ sample.available[r] \in Nat
                              /\ sample.close[r] <= sample.available[r]
    <2>1. \A r \in DOMAIN sample.close : sample.close[r] \in Nat /\ sample.close[r] <= sample.available[r]
      BY <1>0 DEF IsSample
    <2>2. \A r \in DOMAIN sample.available : sample.available[r] \in Nat
      BY <1>0
    <2> HIDE DEF n
    <2> QED
      BY ONLY <1>3, <2>1, <2>2
  <1>5. \A r, q \in 1..(n + 1) : r < q => sample.close[r] < sample.close[q]
    BY <1>3 DEF IsSample
  <1> HIDE DEF n
  <1>6. \A r \in 1..n : /\ Decision(r) = sample.close[r] /\ Outcome(r) = sample.available[r + 1]
                        /\ r \in 1..(n + 1) /\ r + 1 \in 1..(n + 1) /\ r < r + 1
    BY <1>2 DEF Decision, Outcome
  <1>7. ASSUME NEW r \in 1..n
        PROVE  Decision(r) \in Nat /\ Outcome(r) \in Nat /\ Decision(r) < Outcome(r)
    <2>1. /\ sample.close[r] \in Nat /\ sample.close[r + 1] \in Nat /\ sample.available[r + 1] \in Nat
          /\ sample.close[r] < sample.close[r + 1] /\ sample.close[r + 1] <= sample.available[r + 1]
      BY <1>4, <1>5, <1>6
    <2>2. QED
      BY <1>6, <2>1
  <1>8. ASSUME NEW r \in 1..n, NEW q \in 1..n
        PROVE  r <= q <=> Decision(r) <= Decision(q)
    <2>1. CASE r < q
      BY <1>4, <1>5, <1>6, <2>1
    <2>2. CASE r = q
      BY <1>7, <2>2
    <2>3. CASE q < r
      BY <1>4, <1>5, <1>6, <2>3
    <2>4. QED
      BY <2>1, <2>2, <2>3
  <1>9. QED
    BY <1>1, <1>2, <1>4, <1>5, <1>7, <1>8 DEF n, IsSample

\* The final test begins at one of the rows.
LEMMA FinalFacts ==
  ASSUME NEW lo \in Nat \ {0}, NEW hi \in Nat, HasBoundary(lo, hi)
  PROVE  FinalFirst(lo, hi) \in (lo + 1)..hi
  <1> DEFINE n == hi + 1 - lo
             part == (n + FinalShare - 1) \div FinalShare
  <1>1. n \in Nat /\ n > 0 /\ FinalShare \in Nat /\ FinalShare > 0
    BY WalkForwardAssumption DEF HasBoundary
  <1>2. part \in Nat
    BY <1>1
  <1>3. \E m \in Nat : {1, part} \subseteq 0..m
    <2>1. {1, part} \subseteq 0..(part + 1)
      BY <1>2
    <2>2. QED
      BY <1>2, <2>1
  <1> HIDE DEF part
  <1>4. Max({1, part}) \in {1, part} /\ \A x \in {1, part} : x <= Max({1, part})
    BY <1>3, GreatestOf
  <1>5. FinalCount(n) \in Nat /\ FinalCount(n) >= 1
    BY <1>2, <1>4 DEF FinalCount, part
  <1>6. FinalFirst(lo, hi) = hi + 1 - FinalCount(n)
    BY DEF FinalFirst, n
  <1>7. QED
    BY <1>5, <1>6 DEF HasBoundary

(* The fold of the rows s..e, out of lo..hi.                               *)
IsFold(f, lo, hi, s, e) ==
  /\ s <= e /\ f.validation = s..e /\ e < s + Block /\ e < FinalFirst(lo, hi)
  /\ s >= lo + MinTrain /\ (s - lo - MinTrain) % Block = 0
  /\ Min(f.validation) = s /\ Max(f.validation) = e
  /\ f.train = Known(lo, s) /\ f.train # {} /\ f.train \subseteq lo..(s - 1)
  /\ f = [train |-> Known(lo, s),
          validation |-> s..Min({s + Block - 1, lo + Cardinality(Eligible(lo, hi)) - 1})]
  /\ \A r \in s..e : Outcome(r) < FinalStart(lo, hi)
  /\ \A t \in f.train : Outcome(t) <= Decision(s) - sample.embargo

\* What a fold is: rows that resolve before the final test, after training that was
\* known an embargo before.
LEMMA FoldFacts ==
  ASSUME IsSample(sample), NEW lo \in Nat \ {0}, NEW hi \in 0..Latest, Divisible(lo, hi),
         NEW f \in Folds(lo, hi)
  PROVE  \E s, e \in lo..hi : IsFold(f, lo, hi, s, e)
  <1> DEFINE size == Cardinality(Eligible(lo, hi))
             end  == lo + size - 1
             F    == FinalFirst(lo, hi)
  <1>1. /\ MinTrain \in Nat /\ Block \in Nat /\ Block > 0 /\ MinTrain > 0 /\ hi \in Nat
        /\ Latest \in Int
    BY WalkForwardAssumption DEF IsSample, Latest
  <1>2. F \in (lo + 1)..hi
    BY <1>1, FinalFacts DEF Divisible
  <1> HIDE DEF F
  <1>3. Eligible(lo, hi) \subseteq lo..(F - 1)
    BY DEF Eligible, F
  <1>4. size \in Nat /\ Eligible(lo, hi) = lo..end
    <2>1. F - 1 \in Nat
      BY <1>2
    <2>2. \A r \in Eligible(lo, hi) : lo..r \subseteq Eligible(lo, hi)
      BY DEF Divisible
    <2>3. QED
      BY <1>3, <2>1, <2>2, PrefixIsInterval
  <1> HIDE DEF size
  <1>5. PICK s \in (lo + MinTrain)..end :
          /\ (s - lo - MinTrain) % Block = 0 /\ Known(lo, s) # {}
          /\ f = [train |-> Known(lo, s), validation |-> s..Min({s + Block - 1, end})]
    BY DEF Folds, size
  <1>6. /\ s \in Nat /\ lo <= s /\ s <= end /\ end \in Nat
        /\ end <= F - 1
    <2>1. s \in Nat /\ s <= end /\ end \in Int /\ lo <= s
      BY <1>1, <1>4, <1>5
    <2>2. end \in lo..(F - 1)
      BY <1>3, <1>4, <2>1
    <2>3. QED
      BY <1>2, <2>1, <2>2
  <1> DEFINE both == {s + Block - 1, end}
             e    == Min(both)
  <1>7. both \in SUBSET Nat /\ both # {}
    BY <1>1, <1>6
  <1>8. e \in both /\ \A x \in both : e <= x
    <2> HIDE DEF both
    <2> QED
      BY <1>7, LeastOf
  <1> HIDE DEF e
  <1>9. e \in Nat /\ s <= e /\ e <= end /\ e < s + Block
    BY <1>1, <1>6, <1>8
  <1>10. f.validation = s..e /\ f.train = Known(lo, s)
    BY <1>5 DEF e
  <1>11. Min(s..e) = s /\ Max(s..e) = e
    <2>1. s..e \in SUBSET Nat /\ s..e \in SUBSET (0..e) /\ s..e # {} /\ s \in s..e /\ e \in s..e
      BY <1>6, <1>9
    <2>2. Min(s..e) \in s..e /\ Min(s..e) <= s
      BY <2>1, LeastOf
    <2>3. Max(s..e) \in s..e /\ e <= Max(s..e)
      BY <1>9, <2>1, GreatestOf
    <2>4. QED
      BY <1>6, <1>9, <2>2, <2>3
  <1>12. Known(lo, s) \subseteq lo..(s - 1) /\ \A t \in Known(lo, s) : Outcome(t) <= Decision(s) - sample.embargo
    BY DEF Known
  <1>13. \A r \in s..e : Outcome(r) < FinalStart(lo, hi)
    <2>1. s..e \subseteq Eligible(lo, hi)
      BY <1>4, <1>6, <1>9
    <2>2. QED
      BY <2>1 DEF Eligible
  <1>14. s \in lo..hi /\ e \in lo..hi /\ e < F /\ s >= lo + MinTrain
    BY <1>1, <1>2, <1>5, <1>6, <1>9
  <1>15. QED
    BY <1>5, <1>9, <1>10, <1>11, <1>12, <1>13, <1>14 DEF F, size, IsFold, e, both

\* No row is validated by two folds.
LEMMA FoldsAreDisjoint ==
  ASSUME IsSample(sample), NEW lo \in Nat \ {0}, NEW hi \in 0..Latest, Divisible(lo, hi),
         NEW f \in Folds(lo, hi), NEW g \in Folds(lo, hi), NEW r \in f.validation \cap g.validation
  PROVE  f = g
  <1>1. PICK s, e \in lo..hi : IsFold(f, lo, hi, s, e)
    BY FoldFacts
  <1>2. PICK t, d \in lo..hi : IsFold(g, lo, hi, t, d)
    BY FoldFacts
  <1>0. Block \in Nat /\ MinTrain \in Nat /\ lo \in Nat /\ s \in Int /\ e \in Int /\ t \in Int /\ d \in Int
    BY WalkForwardAssumption
  <1>3. /\ s <= r /\ r < s + Block /\ s - lo - MinTrain \in Nat /\ r \in Int
        /\ (s - lo - MinTrain) % Block = 0
    BY <1>0, <1>1 DEF IsFold
  <1>5. /\ t <= r /\ r < t + Block /\ t - lo - MinTrain \in Nat
        /\ (t - lo - MinTrain) % Block = 0
    BY <1>0, <1>2 DEF IsFold
  <1>4. s = t
    <2>0. PICK x, y \in Nat : x = s - lo - MinTrain /\ y = t - lo - MinTrain
      BY <1>3, <1>5
    <2>1. ASSUME s < t PROVE FALSE
      <3>0. x < y /\ x % Block = 0 /\ y % Block = 0
        BY ONLY <1>0, <1>3, <1>5, <2>0, <2>1
      <3>1. x + Block <= y
        BY <3>0, BlocksAreApart
      <3>2. QED
        BY ONLY <1>0, <1>3, <1>5, <2>0, <3>1
    <2>2. ASSUME t < s PROVE FALSE
      <3>0. y < x /\ x % Block = 0 /\ y % Block = 0
        BY ONLY <1>0, <1>3, <1>5, <2>0, <2>2
      <3>1. y + Block <= x
        BY <3>0, BlocksAreApart
      <3>2. QED
        BY ONLY <1>0, <1>3, <1>5, <2>0, <3>1
    <2>3. QED
      BY <1>0, <2>1, <2>2
  <1>6. QED
    BY <1>1, <1>2, <1>4 DEF IsFold

-----------------------------------------------------------------------------
(* The probability of the current signal is out of fold.                   *)

(* Those who come up to a row.                                             *)
UpTo(joined, r) == {q \in joined : q <= r}

\* Who comes at a place of the order or later, has somebody at that very place before it
\* or is there itself.
LEMMA PlacesAreTaken ==
  ASSUME NEW n \in Nat, NEW joined \in SUBSET (1..n), NEW k \in Nat \ {0}, NEW s \in joined,
         Cardinality(UpTo(joined, s)) >= k
  PROVE  \E q \in joined : q <= s /\ Cardinality(UpTo(joined, q)) = k
  <1> DEFINE upTo(x) == UpTo(joined, x)
             late    == {x \in joined : Cardinality(upTo(x)) >= k}
             q       == Min(late)
  <1>0. \A x \in joined : x \in 1..n /\ x \in Nat /\ x \in 0..n
    OBVIOUS
  <1>1. IsFiniteSet(joined)
    <2>1. IsFiniteSet(1..n)
      BY FS_Interval
    <2>2. QED
      BY <2>1, FS_Subset
  <1>2. \A x : IsFiniteSet(upTo(x)) /\ Cardinality(upTo(x)) \in Nat
    <2>1. \A x : upTo(x) \in SUBSET joined
      BY DEF UpTo
    <2>2. QED
      BY <1>1, <2>1, FS_Subset, FS_CardinalityType
  <1>3. late \in SUBSET Nat /\ s \in late
    <2>1. late \in SUBSET Nat
      BY <1>0
    <2>2. Cardinality(upTo(s)) >= k
      OBVIOUS
    <2> HIDE DEF upTo
    <2>3. QED
      BY <2>1, <2>2
  <1>4. q \in late /\ \A x \in late : q <= x
    <2> HIDE DEF late
    <2> QED
      BY <1>3, LeastOf
  <1> HIDE DEF q
  <1>5. q \in joined /\ q <= s /\ Cardinality(upTo(q)) >= k /\ q \in 1..n
    BY <1>3, <1>4
  <1> DEFINE older == {p \in joined : p < q}
  <1>6. IsFiniteSet(older) /\ Cardinality(older) \in Nat
    <2>1. older \in SUBSET joined
      OBVIOUS
    <2>2. QED
      BY <1>1, <2>1, FS_Subset, FS_CardinalityType
  <1>7. Cardinality(upTo(q)) = Cardinality(older) + 1
    <2>1. upTo(q) = older \cup {q} /\ q \notin older
      <3>1. q \in joined /\ q \in Nat
        BY <1>0, <1>5
      <3>2. \A p \in joined : p <= q <=> p < q \/ p = q
        BY ONLY <1>0, <3>1
      <3>3. q \notin older
        BY ONLY <3>1 DEF older
      <3>4. QED
        BY ONLY <3>1, <3>2, <3>3 DEF older, upTo, UpTo
    <2> HIDE DEF older, upTo
    <2>2. QED
      BY <1>6, <2>1, FS_AddElement
  <1>8. Cardinality(older) < k
    <2>1. CASE older = {}
      <3>1. Cardinality(older) = 0
        BY <2>1, FS_EmptySet
      <3>2. QED
        BY <3>1
    <2>2. CASE older # {}
      <3> DEFINE m == Max(older)
      <3>1. older \in SUBSET (0..n)
        BY ONLY <1>0 DEF older
      <3>2. m \in older /\ \A x \in older : x <= m
        <4> HIDE DEF older
        <4> QED
          BY <2>2, <3>1, GreatestOf
      <3> HIDE DEF m
      <3>3. m \in joined /\ m < q /\ m \in 1..n
        BY <3>2
      <3>4. upTo(m) = older
        <4>1. q \in Nat /\ m \in Nat
          BY <1>5, <3>3
        <4>2. \A p \in joined : p <= m <=> p < q
          <5>1. \A p \in joined : p < q => p <= m
            BY <3>2
          <5>2. \A p \in joined : p <= m => p < q
            BY ONLY <1>0, <3>3, <4>1
          <5>3. QED
            BY <5>1, <5>2
        <4>3. QED
          BY ONLY <4>2 DEF upTo, older, UpTo
      <3>5. m \notin late
        BY <1>4, <1>5, <3>3
      <3>6. ~(Cardinality(older) >= k)
        BY <3>3, <3>4, <3>5
      <3>7. QED
        BY <1>6, <3>6
    <2>3. QED
      BY <2>1, <2>2
  <1>9. Cardinality(upTo(q)) = k
    BY <1>2, <1>5, <1>6, <1>7, <1>8
  <1>10. QED
    BY <1>5, <1>9

\* What is kept of a phase was resolved before anybody of a later place decided.
LEMMA PurgedIsResolved ==
  ASSUME IsSample(sample), Latest > 0, NEW joined \in SUBSET (1..Latest),
         NEW from \in Nat, NEW to \in Nat, NEW last \in Nat, NEW first \in Nat, to < first,
         NEW r \in Purged(joined, from, to), NEW s \in Phase(joined, first, last)
  PROVE  Outcome(r) < Decision(s)
  <1>1. s \in joined /\ Cardinality(UpTo(joined, s)) \in first..last
    BY DEF Phase, UpTo
  <1>2. Cardinality(UpTo(joined, s)) >= to + 1
    BY <1>1
  <1>3. Latest \in Nat
    BY SampleFacts
  <1>4. PICK q \in joined : q <= s /\ Cardinality(UpTo(joined, q)) = to + 1
    <2>1. PICK n, k : n = Latest /\ k = to + 1
      OBVIOUS
    <2>2. n \in Nat /\ k \in Nat \ {0} /\ joined \in SUBSET (1..n)
      BY <1>3, <2>1
    <2>3. s \in joined /\ Cardinality(UpTo(joined, s)) >= k
      BY <1>1, <1>2, <2>1
    <2>4. \E q \in joined : q <= s /\ Cardinality(UpTo(joined, q)) = k
      BY ONLY <2>2, <2>3, PlacesAreTaken, ZenonT(30)
    <2>5. QED
      BY <2>1, <2>4
  <1>5. q \in Phase(joined, to + 1, to + 1)
    <2>1. Cardinality(UpTo(joined, q)) \in (to + 1)..(to + 1)
      BY <1>4
    <2>2. QED
      BY <1>4, <2>1 DEF Phase, UpTo
  <1>6. Outcome(r) < Decision(q) /\ r \in joined
    BY <1>5 DEF Purged, Phase
  <1>7. Decision(q) <= Decision(s)
    BY <1>1, <1>4, SampleFacts
  <1>8. /\ Outcome(r) \in Nat /\ Decision(q) \in Nat /\ Decision(s) \in Nat
    BY <1>1, <1>4, <1>6, SampleFacts
  <1>9. QED
    BY <1>6, <1>7, <1>8

\* The probability of the current signal is out of fold and forward in time, for samples
\* of every length, delay of publication and embargo: a fold is found by the times of its
\* first and last decision, and these hold no row of another fold.
THEOREM OutOfFold == IsSample(sample) => ProbabilityIsOutOfFold
  <1> SUFFICES ASSUME IsSample(sample), Evaluates PROVE ProbabilityIsOutOfFold
    BY DEF ProbabilityIsOutOfFold
  <1> DEFINE folds  == Outer
             phase  == Calibration(folds)
             joined == Joined(folds)
             n      == Cardinality(joined)
             fitEnd == n \div 2
             selectionEnd == (3 * n) \div 4
  <1>1. Latest > 0 /\ Divisible(1, Latest) /\ Latest \in Nat
    BY SampleFacts DEF Evaluates
  <1>2. joined \in SUBSET (1..Latest) /\ joined \subseteq DevelopmentRows
    BY DEF Joined, DevelopmentRows
  <1>3. n \in Nat
    <2>1. IsFiniteSet(joined)
      BY <1>1, <1>2, FS_Interval, FS_Subset
    <2>2. QED
      BY <2>1, FS_CardinalityType
  <1>4. ASSUME NEW r \in joined
        PROVE  /\ Outcome(r) < Final
               /\ \E f \in folds : /\ r \in f.validation
                                   /\ \A g \in folds \ {f} : r \notin g.validation
                                   /\ \A t \in f.train : Outcome(t) + sample.embargo <= Decision(r)
    <2>1. r \in 1..Latest /\ Outcome(r) < Final
      BY <1>2 DEF DevelopmentRows
    <2>2. PICK f \in folds : FoldEvidence(f).start <= Decision(r) /\ Decision(r) <= FoldEvidence(f).end
      BY DEF Joined
    <2>a. PICK s, e \in 1..Latest : IsFold(f, 1, Latest, s, e)
      <3>1. f \in Folds(1, Latest) /\ 1 \in Nat \ {0} /\ Latest \in 0..Latest
        BY <1>1 DEF Outer
      <3>2. QED
        BY <1>1, <3>1, FoldFacts
    <2>3. /\ f.validation = s..e /\ Min(f.validation) = s /\ Max(f.validation) = e
          /\ f.train \subseteq 1..(s - 1)
          /\ \A t \in f.train : Outcome(t) <= Decision(s) - sample.embargo
      BY <2>a DEF IsFold
    <2>4. Decision(s) <= Decision(r) /\ Decision(r) <= Decision(e)
      BY <2>2, <2>3 DEF FoldEvidence
    <2>5. s <= r /\ r <= e
      BY <1>1, <2>1, <2>3, <2>4, SampleFacts
    <2>6. r \in f.validation
      BY <2>1, <2>3, <2>5
    <2>7. ASSUME NEW g \in folds \ {f} PROVE r \notin g.validation
      <3>1. /\ f \in Folds(1, Latest) /\ g \in Folds(1, Latest) /\ g # f
            /\ 1 \in Nat \ {0} /\ Latest \in 0..Latest
        BY <1>1 DEF Outer
      <3>2. PICK lo \in Nat \ {0}, hi \in 0..Latest : lo = 1 /\ hi = Latest
        BY <3>1
      <3>3. f \in Folds(lo, hi) /\ g \in Folds(lo, hi) /\ Divisible(lo, hi)
        BY <1>1, <3>1, <3>2
      <3>4. ASSUME r \in f.validation \cap g.validation PROVE f = g
        BY <3>3, <3>4, FoldsAreDisjoint
      <3>5. QED
        BY <2>6, <3>1, <3>4
    <2>8. ASSUME NEW t \in f.train PROVE Outcome(t) + sample.embargo <= Decision(r)
      <3>1. t \in 1..Latest
        BY <1>1, <2>3
      <3>2. /\ Outcome(t) \in Nat /\ Decision(s) \in Nat /\ Decision(r) \in Nat /\ sample.embargo \in Nat
        BY <1>1, <2>1, <2>3, <3>1, SampleFacts
      <3>3. QED
        BY <2>3, <2>4, <3>2
    <2>9. QED
      BY <2>1, <2>6, <2>7, <2>8
  <1> HIDE DEF joined, n
  <1>5. /\ fitEnd \in Nat /\ selectionEnd \in Nat /\ fitEnd <= selectionEnd
    BY <1>3
  <1>6. /\ phase.fit = Purged(joined, 1, fitEnd)
        /\ phase.selection = Purged(joined, fitEnd + 1, selectionEnd)
        /\ phase.confirmation = Phase(joined, selectionEnd + 1, n)
    BY DEF Calibration, joined, n
  <1> HIDE DEF phase, fitEnd, selectionEnd
  <1>7. phase.fit \cup phase.selection \cup phase.confirmation \subseteq joined
    BY <1>6 DEF Purged, Phase
  <1>8. phase.selection \subseteq Phase(joined, fitEnd + 1, selectionEnd)
    BY <1>6 DEF Purged
  <1>9. ASSUME NEW r \in phase.fit, NEW s \in phase.selection PROVE Outcome(r) < Decision(s)
    <2>1. fitEnd + 1 \in Nat /\ fitEnd < fitEnd + 1 /\ r \in Purged(joined, 1, fitEnd)
          /\ s \in Phase(joined, fitEnd + 1, selectionEnd)
      BY <1>5, <1>6, <1>8
    <2>2. QED
      BY <1>1, <1>2, <1>5, <2>1, PurgedIsResolved
  <1>10. ASSUME NEW r \in phase.fit, NEW s \in phase.confirmation PROVE Outcome(r) < Decision(s)
    <2>1. selectionEnd + 1 \in Nat /\ fitEnd < selectionEnd + 1 /\ r \in Purged(joined, 1, fitEnd)
          /\ s \in Phase(joined, selectionEnd + 1, n)
      BY <1>5, <1>6
    <2>2. QED
      BY <1>1, <1>2, <1>3, <1>5, <2>1, PurgedIsResolved
  <1>11. ASSUME NEW r \in phase.selection, NEW s \in phase.confirmation PROVE Outcome(r) < Decision(s)
    <2>1. selectionEnd + 1 \in Nat /\ selectionEnd < selectionEnd + 1 /\ fitEnd + 1 \in Nat
          /\ r \in Purged(joined, fitEnd + 1, selectionEnd)
          /\ s \in Phase(joined, selectionEnd + 1, n)
      BY <1>5, <1>6
    <2>2. QED
      BY <1>1, <1>2, <1>3, <1>5, <2>1, PurgedIsResolved
  <1>12. /\ \A r \in phase.fit \cup phase.selection \cup phase.confirmation :
              /\ Outcome(r) < Final
              /\ \E f \in folds : /\ r \in f.validation
                                  /\ \A g \in folds \ {f} : r \notin g.validation
                                  /\ \A t \in f.train : Outcome(t) + sample.embargo <= Decision(r)
         /\ \A r \in phase.fit, s \in phase.selection \cup phase.confirmation : Outcome(r) < Decision(s)
         /\ \A r \in phase.selection, s \in phase.confirmation : Outcome(r) < Decision(s)
    BY <1>4, <1>7, <1>9, <1>10, <1>11
  <1>13. QED
    BY <1>12 DEF ProbabilityIsOutOfFold, phase

-----------------------------------------------------------------------------
(* What one part makes of a sample, the other accepts.                     *)

\* The audit finds the boundary that was sealed: where bars are published before the next
\* one closes, the rows of development are all before the final test but the last one,
\* and the closes at which they end are the decisions that the audit counts.
LEMMA AuditIsPassed == IsSample(sample) => AuditAgrees
  <1> SUFFICES ASSUME IsSample(sample), Evaluates, Sealed,
                      \A r \in 1..Latest : sample.available[r] < sample.close[r + 1]
               PROVE  AuditAccepts
    BY DEF AuditAgrees
  <1> DEFINE F  == FinalFirst(1, Latest)
             at == {FoldEvidence(f).at : f \in Outer}
             S  == {Decision(r) : r \in 1..(F - 1)} \cup at
             T  == {sample.close[r + 1] : r \in DevelopmentRows} \cup at
  <1>1. Latest > 0 /\ Divisible(1, Latest) /\ Latest \in Nat
    BY SampleFacts DEF Evaluates
  <1>2. F \in 2..Latest
    <2>1. 1 \in Nat \ {0} /\ HasBoundary(1, Latest)
      BY <1>1 DEF Divisible
    <2> QED
      BY <1>1, <2>1, FinalFacts
  <1>3. Final = Decision(F) /\ Final \in Nat /\ Final = sample.close[F]
    BY <1>1, <1>2, SampleFacts DEF Final, FinalStart, Decision
  <1> HIDE DEF F
  <1>4. DevelopmentRows = 1..(F - 2)
    <2>1. ASSUME NEW r \in DevelopmentRows PROVE r \in 1..(F - 2)
      <3>1. r \in 1..Latest /\ Decision(r) < Decision(F) /\ Outcome(r) < sample.close[F]
        BY <1>3 DEF DevelopmentRows
      <3>2. r < F
        BY <1>1, <1>2, <3>1, SampleFacts
      <3>3. r + 1 # F
        <4>1. ASSUME r + 1 = F PROVE FALSE
          <5>1. sample.available[F] < sample.close[F]
            BY <3>1, <4>1 DEF Outcome
          <5>2. /\ sample.close[F] <= sample.available[F]
                /\ sample.close[F] \in Nat /\ sample.available[F] \in Nat
            BY <1>1, <1>2, SampleFacts
          <5>3. QED
            BY <5>1, <5>2
        <4>2. QED
          BY <4>1
      <3>4. QED
        BY <1>1, <1>2, <3>1, <3>2, <3>3
    <2>2. ASSUME NEW r \in 1..(F - 2) PROVE r \in DevelopmentRows
      <3>1. r \in 1..Latest /\ r + 1 \in 1..Latest /\ r + 2 \in 1..F /\ r < F
        BY <1>1, <1>2
      <3>2. Outcome(r) < sample.close[r + 2]
        <4>1. sample.available[r + 1] < sample.close[(r + 1) + 1]
          BY <3>1
        <4>2. (r + 1) + 1 = r + 2
          BY <3>1
        <4>3. QED
          BY <4>1, <4>2 DEF Outcome
      <3>3. sample.close[r + 2] <= sample.close[F]
        <4>1. CASE r + 2 = F
          BY <1>3, <4>1
        <4>2. CASE r + 2 < F
          <5>1. r + 2 \in 1..(Latest + 1) /\ F \in 1..(Latest + 1)
            BY <1>1, <1>2, <3>1
          <5>2. sample.close[r + 2] < sample.close[F] /\ sample.close[r + 2] \in Nat
            BY <1>1, <4>2, <5>1, SampleFacts
          <5>3. QED
            BY <1>3, <5>2
        <4>3. QED
          BY <1>1, <1>2, <3>1, <4>1, <4>2
      <3>4. r + 2 \in 1..(Latest + 1) /\ r \in 1..(Latest + 1) /\ F \in 1..(Latest + 1)
        BY <1>1, <1>2, <3>1
      <3>5. Outcome(r) \in Nat /\ sample.close[r + 2] \in Nat /\ sample.close[r] < sample.close[F]
        BY <1>1, <3>1, <3>4, SampleFacts
      <3>6. QED
        BY <1>3, <3>1, <3>2, <3>3, <3>5 DEF DevelopmentRows, Decision
    <2>3. QED
      BY <2>1, <2>2
  <1>5. F >= 3
    <2>1. DevelopmentRows # {}
      BY DEF Sealed
    <2>2. QED
      BY <1>1, <1>2, <1>4, <2>1
  <1>6. ASSUME NEW f \in Outer
        PROVE  FoldEvidence(f).at \in 0..Final
    <2>a. PICK s, e \in 1..Latest : IsFold(f, 1, Latest, s, e)
      <3>1. f \in Folds(1, Latest) /\ 1 \in Nat \ {0} /\ Latest \in 0..Latest
        BY <1>1, <1>6 DEF Outer
      <3>2. QED
        BY <1>1, <3>1, FoldFacts
    <2>1. s <= e /\ f.validation = s..e /\ \A r \in s..e : Outcome(r) < Final
      BY <2>a DEF IsFold, Final
    <2> DEFINE known == {Outcome(r) : r \in f.validation}
    <2>2. known \in SUBSET (0..Final) /\ known # {}
      <3>1. \A r \in s..e : Outcome(r) \in Nat
        <4>1. \A r \in s..e : r \in 1..Latest
          BY <1>1
        <4>2. QED
          BY <1>1, <4>1, SampleFacts
      <3>2. s \in s..e
        BY <2>1
      <3>3. \A r \in f.validation : Outcome(r) \in 0..Final
        BY ONLY <1>3, <2>1, <3>1
      <3>4. s \in f.validation
        BY <2>1, <3>2
      <3>5. QED
        BY ONLY <3>3, <3>4 DEF known
    <2> HIDE DEF known
    <2>3. Max(known) \in known
      BY <1>3, <2>2, GreatestOf
    <2>4. QED
      BY <2>2, <2>3 DEF FoldEvidence, known
  <1>7. at \subseteq 0..Final
    BY <1>6
  <1> HIDE DEF at
  <1>8. \A r \in 1..(F - 1) : Decision(r) \in 0..Final /\ Decision(r) = sample.close[r]
    <2>1. ASSUME NEW r \in 1..(F - 1)
          PROVE  Decision(r) \in 0..Final /\ Decision(r) = sample.close[r]
      <3>1. r \in 1..(Latest + 1) /\ F \in 1..(Latest + 1) /\ r < F
        BY <1>1, <1>2
      <3>2. sample.close[r] < sample.close[F] /\ sample.close[r] \in Nat
        BY <1>1, <3>1, SampleFacts
      <3>3. QED
        BY <1>3, <3>2 DEF Decision
    <2>2. QED
      BY <2>1
  <1>9. T = {Decision(r) : r \in 2..(F - 1)} \cup at
    <2>1. ASSUME NEW r \in 1..(F - 2)
          PROVE  r + 1 \in 2..(F - 1) /\ sample.close[r + 1] = Decision(r + 1)
      BY <1>1, <1>2 DEF Decision
    <2>2. ASSUME NEW r \in 2..(F - 1)
          PROVE  r - 1 \in 1..(F - 2) /\ sample.close[(r - 1) + 1] = Decision(r)
      <3>1. (r - 1) + 1 = r /\ r - 1 \in 1..(F - 2)
        BY <1>1, <1>2
      <3>2. QED
        BY <3>1 DEF Decision
    <2>3. {sample.close[r + 1] : r \in 1..(F - 2)} = {Decision(r) : r \in 2..(F - 1)}
      BY <2>1, <2>2
    <2>4. QED
      BY <1>4, <2>3
  <1>10. S \in SUBSET (0..Final) /\ T \in SUBSET S /\ S # {}
    <2>1. 2..(F - 1) \subseteq 1..(F - 1) /\ 1 \in 1..(F - 1)
      BY <1>1, <1>2
    <2>2. QED
      BY <1>7, <1>8, <1>9, <2>1
  <1>11. \A x \in S : \E y \in T : x <= y
    <2>1. ASSUME NEW x \in S PROVE \E y \in T : x <= y
      <3>1. x \in 0..Final
        BY <1>10
      <3>2. CASE x \in T
        BY <3>1, <3>2
      <3>3. CASE x \notin T
        <4>1. PICK r \in 1..(F - 1) : x = Decision(r)
          BY <1>9, <3>3
        <4>2. r = 1
          <5>1. r \notin 2..(F - 1)
            BY <1>9, <3>3, <4>1
          <5>2. QED
            BY <1>1, <1>2, <4>1, <5>1
        <4>3. 2 \in 2..(F - 1) /\ 1 \in 1..Latest /\ 2 \in 1..Latest
          BY <1>1, <1>2, <1>5
        <4>4. Decision(1) <= Decision(2)
          BY <1>1, <4>3, SampleFacts
        <4>5. Decision(2) \in T
          BY <1>9, <4>3
        <4>6. QED
          BY <4>1, <4>2, <4>4, <4>5
      <3>4. QED
        BY <3>2, <3>3
    <2>2. QED
      BY <2>1
  <1> HIDE DEF S, T
  <1>12. Max(S) = Max(T)
    BY <1>3, <1>10, <1>11, SameGreatest
  <1>13. SealedThrough = AuditedThrough
    BY <1>12 DEF SealedThrough, AuditedThrough, S, T, at, F
  <1>14. QED
    BY <1>13 DEF AuditAccepts, Sealed

\* Learning accepts its own frame and folds, where bars are available when they close.
LEMMA LearningIsAccepted == IsSample(sample) => LearnerAcceptsItsFolds
  <1> SUFFICES ASSUME IsSample(sample), LearnBuilds, sample.available = sample.close
               PROVE  /\ LearnAsOf < Final
                      /\ FrameAccepted
                      /\ \A f \in Folds(LearnFirst, LearnLast) : FoldAccepted(f)
    BY DEF LearnerAcceptsItsFolds
  <1> DEFINE F == FinalFirst(1, Latest)
  <1>1. Latest > 0 /\ Divisible(1, Latest) /\ Latest \in Nat
    BY SampleFacts DEF LearnBuilds, Evaluates
  <1>2. F \in 2..Latest
    <2>1. 1 \in Nat \ {0} /\ HasBoundary(1, Latest)
      BY <1>1 DEF Divisible
    <2> QED
      BY <1>1, <2>1, FinalFacts
  <1>3. Final = sample.close[F] /\ LearnAsOf = sample.close[F - 1] /\ LearnLast = F - 2
    BY DEF Final, FinalStart, LearnAsOf, LearnLast, Decision
  <1> HIDE DEF F
  <1>4. /\ LearnFirst \in Nat \ {0} /\ LearnLast \in 0..Latest /\ Divisible(LearnFirst, LearnLast)
    BY <1>1, <1>2, <1>3, WalkForwardAssumption DEF LearnFirst, LearnBuilds
  <1>5. \A r \in 1..(Latest + 1) : sample.close[r] \in Nat
    BY <1>1, SampleFacts
  <1>6. \A r, q \in 1..(Latest + 1) : r < q => sample.close[r] < sample.close[q]
    BY <1>1, SampleFacts
  <1>7. LearnAsOf < Final
    BY <1>1, <1>2, <1>3, <1>6
  <1>8. FrameAccepted
    <2>1. ASSUME NEW r \in LearnFirst..LearnLast
          PROVE  /\ Decision(r) < Final /\ sample.available[r] < Final
                 /\ sample.available[r] <= LearnAsOf /\ sample.available[r] <= Decision(r)
                 /\ Outcome(r) <= LearnAsOf /\ Outcome(r) > Decision(r)
      <3>1. /\ r \in 1..(Latest + 1) /\ r + 1 \in 1..(Latest + 1) /\ F - 1 \in 1..(Latest + 1)
            /\ F \in 1..(Latest + 1) /\ r < F /\ r < F - 1 /\ r < r + 1
            /\ r + 1 < F - 1 \/ r + 1 = F - 1
        BY <1>1, <1>2, <1>3, <1>4
      <3>2. /\ Decision(r) = sample.close[r] /\ sample.available[r] = sample.close[r]
            /\ Outcome(r) = sample.close[r + 1]
        BY DEF Decision, Outcome
      <3>3. /\ sample.close[r] < sample.close[F] /\ sample.close[r] < sample.close[F - 1]
            /\ sample.close[r] < sample.close[r + 1]
            /\ sample.close[r + 1] < sample.close[F - 1] \/ sample.close[r + 1] = sample.close[F - 1]
        BY <1>6, <3>1
      <3>4. /\ sample.close[r] \in Nat /\ sample.close[r + 1] \in Nat
            /\ sample.close[F - 1] \in Nat /\ sample.close[F] \in Nat
        BY <1>5, <3>1
      <3>5. QED
        BY <1>3, <3>2, <3>3, <3>4
    <2>2. QED
      BY <2>1 DEF FrameAccepted
  <1>9. ASSUME NEW f \in Folds(LearnFirst, LearnLast) PROVE FoldAccepted(f)
    <2>a. PICK s, e \in LearnFirst..LearnLast : IsFold(f, LearnFirst, LearnLast, s, e)
      BY <1>4, FoldFacts
    <2>1. /\ s <= e /\ f.validation = s..e /\ Min(f.validation) = s
          /\ f.train # {} /\ f.train \subseteq LearnFirst..(s - 1)
          /\ \A t \in f.train : Outcome(t) <= Decision(s) - sample.embargo
      BY <2>a DEF IsFold
    <2>2. /\ LearnFirst \in Nat /\ LearnFirst >= 1 /\ LearnLast \in Nat /\ LearnLast <= Latest
          /\ Latest \in Nat /\ s \in Nat /\ e \in Nat /\ LearnFirst <= s /\ e <= LearnLast
      BY <1>1, <1>4, <2>1
    <2>3. f.validation # {} /\ f.train \cup f.validation \subseteq LearnFirst..LearnLast
      <3>1. s \in f.validation /\ f.validation \subseteq LearnFirst..LearnLast
        BY ONLY <2>1, <2>2
      <3>2. LearnFirst..(s - 1) \subseteq LearnFirst..LearnLast
        BY ONLY <2>1, <2>2
      <3>3. QED
        BY <2>1, <3>1, <3>2
    <2>4. ASSUME NEW r \in f.train
          PROVE  Decision(r) < Decision(s) /\ Outcome(r) <= Decision(s)
      <3>1. r \in 1..Latest /\ s \in 1..Latest /\ r < s
        <4>1. r \in LearnFirst..(s - 1)
          BY <2>1
        <4>2. QED
          BY ONLY <2>1, <2>2, <4>1
      <3>2. /\ Outcome(r) \in Nat /\ Decision(s) \in Nat /\ sample.embargo \in Nat
            /\ Decision(r) \in Nat /\ ~(Decision(s) <= Decision(r))
        BY <1>1, <3>1, SampleFacts
      <3>3. Outcome(r) <= Decision(s) - sample.embargo
        BY <2>1
      <3>4. QED
        BY <3>2, <3>3
    <2>5. QED
      BY <2>1, <2>3, <2>4 DEF FoldAccepted
  <1>10. QED
    BY <1>7, <1>8, <1>9

\* The evidence that an evaluation seals passes the audit written apart from it, and
\* learning is never refused what it made itself, for samples of every length.
THEOREM DownstreamAccepts == IsSample(sample) => AcceptedDownstream
  BY AuditIsPassed, LearningIsAccepted DEF AcceptedDownstream
=============================================================================
