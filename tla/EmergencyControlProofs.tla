------------------------- MODULE EmergencyControlProofs -------------------------
(***************************************************************************)
(* Theorems about EmergencyControl for every set of symbols, every bound   *)
(* and every behaviour of the broker; and, in the second half, about       *)
(* ContextualEvidence for every set of assets, every request, every        *)
(* ranking of a cohort and every correlation of the assets.                *)
(***************************************************************************)
EXTENDS EmergencyControl, ContextualEvidence, SequenceTheorems, FiniteSetTheorems,
        NaturalsInduction, TLAPS

LEMMA CloseIdFacts ==
  ASSUME NEW id \in CloseIds
  PROVE  /\ id[1] \in Symbols
         /\ id[2] \in Quantities /\ id[2] \in Int /\ id[2] # 0
         /\ id = CloseId(id[1], id[2])
         /\ Size(id[2]) \in 1..Units
  BY EmergencyAssumption DEF CloseIds, Quantities, CloseId, Size

\* Cancelling everything leaves every working order as it was or at nothing.
LEMMA CancelAllFacts ==
  ASSUME TypeOK, CancelAllOrders
  PROVE  /\ entry' \in [Symbols -> -Units .. Units]
         /\ closes' \in [CloseIds -> 0..Units]
         /\ \A s \in Symbols : entry'[s] \in {0, entry[s]}
         /\ \A id \in CloseIds : closes'[id] \in {0, closes[id]}
  <1>1. PICK done \in SUBSET Symbols, dead \in SUBSET {id \in CloseIds : closes[id] > 0} :
          /\ entry' = [s \in Symbols |-> IF s \in done THEN 0 ELSE entry[s]]
          /\ closes' = [id \in CloseIds |-> IF id \in dead THEN 0 ELSE closes[id]]
    BY DEF CancelAllOrders
  <1>2. 0 \in 0..Units /\ 0 \in -Units .. Units
    BY EmergencyAssumption
  <1>3. QED
    BY <1>1, <1>2 DEF TypeOK

\* Every variable keeps its type, for all constants.
THEOREM TypeCorrect == Spec => []TypeOK
  <1>1. ASSUME Init PROVE TypeOK
    <2>1. 0 \in -Units .. Units /\ 0 \in 0..Units /\ 0 \in 0..Attempts /\ 0 \in 0..MaxCalls
      BY EmergencyAssumption
    <2>2. QED
      BY <1>1, <2>1 DEF Init, TypeOK, Outcomes
  <1>2. TypeOK /\ [Next]_vars => TypeOK'
    <2> SUFFICES ASSUME TypeOK, [Next]_vars PROVE TypeOK'
      OBVIOUS
    <2> USE DEF controller, broker
    <2>1. ASSUME FreezeFirst \/ FreezeAgain
          PROVE  /\ frozen' \in BOOLEAN /\ cancelled' \in BOOLEAN /\ outcome' \in Outcomes
                 /\ UNCHANGED <<position, used, late, crossed>>
                 /\ entry' \in [Symbols -> -Units .. Units]
                 /\ closes' \in [CloseIds -> 0..Units]
      <3>1. CASE FreezeFirst
        BY <3>1, CancelAllFacts DEF FreezeFirst, TypeOK, Outcomes
      <3>2. CASE FreezeAgain
        BY <3>2 DEF FreezeAgain, TypeOK, Outcomes
      <3>3. QED
        BY <2>1, <3>1, <3>2
    <2>2. ASSUME Called PROVE calls' \in 0..MaxCalls
      BY <2>2, EmergencyAssumption DEF Called, TypeOK
    <2>3. CASE Freeze
      BY <2>1, <2>2, <2>3 DEF Freeze, TypeOK
    <2>4. CASE Flatten
      BY <2>1, <2>2, <2>4 DEF Flatten, TypeOK
    <2>5. CASE FlattenRejected
      BY <2>2, <2>5 DEF FlattenRejected, TypeOK, Outcomes
    <2>6. CASE Proceed
      <3>1. CASE ListPositions
        BY <3>1 DEF ListPositions, TypeOK
      <3>2. ASSUME NEW s \in Symbols, SubmitClose(s) PROVE TypeOK'
        <4>1. CloseId(s, seen[s]) \in CloseIds
          BY <3>2 DEF SubmitClose, CloseId, CloseIds, Quantities, TypeOK
        <4>2. /\ closes' \in [CloseIds -> 0..Units]
              /\ used' \subseteq CloseIds /\ late' \subseteq CloseIds
          BY <3>2, <4>1, CloseIdFacts DEF SubmitClose, SendClose, TypeOK
        <4>3. seen' \in [Symbols -> -Units .. Units]
          BY <3>2, EmergencyAssumption DEF SubmitClose, TypeOK
        <4>4. QED
          BY <3>2, <4>2, <4>3 DEF SubmitClose, TypeOK
      <3>3. CASE AllSubmitted
        BY <3>3, EmergencyAssumption DEF AllSubmitted, TypeOK
      <3>4. CASE Verified \/ StillOpen \/ Unresolved
        BY <3>4, EmergencyAssumption DEF Verified, StillOpen, Unresolved, TypeOK, Outcomes
      <3>5. QED
        BY <2>6, <3>1, <3>2, <3>3, <3>4 DEF Proceed
    <2>7. ASSUME NEW s \in Symbols, EntryFills(s) PROVE TypeOK'
      <3>1. PICK unit \in {1, -1} :
              /\ entry[s] * unit > 0
              /\ position[s] + unit \in -Units .. Units
              /\ entry' = [entry EXCEPT ![s] = @ - unit]
              /\ position' = [position EXCEPT ![s] = @ + unit]
        BY <2>7 DEF EntryFills
      <3>2. entry[s] - unit \in -Units .. Units
        BY <3>1, EmergencyAssumption DEF TypeOK
      <3>3. QED
        BY <2>7, <3>1, <3>2 DEF EntryFills, TypeOK
    <2>8. ASSUME NEW s \in Symbols, EntryEnds(s) PROVE TypeOK'
      BY <2>8, EmergencyAssumption DEF EntryEnds, TypeOK
    <2>9. ASSUME NEW id \in CloseIds, CloseFills(id) PROVE TypeOK'
      <3>1. PICK amount \in 1..closes[id], after \in -Units .. Units :
              /\ position' = [position EXCEPT ![id[1]] = after]
              /\ closes' = [closes EXCEPT ![id] = @ - amount]
        BY <2>9 DEF CloseFills
      <3>2. closes[id] - amount \in 0..Units
        BY <3>1, EmergencyAssumption DEF TypeOK
      <3>3. closes' \in [CloseIds -> 0..Units] /\ position' \in [Symbols -> -Units .. Units]
        BY <3>1, <3>2 DEF TypeOK
      <3>4. QED
        BY <2>9, <3>3 DEF CloseFills, TypeOK
    <2>10. ASSUME NEW id \in CloseIds, CloseEnds(id) \/ LateArrives(id) PROVE TypeOK'
      BY <2>10, EmergencyAssumption, CloseIdFacts DEF CloseEnds, LateArrives, TypeOK
    <2>11. CASE FlattenRaises
      BY <2>11, EmergencyAssumption DEF FlattenRaises, TypeOK, Outcomes
    <2>12. CASE UNCHANGED vars
      BY <2>12 DEF vars, TypeOK
    <2>13. QED
      BY <2>3, <2>4, <2>5, <2>6, <2>7, <2>8, <2>9, <2>10, <2>11, <2>12 DEF Next
  <1>3. QED
    BY <1>1, <1>2, PTL DEF Spec

\* The two parts of CloseInv, and the part that is about one symbol.
Accepted == \A s \in Symbols, q \in Quantities :
  closes[CloseId(s, q)] <= Size(q) /\ (closes[CloseId(s, q)] > 0 => CloseId(s, q) \in used)

OneClose(s) == \A q \in Quantities : Outstanding(s, q) =>
  /\ Holds(s, q, Left(s, q))
  /\ IF q > 0 THEN entry[s] >= 0 ELSE entry[s] <= 0
  /\ \A r \in Quantities \ {q} : ~Outstanding(s, r)

LEMMA CloseInvParts == CloseInv <=> Accepted /\ \A s \in Symbols \ crossed : OneClose(s)
  BY DEF CloseInv, Accepted, OneClose

LEMMA CloseInvPartsNext == CloseInv' <=> Accepted' /\ \A s \in Symbols \ crossed' : OneClose(s)'
  BY DEF CloseInv, Accepted, OneClose

\* No close of a symbol is outstanding that was not before, none is larger than it
\* was, its position is as it was and its entry order as it was or gone.
LEMMA NoNewClose ==
  ASSUME TypeOK, NEW s \in Symbols, OneClose(s),
         position'[s] = position[s], entry'[s] \in {0, entry[s]},
         \A q \in Quantities : Outstanding(s, q)' =>
           Outstanding(s, q) /\ Left(s, q)' = Left(s, q)
  PROVE  OneClose(s)'
  <1>1. \A q \in Quantities : Holds(s, q, Left(s, q)) /\ Left(s, q)' = Left(s, q)
                                => Holds(s, q, Left(s, q))'
    BY DEF Holds
  <1>2. QED
    BY <1>1 DEF OneClose

\* A step that only takes orders or requests away, or leaves the broker alone.
LEMMA FewerOrders ==
  ASSUME TypeOK, CloseInv, UNCHANGED <<position, used, crossed>>,
         \A s \in Symbols : entry'[s] \in {0, entry[s]},
         \A id \in CloseIds : closes'[id] \in {0, closes[id]},
         late' \subseteq late,
         \A s \in Symbols : seen'[s] \in {0, seen[s]}
  PROVE  CloseInv'
  <1>1. \A s \in Symbols, q \in Quantities : CloseId(s, q) \in CloseIds
    BY DEF CloseIds, CloseId
  <1>2. Accepted'
    <2>1. \A q \in Quantities : 0 <= Size(q)
      BY EmergencyAssumption DEF Size, Quantities
    <2>2. ASSUME NEW s \in Symbols, NEW q \in Quantities
          PROVE  /\ closes'[CloseId(s, q)] <= Size(q)
                 /\ closes'[CloseId(s, q)] > 0 => CloseId(s, q) \in used
      <3>1. closes'[CloseId(s, q)] \in {0, closes[CloseId(s, q)]}
        BY <1>1
      <3>2. Accepted
        BY CloseInvParts
      <3>3. QED
        BY <2>1, <3>1, <3>2 DEF Accepted
    <2>3. QED
      BY <2>2 DEF Accepted, CloseId, Size
  <1>3. ASSUME NEW s \in Symbols \ crossed PROVE OneClose(s)'
    <2>1. ASSUME NEW q \in Quantities, Outstanding(s, q)'
          PROVE  Outstanding(s, q) /\ Left(s, q)' = Left(s, q)
      <3>1. closes'[CloseId(s, q)] \in {0, closes[CloseId(s, q)]}
        BY <1>1
      <3>2. q # 0
        BY DEF Quantities
      <3>3. closes'[CloseId(s, q)] > 0 \/ CloseId(s, q) \notin used
        BY <2>1 DEF Outstanding, CloseId
      <3>4. closes[CloseId(s, q)] > 0 => CloseId(s, q) \in used
        BY CloseInvParts DEF Accepted
      <3>5. Outstanding(s, q)
        BY <2>1, <3>1, <3>2 DEF Outstanding, CloseId
      <3>6. Left(s, q)' = Left(s, q)
        BY <3>1, <3>3, <3>4 DEF Left, CloseId, Size
      <3>7. QED
        BY <3>5, <3>6
    <2>2. QED
      BY <2>1, NoNewClose, CloseInvParts
  <1>4. QED
    BY <1>2, <1>3, CloseInvPartsNext

LEMMA CloseStep == TypeOK /\ CloseInv /\ [Next]_vars => CloseInv'
  <1> SUFFICES ASSUME TypeOK, CloseInv, [Next]_vars PROVE CloseInv'
    OBVIOUS
  <1> USE DEF controller, broker
  <1>a. Accepted /\ \A s \in Symbols \ crossed : OneClose(s)
    BY CloseInvParts
  <1>b. \A s \in Symbols, q \in Quantities : CloseId(s, q) \in CloseIds
    BY DEF CloseIds, CloseId
  <1>1. CASE Freeze \/ Flatten
    <2>1. CASE FreezeFirst
      BY <1>1, <2>1, CancelAllFacts, FewerOrders DEF FreezeFirst, Freeze, Flatten
    <2>2. CASE FreezeAgain
      BY <1>1, <2>2, FewerOrders DEF FreezeAgain, Freeze, Flatten
    <2>3. QED
      BY <1>1, <2>1, <2>2 DEF Freeze, Flatten
  <1>2. CASE FlattenRejected
    BY <1>2, FewerOrders DEF FlattenRejected
  <1>3. CASE ListPositions
    <2>1. Accepted'
      BY <1>a, <1>3 DEF ListPositions, Accepted, CloseId, Size
    <2>2. ASSUME NEW s \in Symbols \ crossed' PROVE OneClose(s)'
      <3>1. ~OtherOrders(s)
        BY <1>3, <2>2 DEF ListPositions
      <3>2. ASSUME NEW q \in Quantities, Outstanding(s, q)' PROVE q = position[s]
        BY <1>3, <3>1, <3>2 DEF ListPositions, OtherOrders, Outstanding, CloseId, TypeOK
      <3>3. ASSUME NEW q \in Quantities, Outstanding(s, q)' PROVE Holds(s, q, Left(s, q))'
        <4>1. q = position[s] /\ q \in Int /\ q # 0
          BY <3>2, <3>3, EmergencyAssumption DEF Quantities
        <4>2. closes[CloseId(s, q)] <= Size(q) /\ closes[CloseId(s, q)] \in 0..Units
          BY <1>a, <1>b DEF Accepted, TypeOK
        <4>3. Left(s, q) <= Size(q) /\ Left(s, q) \in Int
          BY <4>1, <4>2, EmergencyAssumption DEF Left, Size
        <4>4. Left(s, q)' = Left(s, q)
          BY <1>3 DEF ListPositions, Left, CloseId, Size
        <4>5. position'[s] = position[s]
          BY <1>3 DEF ListPositions
        <4>6. QED
          BY <4>1, <4>3, <4>4, <4>5 DEF Holds, Size
      <3>4. ASSUME NEW q \in Quantities, Outstanding(s, q)'
            PROVE  IF q > 0 THEN entry'[s] >= 0 ELSE entry'[s] <= 0
        <4>1. q = position[s] /\ q \in Int /\ q # 0 /\ entry[s] \in Int
          BY <3>2, <3>4, EmergencyAssumption DEF Quantities, TypeOK
        <4>2. QED
          BY <1>3, <3>1, <4>1 DEF ListPositions, OtherOrders
      <3>5. QED
        BY <3>2, <3>3, <3>4 DEF OneClose
    <2>3. QED
      BY <2>1, <2>2, CloseInvPartsNext
  <1>4. ASSUME NEW s \in Symbols, SubmitClose(s) PROVE CloseInv'
    <2> DEFINE id == CloseId(s, seen[s])
    <2>1. /\ id \in CloseIds /\ seen[s] \in Quantities /\ id[2] = seen[s]
          /\ Size(id[2]) \in 1..Units
      BY <1>4, CloseIdFacts DEF SubmitClose, CloseId, CloseIds, Quantities, TypeOK
    <2>2. /\ \/ /\ id \notin used
                /\ used' = used \cup {id}
                /\ closes' = [closes EXCEPT ![id] = Size(id[2])]
                /\ late' = late
             \/ closes' = closes /\ used' = used /\ late' \in {late, late \cup {id}}
          /\ UNCHANGED <<position, entry, crossed>>
          /\ \A t \in Symbols : seen'[t] = 0 \/ seen'[t] = seen[t]
      BY <1>4 DEF SubmitClose, SendClose, TypeOK
    <2>3. \A t \in Symbols, q \in Quantities :
            CloseId(t, q) = id => t = s /\ q = seen[s]
      BY DEF CloseId
    <2>4. Accepted'
      <3>1. ASSUME NEW t \in Symbols, NEW q \in Quantities
            PROVE  /\ closes'[CloseId(t, q)] <= Size(q)
                   /\ closes'[CloseId(t, q)] > 0 => CloseId(t, q) \in used'
        <4>1. CASE CloseId(t, q) = id
          BY <1>a, <2>1, <2>2, <2>3, <4>1 DEF Accepted, TypeOK
        <4>2. CASE CloseId(t, q) # id
          BY <1>a, <1>b, <2>2, <4>2 DEF Accepted, TypeOK
        <4>3. QED
          BY <4>1, <4>2
      <3>2. QED
        BY <3>1 DEF Accepted, CloseId, Size
    <2>5. ASSUME NEW t \in Symbols \ crossed PROVE OneClose(t)'
      <3>1. ASSUME NEW q \in Quantities, Outstanding(t, q)'
            PROVE  Outstanding(t, q) /\ Left(t, q)' = Left(t, q)
        <4>1. q # 0
          BY DEF Quantities
        <4>2. CASE CloseId(t, q) = id
          <5>1. t = s /\ q = seen[s]
            BY <2>3, <4>2
          <5>2. CASE id \notin used
            <6>1. Outstanding(t, q)
              BY <4>2, <5>1, <5>2 DEF Outstanding
            <6>2. ~(closes[CloseId(t, q)] > 0)
              BY <1>a, <4>2, <5>2 DEF Accepted
            <6>3. closes'[CloseId(t, q)] \in {closes[CloseId(t, q)], Size(q)}
              BY <2>1, <2>2, <4>2, <5>1 DEF TypeOK
            <6>4. Left(t, q)' = Left(t, q)
              BY <6>2, <6>3 DEF Left, CloseId, Size
            <6>5. QED
              BY <6>1, <6>4
          <5>3. CASE id \in used
            <6>1. closes' = closes /\ used' = used
              BY <2>2, <5>3
            <6>2. closes[CloseId(t, q)] > 0
              BY <3>1, <4>2, <5>3, <6>1 DEF Outstanding, CloseId
            <6>3. QED
              BY <6>1, <6>2 DEF Outstanding, Left, CloseId, Size
          <5>4. QED
            BY <5>2, <5>3
        <4>3. CASE CloseId(t, q) # id
          <5>1. /\ closes'[CloseId(t, q)] = closes[CloseId(t, q)]
                /\ CloseId(t, q) \in used' <=> CloseId(t, q) \in used
                /\ CloseId(t, q) \in late' <=> CloseId(t, q) \in late
            BY <1>b, <2>2, <4>3 DEF TypeOK
          <5>2. QED
            BY <2>2, <3>1, <4>1, <5>1 DEF Outstanding, Left, CloseId, Size
        <4>4. QED
          BY <4>2, <4>3
      <3>2. QED
        BY <1>a, <2>2, <3>1, NoNewClose
    <2>6. QED
      BY <2>2, <2>4, <2>5, CloseInvPartsNext
  <1>5. CASE AllSubmitted \/ Verified \/ StillOpen \/ Unresolved
    BY <1>5, FewerOrders DEF AllSubmitted, Verified, StillOpen, Unresolved
  <1>6. CASE FlattenRaises
    BY <1>6, FewerOrders DEF FlattenRaises
  <1>7. ASSUME NEW s \in Symbols, EntryFills(s) PROVE CloseInv'
    <2>1. PICK unit \in {1, -1} :
            /\ entry[s] * unit > 0
            /\ entry' = [entry EXCEPT ![s] = @ - unit]
            /\ position' = [position EXCEPT ![s] = @ + unit]
      BY <1>7 DEF EntryFills
    <2>2. UNCHANGED <<closes, used, late, seen, crossed>>
      BY <1>7 DEF EntryFills
    <2>3. Accepted'
      BY <1>a, <2>2 DEF Accepted, CloseId, Size
    <2>4. ASSUME NEW t \in Symbols, NEW q \in Quantities
          PROVE  Outstanding(t, q)' = Outstanding(t, q) /\ Left(t, q)' = Left(t, q)
      BY <2>2 DEF Outstanding, Left, CloseId, Size
    <2>5. ASSUME NEW t \in Symbols \ crossed PROVE OneClose(t)'
      <3>1. CASE t # s
        BY <1>a, <2>1, <2>4, <3>1, NoNewClose DEF TypeOK
      <3>2. CASE t = s
        <4>1. /\ entry'[t] = entry[t] - unit /\ position'[t] = position[t] + unit
              /\ entry[t] \in Int /\ position[t] \in Int
          BY <2>1, <3>2, EmergencyAssumption DEF TypeOK
        <4>2. ASSUME NEW q \in Quantities, Outstanding(t, q)
              PROVE  /\ Holds(t, q, Left(t, q))'
                     /\ IF q > 0 THEN entry'[t] >= 0 ELSE entry'[t] <= 0
          <5>1. /\ Holds(t, q, Left(t, q))
                /\ IF q > 0 THEN entry[t] >= 0 ELSE entry[t] <= 0
            BY <1>a, <4>2 DEF OneClose
          <5>2. Left(t, q) \in Int /\ q \in Int
            BY <1>b, EmergencyAssumption DEF Left, Size, Quantities, TypeOK
          <5>3. unit = IF q > 0 THEN 1 ELSE -1
            <6>1. CASE unit = 1
              <7>1. entry[t] > 0
                BY <2>1, <3>2, <4>1, <6>1
              <7>2. QED
                BY <4>1, <5>1, <6>1, <7>1
            <6>2. CASE unit = -1
              <7>1. entry[t] < 0
                BY <2>1, <3>2, <4>1, <6>2
              <7>2. QED
                BY <4>1, <5>1, <6>2, <7>1
            <6>3. QED
              BY <6>1, <6>2
          <5>4. Holds(t, q, Left(t, q))'
            BY <2>4, <4>1, <5>1, <5>2, <5>3 DEF Holds
          <5>5. IF q > 0 THEN entry'[t] >= 0 ELSE entry'[t] <= 0
            <6>1. entry[t] * unit > 0
              BY <2>1, <3>2
            <6>2. CASE q > 0
              BY <4>1, <5>3, <6>1, <6>2
            <6>3. CASE ~(q > 0)
              BY <4>1, <5>3, <6>1, <6>3
            <6>4. QED
              BY <6>2, <6>3
          <5>6. QED
            BY <5>4, <5>5
        <4>3. QED
          BY <1>a, <2>4, <4>2 DEF OneClose
      <3>3. QED
        BY <3>1, <3>2
    <2>6. QED
      BY <2>2, <2>3, <2>5, CloseInvPartsNext
  <1>8. ASSUME NEW s \in Symbols, EntryEnds(s) PROVE CloseInv'
    <2>1. \A t \in Symbols : entry'[t] \in {0, entry[t]}
      BY <1>8 DEF EntryEnds, TypeOK
    <2>2. QED
      BY <1>8, <2>1, FewerOrders DEF EntryEnds
  <1>9. ASSUME NEW id \in CloseIds, CloseFills(id) PROVE CloseInv'
    <2>1. /\ id[1] \in Symbols /\ id[2] \in Quantities /\ id[2] \in Int /\ id[2] # 0
          /\ id = CloseId(id[1], id[2])
      BY CloseIdFacts
    <2>2. PICK amount \in 1..closes[id] :
            /\ position' = [position EXCEPT ![id[1]]
                              = position[id[1]] - (IF id[2] > 0 THEN amount ELSE -amount)]
            /\ closes' = [closes EXCEPT ![id] = closes[id] - amount]
      BY <1>9 DEF CloseFills
    <2>3. /\ UNCHANGED <<seen, entry, used, late, crossed>>
          /\ closes[id] \in Int /\ closes[id] > 0 /\ amount \in Int /\ amount > 0
          /\ id \in used
      <3>1. UNCHANGED <<seen, entry, used, late, crossed>> /\ closes[id] > 0
        BY <1>9 DEF CloseFills
      <3>2. closes[id] \in Int /\ amount \in Int /\ amount > 0
        BY EmergencyAssumption DEF TypeOK
      <3>3. id \in used
        BY <1>a, <2>1, <3>1 DEF Accepted
      <3>4. QED
        BY <3>1, <3>2, <3>3
    <2>4. \A t \in Symbols, q \in Quantities :
            closes'[CloseId(t, q)] = IF CloseId(t, q) = id THEN closes[id] - amount
                                     ELSE closes[CloseId(t, q)]
      BY <1>b, <2>2 DEF TypeOK
    <2>5. \A t \in Symbols, q \in Quantities :
            CloseId(t, q) = id <=> t = id[1] /\ q = id[2]
      BY <2>1 DEF CloseId
    <2>6. Accepted'
      <3>1. ASSUME NEW t \in Symbols, NEW q \in Quantities
            PROVE  /\ closes'[CloseId(t, q)] <= Size(q)
                   /\ closes'[CloseId(t, q)] > 0 => CloseId(t, q) \in used
        <4>1. /\ closes[CloseId(t, q)] \in Int /\ Size(q) \in Int
              /\ closes[CloseId(t, q)] <= Size(q)
              /\ closes[CloseId(t, q)] > 0 => CloseId(t, q) \in used
          BY <1>a, <1>b, EmergencyAssumption DEF Accepted, TypeOK, Size, Quantities
        <4>2. QED
          BY <2>3, <2>4, <4>1
      <3>2. QED
        BY <2>3, <3>1 DEF Accepted, CloseId, Size
    <2>7. ASSUME NEW t \in Symbols \ crossed PROVE OneClose(t)'
      <3>1. ASSUME NEW q \in Quantities, Outstanding(t, q)' PROVE Outstanding(t, q)
        BY <2>3, <2>4, <3>1 DEF Outstanding, CloseId
      <3>2. CASE t # id[1]
        <4>1. \A q \in Quantities : Left(t, q)' = Left(t, q)
          BY <2>4, <2>5, <3>2 DEF Left, CloseId, Size
        <4>2. position'[t] = position[t] /\ entry'[t] = entry[t]
          BY <2>2, <2>3, <3>2 DEF TypeOK
        <4>3. QED
          BY <1>a, <3>1, <4>1, <4>2, NoNewClose
      <3>3. CASE t = id[1]
        <4>1. /\ Holds(t, id[2], closes[id])
              /\ IF id[2] > 0 THEN entry[t] >= 0 ELSE entry[t] <= 0
              /\ \A r \in Quantities \ {id[2]} : ~Outstanding(t, r)
          <5>1. Outstanding(t, id[2]) /\ Left(t, id[2]) = closes[id]
            BY <2>1, <2>3, <3>3 DEF Outstanding, Left
          <5>2. QED
            BY <1>a, <2>1, <5>1 DEF OneClose
        <4>2. ASSUME NEW q \in Quantities, Outstanding(t, q)' PROVE q = id[2]
          BY <3>1, <4>1, <4>2
        <4>3. ASSUME NEW q \in Quantities, Outstanding(t, q)' PROVE Holds(t, q, Left(t, q))'
          <5>1. q = id[2] /\ CloseId(t, q) = id
            BY <2>5, <3>3, <4>2, <4>3
          <5>2. closes'[CloseId(t, q)] > 0
            BY <2>3, <4>3, <5>1 DEF Outstanding, CloseId
          <5>3. Left(t, q)' = closes[id] - amount
            BY <2>4, <5>1, <5>2 DEF Left, CloseId, Size
          <5>4. /\ position[t] \in Int
                /\ position'[t] = position[t] - (IF id[2] > 0 THEN amount ELSE -amount)
            BY <2>2, <3>3, EmergencyAssumption DEF TypeOK
          <5>5. QED
            BY <2>1, <2>3, <4>1, <5>1, <5>3, <5>4 DEF Holds
        <4>4. QED
          BY <2>3, <3>1, <4>1, <4>2, <4>3 DEF OneClose
      <3>4. QED
        BY <3>2, <3>3
    <2>8. QED
      BY <2>3, <2>6, <2>7, CloseInvPartsNext
  <1>10. ASSUME NEW id \in CloseIds, CloseEnds(id) PROVE CloseInv'
    <2>1. \A other \in CloseIds : closes'[other] \in {0, closes[other]}
      BY <1>10 DEF CloseEnds, TypeOK
    <2>2. QED
      BY <1>10, <2>1, FewerOrders DEF CloseEnds
  <1>11. ASSUME NEW id \in CloseIds, LateArrives(id) PROVE CloseInv'
    <2>1. CASE UNCHANGED <<used, closes>>
      BY <1>11, <2>1, FewerOrders DEF LateArrives
    <2>2. CASE /\ id \notin used
               /\ used' = used \cup {id}
               /\ closes' = [closes EXCEPT ![id] = Size(id[2])]
      <3>1. id \in late /\ late' = late \ {id} /\ UNCHANGED <<position, entry, seen, crossed>>
        BY <1>11 DEF LateArrives
      <3>2. \A t \in Symbols, q \in Quantities :
              CloseId(t, q) = id => q = id[2]
        BY CloseIdFacts DEF CloseId
      <3>3. Accepted'
        <4>1. ASSUME NEW t \in Symbols, NEW q \in Quantities
              PROVE  /\ closes'[CloseId(t, q)] <= Size(q)
                     /\ closes'[CloseId(t, q)] > 0 => CloseId(t, q) \in used'
          <5>1. CASE CloseId(t, q) = id
            BY <2>2, <3>2, <5>1, CloseIdFacts DEF TypeOK
          <5>2. CASE CloseId(t, q) # id
            BY <1>a, <1>b, <2>2, <5>2 DEF Accepted, TypeOK
          <5>3. QED
            BY <5>1, <5>2
        <4>2. QED
          BY <4>1 DEF Accepted, CloseId, Size
      <3>4. ASSUME NEW t \in Symbols \ crossed PROVE OneClose(t)'
        <4>1. ASSUME NEW q \in Quantities, Outstanding(t, q)'
              PROVE  Outstanding(t, q) /\ Left(t, q)' = Left(t, q)
          <5>1. CASE CloseId(t, q) = id
            <6>1. Outstanding(t, q)
              BY <2>2, <3>1, <5>1 DEF Outstanding
            <6>2. ~(closes[CloseId(t, q)] > 0)
              BY <1>a, <2>2, <5>1 DEF Accepted
            <6>3. closes'[CloseId(t, q)] = Size(q)
              BY <2>2, <3>2, <5>1 DEF TypeOK
            <6>4. QED
              BY <6>1, <6>2, <6>3 DEF Left, CloseId, Size
          <5>2. CASE CloseId(t, q) # id
            <6>1. /\ closes'[CloseId(t, q)] = closes[CloseId(t, q)]
                  /\ CloseId(t, q) \in used' <=> CloseId(t, q) \in used
                  /\ CloseId(t, q) \in late' <=> CloseId(t, q) \in late
              BY <1>b, <2>2, <3>1, <5>2 DEF TypeOK
            <6>2. QED
              BY <3>1, <4>1, <6>1 DEF Outstanding, Left, CloseId, Size
          <5>3. QED
            BY <5>1, <5>2
        <4>2. QED
          BY <1>a, <3>1, <4>1, NoNewClose
      <3>5. QED
        BY <3>1, <3>3, <3>4, CloseInvPartsNext
    <2>3. QED
      BY <1>11, <2>1, <2>2 DEF LateArrives
  <1>12. CASE UNCHANGED vars
    BY <1>12, FewerOrders DEF vars
  <1>13. QED
    BY <1>1, <1>2, <1>3, <1>4, <1>5, <1>6, <1>7, <1>8, <1>9, <1>10, <1>11, <1>12 DEF Next, Proceed

\* What works to close a symbol never exceeds what is held, however often a flatten
\* is repeated, raises, loses replies or has its requests arrive late, and whatever
\* fills meanwhile, unless another order of the symbol was outstanding when its
\* position was read.
THEOREM RetryNeverReverses == Spec => []NeverReversed
  <1>1. ASSUME Init PROVE CloseInv
    <2>1. ASSUME NEW s \in Symbols, NEW q \in Quantities
          PROVE  /\ ~Outstanding(s, q) /\ closes[CloseId(s, q)] = 0 /\ 0 <= Size(q)
      <3>1. closes[CloseId(s, q)] = 0 /\ seen[s] = 0 /\ late = {}
        BY <1>1 DEF Init, CloseIds, CloseId
      <3>2. q # 0 /\ 0 <= Size(q)
        BY EmergencyAssumption DEF Quantities, Size
      <3>3. QED
        BY <3>1, <3>2 DEF Outstanding
    <2>2. QED
      BY <2>1 DEF CloseInv
  <1>2. ASSUME TypeOK, CloseInv PROVE NeverReversed
    <2>1. ASSUME NEW s \in Symbols \ crossed, NEW q \in Quantities, closes[CloseId(s, q)] > 0
          PROVE  /\ Holds(s, q, closes[CloseId(s, q)])
                 /\ \A r \in Quantities \ {q} : ~Outstanding(s, r)
      BY <1>2, <2>1 DEF CloseInv, Outstanding, Left
    <2>2. \A s \in Symbols, q \in Quantities : closes[CloseId(s, q)] \in 0..Units
      BY <1>2 DEF TypeOK, CloseIds, CloseId
    <2>3. \A s \in Symbols, q \in Quantities : ~Outstanding(s, q) => closes[CloseId(s, q)] = 0
      BY <2>2, EmergencyAssumption DEF Outstanding
    <2>4. QED
      BY <2>1, <2>3 DEF NeverReversed
  <1>3. QED
    BY <1>1, <1>2, CloseStep, TypeCorrect, PTL DEF Spec

-----------------------------------------------------------------------------
(* Contextual allocation.                                                  *)

(* The steps of a refresh, as sets.                                        *)
EvidenceSet(s) ==
  {EligibilityStep(s, c) : c \in s.assets} \cup {PosteriorStep(s, c) : c \in s.assets}
    \cup IF s.kind = "screen" THEN {}
         ELSE {EstimateStep(s)} \cup {CovarianceStep(s, c) : c \in s.assets}
                \cup {WeightStep(s, c) : c \in s.assets}

DecisionSet(s) == {DecisionStep(s, c) : c \in s.assets} \cup {DriftStep(s, c) : c \in s.assets}

EvidenceTables == {"eligibility", "posterior", "estimate", "covariance", "weight"}

\* The step that a row of t was written by.
StepOf(t, r) == Step(t, r.id, r.body)

\* The content of a step is in its table.
Written(w) == \E r \in store[w.table] : r.id = w.row.id /\ r.body = w.row.body

Complete(s) == \A w \in EvidenceSet(s) : Written(w)

\* The drift that a refresh saw is all there is that bears on it.
Fresh(s) == \A c \in s.assets : DriftBefore(Context(s, c), s.at) = s.drift[c]

\* What every refresh that began has seen.
SnapOK(s) ==
  /\ s.kind \in {"screen", "evaluate"} /\ s.asked \in Requests /\ s.assets = Range(s.asked)
  /\ s.at \in Time /\ s.at <= now
  /\ s.kind = "evaluate" => s.cohort \in DOMAIN Rankings
  /\ s.market \in [s.assets -> [mark : 0..MaxChanges, liquid : BOOLEAN]]
  /\ s.previous \in [s.assets -> Seq(Time)]
  /\ \A c \in s.assets : s.drift[c] \subseteq DriftBefore(Context(s, c), s.at)

\* Identities are unique, and the rows of a table are numbered as they were made.
TableInv ==
  /\ DOMAIN store = Tables
  /\ \A t \in Tables :
       /\ IsFiniteSet(store[t])
       /\ \A r \in store[t] : DOMAIN r = {"id", "body", "made"} /\ r.made \in 1..Cardinality(store[t])
       /\ \A r, o \in store[t] : r.id = o.id \/ r.made = o.made => r = o

DriftRowOK(r) ==
  /\ r.id.status \in {"stable", "warning", "confirmed"}
  /\ r.id.at = r.body.at /\ r.body.at \in Time /\ r.body.at <= now
  /\ r.id.reason \notin OwnReasons => r.id.status # "stable"

\* Where each row comes from.
EvidenceRows ==
  \A t \in EvidenceTables : \A r \in store[t] :
    \E s \in tried : StepOf(t, r) \in EvidenceSet(s)

DecidedBy(r, s, c) ==
  /\ r.id.context = Context(s, c) /\ r.id.allocation = Allocation(s, c)
  /\ r.id.selection.at = s.at /\ r.body.at = s.at
  /\ r.body.selected \in BOOLEAN
  /\ r.body.selected => c \in Selected(s.cohort, AdmittedBy(s))

DecisionRows ==
  \A r \in store["decision"] :
    \E s \in tried :
      /\ s.kind = "evaluate" /\ Complete(s)
      /\ \E c \in s.assets : DecidedBy(r, s, c)
      /\ Fresh(s) => StepOf("decision", r) \in DecisionSet(s)

DriftRows ==
  /\ \A r \in store["drift"] : DriftRowOK(r)
  /\ \A r \in store["drift"] \ External :
       \E s \in tried :
         /\ r.id.at = s.at
         /\ Fresh(s) => StepOf("drift", r) \in DecisionSet(s)

\* Drift is inherited: a refresh writes "stable" only where no one had recorded any
\* drift before, and anything else only where someone had.
DriftInv ==
  /\ \A r \in store["drift"] : r.id.status # "stable" => r.id.context \in Quarantined
  /\ \A r \in store["drift"] \ External, e \in External :
       r.id.context = e.id.context =>
         \/ e.made < r.made /\ e.body.at > r.body.at
         \/ e.made < r.made /\ r.id.status # "stable"
         \/ r.made < e.made /\ r.body.at <= e.body.at

RunInv ==
  \/ run = Idle
  \/ \E s \in tried :
       /\ Fresh(s)
       /\ \/ /\ run = [phase |-> "evidence", seen |-> s, todo |-> run.todo]
             /\ run.todo \in Seq(EvidenceSet(s))
             /\ \A w \in EvidenceSet(s) : Written(w) \/ w \in Range(run.todo)
          \/ /\ run = [phase |-> "decisions", seen |-> s, todo |-> run.todo]
             /\ s.kind = "evaluate" /\ Complete(s)
             /\ run.todo \in Seq(DecisionSet(s))

EvidenceInv ==
  /\ ContextTypeOK /\ Len(cohorts) \in 1..Len(Rankings) /\ TableInv
  /\ \A s \in tried : SnapOK(s)
  /\ EvidenceRows /\ DecisionRows /\ DriftRows /\ DriftInv /\ RunInv
-----------------------------------------------------------------------------
(* The steps of a refresh are those of its sets.                           *)

\* What a sequence of steps consists of.
LEMMA RangeOfSequence ==
  ASSUME NEW S, NEW q \in Seq(S)
  PROVE  /\ Range(q) \subseteq S /\ q \in Seq(Range(q))
         /\ \A x : x \in Range(q) <=> \E i \in 1..Len(q) : q[i] = x
  <1>1. DOMAIN q = 1..Len(q) /\ Len(q) \in Nat /\ \A i \in 1..Len(q) : q[i] \in S
    BY LenProperties, ElementOfSeq
  <1>2. \A x : x \in Range(q) <=> \E i \in 1..Len(q) : q[i] = x
    BY <1>1 DEF Range
  <1>3. q \in [1..Len(q) -> Range(q)]
    BY <1>1, <1>2
  <1> QED BY <1>1, <1>2, <1>3, SeqDef

LEMMA Widened ==
  ASSUME NEW S, NEW T, S \subseteq T
  PROVE  Seq(S) \subseteq Seq(T)
  <1>1. ASSUME NEW q \in Seq(S) PROVE q \in Seq(T)
    <2>1. q \in [1..Len(q) -> S] /\ Len(q) \in Nat  BY LenProperties
    <2>2. q \in [1..Len(q) -> T]  BY <2>1
    <2> QED BY <2>1, <2>2, SeqDef
  <1> QED BY <1>1

LEMMA RangeOfConcat ==
  ASSUME NEW S, NEW a \in Seq(S), NEW b \in Seq(S)
  PROVE  a \o b \in Seq(S) /\ Range(a \o b) = Range(a) \cup Range(b)
  <1>1. /\ a \o b \in Seq(S) /\ Len(a \o b) = Len(a) + Len(b)
        /\ Len(a) \in Nat /\ Len(b) \in Nat
        /\ \A i \in 1..(Len(a) + Len(b)) :
             (a \o b)[i] = IF i <= Len(a) THEN a[i] ELSE b[i - Len(a)]
    BY ConcatProperties, LenProperties
  <1>2. ASSUME NEW x PROVE x \in Range(a \o b) <=> x \in Range(a) \cup Range(b)
    <2>1. ASSUME x \in Range(a \o b) PROVE x \in Range(a) \cup Range(b)
      <3>1. PICK i \in 1..(Len(a) + Len(b)) : (a \o b)[i] = x
        BY <1>1, <2>1, RangeOfSequence
      <3>2. CASE i <= Len(a)
        <4>1. i \in 1..Len(a) /\ a[i] = x  BY <1>1, <3>1, <3>2
        <4> QED BY <4>1, RangeOfSequence
      <3>3. CASE ~(i <= Len(a))
        <4>1. i - Len(a) \in 1..Len(b) /\ b[i - Len(a)] = x  BY <1>1, <3>1, <3>3
        <4> QED BY <4>1, RangeOfSequence
      <3> QED BY <3>2, <3>3
    <2>2. ASSUME x \in Range(a) PROVE x \in Range(a \o b)
      <3>1. PICK i \in 1..Len(a) : a[i] = x  BY <2>2, RangeOfSequence
      <3>2. i \in 1..Len(a \o b) /\ (a \o b)[i] = x  BY <1>1, <3>1
      <3> QED BY <1>1, <3>2, RangeOfSequence
    <2>3. ASSUME x \in Range(b) PROVE x \in Range(a \o b)
      <3>1. PICK i \in 1..Len(b) : b[i] = x  BY <2>3, RangeOfSequence
      <3>2. i + Len(a) \in 1..Len(a \o b) /\ (a \o b)[i + Len(a)] = x  BY <1>1, <3>1
      <3> QED BY <1>1, <3>2, RangeOfSequence
    <2> QED BY <2>1, <2>2, <2>3
  <1> QED BY <1>1, <1>2

LEMMA RangeOfInterleaved ==
  ASSUME NEW S, NEW a \in Seq(S), NEW b \in Seq(S), Len(a) = Len(b)
  PROVE  Interleaved(a, b) \in Seq(S) /\ Range(Interleaved(a, b)) = Range(a) \cup Range(b)
  <1> DEFINE n == Len(a)
             q == Interleaved(a, b)
  <1>1. n \in Nat /\ (\A i \in 1..n : a[i] \in S) /\ (\A i \in 1..n : b[i] \in S)
    BY LenProperties, ElementOfSeq
  <1>2. /\ DOMAIN q = 1..(2 * n)
        /\ \A i \in 1..(2 * n) : q[i] = IF i % 2 = 1 THEN a[(i + 1) \div 2] ELSE b[i \div 2]
    BY <1>1 DEF Interleaved
  <1>3. ASSUME NEW i \in 1..(2 * n), i % 2 = 1
        PROVE  (i + 1) \div 2 \in 1..n /\ q[i] = a[(i + 1) \div 2]
    BY <1>1, <1>2, <1>3
  <1>4. ASSUME NEW i \in 1..(2 * n), i % 2 # 1
        PROVE  i \div 2 \in 1..n /\ q[i] = b[i \div 2]
    BY <1>1, <1>2, <1>4
  <1>5. ASSUME NEW i \in 1..n
        PROVE  /\ 2 * i - 1 \in 1..(2 * n) /\ q[2 * i - 1] = a[i]
               /\ 2 * i \in 1..(2 * n) /\ q[2 * i] = b[i]
    <2>1. /\ 2 * i - 1 \in 1..(2 * n) /\ (2 * i - 1) % 2 = 1 /\ (2 * i - 1 + 1) \div 2 = i
          /\ 2 * i \in 1..(2 * n) /\ (2 * i) % 2 = 0 /\ (2 * i) \div 2 = i
      BY <1>1
    <2> QED BY <1>2, <2>1
  <1>6. \A i \in 1..(2 * n) : q[i] \in S
    BY <1>1, <1>3, <1>4
  <1>7. q \in Seq(S) /\ Len(q) = 2 * n
    <2>1. q \in [1..(2 * n) -> S]  BY <1>2, <1>6 DEF Interleaved
    <2>2. 2 * n \in Nat  BY <1>1
    <2> HIDE DEF q, n
    <2>3. q \in Seq(S)  BY <2>1, <2>2, SeqDef
    <2> QED BY <2>1, <2>2, <2>3, LenProperties
  <1> HIDE DEF q
  <1>8. ASSUME NEW x PROVE x \in Range(q) <=> x \in Range(a) \cup Range(b)
    <2>1. ASSUME x \in Range(q) PROVE x \in Range(a) \cup Range(b)
      <3>1. PICK i \in 1..(2 * n) : q[i] = x  BY <1>7, <2>1, RangeOfSequence
      <3>2. CASE i % 2 = 1
        <4>1. (i + 1) \div 2 \in 1..n /\ a[(i + 1) \div 2] = x  BY <1>3, <3>1, <3>2
        <4> QED BY <4>1, RangeOfSequence
      <3>3. CASE i % 2 # 1
        <4>1. i \div 2 \in 1..Len(b) /\ b[i \div 2] = x  BY <1>4, <3>1, <3>3
        <4> QED BY <4>1, RangeOfSequence
      <3> QED BY <3>2, <3>3
    <2>2. ASSUME x \in Range(a) PROVE x \in Range(q)
      <3>1. PICK i \in 1..n : a[i] = x  BY <2>2, RangeOfSequence
      <3>2. 2 * i - 1 \in 1..Len(q) /\ q[2 * i - 1] = x  BY <1>5, <1>7, <3>1
      <3> QED BY <1>7, <3>2, RangeOfSequence
    <2>3. ASSUME x \in Range(b) PROVE x \in Range(q)
      <3>1. PICK i \in 1..n : b[i] = x  BY <2>3, RangeOfSequence
      <3>2. 2 * i \in 1..Len(q) /\ q[2 * i] = x  BY <1>5, <1>7, <3>1
      <3> QED BY <1>7, <3>2, RangeOfSequence
    <2> QED BY <2>1, <2>2, <2>3
  <1> QED BY <1>7, <1>8 DEF q

\* One step for every asset that was asked for, whatever the step is.
Each(s, G) == [i \in DOMAIN s.asked |-> G[s.asked[i]]]

LEMMA RangeOfEach ==
  ASSUME NEW s, s.asked \in Seq(Assets), s.assets = Range(s.asked), NEW G
  PROVE  /\ Each(s, G) \in Seq({G[c] : c \in s.assets})
         /\ Len(Each(s, G)) = Len(s.asked)
         /\ Range(Each(s, G)) = {G[c] : c \in s.assets}
  <1>1. DOMAIN s.asked = 1..Len(s.asked) /\ Len(s.asked) \in Nat
    BY LenProperties
  <1>2. Each(s, G) \in [1..Len(s.asked) -> {G[c] : c \in s.assets}]
    BY <1>1 DEF Each, Range
  <1>3. Each(s, G) \in Seq({G[c] : c \in s.assets})
    BY <1>1, <1>2, SeqDef
  <1>4. Len(Each(s, G)) = Len(s.asked)
    BY <1>1, <1>2, <1>3, LenProperties
  <1>5. \A i \in DOMAIN s.asked : Each(s, G)[i] = G[s.asked[i]]
    BY DEF Each
  <1>6. DOMAIN Each(s, G) = DOMAIN s.asked
    BY DEF Each
  <1>7. Range(Each(s, G)) = {G[s.asked[i]] : i \in DOMAIN s.asked}
    BY <1>5, <1>6 DEF Range
  <1>8. s.assets = {s.asked[i] : i \in DOMAIN s.asked}
    BY DEF Range
  <1>9. Range(Each(s, G)) = {G[c] : c \in s.assets}
    BY <1>7, <1>8
  <1> QED BY <1>3, <1>4, <1>9

\* The steps a refresh has to do, whatever it saw.
Snap(s) == s.asked \in Seq(Assets) /\ s.assets = Range(s.asked)

LEMMA EvidenceStepsFacts ==
  ASSUME NEW s, Snap(s)
  PROVE  /\ EvidenceSteps(s) \in Seq(EvidenceSet(s))
         /\ EvidenceSet(s) \subseteq Range(EvidenceSteps(s))
  <1> DEFINE E  == {EligibilityStep(s, c) : c \in s.assets}
             P  == {PosteriorStep(s, c) : c \in s.assets}
             K  == {CovarianceStep(s, c) : c \in s.assets}
             W  == {WeightStep(s, c) : c \in s.assets}
             e  == PerAsset(s, EligibilityStep)
             p  == PerAsset(s, PosteriorStep)
             k  == PerAsset(s, CovarianceStep)
             w  == PerAsset(s, WeightStep)
  <1>1. \A i \in DOMAIN s.asked : s.asked[i] \in s.assets
    BY DEF Snap, Range
  <1>2. e \in Seq(E) /\ Len(e) = Len(s.asked) /\ Range(e) = E
    <2> DEFINE G == [c \in s.assets |-> EligibilityStep(s, c)]
    <2>1. e = Each(s, G)  BY <1>1 DEF PerAsset, Each
    <2>2. {G[c] : c \in s.assets} = E  OBVIOUS
    <2> HIDE DEF e, G, E
    <2>3. /\ Each(s, G) \in Seq({G[c] : c \in s.assets})
          /\ Len(Each(s, G)) = Len(s.asked) /\ Range(Each(s, G)) = {G[c] : c \in s.assets}
      BY RangeOfEach DEF Snap
    <2> QED BY <2>1, <2>2, <2>3
  <1>3. p \in Seq(P) /\ Len(p) = Len(s.asked) /\ Range(p) = P
    <2> DEFINE G == [c \in s.assets |-> PosteriorStep(s, c)]
    <2>1. p = Each(s, G)  BY <1>1 DEF PerAsset, Each
    <2>2. {G[c] : c \in s.assets} = P  OBVIOUS
    <2> HIDE DEF p, G, P
    <2>3. /\ Each(s, G) \in Seq({G[c] : c \in s.assets})
          /\ Len(Each(s, G)) = Len(s.asked) /\ Range(Each(s, G)) = {G[c] : c \in s.assets}
      BY RangeOfEach DEF Snap
    <2> QED BY <2>1, <2>2, <2>3
  <1>4. k \in Seq(K) /\ Len(k) = Len(s.asked) /\ Range(k) = K
    <2> DEFINE G == [c \in s.assets |-> CovarianceStep(s, c)]
    <2>1. k = Each(s, G)  BY <1>1 DEF PerAsset, Each
    <2>2. {G[c] : c \in s.assets} = K  OBVIOUS
    <2> HIDE DEF k, G, K
    <2>3. /\ Each(s, G) \in Seq({G[c] : c \in s.assets})
          /\ Len(Each(s, G)) = Len(s.asked) /\ Range(Each(s, G)) = {G[c] : c \in s.assets}
      BY RangeOfEach DEF Snap
    <2> QED BY <2>1, <2>2, <2>3
  <1>5. w \in Seq(W) /\ Len(w) = Len(s.asked) /\ Range(w) = W
    <2> DEFINE G == [c \in s.assets |-> WeightStep(s, c)]
    <2>1. w = Each(s, G)  BY <1>1 DEF PerAsset, Each
    <2>2. {G[c] : c \in s.assets} = W  OBVIOUS
    <2> HIDE DEF w, G, W
    <2>3. /\ Each(s, G) \in Seq({G[c] : c \in s.assets})
          /\ Len(Each(s, G)) = Len(s.asked) /\ Range(Each(s, G)) = {G[c] : c \in s.assets}
      BY RangeOfEach DEF Snap
    <2> QED BY <2>1, <2>2, <2>3
  <1>6. ScreenSteps(s) \in Seq(E \cup P) /\ Range(ScreenSteps(s)) = E \cup P
    <2>1. ScreenSteps(s) = e \o p  BY DEF ScreenSteps
    <2> HIDE DEF e, p, E, P
    <2>2. e \in Seq(E \cup P) /\ p \in Seq(E \cup P)  BY <1>2, <1>3, Widened
    <2> QED BY <1>2, <1>3, <2>1, <2>2, RangeOfConcat
  <1>7. CASE s.kind = "screen"
    <2>1. EvidenceSteps(s) = ScreenSteps(s) /\ EvidenceSet(s) = E \cup P
      BY <1>7 DEF EvidenceSteps, EvidenceSet
    <2> QED BY <1>6, <2>1
  <1>8. CASE s.kind # "screen"
    <2> DEFINE b == <<EstimateStep(s)>>
               m == Interleaved(k, w)
               A == E \cup P \cup ({EstimateStep(s)} \cup K \cup W)
    <2>1. EvidenceSteps(s) = (ScreenSteps(s) \o b) \o m /\ EvidenceSet(s) = A
      BY <1>8 DEF EvidenceSteps, EvidenceSet
    <2>2. b \in Seq({EstimateStep(s)}) /\ Range(b) = {EstimateStep(s)}
      BY DEF Range
    <2> HIDE DEF e, p, k, w, E, P, K, W, b
    <2>3. /\ ScreenSteps(s) \in Seq(A) /\ b \in Seq(A) /\ k \in Seq(A) /\ w \in Seq(A)
      BY <1>4, <1>5, <1>6, <2>2, Widened
    <2>4. m \in Seq(A) /\ Range(m) = K \cup W
      BY <1>4, <1>5, <2>3, RangeOfInterleaved
    <2>5. ScreenSteps(s) \o b \in Seq(A) /\ Range(ScreenSteps(s) \o b) = E \cup P \cup {EstimateStep(s)}
      BY <1>6, <2>2, <2>3, RangeOfConcat
    <2> HIDE DEF A, m
    <2> DEFINE h == ScreenSteps(s) \o b
    <2> HIDE DEF h
    <2>6. h \in Seq(A) /\ Range(h) = E \cup P \cup {EstimateStep(s)}
      BY <2>5 DEF h
    <2>7. h \o m \in Seq(A) /\ Range(h \o m) = Range(h) \cup Range(m)
      BY <2>4, <2>6, RangeOfConcat
    <2>8. A \subseteq Range(h) \cup Range(m)
      BY <2>4, <2>6 DEF A
    <2> QED BY <2>1, <2>7, <2>8 DEF h
  <1> QED BY <1>7, <1>8

LEMMA DecisionStepsFacts ==
  ASSUME NEW s, Snap(s)
  PROVE  DecisionSteps(s) \in Seq(DecisionSet(s))
  <1> DEFINE D == {DecisionStep(s, c) : c \in s.assets}
             R == {DriftStep(s, c) : c \in s.assets}
             d == PerAsset(s, DecisionStep)
             r == PerAsset(s, DriftStep)
  <1>1. \A i \in DOMAIN s.asked : s.asked[i] \in s.assets
    BY DEF Snap, Range
  <1>2. d \in Seq(D)
    <2> DEFINE G == [c \in s.assets |-> DecisionStep(s, c)]
    <2>1. d = Each(s, G)  BY <1>1 DEF PerAsset, Each
    <2>2. {G[c] : c \in s.assets} = D  OBVIOUS
    <2> HIDE DEF d, G, D
    <2>3. /\ Each(s, G) \in Seq({G[c] : c \in s.assets})
          /\ Len(Each(s, G)) = Len(s.asked) /\ Range(Each(s, G)) = {G[c] : c \in s.assets}
      BY RangeOfEach DEF Snap
    <2> QED BY <2>1, <2>2, <2>3
  <1>3. r \in Seq(R)
    <2> DEFINE G == [c \in s.assets |-> DriftStep(s, c)]
    <2>1. r = Each(s, G)  BY <1>1 DEF PerAsset, Each
    <2>2. {G[c] : c \in s.assets} = R  OBVIOUS
    <2> HIDE DEF r, G, R
    <2>3. /\ Each(s, G) \in Seq({G[c] : c \in s.assets})
          /\ Len(Each(s, G)) = Len(s.asked) /\ Range(Each(s, G)) = {G[c] : c \in s.assets}
      BY RangeOfEach DEF Snap
    <2> QED BY <2>1, <2>2, <2>3
  <1>4. DecisionSteps(s) = d \o r /\ DecisionSet(s) = D \cup R
    BY DEF DecisionSteps, DecisionSet
  <1> HIDE DEF d, r, D, R
  <1>5. d \in Seq(D \cup R) /\ r \in Seq(D \cup R)
    BY <1>2, <1>3, Widened
  <1> QED BY <1>4, <1>5, RangeOfConcat
-----------------------------------------------------------------------------
(* What a refresh makes of the drift before it.                            *)

\* A bounded set of numbers has a greatest.
LEMMA GreatestExists ==
  ASSUME NEW S, S # {}, NEW B \in Nat, S \subseteq 0..B
  PROVE  \E x \in S : \A y \in S : y <= x
  <1> DEFINE T == {B - x : x \in S}
  <1>1. T \subseteq Nat /\ T # {}
    <2>1. \A x \in S : B - x \in Nat  OBVIOUS
    <2> QED BY <2>1
  <1>2. PICK d \in T : \A y \in T : ~(<<y, d>> \in OpToRel(<, Nat))
    <2> HIDE DEF T
    <2>1. \E d \in T : \A y \in T : ~(<<y, d>> \in OpToRel(<, Nat))
      BY <1>1, NatLessThanWellFounded, WFMin
    <2> QED BY <2>1
  <1>3. PICK x \in S : d = B - x
    OBVIOUS
  <1>4. ASSUME NEW y \in S PROVE y <= x
    <2>1. B - y \in T /\ B - y \in Nat /\ d \in Nat
      BY <1>1
    <2>2. ~(B - y < d)
      <3>1. <<B - y, d>> \in Nat \X Nat /\ <<B - y, d>>[1] = B - y /\ <<B - y, d>>[2] = d
        BY <2>1
      <3> QED BY <1>2, <2>1, <3>1 DEF OpToRel
    <2> QED BY <1>3, <2>1, <2>2
  <1> QED BY <1>4

LEMMA GreatestIsMax ==
  ASSUME NEW S, S # {}, NEW B \in Nat, S \subseteq 0..B
  PROVE  Max(S) \in S /\ \A y \in S : y <= Max(S)
  <1>1. \E x \in S : \A y \in S : x >= y
    BY GreatestExists
  <1> QED BY <1>1 DEF Max

DriftTyped == \A r \in store["drift"] : DriftRowOK(r)

\* The rows that bear on a refresh at t are those that its history has.
LEMMA PriorRowsAre ==
  ASSUME DriftTyped, NEW x, NEW t \in Time
  PROVE  PriorRows(x, t) = {r \in store["drift"] : /\ r.id.context = x
                                                   /\ r.body.at < t \/ (r.body.at = t /\ r \in External)}
  <1>1. \A r \in store["drift"] : r.body.at \in Int
    BY DEF DriftTyped, DriftRowOK, Time
  <1>2. t \in Int
    BY DEF Time
  <1>3. ASSUME NEW r \in store["drift"]
        PROVE  (r.body.at <= t /\ ~(r.body.at = t /\ r.id.reason \in OwnReasons))
                 <=> (r.body.at < t \/ (r.body.at = t /\ r \in External))
    BY <1>1, <1>2 DEF External
  <1> QED BY <1>3 DEF PriorRows

\* Of some rows one is the worst, and of the worst one the newest.
LEMMA WorstExists ==
  ASSUME DriftTyped, NEW x, NEW t \in Time, PriorRows(x, t) # {}
  PROVE  WorstRows(x, t) # {}
  <1> DEFINE rows == PriorRows(x, t)
             D(r) == Severity[r.id.status]
             worst == {r \in rows : \A o \in rows : D(o) <= D(r)}
  <1>1. \A r \in rows : D(r) \in 0..3 /\ r.body.at \in 0..MaxTime
    <2>1. ASSUME NEW r \in rows PROVE D(r) \in 0..3 /\ r.body.at \in 0..MaxTime
      <3>1. DriftRowOK(r)  BY DEF PriorRows, DriftTyped
      <3>2. r.body.at \in 0..MaxTime  BY <3>1, ContextualAssumption DEF DriftRowOK, Time
      <3>3. D(r) \in 0..3  BY <3>1 DEF DriftRowOK, Severity
      <3> QED BY <3>2, <3>3
    <2> QED BY <2>1
  <1>2. worst # {}
    <2> DEFINE S == {D(r) : r \in rows}
    <2>1. S # {} /\ S \subseteq 0..3  BY <1>1
    <2>2. PICK d \in S : \A y \in S : y <= d
      <3> HIDE DEF S
      <3> QED BY <2>1, GreatestExists
    <2>3. PICK r \in rows : D(r) = d  BY <2>2
    <2>4. \A o \in rows : D(o) \in S  OBVIOUS
    <2>5. r \in worst  BY <2>2, <2>3, <2>4
    <2> QED BY <2>5
  <1>3. NewestOf(worst) # {}
    <2> DEFINE S == {r.body.at : r \in worst}
    <2>1. S # {} /\ S \subseteq 0..MaxTime  BY <1>1, <1>2
    <2>2. MaxTime \in Nat  BY ContextualAssumption
    <2>3. PICK d \in S : \A y \in S : y <= d
      <3> HIDE DEF S
      <3> QED BY <2>1, <2>2, GreatestExists
    <2>4. PICK r \in worst : r.body.at = d  BY <2>3
    <2>5. \A o \in worst : o.body.at \in S  OBVIOUS
    <2>6. r \in NewestOf(worst)  BY <2>3, <2>4, <2>5 DEF NewestOf
    <2> QED BY <2>6
  <1> QED BY <1>3 DEF WorstRows

\* A refresh finds drift where one of the rows that bear on it has some, and nowhere else.
LEMMA PriorStatusFacts ==
  ASSUME DriftTyped, NEW x, NEW t \in Time
  PROVE  /\ PriorStatus(x, t) \in {"stable", "warning", "confirmed"}
         /\ \A e \in PriorRows(x, t) : e.id.status # "stable" => PriorStatus(x, t) # "stable"
         /\ PriorStatus(x, t) # "stable" =>
              \E r \in PriorRows(x, t) : r.id.status = PriorStatus(x, t)
  <1>1. CASE WorstRows(x, t) = {}
    <2>1. PriorRows(x, t) = {}  BY <1>1, WorstExists
    <2> QED BY <1>1, <2>1 DEF PriorStatus
  <1>2. CASE WorstRows(x, t) # {}
    <2>1. PICK r \in WorstRows(x, t) : PriorStatus(x, t) = r.id.status
      BY <1>2 DEF PriorStatus
    <2>2. r \in PriorRows(x, t) /\ \A o \in PriorRows(x, t) : Severity[o.id.status] <= Severity[r.id.status]
      BY DEF WorstRows, NewestOf
    <2>3. \A o \in PriorRows(x, t) : o.id.status \in {"stable", "warning", "confirmed"}
      BY DEF PriorRows, DriftTyped, DriftRowOK
    <2>4. ASSUME NEW e \in PriorRows(x, t), e.id.status # "stable" PROVE r.id.status # "stable"
      <3>1. Severity[e.id.status] <= Severity[r.id.status]  BY <2>2
      <3>2. e.id.status \in {"warning", "confirmed"}  BY <2>3, <2>4
      <3> QED BY <3>1, <3>2 DEF Severity
    <2> QED BY <2>1, <2>2, <2>3, <2>4
  <1> QED BY <1>1, <1>2

LEMMA SameRowsSameDrift ==
  ASSUME NEW x, NEW t, PriorRows(x, t)' = PriorRows(x, t)
  PROVE  PriorStatus(x, t)' = PriorStatus(x, t) /\ PriorId(x, t)' = PriorId(x, t)
  <1>1. WorstRows(x, t)' = WorstRows(x, t)
    BY DEF WorstRows, NewestOf
  <1>2. PriorStatus(x, t)' = PriorStatus(x, t)
    BY <1>1 DEF PriorStatus
  <1>3. PriorId(x, t)' = PriorId(x, t)
    BY <1>1 DEF PriorId
  <1> QED BY <1>2, <1>3

\* Where the same rows bear on a refresh, it takes the same steps.
LEMMA SameRowsSameSteps ==
  ASSUME NEW s, \A c \in s.assets : PriorRows(Context(s, c), s.at)' = PriorRows(Context(s, c), s.at)
  PROVE  DecisionSet(s)' = DecisionSet(s)
  <1>2. \A c \in s.assets : /\ PriorStatus(Context(s, c), s.at)' = PriorStatus(Context(s, c), s.at)
                            /\ PriorId(Context(s, c), s.at)' = PriorId(Context(s, c), s.at)
    BY SameRowsSameDrift
  <1>3. Admitted(s)' = Admitted(s)
    BY <1>2 DEF Admitted, Admissible
  <1>5. Chosen(s)' = Chosen(s)
    BY <1>3 DEF Chosen
  <1>6. Selection(s)' = Selection(s)
    BY <1>3, <1>5 DEF Selection, Context, Allocation
  <1>7. \A c \in s.assets : DecisionStep(s, c)' = DecisionStep(s, c)
    BY <1>5, <1>6 DEF DecisionStep, Context, Allocation, Step
  <1>8. \A c \in s.assets : DriftStep(s, c)' = DriftStep(s, c)
    BY <1>2, <1>6 DEF DriftStep, Context, Step
  <1> QED BY <1>7, <1>8 DEF DecisionSet
-----------------------------------------------------------------------------
(* What an append does to the tables.                                      *)

\* No row goes away.
StoreGrows == \A t \in Tables : store[t] \subseteq store'[t]

LEMMA AppendFacts ==
  ASSUME TableInv, NEW w, w.table \in Tables, ~Conflicts(w), store' = Appended(w)
  PROVE  /\ TableInv' /\ StoreGrows /\ Written(w)'
         /\ \A t \in Tables : t # w.table => store'[t] = store[t]
         /\ \/ store' = store
            \/ /\ ~Recorded(w)
               /\ store'[w.table] = store[w.table] \cup {Stamped(w.table, w.row)}
  <1>1. CASE Recorded(w)
    <2>1. store' = store  BY <1>1 DEF Appended
    <2>2. TableInv'  BY <2>1 DEF TableInv
    <2>3. Written(w)  BY <1>1 DEF Written, Recorded, Conflicts
    <2>4. Written(w)'  BY <2>1, <2>3 DEF Written
    <2> QED BY <2>1, <2>2, <2>4 DEF StoreGrows
  <1>2. CASE ~Recorded(w)
    <2> DEFINE n == Stamped(w.table, w.row)
               a == w.table
    <2>1. /\ DOMAIN store' = Tables /\ store'[a] = store[a] \cup {n}
          /\ \A t \in Tables : t # a => store'[t] = store[t]
      BY <1>2 DEF Appended, TableInv
    <2>2. /\ DOMAIN n = {"id", "body", "made"} /\ n.id = w.row.id /\ n.body = w.row.body
          /\ n.made = Cardinality(store[a]) + 1
      BY DEF Stamped
    <2>3. IsFiniteSet(store[a]) /\ Cardinality(store[a]) \in Nat
      BY FS_CardinalityType DEF TableInv
    <2>4. \A r \in store[a] : r.id # n.id /\ r.made \in 1..Cardinality(store[a])
      BY <1>2, <2>2 DEF Recorded, TableInv
    <2> HIDE DEF n
    <2>5. n \notin store[a]
      BY <2>4
    <2>6. IsFiniteSet(store'[a]) /\ Cardinality(store'[a]) = Cardinality(store[a]) + 1
      BY <2>1, <2>3, <2>5, FS_AddElement
    <2>7. \A r \in store'[a] :
            DOMAIN r = {"id", "body", "made"} /\ r.made \in 1..Cardinality(store'[a])
      <3>1. ASSUME NEW r \in store[a]
            PROVE  DOMAIN r = {"id", "body", "made"} /\ r.made \in 1..Cardinality(store'[a])
        BY <2>3, <2>6 DEF TableInv
      <3>2. n.made \in 1..Cardinality(store'[a])  BY <2>2, <2>3, <2>6
      <3> QED BY <2>1, <2>2, <3>1, <3>2
    <2>8. \A r, o \in store'[a] : r.id = o.id \/ r.made = o.made => r = o
      <3>1. \A r \in store[a] : r.made # n.made
        BY <2>2, <2>3, <2>4
      <3>2. \A r, o \in store[a] : r.id = o.id \/ r.made = o.made => r = o
        BY DEF TableInv
      <3> QED BY <2>1, <2>4, <3>1, <3>2
    <2>9. ASSUME NEW t \in Tables, t # a
          PROVE  /\ IsFiniteSet(store'[t])
                 /\ \A r \in store'[t] :
                      DOMAIN r = {"id", "body", "made"} /\ r.made \in 1..Cardinality(store'[t])
                 /\ \A r, o \in store'[t] : r.id = o.id \/ r.made = o.made => r = o
      <3>1. store'[t] = store[t]  BY <2>1, <2>9
      <3> QED BY <3>1 DEF TableInv
    <2>10. TableInv'
      BY <2>1, <2>6, <2>7, <2>8, <2>9 DEF TableInv
    <2>11. StoreGrows
      BY <2>1 DEF StoreGrows
    <2>12. Written(w)'
      BY <2>1, <2>2 DEF Written
    <2> QED BY <1>2, <2>1, <2>10, <2>11, <2>12 DEF n
  <1> QED BY <1>1, <1>2

\* What is written stays written.
LEMMA WrittenStays ==
  ASSUME StoreGrows, NEW w, w.table \in Tables, Written(w)
  PROVE  Written(w)'
  BY DEF Written, StoreGrows

LEMMA EvidenceTablesOnly ==
  ASSUME NEW s, NEW w \in EvidenceSet(s)
  PROVE  /\ w.table \in EvidenceTables /\ w.table \in Tables /\ w.table # "drift"
         /\ w.table # "decision" /\ w = Step(w.table, w.row.id, w.row.body)
  BY DEF EvidenceSet, EligibilityStep, PosteriorStep, EstimateStep, CovarianceStep, WeightStep,
         Step, EvidenceTables, Tables

LEMMA DecisionTablesOnly ==
  ASSUME NEW s, NEW w \in DecisionSet(s)
  PROVE  \E c \in s.assets :
           \/ w = DecisionStep(s, c) /\ w.table = "decision"
           \/ w = DriftStep(s, c) /\ w.table = "drift"
  BY DEF DecisionSet, DecisionStep, DriftStep, Step

LEMMA CompleteStays ==
  ASSUME StoreGrows, NEW s, Complete(s)
  PROVE  Complete(s)'
  <1>1. ASSUME NEW w \in EvidenceSet(s) PROVE Written(w)'
    BY EvidenceTablesOnly, WrittenStays DEF Complete
  <1> QED BY <1>1 DEF Complete

\* Drift that was recorded stays.
LEMMA DriftGrows ==
  ASSUME StoreGrows
  PROVE  /\ External \subseteq External' /\ Quarantined \subseteq Quarantined'
         /\ \A x, t : DriftBefore(x, t) \subseteq DriftBefore(x, t)'
  <1>1. store["drift"] \subseteq store'["drift"]
    BY DEF StoreGrows, Tables
  <1>2. External \subseteq External'
    BY <1>1 DEF External
  <1>3. Quarantined \subseteq Quarantined'
    BY <1>2 DEF Quarantined
  <1>4. ASSUME NEW x, NEW t PROVE DriftBefore(x, t) \subseteq DriftBefore(x, t)'
    BY <1>1, <1>2 DEF DriftBefore
  <1> QED BY <1>2, <1>3, <1>4

\* A refresh that has seen all the drift there is would have decided the same before.
LEMMA FreshBefore ==
  ASSUME TableInv', StoreGrows, DriftTyped, DriftTyped',
         NEW s, s.at \in Time, Fresh(s)',
         \A c \in s.assets : s.drift[c] \subseteq DriftBefore(Context(s, c), s.at)
  PROVE  Fresh(s) /\ DecisionSet(s)' = DecisionSet(s)
  <1>1. ASSUME NEW c \in s.assets
        PROVE  /\ DriftBefore(Context(s, c), s.at) = s.drift[c]
               /\ DriftBefore(Context(s, c), s.at)' = DriftBefore(Context(s, c), s.at)
    <2>1. DriftBefore(Context(s, c), s.at)' = s.drift[c]
      BY DEF Fresh, Context
    <2>2. DriftBefore(Context(s, c), s.at) \subseteq DriftBefore(Context(s, c), s.at)'
      BY DriftGrows DEF Context
    <2> QED BY <2>1, <2>2
  <1>2. ASSUME NEW c \in s.assets
        PROVE  PriorRows(Context(s, c), s.at)' = PriorRows(Context(s, c), s.at)
    <2> DEFINE x == Context(s, c)
               t == s.at
    <2>1. store["drift"] \subseteq store'["drift"] /\ External \subseteq External'
      BY DriftGrows DEF StoreGrows, Tables
    <2>2. PriorRows(x, t) = {r \in store["drift"] : r.id.context = x
                               /\ (r.body.at < t \/ (r.body.at = t /\ r \in External))}
      BY PriorRowsAre
    <2>3. PriorRows(x, t)' = {r \in store'["drift"] : r.id.context = x
                               /\ (r.body.at < t \/ (r.body.at = t /\ r \in External'))}
      <3>1. \A r \in store'["drift"] : r.body.at \in Int
        BY DEF DriftTyped, DriftRowOK, Time
      <3>2. t \in Int
        BY DEF Time
      <3>3. PriorRows(x, t)' = {r \in store'["drift"] :
              r.id.context = x /\ r.body.at <= t /\ ~(r.body.at = t /\ r.id.reason \in OwnReasons)}
        BY DEF PriorRows, Context
      <3>4. External' = {r \in store'["drift"] : r.id.reason \notin OwnReasons}
        BY DEF External
      <3> HIDE DEF x, t
      <3>5. ASSUME NEW r \in store'["drift"]
            PROVE  (r.body.at <= t /\ ~(r.body.at = t /\ r.id.reason \in OwnReasons))
                     <=> (r.body.at < t \/ (r.body.at = t /\ r \in External'))
        BY <3>1, <3>2, <3>4
      <3> QED BY <3>3, <3>5
    <2>4. DriftBefore(x, t) = {r.id : r \in PriorRows(x, t)}
      BY <2>2 DEF DriftBefore
    <2>5. DriftBefore(x, t)' = {r.id : r \in PriorRows(x, t)'}
      BY <2>3 DEF DriftBefore, Context
    <2>6. \A r, o \in store'["drift"] : r.id = o.id => r = o
      BY DEF TableInv, Tables
    <2>7. PriorRows(x, t) \subseteq PriorRows(x, t)' /\ PriorRows(x, t)' \subseteq store'["drift"]
      BY <2>1, <2>2, <2>3
    <2> QED BY <1>1, <2>4, <2>5, <2>6, <2>7
  <1>3. DecisionSet(s)' = DecisionSet(s)
    BY <1>2, SameRowsSameSteps
  <1> QED BY <1>1, <1>3 DEF Fresh
-----------------------------------------------------------------------------
(* What no action takes back.                                              *)

LEMMA AssetsAreFinite ==
  ASSUME NEW q \in Requests
  PROVE  q \in Seq(Assets) /\ q # <<>> /\ IsFiniteSet(Range(q)) /\ Range(q) # {}
  <1>1. q \in Seq(Assets) /\ q # <<>>
    BY ContextualAssumption
  <1>2. DOMAIN q = 1..Len(q) /\ Len(q) \in Nat
    BY <1>1, LenProperties
  <1>3. q \in Surjection(1..Len(q), Range(q))
    <2>1. q \in [1..Len(q) -> Range(q)]
      BY <1>1, <1>2, LenProperties DEF Range
    <2>2. \A x \in Range(q) : \E i \in 1..Len(q) : q[i] = x
      BY <1>2 DEF Range
    <2> QED BY <2>1, <2>2 DEF Surjection
  <1>4. IsFiniteSet(Range(q))
    BY <1>2, <1>3, FS_Interval, FS_Surjection
  <1>5. 1 \in 1..Len(q)
    BY <1>1, <1>2, EmptySeq
  <1>6. Range(q) # {}
    BY <1>2, <1>5 DEF Range
  <1> QED BY <1>1, <1>4, <1>6

LEMMA SnapFacts ==
  ASSUME NEW s, SnapOK(s)
  PROVE  Snap(s) /\ IsFiniteSet(s.assets) /\ s.at \in Time
  BY AssetsAreFinite DEF SnapOK, Snap

\* Snapshots, rows and what they rest on stay as they were.
LEMMA RowsStay ==
  ASSUME EvidenceInv, TableInv', StoreGrows, tried \subseteq tried', now <= now', DriftTyped', now' \in Time
  PROVE  /\ \A s \in tried : SnapOK(s)'
         /\ \A t \in EvidenceTables : \A r \in store[t] :
              \E s \in tried' : StepOf(t, r) \in EvidenceSet(s)
         /\ \A r \in store["decision"] :
              \E s \in tried' :
                /\ s.kind = "evaluate" /\ Complete(s)'
                /\ \E c \in s.assets : DecidedBy(r, s, c)'
                /\ Fresh(s)' => StepOf("decision", r) \in DecisionSet(s)'
         /\ \A r \in store["drift"] \ External :
              \E s \in tried' :
                /\ r.id.at = s.at
                /\ Fresh(s)' => StepOf("drift", r) \in DecisionSet(s)'
  <1> USE DEF EvidenceInv
  <1>0. DriftTyped /\ now \in Time
    BY DEF DriftRows, DriftTyped, ContextTypeOK
  <1>1. ASSUME NEW s \in tried
        PROVE  /\ SnapOK(s)'
               /\ Fresh(s)' => DecisionSet(s)' = DecisionSet(s) /\ Fresh(s)
    <2>1. SnapOK(s)
      OBVIOUS
    <2>2. s.at <= now'
      BY <1>0, <2>1 DEF SnapOK, Time
    <2>3. \A c \in s.assets : s.drift[c] \subseteq DriftBefore(Context(s, c), s.at)'
      BY <2>1, DriftGrows DEF SnapOK, Context
    <2>4. SnapOK(s)'
      BY <2>1, <2>2, <2>3 DEF SnapOK, Context
    <2>5. Fresh(s)' => DecisionSet(s)' = DecisionSet(s) /\ Fresh(s)
      BY <1>0, <2>1, FreshBefore DEF SnapOK
    <2> QED BY <2>4, <2>5
  <1>2. \A t \in EvidenceTables : \A r \in store[t] : \E s \in tried' : StepOf(t, r) \in EvidenceSet(s)
    BY DEF EvidenceRows
  <1>3. ASSUME NEW r \in store["decision"]
        PROVE  \E s \in tried' :
                 /\ s.kind = "evaluate" /\ Complete(s)'
                 /\ \E c \in s.assets : DecidedBy(r, s, c)'
                 /\ Fresh(s)' => StepOf("decision", r) \in DecisionSet(s)'
    <2>1. PICK s \in tried :
            /\ s.kind = "evaluate" /\ Complete(s)
            /\ \E c \in s.assets : DecidedBy(r, s, c)
            /\ Fresh(s) => StepOf("decision", r) \in DecisionSet(s)
      BY DEF DecisionRows
    <2>2. PICK c \in s.assets : DecidedBy(r, s, c)
      BY <2>1
    <2>3. Complete(s)'
      BY <2>1, CompleteStays
    <2>5. DecidedBy(r, s, c)'
      BY <2>2 DEF DecidedBy, Context, Allocation
    <2>6. Fresh(s)' => StepOf("decision", r) \in DecisionSet(s)'
      BY <1>1, <2>1
    <2> QED BY <2>1, <2>3, <2>5, <2>6
  <1>4. ASSUME NEW r \in store["drift"] \ External
        PROVE  \E s \in tried' :
                 /\ r.id.at = s.at
                 /\ Fresh(s)' => StepOf("drift", r) \in DecisionSet(s)'
    <2>1. PICK s \in tried : r.id.at = s.at /\ (Fresh(s) => StepOf("drift", r) \in DecisionSet(s))
      BY DEF DriftRows
    <2>2. Fresh(s)' => StepOf("drift", r) \in DecisionSet(s)'
      BY <1>1, <2>1
    <2> QED BY <2>1, <2>2
  <1> QED BY <1>1, <1>2, <1>3, <1>4

\* Where the tables stand still, so does everything about their rows.
LEMMA TablesStand ==
  ASSUME EvidenceInv, UNCHANGED store, tried \subseteq tried', now <= now', now' \in Time
  PROVE  /\ TableInv' /\ EvidenceRows' /\ DecisionRows' /\ DriftRows' /\ DriftInv'
         /\ \A s \in tried : SnapOK(s)'
  <1>1. TableInv'
    BY DEF EvidenceInv, TableInv
  <1>2. StoreGrows
    BY DEF StoreGrows
  <1>3. DriftTyped'
    <2>1. ASSUME NEW r \in store["drift"] PROVE DriftRowOK(r)'
      <3>1. DriftRowOK(r) /\ now \in Time
        BY DEF EvidenceInv, DriftRows, ContextTypeOK
      <3>2. r.body.at <= now'
        BY <3>1 DEF DriftRowOK, Time
      <3> QED BY <3>1, <3>2 DEF DriftRowOK
    <2> QED BY <2>1 DEF DriftTyped
  <1>4. External' = External /\ Quarantined' = Quarantined
    BY DEF External, Quarantined
  <1>5. DriftInv'
    BY <1>4 DEF EvidenceInv, DriftInv
  <1>6. /\ \A s \in tried : SnapOK(s)'
        /\ EvidenceRows' /\ DecisionRows'
    BY <1>1, <1>2, <1>3, RowsStay DEF EvidenceRows, DecisionRows
  <1>7. DriftRows'
    <2>1. \A r \in store["drift"] \ External :
              \E s \in tried' :
                /\ r.id.at = s.at
                /\ Fresh(s)' => StepOf("drift", r) \in DecisionSet(s)'
      BY <1>1, <1>2, <1>3, RowsStay
    <2> QED BY <1>3, <1>4, <2>1 DEF DriftRows, DriftTyped
  <1> QED BY <1>1, <1>5, <1>6, <1>7
-----------------------------------------------------------------------------
(* What each action keeps.                                                 *)

LEMMA RunStands ==
  ASSUME RunInv, UNCHANGED <<store, run>>, tried \subseteq tried'
  PROVE  RunInv'
  <1>1. CASE run = Idle
    BY <1>1 DEF RunInv, Idle
  <1>2. CASE run # Idle
    <2>1. PICK s \in tried :
            /\ Fresh(s)
            /\ \/ /\ run = [phase |-> "evidence", seen |-> s, todo |-> run.todo]
                  /\ run.todo \in Seq(EvidenceSet(s))
                  /\ \A w \in EvidenceSet(s) : Written(w) \/ w \in Range(run.todo)
               \/ /\ run = [phase |-> "decisions", seen |-> s, todo |-> run.todo]
                  /\ s.kind = "evaluate" /\ Complete(s)
                  /\ run.todo \in Seq(DecisionSet(s))
      BY <1>2 DEF RunInv
    <2>2. Fresh(s)'
      BY <2>1 DEF Fresh, DriftBefore, External, Context
    <2>3. Complete(s) => Complete(s)'
      BY DEF Complete, Written
    <2>4. \A w \in EvidenceSet(s) : Written(w) => Written(w)'
      BY DEF Written
    <2>5. DecisionSet(s)' = DecisionSet(s)
      BY SameRowsSameSteps DEF PriorRows, Context
    <2> QED BY <2>1, <2>2, <2>3, <2>4, <2>5 DEF RunInv
  <1> QED BY <1>1, <1>2

LEMMA RunEnds ==
  ASSUME EvidenceInv, run' = Idle, finished' \subseteq tried,
         UNCHANGED <<now, cohorts, market, store, refreshes, tried>>
  PROVE  EvidenceInv'
  <1>1. now <= now' /\ now' \in Time /\ tried \subseteq tried'
    BY DEF EvidenceInv, ContextTypeOK, Time
  <1>2. ContextTypeOK'
    BY DEF EvidenceInv, ContextTypeOK, Idle
  <1>3. RunInv'
    BY DEF RunInv, Idle
  <1>4. /\ TableInv' /\ EvidenceRows' /\ DecisionRows' /\ DriftRows' /\ DriftInv'
        /\ \A s \in tried : SnapOK(s)'
    BY <1>1, TablesStand
  <1> QED BY <1>2, <1>3, <1>4 DEF EvidenceInv

LEMMA TickKeeps ==
  ASSUME EvidenceInv, Tick
  PROVE  EvidenceInv'
  <1>1. now <= now' /\ now' \in Time /\ tried \subseteq tried'
    BY ContextualAssumption DEF EvidenceInv, ContextTypeOK, Time, Tick
  <1>2. ContextTypeOK' /\ Len(cohorts') \in 1..Len(Rankings)
    BY <1>1 DEF EvidenceInv, ContextTypeOK, Tick
  <1>3. RunInv'
    BY RunStands DEF EvidenceInv, Tick
  <1>4. /\ TableInv' /\ EvidenceRows' /\ DecisionRows' /\ DriftRows' /\ DriftInv'
        /\ \A s \in tried : SnapOK(s)'
    BY <1>1, TablesStand DEF Tick
  <1> QED BY <1>2, <1>3, <1>4 DEF EvidenceInv, Tick

LEMMA PublishKeeps ==
  ASSUME EvidenceInv, Publish
  PROVE  EvidenceInv'
  <1>1. now <= now' /\ now' \in Time /\ tried \subseteq tried'
    BY DEF EvidenceInv, ContextTypeOK, Time, Publish
  <1>2. ContextTypeOK' /\ Len(cohorts') \in 1..Len(Rankings)
    <2>1. /\ cohorts \in Seq(Time) /\ now \in Time /\ cohorts' = Append(cohorts, now)
          /\ Len(cohorts) < Len(Rankings)
      BY DEF EvidenceInv, ContextTypeOK, Publish
    <2>2. cohorts' \in Seq(Time) /\ Len(cohorts') = Len(cohorts) + 1
      BY <2>1, AppendProperties
    <2>3. Len(cohorts) \in Nat /\ Len(Rankings) \in Nat
      BY <2>1, ContextualAssumption, LenProperties
    <2>4. Len(cohorts') \in 1..Len(Rankings)
      BY <2>1, <2>2, <2>3
    <2> QED BY <2>2, <2>4 DEF EvidenceInv, ContextTypeOK, Publish
  <1>3. RunInv'
    BY RunStands DEF EvidenceInv, Publish
  <1>4. /\ TableInv' /\ EvidenceRows' /\ DecisionRows' /\ DriftRows' /\ DriftInv'
        /\ \A s \in tried : SnapOK(s)'
    BY <1>1, TablesStand DEF Publish
  <1> QED BY <1>2, <1>3, <1>4 DEF EvidenceInv, Publish

LEMMA CountsAreNatural ==
  ASSUME EvidenceInv
  PROVE  /\ Cardinality(External) \in Nat
         /\ cohorts \in Seq(Time) => Len(cohorts) \in Nat
  <1>1. IsFiniteSet(store["drift"])
    BY DEF EvidenceInv, TableInv, Tables
  <1>2. IsFiniteSet(External)
    BY <1>1, FS_Subset DEF External
  <1> QED BY <1>2, FS_CardinalityType, LenProperties

LEMMA ObserveKeeps ==
  ASSUME EvidenceInv, Observe
  PROVE  EvidenceInv'
  <1>1. now <= now' /\ now' \in Time /\ tried \subseteq tried'
    BY DEF EvidenceInv, ContextTypeOK, Time, Observe
  <1>2. ContextTypeOK'
    <2>1. PICK c \in Assets, l \in BOOLEAN :
            market' = [t \in Time |->
              IF t < now THEN market[t]
              ELSE [market[t] EXCEPT ![c] = [mark |-> Marks + 1, liquid |-> l]]]
      BY DEF Observe
    <2>2. market \in [Time -> [Assets -> [mark : 0..MaxChanges, liquid : BOOLEAN]]]
      BY DEF EvidenceInv, ContextTypeOK
    <2>3. Marks \in 0..MaxChanges
      <3> DEFINE S == {market[MaxTime][d].mark : d \in Assets}
      <3>1. MaxTime \in Time
        BY ContextualAssumption DEF Time
      <3>2. S # {} /\ S \subseteq 0..MaxChanges
        <4>1. market[MaxTime] \in [Assets -> [mark : 0..MaxChanges, liquid : BOOLEAN]]
          BY <2>2, <3>1
        <4>2. \A d \in Assets : market[MaxTime][d].mark \in 0..MaxChanges
          BY <4>1
        <4> QED BY <4>2
      <3>3. MaxChanges \in Nat
        BY ContextualAssumption
      <3> HIDE DEF S
      <3>4. Max(S) \in 0..MaxChanges
        BY <3>2, <3>3, GreatestIsMax
      <3> QED BY <3>4 DEF Marks, S
    <2>4. Marks + 1 \in 0..MaxChanges
      <3>1. Len(cohorts) - 1 + Marks + Cardinality(External) < MaxChanges
        BY DEF Observe, MayChange
      <3>2. Len(cohorts) \in Nat /\ Len(cohorts) >= 1 /\ Cardinality(External) \in Nat /\ MaxChanges \in Nat
        BY CountsAreNatural, ContextualAssumption DEF EvidenceInv, ContextTypeOK
      <3> QED BY <2>3, <3>1, <3>2
    <2>5. [mark |-> Marks + 1, liquid |-> l] \in [mark : 0..MaxChanges, liquid : BOOLEAN]
      BY <2>4
    <2>6. market' \in [Time -> [Assets -> [mark : 0..MaxChanges, liquid : BOOLEAN]]]
      BY <2>1, <2>2, <2>5
    <2> QED BY <2>6 DEF EvidenceInv, ContextTypeOK, Observe
  <1>3. RunInv'
    BY RunStands DEF EvidenceInv, Observe
  <1>4. /\ TableInv' /\ EvidenceRows' /\ DecisionRows' /\ DriftRows' /\ DriftInv'
        /\ \A s \in tried : SnapOK(s)'
    BY <1>1, TablesStand DEF Observe
  <1> QED BY <1>2, <1>3, <1>4 DEF EvidenceInv, Observe

LEMMA RecordDriftKeeps ==
  ASSUME EvidenceInv, RecordDrift
  PROVE  EvidenceInv'
  <1>1. PICK x \in {w.id.context : w \in store["weight"]}, status \in {"warning", "confirmed"} :
          LET e == Step("drift", [context |-> x, at |-> now, status |-> status, reason |-> "observed"],
                        [at |-> now, previous |-> <<>>, selection |-> <<>>])
          IN  ~Recorded(e) /\ store' = Appended(e)
    BY DEF RecordDrift
  <1> DEFINE e == Step("drift", [context |-> x, at |-> now, status |-> status, reason |-> "observed"],
                       [at |-> now, previous |-> <<>>, selection |-> <<>>])
  <1>2. ~Recorded(e) /\ store' = Appended(e) /\ e.table = "drift"
    BY <1>1 DEF Step
  <1>3. UNCHANGED <<now, cohorts, market, run, refreshes, tried, finished>> /\ run = Idle
    <2>1. UNCHANGED <<now, cohorts, market, run, refreshes, tried, finished>> /\ run.phase = "idle"
      BY DEF RecordDrift, MayChange, Alone
    <2> QED BY <2>1 DEF EvidenceInv, RunInv
  <1>0. PICK n : n = Stamped("drift", e.row)
    OBVIOUS
  <1>4. /\ n.id.context = x /\ n.id.at = now /\ n.id.status = status /\ n.id.reason = "observed"
        /\ n.body.at = now /\ n.made = Cardinality(store["drift"]) + 1
    BY <1>0 DEF Stamped, Step
  <1>5. TableInv' /\ StoreGrows
    BY <1>2, AppendFacts DEF EvidenceInv, Tables, Conflicts, Recorded
  <1>6. store'["drift"] = store["drift"] \cup {n}
    BY <1>0, <1>2 DEF Appended, EvidenceInv, TableInv, Tables
  <1>7. \A t \in Tables : t # "drift" => store'[t] = store[t]
    BY <1>2 DEF Appended, EvidenceInv, TableInv
  <1> HIDE DEF e
  <1>8. now \in Time /\ now <= now' /\ now' \in Time /\ tried \subseteq tried'
    BY <1>3 DEF EvidenceInv, ContextTypeOK, Time
  <1>9. External' = External \cup {n}
    BY <1>4, <1>6 DEF External, OwnReasons
  <1>10. DriftTyped'
    <2>1. ASSUME NEW r \in store["drift"] PROVE DriftRowOK(r)'
      BY <1>3 DEF EvidenceInv, DriftRows, DriftRowOK
    <2>2. DriftRowOK(n)'
      BY <1>3, <1>4, <1>8 DEF DriftRowOK
    <2> QED BY <1>6, <2>1, <2>2 DEF DriftTyped
  <1>11. EvidenceRows' /\ DecisionRows' /\ \A s \in tried : SnapOK(s)'
    <2>1. \A t \in EvidenceTables : store'[t] = store[t]
      BY <1>7 DEF EvidenceTables, Tables
    <2>2. store'["decision"] = store["decision"]
      BY <1>7 DEF Tables
    <2> QED BY <1>5, <1>8, <1>10, <2>1, <2>2, RowsStay DEF EvidenceRows, DecisionRows
  <1>12. DriftRows'
    <2>1. \A r \in store["drift"] \ External :
              \E s \in tried' :
                /\ r.id.at = s.at
                /\ Fresh(s)' => StepOf("drift", r) \in DecisionSet(s)'
      BY <1>5, <1>8, <1>10, RowsStay
    <2>2. store'["drift"] \ External' \subseteq store["drift"] \ External
      BY <1>6, <1>9
    <2> QED BY <1>10, <2>1, <2>2 DEF DriftRows, DriftTyped
  <1>13. DriftInv'
    <2>1. ASSUME NEW r \in store'["drift"], r.id.status # "stable"
          PROVE  r.id.context \in Quarantined'
      <3>1. CASE r = n
        BY <1>9, <3>1 DEF Quarantined
      <3>2. CASE r # n
        BY <1>5, <1>6, <2>1, <3>2, DriftGrows DEF EvidenceInv, DriftInv
      <3> QED BY <3>1, <3>2
    <2>2. ASSUME NEW r \in store'["drift"] \ External', NEW d \in External', r.id.context = d.id.context
          PROVE  \/ d.made < r.made /\ d.body.at > r.body.at
                 \/ d.made < r.made /\ r.id.status # "stable"
                 \/ r.made < d.made /\ r.body.at <= d.body.at
      <3>1. r \in store["drift"] \ External
        BY <1>6, <1>9
      <3>2. CASE d = n
        <4>1. r.made \in 1..Cardinality(store["drift"]) /\ Cardinality(store["drift"]) \in Nat
          BY <3>1, FS_CardinalityType DEF EvidenceInv, TableInv, Tables
        <4>2. r.body.at <= now
          BY <3>1 DEF EvidenceInv, DriftRows, DriftRowOK
        <4> QED BY <1>4, <3>2, <4>1, <4>2
      <3>3. CASE d # n
        BY <1>9, <2>2, <3>1, <3>3 DEF EvidenceInv, DriftInv
      <3> QED BY <3>2, <3>3
    <2> QED BY <2>1, <2>2 DEF DriftInv
  <1>14. ContextTypeOK'
    <2>1. \A t \in Tables : \A r \in store'[t] : r.made \in Nat
      BY <1>5, FS_CardinalityType DEF TableInv
    <2> QED BY <1>3, <1>5, <2>1 DEF EvidenceInv, ContextTypeOK, TableInv
  <1>15. RunInv'
    BY <1>3 DEF RunInv, Idle
  <1> QED BY <1>3, <1>5, <1>11, <1>12, <1>13, <1>14, <1>15 DEF EvidenceInv

LEMMA DecideKeeps ==
  ASSUME EvidenceInv, Decide
  PROVE  EvidenceInv'
  <1>1. /\ run.phase = "evidence" /\ run.todo = <<>> /\ run.seen.kind = "evaluate"
        /\ run' = [run EXCEPT !.phase = "decisions", !.todo = DecisionSteps(run.seen)]
        /\ UNCHANGED <<now, cohorts, market, store, refreshes, tried, finished>>
    BY DEF Decide
  <1>2. now <= now' /\ now' \in Time /\ tried \subseteq tried'
    BY <1>1 DEF EvidenceInv, ContextTypeOK, Time
  <1>3. PICK s \in tried :
          /\ Fresh(s) /\ run = [phase |-> "evidence", seen |-> s, todo |-> run.todo]
          /\ \A w \in EvidenceSet(s) : Written(w) \/ w \in Range(run.todo)
    BY <1>1 DEF EvidenceInv, RunInv, Idle
  <1>4. run' = [phase |-> "decisions", seen |-> s, todo |-> DecisionSteps(s)] /\ s.kind = "evaluate"
    <2>1. run.seen = s /\ DOMAIN run = {"phase", "seen", "todo"}
      BY <1>3
    <2>2. run' = [run EXCEPT !.phase = "decisions", !.todo = DecisionSteps(s)]
      BY <1>1, <2>1
    <2>3. DOMAIN run' = {"phase", "seen", "todo"} /\ run'.phase = "decisions" /\ run'.seen = s
            /\ run'.todo = DecisionSteps(s)
      BY <2>1, <2>2
    <2>4. run' = [k \in {"phase", "seen", "todo"} |-> run'[k]]
      BY <2>1, <2>2
    <2> QED BY <1>1, <2>1, <2>3, <2>4
  <1>5. DecisionSteps(s) \in Seq(DecisionSet(s))
    BY SnapFacts, DecisionStepsFacts DEF EvidenceInv
  <1>6. Complete(s)
    <2>1. Range(run.todo) = {}
      BY <1>1 DEF Range
    <2> QED BY <1>3, <2>1 DEF Complete
  <1>7. Fresh(s)' /\ Complete(s)' /\ DecisionSet(s)' = DecisionSet(s)
    <2>1. Fresh(s)'
      BY <1>1, <1>3 DEF Fresh, DriftBefore, External, Context
    <2>2. Complete(s)'
      BY <1>1, <1>6 DEF Complete, Written
    <2>3. DecisionSet(s)' = DecisionSet(s)
      BY <1>1, SameRowsSameSteps DEF PriorRows, Context
    <2> QED BY <2>1, <2>2, <2>3
  <1>8. RunInv'
    <2>1. run'.todo = DecisionSteps(s)
      BY <1>4
    <2>2. run' = [phase |-> "decisions", seen |-> s, todo |-> run'.todo]
      BY <1>4, <2>1
    <2>3. run'.todo \in Seq(DecisionSet(s)')
      BY <1>5, <1>7, <2>1
    <2> QED BY <1>2, <1>4, <1>7, <2>2, <2>3 DEF RunInv
  <1>9. ContextTypeOK'
    BY <1>1, <1>4 DEF EvidenceInv, ContextTypeOK
  <1>10. /\ TableInv' /\ EvidenceRows' /\ DecisionRows' /\ DriftRows' /\ DriftInv'
         /\ \A s_1 \in tried : SnapOK(s_1)'
    BY <1>1, <1>2, TablesStand
  <1> QED BY <1>1, <1>8, <1>9, <1>10 DEF EvidenceInv

\* Allocations are lists of instants.
LEMMA WeightRowFacts ==
  ASSUME EvidenceInv, NEW w \in store["weight"]
  PROVE  \E s \in tried : \E c \in s.assets :
           /\ s.kind = "evaluate" /\ StepOf("weight", w) = WeightStep(s, c)
           /\ w.id.context = Context(s, c) /\ w.id.allocation = Allocation(s, c)
           /\ w.id.allocation \in Seq(Time)
           /\ w.body.at = s.at /\ w.body.mark = s.market[c].mark
  <1>1. PICK s \in tried : StepOf("weight", w) \in EvidenceSet(s)
    BY DEF EvidenceInv, EvidenceRows, EvidenceTables
  <1>2. StepOf("weight", w).table = "weight" /\ StepOf("weight", w).row = [id |-> w.id, body |-> w.body]
    BY DEF StepOf, Step
  <1>3. s.kind # "screen" /\ \E c \in s.assets : StepOf("weight", w) = WeightStep(s, c)
    BY <1>1, <1>2 DEF EvidenceSet, EligibilityStep, PosteriorStep, EstimateStep, CovarianceStep,
                      WeightStep, Step
  <1>4. PICK c \in s.assets : StepOf("weight", w) = WeightStep(s, c)
    BY <1>3
  <1>5. /\ w.id = [context |-> Context(s, c), allocation |-> Allocation(s, c)]
        /\ w.body = [at |-> s.at, mark |-> s.market[c].mark]
    BY <1>2, <1>4 DEF WeightStep, Step
  <1>6. Allocation(s, c) \in Seq(Time)
    <2>1. s.previous[c] \in Seq(Time) /\ s.at \in Time
      BY DEF EvidenceInv, SnapOK
    <2> QED BY <2>1, AppendProperties DEF Allocation
  <1>7. s.kind = "evaluate"
    BY <1>3 DEF EvidenceInv, SnapOK
  <1> QED BY <1>4, <1>5, <1>6, <1>7

LEMMA CohortFacts ==
  ASSUME EvidenceInv, NEW t, CohortAt(t) # 0
  PROVE  CohortAt(t) \in DOMAIN Rankings
  <1> DEFINE S == {v \in DOMAIN cohorts : cohorts[v] <= t} \cup {0}
  <1>1. /\ DOMAIN cohorts = 1..Len(cohorts) /\ Len(cohorts) \in Nat
        /\ DOMAIN Rankings = 1..Len(Rankings) /\ Len(Rankings) \in Nat
    BY LenProperties, ContextualAssumption DEF EvidenceInv, ContextTypeOK
  <1>2. S # {} /\ S \subseteq 0..Len(cohorts)
    BY <1>1
  <1> HIDE DEF S
  <1>3. Max(S) \in S
    BY <1>1, <1>2, GreatestIsMax
  <1>4. Max(S) \in 0..Len(cohorts) /\ CohortAt(t) = Max(S)
    BY <1>2, <1>3 DEF CohortAt, S
  <1>5. Len(cohorts) <= Len(Rankings)
    BY DEF EvidenceInv
  <1> QED BY <1>1, <1>4, <1>5

LEMMA BeginKeeps ==
  ASSUME EvidenceInv, NEW kind \in {"screen", "evaluate"}, NEW asked \in Requests, NEW t \in 1..now,
         Begin(kind, asked, t)
  PROVE  EvidenceInv'
  <1> DEFINE q == Range(asked)
  <1>1. /\ kind = "evaluate" => CohortAt(t) # 0
        /\ refreshes < MaxRefreshes /\ refreshes' = refreshes + 1
        /\ UNCHANGED <<now, cohorts, market, store>>
    BY DEF Begin
  <1>2. PICK prev \in StartsFrom(asked, t) :
          /\ run' = [phase |-> "evidence", seen |-> Saw(kind, asked, t, prev),
                     todo |-> EvidenceSteps(Saw(kind, asked, t, prev))]
          /\ tried' = tried \cup {Saw(kind, asked, t, prev)}
    BY DEF Begin
  <1>3. PICK s : s = Saw(kind, asked, t, prev)
    OBVIOUS
  <1>4. /\ s.kind = kind /\ s.at = t /\ s.asked = asked /\ s.assets = q /\ s.cohort = CohortAt(t)
        /\ s.market = [c \in q |-> market[t][c]] /\ s.previous = prev
        /\ s.drift = [c \in q |-> DriftBefore(ContextAt(c, q, t), t)]
    BY <1>3 DEF Saw
  <1>5. run' = [phase |-> "evidence", seen |-> s, todo |-> EvidenceSteps(s)] /\ tried' = tried \cup {s}
    BY <1>2, <1>3
  <1>6. q \subseteq Assets /\ IsFiniteSet(q)
    <2>1. asked \in Seq(Assets)
      BY AssetsAreFinite
    <2>2. Range(asked) \subseteq Assets
      BY <2>1, RangeOfSequence
    <2>3. IsFiniteSet(Range(asked))
      BY AssetsAreFinite
    <2> QED BY <2>2, <2>3
  <1>7. t \in Time /\ t <= now /\ now \in Time
    BY ContextualAssumption DEF EvidenceInv, ContextTypeOK, Time
  <1>8. \A c \in q : Context(s, c) = ContextAt(c, q, t)
    BY <1>4 DEF Context, ContextAt
  <1>9. s.market \in [s.assets -> [mark : 0..MaxChanges, liquid : BOOLEAN]]
    <2>1. market[t] \in [Assets -> [mark : 0..MaxChanges, liquid : BOOLEAN]]
      BY <1>7 DEF EvidenceInv, ContextTypeOK
    <2> QED BY <1>4, <1>6, <2>1
  <1>10. s.previous \in [s.assets -> Seq(Time)]
    <2>1. \A c \in q : prev[c] \in PreviousAllocations(ContextAt(c, q, t), t)
      BY <1>2 DEF StartsFrom
    <2>2. ASSUME NEW c \in q PROVE prev[c] \in Seq(Time)
      <3>1. \/ prev[c] = <<>>
            \/ \E w \in store["weight"] : prev[c] = w.id.allocation
        BY <2>1 DEF PreviousAllocations, NewestOf
      <3>2. CASE prev[c] = <<>>
        BY <3>2, EmptySeq
      <3>3. CASE \E w \in store["weight"] : prev[c] = w.id.allocation
        BY <3>3, WeightRowFacts
      <3> QED BY <3>1, <3>2, <3>3
    <2>3. prev \in [q -> Seq(Time)]
      <3>1. \E R : prev \in [q -> R]
        BY <1>2 DEF StartsFrom
      <3> QED BY <2>2, <3>1
    <2> QED BY <1>4, <2>3
  <1>11. \A c \in s.assets : s.drift[c] = DriftBefore(Context(s, c), s.at)
    BY <1>4, <1>8
  <1>12. SnapOK(s)
    BY <1>1, <1>4, <1>7, <1>9, <1>10, <1>11, CohortFacts DEF SnapOK
  <1>13. SnapOK(s)'
    BY <1>1, <1>12 DEF SnapOK, DriftBefore, External, Context
  <1>14. Fresh(s) /\ Fresh(s)'
    <2>1. Fresh(s)
      BY <1>11 DEF Fresh
    <2> QED BY <1>1, <2>1 DEF Fresh, DriftBefore, External, Context
  <1>15. EvidenceSteps(s) \in Seq(EvidenceSet(s)) /\ EvidenceSet(s) \subseteq Range(EvidenceSteps(s))
    BY <1>12, SnapFacts, EvidenceStepsFacts
  <1>16. RunInv'
    <2>1. run'.todo = EvidenceSteps(s) /\ run' = [phase |-> "evidence", seen |-> s, todo |-> run'.todo]
      BY <1>5
    <2>2. s \in tried'
      BY <1>5
    <2> QED BY <1>14, <1>15, <2>1, <2>2 DEF RunInv
  <1>17. ContextTypeOK'
    <2>1. refreshes' \in 0..MaxRefreshes
      BY <1>1, ContextualAssumption DEF EvidenceInv, ContextTypeOK
    <2>2. run'.phase = "evidence"
      BY <1>5
    <2>3. finished' \subseteq tried'
      <3>1. finished' \in {{}, finished}
        BY DEF Begin
      <3> QED BY <1>5, <3>1 DEF EvidenceInv, ContextTypeOK
    <2> QED BY <1>1, <2>1, <2>2, <2>3 DEF EvidenceInv, ContextTypeOK
  <1>18. /\ TableInv' /\ EvidenceRows' /\ DecisionRows' /\ DriftRows' /\ DriftInv'
         /\ \A o \in tried : SnapOK(o)'
    BY <1>1, <1>5, <1>7, TablesStand
  <1>19. \A o \in tried' : SnapOK(o)'
    BY <1>5, <1>13, <1>18
  <1>20. Len(cohorts') \in 1..Len(Rankings)
    BY <1>1 DEF EvidenceInv
  <1> QED BY <1>16, <1>17, <1>18, <1>19, <1>20 DEF EvidenceInv

\* A refresh that has seen all the drift there is admits what its history does.
LEMMA AdmittedIsSeen ==
  ASSUME DriftTyped, NEW s, s.at \in Time, Fresh(s)
  PROVE  Admitted(s) = AdmittedBy(s)
  <1>1. ASSUME NEW c \in s.assets
        PROVE  (PriorStatus(Context(s, c), s.at) = "stable") <=> \A d \in s.drift[c] : d.status = "stable"
    <2> DEFINE x == Context(s, c)
    <2>1. s.drift[c] = DriftBefore(x, s.at)
      BY DEF Fresh
    <2>2. s.drift[c] = {r.id : r \in PriorRows(x, s.at)}
      BY <2>1, PriorRowsAre DEF DriftBefore
    <2>3. /\ \A e \in PriorRows(x, s.at) : e.id.status # "stable" => PriorStatus(x, s.at) # "stable"
          /\ PriorStatus(x, s.at) # "stable" =>
               \E r \in PriorRows(x, s.at) : r.id.status = PriorStatus(x, s.at)
      BY PriorStatusFacts
    <2> HIDE DEF x
    <2>4. ASSUME \A d \in s.drift[c] : d.status = "stable", PriorStatus(x, s.at) # "stable" PROVE FALSE
      <3>1. PICK r \in PriorRows(x, s.at) : r.id.status = PriorStatus(x, s.at)
        BY <2>3, <2>4
      <3> QED BY <2>2, <2>4, <3>1
    <2>5. ASSUME PriorStatus(x, s.at) = "stable", NEW d \in s.drift[c] PROVE d.status = "stable"
      <3>1. PICK e \in PriorRows(x, s.at) : d = e.id
        BY <2>2
      <3> QED BY <2>3, <2>5, <3>1
    <2> QED BY <2>4, <2>5 DEF x
  <1> QED BY <1>1 DEF Admitted, Admissible, AdmittedBy

\* There is a set that keeps to the order and the limits of a ranking, so that
\* Decorrelated is one; and it is not too large.
LEMMA DecorrelatedFits ==
  ASSUME NEW k \in Seq(Assets), \A i, j \in DOMAIN k : k[i] = k[j] => i = j, NEW A
  PROVE  /\ Decorrelated(k, A) \subseteq A
         /\ IsFiniteSet(Decorrelated(k, A)) /\ Cardinality(Decorrelated(k, A)) <= MaxOpportunities
  <1> DEFINE R(m) == {c \in A : \E i \in 1..m : k[i] = c}
             Rule(G, i) == k[i] \in G <=> k[i] \in A /\ Fits(k[i], Above(k, G, i))
             Good(G, m) == G \in SUBSET R(m) /\ \A i \in 1..m : Rule(G, i)
             P == {m \in 0..Len(k) : \E G : Good(G, m)}
             G == Decorrelated(k, A)
  <1>1. DOMAIN k = 1..Len(k) /\ Len(k) \in Nat
    BY LenProperties
  <1>2. Len(k) \in P
    <2>1. Good({}, 0) /\ 0 \in P
      BY <1>1
    <2>2. PICK m \in P : \A i \in P : i <= m
      <3>1. P # {} /\ P \subseteq 0..Len(k)
        BY <2>1
      <3> HIDE DEF P
      <3> QED BY <1>1, <3>1, GreatestExists
    <2>3. PICK H : Good(H, m)
      BY <2>2
    <2>4. ASSUME m # Len(k) PROVE FALSE
      <3>1. m \in Nat /\ m + 1 \in 1..Len(k) /\ m + 1 \in 0..Len(k)
        BY <1>1, <2>2, <2>4
      <3> DEFINE c == k[m + 1]
                 N == IF c \in A /\ Fits(c, Above(k, H, m + 1)) THEN H \cup {c} ELSE H
      <3>2. \A j \in 1..m : k[j] # c
        BY <1>1, <3>1
      <3>3. c \notin H
        BY <2>3, <3>2
      <3>4. ASSUME NEW i \in 1..(m + 1) PROVE Above(k, N, i) = Above(k, H, i)
        <4>1. ASSUME NEW j \in 1..(i - 1) PROVE k[j] # c
          <5>1. j \in 1..m
            BY <3>1
          <5> QED BY <3>2, <5>1
        <4>2. \A d : d \in N /\ d # c <=> d \in H /\ d # c
          OBVIOUS
        <4> HIDE DEF N, c
        <4> QED BY <4>1, <4>2 DEF Above
      <3>5. ASSUME NEW i \in 1..(m + 1) PROVE Rule(N, i)
        <4>1. CASE i = m + 1
          <5>1. c \in N <=> c \in A /\ Fits(c, Above(k, H, m + 1))
            BY <3>3
          <5>2. Above(k, N, i) = Above(k, H, m + 1)
            BY <3>4, <4>1
          <5> HIDE DEF N
          <5> QED BY <4>1, <5>1, <5>2
        <4>2. CASE i # m + 1
          <5>1. i \in 1..m
            BY <3>1, <4>2
          <5>2. k[i] \in N <=> k[i] \in H
            BY <3>2, <5>1
          <5>3. Rule(H, i)
            BY <2>3, <5>1
          <5>4. Above(k, N, i) = Above(k, H, i)
            BY <3>4
          <5> HIDE DEF N
          <5> QED BY <5>2, <5>3, <5>4
        <4> QED BY <4>1, <4>2
      <3>6. N \subseteq R(m + 1)
        <4>1. \A i \in 1..m : i \in 1..(m + 1)
          BY <3>1
        <4>2. R(m) \subseteq R(m + 1)
          BY <4>1
        <4>3. c \in A => c \in R(m + 1)
          BY <3>1
        <4>4. H \subseteq R(m)
          BY <2>3
        <4> HIDE DEF R, c
        <4> QED BY <4>2, <4>3, <4>4
      <3>7. m + 1 \in P
        <4>1. Good(N, m + 1)
          <5> HIDE DEF N, R, Rule
          <5>1. \A i \in 1..(m + 1) : Rule(N, i)
            BY <3>5
          <5>2. N \in SUBSET R(m + 1)
            BY <3>6
          <5> QED BY <5>1, <5>2, Zenon
        <4> QED BY <3>1, <4>1
      <3> HIDE DEF P
      <3> QED BY <2>2, <3>1, <3>7
    <2> QED BY <2>2, <2>4
  <1>3. G \in SUBSET R(Len(k)) /\ \A i \in 1..Len(k) : Rule(G, i)
    <2>1. \E H \in SUBSET R(Len(k)) : \A i \in 1..Len(k) : Rule(H, i)
      BY <1>2
    <2> QED BY <1>1, <2>1 DEF Decorrelated
  <1> HIDE DEF G
  <1>4. IsFiniteSet(1..Len(k)) /\ IsFiniteSet(G)
    <2>1. IsFiniteSet(1..Len(k))
      BY <1>1, FS_Interval
    <2> DEFINE T == {k[i] : i \in 1..Len(k)}
    <2>2. [i \in 1..Len(k) |-> k[i]] \in Surjection(1..Len(k), T)
      BY DEF Surjection
    <2>3. IsFiniteSet(T)
      BY <2>1, <2>2, FS_Surjection
    <2>4. G \subseteq T
      BY <1>3
    <2> QED BY <2>1, <2>3, <2>4, FS_Subset
  <1>5. Cardinality(G) <= MaxOpportunities
    <2>1. CASE G = {}
      <3>1. Cardinality({}) = 0 /\ 0 <= MaxOpportunities
        BY FS_EmptySet, ContextualAssumption
      <3> QED BY ONLY <2>1, <3>1, Zenon
    <2>2. CASE G # {}
      <3> DEFINE I == {i \in 1..Len(k) : k[i] \in G}
      <3>1. I # {} /\ I \subseteq 0..Len(k)
        BY <1>3, <2>2
      <3>2. PICK i \in I : \A j \in I : j <= i
        <4> HIDE DEF I
        <4> QED BY <1>1, <3>1, GreatestExists
      <3> DEFINE B == Above(k, G, i)
      <3>3. Cardinality(B) < MaxOpportunities
        BY <1>3, <3>2 DEF Fits
      <3>4. G \subseteq B \cup {k[i]}
        <4>1. ASSUME NEW c \in G, c # k[i] PROVE c \in B
          <5>1. PICK j \in 1..Len(k) : k[j] = c
            BY <1>3
          <5>2. j \in I /\ j # i
            BY <4>1, <5>1
          <5>3. j \in 1..(i - 1)
            BY <3>2, <5>2
          <5> QED BY <5>1, <5>3 DEF Above
        <4> QED BY <4>1
      <3>5. B \subseteq G
        BY DEF Above
      <3> HIDE DEF B
      <3>6. IsFiniteSet(B) /\ Cardinality(B) \in Nat
        BY <1>4, <3>5, FS_Subset, FS_CardinalityType
      <3>7. /\ IsFiniteSet(B \cup {k[i]})
            /\ Cardinality(B \cup {k[i]}) = Cardinality(B) \/ Cardinality(B \cup {k[i]}) = Cardinality(B) + 1
        BY <3>6, FS_AddElement
      <3>8. /\ Cardinality(G) <= Cardinality(B \cup {k[i]})
            /\ Cardinality(G) \in Nat /\ Cardinality(B \cup {k[i]}) \in Nat
        BY <3>4, <3>7, FS_Subset, FS_CardinalityType
      <3> QED BY <3>3, <3>6, <3>7, <3>8, ContextualAssumption
    <2> QED BY <2>1, <2>2
  <1> QED BY <1>3, <1>4, <1>5 DEF G

\* A portfolio has as many as it may.
LEMMA SelectedFits ==
  ASSUME NEW v \in DOMAIN Rankings, NEW A \in SUBSET Assets
  PROVE  /\ IsFiniteSet(Selected(v, A)) /\ Cardinality(Selected(v, A)) \in Nat
         /\ Cardinality(Selected(v, A)) <= MaxOpportunities
  <1> DEFINE k == Rankings[v]
             G == Decorrelated(k, A)
  <1>1. k \in Seq(Assets) /\ \A i, j \in DOMAIN k : k[i] = k[j] => i = j
    <2>1. Rankings \in Seq(Seq(Assets))
      BY ContextualAssumption
    <2>2. k \in Seq(Assets)
      BY <2>1, ElementOfSeq, LenProperties
    <2> QED BY <2>2, ContextualAssumption
  <1> HIDE DEF k
  <1>2. G \subseteq A /\ IsFiniteSet(G) /\ Cardinality(G) <= MaxOpportunities
    BY <1>1, DecorrelatedFits
  <1>3. Selected(v, A) \subseteq G
    <2>1. Selected(v, A) = Sized[G]
      BY DEF Selected, k
    <2>2. G \in SUBSET Assets
      BY <1>2
    <2> HIDE DEF G
    <2> QED BY <2>1, <2>2, ContextualAssumption
  <1> HIDE DEF G
  <1>4. /\ IsFiniteSet(Selected(v, A)) /\ Cardinality(Selected(v, A)) <= Cardinality(G)
        /\ Cardinality(Selected(v, A)) \in Nat /\ Cardinality(G) \in Nat
    BY <1>2, <1>3, FS_Subset, FS_CardinalityType
  <1> QED BY <1>2, <1>4, ContextualAssumption

\* A drift assessment that a refresh writes bears on no refresh of its own instant.
LEMMA OwnDriftIsUnseen ==
  ASSUME DriftTyped, NEW n, store'["drift"] \in {store["drift"], store["drift"] \cup {n}},
         n.id.reason \in OwnReasons, NEW s, n.body.at = s.at, s.at \in Time
  PROVE  /\ External' = External /\ Quarantined' = Quarantined
         /\ \A x : DriftBefore(x, s.at)' = DriftBefore(x, s.at)
         /\ Fresh(s) => Fresh(s)'
  <1>1. External' = External
    BY DEF External
  <1>2. Quarantined' = Quarantined
    BY <1>1 DEF Quarantined
  <1>3. ASSUME NEW x PROVE DriftBefore(x, s.at)' = DriftBefore(x, s.at)
    <2> DEFINE B(d) == d.id.context = x /\ (d.body.at < s.at \/ (d.body.at = s.at /\ d \in External))
    <2>1. n \notin External
      BY DEF External
    <2>2. ~B(n)
      BY <2>1 DEF Time
    <2>3. DriftBefore(x, s.at) = {r.id : r \in {d \in store["drift"] : B(d)}}
      BY DEF DriftBefore
    <2>4. DriftBefore(x, s.at)' = {r.id : r \in {d \in store'["drift"] : B(d)}}
      BY <1>1 DEF DriftBefore
    <2>5. {d \in store'["drift"] : B(d)} = {d \in store["drift"] : B(d)}
      BY <2>2
    <2> QED BY <2>3, <2>4, <2>5
  <1>4. Fresh(s) => Fresh(s)'
    BY <1>3 DEF Fresh, Context
  <1> QED BY <1>1, <1>2, <1>3, <1>4

\* A step of the evidence of a refresh commits.
LEMMA EvidenceCommits ==
  ASSUME EvidenceInv, NEW s \in tried, NEW w \in EvidenceSet(s), ~Conflicts(w), store' = Appended(w),
         UNCHANGED <<now, cohorts, market, refreshes, tried>>
  PROVE  /\ TableInv' /\ StoreGrows /\ Written(w)' /\ EvidenceRows' /\ DecisionRows' /\ DriftRows'
         /\ DriftInv' /\ (\A o \in tried' : SnapOK(o)') /\ (Fresh(s) => Fresh(s)')
  <1>1. /\ w.table \in EvidenceTables /\ w.table \in Tables /\ w.table # "drift"
        /\ w.table # "decision" /\ w = Step(w.table, w.row.id, w.row.body)
    BY EvidenceTablesOnly
  <1>2. /\ TableInv' /\ StoreGrows /\ Written(w)'
        /\ \A t \in Tables : t # w.table => store'[t] = store[t]
        /\ \/ store' = store
           \/ store'[w.table] = store[w.table] \cup {Stamped(w.table, w.row)}
    BY <1>1, AppendFacts DEF EvidenceInv
  <1>3. store'["drift"] = store["drift"] /\ store'["decision"] = store["decision"]
    BY <1>1, <1>2 DEF Tables
  <1>4. now <= now' /\ now' \in Time /\ tried \subseteq tried'
    BY DEF EvidenceInv, ContextTypeOK, Time
  <1>5. External' = External /\ Quarantined' = Quarantined
    BY <1>3 DEF External, Quarantined
  <1>6. DriftTyped'
    BY <1>3 DEF EvidenceInv, DriftRows, DriftTyped, DriftRowOK
  <1>7. DriftInv'
    BY <1>3, <1>5 DEF EvidenceInv, DriftInv
  <1>8. (\A o \in tried' : SnapOK(o)') /\ DecisionRows'
    BY <1>2, <1>3, <1>4, <1>6, RowsStay DEF DecisionRows
  <1>9. DriftRows'
    <2>1. \A r \in store["drift"] \ External :
              \E o \in tried' :
                /\ r.id.at = o.at
                /\ Fresh(o)' => StepOf("drift", r) \in DecisionSet(o)'
      BY <1>2, <1>4, <1>6, RowsStay
    <2> QED BY <1>3, <1>5, <1>6, <2>1 DEF DriftRows, DriftTyped
  <1>10. EvidenceRows'
    <2>1. ASSUME NEW t \in EvidenceTables, NEW r \in store'[t]
          PROVE  \E o \in tried' : StepOf(t, r) \in EvidenceSet(o)
      <3>1. t \in Tables
        BY DEF EvidenceTables, Tables
      <3>2. CASE r \in store[t]
        BY <1>2, <1>4, <1>6, <3>2, RowsStay
      <3>3. CASE r \notin store[t]
        <4>1. t = w.table /\ r = Stamped(w.table, w.row)
          BY <1>2, <2>1, <3>1, <3>3
        <4>2. r.id = w.row.id /\ r.body = w.row.body
          BY <4>1 DEF Stamped
        <4>3. StepOf(t, r) = w
          BY <1>1, <4>1, <4>2 DEF StepOf
        <4> QED BY <1>4, <4>3
      <3> QED BY <3>2, <3>3
    <2> QED BY <2>1 DEF EvidenceRows
  <1>11. Fresh(s) => Fresh(s)'
    BY <1>3, <1>5 DEF Fresh, DriftBefore, Context
  <1> QED BY <1>2, <1>7, <1>8, <1>9, <1>10, <1>11

\* A decision on an opportunity commits.
LEMMA DecisionCommits ==
  ASSUME EvidenceInv, NEW s \in tried, NEW c \in s.assets, NEW w, w = DecisionStep(s, c),
         ~Conflicts(w), store' = Appended(w), s.kind = "evaluate", Fresh(s), Complete(s),
         UNCHANGED <<now, cohorts, market, refreshes, tried>>
  PROVE  /\ TableInv' /\ StoreGrows /\ EvidenceRows' /\ DecisionRows' /\ DriftRows'
         /\ DriftInv' /\ (\A o \in tried' : SnapOK(o)') /\ Fresh(s)'
         /\ DecisionSet(s)' = DecisionSet(s)
  <1>0. /\ w.table = "decision"
        /\ w.row.id = [selection |-> Selection(s), context |-> Context(s, c), allocation |-> Allocation(s, c)]
        /\ w.row.body = [at |-> s.at, mark |-> s.market[c].mark, selected |-> c \in Chosen(s)]
        /\ w = Step("decision", w.row.id, w.row.body) /\ w \in DecisionSet(s)
    BY DEF DecisionStep, Step, DecisionSet
  <1>2. /\ TableInv' /\ StoreGrows
        /\ \A t \in Tables : t # "decision" => store'[t] = store[t]
        /\ \/ store' = store
           \/ store'["decision"] = store["decision"] \cup {Stamped("decision", w.row)}
    BY <1>0, AppendFacts DEF EvidenceInv, Tables
  <1>3. store'["drift"] = store["drift"] /\ \A t \in EvidenceTables : store'[t] = store[t]
    BY <1>2 DEF Tables, EvidenceTables
  <1>4. now <= now' /\ now' \in Time /\ tried \subseteq tried'
    BY DEF EvidenceInv, ContextTypeOK, Time
  <1>5. External' = External /\ Quarantined' = Quarantined
    BY <1>3 DEF External, Quarantined
  <1>6. DriftTyped'
    BY <1>3 DEF EvidenceInv, DriftRows, DriftTyped, DriftRowOK
  <1>7. DriftInv'
    BY <1>3, <1>5 DEF EvidenceInv, DriftInv
  <1>8. (\A o \in tried' : SnapOK(o)') /\ EvidenceRows'
    BY <1>2, <1>3, <1>4, <1>6, RowsStay DEF EvidenceRows
  <1>9. DriftRows'
    <2>1. \A r \in store["drift"] \ External :
              \E o \in tried' :
                /\ r.id.at = o.at
                /\ Fresh(o)' => StepOf("drift", r) \in DecisionSet(o)'
      BY <1>2, <1>4, <1>6, RowsStay
    <2> QED BY <1>3, <1>5, <1>6, <2>1 DEF DriftRows, DriftTyped
  <1>10. Fresh(s)' /\ DecisionSet(s)' = DecisionSet(s) /\ Complete(s)'
    <2>1. Fresh(s)'
      BY <1>3, <1>5 DEF Fresh, DriftBefore, Context
    <2>2. DecisionSet(s)' = DecisionSet(s)
      BY <1>3, SameRowsSameSteps DEF PriorRows, Context
    <2> QED BY <1>2, <2>1, <2>2, CompleteStays
  <1>12. Chosen(s) = Selected(s.cohort, AdmittedBy(s))
    BY AdmittedIsSeen, SnapFacts DEF EvidenceInv, DriftRows, DriftTyped, Chosen
  <1>13. DecisionRows'
    <2>1. ASSUME NEW r \in store'["decision"]
          PROVE  \E o \in tried' :
                   /\ o.kind = "evaluate" /\ Complete(o)'
                   /\ \E d \in o.assets : DecidedBy(r, o, d)'
                   /\ Fresh(o)' => StepOf("decision", r) \in DecisionSet(o)'
      <3>1. CASE r \in store["decision"]
        BY <1>2, <1>4, <1>6, <3>1, RowsStay
      <3>2. CASE r \notin store["decision"]
        <4>1. r = Stamped("decision", w.row)
          BY <1>2, <2>1, <3>2
        <4>2. r.id = w.row.id /\ r.body = w.row.body
          BY <4>1 DEF Stamped
        <4>3. StepOf("decision", r) \in DecisionSet(s)'
          BY <1>0, <1>10, <4>2 DEF StepOf
        <4>4. /\ r.id.context = Context(s, c) /\ r.id.allocation = Allocation(s, c)
              /\ r.id.selection.at = s.at /\ r.body.at = s.at
              /\ r.body.selected = (c \in Chosen(s))
          BY <1>0, <4>2 DEF Selection
        <4>5. r.body.selected \in BOOLEAN /\ (r.body.selected => c \in Selected(s.cohort, AdmittedBy(s)))
          <5>1. (c \in Chosen(s)) \in BOOLEAN
            BY SMT
          <5>2. r.body.selected \in BOOLEAN
            BY ONLY <4>4, <5>1, Zenon
          <5>3. r.body.selected => c \in Chosen(s)
            BY ONLY <4>4, Zenon
          <5> QED BY <1>12, <5>2, <5>3
        <4>6. Context(s, c)' = Context(s, c) /\ Allocation(s, c)' = Allocation(s, c)
          BY DEF Context, Allocation
        <4>7. DecidedBy(r, s, c)'
          BY <4>4, <4>5, <4>6, Zenon DEF DecidedBy
        <4> QED BY <1>4, <1>10, <4>3, <4>7
      <3> QED BY <3>1, <3>2
    <2> QED BY <2>1 DEF DecisionRows
  <1> QED BY <1>2, <1>7, <1>8, <1>9, <1>10, <1>13

\* The drift assessment of a context commits.
LEMMA DriftCommits ==
  ASSUME EvidenceInv, NEW s \in tried, NEW c \in s.assets, NEW w, w = DriftStep(s, c),
         ~Conflicts(w), store' = Appended(w), Fresh(s), Complete(s),
         UNCHANGED <<now, cohorts, market, refreshes, tried>>
  PROVE  /\ TableInv' /\ StoreGrows /\ EvidenceRows' /\ DecisionRows' /\ DriftRows'
         /\ DriftInv' /\ (\A o \in tried' : SnapOK(o)') /\ Fresh(s)'
         /\ DecisionSet(s)' = DecisionSet(s)
  <1> DEFINE x == Context(s, c)
  <1>0. /\ w.table = "drift" /\ w.row.id.context = x /\ w.row.id.at = s.at
        /\ w.row.id.status = PriorStatus(x, s.at) /\ w.row.id.reason \in OwnReasons
        /\ w.row.body.at = s.at
        /\ w = Step("drift", w.row.id, w.row.body) /\ w \in DecisionSet(s)
    BY DEF DriftStep, Step, DecisionSet, OwnReasons
  <1>1. PICK n : n = Stamped("drift", w.row)
    OBVIOUS
  <1>2. /\ n.id = w.row.id /\ n.body = w.row.body /\ n.made = Cardinality(store["drift"]) + 1
    BY <1>1 DEF Stamped
  <1>3. /\ n.id.context = x /\ n.id.at = s.at /\ n.id.status = PriorStatus(x, s.at)
        /\ n.id.reason \in OwnReasons /\ n.body.at = s.at
    BY <1>0, <1>2
  <1>4. /\ TableInv' /\ StoreGrows
        /\ \A t \in Tables : t # "drift" => store'[t] = store[t]
        /\ store'["drift"] \in {store["drift"], store["drift"] \cup {n}}
    BY <1>0, <1>1, AppendFacts DEF EvidenceInv, Tables
  <1>5. store'["decision"] = store["decision"] /\ \A t \in EvidenceTables : store'[t] = store[t]
    BY <1>4 DEF Tables, EvidenceTables
  <1>6. now <= now' /\ now' \in Time /\ tried \subseteq tried'
    BY DEF EvidenceInv, ContextTypeOK, Time
  <1>7. SnapOK(s) /\ s.at \in Time /\ s.at <= now
    BY DEF EvidenceInv, SnapOK
  <1>8. DriftTyped
    BY DEF EvidenceInv, DriftRows, DriftTyped
  <1>9. External' = External /\ Quarantined' = Quarantined /\ Fresh(s)'
    BY <1>3, <1>4, <1>7, <1>8, OwnDriftIsUnseen
  <1>10. DriftTyped'
    <2>1. ASSUME NEW r \in store["drift"] PROVE DriftRowOK(r)'
      BY <1>8 DEF DriftTyped, DriftRowOK
    <2>2. DriftRowOK(n)'
      <3>1. n.id.status \in {"stable", "warning", "confirmed"}
        BY <1>3, <1>7, <1>8, PriorStatusFacts
      <3> QED BY <1>3, <1>7, <3>1 DEF DriftRowOK
    <2> QED BY <1>4, <2>1, <2>2 DEF DriftTyped
  <1>11. (\A o \in tried' : SnapOK(o)') /\ EvidenceRows' /\ DecisionRows'
    BY <1>4, <1>5, <1>6, <1>10, RowsStay DEF EvidenceRows, DecisionRows
  <1>12. DecisionSet(s)' = DecisionSet(s)
    BY <1>4, <1>7, <1>8, <1>9, <1>10, FreshBefore DEF SnapOK
  <1>13. DriftRows'
    <2>1. ASSUME NEW r \in store'["drift"] \ External'
          PROVE  \E o \in tried' :
                   /\ r.id.at = o.at
                   /\ Fresh(o)' => StepOf("drift", r) \in DecisionSet(o)'
      <3>1. CASE r \in store["drift"]
        BY <1>4, <1>6, <1>9, <1>10, <2>1, <3>1, RowsStay
      <3>2. CASE r \notin store["drift"]
        <4>1. r = n
          BY <1>4, <2>1, <3>2
        <4>2. StepOf("drift", r) = w
          BY <1>0, <1>2, <4>1 DEF StepOf
        <4> QED BY <1>0, <1>3, <1>6, <1>12, <4>1, <4>2
      <3> QED BY <3>1, <3>2
    <2> QED BY <1>10, <2>1 DEF DriftRows, DriftTyped
  <1>14. DriftInv'
    <2>1. ASSUME NEW r \in store'["drift"], r.id.status # "stable"
          PROVE  r.id.context \in Quarantined'
      <3>1. CASE r = n
        <4>1. PICK e \in PriorRows(x, s.at) : e.id.status = PriorStatus(x, s.at)
          BY <1>3, <1>7, <1>8, <2>1, <3>1, PriorStatusFacts
        <4>2. e \in store["drift"] /\ e.id.context = x /\ e.id.status # "stable"
          BY <1>3, <2>1, <3>1, <4>1 DEF PriorRows
        <4> QED BY <1>3, <1>9, <3>1, <4>2 DEF EvidenceInv, DriftInv
      <3>2. CASE r # n
        BY <1>4, <1>9, <2>1, <3>2 DEF EvidenceInv, DriftInv
      <3> QED BY <3>1, <3>2
    <2>2. ASSUME NEW r \in store'["drift"] \ External', NEW e \in External', r.id.context = e.id.context
          PROVE  \/ e.made < r.made /\ e.body.at > r.body.at
                 \/ e.made < r.made /\ r.id.status # "stable"
                 \/ r.made < e.made /\ r.body.at <= e.body.at
      <3>1. e \in External /\ e \in store["drift"] /\ e.id.reason \notin OwnReasons
        BY <1>9 DEF External
      <3>2. CASE r \in store["drift"]
        BY <1>9, <2>2, <3>1, <3>2 DEF EvidenceInv, DriftInv
      <3>3. CASE r \notin store["drift"]
        <4>1. r = n
          BY <1>4, <3>3
        <4>2. e.made \in 1..Cardinality(store["drift"]) /\ Cardinality(store["drift"]) \in Nat
          BY <3>1, FS_CardinalityType DEF EvidenceInv, TableInv, Tables
        <4>3. e.made < r.made
          BY <1>2, <4>1, <4>2
        <4>4. e.body.at \in Int /\ s.at \in Int
          BY <1>7, <1>8, <3>1 DEF DriftTyped, DriftRowOK, Time
        <4>5. CASE e.body.at > s.at
          BY <1>3, <4>1, <4>3, <4>5
        <4>6. CASE ~(e.body.at > s.at)
          <5>1. e \in PriorRows(x, s.at)
            BY <1>3, <2>2, <3>1, <4>1, <4>4, <4>6 DEF PriorRows
          <5>2. e.id.status # "stable"
            BY <1>8, <3>1 DEF DriftTyped, DriftRowOK
          <5>3. r.id.status # "stable"
            BY <1>3, <1>7, <1>8, <4>1, <5>1, <5>2, PriorStatusFacts
          <5> QED BY <4>3, <5>3
        <4> QED BY <4>5, <4>6
      <3> QED BY <3>2, <3>3
    <2> QED BY <2>1, <2>2 DEF DriftInv
  <1> QED BY <1>4, <1>9, <1>11, <1>12, <1>13, <1>14

\* A list of which the first is taken.
LEMMA RestOf ==
  ASSUME NEW S, NEW q \in Seq(S), q # <<>>
  PROVE  /\ Head(q) \in S /\ Tail(q) \in Seq(S)
         /\ Range(q) \subseteq {Head(q)} \cup Range(Tail(q))
  <1>1. /\ Head(q) \in S /\ Tail(q) \in Seq(S) /\ Len(Tail(q)) = Len(q) - 1 /\ Len(q) \in Nat
        /\ Head(q) = q[1] /\ \A i \in 1..(Len(q) - 1) : Tail(q)[i] = q[i + 1]
    BY HeadTailProperties, LenProperties
  <1>2. ASSUME NEW x \in Range(q), x # Head(q) PROVE x \in Range(Tail(q))
    <2>1. PICK i \in 1..Len(q) : q[i] = x
      BY RangeOfSequence
    <2>2. i # 1
      BY <1>1, <1>2, <2>1
    <2>3. i - 1 \in 1..Len(Tail(q)) /\ Tail(q)[i - 1] = x
      BY <1>1, <2>1, <2>2
    <2> QED BY <1>1, <2>3, RangeOfSequence
  <1> QED BY <1>1, <1>2

LEMMA WriteKeeps ==
  ASSUME EvidenceInv, Write
  PROVE  EvidenceInv'
  <1>0. PICK w : w = Head(run.todo)
    OBVIOUS
  <1>1. /\ run.todo # <<>> /\ ~Conflicts(w) /\ store' = Appended(w)
        /\ run' = [run EXCEPT !.todo = Tail(@)]
        /\ UNCHANGED <<now, cohorts, market, refreshes, tried, finished>>
    BY <1>0 DEF Write
  <1>2. PICK s \in tried :
          /\ Fresh(s)
          /\ \/ /\ run = [phase |-> "evidence", seen |-> s, todo |-> run.todo]
                /\ run.todo \in Seq(EvidenceSet(s))
                /\ \A v \in EvidenceSet(s) : Written(v) \/ v \in Range(run.todo)
             \/ /\ run = [phase |-> "decisions", seen |-> s, todo |-> run.todo]
                /\ s.kind = "evaluate" /\ Complete(s)
                /\ run.todo \in Seq(DecisionSet(s))
    BY <1>1 DEF EvidenceInv, RunInv, Idle
  <1>3. /\ run' = [phase |-> run.phase, seen |-> s, todo |-> Tail(run.todo)]
        /\ run.phase \in {"evidence", "decisions"}
    <2>1. run.seen = s /\ DOMAIN run = {"phase", "seen", "todo"} /\ run.phase \in {"evidence", "decisions"}
      BY <1>2
    <2>2. /\ DOMAIN run' = {"phase", "seen", "todo"} /\ run'.phase = run.phase /\ run'.seen = s
          /\ run'.todo = Tail(run.todo)
      BY <1>1, <2>1
    <2>3. run' = [k \in {"phase", "seen", "todo"} |-> run'[k]]
      BY <1>1, <2>1
    <2> QED BY <2>1, <2>2, <2>3
  <1>4. run'.todo = Tail(run.todo) /\ run'.phase = run.phase
    BY <1>3
  <1>5. /\ TableInv' /\ EvidenceRows' /\ DecisionRows' /\ DriftRows' /\ DriftInv'
        /\ (\A o \in tried' : SnapOK(o)') /\ RunInv'
    <2>1. CASE /\ run = [phase |-> "evidence", seen |-> s, todo |-> run.todo]
               /\ run.todo \in Seq(EvidenceSet(s))
               /\ \A v \in EvidenceSet(s) : Written(v) \/ v \in Range(run.todo)
      <3>1. /\ w \in EvidenceSet(s) /\ Tail(run.todo) \in Seq(EvidenceSet(s))
            /\ Range(run.todo) \subseteq {w} \cup Range(Tail(run.todo))
        BY <1>0, <1>1, <2>1, RestOf
      <3>2. /\ TableInv' /\ StoreGrows /\ Written(w)' /\ EvidenceRows' /\ DecisionRows' /\ DriftRows'
            /\ DriftInv' /\ (\A o \in tried' : SnapOK(o)') /\ (Fresh(s) => Fresh(s)')
        BY <1>1, <3>1, EvidenceCommits
      <3>3. ASSUME NEW v \in EvidenceSet(s) PROVE Written(v)' \/ v \in Range(run'.todo)
        <4>1. Written(v) => Written(v)'
          BY <3>2, EvidenceTablesOnly, WrittenStays
        <4>2. v = w => Written(v)'
          BY <3>2 DEF Written
        <4> QED BY <1>4, <2>1, <3>1, <4>1, <4>2
      <3>4. RunInv'
        <4>0. run.phase = "evidence"
          BY <2>1
        <4>1. run' = [phase |-> "evidence", seen |-> s, todo |-> run'.todo]
          BY ONLY <1>3, <1>4, <4>0
        <4>2. run'.todo \in Seq(EvidenceSet(s))
          BY <1>4, <3>1
        <4>3. s \in tried' /\ Fresh(s)'
          BY <1>1, <1>2, <3>2
        <4> QED BY <3>3, <4>1, <4>2, <4>3 DEF RunInv
      <3> QED BY <3>2, <3>4
    <2>2. CASE /\ run = [phase |-> "decisions", seen |-> s, todo |-> run.todo]
               /\ s.kind = "evaluate" /\ Complete(s)
               /\ run.todo \in Seq(DecisionSet(s))
      <3>1. w \in DecisionSet(s) /\ Tail(run.todo) \in Seq(DecisionSet(s))
        BY <1>0, <1>1, <2>2, RestOf
      <3>2. /\ TableInv' /\ StoreGrows /\ EvidenceRows' /\ DecisionRows' /\ DriftRows'
            /\ DriftInv' /\ (\A o \in tried' : SnapOK(o)') /\ Fresh(s)'
            /\ DecisionSet(s)' = DecisionSet(s)
        <4>1. PICK c \in s.assets : w = DecisionStep(s, c) \/ w = DriftStep(s, c)
          BY <3>1, DecisionTablesOnly
        <4>2. CASE w = DecisionStep(s, c)
          BY <1>1, <1>2, <2>2, <4>2, DecisionCommits
        <4>3. CASE w = DriftStep(s, c)
          BY <1>1, <1>2, <2>2, <4>3, DriftCommits
        <4> QED BY <4>1, <4>2, <4>3
      <3>3. RunInv'
        <4>0. run.phase = "decisions"
          BY <2>2
        <4>1. run' = [phase |-> "decisions", seen |-> s, todo |-> run'.todo]
          BY ONLY <1>3, <1>4, <4>0
        <4>2. run'.todo \in Seq(DecisionSet(s)')
          BY <1>4, <3>1, <3>2
        <4>3. s \in tried' /\ Fresh(s)' /\ Complete(s)' /\ s.kind = "evaluate"
          BY <1>1, <2>2, <3>2, CompleteStays
        <4> QED BY <4>1, <4>2, <4>3 DEF RunInv
      <3> QED BY <3>2, <3>3
    <2> QED BY <1>2, <2>1, <2>2
  <1>6. ContextTypeOK'
    <2>1. DOMAIN store' = Tables /\ \A t \in Tables : \A r \in store'[t] : r.made \in Nat
      BY <1>5, FS_CardinalityType DEF TableInv
    <2> QED BY <1>1, <1>3, <1>4, <2>1 DEF EvidenceInv, ContextTypeOK
  <1> QED BY <1>1, <1>5, <1>6 DEF EvidenceInv

LEMMA EvidenceStarts ==
  ASSUME ContextInit
  PROVE  EvidenceInv
  <1>1. 1 \in Time /\ 0 \in 0..MaxChanges /\ 0 \in 0..MaxRefreshes
    BY ContextualAssumption DEF Time
  <1>2. \A t \in Tables : store[t] = {} /\ IsFiniteSet(store[t])
    BY FS_EmptySet DEF ContextInit
  <1>3. "drift" \in Tables /\ "decision" \in Tables /\ EvidenceTables \subseteq Tables
    BY DEF Tables, EvidenceTables
  <1>4. cohorts \in Seq(Time) /\ Len(cohorts) = 1
    BY <1>1 DEF ContextInit
  <1>5. ContextTypeOK
    BY <1>1, <1>2, <1>4 DEF ContextInit, ContextTypeOK, Idle
  <1>6. TableInv
    BY <1>2 DEF TableInv, ContextInit
  <1>7. EvidenceRows /\ DecisionRows /\ DriftRows /\ DriftInv
    BY <1>2, <1>3 DEF EvidenceRows, DecisionRows, DriftRows, DriftInv, External
  <1>8. Len(cohorts) \in 1..Len(Rankings)
    <2>1. Rankings \in Seq(Seq(Assets)) /\ Rankings # <<>>
      BY ContextualAssumption
    <2>2. Len(Rankings) \in Nat /\ Len(Rankings) # 0
      BY <2>1, EmptySeq, LenProperties
    <2> QED BY <1>4, <2>2
  <1> QED BY <1>5, <1>6, <1>7, <1>8 DEF EvidenceInv, RunInv, ContextInit

LEMMA EvidenceStep ==
  ASSUME EvidenceInv, [ContextNext]_cvars
  PROVE  EvidenceInv'
  <1>1. CASE Tick
    BY <1>1, TickKeeps
  <1>2. CASE Publish
    BY <1>2, PublishKeeps
  <1>3. CASE Observe
    BY <1>3, ObserveKeeps
  <1>4. CASE RecordDrift
    BY <1>4, RecordDriftKeeps
  <1>5. ASSUME NEW q \in Requests, NEW t \in 1..now, Begin("evaluate", q, t) \/ Begin("screen", q, t)
        PROVE  EvidenceInv'
    BY <1>5, BeginKeeps
  <1>6. CASE Write
    BY <1>6, WriteKeeps
  <1>7. CASE Refuse \/ Finish \/ Crash
    <2>1. finished' \subseteq tried
      <3>1. CASE Finish /\ run.phase = "decisions"
        <4>1. run.seen \in tried
          BY <3>1 DEF EvidenceInv, RunInv, Idle
        <4> QED BY <3>1, <4>1 DEF Finish
      <3>2. CASE ~(Finish /\ run.phase = "decisions")
        BY <1>7, <3>2 DEF Refuse, Finish, Crash, EvidenceInv, ContextTypeOK
      <3> QED BY <3>1, <3>2
    <2> QED BY <1>7, <2>1, RunEnds DEF Refuse, Finish, Crash
  <1>8. CASE Decide
    BY <1>8, DecideKeeps
  <1>9. CASE UNCHANGED cvars
    <2>1. now <= now' /\ now' \in Time /\ tried \subseteq tried' /\ UNCHANGED <<store, run>>
      BY <1>9 DEF cvars, EvidenceInv, ContextTypeOK, Time
    <2>2. RunInv'
      BY <2>1, RunStands DEF EvidenceInv
    <2>3. ContextTypeOK' /\ Len(cohorts') \in 1..Len(Rankings)
      BY <1>9 DEF cvars, EvidenceInv, ContextTypeOK
    <2>4. /\ TableInv' /\ EvidenceRows' /\ DecisionRows' /\ DriftRows' /\ DriftInv'
          /\ \A s \in tried : SnapOK(s)'
      BY <2>1, TablesStand
    <2>5. tried' = tried
      BY <1>9 DEF cvars
    <2> QED BY <2>2, <2>3, <2>4, <2>5 DEF EvidenceInv
  <1> QED BY <1>1, <1>2, <1>3, <1>4, <1>5, <1>6, <1>7, <1>8, <1>9 DEF ContextNext

LEMMA EvidenceHolds == ContextSpec => []EvidenceInv
  BY EvidenceStarts, EvidenceStep, PTL DEF ContextSpec
-----------------------------------------------------------------------------
(* What the readers and the refreshes rest on it for.                      *)

\* Drift on record is what a reader of the newest drift finds.
LEMMA QuarantinedIsNotStable ==
  ASSUME EvidenceInv, NEW x \in Quarantined
  PROVE  DriftStatus(x) # "stable"
  <1> DEFINE all  == {r \in store["drift"] : r.id.context = x}
             rows == LastMade(NewestOf(all))
  <1>1. CASE rows = {}
    BY <1>1 DEF DriftStatus
  <1>2. CASE rows # {}
    <2>1. PICK r \in rows : DriftStatus(x) = r.id.status
      BY <1>2 DEF DriftStatus
    <2>2. /\ r \in all /\ \A o \in all : o.body.at <= r.body.at
          /\ \A o \in NewestOf(all) : o.made <= r.made
      BY DEF LastMade, NewestOf
    <2>3. PICK e \in External : e.id.context = x
      BY DEF Quarantined
    <2>4. e \in all
      BY <2>3 DEF External
    <2>5. /\ \A o \in all : DriftRowOK(o) /\ o.body.at \in Int /\ o.made \in Int
      BY DEF EvidenceInv, DriftRows, DriftRowOK, ContextTypeOK, Tables, Time
    <2>6. CASE r \in External
      BY <2>1, <2>2, <2>5, <2>6 DEF DriftRowOK, External
    <2>7. CASE r \notin External
      <3>1. \/ e.made < r.made /\ e.body.at > r.body.at
            \/ e.made < r.made /\ r.id.status # "stable"
            \/ r.made < e.made /\ r.body.at <= e.body.at
        BY <2>2, <2>3, <2>7 DEF EvidenceInv, DriftInv
      <3>2. e.body.at <= r.body.at
        BY <2>2, <2>4
      <3>3. ~(r.made < e.made /\ r.body.at <= e.body.at)
        <4>1. SUFFICES ASSUME r.made < e.made, r.body.at <= e.body.at PROVE FALSE
          OBVIOUS
        <4>2. e.body.at = r.body.at
          BY <2>2, <2>4, <2>5, <3>2, <4>1
        <4>3. e \in NewestOf(all)
          BY <2>2, <2>4, <4>2 DEF NewestOf
        <4>4. e.made <= r.made
          BY <2>2, <4>3
        <4> QED BY <2>2, <2>4, <2>5, <4>1, <4>4
      <3>4. ~(e.body.at > r.body.at)
        BY <2>2, <2>4, <2>5, <3>2
      <3> QED BY <2>1, <3>1, <3>3, <3>4
    <2> QED BY <2>6, <2>7
  <1> QED BY <1>1, <1>2

\* What a reader shows is put together from the newest weight row of the asset.
LEMMA ReadsFacts ==
  ASSUME NEW c, NEW v \in Reads(c)
  PROVE  \E w \in LatestWeights(c) : \E e \in EligibilityOf(w) : \E d \in DecisionOf(w) :
           /\ Cardinality(LatestWeights(c)) = 1
           /\ v = [context |-> w.id.context, at |-> w.body.at, eligible |-> e.body.liquid,
                   selected |-> d.body.selected, drift |-> DriftStatus(w.id.context)]
  BY DEF Reads

LEMMA ShownDrift ==
  ASSUME EvidenceInv
  PROVE  QuarantineHolds
  <1>1. SUFFICES ASSUME NEW c \in Assets, NEW v \in Projections(c) \cup Envelopes(c),
                        v.context \in Quarantined
                 PROVE  v.drift # "stable"
    BY DEF QuarantineHolds
  <1>2. v \in Reads(c)
    BY DEF Projections, Envelopes
  <1>3. v.drift = DriftStatus(v.context)
    BY <1>2, ReadsFacts
  <1> QED BY <1>1, <1>3, QuarantinedIsNotStable

\* A step of the evidence has the instant of its refresh in its identity, and a refresh
\* has one step of an identity.
LEMMA EvidenceIdentity ==
  ASSUME NEW s, NEW o, SnapOK(s), SnapOK(o), NEW w \in EvidenceSet(s), NEW v \in EvidenceSet(o),
         w.table = v.table, w.row.id = v.row.id
  PROVE  s.at = o.at /\ (s = o => w = v)
  <1>1. CASE w.table = "eligibility"
    BY <1>1 DEF EvidenceSet, EligibilityStep, PosteriorStep, EstimateStep, CovarianceStep, WeightStep, Step
  <1>2. CASE w.table = "posterior"
    BY <1>2 DEF EvidenceSet, EligibilityStep, PosteriorStep, EstimateStep, CovarianceStep, WeightStep, Step
  <1>3. CASE w.table = "estimate"
    BY <1>3 DEF EvidenceSet, EligibilityStep, PosteriorStep, EstimateStep, CovarianceStep, WeightStep, Step
  <1>4. CASE w.table = "covariance"
    <2>1. PICK c \in s.assets : w = CovarianceStep(s, c)
      BY <1>4 DEF EvidenceSet, EligibilityStep, PosteriorStep, EstimateStep, CovarianceStep, WeightStep, Step
    <2>2. PICK d \in o.assets : v = CovarianceStep(o, d)
      BY <1>4 DEF EvidenceSet, EligibilityStep, PosteriorStep, EstimateStep, CovarianceStep, WeightStep, Step
    <2>3. s.at = o.at /\ Context(s, c) = Context(o, d)
      BY <2>1, <2>2 DEF CovarianceStep, Step
    <2>4. c = d
      BY <2>3 DEF Context
    <2> QED BY <2>1, <2>2, <2>3, <2>4
  <1>5. CASE w.table = "weight"
    <2>1. PICK c \in s.assets : w = WeightStep(s, c)
      BY <1>5 DEF EvidenceSet, EligibilityStep, PosteriorStep, EstimateStep, CovarianceStep, WeightStep, Step
    <2>2. PICK d \in o.assets : v = WeightStep(o, d)
      BY <1>5 DEF EvidenceSet, EligibilityStep, PosteriorStep, EstimateStep, CovarianceStep, WeightStep, Step
    <2>3. Context(s, c) = Context(o, d) /\ Allocation(s, c) = Allocation(o, d)
      BY <2>1, <2>2 DEF WeightStep, Step
    <2>4. c = d
      BY <2>3 DEF Context
    <2>5. s.previous[c] \in Seq(Time) /\ o.previous[d] \in Seq(Time) /\ s.at \in Time /\ o.at \in Time
      BY DEF SnapOK
    <2>6. s.at = o.at
      <3>1. Append(s.previous[c], s.at) = Append(o.previous[d], o.at)
        BY <2>3 DEF Allocation
      <3>2. /\ Len(Append(s.previous[c], s.at)) = Len(s.previous[c]) + 1
            /\ Append(s.previous[c], s.at)[Len(s.previous[c]) + 1] = s.at
            /\ Len(Append(o.previous[d], o.at)) = Len(o.previous[d]) + 1
            /\ Append(o.previous[d], o.at)[Len(o.previous[d]) + 1] = o.at
        BY <2>5, AppendProperties
      <3> QED BY <3>1, <3>2
    <2> QED BY <2>1, <2>2, <2>4, <2>6
  <1>6. w.table \in EvidenceTables
    BY EvidenceTablesOnly
  <1> QED BY <1>1, <1>2, <1>3, <1>4, <1>5, <1>6 DEF EvidenceTables

LEMMA DecisionIdentity ==
  ASSUME NEW s, NEW w \in DecisionSet(s), NEW v \in DecisionSet(s), w.table = v.table, w.row.id = v.row.id
  PROVE  w = v
  <1>1. PICK c \in s.assets : \/ w = DecisionStep(s, c) /\ w.table = "decision"
                              \/ w = DriftStep(s, c) /\ w.table = "drift"
    BY DecisionTablesOnly
  <1>2. PICK d \in s.assets : \/ v = DecisionStep(s, d) /\ v.table = "decision"
                              \/ v = DriftStep(s, d) /\ v.table = "drift"
    BY DecisionTablesOnly
  <1>3. w.row.id.context = Context(s, c) /\ v.row.id.context = Context(s, d)
    BY <1>1, <1>2 DEF DecisionStep, DriftStep, Step
  <1>4. c = d
    BY <1>3 DEF Context
  <1> QED BY <1>1, <1>2, <1>4

LEMMA RerunIsAccepted ==
  ASSUME EvidenceInv
  PROVE  RerunAgrees
  <1>1. SUFFICES ASSUME run.todo # <<>>, Conflicts(Head(run.todo)),
                        \A o \in tried : o.at = run.seen.at => o = run.seen
                 PROVE  FALSE
    BY DEF RerunAgrees
  <1>2. PICK w : w = Head(run.todo)
    OBVIOUS
  <1>3. PICK s \in tried :
          /\ Fresh(s)
          /\ \/ /\ run = [phase |-> "evidence", seen |-> s, todo |-> run.todo]
                /\ run.todo \in Seq(EvidenceSet(s))
             \/ /\ run = [phase |-> "decisions", seen |-> s, todo |-> run.todo]
                /\ run.todo \in Seq(DecisionSet(s))
    BY <1>1 DEF EvidenceInv, RunInv, Idle
  <1>4. \A o \in tried : o.at = s.at => o = s
    BY <1>1, <1>3
  <1>5. PICK r \in store[w.table] : r.id = w.row.id /\ r.body # w.row.body
    BY <1>1, <1>2 DEF Conflicts
  <1>6. \A o \in tried : SnapOK(o)
    BY DEF EvidenceInv
  <1> DEFINE v == StepOf(w.table, r)
  <1>7. v.table = w.table /\ v.row.id = w.row.id /\ v # w
    BY <1>5 DEF StepOf, Step
  <1> HIDE DEF v
  <1>8. CASE w \in EvidenceSet(s)
    <2>1. PICK o \in tried : v \in EvidenceSet(o)
      BY <1>8, EvidenceTablesOnly DEF EvidenceInv, EvidenceRows, v
    <2>2. s.at = o.at /\ (s = o => w = v)
      BY <1>6, <1>7, <1>8, <2>1, EvidenceIdentity
    <2> QED BY <1>4, <1>7, <2>2
  <1>9. CASE w \in DecisionSet(s)
    <2>1. PICK c \in s.assets : \/ w = DecisionStep(s, c) /\ w.table = "decision"
                                \/ w = DriftStep(s, c) /\ w.table = "drift"
      BY <1>9, DecisionTablesOnly
    <2>2. v \in DecisionSet(s)
      <3>1. CASE w = DecisionStep(s, c) /\ w.table = "decision"
        <4>1. PICK o \in tried : /\ \E d \in o.assets : DecidedBy(r, o, d)
                                 /\ Fresh(o) => StepOf("decision", r) \in DecisionSet(o)
          BY <1>5, <3>1 DEF EvidenceInv, DecisionRows
        <4>2. w.row.id.selection.at = s.at
          BY <3>1 DEF DecisionStep, Step, Selection
        <4>3. o.at = s.at
          BY <1>5, <4>1, <4>2 DEF DecidedBy
        <4> QED BY <1>3, <1>4, <3>1, <4>1, <4>3 DEF v
      <3>2. CASE w = DriftStep(s, c) /\ w.table = "drift"
        <4>1. w.row.id.at = s.at /\ w.row.id.reason \in OwnReasons
          BY <3>2 DEF DriftStep, Step, OwnReasons
        <4>2. r \in store["drift"] \ External
          BY <1>5, <3>2, <4>1 DEF External
        <4>3. PICK o \in tried : /\ r.id.at = o.at
                                 /\ Fresh(o) => StepOf("drift", r) \in DecisionSet(o)
          BY <4>2 DEF EvidenceInv, DriftRows
        <4>4. o.at = s.at
          BY <1>5, <4>1, <4>3
        <4> QED BY <1>3, <1>4, <3>2, <4>3, <4>4 DEF v
      <3> QED BY <2>1, <3>1, <3>2
    <2> QED BY <1>7, <1>9, <2>2, DecisionIdentity
  <1>10. w \in EvidenceSet(s) \/ w \in DecisionSet(s)
    BY <1>1, <1>2, <1>3, RestOf
  <1> QED BY <1>8, <1>9, <1>10
-----------------------------------------------------------------------------
(* The limit of the portfolio.                                             *)

LEMMA EligibilityRowFacts ==
  ASSUME EvidenceInv, NEW e \in store["eligibility"]
  PROVE  \E s \in tried : \E c \in s.assets :
           /\ e.id = [asset |-> c, at |-> s.at, mark |-> s.market[c].mark]
           /\ e.body = [at |-> s.at, liquid |-> s.market[c].liquid]
           /\ e.body.at = s.at /\ e.body.liquid \in BOOLEAN
  <1>1. PICK s \in tried : StepOf("eligibility", e) \in EvidenceSet(s)
    BY DEF EvidenceInv, EvidenceRows, EvidenceTables
  <1>2. /\ StepOf("eligibility", e).table = "eligibility"
        /\ StepOf("eligibility", e).row = [id |-> e.id, body |-> e.body]
    BY DEF StepOf, Step
  <1>3. PICK c \in s.assets : StepOf("eligibility", e) = EligibilityStep(s, c)
    BY <1>1, <1>2 DEF EvidenceSet, EligibilityStep, PosteriorStep, EstimateStep, CovarianceStep,
                      WeightStep, Step
  <1>4. /\ e.id = [asset |-> c, at |-> s.at, mark |-> s.market[c].mark]
        /\ e.body = [at |-> s.at, liquid |-> s.market[c].liquid]
    BY <1>2, <1>3 DEF EligibilityStep, Step
  <1>5. s.market[c].liquid \in BOOLEAN
    BY DEF EvidenceInv, SnapOK
  <1> QED BY <1>4, <1>5

\* The context of an asset that may be entered, as its weights and its decision have it.
LEMMA EnteredFacts ==
  ASSUME EvidenceInv, NEW v \in Entered
  PROVE  \E c \in Assets :
         \E w \in LatestWeights(c) : \E e \in EligibilityOf(w) : \E d \in DecisionOf(w) :
           /\ LatestWeights(c) = {w} /\ v.context.asset = c
           /\ e.body.liquid = TRUE /\ d.body.selected = TRUE
           /\ v = [context |-> w.id.context, at |-> w.body.at, eligible |-> TRUE,
                   selected |-> TRUE, drift |-> "stable"]
           /\ v.context \notin Quarantined
  <1>1. PICK c \in Assets : v \in Envelopes(c)
    BY DEF Entered
  <1>2. v \in Reads(c) /\ Enters(v)
    BY <1>1 DEF Envelopes, Entered
  <1> DEFINE V(w, e, d) ==
         /\ Cardinality(LatestWeights(c)) = 1
         /\ v = [context |-> w.id.context, at |-> w.body.at, eligible |-> e.body.liquid,
                 selected |-> d.body.selected, drift |-> DriftStatus(w.id.context)]
  <1>w. PICK w \in LatestWeights(c) : \E e \in EligibilityOf(w) : \E d \in DecisionOf(w) : V(w, e, d)
    BY <1>2, ReadsFacts
  <1>e. PICK e \in EligibilityOf(w) : \E d \in DecisionOf(w) : V(w, e, d)
    BY <1>w
  <1>3. PICK d \in DecisionOf(w) : V(w, e, d)
    BY <1>e
  <1>4. LatestWeights(c) = {w}
    <2>1. IsFiniteSet(store["weight"]) /\ LatestWeights(c) \subseteq store["weight"]
      BY DEF EvidenceInv, TableInv, Tables, LatestWeights, NewestOf
    <2>2. IsFiniteSet(LatestWeights(c))
      BY <2>1, FS_Subset
    <2> QED BY <1>3, <2>2, FS_Singleton
  <1>5. w.id.context.asset = c
    BY DEF LatestWeights, NewestOf
  <1>6. e \in store["eligibility"] /\ d \in store["decision"]
    BY DEF EligibilityOf, DecisionOf, LastMade
  <1>7. e.body.liquid \in BOOLEAN /\ d.body.selected \in BOOLEAN
    <2>1. e.body.liquid \in BOOLEAN
      BY <1>6, EligibilityRowFacts
    <2>2. d.body.selected \in BOOLEAN
      BY <1>6 DEF EvidenceInv, DecisionRows, DecidedBy
    <2> QED BY <2>1, <2>2
  <1>8. v.eligible /\ v.selected /\ v.drift = "stable"
    BY <1>2 DEF Enters
  <1>9. v.eligible = e.body.liquid /\ v.selected = d.body.selected /\ v.drift = DriftStatus(w.id.context)
        /\ v.context = w.id.context
    BY <1>3
  <1>10. e.body.liquid = TRUE /\ d.body.selected = TRUE /\ DriftStatus(w.id.context) = "stable"
    <2>1. v.eligible \in BOOLEAN /\ v.selected \in BOOLEAN
      BY <1>7, <1>9
    <2>2. v.eligible = TRUE /\ v.selected = TRUE
      BY <1>8, <2>1
    <2> QED BY <1>8, <1>9, <2>2
  <1>11. v.context \notin Quarantined
    BY <1>9, <1>10, QuarantinedIsNotStable
  <1> QED BY <1>3, <1>4, <1>5, <1>9, <1>10, <1>11

\* Its decision was made by a refresh whose evidence is all there.
LEMMA EnteredIsDecided ==
  ASSUME EvidenceInv, NEW v \in Entered
  PROVE  \E s \in tried :
           /\ s.kind = "evaluate" /\ Complete(s) /\ v.context.asset \in s.assets
           /\ v.context.scope = s.assets /\ v.at = s.at
           /\ v.context.asset \in Selected(s.cohort, AdmittedBy(s))
  <1>w. PICK c \in Assets : \E w \in LatestWeights(c) : \E d \in DecisionOf(w) :
           /\ v.context.asset = c /\ d.body.selected = TRUE
           /\ v = [context |-> w.id.context, at |-> w.body.at, eligible |-> TRUE,
                   selected |-> TRUE, drift |-> "stable"]
    BY EnteredFacts
  <1>d. PICK w \in LatestWeights(c) : \E d \in DecisionOf(w) :
           /\ v.context.asset = c /\ d.body.selected = TRUE
           /\ v = [context |-> w.id.context, at |-> w.body.at, eligible |-> TRUE,
                   selected |-> TRUE, drift |-> "stable"]
    BY <1>w
  <1>1. PICK d \in DecisionOf(w) :
           /\ v.context.asset = c /\ d.body.selected = TRUE
           /\ v = [context |-> w.id.context, at |-> w.body.at, eligible |-> TRUE,
                   selected |-> TRUE, drift |-> "stable"]
    BY <1>d
  <1>2. d \in store["decision"] /\ d.id.context = w.id.context /\ d.body.at = w.body.at
    BY DEF DecisionOf, LastMade
  <1>3. PICK s \in tried : /\ s.kind = "evaluate" /\ Complete(s)
                           /\ \E b \in s.assets : DecidedBy(d, s, b)
    BY <1>2 DEF EvidenceInv, DecisionRows
  <1>4. PICK b \in s.assets : DecidedBy(d, s, b)
    BY <1>3
  <1>5. v.context = Context(s, b) /\ v.at = s.at
    BY <1>1, <1>2, <1>4 DEF DecidedBy
  <1>6. b = v.context.asset /\ v.context.scope = s.assets
    BY <1>5 DEF Context
  <1>7. b \in Selected(s.cohort, AdmittedBy(s))
    BY <1>1, <1>4 DEF DecidedBy
  <1> QED BY <1>3, <1>5, <1>6, <1>7

\* A refresh of the asset whose evidence is all there is no newer; one of the same
\* instant has the context that is entered.
LEMMA EnteredIsKnown ==
  ASSUME EvidenceInv, NEW v \in Entered, NEW s \in tried, s.kind = "evaluate", Complete(s),
         v.context.asset \in s.assets
  PROVE  /\ v.at \in Int /\ s.at <= v.at
         /\ v.at <= s.at => /\ v.context = Context(s, v.context.asset)
                            /\ v = [context |-> Context(s, v.context.asset), at |-> s.at,
                                    eligible |-> TRUE, selected |-> TRUE, drift |-> "stable"]
  <1> DEFINE V(c, w, e) ==
         /\ LatestWeights(c) = {w} /\ v.context.asset = c /\ e.body.liquid = TRUE
         /\ v = [context |-> w.id.context, at |-> w.body.at, eligible |-> TRUE,
                 selected |-> TRUE, drift |-> "stable"]
         /\ v.context \notin Quarantined
  <1>c. PICK c \in Assets : \E w \in LatestWeights(c) : \E e \in EligibilityOf(w) : V(c, w, e)
    BY EnteredFacts
  <1>w. PICK w \in LatestWeights(c) : \E e \in EligibilityOf(w) : V(c, w, e)
    BY <1>c
  <1>1. PICK e \in EligibilityOf(w) : V(c, w, e)
    BY <1>w
  <1>2. SnapOK(s) /\ c \in s.assets
    BY <1>1 DEF EvidenceInv
  <1>3. PICK k \in store["weight"] : /\ k.id = [context |-> Context(s, c), allocation |-> Allocation(s, c)]
                                     /\ k.body = [at |-> s.at, mark |-> s.market[c].mark]
    <2>1. WeightStep(s, c) \in EvidenceSet(s)
      BY <1>2 DEF EvidenceSet
    <2>2. Written(WeightStep(s, c))
      BY <2>1 DEF Complete
    <2> QED BY <2>2 DEF Written, WeightStep, Step
  <1>4. k.id.context.asset = c /\ k.body.at = s.at
    BY <1>3 DEF Context
  <1>5. /\ w \in store["weight"] /\ w.id.context.asset = c /\ k.body.at <= w.body.at
        /\ \A o \in store["weight"] : o.id.context.asset = c => o.body.at <= w.body.at
    BY <1>4 DEF LatestWeights, NewestOf
  <1>6. w.body.at \in Int /\ s.at \in Int
    <2>1. PICK o \in tried : w.body.at = o.at
      BY <1>5, WeightRowFacts
    <2> QED BY <1>2, <2>1 DEF EvidenceInv, SnapOK, Time
  <1>7. v.at = w.body.at /\ v.context = w.id.context
    BY <1>1
  <1>8. ASSUME v.at <= s.at
        PROVE  /\ v.context = Context(s, c)
               /\ v = [context |-> Context(s, c), at |-> s.at,
                       eligible |-> TRUE, selected |-> TRUE, drift |-> "stable"]
    <2>1. k.body.at = w.body.at
      BY <1>4, <1>5, <1>6, <1>7, <1>8
    <2>2. k \in LatestWeights(c)
      BY <1>4, <1>5, <2>1 DEF LatestWeights, NewestOf
    <2>3. k = w
      BY <1>1, <2>2
    <2>4. w.id.context = Context(s, c) /\ w.body.at = s.at
      BY <1>3, <2>3
    <2> QED BY <1>1, <1>7, <2>4
  <1> QED BY <1>1, <1>4, <1>5, <1>6, <1>7, <1>8

LEMMA LimitIsKept ==
  ASSUME EvidenceInv
  PROVE  PortfolioLimitHolds
  <1> DEFINE Twice(q) == \E s, o \in Evaluations(q) :
                           /\ s.at = o.at /\ AdmittedBy(s) # AdmittedBy(o)
                           /\ \A v \in EnteredOf(q) : v.at = s.at
  <1>1. SUFFICES ASSUME NEW q \in Requests, ~Twice(q)
                 PROVE  Cardinality(EnteredOf(q)) <= MaxOpportunities
    BY DEF PortfolioLimitHolds
  <1> DEFINE E == EnteredOf(q)
             C(s) == s \in tried /\ s.kind = "evaluate" /\ Complete(s) /\ s.assets = Range(q)
  <1>2. CASE E = {}
    <2>1. Cardinality({}) = 0 /\ 0 <= MaxOpportunities
      BY FS_EmptySet, ContextualAssumption
    <2> QED BY ONLY <1>2, <2>1, Zenon
  <1>3. CASE E # {}
    <2>0. \A v \in E : v \in Entered /\ v.context.scope = Range(q)
      BY DEF EnteredOf
    <2>1. ASSUME NEW v \in E
          PROVE  \E s \in tried : /\ C(s) /\ v.at = s.at /\ v.context.asset \in Range(q)
                                  /\ v.context.asset \in Selected(s.cohort, AdmittedBy(s))
      BY <2>0, EnteredIsDecided
    <2>2. ASSUME NEW v \in E, NEW s \in tried, C(s)
          PROVE  /\ v.at \in Int /\ s.at <= v.at /\ s.at \in Int
                 /\ v.at <= s.at => /\ v.context = Context(s, v.context.asset)
                                    /\ v = [context |-> Context(s, v.context.asset), at |-> s.at,
                                            eligible |-> TRUE, selected |-> TRUE, drift |-> "stable"]
      <3>1. v.context.asset \in s.assets /\ v \in Entered
        BY <2>0, <2>1, <2>2
      <3>2. s.at \in Int
        BY SnapFacts DEF EvidenceInv, Time
      <3> QED BY <2>2, <3>1, <3>2, EnteredIsKnown
    <2>3. PICK u \in E : TRUE
      BY <1>3
    <2>4. PICK a \in tried : C(a) /\ u.at = a.at
      BY <2>1
    <2> DEFINE S == Selected(a.cohort, AdmittedBy(a))
    <2> HIDE DEF E
    <2>5. ASSUME NEW v \in E
          PROVE  \E s \in tried : /\ C(s) /\ s.at = a.at /\ s.cohort = a.cohort /\ v.at = a.at
                                  /\ v.context.asset \in Selected(s.cohort, AdmittedBy(s))
      <3>1. PICK s \in tried : /\ C(s) /\ v.at = s.at
                               /\ v.context.asset \in Selected(s.cohort, AdmittedBy(s))
        BY <2>1
      <3>2. s.at <= u.at /\ a.at <= v.at /\ u.at \in Int /\ v.at \in Int
        BY <2>2, <2>3, <2>4, <3>1
      <3>3. s.at = a.at
        BY <2>4, <3>1, <3>2
      <3>4. v.context = Context(s, v.context.asset) /\ v.context = Context(a, v.context.asset)
        BY <2>2, <2>4, <3>1, <3>2, <3>3
      <3>5. s.cohort = a.cohort
        BY <3>4 DEF Context
      <3> QED BY <3>1, <3>3, <3>5
    <2>6. ASSUME NEW v \in E PROVE v.context.asset \in S
      <3>1. PICK s \in tried : /\ C(s) /\ s.at = a.at /\ s.cohort = a.cohort
                               /\ v.context.asset \in Selected(s.cohort, AdmittedBy(s))
        BY <2>5
      <3>2. s \in Evaluations(q) /\ a \in Evaluations(q)
        BY <2>4, <3>1 DEF Evaluations
      <3>3. \A x \in EnteredOf(q) : x.at = s.at
        BY <2>5, <3>1 DEF E
      <3>4. AdmittedBy(s) = AdmittedBy(a)
        BY <1>1, <3>1, <3>2, <3>3
      <3> QED BY <3>1, <3>4
    <2>7. ASSUME NEW v \in E
          PROVE  v = [context |-> Context(a, v.context.asset), at |-> a.at,
                      eligible |-> TRUE, selected |-> TRUE, drift |-> "stable"]
      <3>1. v.at = a.at /\ v.at <= a.at
        <4>1. v.at = a.at /\ v.at \in Int
          BY <2>2, <2>4, <2>5
        <4> QED BY <4>1
      <3> QED BY <2>2, <2>4, <3>1
    <2>8. IsFiniteSet(S) /\ Cardinality(S) \in Nat /\ Cardinality(S) <= MaxOpportunities
      <3>1. a.cohort \in DOMAIN Rankings /\ a.assets \subseteq Assets
        <4>1. SnapOK(a)
          BY DEF EvidenceInv
        <4>2. a.asked \in Seq(Assets)
          BY <4>1, AssetsAreFinite DEF SnapOK
        <4>3. Range(a.asked) \subseteq Assets
          BY <4>2, RangeOfSequence
        <4> QED BY <2>4, <4>1, <4>3 DEF SnapOK
      <3>2. AdmittedBy(a) \in SUBSET Assets
        BY <3>1 DEF AdmittedBy
      <3> QED BY <3>1, <3>2, SelectedFits
    <2> DEFINE f == [v \in E |-> v.context.asset]
    <2> HIDE DEF S
    <2>9. f \in Injection(E, S)
      <3>1. \A v, x \in E : v.context.asset = x.context.asset => v = x
        BY <2>7
      <3>2. f \in [E -> S] /\ \A v, x \in E : f[v] = f[x] => v = x
        BY <2>6, <3>1
      <3> HIDE DEF f
      <3> QED BY <3>2 DEF Injection, IsInjective
    <2>10. IsFiniteSet(E) /\ Cardinality(E) <= Cardinality(S)
      <3> HIDE DEF f
      <3> QED BY <2>8, <2>9, FS_Injection
    <2>11. Cardinality(E) \in Nat
      BY <2>10, FS_CardinalityType
    <2>12. Cardinality(E) <= MaxOpportunities
      BY <2>8, <2>10, <2>11, ContextualAssumption
    <2> QED BY <2>12 DEF E
  <1> QED BY <1>2, <1>3 DEF E

-----------------------------------------------------------------------------
(* The theorems.                                                           *)

\* The clock, the cohorts, the evidence and the tables keep their shapes, through
\* refreshes that fail or die half way.
THEOREM ContextTypeCorrect == ContextSpec => []ContextTypeOK
  <1>1. EvidenceInv => ContextTypeOK
    BY DEF EvidenceInv
  <1> QED BY <1>1, EvidenceHolds, PTL

\* Drift that anyone recorded of a context is never shown as stable again by
\* load_contextual_live_evidence or by the app snapshot.
THEOREM QuarantineIsKept == ContextSpec => []QuarantineHolds
  BY ShownDrift, EvidenceHolds, PTL

\* What the monitor would enter of one request never exceeds the limit that
\* select_portfolio_opportunities keeps to, though it is read asset by asset from the
\* rows of refreshes that may have died half way; unless the request was evaluated twice
\* as of the instant they are read from, and other assets were admitted.
THEOREM PortfolioLimitIsKept == ContextSpec => []PortfolioLimitHolds
  BY LimitIsKept, EvidenceHolds, PTL

\* _append_rows refuses a refresh only where another of its instant saw something else.
THEOREM RerunsAreAccepted == ContextSpec => []RerunAgrees
  BY RerunIsAccepted, EvidenceHolds, PTL
=============================================================================
