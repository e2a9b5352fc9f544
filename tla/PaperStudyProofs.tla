-------------------------- MODULE PaperStudyProofs --------------------------
(***************************************************************************)
(* What is proved of PaperStudy for all symbols, signals, clocks, lengths  *)
(* of a minute, quantities and interruptions.  A transaction maps a ledger *)
(* to a ledger, so an invariant is an operator on ledgers, and there is a  *)
(* lemma for each part of a transaction that says what the part keeps.     *)
(* The last part is about OpportunityReplay, for every rule and horizon    *)
(* and for every history of bars.                                          *)
(***************************************************************************)
EXTENDS PaperStudy, OpportunityReplay, SequenceTheorems, FiniteSetTheorems,
        NaturalsInduction, WellFoundedInduction, TLAPS

-----------------------------------------------------------------------------
(* Numbers.                                                                *)

\* A set of naturals has a least member.
LEMMA LeastNatural ==
  ASSUME NEW S \in SUBSET Nat, S # {}
  PROVE  Min(S) \in S /\ \A x \in S : Min(S) <= x
  <1>1. \E x \in S : \A y \in S : ~(<<y, x>> \in OpToRel(<, Nat))
    BY NatLessThanWellFounded, WFMin
  <1>2. PICK x \in S : \A y \in S : ~(<<y, x>> \in OpToRel(<, Nat))
    BY <1>1
  <1>3. ASSUME NEW y \in S, y < x
        PROVE  FALSE
    <2>1. <<y, x>> \in Nat \X Nat
      OBVIOUS
    <2>2. <<y, x>>[1] = y /\ <<y, x>>[2] = x
      OBVIOUS
    <2>3. <<y, x>> \in OpToRel(<, Nat)
      BY <1>3, <2>1, <2>2 DEF OpToRel
    <2>4. QED
      BY <1>2, <2>3
  <1>4. x \in S /\ \A y \in S : x <= y
    BY <1>3
  <1>5. QED
    BY <1>4 DEF Min

\* A bounded one has a greatest.
LEMMA GreatestNatural ==
  ASSUME NEW n \in Nat, NEW S \in SUBSET (0..n), S # {}
  PROVE  Max(S) \in S /\ \A x \in S : x <= Max(S)
  <1> DEFINE T == {n - x : x \in S}
  <1>1. T \in SUBSET Nat /\ T # {}
    <2>1. \A x \in S : n - x \in Nat
      OBVIOUS
    <2>2. QED
      BY <2>1
  <1>2. Min(T) \in T /\ \A y \in T : Min(T) <= y
    <2> HIDE DEF T
    <2> QED
      BY <1>1, LeastNatural
  <1>3. PICK x \in S : Min(T) = n - x
    BY <1>2
  <1>4. \A y \in S : n - x <= n - y
    BY <1>2, <1>3
  <1>5. \A y \in S : x >= y
    BY <1>4
  <1>6. QED
    BY <1>5 DEF Max

\* Minutes follow the clock.
LEMMA MinuteFacts ==
  /\ \A t \in Time : Minute(t) \in 0..MaxTime
  /\ \A t, u \in Time : t <= u => Minute(t) <= Minute(u)
  <1>1. MinuteTicks \in Nat \ {0} /\ MaxTime \in Nat
    BY StudyAssumption
  <1>2. ASSUME NEW t \in Time
        PROVE  /\ Minute(t) \in Nat /\ Minute(t) <= t
               /\ MinuteTicks * Minute(t) <= t /\ t < MinuteTicks * Minute(t) + MinuteTicks
    BY <1>1 DEF Time, Minute
  <1>3. ASSUME NEW t \in Time, NEW u \in Time, t <= u, Minute(u) < Minute(t)
        PROVE  FALSE
    <2> DEFINE p == Minute(t)
               q == Minute(u)
    <2>1. /\ p \in Nat /\ q \in Nat /\ t \in Nat /\ u \in Nat /\ t <= u /\ q + 1 <= p
          /\ MinuteTicks * p <= t /\ u < MinuteTicks * q + MinuteTicks
      BY <1>1, <1>2, <1>3 DEF Time
    <2> HIDE DEF p, q
    <2>2. MinuteTicks * (q + 1) <= MinuteTicks * p
      BY <1>1, <2>1
    <2>3. MinuteTicks * (q + 1) = MinuteTicks * q + MinuteTicks
      BY <1>1, <2>1
    <2>4. QED
      BY <1>1, <2>1, <2>2, <2>3
  <1>4. QED
    <2>1. \A t \in Time : Minute(t) \in 0..MaxTime
      BY <1>1, <1>2 DEF Time
    <2>2. QED
      BY <1>2, <1>3, <2>1 DEF Time

-----------------------------------------------------------------------------
(* The index of gaps.                                                      *)

Minutes(spans) == UNION {v.first..v.last : v \in spans}

\* Intervals that neither overlap nor adjoin.
Apart(spans) ==
  /\ \A v \in spans : v \in Span /\ v.first <= v.last /\ v.last <= MaxTime
  /\ \A v, w \in spans : v # w => v.last + 1 < w.first \/ w.last + 1 < v.first

\* The new interval and all that it touches become one, and the rest is apart from it.
LEMMA CoalescedFacts ==
  ASSUME NEW spans, Apart(spans), NEW first \in Nat, NEW last \in 0..MaxTime, first <= last
  PROVE  /\ Apart(Coalesced(spans, first, last))
         /\ Minutes(Coalesced(spans, first, last)) = Minutes(spans) \cup first..last
  <1> DEFINE met == Touching(spans, first, last)
             los == {first} \cup {v.first : v \in met}
             his == {last} \cup {v.last : v \in met}
             lo  == Min(los)
             hi  == Max(his)
             one == [first |-> lo, last |-> hi]
  <1>1. /\ MaxTime \in Nat /\ last \in Nat
        /\ \A v \in spans : v.first \in Nat /\ v.last \in Nat
    BY StudyAssumption DEF Apart, Span
  <1>2. los \in SUBSET Nat /\ los # {} /\ his \in SUBSET (0..MaxTime) /\ his # {}
    BY <1>1 DEF Touching, Apart
  <1>3. lo \in los /\ (\A x \in los : lo <= x) /\ hi \in his /\ \A x \in his : x <= hi
    <2> HIDE DEF los, his
    <2> QED
      BY <1>1, <1>2, LeastNatural, GreatestNatural
  <1>4. /\ lo \in Nat /\ hi \in 0..MaxTime /\ lo <= first /\ last <= hi
        /\ \A v \in met : lo <= v.first /\ v.last <= hi
        /\ lo = first \/ \E w \in met : lo = w.first
        /\ hi = last \/ \E w \in met : hi = w.last
    BY <1>2, <1>3
  <1> HIDE DEF los, his, lo, hi
  <1>5. \A v \in met : v \in spans /\ v.first <= last + 1 /\ v.last >= first - 1
    BY DEF Touching
  <1>6. ASSUME NEW v \in spans, v \notin met
        PROVE  hi + 1 < v.first \/ v.last + 1 < lo
    <2>1. v.first > last + 1 \/ v.last < first - 1
      BY <1>1, <1>6 DEF Touching
    <2>2. CASE v.first > last + 1
      <3>1. CASE hi = last
        BY <1>1, <2>2, <3>1
      <3>2. ASSUME NEW w \in met, hi = w.last
            PROVE  hi + 1 < v.first
        <4>1. v.last + 1 < w.first \/ w.last + 1 < v.first
          BY <1>5, <1>6 DEF Apart
        <4>2. v.first <= v.last /\ w.first <= last + 1
          BY <1>5, <1>6 DEF Apart
        <4>3. QED
          BY <1>1, <1>5, <2>2, <3>2, <4>1, <4>2
      <3>3. QED
        BY <1>4, <3>1, <3>2
    <2>3. CASE v.last < first - 1
      <3>1. CASE lo = first
        BY <1>1, <2>3, <3>1
      <3>2. ASSUME NEW w \in met, lo = w.first
            PROVE  v.last + 1 < lo
        <4>1. v.last + 1 < w.first \/ w.last + 1 < v.first
          BY <1>5, <1>6 DEF Apart
        <4>2. v.first <= v.last /\ w.last >= first - 1
          BY <1>5, <1>6 DEF Apart
        <4>3. QED
          BY <1>1, <1>5, <2>3, <3>2, <4>1, <4>2
      <3>3. QED
        BY <1>4, <3>1, <3>2
    <2>4. QED
      BY <2>1, <2>2, <2>3
  <1>7. Touching(spans, lo, hi) = met
    <2>1. \A v \in met : v \in Touching(spans, lo, hi)
      <3>1. ASSUME NEW v \in met
            PROVE  v.first <= hi + 1 /\ v.last >= lo - 1
        <4>1. v.first <= v.last /\ v.first \in Nat /\ v.last \in Nat
          BY <1>1, <1>5 DEF Apart
        <4>2. lo <= v.first /\ v.last <= hi /\ lo \in Nat /\ hi \in Nat
          BY <1>1, <1>4
        <4>3. QED
          BY <4>1, <4>2
      <3>2. QED
        BY <1>5, <3>1 DEF Touching
    <2>2. ASSUME NEW v \in Touching(spans, lo, hi), v \notin met
          PROVE  FALSE
      <3>1. v \in spans /\ v.first <= hi + 1 /\ v.last >= lo - 1
        BY <2>2 DEF Touching
      <3>2. hi + 1 < v.first \/ v.last + 1 < lo
        BY <1>6, <2>2, <3>1
      <3>3. v.first \in Nat /\ v.last \in Nat /\ lo \in Nat /\ hi \in Nat
        BY <1>1, <1>4, <3>1
      <3>4. QED
        BY <3>1, <3>2, <3>3
    <2>3. QED
      BY <2>1, <2>2
  <1>8. Coalesced(spans, first, last) = (spans \ met) \cup {one}
    BY <1>7 DEF Coalesced, lo, hi, los, his
  <1> DEFINE rest == spans \ met
  <1>9. /\ one \in Span /\ one.first = lo /\ one.last = hi /\ lo <= hi /\ hi <= MaxTime
    <2>1. lo <= hi /\ lo \in Nat /\ hi \in Nat /\ hi <= MaxTime
      BY <1>1, <1>4
    <2>2. QED
      BY <2>1 DEF Span
  <1>10. \A v \in rest : one.last + 1 < v.first \/ v.last + 1 < one.first
    BY <1>6, <1>9
  <1> HIDE DEF one
  <1>11. Apart(rest \cup {one})
    BY <1>9, <1>10 DEF Apart
  <1>12. Minutes(rest \cup {one}) = Minutes(rest) \cup lo..hi
    BY <1>9 DEF Minutes
  <1>13. ASSUME NEW x \in lo..hi, x \notin first..last
         PROVE  x \in Minutes(spans)
    <2>1. x \in Nat /\ lo <= x /\ x <= hi /\ (x < first \/ last < x)
      BY <1>1, <1>4, <1>13
    <2>2. CASE x < first
      <3>1. PICK w \in met : lo = w.first
        BY <1>1, <1>4, <2>1, <2>2
      <3>2. w \in spans /\ w.last >= first - 1 /\ w.first \in Nat /\ w.last \in Nat
        BY <1>1, <1>5
      <3>3. x \in w.first..w.last
        BY <2>1, <2>2, <3>1, <3>2
      <3>4. QED
        BY <3>2, <3>3 DEF Minutes
    <2>3. CASE last < x
      <3>1. PICK w \in met : hi = w.last
        BY <1>1, <1>4, <2>1, <2>3
      <3>2. w \in spans /\ w.first <= last + 1 /\ w.first \in Nat /\ w.last \in Nat
        BY <1>1, <1>5
      <3>3. x \in w.first..w.last
        BY <1>1, <2>1, <2>3, <3>1, <3>2
      <3>4. QED
        BY <3>2, <3>3 DEF Minutes
    <2>4. QED
      BY <2>1, <2>2, <2>3
  <1>14. first..last \subseteq lo..hi
    BY <1>1, <1>4
  <1>15. ASSUME NEW v \in met
         PROVE  v.first..v.last \subseteq lo..hi
    BY <1>1, <1>4, <1>5
  <1>16. Minutes(rest) \cup lo..hi = Minutes(spans) \cup first..last
    <2>1. Minutes(rest) \subseteq Minutes(spans)
      BY DEF Minutes
    <2>2. Minutes(spans) \subseteq Minutes(rest) \cup lo..hi
      BY <1>15 DEF Minutes
    <2>3. QED
      BY <1>13, <1>14, <2>1, <2>2
  <1>17. QED
    BY <1>8, <1>11, <1>12, <1>16

-----------------------------------------------------------------------------
(* What each part of a transaction makes of each part of the ledger.       *)

\* Two ledgers agree on all but these parts.
Only(c, b, parts) ==
  /\ "last"     \notin parts => c.last = b.last
  /\ "pending"  \notin parts => c.pending = b.pending
  /\ "position" \notin parts => c.position = b.position
  /\ "decided"  \notin parts => c.decided = b.decided
  /\ "filled"   \notin parts => c.filled = b.filled
  /\ "canceled" \notin parts => c.canceled = b.canceled
  /\ "trades"   \notin parts => c.trades = b.trades
  /\ "gaps"     \notin parts => c.gaps = b.gaps
  /\ "index"    \notin parts => c.index = b.index
  /\ "marks"    \notin parts => c.marks = b.marks
  /\ "fixed"    \notin parts => c.fixed = b.fixed

LEMMA BookFacts ==
  ASSUME NEW b \in Book
  PROVE  /\ b.last \in [Symbols -> Time \cup {None}]
         /\ b.pending \in [Symbols -> Pending \cup {None}]
         /\ b.position \in [Symbols -> Position \cup {None}]
         /\ b.decided \in SUBSET Signals /\ b.filled \in SUBSET Signals
         /\ b.canceled \in SUBSET Signals
         /\ b.trades \in [Symbols -> SUBSET Trade]
         /\ b.gaps \in [Symbols -> SUBSET Interval]
         /\ b.index \in [Symbols -> SUBSET Span]
         /\ b.marks \in [Symbols -> SUBSET Nat]
         /\ b.fixed \in Snapshot \cup {None}
         /\ \A s \in Symbols : LastAt(b, s) \in Time
  <1>1. 0 \in Time
    BY StudyAssumption DEF Time
  <1>2. QED
    BY <1>1 DEF Book, LastAt

\* What of the ledger a gap changes, for the symbols that were silent.
GapTaken(c, b, at, silent, since) ==
  /\ Only(c, b, {"pending", "position", "canceled", "gaps", "index"})
  /\ \A s \in Symbols \ silent :
       /\ c.pending[s] = b.pending[s] /\ c.position[s] = b.position[s]
       /\ c.gaps[s] = b.gaps[s] /\ c.index[s] = b.index[s]
  /\ \A s \in silent :
       /\ c.pending[s] = None
       /\ b.position[s] = None => c.position[s] = None
       /\ b.position[s] # None =>
            /\ c.position[s] # None /\ c.position[s].tainted = TRUE
            /\ c.position[s].signal = b.position[s].signal
            /\ c.position[s].entered = b.position[s].entered
       /\ c.gaps[s] = b.gaps[s] \cup {[since |-> since[s], at |-> at]}
       /\ c.index[s] = IF Minute(since[s]) <= Minute(at)
                       THEN Coalesced(b.index[s], Minute(since[s]), Minute(at))
                       ELSE b.index[s]
  /\ c.canceled = b.canceled \cup {b.pending[s].signal :
                                     s \in {r \in silent : b.pending[r] # None}}

LEMMA GapFacts ==
  ASSUME NEW b \in Book, \A s \in Symbols : Apart(b.index[s]),
         NEW at \in Time, NEW silent \in SUBSET Symbols, NEW since \in [silent -> Time]
  PROVE  Gap(b, at, since) \in Book /\ GapTaken(Gap(b, at, since), b, at, silent, since)
  <1> DEFINE pending  == [s \in Symbols |-> IF s \in silent THEN None ELSE b.pending[s]]
             position == [s \in Symbols |->
                            IF s \in silent /\ b.position[s] # None
                            THEN [b.position[s] EXCEPT !.tainted = TRUE] ELSE b.position[s]]
             canceled == b.canceled \cup {b.pending[s].signal :
                                            s \in {r \in silent : b.pending[r] # None}}
             gaps     == [s \in Symbols |->
                            IF s \in silent THEN b.gaps[s] \cup {[since |-> since[s], at |-> at]}
                            ELSE b.gaps[s]]
             tainted  == [s \in Symbols |-> [b.position[s] EXCEPT !.tainted = TRUE]]
             index    == [s \in Symbols |->
                            IF s \in silent /\ Minute(since[s]) <= Minute(at)
                            THEN Coalesced(b.index[s], Minute(since[s]), Minute(at))
                            ELSE b.index[s]]
             c == [b EXCEPT !.pending = pending, !.position = position, !.canceled = canceled,
                            !.gaps = gaps, !.index = index]
  <1>1. DOMAIN since = silent /\ \A s \in silent : since[s] \in Time
    OBVIOUS
  <1>2. Gap(b, at, since) = c
    BY <1>1, BookFacts DEF Gap, Book
  <1>3. pending \in [Symbols -> Pending \cup {None}]
    BY BookFacts
  <1>4. position \in [Symbols -> Position \cup {None}]
    <2>1. ASSUME NEW s \in Symbols, b.position[s] # None
          PROVE  [b.position[s] EXCEPT !.tainted = TRUE] \in Position
      <3>1. b.position[s] \in Position
        BY <2>1, BookFacts
      <3>2. QED
        BY <3>1 DEF Position
    <2>2. QED
      BY <2>1, BookFacts
  <1>5. canceled \in SUBSET Signals
    <2>1. \A s \in silent : b.pending[s] # None => b.pending[s].signal \in Signals
      BY BookFacts DEF Pending
    <2>2. QED
      BY <2>1, BookFacts
  <1>6. gaps \in [Symbols -> SUBSET Interval]
    <2>1. \A s \in silent : [since |-> since[s], at |-> at] \in Interval
      BY <1>1 DEF Interval
    <2>2. QED
      BY <2>1, BookFacts
  <1>7. index \in [Symbols -> SUBSET Span]
    <2>1. ASSUME NEW s \in silent, Minute(since[s]) <= Minute(at)
          PROVE  Coalesced(b.index[s], Minute(since[s]), Minute(at)) \in SUBSET Span
      <3>1. Minute(since[s]) \in Nat /\ Minute(at) \in 0..MaxTime
        BY <1>1, MinuteFacts
      <3>2. Apart(Coalesced(b.index[s], Minute(since[s]), Minute(at)))
        BY <2>1, <3>1, CoalescedFacts
      <3>3. QED
        BY <3>2 DEF Apart
    <2>2. QED
      BY <2>1, BookFacts
  <1>8. /\ \A s \in Symbols \ silent :
             /\ pending[s] = b.pending[s] /\ position[s] = b.position[s]
             /\ gaps[s] = b.gaps[s] /\ index[s] = b.index[s]
        /\ \A s \in silent :
             /\ pending[s] = None
             /\ position[s] = IF b.position[s] = None THEN None ELSE tainted[s]
             /\ gaps[s] = b.gaps[s] \cup {[since |-> since[s], at |-> at]}
             /\ index[s] = IF Minute(since[s]) <= Minute(at)
                           THEN Coalesced(b.index[s], Minute(since[s]), Minute(at))
                           ELSE b.index[s]
    OBVIOUS
  <1>8a. ASSUME NEW s \in Symbols, b.position[s] # None
         PROVE  /\ tainted[s] # None /\ tainted[s].tainted = TRUE
                /\ tainted[s].signal = b.position[s].signal
                /\ tainted[s].entered = b.position[s].entered
    <2>1. PICK p \in Position : p = b.position[s]
      BY <1>8a, BookFacts
    <2>2. PICK q : q = [p EXCEPT !.tainted = TRUE]
      OBVIOUS
    <2>3. q \in Position /\ q.signal = p.signal /\ q.entered = p.entered /\ q.tainted = TRUE
      BY <2>2 DEF Position
    <2>4. tainted[s] = q
      BY <2>1, <2>2
    <2>5. QED
      BY <2>1, <2>3, <2>4, NoneAssumption
  <1> HIDE DEF tainted, position
  <1>8b. \A s \in silent :
           /\ b.position[s] = None => position[s] = None
           /\ b.position[s] # None =>
                /\ position[s] # None /\ position[s].tainted = TRUE
                /\ position[s].signal = b.position[s].signal
                /\ position[s].entered = b.position[s].entered
    <2>1. ASSUME NEW s \in silent
          PROVE  b.position[s] = None => position[s] = None
      BY <1>8, <2>1
    <2>2. ASSUME NEW s \in silent, b.position[s] # None
          PROVE  /\ position[s] # None /\ position[s].tainted = TRUE
                 /\ position[s].signal = b.position[s].signal
                 /\ position[s].entered = b.position[s].entered
      <3>1. position[s] = tainted[s]
        BY <1>8, <2>2
      <3>2. /\ tainted[s] # None /\ tainted[s].tainted = TRUE
            /\ tainted[s].signal = b.position[s].signal
            /\ tainted[s].entered = b.position[s].entered
        BY <1>8a, <2>2
      <3> QED
        BY <3>1, <3>2
    <2> QED
      BY <2>1, <2>2
  <1> HIDE DEF pending, canceled, gaps, index
  <1>9. /\ c.pending = pending /\ c.position = position /\ c.canceled = canceled
        /\ c.gaps = gaps /\ c.index = index
        /\ Only(c, b, {"pending", "position", "canceled", "gaps", "index"})
    BY DEF Book, Only
  <1>10. c \in Book
    BY <1>3, <1>4, <1>5, <1>6, <1>7 DEF Book
  <1> HIDE DEF c
  <1>11. QED
    BY <1>2, <1>8, <1>8b, <1>9, <1>10 DEF canceled, GapTaken

\* A book with other entries in it is a book.
LEMMA CancelFacts ==
  ASSUME NEW b \in Book, NEW s \in Symbols, NEW at
  PROVE  LET c == CancelExpired(b, s, at)
         IN  /\ c \in Book
             /\ Only(c, b, {"pending", "canceled"})
             /\ \/ c = b
                \/ /\ b.pending[s] # None /\ c.pending = [b.pending EXCEPT ![s] = None]
                   /\ c.canceled = b.canceled \cup {b.pending[s].signal}
  <1> DEFINE pending  == [b.pending EXCEPT ![s] = None]
             canceled == b.canceled \cup {b.pending[s].signal}
             c == [b EXCEPT !.pending = pending, !.canceled = canceled]
  <1>1. CASE Expired(b, s, at)
    <2>1. b.pending[s] # None
      BY <1>1 DEF Expired
    <2>2. CancelExpired(b, s, at) = c
      BY <1>1 DEF CancelExpired, Book
    <2>3. pending \in [Symbols -> Pending \cup {None}] /\ canceled \in SUBSET Signals
      BY <2>1, BookFacts DEF Pending
    <2>4. c.pending = pending /\ c.canceled = canceled /\ Only(c, b, {"pending", "canceled"})
      BY DEF Book, Only
    <2> HIDE DEF pending, canceled
    <2>5. c \in Book
      BY <2>3 DEF Book
    <2>6. QED
      BY <2>1, <2>2, <2>4, <2>5 DEF pending, canceled
  <1>2. CASE ~Expired(b, s, at)
    BY <1>2 DEF CancelExpired, Only
  <1>3. QED
    BY <1>1, <1>2

LEMMA EnterFacts ==
  ASSUME NEW b \in Book, NEW s \in Symbols, NEW at \in Time, b.pending[s] # None
  PROVE  LET c == Enter(b, s, at)
             p == [signal |-> b.pending[s].signal, entered |-> at, quantity |-> Lots,
                   triggered |-> FALSE, tainted |-> FALSE]
         IN  /\ c \in Book /\ p \in Position
             /\ Only(c, b, {"pending", "position", "filled"})
             /\ c.pending = [b.pending EXCEPT ![s] = None]
             /\ c.position = [b.position EXCEPT ![s] = p]
             /\ c.filled = b.filled \cup {b.pending[s].signal}
  <1> DEFINE p == [signal |-> b.pending[s].signal, entered |-> at, quantity |-> Lots,
                   triggered |-> FALSE, tainted |-> FALSE]
             filled == b.filled \cup {b.pending[s].signal}
             position == [b.position EXCEPT ![s] = p]
             pending  == [b.pending EXCEPT ![s] = None]
             c == [b EXCEPT !.filled = filled, !.position = position, !.pending = pending]
  <1>1. b.pending[s].signal \in Signals
    BY BookFacts DEF Pending
  <1>2. p \in Position
    BY <1>1, StudyAssumption DEF Position
  <1>3. Enter(b, s, at) = c
    BY DEF Enter, Book
  <1> HIDE DEF p
  <1>4. /\ filled \in SUBSET Signals /\ position \in [Symbols -> Position \cup {None}]
        /\ pending \in [Symbols -> Pending \cup {None}]
    BY <1>1, <1>2, BookFacts
  <1> HIDE DEF filled, position, pending
  <1>5. /\ c.filled = filled /\ c.position = position /\ c.pending = pending
        /\ Only(c, b, {"pending", "position", "filled"})
    BY DEF Book, Only
  <1>6. c \in Book
    BY <1>4 DEF Book
  <1> HIDE DEF c
  <1>7. QED
    BY <1>2, <1>3, <1>5, <1>6 DEF filled, position, pending, p

LEMMA ExitFacts ==
  ASSUME NEW b \in Book, NEW s \in Symbols, NEW at \in Time, b.position[s] # None,
         NEW sold \in 0..Lots, sold <= b.position[s].quantity
  PROVE  \E c \in Book, t \in Trade :
           /\ c = Exit(b, s, at, sold) /\ Only(c, b, {"position", "trades"})
           /\ t.signal = b.position[s].signal /\ t.entered = b.position[s].entered
           /\ t.tainted = b.position[s].tainted /\ t.closed = at
           /\ \A r \in Symbols \ {s} : c.position[r] = b.position[r] /\ c.trades[r] = b.trades[r]
           /\ \/ c.position[s] = None /\ c.trades[s] = b.trades[s] \cup {t}
              \/ /\ c.position[s] # None /\ c.position[s].signal = b.position[s].signal
                 /\ c.position[s].entered = b.position[s].entered
                 /\ c.position[s].tainted = b.position[s].tainted
                 /\ c.trades[s] = b.trades[s]
  <1> DEFINE p == b.position[s]
             t == [signal |-> p.signal, entered |-> p.entered, closed |-> at,
                   tainted |-> p.tainted]
  <1>1. p \in Position
    BY BookFacts
  <1>2. /\ t \in Trade /\ t.signal = p.signal /\ t.entered = p.entered
        /\ t.tainted = p.tainted /\ t.closed = at
    BY <1>1 DEF Position, Trade
  <1>3. CASE sold = p.quantity
    <2> DEFINE position == [b.position EXCEPT ![s] = None]
               trades   == [b.trades EXCEPT ![s] = @ \cup {t}]
               c == [b EXCEPT !.position = position, !.trades = trades]
    <2>1. Exit(b, s, at, sold) = c
      BY <1>3 DEF Exit, Book
    <2> HIDE DEF t
    <2>2. position \in [Symbols -> Position \cup {None}] /\ trades \in [Symbols -> SUBSET Trade]
      BY <1>2, BookFacts
    <2> HIDE DEF position, trades
    <2>3. c.position = position /\ c.trades = trades /\ Only(c, b, {"position", "trades"})
      BY DEF Book, Only
    <2>4. c \in Book
      BY <2>2 DEF Book
    <2> HIDE DEF c
    <2>5. /\ position[s] = None /\ trades[s] = b.trades[s] \cup {t}
          /\ \A r \in Symbols \ {s} : position[r] = b.position[r] /\ trades[r] = b.trades[r]
      BY BookFacts DEF position, trades
    <2>6. QED
      BY <1>2, <2>1, <2>3, <2>4, <2>5
  <1>4. CASE sold # p.quantity
    <2> DEFINE q == [p EXCEPT !.quantity = @ - sold, !.triggered = TRUE]
               position == [b.position EXCEPT ![s] = q]
               c == [b EXCEPT !.position = position]
    <2>1. p.quantity - sold \in 1..Lots
      <3>1. p.quantity \in 1..Lots /\ Lots \in Nat
        BY <1>1, StudyAssumption DEF Position
      <3>2. sold <= p.quantity
        OBVIOUS
      <3> HIDE DEF p
      <3>3. QED
        BY <1>4, <3>1, <3>2
    <2>2. /\ q \in Position /\ q.signal = p.signal /\ q.entered = p.entered
          /\ q.tainted = p.tainted
      BY <1>1, <2>1 DEF Position
    <2>3. Exit(b, s, at, sold) = c
      BY <1>4, BookFacts DEF Exit, Book
    <2> HIDE DEF q
    <2>4. position \in [Symbols -> Position \cup {None}]
      BY <2>2, BookFacts
    <2> HIDE DEF position
    <2>5. c.position = position /\ c.trades = b.trades /\ Only(c, b, {"position", "trades"})
      BY DEF Book, Only
    <2>6. c \in Book
      BY <2>4 DEF Book
    <2> HIDE DEF c
    <2> HIDE DEF t
    <2>7. /\ position[s] = q /\ q # None
          /\ \A r \in Symbols \ {s} : position[r] = b.position[r]
      BY <2>2, BookFacts, NoneAssumption DEF position
    <2>8. QED
      BY <1>2, <2>2, <2>3, <2>5, <2>6, <2>7
  <1>5. QED
    BY <1>3, <1>4

LEMMA MarkedFacts ==
  ASSUME NEW b \in Book, NEW s \in Symbols, NEW at \in Time
  PROVE  LET c == Marked(b, s, at)
         IN  /\ c \in Book /\ Only(c, b, {"marks"})
             /\ c.marks = b.marks \/ c.marks = [b.marks EXCEPT ![s] = @ \cup {Minute(at)}]
  <1> DEFINE marks == [b.marks EXCEPT ![s] = @ \cup {Minute(at)}]
             c == [b EXCEPT !.marks = marks]
  <1>1. Minute(at) \in Nat
    BY MinuteFacts
  <1>2. marks \in [Symbols -> SUBSET Nat]
    BY <1>1, BookFacts
  <1>3. Marked(b, s, at) = c \/ Marked(b, s, at) = b
    BY DEF Marked, Book
  <1> HIDE DEF marks
  <1>4. c.marks = marks /\ Only(c, b, {"marks"}) /\ c \in Book
    BY <1>2 DEF Book, Only
  <1>5. Only(b, b, {"marks"})
    BY DEF Only
  <1> HIDE DEF c
  <1>6. QED
    BY <1>3, <1>4, <1>5 DEF marks

-----------------------------------------------------------------------------
(* Where the signals are.                                                  *)

Waiting(b) == {b.pending[s].signal : s \in {r \in Symbols : b.pending[r] # None}}
Open(b)    == {b.position[s].signal : s \in {r \in Symbols : b.position[r] # None}}
Closed(b)  == UNION {{t.signal : t \in b.trades[s]} : s \in Symbols}

\* A symbol has an entry or a position, not both, and no two symbols have one signal.
Accounted(b) ==
  /\ \A s \in Symbols : b.pending[s] = None \/ b.position[s] = None
  /\ \A s, r \in Symbols : s # r /\ b.pending[s] # None /\ b.pending[r] # None =>
       b.pending[s].signal # b.pending[r].signal
  /\ \A s, r \in Symbols : s # r /\ b.position[s] # None /\ b.position[r] # None =>
       b.position[s].signal # b.position[r].signal
  /\ b.decided = Waiting(b) \cup b.canceled \cup b.filled
  /\ Waiting(b) \cap b.canceled = {} /\ Waiting(b) \cap b.filled = {}
  /\ b.canceled \cap b.filled = {}
  /\ b.filled = Open(b) \cup Closed(b) /\ Open(b) \cap Closed(b) = {}

\* The signals stay where they are.
LEMMA SameAccount ==
  ASSUME NEW b, NEW c, Accounted(b), Only(c, b, {"last", "gaps", "index", "marks", "fixed"})
  PROVE  Accounted(c)
  <1>1. /\ c.pending = b.pending /\ c.position = b.position /\ c.decided = b.decided
        /\ c.filled = b.filled /\ c.canceled = b.canceled /\ c.trades = b.trades
    BY DEF Only
  <1>2. Waiting(c) = Waiting(b) /\ Open(c) = Open(b) /\ Closed(c) = Closed(b)
    BY <1>1 DEF Waiting, Open, Closed
  <1>3. QED
    BY <1>1, <1>2 DEF Accounted

\* Entries that go are canceled.
LEMMA CanceledAccount ==
  ASSUME NEW b \in Book, NEW c \in Book, Accounted(b), NEW gone \in SUBSET Symbols,
         \A s \in gone : c.pending[s] = None,
         \A s \in Symbols \ gone : c.pending[s] = b.pending[s],
         \A s \in Symbols : b.position[s] = None => c.position[s] = None,
         \A s \in Symbols : b.position[s] # None =>
           c.position[s] # None /\ c.position[s].signal = b.position[s].signal,
         c.canceled = b.canceled \cup {b.pending[s].signal :
                                         s \in {r \in gone : b.pending[r] # None}},
         c.decided = b.decided, c.filled = b.filled, c.trades = b.trades
  PROVE  Accounted(c)
  <1> DEFINE going == {b.pending[s].signal : s \in {r \in gone : b.pending[r] # None}}
  <1>1. Open(c) = Open(b)
    <2>1. \A s \in Symbols : c.position[s] # None <=> b.position[s] # None
      OBVIOUS
    <2>2. \A s \in {r \in Symbols : b.position[r] # None} :
            c.position[s].signal = b.position[s].signal
      OBVIOUS
    <2>3. QED
      BY <2>1, <2>2 DEF Open
  <1>2. Closed(c) = Closed(b)
    BY DEF Closed
  <1>3. Waiting(b) = Waiting(c) \cup going
    <2>1. ASSUME NEW s \in Symbols, b.pending[s] # None
          PROVE  b.pending[s].signal \in Waiting(c) \cup going
      <3>1. CASE s \in gone
        BY <2>1, <3>1
      <3>2. CASE s \notin gone
        <4>1. c.pending[s] = b.pending[s]
          BY <3>2
        <4>2. QED
          BY <2>1, <4>1 DEF Waiting
      <3>3. QED
        BY <3>1, <3>2
    <2>2. ASSUME NEW s \in Symbols, c.pending[s] # None
          PROVE  c.pending[s].signal \in Waiting(b)
      <3>1. s \notin gone /\ c.pending[s] = b.pending[s]
        BY <2>2
      <3>2. QED
        BY <2>2, <3>1 DEF Waiting
    <2>3. going \subseteq Waiting(b)
      BY DEF Waiting
    <2>4. Waiting(b) \subseteq Waiting(c) \cup going
      BY <2>1 DEF Waiting
    <2>5. Waiting(c) \subseteq Waiting(b)
      BY <2>2 DEF Waiting
    <2>6. QED
      BY <2>3, <2>4, <2>5
  <1>4. Waiting(c) \cap going = {}
    <2>1. ASSUME NEW s \in Symbols, NEW r \in gone, c.pending[s] # None, b.pending[r] # None
          PROVE  c.pending[s].signal # b.pending[r].signal
      <3>1. s \notin gone /\ c.pending[s] = b.pending[s] /\ s # r
        BY <2>1
      <3>2. QED
        BY <2>1, <3>1 DEF Accounted
    <2>2. QED
      BY <2>1 DEF Waiting
  <1>5. c.canceled = b.canceled \cup going
    OBVIOUS
  <1>6. /\ \A s \in Symbols : c.pending[s] = None \/ c.position[s] = None
        /\ \A s, r \in Symbols : s # r /\ c.pending[s] # None /\ c.pending[r] # None =>
             c.pending[s].signal # c.pending[r].signal
        /\ \A s, r \in Symbols : s # r /\ c.position[s] # None /\ c.position[r] # None =>
             c.position[s].signal # c.position[r].signal
    <2>1. \A s \in Symbols : c.pending[s] # None => c.pending[s] = b.pending[s]
      OBVIOUS
    <2>2. QED
      BY <2>1 DEF Accounted
  <1> HIDE DEF going
  <1>7. QED
    BY <1>1, <1>2, <1>3, <1>4, <1>5, <1>6 DEF Accounted

\* An entry that is filled opens a position.
LEMMA EnterAccount ==
  ASSUME NEW b \in Book, Accounted(b), NEW s \in Symbols, NEW at \in Time, b.pending[s] # None
  PROVE  Accounted(Enter(b, s, at))
  <1>1. PICK c, p :
          /\ c = Enter(b, s, at)
          /\ p = [signal |-> b.pending[s].signal, entered |-> at, quantity |-> Lots,
                  triggered |-> FALSE, tainted |-> FALSE]
    OBVIOUS
  <1>2. /\ c \in Book /\ p \in Position /\ p.signal = b.pending[s].signal
        /\ Only(c, b, {"pending", "position", "filled"})
        /\ c.pending = [b.pending EXCEPT ![s] = None]
        /\ c.position = [b.position EXCEPT ![s] = p]
        /\ c.filled = b.filled \cup {b.pending[s].signal}
    BY <1>1, EnterFacts
  <1>3. p # None
    BY <1>2, NoneAssumption
  <1>4. /\ c.pending[s] = None /\ c.position[s] = p /\ b.position[s] = None
        /\ \A r \in Symbols \ {s} : c.pending[r] = b.pending[r] /\ c.position[r] = b.position[r]
    BY <1>2, BookFacts DEF Accounted
  <1>5. c.trades = b.trades /\ c.decided = b.decided /\ c.canceled = b.canceled
    BY <1>2 DEF Only
  <1> DEFINE id == b.pending[s].signal
  <1>6. Waiting(b) = Waiting(c) \cup {id}
    <2>1. \A r \in Symbols : b.pending[r] # None => r = s \/ (c.pending[r] = b.pending[r] /\ r # s)
      BY <1>4
    <2>2. \A r \in Symbols : c.pending[r] # None => c.pending[r] = b.pending[r]
      BY <1>4
    <2>3. QED
      BY <2>1, <2>2 DEF Waiting
  <1>7. id \notin Waiting(c)
    <2>1. ASSUME NEW r \in Symbols, c.pending[r] # None
          PROVE  c.pending[r].signal # id
      BY <1>4, <2>1 DEF Accounted
    <2>2. QED
      BY <2>1 DEF Waiting
  <1>8. Open(c) = Open(b) \cup {id}
    <2>1. \A r \in Symbols : c.position[r] # None <=> r = s \/ b.position[r] # None
      BY <1>3, <1>4
    <2>2. \A r \in Symbols \ {s} : c.position[r] = b.position[r]
      BY <1>4
    <2>3. c.position[s].signal = id
      BY <1>2, <1>4
    <2>4. Open(c) \subseteq Open(b) \cup {id}
      <3>1. ASSUME NEW r \in Symbols, c.position[r] # None
            PROVE  c.position[r].signal \in Open(b) \cup {id}
        BY <2>2, <2>3, <3>1 DEF Open
      <3>2. QED
        BY <3>1 DEF Open
    <2>5. Open(b) \subseteq Open(c)
      <3>1. ASSUME NEW r \in Symbols, b.position[r] # None
            PROVE  b.position[r].signal \in Open(c)
        <4>1. r # s /\ c.position[r] = b.position[r]
          BY <1>4, <3>1
        <4>2. QED
          BY <3>1, <4>1 DEF Open
      <3>2. QED
        BY <3>1 DEF Open
    <2>6. id \in Open(c)
      BY <2>1, <2>3 DEF Open
    <2>7. QED
      BY <2>4, <2>5, <2>6
  <1>9. Closed(c) = Closed(b)
    BY <1>5 DEF Closed
  <1>10. id \notin b.filled /\ id \notin b.canceled
    BY <1>6 DEF Accounted
  <1>11. \A r \in Symbols : c.pending[r] = None \/ c.position[r] = None
    BY <1>4 DEF Accounted
  <1>12. \A r, q \in Symbols : r # q /\ c.pending[r] # None /\ c.pending[q] # None =>
           c.pending[r].signal # c.pending[q].signal
    BY <1>4 DEF Accounted
  <1>13. \A r, q \in Symbols : r # q /\ c.position[r] # None /\ c.position[q] # None =>
           c.position[r].signal # c.position[q].signal
    <2>1. ASSUME NEW r \in Symbols \ {s}, c.position[r] # None
          PROVE  c.position[r].signal # id
      <3>1. c.position[r].signal \in b.filled
        BY <1>4, <2>1 DEF Accounted, Open
      <3>2. QED
        BY <1>10, <3>1
    <2>2. c.position[s].signal = id
      BY <1>2, <1>4
    <2>3. QED
      BY <1>4, <2>1, <2>2 DEF Accounted
  <1> HIDE DEF id
  <1>14. c.filled = b.filled \cup {id}
    BY <1>2 DEF id
  <1>15. Accounted(c)
    BY <1>5, <1>6, <1>7, <1>8, <1>9, <1>10, <1>11, <1>12, <1>13, <1>14 DEF Accounted
  <1>16. QED
    BY <1>1, <1>15

\* A position that is closed becomes a trade, one that is sold in part stays.
LEMMA ExitAccount ==
  ASSUME NEW b \in Book, Accounted(b), NEW s \in Symbols, NEW at \in Time,
         b.position[s] # None, NEW sold \in 0..Lots, sold <= b.position[s].quantity
  PROVE  Accounted(Exit(b, s, at, sold))
  <1>1. PICK c \in Book, t \in Trade :
          /\ c = Exit(b, s, at, sold) /\ Only(c, b, {"position", "trades"})
          /\ t.signal = b.position[s].signal /\ t.entered = b.position[s].entered
          /\ t.tainted = b.position[s].tainted /\ t.closed = at
          /\ \A r \in Symbols \ {s} : c.position[r] = b.position[r] /\ c.trades[r] = b.trades[r]
          /\ \/ c.position[s] = None /\ c.trades[s] = b.trades[s] \cup {t}
             \/ /\ c.position[s] # None /\ c.position[s].signal = b.position[s].signal
                /\ c.position[s].entered = b.position[s].entered
                /\ c.position[s].tainted = b.position[s].tainted
                /\ c.trades[s] = b.trades[s]
    BY ExitFacts
  <1>2. PICK id : id = b.position[s].signal
    OBVIOUS
  <1>3. /\ c.pending = b.pending /\ c.decided = b.decided /\ c.canceled = b.canceled
        /\ c.filled = b.filled /\ Waiting(c) = Waiting(b)
    BY <1>1 DEF Only, Waiting
  <1>4. CASE c.position[s] = None /\ c.trades[s] = b.trades[s] \cup {t}
    <2>1. Open(b) = Open(c) \cup {id}
      <3>1. \A r \in Symbols : b.position[r] # None => r = s \/ (c.position[r] = b.position[r] /\ r # s)
        BY <1>1
      <3>2. \A r \in Symbols : c.position[r] # None => c.position[r] = b.position[r]
        BY <1>1, <1>4
      <3>3. QED
        BY <1>2, <3>1, <3>2 DEF Open
    <2>2. id \notin Open(c)
      <3>1. ASSUME NEW r \in Symbols, c.position[r] # None
            PROVE  c.position[r].signal # id
        <4>1. r # s /\ c.position[r] = b.position[r]
          BY <1>1, <1>4, <3>1
        <4>2. QED
          BY <1>2, <3>1, <4>1 DEF Accounted
      <3>2. QED
        BY <3>1 DEF Open
    <2>3. Closed(c) = Closed(b) \cup {id}
      <3>1. Closed(b) \subseteq Closed(c)
        <4>1. \A r \in Symbols : b.trades[r] \subseteq c.trades[r]
          BY <1>1, <1>4
        <4>2. QED
          BY <4>1 DEF Closed
      <3>2. id \in Closed(c)
        BY <1>1, <1>2, <1>4 DEF Closed
      <3>3. Closed(c) \subseteq Closed(b) \cup {id}
        <4>1. \A r \in Symbols : \A x \in c.trades[r] : x \in b.trades[r] \/ x = t
          BY <1>1, <1>4
        <4>2. QED
          BY <1>1, <1>2, <4>1 DEF Closed
      <3>4. QED
        BY <3>1, <3>2, <3>3
    <2>4. \A r \in Symbols : c.position[r] # None => c.position[r] = b.position[r] /\ r # s
      BY <1>1, <1>4
    <2>5. /\ \A r \in Symbols : c.pending[r] = None \/ c.position[r] = None
          /\ \A r, q \in Symbols : r # q /\ c.position[r] # None /\ c.position[q] # None =>
               c.position[r].signal # c.position[q].signal
      BY <1>3, <2>4 DEF Accounted
    <2>6. \A r, q \in Symbols : r # q /\ c.pending[r] # None /\ c.pending[q] # None =>
            c.pending[r].signal # c.pending[q].signal
      BY <1>3 DEF Accounted
    <2>7. Accounted(c)
      BY <1>3, <2>1, <2>2, <2>3, <2>5, <2>6 DEF Accounted
    <2>8. QED
      BY <1>1, <2>7
  <1>5. CASE /\ c.position[s] # None /\ c.position[s].signal = b.position[s].signal
             /\ c.trades[s] = b.trades[s]
    <2>1. \A r \in Symbols : /\ c.position[r] # None <=> b.position[r] # None
                             /\ c.position[r].signal = b.position[r].signal
                             /\ c.trades[r] = b.trades[r]
      BY <1>1, <1>5
    <2>2. Open(c) = Open(b)
      BY <2>1 DEF Open
    <2>3. Closed(c) = Closed(b)
      BY <2>1 DEF Closed
    <2>4. Accounted(c)
      BY <1>3, <2>1, <2>2, <2>3 DEF Accounted
    <2>5. QED
      BY <1>1, <2>4
  <1>6. QED
    BY <1>1, <1>4, <1>5
-----------------------------------------------------------------------------
(* What was watched and what is sealed.                                    *)

\* Silent, of the instants of a symbol's accepted quotes.
Quiet(at, t, u) == u - t > MaximumGap /\ \A r \in at : r <= t \/ u <= r

HeldBy(gaps, t, u) == \E g \in gaps : g.since <= t /\ u <= g.at

Journalled(gaps) == UNION {Minute(g.since)..Minute(g.at) : g \in gaps}

Indexed(b, s) == Apart(b.index[s]) /\ Minutes(b.index[s]) = Journalled(b.gaps[s])

\* Up to the newest quote every silence is in a gap, and neither an untainted position nor
\* an untainted trade has one.
Watched(b, s, at, t) ==
  /\ b.last[s] # None => b.last[s] \in at /\ b.last[s] <= t
  /\ \A m \in b.marks[s] : \E x \in at : Minute(x) = m
  /\ \A x, y \in 0..LastAt(b, s) : Quiet(at, x, y) => HeldBy(b.gaps[s], x, y)
  /\ b.position[s] # None =>
       /\ b.last[s] # None /\ b.position[s].entered <= b.last[s]
       /\ ~b.position[s].tainted =>
            \A x, y \in b.position[s].entered..b.last[s] : ~Quiet(at, x, y)
  /\ \A trade \in b.trades[s] :
       ~trade.tainted => \A x, y \in trade.entered..trade.closed : ~Quiet(at, x, y)

\* Before the cutoff nothing is later than the end; after it the fixed evidence stands.
Sealed(b, s, at, t) ==
  /\ b.fixed = None =>
       LastAt(b, s) <= EndsAt /\ \A trade \in b.trades[s] : trade.closed <= EndsAt
  /\ b.fixed # None =>
       /\ EndsAt <= t
       /\ \A m \in b.fixed.covered[s] :
            /\ \E x \in at : Minute(x) = m
            /\ \A x, y \in 0..EndsAt : Quiet(at, x, y) => m < Minute(x) \/ Minute(y) < m
       /\ b.fixed.trades[s] \subseteq {trade.signal : trade \in b.trades[s]}
       /\ \A trade \in b.trades[s] :
            /\ trade.closed < EndsAt => trade.signal \in b.fixed.trades[s]
            /\ trade.closed > EndsAt => trade.signal \notin b.fixed.trades[s]

Sound(b, obs, t) ==
  /\ Accounted(b)
  /\ \A s \in Symbols : Indexed(b, s) /\ Watched(b, s, obs[s], t) /\ Sealed(b, s, obs[s], t)

\* What is not touched stays as it was.
LEMMA SameWatched ==
  ASSUME NEW b, NEW c, NEW s \in Symbols, NEW at, NEW t,
         c.last[s] = b.last[s], c.marks[s] = b.marks[s], c.gaps[s] = b.gaps[s],
         c.position[s] = b.position[s], c.trades[s] = b.trades[s], Watched(b, s, at, t)
  PROVE  Watched(c, s, at, t)
  <1>1. LastAt(c, s) = LastAt(b, s)
    BY DEF LastAt
  <1>2. QED
    BY <1>1 DEF Watched

LEMMA SameSealed ==
  ASSUME NEW b, NEW c, NEW s \in Symbols, NEW at, NEW t,
         c.last[s] = b.last[s], c.trades[s] = b.trades[s], c.fixed = b.fixed,
         Sealed(b, s, at, t)
  PROVE  Sealed(c, s, at, t)
  <1>1. LastAt(c, s) = LastAt(b, s)
    BY DEF LastAt
  <1>2. QED
    BY <1>1 DEF Sealed

\* More gaps hold more, and no gap takes a position out of sight unless it taints it.
LEMMA MoreGaps ==
  ASSUME NEW b, NEW c, NEW s \in Symbols, NEW at, NEW t, Only(c, b, {"position", "gaps", "pending", "canceled", "index"}),
         b.gaps[s] \subseteq c.gaps[s],
         c.position[s] # None =>
           /\ b.position[s] # None /\ c.position[s].entered = b.position[s].entered
           /\ c.position[s].tainted \in BOOLEAN
           /\ b.position[s].tainted => c.position[s].tainted,
         Watched(b, s, at, t)
  PROVE  Watched(c, s, at, t)
  <1>1. c.last = b.last /\ c.marks = b.marks /\ c.trades = b.trades
    BY DEF Only
  <1>2. LastAt(c, s) = LastAt(b, s)
    BY <1>1 DEF LastAt
  <1>3. \A x, y : HeldBy(b.gaps[s], x, y) => HeldBy(c.gaps[s], x, y)
    BY DEF HeldBy
  <1>4. QED
    BY <1>1, <1>2, <1>3 DEF Watched

\* A gap keeps a sound ledger sound.
LEMMA GapSound ==
  ASSUME NEW b \in Book, NEW obs, NEW t, Sound(b, obs, t),
         NEW at \in Time, NEW silent \in SUBSET Symbols, NEW since \in [silent -> Time]
  PROVE  Sound(Gap(b, at, since), obs, t)
  <1>1. \A s \in Symbols : Apart(b.index[s])
    BY DEF Sound, Indexed
  <1> DEFINE c == Gap(b, at, since)
  <1>2. c \in Book /\ GapTaken(c, b, at, silent, since)
    BY <1>1, GapFacts
  <1> HIDE DEF c
  <1>3. \A s \in Symbols : b.position[s] # None =>
          /\ c.position[s] # None /\ c.position[s].signal = b.position[s].signal
          /\ c.position[s].entered = b.position[s].entered
          /\ c.position[s].tainted \in BOOLEAN
          /\ b.position[s].tainted => c.position[s].tainted
    <2>1. ASSUME NEW s \in Symbols, b.position[s] # None
          PROVE  /\ c.position[s] # None /\ c.position[s].signal = b.position[s].signal
                 /\ c.position[s].entered = b.position[s].entered
                 /\ c.position[s].tainted \in BOOLEAN
                 /\ b.position[s].tainted => c.position[s].tainted
      <3>1. PICK p \in Position : p = b.position[s]
        BY <2>1, BookFacts
      <3>2. p.tainted \in BOOLEAN
        BY DEF Position
      <3>3. CASE s \in silent
        BY <1>2, <2>1, <3>3 DEF GapTaken
      <3>4. CASE s \notin silent
        BY <1>2, <2>1, <3>1, <3>2, <3>4 DEF GapTaken
      <3>5. QED
        BY <3>3, <3>4
    <2>2. QED
      BY <2>1
  <1>4. \A s \in Symbols : b.position[s] = None => c.position[s] = None
    BY <1>2 DEF GapTaken
  <1>5. /\ c.last = b.last /\ c.decided = b.decided /\ c.filled = b.filled
        /\ c.trades = b.trades /\ c.marks = b.marks /\ c.fixed = b.fixed
    BY <1>2 DEF Only, GapTaken
  <1>6. Accounted(c)
    <2>1. Accounted(b) /\ \A s \in silent : c.pending[s] = None
      BY <1>2 DEF Sound, GapTaken
    <2>2. \A s \in Symbols \ silent : c.pending[s] = b.pending[s]
      BY <1>2 DEF GapTaken
    <2>3. \A s \in Symbols : b.position[s] # None =>
            c.position[s] # None /\ c.position[s].signal = b.position[s].signal
      BY <1>3
    <2>4. c.canceled = b.canceled \cup {b.pending[s].signal :
                                          s \in {r \in silent : b.pending[r] # None}}
      BY <1>2 DEF GapTaken
    <2>5. QED
      BY <1>2, <1>4, <1>5, <2>1, <2>2, <2>3, <2>4, CanceledAccount
  <1>7. ASSUME NEW s \in Symbols
        PROVE  Indexed(c, s)
    <2>1. Indexed(b, s)
      BY DEF Sound
    <2>2. CASE s \notin silent
      BY <1>2, <2>1, <2>2 DEF Indexed, GapTaken
    <2>3. CASE s \in silent
      <3>1. PICK g : g = [since |-> since[s], at |-> at]
        OBVIOUS
      <3>2. PICK lo, hi : lo = Minute(since[s]) /\ hi = Minute(at)
        OBVIOUS
      <3>3. lo \in 0..MaxTime /\ hi \in 0..MaxTime /\ MaxTime \in Nat
        BY <2>3, <3>2, MinuteFacts, StudyAssumption
      <3>4. Journalled(c.gaps[s]) = Journalled(b.gaps[s]) \cup lo..hi
        <4>1. c.gaps[s] = b.gaps[s] \cup {g}
          BY <1>2, <2>3, <3>1 DEF GapTaken
        <4>2. Minute(g.since)..Minute(g.at) = lo..hi
          BY <3>1, <3>2
        <4>3. QED
          BY <4>1, <4>2 DEF Journalled
      <3>5. CASE lo <= hi
        <4>1. c.index[s] = Coalesced(b.index[s], lo, hi)
          BY <1>2, <2>3, <3>2, <3>5 DEF GapTaken
        <4>2. /\ Apart(Coalesced(b.index[s], lo, hi))
              /\ Minutes(Coalesced(b.index[s], lo, hi)) = Minutes(b.index[s]) \cup lo..hi
          BY <1>1, <3>3, <3>5, CoalescedFacts
        <4>3. QED
          BY <2>1, <3>4, <4>1, <4>2 DEF Indexed
      <3>6. CASE ~(lo <= hi)
        <4>1. c.index[s] = b.index[s]
          BY <1>2, <2>3, <3>2, <3>6 DEF GapTaken
        <4>2. lo..hi = {}
          BY <3>3, <3>6
        <4>3. QED
          BY <2>1, <3>4, <4>1, <4>2 DEF Indexed
      <3>7. QED
        BY <3>5, <3>6
    <2>4. QED
      BY <2>2, <2>3
  <1>8. ASSUME NEW s \in Symbols
        PROVE  Watched(c, s, obs[s], t) /\ Sealed(c, s, obs[s], t)
    <2>1. b.gaps[s] \subseteq c.gaps[s]
      BY <1>2 DEF GapTaken
    <2>2. Watched(c, s, obs[s], t)
      <3>1. Only(c, b, {"position", "gaps", "pending", "canceled", "index"})
        BY <1>2 DEF Only, GapTaken
      <3>2. Watched(b, s, obs[s], t)
        BY DEF Sound
      <3>3. QED
        BY <1>3, <1>4, <2>1, <3>1, <3>2, MoreGaps
    <2>3. Sealed(c, s, obs[s], t)
      BY <1>5, SameSealed DEF Sound
    <2>4. QED
      BY <2>2, <2>3
  <1>9. Sound(c, obs, t)
    BY <1>6, <1>7, <1>8 DEF Sound
  <1>10. QED
    BY <1>9 DEF c

\* A minute counted as covered was observed, and no silence before the end reaches into it:
\* such a silence is in a gap, and the gap's minutes are in the index.
LEMMA CoverageObserved ==
  ASSUME NEW c \in Book, NEW s \in Symbols, NEW at \in SUBSET Time, NEW t,
         Indexed(c, s), Watched(c, s, at, t), LastAt(c, s) <= EndsAt,
         EndsAt - LastAt(c, s) > MaximumGap => HeldBy(c.gaps[s], LastAt(c, s), EndsAt),
         NEW m \in Coverage(c, s, EndsAt)
  PROVE  /\ \E x \in at : Minute(x) = m
         /\ \A x, y \in 0..EndsAt : Quiet(at, x, y) => m < Minute(x) \/ Minute(y) < m
  <1>1. /\ EndsAt \in Nat /\ MaxTime \in Nat /\ EndsAt <= MaxTime
        /\ LastAt(c, s) \in Nat
    BY StudyAssumption, BookFacts DEF Time
  <1>2. m \in c.marks[s] /\ m \notin Minutes(c.index[s])
    BY DEF Coverage, Minutes
  <1>3. \E x \in at : Minute(x) = m
    BY <1>2 DEF Watched
  <1>4. m \in Nat
    BY <1>2, BookFacts
  <1>5. ASSUME NEW x \in 0..EndsAt, NEW y \in 0..EndsAt, HeldBy(c.gaps[s], x, y)
        PROVE  m < Minute(x) \/ Minute(y) < m
    <2>1. PICK g \in c.gaps[s] : g.since <= x /\ y <= g.at
      BY <1>5 DEF HeldBy
    <2>2. g.since \in Time /\ g.at \in Time /\ x \in Time /\ y \in Time
      BY <1>1, BookFacts DEF Interval, Time
    <2>3. Minute(g.since) <= Minute(x) /\ Minute(y) <= Minute(g.at)
      BY <2>1, <2>2, MinuteFacts
    <2>4. m \notin Minute(g.since)..Minute(g.at)
      BY <1>2 DEF Indexed, Journalled
    <2>5. \A u \in Time : Minute(u) \in Nat
      <3>1. \A u \in Time : Minute(u) \in 0..MaxTime
        BY MinuteFacts
      <3>2. QED
        BY <1>1, <3>1
    <2>6. PICK lo, hi, mx, my : /\ lo = Minute(g.since) /\ hi = Minute(g.at)
                                /\ mx = Minute(x) /\ my = Minute(y)
      OBVIOUS
    <2>7. lo \in Nat /\ hi \in Nat /\ mx \in Nat /\ my \in Nat
      BY <2>2, <2>5, <2>6
    <2>8. lo <= mx /\ my <= hi /\ m \notin lo..hi
      BY <2>3, <2>4, <2>6
    <2>9. m < mx \/ my < m
      BY <1>4, <2>7, <2>8
    <2>10. QED
      BY <2>6, <2>9
  <1>6. ASSUME NEW x \in 0..EndsAt, NEW y \in 0..EndsAt, Quiet(at, x, y)
        PROVE  HeldBy(c.gaps[s], x, y)
    <2>1. CASE y <= LastAt(c, s)
      <3>1. x \in 0..LastAt(c, s) /\ y \in 0..LastAt(c, s)
        BY <1>1, <1>6, <2>1 DEF Quiet, MaximumGap
      <3>2. QED
        BY <1>6, <3>1 DEF Watched
    <2>2. CASE ~(y <= LastAt(c, s))
      <3>1. LastAt(c, s) <= x
        <4>1. CASE c.last[s] = None
          BY <1>1, <4>1 DEF LastAt
        <4>2. CASE c.last[s] # None
          <5>1. LastAt(c, s) \in at
            BY <4>2 DEF Watched, LastAt
          <5>2. LastAt(c, s) <= x \/ y <= LastAt(c, s)
            BY <1>6, <5>1 DEF Quiet
          <5>3. QED
            BY <2>2, <5>2
        <4>3. QED
          BY <4>1, <4>2
      <3>2. y - x > MaximumGap
        BY <1>6 DEF Quiet
      <3>3. EndsAt - LastAt(c, s) > MaximumGap
        BY <1>1, <3>1, <3>2 DEF MaximumGap
      <3>4. PICK g \in c.gaps[s] : g.since <= LastAt(c, s) /\ EndsAt <= g.at
        BY <3>3 DEF HeldBy
      <3>5. g.since \in Nat /\ g.at \in Nat
        BY BookFacts DEF Interval, Time
      <3>6. g.since <= x /\ y <= g.at
        BY <1>1, <3>1, <3>4, <3>5
      <3>7. QED
        BY <3>6 DEF HeldBy
    <2>3. QED
      BY <2>1, <2>2
  <1>7. QED
    BY <1>3, <1>5, <1>6

\* The cutoff seals what was watched.
LEMMA FreezeSound ==
  ASSUME NEW b \in Book, NEW obs \in [Symbols -> SUBSET Time], NEW t \in Time,
         Sound(b, obs, t), EndsAt <= t
  PROVE  /\ FreezeEnd(b) \in Book /\ Sound(FreezeEnd(b), obs, t)
         /\ FreezeEnd(b).last = b.last /\ FreezeEnd(b).fixed # None
  <1>1. CASE b.fixed # None
    BY <1>1 DEF FreezeEnd
  <1>2. CASE b.fixed = None
    <2> DEFINE dark  == {s \in Symbols : EndsAt - LastAt(b, s) > MaximumGap}
               since == [s \in dark |-> LastAt(b, s)]
               c     == Gap(b, EndsAt, since)
               fixed == [trades |-> [s \in Symbols |-> {tr.signal : tr \in c.trades[s]}],
                         covered |-> [s \in Symbols |-> Coverage(c, s, EndsAt)]]
               d     == [c EXCEPT !.fixed = fixed]
    <2>1. FreezeEnd(b) = d
      BY <1>2 DEF FreezeEnd
    <2>2. EndsAt \in Time /\ dark \in SUBSET Symbols /\ since \in [dark -> Time]
      BY StudyAssumption, BookFacts DEF Time
    <2>3. \A s \in Symbols : Apart(b.index[s])
      BY DEF Sound, Indexed
    <2> HIDE DEF dark, since
    <2>4. c \in Book /\ GapTaken(c, b, EndsAt, dark, since)
      BY <2>2, <2>3, GapFacts
    <2>5. Sound(c, obs, t)
      BY <2>2, GapSound
    <2> HIDE DEF c
    <2>6. fixed \in Snapshot /\ fixed # None
      <3>1. \A s \in Symbols : {tr.signal : tr \in c.trades[s]} \in SUBSET Signals
        BY <2>4, BookFacts DEF Trade
      <3>2. \A s \in Symbols : Coverage(c, s, EndsAt) \in SUBSET Nat
        BY <2>4, BookFacts DEF Coverage
      <3>3. fixed \in Snapshot
        BY <3>1, <3>2 DEF Snapshot
      <3>4. QED
        BY <3>3, NoneAssumption
    <2>7. \A s \in Symbols : /\ fixed.trades[s] = {tr.signal : tr \in c.trades[s]}
                             /\ fixed.covered[s] = Coverage(c, s, EndsAt)
      OBVIOUS
    <2> HIDE DEF fixed
    <2>8. d.fixed = fixed /\ Only(d, c, {"fixed"}) /\ d \in Book
      BY <2>4, <2>6 DEF Book, Only
    <2> HIDE DEF d
    <2>9. /\ c.last = b.last /\ c.fixed = None /\ d.last = b.last
          /\ d.trades = c.trades /\ d.marks = c.marks /\ d.gaps = c.gaps
          /\ d.position = c.position /\ d.index = c.index /\ d.last = c.last
      BY <1>2, <2>4, <2>8 DEF Only, GapTaken
    <2>10. Accounted(d)
      <3>1. Accounted(c) /\ Only(d, c, {"last", "gaps", "index", "marks", "fixed"})
        BY <2>5, <2>8 DEF Sound, Only
      <3>2. QED
        BY <3>1, SameAccount
    <2>11. ASSUME NEW s \in Symbols
           PROVE  Indexed(d, s) /\ Watched(d, s, obs[s], t)
      <3>1. Indexed(c, s) /\ Watched(c, s, obs[s], t)
        BY <2>5 DEF Sound
      <3>2. QED
        BY <2>9, <3>1, SameWatched DEF Indexed
    <2>12. ASSUME NEW s \in Symbols
           PROVE  Sealed(d, s, obs[s], t)
      <3>1. /\ LastAt(c, s) <= EndsAt /\ \A tr \in c.trades[s] : tr.closed <= EndsAt
            /\ Indexed(c, s) /\ Watched(c, s, obs[s], t)
        BY <2>5, <2>9 DEF Sound, Sealed
      <3>2. LastAt(c, s) = LastAt(b, s)
        BY <2>9 DEF LastAt
      <3>3. ASSUME EndsAt - LastAt(c, s) > MaximumGap
            PROVE  HeldBy(c.gaps[s], LastAt(c, s), EndsAt)
        <4>1. PICK g : g = [since |-> since[s], at |-> EndsAt]
          OBVIOUS
        <4>2. s \in dark /\ since[s] = LastAt(c, s)
          BY <3>2, <3>3 DEF dark, since
        <4>3. g \in c.gaps[s] /\ g.since = LastAt(c, s) /\ g.at = EndsAt
          BY <2>4, <4>1, <4>2 DEF GapTaken
        <4>4. LastAt(c, s) \in Nat /\ EndsAt \in Nat
          BY <2>4, BookFacts, StudyAssumption DEF Time
        <4>5. QED
          BY <4>3, <4>4 DEF HeldBy
      <3>4. ASSUME NEW m \in d.fixed.covered[s]
            PROVE  /\ \E x \in obs[s] : Minute(x) = m
                   /\ \A x, y \in 0..EndsAt :
                        Quiet(obs[s], x, y) => m < Minute(x) \/ Minute(y) < m
        <4>1. m \in Coverage(c, s, EndsAt) /\ obs[s] \in SUBSET Time
          BY <2>7, <2>8
        <4>2. QED
          BY <2>4, <3>1, <3>3, <4>1, CoverageObserved
      <3>5. d.fixed.trades[s] = {tr.signal : tr \in d.trades[s]}
        BY <2>7, <2>8, <2>9
      <3>6. \A tr \in d.trades[s] : ~(tr.closed > EndsAt)
        <4>1. \A tr \in d.trades[s] : tr.closed <= EndsAt /\ tr.closed \in Nat
          BY <2>4, <2>9, <3>1, BookFacts DEF Trade, Time
        <4>2. QED
          BY <4>1, StudyAssumption
      <3>7. d.fixed # None
        BY <2>6, <2>8
      <3>8. QED
        BY <3>4, <3>5, <3>6, <3>7 DEF Sealed
    <2>13. Sound(d, obs, t)
      BY <2>10, <2>11, <2>12 DEF Sound
    <2>14. QED
      BY <2>1, <2>6, <2>8, <2>9, <2>13
  <1>3. QED
    BY <1>1, <1>2

LEMMA CutoffSound ==
  ASSUME NEW b \in Book, NEW obs \in [Symbols -> SUBSET Time], NEW t \in Time, Sound(b, obs, t)
  PROVE  /\ Cutoff(b, t) \in Book /\ Sound(Cutoff(b, t), obs, t)
         /\ Cutoff(b, t).last = b.last
         /\ Cutoff(b, t).fixed = None => t <= EndsAt
  <1>1. EndsAt \in Nat /\ t \in Nat
    BY StudyAssumption DEF Time
  <1>2. CASE t > EndsAt
    BY <1>1, <1>2, FreezeSound DEF Cutoff
  <1>3. CASE ~(t > EndsAt)
    BY <1>1, <1>3 DEF Cutoff
  <1>4. QED
    BY <1>2, <1>3

\* A gap for every symbol since the oldest of the newest quotes.
LEMMA InterruptedSound ==
  ASSUME NEW b \in Book, NEW obs \in [Symbols -> SUBSET Time], NEW t \in Time, Sound(b, obs, t)
  PROVE  Interrupted(b, t) \in Book /\ Sound(Interrupted(b, t), obs, t)
  <1> DEFINE times == {b.last[s] : s \in {r \in Symbols : b.last[r] # None}}
             since == IF times = {} THEN 0 ELSE Min(times)
             all   == [s \in Symbols |-> since]
  <1>1. times \in SUBSET Time /\ Time \subseteq Nat /\ 0 \in Time
    BY BookFacts, StudyAssumption DEF Time
  <1> HIDE DEF times
  <1>2. since \in Time
    BY <1>1, LeastNatural
  <1>3. Interrupted(b, t) = Gap(Cutoff(b, t), t, all)
    BY DEF Interrupted, times
  <1> HIDE DEF since
  <1>4. all \in [Symbols -> Time]
    BY <1>2
  <1> HIDE DEF all
  <1>5. PICK c : c = Cutoff(b, t)
    OBVIOUS
  <1>6. c \in Book /\ Sound(c, obs, t)
    BY <1>5, CutoffSound
  <1>7. \A s \in Symbols : Apart(c.index[s])
    BY <1>6 DEF Sound, Indexed
  <1>8. Gap(c, t, all) \in Book
    BY <1>4, <1>6, <1>7, GapFacts
  <1>9. Sound(Gap(c, t, all), obs, t)
    BY <1>4, <1>6, GapSound
  <1>10. QED
    BY <1>3, <1>5, <1>8, <1>9

\* Time passes.
LEMMA LaterSound ==
  ASSUME NEW b \in Book, NEW obs, NEW t \in Time, NEW u \in Time, t <= u, Sound(b, obs, t)
  PROVE  Sound(b, obs, u)
  <1>1. t \in Nat /\ u \in Nat /\ EndsAt \in Nat
    BY StudyAssumption DEF Time
  <1>2. ASSUME NEW s \in Symbols
        PROVE  Watched(b, s, obs[s], u)
    <2>1. Watched(b, s, obs[s], t)
      BY DEF Sound
    <2>2. b.last[s] # None => b.last[s] \in Nat
      BY BookFacts DEF Time
    <2>3. b.last[s] # None => b.last[s] <= u
      BY <1>1, <2>1, <2>2 DEF Watched
    <2>4. QED
      BY <2>1, <2>3 DEF Watched
  <1>3. ASSUME NEW s \in Symbols
        PROVE  Sealed(b, s, obs[s], u)
    <2>1. Sealed(b, s, obs[s], t)
      BY DEF Sound
    <2>2. EndsAt <= t => EndsAt <= u
      BY <1>1
    <2>3. QED
      BY <2>1, <2>2 DEF Sealed
  <1>4. QED
    BY <1>2, <1>3 DEF Sound

\* A fresh quote is the newest instant its symbol was seen, once the silence before it, if
\* there was one, is in a gap and has tainted what was open.
LEMMA QuoteSound ==
  ASSUME NEW b \in Book, NEW c \in Book, NEW s \in Symbols, NEW t \in Time,
         NEW obs \in [Symbols -> SUBSET Time], Sound(b, obs, t),
         b.fixed = None => t <= EndsAt,
         t - LastAt(b, s) > MaximumGap =>
           /\ HeldBy(b.gaps[s], LastAt(b, s), t)
           /\ b.position[s] # None => b.position[s].tainted,
         Only(c, b, {"last"}), c.last = [b.last EXCEPT ![s] = t]
  PROVE  Sound(c, [obs EXCEPT ![s] = @ \cup {t}], t)
  <1>1. PICK more : more = [obs EXCEPT ![s] = @ \cup {t}]
    OBVIOUS
  <1>2. more[s] = obs[s] \cup {t} /\ \A r \in Symbols \ {s} : more[r] = obs[r]
    BY <1>1
  <1>3. /\ c.position = b.position /\ c.trades = b.trades /\ c.gaps = b.gaps
        /\ c.index = b.index /\ c.marks = b.marks /\ c.fixed = b.fixed
    BY DEF Only
  <1>4. c.last[s] = t /\ (\A r \in Symbols \ {s} : c.last[r] = b.last[r]) /\ t # None
    BY BookFacts, StudyAssumption DEF Time
  <1>5. Accounted(c)
    <2>1. Accounted(b) /\ Only(c, b, {"last", "gaps", "index", "marks", "fixed"})
      BY DEF Sound, Only
    <2>2. QED
      BY <2>1, SameAccount
  <1>6. \A r \in Symbols : Indexed(c, r)
    BY <1>3 DEF Sound, Indexed
  <1>7. ASSUME NEW r \in Symbols \ {s}
        PROVE  Watched(c, r, more[r], t) /\ Sealed(c, r, more[r], t)
    <2>1. Watched(b, r, obs[r], t) /\ Sealed(b, r, obs[r], t)
      BY DEF Sound
    <2>2. more[r] = obs[r] /\ c.last[r] = b.last[r]
      BY <1>2, <1>4
    <2>3. Watched(c, r, more[r], t)
      BY <1>3, <2>1, <2>2, SameWatched
    <2>4. Sealed(c, r, more[r], t)
      BY <1>3, <2>1, <2>2, SameSealed
    <2> QED
      BY <2>3, <2>4
  <1>8. PICK old, new, last :
          old = obs[s] /\ new = more[s] /\ last = LastAt(b, s)
    OBVIOUS
  <1>9. /\ new = old \cup {t} /\ Watched(b, s, old, t) /\ Sealed(b, s, old, t)
        /\ last \in Nat /\ t \in Nat /\ EndsAt \in Nat /\ old \in SUBSET Time
    BY <1>2, <1>8, BookFacts, StudyAssumption DEF Sound, Time
  <1>10. \A x, y : Quiet(new, x, y) => Quiet(old, x, y)
    BY <1>9 DEF Quiet
  <1>11. ASSUME NEW x \in Nat, NEW y \in Nat, y <= t, Quiet(new, x, y), ~(y <= last)
         PROVE  last <= x /\ t - last > MaximumGap
    <2>1. last <= x
      <3>1. CASE b.last[s] = None
        BY <1>8, <3>1 DEF LastAt
      <3>2. CASE b.last[s] # None
        <4>1. last \in old
          BY <1>8, <1>9, <3>2 DEF Watched, LastAt
        <4>2. last <= x \/ y <= last
          BY <1>9, <1>11, <4>1 DEF Quiet
        <4>3. QED
          BY <1>11, <4>2
      <3>3. QED
        BY <3>1, <3>2
    <2>2. y - x > MaximumGap
      BY <1>11 DEF Quiet
    <2>3. QED
      BY <1>9, <1>11, <2>1, <2>2 DEF MaximumGap
  <1>12. LastAt(c, s) = t
    BY <1>4 DEF LastAt
  <1>13. ASSUME NEW x \in 0..t, NEW y \in 0..t, Quiet(new, x, y)
         PROVE  HeldBy(b.gaps[s], x, y)
    <2>1. CASE y <= last
      <3>1. y - x > MaximumGap
        BY <1>13 DEF Quiet
      <3>2. x \in 0..last /\ y \in 0..last
        BY <1>9, <2>1, <3>1 DEF MaximumGap
      <3>3. \A u, v \in 0..last : Quiet(old, u, v) => HeldBy(b.gaps[s], u, v)
        BY <1>8, <1>9 DEF Watched
      <3>4. QED
        BY <1>10, <1>13, <3>2, <3>3
    <2>2. CASE ~(y <= last)
      <3>1. last <= x /\ t - last > MaximumGap
        BY <1>9, <1>11, <1>13, <2>2
      <3>2. PICK g \in b.gaps[s] : g.since <= last /\ t <= g.at
        BY <1>8, <3>1 DEF HeldBy
      <3>3. g.since \in Nat /\ g.at \in Nat
        BY BookFacts DEF Interval, Time
      <3>4. g.since <= x /\ y <= g.at
        BY <1>9, <3>1, <3>2, <3>3
      <3>5. QED
        BY <3>4 DEF HeldBy
    <2>3. QED
      BY <2>1, <2>2
  <1>14. ASSUME b.position[s] # None
         PROVE  /\ b.position[s].entered <= t
                /\ ~b.position[s].tainted =>
                     \A x, y \in b.position[s].entered..t : ~Quiet(new, x, y)
    <2>1. PICK e : e = b.position[s].entered
      OBVIOUS
    <2>2. e \in Nat /\ b.last[s] = last /\ last <= t /\ e <= last
      <3>1. b.position[s] \in Position
        BY <1>14, BookFacts
      <3>2. QED
        BY <1>8, <1>9, <1>14, <2>1, <3>1 DEF Position, Time, Watched, LastAt
    <2>3. ASSUME ~b.position[s].tainted, NEW x \in e..t, NEW y \in e..t, Quiet(new, x, y)
          PROVE  FALSE
      <3>1. x \in Nat /\ y \in Nat /\ y <= t
        BY <1>9, <2>2
      <3>2. CASE y <= last
        <4>1. y - x > MaximumGap
          BY <2>3 DEF Quiet
        <4>2. x \in e..last /\ y \in e..last
          BY <1>9, <2>2, <3>1, <3>2, <4>1 DEF MaximumGap
        <4>3. \A u, v \in e..last : ~Quiet(old, u, v)
          BY <1>9, <1>14, <2>1, <2>2, <2>3 DEF Watched
        <4>4. QED
          BY <1>10, <2>3, <4>2, <4>3
      <3>3. CASE ~(y <= last)
        <4>1. t - last > MaximumGap
          BY <1>11, <2>3, <3>1, <3>3
        <4>2. QED
          BY <1>8, <1>14, <2>3, <4>1
      <3>4. QED
        BY <3>2, <3>3
    <2>4. e <= t
      BY <1>9, <2>2
    <2>5. QED
      BY <2>1, <2>3, <2>4
  <1>15. Watched(c, s, new, t)
    <2>1. c.last[s] \in new /\ c.last[s] <= t /\ c.last[s] # None
      BY <1>4, <1>9
    <2>2. \A m \in c.marks[s] : \E x \in new : Minute(x) = m
      BY <1>3, <1>9 DEF Watched
    <2>3. \A x, y \in 0..LastAt(c, s) : Quiet(new, x, y) => HeldBy(c.gaps[s], x, y)
      BY <1>3, <1>12, <1>13
    <2>4. \A trade \in c.trades[s] :
            ~trade.tainted => \A x, y \in trade.entered..trade.closed : ~Quiet(new, x, y)
      BY <1>3, <1>9, <1>10 DEF Watched
    <2>5. c.position[s] # None =>
            /\ c.last[s] # None /\ c.position[s].entered <= c.last[s]
            /\ ~c.position[s].tainted =>
                 \A x, y \in c.position[s].entered..c.last[s] : ~Quiet(new, x, y)
      BY <1>3, <1>4, <1>14
    <2>6. QED
      BY <2>1, <2>2, <2>3, <2>4, <2>5 DEF Watched
  <1>16. Sealed(c, s, new, t)
    <2>1. c.fixed = None =>
            LastAt(c, s) <= EndsAt /\ \A trade \in c.trades[s] : trade.closed <= EndsAt
      BY <1>3, <1>9, <1>12 DEF Sealed
    <2>2. c.fixed # None =>
            /\ EndsAt <= t
            /\ \A m \in c.fixed.covered[s] :
                 /\ \E x \in new : Minute(x) = m
                 /\ \A x, y \in 0..EndsAt : Quiet(new, x, y) => m < Minute(x) \/ Minute(y) < m
      BY <1>3, <1>9, <1>10 DEF Sealed
    <2>3. c.fixed # None =>
            /\ c.fixed.trades[s] \subseteq {trade.signal : trade \in c.trades[s]}
            /\ \A trade \in c.trades[s] :
                 /\ trade.closed < EndsAt => trade.signal \in c.fixed.trades[s]
                 /\ trade.closed > EndsAt => trade.signal \notin c.fixed.trades[s]
      BY <1>3, <1>9 DEF Sealed
    <2>4. QED
      BY <2>1, <2>2, <2>3 DEF Sealed
  <1>17. Sound(c, more, t)
    <2>1. ASSUME NEW r \in Symbols
          PROVE  Watched(c, r, more[r], t) /\ Sealed(c, r, more[r], t)
      BY <1>7, <1>8, <1>15, <1>16
    <2>2. QED
      BY <1>5, <1>6, <2>1 DEF Sound
  <1>18. QED
    BY <1>1, <1>17

LEMMA ObservedSound ==
  ASSUME NEW b \in Book, NEW s \in Symbols, now \in Time,
         NEW obs \in [Symbols -> SUBSET Time], Sound(b, obs, now),
         b.fixed = None => now <= EndsAt
  PROVE  /\ Observed(b, s) \in Book
         /\ Sound(Observed(b, s), [obs EXCEPT ![s] = @ \cup {now}], now)
         /\ Observed(b, s).last[s] = now
         /\ Observed(b, s).fixed = b.fixed
  <1>1. PICK t \in Time : t = now
    OBVIOUS
  <1> DEFINE since == [r \in {s} |-> LastAt(b, s)]
             c == IF t - LastAt(b, s) > MaximumGap THEN Gap(b, t, since) ELSE b
             last == [c.last EXCEPT ![s] = t]
             d == [c EXCEPT !.last = last]
  <1>2. /\ since \in [{s} -> Time] /\ {s} \in SUBSET Symbols
        /\ \A r \in Symbols : Apart(b.index[r])
    BY BookFacts DEF Sound, Indexed
  <1>3. since[s] = LastAt(b, s)
    OBVIOUS
  <1> HIDE DEF since
  <1>4. c \in Book /\ c.last = b.last /\ c.fixed = b.fixed /\ Sound(c, obs, t)
    <2>1. CASE t - LastAt(b, s) > MaximumGap
      <3>1. Gap(b, t, since) \in Book /\ GapTaken(Gap(b, t, since), b, t, {s}, since)
        BY <1>2, GapFacts
      <3>2. Sound(Gap(b, t, since), obs, t)
        BY <1>1, <1>2, GapSound
      <3>3. c = Gap(b, t, since)
        BY <2>1
      <3>4. QED
        BY <3>1, <3>2, <3>3 DEF GapTaken, Only
    <2>2. CASE ~(t - LastAt(b, s) > MaximumGap)
      BY <1>1, <2>2
    <2>3. QED
      BY <2>1, <2>2
  <1>5. LastAt(c, s) = LastAt(b, s)
    BY <1>4 DEF LastAt
  <1>6. ASSUME t - LastAt(c, s) > MaximumGap
        PROVE  /\ HeldBy(c.gaps[s], LastAt(c, s), t)
               /\ c.position[s] # None => c.position[s].tainted
    <2>1. GapTaken(c, b, t, {s}, since)
      <3>1. GapTaken(Gap(b, t, since), b, t, {s}, since)
        BY <1>2, GapFacts
      <3>2. QED
        BY <1>5, <1>6, <3>1
    <2> HIDE DEF c
    <2>2. PICK g : g = [since |-> since[s], at |-> t]
      OBVIOUS
    <2>3. g \in c.gaps[s] /\ g.since = LastAt(c, s) /\ g.at = t
      BY <1>3, <1>5, <2>1, <2>2 DEF GapTaken
    <2>4. LastAt(c, s) \in Nat /\ t \in Nat
      BY <1>4, BookFacts, StudyAssumption DEF Time
    <2>5. c.position[s] # None => c.position[s].tainted
      BY <2>1 DEF GapTaken
    <2>6. QED
      BY <2>3, <2>4, <2>5 DEF HeldBy
  <1>7. Observed(b, s) = d
    <2>1. Observed(b, s) = [c EXCEPT !.last[s] = t]
      BY <1>1 DEF Observed, since
    <2> HIDE DEF c
    <2>2. [c EXCEPT !.last[s] = t] = d
      BY <1>4 DEF Book
    <2>3. QED
      BY <2>1, <2>2
  <1> HIDE DEF c
  <1>8. last \in [Symbols -> Time \cup {None}] /\ last[s] = t
    BY <1>4, BookFacts
  <1>9. d.last = last /\ Only(d, c, {"last"})
    BY <1>4 DEF Book, Only
  <1>10. d.last = [c.last EXCEPT ![s] = t]
    BY <1>9
  <1> HIDE DEF last
  <1>11. d \in Book
    BY <1>4, <1>8 DEF Book
  <1> HIDE DEF d
  <1>12. c.fixed = None => t <= EndsAt
    BY <1>1, <1>4
  <1>13. Sound(d, [obs EXCEPT ![s] = @ \cup {t}], t)
    BY <1>4, <1>6, <1>9, <1>10, <1>11, <1>12, QuoteSound
  <1>14. d.last[s] = t /\ d.fixed = b.fixed
    BY <1>4, <1>8, <1>9 DEF Only
  <1>15. QED
    BY <1>1, <1>7, <1>11, <1>13, <1>14

\* Entries come and go without a trace in what was watched.
LEMMA EntriesSound ==
  ASSUME NEW b \in Book, NEW c \in Book, NEW obs, NEW t, Sound(b, obs, t), Accounted(c),
         Only(c, b, {"pending", "canceled", "decided"})
  PROVE  Sound(c, obs, t)
  <1>1. /\ c.last = b.last /\ c.position = b.position /\ c.trades = b.trades
        /\ c.gaps = b.gaps /\ c.index = b.index /\ c.marks = b.marks /\ c.fixed = b.fixed
    BY DEF Only
  <1>2. ASSUME NEW s \in Symbols
        PROVE  Indexed(c, s) /\ Watched(c, s, obs[s], t) /\ Sealed(c, s, obs[s], t)
    <2>1. Indexed(b, s) /\ Watched(b, s, obs[s], t) /\ Sealed(b, s, obs[s], t)
      BY DEF Sound
    <2>2. QED
      BY <1>1, <2>1, SameWatched, SameSealed DEF Indexed
  <1>3. QED
    BY <1>2 DEF Sound

LEMMA CancelSound ==
  ASSUME NEW b \in Book, NEW s \in Symbols, NEW at, NEW obs, NEW t, Sound(b, obs, t)
  PROVE  /\ CancelExpired(b, s, at) \in Book /\ Sound(CancelExpired(b, s, at), obs, t)
         /\ Only(CancelExpired(b, s, at), b, {"pending", "canceled"})
  <1>1. PICK c : c = CancelExpired(b, s, at)
    OBVIOUS
  <1>2. /\ c \in Book /\ Only(c, b, {"pending", "canceled"})
        /\ \/ c = b
           \/ /\ b.pending[s] # None /\ c.pending = [b.pending EXCEPT ![s] = None]
              /\ c.canceled = b.canceled \cup {b.pending[s].signal}
    BY <1>1, CancelFacts
  <1>3. CASE c = b
    BY <1>1, <1>2, <1>3
  <1>4. CASE /\ b.pending[s] # None /\ c.pending = [b.pending EXCEPT ![s] = None]
             /\ c.canceled = b.canceled \cup {b.pending[s].signal}
    <2>1. /\ c.position = b.position /\ c.decided = b.decided /\ c.filled = b.filled
          /\ c.trades = b.trades
      BY <1>2 DEF Only
    <2>2. /\ \A r \in {s} : c.pending[r] = None
          /\ \A r \in Symbols \ {s} : c.pending[r] = b.pending[r]
      BY <1>4, BookFacts
    <2>3. c.canceled = b.canceled \cup {b.pending[r].signal :
                                          r \in {q \in {s} : b.pending[q] # None}}
      BY <1>4
    <2>4. Accounted(c)
      <3>1. /\ \A r \in Symbols : b.position[r] = None => c.position[r] = None
            /\ \A r \in Symbols : b.position[r] # None =>
                 c.position[r] # None /\ c.position[r].signal = b.position[r].signal
        BY <2>1
      <3>2. Accounted(b) /\ {s} \in SUBSET Symbols
        BY DEF Sound
      <3>3. QED
        BY <1>2, <2>1, <2>2, <2>3, <3>1, <3>2, CanceledAccount
    <2>5. Only(c, b, {"pending", "canceled", "decided"})
      BY <1>2 DEF Only
    <2>6. Sound(c, obs, t)
      BY <1>2, <2>4, <2>5, EntriesSound
    <2>7. QED
      BY <1>1, <1>2, <2>6
  <1>5. QED
    BY <1>2, <1>3, <1>4

\* A position opened at the newest quote has been watched so far.
LEMMA EnterSound ==
  ASSUME NEW b \in Book, NEW s \in Symbols, NEW at \in Time, NEW obs, NEW t, Sound(b, obs, t),
         b.pending[s] # None, b.last[s] = at
  PROVE  /\ Enter(b, s, at) \in Book /\ Sound(Enter(b, s, at), obs, t)
         /\ Enter(b, s, at).last = b.last /\ Enter(b, s, at).fixed = b.fixed
  <1>1. PICK c, p :
          /\ c = Enter(b, s, at)
          /\ p = [signal |-> b.pending[s].signal, entered |-> at, quantity |-> Lots,
                  triggered |-> FALSE, tainted |-> FALSE]
    OBVIOUS
  <1>2. /\ c \in Book /\ p \in Position
        /\ Only(c, b, {"pending", "position", "filled"})
        /\ c.pending = [b.pending EXCEPT ![s] = None]
        /\ c.position = [b.position EXCEPT ![s] = p]
        /\ c.filled = b.filled \cup {b.pending[s].signal}
    BY <1>1, EnterFacts
  <1>2a. p.entered = at
    BY <1>1
  <1>3. /\ c.last = b.last /\ c.trades = b.trades /\ c.gaps = b.gaps /\ c.index = b.index
        /\ c.marks = b.marks /\ c.fixed = b.fixed
    BY <1>2 DEF Only
  <1>4. Accounted(c)
    BY <1>1, EnterAccount DEF Sound
  <1>5. c.position[s] = p /\ \A r \in Symbols \ {s} : c.position[r] = b.position[r]
    BY <1>2, BookFacts
  <1>6. ASSUME NEW r \in Symbols
        PROVE  Indexed(c, r) /\ Sealed(c, r, obs[r], t)
    <2>1. Indexed(b, r) /\ Sealed(b, r, obs[r], t)
      BY DEF Sound
    <2>2. QED
      BY <1>3, <2>1, SameSealed DEF Indexed
  <1>7. ASSUME NEW r \in Symbols
        PROVE  Watched(c, r, obs[r], t)
    <2>1. Watched(b, r, obs[r], t)
      BY DEF Sound
    <2>2. CASE r # s
      BY <1>3, <1>5, <2>1, <2>2, SameWatched
    <2>3. CASE r = s
      <3>1. at \in Nat /\ at # None /\ LastAt(c, s) = LastAt(b, s)
        BY <1>3, StudyAssumption DEF Time, LastAt
      <3>2. \A x, y \in at..at : ~Quiet(obs[s], x, y)
        BY <3>1 DEF Quiet, MaximumGap
      <3>3. c.position[s].entered <= c.last[s] /\ c.last[s] # None
        BY <1>2a, <1>3, <1>5, <3>1
      <3>4. \A x, y \in c.position[s].entered..c.last[s] : ~Quiet(obs[s], x, y)
        BY <1>2a, <1>3, <1>5, <3>2
      <3>5. QED
        BY <1>3, <2>1, <2>3, <3>1, <3>3, <3>4 DEF Watched
    <2>4. QED
      BY <2>2, <2>3
  <1>8. Sound(c, obs, t)
    BY <1>4, <1>6, <1>7 DEF Sound
  <1>9. QED
    BY <1>1, <1>2, <1>3, <1>8

\* What a position has seen its trade has seen; after the cutoff its signal is a new one to
\* the fixed evidence.
LEMMA ExitSound ==
  ASSUME NEW b \in Book, NEW s \in Symbols, NEW at \in Time, NEW obs, Sound(b, obs, at),
         b.position[s] # None, NEW sold \in 0..Lots, sold <= b.position[s].quantity,
         b.last[s] = at
  PROVE  /\ Exit(b, s, at, sold) \in Book /\ Sound(Exit(b, s, at, sold), obs, at)
         /\ Exit(b, s, at, sold).last = b.last /\ Exit(b, s, at, sold).fixed = b.fixed
  <1>1. PICK c \in Book, t \in Trade :
          /\ c = Exit(b, s, at, sold) /\ Only(c, b, {"position", "trades"})
          /\ t.signal = b.position[s].signal /\ t.entered = b.position[s].entered
          /\ t.tainted = b.position[s].tainted /\ t.closed = at
          /\ \A r \in Symbols \ {s} : c.position[r] = b.position[r] /\ c.trades[r] = b.trades[r]
          /\ \/ c.position[s] = None /\ c.trades[s] = b.trades[s] \cup {t}
             \/ /\ c.position[s] # None /\ c.position[s].signal = b.position[s].signal
                /\ c.position[s].entered = b.position[s].entered
                /\ c.position[s].tainted = b.position[s].tainted
                /\ c.trades[s] = b.trades[s]
    BY ExitFacts
  <1>2. /\ c.last = b.last /\ c.gaps = b.gaps /\ c.index = b.index
        /\ c.marks = b.marks /\ c.fixed = b.fixed
    BY <1>1 DEF Only
  <1>3. Accounted(c)
    BY <1>1, ExitAccount DEF Sound
  <1>4. at \in Nat /\ EndsAt \in Nat /\ at # None
    BY StudyAssumption DEF Time
  <1>5. \A r \in Symbols : LastAt(c, r) = LastAt(b, r)
    BY <1>2 DEF LastAt
  <1>6. ASSUME NEW r \in Symbols \ {s}
        PROVE  Watched(c, r, obs[r], at) /\ Sealed(c, r, obs[r], at)
    <2>1. Watched(b, r, obs[r], at) /\ Sealed(b, r, obs[r], at)
      BY DEF Sound
    <2>2. QED
      BY <1>1, <1>2, <2>1, SameWatched, SameSealed
  <1>7. Watched(b, s, obs[s], at) /\ Sealed(b, s, obs[s], at)
    BY DEF Sound
  <1>8. ~t.tainted => \A x, y \in t.entered..t.closed : ~Quiet(obs[s], x, y)
    BY <1>1, <1>7 DEF Watched
  <1>9. \A trade \in c.trades[s] : trade \in b.trades[s] \/ trade = t
    BY <1>1
  <1>10. Watched(c, s, obs[s], at)
    <2>1. c.position[s] # None =>
            /\ c.last[s] # None /\ c.position[s].entered <= c.last[s]
            /\ ~c.position[s].tainted =>
                 \A x, y \in c.position[s].entered..c.last[s] : ~Quiet(obs[s], x, y)
      BY <1>1, <1>2, <1>7 DEF Watched
    <2>2. \A trade \in c.trades[s] :
            ~trade.tainted => \A x, y \in trade.entered..trade.closed : ~Quiet(obs[s], x, y)
      BY <1>7, <1>8, <1>9 DEF Watched
    <2>3. QED
      BY <1>2, <1>5, <1>7, <2>1, <2>2 DEF Watched
  <1>11. Sealed(c, s, obs[s], at)
    <2>1. ASSUME c.fixed = None
          PROVE  LastAt(c, s) <= EndsAt /\ \A trade \in c.trades[s] : trade.closed <= EndsAt
      <3>1. LastAt(b, s) <= EndsAt /\ \A trade \in b.trades[s] : trade.closed <= EndsAt
        BY <1>2, <1>7, <2>1 DEF Sealed
      <3>2. LastAt(b, s) = at
        BY <1>4 DEF LastAt
      <3>3. QED
        BY <1>1, <1>5, <1>9, <3>1, <3>2
    <2>2. ASSUME c.fixed # None
          PROVE  /\ EndsAt <= at
                 /\ c.fixed.trades[s] \subseteq {trade.signal : trade \in c.trades[s]}
                 /\ \A trade \in c.trades[s] :
                      /\ trade.closed < EndsAt => trade.signal \in c.fixed.trades[s]
                      /\ trade.closed > EndsAt => trade.signal \notin c.fixed.trades[s]
      <3>1. /\ EndsAt <= at
            /\ b.fixed.trades[s] \subseteq {trade.signal : trade \in b.trades[s]}
            /\ \A trade \in b.trades[s] :
                 /\ trade.closed < EndsAt => trade.signal \in b.fixed.trades[s]
                 /\ trade.closed > EndsAt => trade.signal \notin b.fixed.trades[s]
        BY <1>2, <1>7, <2>2 DEF Sealed
      <3>2. t.signal \notin {trade.signal : trade \in b.trades[s]}
        <4>1. t.signal \in Open(b)
          BY <1>1 DEF Open
        <4>2. {trade.signal : trade \in b.trades[s]} \subseteq Closed(b)
          BY DEF Closed
        <4>3. Open(b) \cap Closed(b) = {}
          BY DEF Sound, Accounted
        <4>4. QED
          BY <4>1, <4>2, <4>3
      <3>3. ~(t.closed < EndsAt)
        BY <1>1, <1>4, <3>1
      <3>4. b.trades[s] \subseteq c.trades[s]
        BY <1>1
      <3>5. \A trade \in c.trades[s] :
              /\ trade.closed < EndsAt => trade.signal \in c.fixed.trades[s]
              /\ trade.closed > EndsAt => trade.signal \notin c.fixed.trades[s]
        BY <1>2, <1>9, <3>1, <3>2, <3>3
      <3>6. QED
        BY <1>2, <3>1, <3>4, <3>5
    <2>3. c.fixed # None =>
            \A m \in c.fixed.covered[s] :
              /\ \E x \in obs[s] : Minute(x) = m
              /\ \A x, y \in 0..EndsAt : Quiet(obs[s], x, y) => m < Minute(x) \/ Minute(y) < m
      BY <1>2, <1>7 DEF Sealed
    <2>4. QED
      BY <2>1, <2>2, <2>3 DEF Sealed
  <1>12. \A r \in Symbols : Indexed(c, r)
    BY <1>2 DEF Sound, Indexed
  <1>13. Sound(c, obs, at)
    BY <1>3, <1>6, <1>10, <1>11, <1>12 DEF Sound
  <1>14. QED
    BY <1>1, <1>2, <1>13

\* The minute of the newest quote was observed.
LEMMA MarkedSound ==
  ASSUME NEW b \in Book, NEW s \in Symbols, NEW at \in Time, NEW obs, NEW t, Sound(b, obs, t),
         b.last[s] = at
  PROVE  Marked(b, s, at) \in Book /\ Sound(Marked(b, s, at), obs, t)
  <1>1. PICK c : c = Marked(b, s, at)
    OBVIOUS
  <1>2. /\ c \in Book /\ Only(c, b, {"marks"})
        /\ c.marks = b.marks \/ c.marks = [b.marks EXCEPT ![s] = @ \cup {Minute(at)}]
    BY <1>1, MarkedFacts
  <1>3. /\ c.last = b.last /\ c.position = b.position /\ c.trades = b.trades
        /\ c.gaps = b.gaps /\ c.index = b.index /\ c.fixed = b.fixed
    BY <1>2 DEF Only
  <1>4. Accounted(c)
    <2>1. Accounted(b) /\ Only(c, b, {"last", "gaps", "index", "marks", "fixed"})
      BY <1>2 DEF Sound, Only
    <2>2. QED
      BY <2>1, SameAccount
  <1>5. ASSUME NEW r \in Symbols
        PROVE  Indexed(c, r) /\ Watched(c, r, obs[r], t) /\ Sealed(c, r, obs[r], t)
    <2>1. Indexed(b, r) /\ Watched(b, r, obs[r], t) /\ Sealed(b, r, obs[r], t)
      BY DEF Sound
    <2>2. LastAt(c, r) = LastAt(b, r)
      BY <1>3 DEF LastAt
    <2>3. \A m \in c.marks[r] : \E x \in obs[r] : Minute(x) = m
      <3>1. ASSUME NEW m \in c.marks[r], m \notin b.marks[r]
            PROVE  \E x \in obs[r] : Minute(x) = m
        <4>1. r = s /\ m = Minute(at)
          BY <1>2, <3>1, BookFacts
        <4>2. at \in obs[r]
          BY <2>1, <4>1, StudyAssumption DEF Watched, Time
        <4>3. QED
          BY <4>1, <4>2
      <3>2. QED
        BY <2>1, <3>1 DEF Watched
    <2>4. Watched(c, r, obs[r], t)
      BY <1>3, <2>1, <2>2, <2>3 DEF Watched
    <2>5. QED
      BY <1>3, <2>1, <2>4, SameSealed DEF Indexed
  <1>6. Sound(c, obs, t)
    BY <1>4, <1>5 DEF Sound
  <1>7. QED
    BY <1>1, <1>2, <1>6

\* A new decision waits.
Recorded(b, s, id, at) ==
  [b EXCEPT !.decided = @ \cup {id}, !.pending[s] = [signal |-> id, decided |-> at]]

LEMMA RecordSound ==
  ASSUME NEW b \in Book, NEW s \in Symbols, NEW at \in Time, NEW obs, NEW t, Sound(b, obs, t),
         b.pending[s] = None, b.position[s] = None, NEW id \in Signals \ b.decided
  PROVE  Recorded(b, s, id, at) \in Book /\ Sound(Recorded(b, s, id, at), obs, t)
  <1>1. PICK entry : entry = [signal |-> id, decided |-> at]
    OBVIOUS
  <1>2. entry \in Pending /\ entry.signal = id /\ entry # None
    BY <1>1, NoneAssumption DEF Pending
  <1> DEFINE pending == [b.pending EXCEPT ![s] = entry]
             decided == b.decided \cup {id}
             d == [b EXCEPT !.decided = decided, !.pending = pending]
  <1>3. Recorded(b, s, id, at) = d
    BY <1>1 DEF Book, Recorded
  <1>4. pending \in [Symbols -> Pending \cup {None}] /\ decided \in SUBSET Signals
    BY <1>2, BookFacts
  <1>5. pending[s] = entry /\ \A r \in Symbols \ {s} : pending[r] = b.pending[r]
    BY BookFacts
  <1> HIDE DEF pending
  <1>6. /\ d.pending = pending /\ d.decided = decided
        /\ Only(d, b, {"pending", "canceled", "decided"}) /\ d.canceled = b.canceled
    BY DEF Book, Only
  <1> HIDE DEF decided
  <1>7. d \in Book
    BY <1>4 DEF Book
  <1> HIDE DEF d
  <1>8. /\ d.position = b.position /\ d.filled = b.filled /\ d.trades = b.trades
        /\ Open(d) = Open(b) /\ Closed(d) = Closed(b)
    BY <1>6 DEF Only, Open, Closed
  <1>9. Waiting(d) = Waiting(b) \cup {id}
    <2>1. Waiting(d) \subseteq Waiting(b) \cup {id}
      <3>1. ASSUME NEW r \in Symbols, d.pending[r] # None
            PROVE  d.pending[r].signal \in Waiting(b) \cup {id}
        <4>1. CASE r = s
          BY <1>2, <1>5, <1>6, <4>1
        <4>2. CASE r # s
          BY <1>5, <1>6, <3>1, <4>2 DEF Waiting
        <4>3. QED
          BY <4>1, <4>2
      <3>2. QED
        BY <3>1 DEF Waiting
    <2>2. id \in Waiting(d)
      BY <1>2, <1>5, <1>6 DEF Waiting
    <2>3. Waiting(b) \subseteq Waiting(d)
      <3>1. ASSUME NEW r \in Symbols, b.pending[r] # None
            PROVE  b.pending[r].signal \in Waiting(d)
        <4>1. r # s /\ d.pending[r] = b.pending[r]
          BY <1>5, <1>6, <3>1
        <4>2. QED
          BY <3>1, <4>1 DEF Waiting
      <3>2. QED
        BY <3>1 DEF Waiting
    <2>4. QED
      BY <2>1, <2>2, <2>3
  <1>10. Accounted(b)
    BY DEF Sound
  <1>11. id \notin Waiting(b) /\ id \notin b.canceled /\ id \notin b.filled
    BY <1>10 DEF Accounted
  <1>12. \A r \in Symbols : d.pending[r] = None \/ d.position[r] = None
    BY <1>5, <1>6, <1>8, <1>10 DEF Accounted
  <1>13. \A r, q \in Symbols : r # q /\ d.pending[r] # None /\ d.pending[q] # None =>
           d.pending[r].signal # d.pending[q].signal
    <2>1. ASSUME NEW r \in Symbols \ {s}, d.pending[r] # None
          PROVE  d.pending[r].signal # id /\ d.pending[r] = b.pending[r]
      <3>1. d.pending[r] = b.pending[r]
        BY <1>5, <1>6
      <3>2. d.pending[r].signal \in Waiting(b)
        BY <2>1, <3>1 DEF Waiting
      <3>3. QED
        BY <1>11, <3>1, <3>2
    <2>2. d.pending[s].signal = id
      BY <1>2, <1>5, <1>6
    <2>3. \A r, q \in Symbols : r # q /\ b.pending[r] # None /\ b.pending[q] # None =>
            b.pending[r].signal # b.pending[q].signal
      BY <1>10 DEF Accounted
    <2>4. QED
      BY <2>1, <2>2, <2>3
  <1>14. d.decided = b.decided \cup {id}
    BY <1>6 DEF decided
  <1>15. Accounted(d)
    BY <1>6, <1>8, <1>9, <1>10, <1>11, <1>12, <1>13, <1>14 DEF Accounted
  <1>16. Sound(d, obs, t)
    BY <1>6, <1>7, <1>15, EntriesSound
  <1>17. QED
    BY <1>3, <1>7, <1>16

\* All that a quote does.
LEMMA OnQuoteSound ==
  ASSUME TypeOK, Sound(book, seen, now), NEW s \in Symbols, OnQuote(s)
  PROVE  book' \in Book /\ Sound(book', seen', now)
  <1>1. PICK b, obs, t, more :
          b = book /\ obs = seen /\ t = now /\ more = [obs EXCEPT ![s] = @ \cup {t}]
    OBVIOUS
  <1>2. /\ b \in Book /\ obs \in [Symbols -> SUBSET Time] /\ t \in Time
        /\ Sound(b, obs, t) /\ seen' = more
    BY <1>1 DEF TypeOK, OnQuote
  <1>3. PICK c : c = Cutoff(b, t)
    OBVIOUS
  <1>4. c \in Book /\ Sound(c, obs, t) /\ (c.fixed = None => t <= EndsAt)
    BY <1>2, <1>3, CutoffSound
  <1>5. PICK d : d = Observed(c, s)
    OBVIOUS
  <1>6. d \in Book /\ Sound(d, more, t) /\ d.last[s] = t
    <2>1. /\ Observed(c, s) \in Book
          /\ Sound(Observed(c, s), [obs EXCEPT ![s] = @ \cup {now}], now)
          /\ Observed(c, s).last[s] = now
      BY <1>1, <1>2, <1>4, ObservedSound
    <2>2. QED
      BY <1>1, <1>5, <2>1
  <1>7. PICK e : e = CancelExpired(d, s, t)
    OBVIOUS
  <1>8. e \in Book /\ Sound(e, more, t) /\ e.last[s] = t
    BY <1>6, <1>7, CancelSound DEF Only
  <1>9. \/ e.pending[s] # None /\ \E fill \in BOOLEAN :
             book' = Marked(IF fill THEN Enter(e, s, t) ELSE e, s, t)
        \/ book' = Marked(e, s, t)
        \/ e.position[s] # None /\ \E triggered \in BOOLEAN, sold \in 0..Lots :
             /\ sold <= e.position[s].quantity
             /\ book' = Marked(IF triggered THEN Exit(e, s, t, sold) ELSE e, s, t)
    BY <1>1, <1>3, <1>5, <1>7 DEF OnQuote
  <1>10. CASE book' = Marked(e, s, t)
    BY <1>2, <1>8, <1>10, MarkedSound, <1>1
  <1>11. CASE e.pending[s] # None /\ book' = Marked(Enter(e, s, t), s, t)
    <2>1. PICK f : f = Enter(e, s, t)
      OBVIOUS
    <2>2. f \in Book /\ Sound(f, more, t) /\ f.last[s] = t
      BY <1>2, <1>8, <1>11, <2>1, EnterSound
    <2>3. book' = Marked(f, s, t)
      BY <1>11, <2>1
    <2>4. QED
      BY <1>1, <1>2, <2>2, <2>3, MarkedSound
  <1>12. ASSUME NEW sold \in 0..Lots, e.position[s] # None, sold <= e.position[s].quantity,
                book' = Marked(Exit(e, s, t, sold), s, t)
         PROVE  book' \in Book /\ Sound(book', seen', now)
    <2>1. PICK f : f = Exit(e, s, t, sold)
      OBVIOUS
    <2>2. f \in Book /\ Sound(f, more, t) /\ f.last[s] = t
      BY <1>2, <1>8, <1>12, <2>1, ExitSound
    <2>3. book' = Marked(f, s, t)
      BY <1>12, <2>1
    <2>4. QED
      BY <1>1, <1>2, <2>2, <2>3, MarkedSound
  <1>13. QED
    BY <1>9, <1>10, <1>11, <1>12

-----------------------------------------------------------------------------
(* The invariant of the study and what follows from it.                    *)

IInv == TypeOK /\ Sound(book, seen, now)

LEMMA IInvInit == Init => IInv
  <1> SUFFICES ASSUME Init PROVE IInv
    OBVIOUS
  <1>1. /\ 0 \in Time /\ 0 \in 0..MaxCuts /\ EndsAt \in Nat /\ EndsAt > 0
    BY StudyAssumption DEF Time
  <1>2. PICK b : b = book
    OBVIOUS
  <1>3. /\ b.last = Nobody /\ b.pending = Nobody /\ b.position = Nobody /\ b.decided = {}
        /\ b.filled = {} /\ b.canceled = {} /\ b.trades = Nothing /\ b.gaps = Nothing
        /\ b.index = Nothing /\ b.marks = Nothing /\ b.fixed = None
    BY <1>2 DEF Init
  <1>4. b \in Book
    BY <1>2 DEF Init, Book, Nobody, Nothing
  <1>5. TypeOK
    BY <1>1, <1>2, <1>4 DEF Init, TypeOK, Nothing
  <1>6. \A s \in Symbols : /\ b.last[s] = None /\ b.pending[s] = None /\ b.position[s] = None
                           /\ b.trades[s] = {} /\ b.gaps[s] = {} /\ b.index[s] = {}
                           /\ b.marks[s] = {}
    BY <1>3 DEF Nobody, Nothing
  <1>7. Accounted(b)
    <2>1. Waiting(b) = {} /\ Open(b) = {} /\ Closed(b) = {}
      BY <1>6 DEF Waiting, Open, Closed
    <2>2. QED
      BY <1>3, <1>6, <2>1 DEF Accounted
  <1>8. ASSUME NEW s \in Symbols
        PROVE  Indexed(b, s) /\ Watched(b, s, {}, 0) /\ Sealed(b, s, {}, 0)
    <2>1. LastAt(b, s) = 0
      BY <1>6 DEF LastAt
    <2>2. \A x, y \in 0..0 : ~Quiet({}, x, y)
      BY DEF Quiet, MaximumGap
    <2>3. Indexed(b, s)
      BY <1>6 DEF Indexed, Apart, Minutes, Journalled
    <2>4. Watched(b, s, {}, 0)
      BY <1>6, <2>1, <2>2 DEF Watched
    <2>5. Sealed(b, s, {}, 0)
      BY <1>1, <1>3, <1>6, <2>1 DEF Sealed
    <2>6. QED
      BY <2>3, <2>4, <2>5
  <1>9. now = 0 /\ \A s \in Symbols : seen[s] = {}
    BY DEF Init, Nothing
  <1>10. Sound(b, seen, now)
    BY <1>7, <1>8, <1>9 DEF Sound
  <1>11. QED
    BY <1>2, <1>5, <1>10 DEF IInv

LEMMA IInvStep == IInv /\ [Next]_vars => IInv'
  <1> SUFFICES ASSUME IInv, [Next]_vars PROVE IInv'
    OBVIOUS
  <1>1. PICK b, obs, t : b = book /\ obs = seen /\ t = now
    OBVIOUS
  <1>2. /\ b \in Book /\ obs \in [Symbols -> SUBSET Time] /\ t \in Time /\ Sound(b, obs, t)
        /\ cuts \in 0..MaxCuts /\ up \in BOOLEAN
    BY <1>1 DEF IInv, TypeOK
  <1>3. ASSUME now' = t, seen' = obs, cuts' \in 0..MaxCuts, up' \in BOOLEAN,
               NEW c \in Book, book' = c, Sound(c, obs, t)
        PROVE  IInv'
    <2>1. TypeOK'
      BY <1>2, <1>3 DEF TypeOK
    <2>2. Sound(book', seen', now')
      BY <1>3
    <2>3. QED
      BY <2>1, <2>2 DEF IInv
  <1>4. ASSUME Cut
        PROVE  cuts' \in 0..MaxCuts
    BY <1>2, <1>4, StudyAssumption DEF Cut
  <1>5. Interrupted(b, t) \in Book /\ Sound(Interrupted(b, t), obs, t)
    BY <1>2, InterruptedSound
  <1>6. CASE Tick
    <2>1. PICK u \in Time : u = now' /\ t <= u
      BY <1>1, <1>2, <1>6, StudyAssumption DEF Tick, Time
    <2>2. Sound(b, obs, u)
      BY <1>2, <2>1, LaterSound
    <2>3. TypeOK'
      BY <1>1, <1>2, <1>6, <2>1 DEF Tick, TypeOK
    <2>4. Sound(book', seen', now')
      BY <1>1, <1>6, <2>1, <2>2 DEF Tick
    <2>5. QED
      BY <2>3, <2>4 DEF IInv
  <1>7. CASE Start
    <2>1. book' = Interrupted(b, t) /\ now' = t /\ seen' = obs /\ up' = TRUE /\ Cut
      BY <1>1, <1>7 DEF Start
    <2>2. QED
      BY <1>3, <1>4, <1>5, <2>1
  <1>8. CASE Crash
    BY <1>1, <1>2, <1>3, <1>8 DEF Crash
  <1>9. CASE Stop
    <2>1. PICK c : c = Interrupted(b, t)
      OBVIOUS
    <2>2. /\ now' = t /\ seen' = obs /\ up' = FALSE /\ Cut
          /\ book' = IF t >= EndsAt THEN FreezeEnd(c) ELSE c
      BY <1>1, <1>9, <2>1 DEF Stop
    <2>3. c \in Book /\ Sound(c, obs, t)
      BY <1>5, <2>1
    <2>4. CASE t >= EndsAt
      <3>1. EndsAt <= t
        BY <1>2, <2>4, StudyAssumption DEF Time
      <3>2. FreezeEnd(c) \in Book /\ Sound(FreezeEnd(c), obs, t)
        BY <1>2, <2>3, <3>1, FreezeSound
      <3>3. book' = FreezeEnd(c)
        BY <2>2, <2>4
      <3>4. QED
        BY <1>3, <1>4, <2>2, <3>2, <3>3
    <2>5. CASE ~(t >= EndsAt)
      BY <1>3, <1>4, <2>2, <2>3, <2>5
    <2>6. QED
      BY <2>4, <2>5
  <1>10. CASE FeedGap
    <2>1. book' = Interrupted(b, t) /\ now' = t /\ seen' = obs /\ up' = up /\ Cut
      BY <1>1, <1>10 DEF FeedGap
    <2>2. QED
      BY <1>2, <1>3, <1>4, <1>5, <2>1
  <1>11. CASE Summary
    <2>1. book' = FreezeEnd(b) /\ now' = t /\ seen' = obs /\ up' = up /\ cuts' = cuts
      BY <1>1, <1>11 DEF Summary
    <2>2. EndsAt <= t
      BY <1>1, <1>2, <1>11, StudyAssumption DEF Summary, Time
    <2>3. FreezeEnd(b) \in Book /\ Sound(FreezeEnd(b), obs, t)
      BY <1>2, <2>2, FreezeSound
    <2>4. QED
      BY <1>2, <1>3, <2>1, <2>3
  <1>12. CASE RejectedQuote
    <2>1. book' = Cutoff(b, t) /\ now' = t /\ seen' = obs /\ up' = up /\ cuts' = cuts
      BY <1>1, <1>12 DEF RejectedQuote
    <2>2. Cutoff(b, t) \in Book /\ Sound(Cutoff(b, t), obs, t)
      BY <1>2, CutoffSound
    <2>3. QED
      BY <1>2, <1>3, <2>1, <2>2
  <1>13. ASSUME NEW s \in Symbols, RecordSignal(s)
         PROVE  IInv'
    <2>1. /\ b.pending[s] = None /\ b.position[s] = None
          /\ now' = t /\ seen' = obs /\ up' = up /\ cuts' = cuts
      BY <1>1, <1>13 DEF RecordSignal
    <2>2. PICK id \in Signals \ b.decided :
            book' = Recorded(b, s, id, t)
      BY <1>1, <1>13 DEF RecordSignal, Recorded
    <2>3. Recorded(b, s, id, t) \in Book /\ Sound(Recorded(b, s, id, t), obs, t)
      BY <1>2, <2>1, RecordSound
    <2>4. QED
      BY <1>2, <1>3, <2>1, <2>2, <2>3
  <1>14. ASSUME NEW s \in Symbols, OnQuote(s)
         PROVE  IInv'
    <2>1. book' \in Book /\ Sound(book', seen', now)
      BY <1>14, OnQuoteSound DEF IInv
    <2>2. /\ now' = now /\ cuts' = cuts /\ up' = up
          /\ seen' = [seen EXCEPT ![s] = @ \cup {now}]
      BY <1>14 DEF OnQuote
    <2>3. seen' \in [Symbols -> SUBSET Time]
      BY <1>1, <1>2, <2>2
    <2>4. TypeOK'
      BY <1>1, <1>2, <2>1, <2>2, <2>3 DEF TypeOK
    <2>5. Sound(book', seen', now')
      BY <2>1, <2>2
    <2>6. QED
      BY <2>4, <2>5 DEF IInv
  <1>15. CASE UNCHANGED vars
    BY <1>1, <1>2, <1>3, <1>15 DEF vars
  <1>16. QED
    BY <1>6, <1>7, <1>8, <1>9, <1>10, <1>11, <1>12, <1>13, <1>14, <1>15 DEF Next

LEMMA IInvAlways == Spec => []IInv
  <1>1. QED
    BY IInvInit, IInvStep, PTL DEF Spec

\* The ledger has its type.
THEOREM TypeCorrect == Spec => []TypeOK
  <1>1. IInv => TypeOK
    BY DEF IInv
  <1>2. QED
    BY <1>1, IInvAlways, PTL

\* The index of gaps covers the minutes of the journal's gaps in intervals that neither
\* overlap nor adjoin: what verify_integrity compares when a ledger is opened.
THEOREM IndexIsUnion == Spec => []GapIndexIsUnion
  <1>1. IInv => GapIndexIsUnion
    BY DEF IInv, Sound, Indexed, Apart, Minutes, Journalled, GapIndexIsUnion
  <1>2. QED
    BY <1>1, IInvAlways, PTL

\* Whatever the collector missed, the fixed evidence and the untainted trades were watched
\* throughout.
THEOREM EvidenceWatched == Spec => []EvidenceIsWatched
  <1>1. ASSUME IInv
        PROVE  EvidenceIsWatched
    <2>1. \A s, t, u : Silent(s, t, u) <=> Quiet(seen[s], t, u)
      BY DEF Silent, Quiet
    <2>2. ASSUME book.fixed # None, NEW s \in Symbols
          PROVE  /\ \A m \in book.fixed.covered[s] :
                      /\ \E t \in seen[s] : Minute(t) = m
                      /\ \A t, u \in 0..EndsAt :
                           Silent(s, t, u) => m < Minute(t) \/ Minute(u) < m
                 /\ \A t \in book.trades[s] :
                      /\ t.closed < EndsAt => t.signal \in book.fixed.trades[s]
                      /\ t.closed > EndsAt => t.signal \notin book.fixed.trades[s]
      <3>1. Sealed(book, s, seen[s], now)
        BY <1>1 DEF IInv, Sound
      <3>2. QED
        BY <2>1, <2>2, <3>1 DEF Sealed
    <2>3. FixedIsObserved
      BY <2>2 DEF FixedIsObserved
    <2>4. UntaintedIsWatched
      <3>1. \A s \in Symbols : Watched(book, s, seen[s], now)
        BY <1>1 DEF IInv, Sound
      <3>2. QED
        BY <2>1, <3>1 DEF Watched, UntaintedIsWatched
    <2>5. QED
      BY <2>3, <2>4 DEF EvidenceIsWatched
  <1>2. IInv => EvidenceIsWatched
    BY <1>1
  <1>3. QED
    BY <1>2, IInvAlways, PTL

\* Over every gap, restart and cutoff an accepted decision is in exactly one place.
THEOREM AccountedFor == Spec => []SignalsAccounted
  <1>1. IInv => SignalsAccounted
    BY DEF IInv, Sound, Accounted, Waiting, Open, Closed, SignalsAccounted
  <1>2. QED
    BY <1>1, IInvAlways, PTL

-----------------------------------------------------------------------------
(* The two scores of a rule.                                               *)

Hourly == [gap : BOOLEAN, open : Nat, high : Nat, low : Nat, close : Nat, risk : Nat]

\* The barriers of the decision on bar d for an entry that costs c.
StopFor(bars, d, c)   == bars[d + 1].open + c - StopR * bars[d].risk
TargetFor(bars, d, c) == bars[d + 1].open + c + TargetR * bars[d].risk

\* What the audit makes of bar j for that decision.
Ends(bars, d, j) == ExitOf(bars[j], j = d + MaximumBars, StopFor(bars, d, 0), TargetFor(bars, d, 0))

\* The audit scores the decision on bar d with bar e.
ScoredAt(bars, d, e) ==
  /\ e \in (d + 1)..Len(bars) /\ e <= d + MaximumBars
  /\ \A i \in (d + 1)..e : ~bars[i].gap
  /\ StopFor(bars, d, 0) > 0
  /\ Ends(bars, d, e) # {} /\ \A i \in (d + 1)..(e - 1) : Ends(bars, d, i) = {}

-----------------------------------------------------------------------------
(* What the audit scores.                                                  *)

LEMMA ReplayConstants ==
  /\ StopR \in Nat /\ StopR > 0 /\ TargetR \in Nat /\ TargetR > 0
  /\ MaximumBars \in Nat /\ MaximumBars > 0 /\ InitialCash \in Nat /\ InitialCash > 0
  /\ MinTargetBps \in Nat /\ RiskBudget \in Nat /\ MinNotional \in Nat /\ NumBars \in Nat
  /\ Risks \subseteq Nat /\ Bars \subseteq HourBar
  BY ReplayAssumption

LEMMA ScaledIsNat ==
  ASSUME NEW n \in Nat
  PROVE  StopR * n \in Nat /\ TargetR * n \in Nat
  BY ReplayConstants

LEMMA BarFacts ==
  ASSUME NEW bars \in Seq(Hourly), NEW d \in 1..Len(bars)
  PROVE  /\ bars[d] \in Hourly /\ bars[d].gap \in BOOLEAN /\ bars[d].open \in Nat /\ bars[d].high \in Nat
         /\ bars[d].low \in Nat /\ bars[d].close \in Nat /\ bars[d].risk \in Nat
         /\ StopR * bars[d].risk \in Nat /\ TargetR * bars[d].risk \in Nat
  <1>1. bars[d] \in Hourly
    BY ElementOfSeq
  <1>2. /\ bars[d].gap \in BOOLEAN /\ bars[d].open \in Nat /\ bars[d].high \in Nat
        /\ bars[d].low \in Nat /\ bars[d].close \in Nat /\ bars[d].risk \in Nat
    BY <1>1 DEF Hourly
  <1> QED BY <1>1, <1>2, ScaledIsNat

LEMMA BarriersAre ==
  ASSUME NEW bars \in Seq(Hourly), NEW d \in 1..Len(bars), d < Len(bars), NEW c \in Nat
  PROVE  /\ d + 1 \in 1..Len(bars)
         /\ StopFor(bars, d, c) \in Int /\ TargetFor(bars, d, c) \in Int
         /\ StopFor(bars, d, c) = StopFor(bars, d, 0) + c
         /\ TargetFor(bars, d, c) = TargetFor(bars, d, 0) + c
         /\ bars[d + 1].open - StopR * bars[d].risk = StopFor(bars, d, 0)
         /\ bars[d + 1].open + TargetR * bars[d].risk = TargetFor(bars, d, 0)
  <1>1. Len(bars) \in Nat /\ d + 1 \in 1..Len(bars)
    BY LenProperties
  <1>2. PICK x \in Nat : x = StopR * bars[d].risk
    BY BarFacts
  <1>3. PICK y \in Nat : y = TargetR * bars[d].risk
    BY BarFacts
  <1>4. PICK o \in Nat : o = bars[d + 1].open
    BY <1>1, BarFacts
  <1>5. StopFor(bars, d, c) = o + c - x /\ TargetFor(bars, d, c) = o + c + y
    BY <1>2, <1>3, <1>4 DEF StopFor, TargetFor
  <1>6. StopFor(bars, d, 0) = o + 0 - x /\ TargetFor(bars, d, 0) = o + 0 + y
    BY <1>2, <1>3, <1>4 DEF StopFor, TargetFor
  <1>7. /\ StopFor(bars, d, c) \in Int /\ TargetFor(bars, d, c) \in Int
        /\ StopFor(bars, d, c) = StopFor(bars, d, 0) + c
        /\ TargetFor(bars, d, c) = TargetFor(bars, d, 0) + c
        /\ o - x = StopFor(bars, d, 0) /\ o + y = TargetFor(bars, d, 0)
    BY <1>5, <1>6
  <1> QED BY <1>1, <1>2, <1>3, <1>4, <1>7

\* _candidate_outcome, in terms of the bar that ends the trade.
LEMMA OutcomeIs ==
  ASSUME NEW bars \in Seq(Hourly), NEW d \in 1..Len(bars)
  PROVE  /\ \A e : ScoredAt(bars, d, e) =>
              Outcome(bars, d) = [scored |-> TRUE, exit |-> e, how |-> CHOOSE x \in Ends(bars, d, e) : TRUE]
         /\ Outcome(bars, d).scored \in BOOLEAN
         /\ Outcome(bars, d).scored => ScoredAt(bars, d, Outcome(bars, d).exit)
         /\ d < Len(bars) /\ ~bars[d + 1].gap /\ StopFor(bars, d, 0) <= 0 =>
              Outcome(bars, d) = Unscored("invalid_risk")
  <1>1. Len(bars) \in Nat /\ d \in Nat /\ MaximumBars \in Nat /\ MaximumBars > 0
    BY LenProperties, ReplayConstants
  <1> DEFINE held   == Contiguous(bars, d)
             stop   == bars[d + 1].open - StopR * bars[d].risk
             target == bars[d + 1].open + TargetR * bars[d].risk
             exits(j) == ExitOf(bars[j], j = d + MaximumBars, stop, target)
             ending == {j \in held : exits(j) # {}}
             reason == IF \E j \in (d + 1)..Len(bars) : j <= d + MaximumBars /\ bars[j].gap
                       THEN "gap_truncated" ELSE "right_censored"
  <1>2. Outcome(bars, d) =
          IF d = Len(bars) THEN Unscored("right_censored")
          ELSE IF held = {} THEN Unscored("gap_blocked")
          ELSE IF stop <= 0 THEN Unscored("invalid_risk")
          ELSE IF ending = {} THEN Unscored(reason)
          ELSE [scored |-> TRUE, exit |-> Min(ending), how |-> CHOOSE x \in exits(Min(ending)) : TRUE]
    BY DEF Outcome
  <1>3. CASE d = Len(bars)
    <2>1. \A e : ~ScoredAt(bars, d, e)
      BY <1>1, <1>3 DEF ScoredAt
    <2>2. Outcome(bars, d).scored = FALSE
      BY <1>2, <1>3 DEF Unscored
    <2>3. ~(d < Len(bars))
      BY <1>1, <1>3
    <2> HIDE DEF held, stop, target, exits, ending, reason
    <2> QED BY <2>1, <2>2, <2>3
  <1>4. CASE d # Len(bars)
    <2>1. /\ d < Len(bars) /\ d + 1 \in 1..Len(bars) /\ stop = StopFor(bars, d, 0)
          /\ target = TargetFor(bars, d, 0) /\ stop \in Int
      <3>1. d < Len(bars)
        BY <1>1, <1>4
      <3> HIDE DEF stop, target
      <3>2. stop = StopFor(bars, d, 0) /\ target = TargetFor(bars, d, 0)
        BY <3>1, BarriersAre DEF stop, target
      <3> QED BY <3>1, <3>2, BarriersAre
    <2>2. \A j : exits(j) = Ends(bars, d, j)
      BY <2>1 DEF Ends
    <2>3. \A j : j \in held <=> /\ j \in (d + 1)..Len(bars) /\ j <= d + MaximumBars
                                /\ \A i \in (d + 1)..j : ~bars[i].gap
      BY DEF Contiguous
    <2>4. held = {} <=> bars[d + 1].gap
      <3>1. ~bars[d + 1].gap => d + 1 \in held
        BY <1>1, <2>1, <2>3
      <3>2. \A j \in held : d + 1 \in (d + 1)..j
        BY <1>1, <2>3
      <3> HIDE DEF held
      <3> QED BY <2>3, <3>1, <3>2
    <2> HIDE DEF stop, target, exits, held, reason
    <2>5. ending # {} => Min(ending) \in ending /\ \A j \in ending : Min(ending) <= j
      <3>1. ending \subseteq Nat
        BY <1>1, <2>3
      <3>2. ending # {} => \E k \in ending : \A j \in ending : k <= j
        <4> HIDE DEF ending
        <4> QED BY <3>1, LeastNatural
      <3> HIDE DEF ending
      <3> QED BY <3>2 DEF Min
    <2>6. \A e : ScoredAt(bars, d, e) <=>
            /\ stop > 0 /\ e \in ending
            /\ \A i \in (d + 1)..(e - 1) : exits(i) = {}
      BY <2>1, <2>2, <2>3 DEF ScoredAt
    <2>7. ASSUME NEW e \in ending
          PROVE  \A i \in (d + 1)..(e - 1) : i \in held
      <3>1. e \in (d + 1)..Len(bars) /\ e <= d + MaximumBars /\ \A i \in (d + 1)..e : ~bars[i].gap
        BY <2>3
      <3>2. \A i \in (d + 1)..(e - 1) : /\ i \in (d + 1)..Len(bars) /\ i <= d + MaximumBars
                                        /\ \A k \in (d + 1)..i : k \in (d + 1)..e
        BY <1>1, <3>1
      <3> QED BY <2>3, <3>1, <3>2
    <2>8. \A e : ScoredAt(bars, d, e) <=> stop > 0 /\ ending # {} /\ e = Min(ending)
      <3>1. ASSUME NEW e, ScoredAt(bars, d, e) PROVE stop > 0 /\ ending # {} /\ e = Min(ending)
        <4>1. stop > 0 /\ e \in ending /\ \A i \in (d + 1)..(e - 1) : exits(i) = {}
          BY <2>6, <3>1
        <4>2. Min(ending) \in ending /\ Min(ending) <= e
          BY <2>5, <4>1
        <4>3. Min(ending) \in (d + 1)..Len(bars) /\ e \in (d + 1)..Len(bars) /\ exits(Min(ending)) # {}
          BY <2>3, <4>1, <4>2
        <4>4. ~(Min(ending) \in (d + 1)..(e - 1))
          BY <4>1, <4>3
        <4>5. Min(ending) = e
          <5> HIDE DEF ending
          <5> QED BY <1>1, <4>2, <4>3, <4>4
        <4> QED BY <4>1, <4>5
      <3>2. ASSUME stop > 0, ending # {} PROVE ScoredAt(bars, d, Min(ending))
        <4>1. Min(ending) \in ending /\ \A j \in ending : Min(ending) <= j
          BY <2>5, <3>2
        <4>2. Min(ending) \in (d + 1)..Len(bars)
          BY <2>3, <4>1
        <4>3. ASSUME NEW i \in (d + 1)..(Min(ending) - 1) PROVE exits(i) = {}
          <5>1. i \in held
            BY <2>7, <4>1
          <5>2. ~(Min(ending) <= i)
            <6> HIDE DEF ending
            <6> QED BY <1>1, <4>2
          <5>3. i \notin ending
            BY <4>1, <5>2
          <5> QED BY <5>1, <5>3
        <4> QED BY <2>6, <3>2, <4>1, <4>3
      <3> HIDE DEF ending
      <3> QED BY <3>1, <3>2
    <2> HIDE DEF ending
    <2>9. \A e : ScoredAt(bars, d, e) => ~bars[d + 1].gap
      <3>1. \A e : ScoredAt(bars, d, e) => d + 1 \in (d + 1)..e
        BY <1>1 DEF ScoredAt
      <3> QED BY <3>1 DEF ScoredAt
    <2>10. ASSUME NEW e, ScoredAt(bars, d, e)
           PROVE  Outcome(bars, d)
                    = [scored |-> TRUE, exit |-> e, how |-> CHOOSE x \in Ends(bars, d, e) : TRUE]
      <3>1. stop > 0 /\ ~(stop <= 0) /\ ending # {} /\ e = Min(ending) /\ held # {}
        BY <2>1, <2>4, <2>8, <2>9, <2>10
      <3>2. exits(Min(ending)) = Ends(bars, d, e)
        BY <2>2, <3>1
      <3> QED BY <1>2, <1>4, <3>1, <3>2
    <2>11. (\A e : ~ScoredAt(bars, d, e)) => Outcome(bars, d).scored = FALSE
      <3>1. SUFFICES ASSUME \A e : ~ScoredAt(bars, d, e) PROVE Outcome(bars, d).scored = FALSE
        OBVIOUS
      <3>2. ~(stop > 0 /\ ending # {})
        BY <2>8, <3>1
      <3>3. stop <= 0 \/ ending = {}
        BY <2>1, <3>2
      <3> QED BY <1>2, <1>4, <3>3 DEF Unscored
    <2>12. /\ Outcome(bars, d).scored \in BOOLEAN
           /\ Outcome(bars, d).scored => ScoredAt(bars, d, Outcome(bars, d).exit)
      <3>1. CASE \E e : ScoredAt(bars, d, e)
        <4>1. PICK e : ScoredAt(bars, d, e)
          BY <3>1
        <4>2. Outcome(bars, d).scored = TRUE /\ Outcome(bars, d).exit = e
          BY <2>10, <4>1
        <4> QED BY <4>1, <4>2
      <3>2. CASE \A e : ~ScoredAt(bars, d, e)
        BY <2>11, <3>2
      <3> QED BY <3>1, <3>2
    <2>13. ~bars[d + 1].gap /\ StopFor(bars, d, 0) <= 0 => Outcome(bars, d) = Unscored("invalid_risk")
      BY <1>2, <1>4, <2>1, <2>4
    <2> QED BY <2>10, <2>12, <2>13
  <1> QED BY <1>3, <1>4

\* The score of a decision needs no bar after the one that ends it.
LEMMA ScoreIsKept ==
  ASSUME NEW bars \in Seq(Hourly), NEW more \in Seq(Hourly), NEW d \in 1..Len(bars), NEW e,
         ScoredAt(bars, d, e), d <= Len(more), e <= Len(more), \A i \in 1..e : bars[i] = more[i]
  PROVE  /\ d \in 1..Len(more) /\ ScoredAt(more, d, e)
         /\ Outcome(more, d) = Outcome(bars, d) /\ Outcome(bars, d).exit = e
  <1>1. /\ Len(bars) \in Nat /\ Len(more) \in Nat /\ d \in Nat /\ e \in (d + 1)..Len(bars)
        /\ d \in 1..Len(more) /\ d \in 1..e /\ d + 1 \in 1..e /\ e \in 1..e
        /\ e \in (d + 1)..Len(more)
    BY LenProperties DEF ScoredAt
  <1>2. bars[d] = more[d] /\ bars[d + 1] = more[d + 1]
    BY <1>1
  <1>3. /\ StopFor(bars, d, 0) = StopFor(more, d, 0)
        /\ TargetFor(bars, d, 0) = TargetFor(more, d, 0)
    BY <1>2 DEF StopFor, TargetFor
  <1>4. \A i \in (d + 1)..e : bars[i] = more[i] /\ Ends(bars, d, i) = Ends(more, d, i)
    <2>1. \A i \in (d + 1)..e : i \in 1..e
      BY <1>1
    <2>2. \A i \in (d + 1)..e : bars[i] = more[i]
      BY <2>1
    <2> QED BY <1>3, <2>2 DEF Ends
  <1>5. \A i \in (d + 1)..(e - 1) : i \in (d + 1)..e
    BY <1>1
  <1>6. e \in (d + 1)..e
    BY <1>1
  <1>7. ScoredAt(more, d, e)
    BY <1>1, <1>3, <1>4, <1>5, <1>6 DEF ScoredAt
  <1>8. Ends(bars, d, e) = Ends(more, d, e)
    BY <1>4, <1>6
  <1>9. /\ Outcome(more, d) = [scored |-> TRUE, exit |-> e, how |-> CHOOSE x \in Ends(more, d, e) : TRUE]
        /\ Outcome(bars, d) = [scored |-> TRUE, exit |-> e, how |-> CHOOSE x \in Ends(bars, d, e) : TRUE]
    BY <1>1, <1>7, OutcomeIs
  <1> QED BY <1>1, <1>7, <1>8, <1>9

Unbusy == [busy |-> 0, rows |-> {}]

\* The audit of the first n bars.
IsAudit(t, bars, wanted, n) ==
  t = [d \in 0..n |-> IF d = 0 THEN Unbusy ELSE AuditStep(bars, wanted, t[d - 1], d)]

\* There is such a table for every n: the least n without one would have one.
LEMMA AuditExists ==
  ASSUME NEW bars, NEW wanted, NEW n \in Nat
  PROVE  \E t : IsAudit(t, bars, wanted, n)
  <1> DEFINE none == {k \in Nat : ~\E t : IsAudit(t, bars, wanted, k)}
  <1>1. none = {}
    <2> SUFFICES ASSUME none # {} PROVE FALSE
      OBVIOUS
    <2>1. PICK k \in none : \A j \in none : k <= j
      <3>1. none \subseteq Nat
        OBVIOUS
      <3> HIDE DEF none
      <3> QED BY <3>1, LeastNatural
    <2>2. k \in Nat /\ ~\E t : IsAudit(t, bars, wanted, k)
      OBVIOUS
    <2>3. k # 0
      <3>1. \A d \in 0..0 : d = 0
        OBVIOUS
      <3>2. PICK t : t = [d \in 0..0 |-> Unbusy]
        OBVIOUS
      <3>3. [d \in 0..0 |-> IF d = 0 THEN Unbusy ELSE AuditStep(bars, wanted, t[d - 1], d)]
              = [d \in 0..0 |-> Unbusy]
        BY <3>1
      <3>4. IsAudit(t, bars, wanted, 0)
        BY <3>2, <3>3 DEF IsAudit
      <3> QED BY <2>2, <3>4
    <2>4. k - 1 \in Nat /\ ~(k <= k - 1)
      BY <2>2, <2>3
    <2>5. PICK u : IsAudit(u, bars, wanted, k - 1)
      BY <2>1, <2>4
    <2>6. PICK t : t = [d \in 0..k |-> IF d = 0 THEN Unbusy ELSE AuditStep(bars, wanted, u[d - 1], d)]
      OBVIOUS
    <2>7. ASSUME NEW d \in 0..(k - 1) PROVE t[d] = u[d]
      <3>1. d \in 0..k
        BY <2>2
      <3>2. u = [c \in 0..(k - 1) |-> IF c = 0 THEN Unbusy ELSE AuditStep(bars, wanted, u[c - 1], c)]
        BY <2>5 DEF IsAudit
      <3>3. u[d] = IF d = 0 THEN Unbusy ELSE AuditStep(bars, wanted, u[d - 1], d)
        BY <3>2
      <3>4. t[d] = IF d = 0 THEN Unbusy ELSE AuditStep(bars, wanted, u[d - 1], d)
        BY <2>6, <3>1
      <3> QED BY <3>3, <3>4
    <2>8. \A d \in 0..k : d = 0 \/ d - 1 \in 0..(k - 1)
      BY <2>2
    <2>9. ASSUME NEW d \in 0..k
          PROVE  (IF d = 0 THEN Unbusy ELSE AuditStep(bars, wanted, t[d - 1], d))
                   = (IF d = 0 THEN Unbusy ELSE AuditStep(bars, wanted, u[d - 1], d))
      <3>1. CASE d = 0
        BY <3>1
      <3>2. CASE d # 0
        <4>1. t[d - 1] = u[d - 1]
          BY <2>7, <2>8, <3>2
        <4> QED BY <4>1
      <3> QED BY <3>1, <3>2
    <2>10. IsAudit(t, bars, wanted, k)
      <3>1. [d \in 0..k |-> IF d = 0 THEN Unbusy ELSE AuditStep(bars, wanted, t[d - 1], d)]
              = [d \in 0..k |-> IF d = 0 THEN Unbusy ELSE AuditStep(bars, wanted, u[d - 1], d)]
        BY <2>9
      <3> QED BY <2>6, <3>1 DEF IsAudit
    <2> QED BY <2>2, <2>10
  <1> QED BY <1>1

\* What the audit writes of the decision on bar d.
RowOf(bars, d) == [decided |-> d, exit |-> Outcome(bars, d).exit, how |-> Outcome(bars, d).how]

Scorable(bars, wanted, d) == d \in wanted /\ Eligible(bars, d) /\ Outcome(bars, d).scored

\* The audit after the first n bars: its rows are scores, no two overlap, and what is not
\* among them was busy.
Audited(bars, wanted, state, n) ==
  /\ state.busy \in Nat
  /\ \A r \in state.rows : \E d \in 1..n : /\ Scorable(bars, wanted, d) /\ r = RowOf(bars, d)
                                           /\ d < r.exit /\ r.exit <= state.busy
                                           /\ r.exit \in Nat
  /\ \A r, q \in state.rows : r.decided < q.decided => r.exit <= q.decided
  /\ \A d \in 1..n : Scorable(bars, wanted, d) =>
       RowOf(bars, d) \in state.rows \/ \E r \in state.rows : r.decided < d /\ d < r.exit
  /\ state.busy = 0 \/ \E r \in state.rows : r.exit = state.busy

LEMMA AuditStepHolds ==
  ASSUME NEW bars \in Seq(Hourly), NEW wanted, NEW n \in 1..Len(bars), NEW state,
         Audited(bars, wanted, state, n - 1)
  PROVE  Audited(bars, wanted, AuditStep(bars, wanted, state, n), n)
  <1>1. Len(bars) \in Nat /\ n \in Nat /\ n - 1 \in Nat /\ \A d \in 1..(n - 1) : d \in 1..n /\ d < n
    BY LenProperties
  <1>2. \A d \in 1..n : d \in 1..(n - 1) \/ d = n
    BY <1>1
  <1> PICK o : o = Outcome(bars, n)
    OBVIOUS
  <1>3. o.scored => o.exit \in Nat /\ n < o.exit
    <2>1. o.scored => ScoredAt(bars, n, o.exit)
      BY OutcomeIs
    <2> QED BY <1>1, <2>1 DEF ScoredAt
  <1>4. \A r \in state.rows : r.decided \in 1..(n - 1) /\ r.exit \in Nat /\ r.exit <= state.busy
    BY DEF Audited, RowOf
  <1>5. CASE n \notin wanted \/ ~Eligible(bars, n) \/ n < state.busy \/ ~o.scored
    <2>1. AuditStep(bars, wanted, state, n) = state
      BY <1>5 DEF AuditStep
    <2>2. ASSUME Scorable(bars, wanted, n)
          PROVE  \E r \in state.rows : r.decided < n /\ n < r.exit
      <3>1. n < state.busy
        BY <1>5, <2>2 DEF Scorable
      <3>2. state.busy # 0
        BY <1>1, <3>1
      <3>3. PICK r \in state.rows : r.exit = state.busy
        BY <3>2 DEF Audited
      <3> QED BY <1>1, <1>4, <3>1, <3>3
    <2>3. \A d \in 1..n : Scorable(bars, wanted, d) =>
            RowOf(bars, d) \in state.rows \/ \E r \in state.rows : r.decided < d /\ d < r.exit
      BY <1>2, <2>2 DEF Audited
    <2>4. \A r \in state.rows : \E d \in 1..n : /\ Scorable(bars, wanted, d) /\ r = RowOf(bars, d)
                                                /\ d < r.exit /\ r.exit <= state.busy
                                                /\ r.exit \in Nat
      BY <1>1 DEF Audited
    <2> QED BY <2>1, <2>3, <2>4 DEF Audited
  <1>6. CASE ~(n \notin wanted \/ ~Eligible(bars, n) \/ n < state.busy \/ ~o.scored)
    <2> PICK row : row = RowOf(bars, n)
      OBVIOUS
    <2> PICK next : next = AuditStep(bars, wanted, state, n)
      OBVIOUS
    <2>1. /\ next.busy = o.exit /\ next.rows = state.rows \cup {row}
          /\ row.decided = n /\ row.exit = o.exit
      <3>1. row = [decided |-> n, exit |-> o.exit, how |-> o.how]
        BY DEF RowOf
      <3>2. next = [busy |-> o.exit, rows |-> state.rows \cup {row}]
        BY <1>6, <3>1 DEF AuditStep
      <3> QED BY <3>1, <3>2
    <2>2. Scorable(bars, wanted, n) /\ o.exit \in Nat /\ n < o.exit /\ state.busy \in Nat /\ state.busy <= n
      BY <1>1, <1>3, <1>6 DEF Scorable, Audited
    <2>3. \A r \in next.rows : \E d \in 1..n : /\ Scorable(bars, wanted, d) /\ r = RowOf(bars, d)
                                               /\ d < r.exit /\ r.exit <= next.busy /\ r.exit \in Nat
      <3>1. ASSUME NEW r \in state.rows
            PROVE  \E d \in 1..n : /\ Scorable(bars, wanted, d) /\ r = RowOf(bars, d)
                                   /\ d < r.exit /\ r.exit <= next.busy /\ r.exit \in Nat
        <4>1. PICK d \in 1..(n - 1) : /\ Scorable(bars, wanted, d) /\ r = RowOf(bars, d)
                                      /\ d < r.exit /\ r.exit <= state.busy /\ r.exit \in Nat
          BY DEF Audited
        <4>2. r.exit <= next.busy
          BY <1>1, <2>1, <2>2, <4>1
        <4> QED BY <1>1, <4>1, <4>2
      <3>2. /\ Scorable(bars, wanted, n) /\ row = RowOf(bars, n) /\ n \in 1..n
            /\ n < row.exit /\ row.exit <= next.busy /\ row.exit \in Nat
        BY <1>1, <2>1, <2>2
      <3> QED BY <2>1, <3>1, <3>2
    <2>4. \A r, q \in next.rows : r.decided < q.decided => r.exit <= q.decided
      <3>1. ASSUME NEW r \in next.rows, NEW q \in next.rows, r.decided < q.decided
            PROVE  r.exit <= q.decided
        <4>1. CASE r \in state.rows /\ q \in state.rows
          BY <3>1, <4>1 DEF Audited
        <4>2. CASE r \in state.rows /\ q = row
          BY <1>1, <1>4, <2>1, <2>2, <4>2
        <4>3. CASE r = row
          <5>1. q.decided <= n
            BY <1>1, <1>4, <2>1
          <5>2. r.decided = n
            BY <2>1, <4>3
          <5>3. q.decided \in Nat
            BY <1>1, <1>4, <2>1
          <5> QED BY <1>1, <3>1, <5>1, <5>2, <5>3
        <4> QED BY <2>1, <4>1, <4>2, <4>3
      <3> QED BY <3>1
    <2>5. \A d \in 1..n : Scorable(bars, wanted, d) =>
            RowOf(bars, d) \in next.rows \/ \E r \in next.rows : r.decided < d /\ d < r.exit
      <3>1. ASSUME NEW d \in 1..n, Scorable(bars, wanted, d)
            PROVE  RowOf(bars, d) \in next.rows \/ \E r \in next.rows : r.decided < d /\ d < r.exit
        <4>1. CASE d = n
          BY <2>1, <4>1
        <4>2. CASE d \in 1..(n - 1)
          <5>1. RowOf(bars, d) \in state.rows \/ \E r \in state.rows : r.decided < d /\ d < r.exit
            BY <3>1, <4>2 DEF Audited
          <5> QED BY <2>1, <5>1
        <4> QED BY <1>2, <4>1, <4>2
      <3> QED BY <3>1
    <2>6. next.busy \in Nat /\ \E r \in next.rows : r.exit = next.busy
      BY <2>1, <2>2
    <2>7. Audited(bars, wanted, next, n)
      BY <2>3, <2>4, <2>5, <2>6 DEF Audited
    <2> QED BY <2>7
  <1> QED BY <1>5, <1>6

\* The rows of the audit are those of a scan in order: what it scores, free of overlaps
\* and as much of it as there is.
LEMMA AuditFacts ==
  ASSUME NEW bars \in Seq(Hourly), NEW wanted
  PROVE  /\ \A r \in Audit(bars, wanted) : \E d \in 1..Len(bars) :
              /\ Scorable(bars, wanted, d) /\ r = RowOf(bars, d) /\ d < r.exit /\ r.exit \in Nat
         /\ \A r, q \in Audit(bars, wanted) : r.decided < q.decided => r.exit <= q.decided
         /\ \A d \in 1..Len(bars) : Scorable(bars, wanted, d) =>
              \/ RowOf(bars, d) \in Audit(bars, wanted)
              \/ \E r \in Audit(bars, wanted) : r.decided < d /\ d < r.exit
  <1>1. Len(bars) \in Nat
    BY LenProperties
  <1> PICK n \in Nat : n = Len(bars)
    BY <1>1
  <1>2. PICK t : IsAudit(t, bars, wanted, n) /\ Audit(bars, wanted) = t[n].rows
    <2> DEFINE table == CHOOSE t : t = [d \in 0..Len(bars) |->
                          IF d = 0 THEN [busy |-> 0, rows |-> {}] ELSE AuditStep(bars, wanted, t[d - 1], d)]
    <2>1. Audit(bars, wanted) = table[Len(bars)].rows
      BY DEF Audit
    <2>2. table = CHOOSE t : IsAudit(t, bars, wanted, n)
      BY DEF IsAudit, Unbusy
    <2>3. IsAudit(table, bars, wanted, n)
      BY <2>2, AuditExists
    <2> HIDE DEF table
    <2> QED BY <2>1, <2>3
  <1>3. \A d \in 0..n : t[d] = IF d = 0 THEN Unbusy ELSE AuditStep(bars, wanted, t[d - 1], d)
    BY <1>2 DEF IsAudit
  <1> DEFINE wrong == {d \in 0..n : ~Audited(bars, wanted, t[d], d)}
  <1>4. wrong = {}
    <2> SUFFICES ASSUME wrong # {} PROVE FALSE
      OBVIOUS
    <2>1. PICK d \in wrong : \A c \in wrong : d <= c
      <3>1. wrong \subseteq Nat
        OBVIOUS
      <3> HIDE DEF wrong
      <3> QED BY <3>1, LeastNatural
    <2>2. d \in 0..n /\ ~Audited(bars, wanted, t[d], d)
      OBVIOUS
    <2>3. CASE d = 0
      <3>1. t[0] = Unbusy
        BY <1>3, <2>2, <2>3
      <3>2. Audited(bars, wanted, Unbusy, 0)
        <4>1. \A c : c \notin 1..0
          OBVIOUS
        <4> QED BY <4>1 DEF Audited, Unbusy
      <3> QED BY <2>2, <2>3, <3>1, <3>2
    <2>4. CASE d # 0
      <3>1. d \in 1..n /\ d - 1 \in 0..n /\ ~(d <= d - 1)
        BY <2>2, <2>4
      <3>2. Audited(bars, wanted, t[d - 1], d - 1)
        BY <2>1, <3>1
      <3>3. t[d] = AuditStep(bars, wanted, t[d - 1], d)
        BY <1>3, <2>2, <2>4
      <3> QED BY <2>2, <3>1, <3>2, <3>3, AuditStepHolds
    <2> QED BY <2>3, <2>4
  <1>5. Audited(bars, wanted, t[n], n)
    <2>1. n \in 0..n
      OBVIOUS
    <2> QED BY <1>4, <2>1
  <1> HIDE DEF wrong
  <1> QED BY <1>2, <1>5 DEF Audited

-----------------------------------------------------------------------------
(* The folds of the search.                                                *)

LEMMA BoundariesRise ==
  ASSUME NEW bars \in Seq(Hourly)
  PROVE  /\ \A f \in 0..4 : Boundary(bars, f) \in 0..Len(bars)
         /\ \A f, g \in 0..4 : f <= g => Boundary(bars, f) <= Boundary(bars, g)
  <1>1. PICK n \in Nat : n = Len(bars)
    BY LenProperties
  <1>2. \A f \in 0..4 : f = 0 \/ f = 1 \/ f = 2 \/ f = 3 \/ f = 4
    OBVIOUS
  <1>3. /\ Boundary(bars, 0) = 0 /\ Boundary(bars, 1) = n \div 4 /\ Boundary(bars, 2) = (n * 2) \div 4
        /\ Boundary(bars, 3) = (n * 3) \div 4 /\ Boundary(bars, 4) = n
    BY <1>1 DEF Boundary
  <1>4. /\ 0 <= n \div 4 /\ n \div 4 <= (n * 2) \div 4 /\ (n * 2) \div 4 <= (n * 3) \div 4
        /\ (n * 3) \div 4 <= n /\ n \div 4 \in Int /\ (n * 2) \div 4 \in Int /\ (n * 3) \div 4 \in Int
    BY <1>1
  <1>5. \A f \in 0..4 : Boundary(bars, f) \in 0..n
    BY <1>2, <1>3, <1>4
  <1>6. \A f, g \in 0..4 : f <= g => Boundary(bars, f) <= Boundary(bars, g)
    BY <1>2, <1>3, <1>4
  <1> QED BY <1>1, <1>5, <1>6

\* What a fold scores is decided in it, and scored by the whole of the bars alike.
LEMMA FoldScores ==
  ASSUME NEW bars \in Seq(Hourly), NEW f \in 1..4, NEW r \in FoldRows(bars, f)
  PROVE  /\ r.decided \in InFold(bars, f)
         /\ Outcome(bars, r.decided).scored
         /\ Outcome(bars, r.decided).exit = r.exit /\ Outcome(bars, r.decided).how = r.how
  <1> PICK b : b = Boundary(bars, f)
    OBVIOUS
  <1> PICK part : part = SubSeq(bars, 1, b)
    OBVIOUS
  <1>1. b \in 0..Len(bars) /\ Len(bars) \in Nat /\ b \in Nat
    BY BoundariesRise, LenProperties
  <1>2. part \in Seq(Hourly) /\ Len(part) = b /\ \A i \in 1..b : part[i] = bars[i]
    <2>1. \A i \in 1..b : bars[i] \in Hourly
      <3>1. \A i \in 1..b : i \in 1..Len(bars)
        BY <1>1
      <3> QED BY <3>1, ElementOfSeq
    <2>2. /\ part \in Seq(Hourly) /\ Len(part) = IF 1 <= b THEN b - 1 + 1 ELSE 0
          /\ \A i \in 1..(b - 1 + 1) : part[i] = bars[1 + i - 1]
      BY <1>1, <2>1, SubSeqProperties
    <2>3. b - 1 + 1 = b /\ (1 <= b \/ b = 0) /\ \A i \in 1..b : 1 + i - 1 = i
      BY <1>1
    <2>4. Len(part) = b
      BY <2>2, <2>3
    <2>5. ASSUME NEW i \in 1..b PROVE part[i] = bars[i]
      <3>1. i \in 1..(b - 1 + 1) /\ 1 + i - 1 = i
        BY <2>3
      <3>2. part[i] = bars[1 + i - 1]
        BY <2>2, <3>1
      <3> QED BY <3>1, <3>2, Zenon
    <2> QED BY <2>2, <2>4, <2>5
  <1>3. PICK d \in 1..Len(part) : Scorable(part, InFold(bars, f), d) /\ r = RowOf(part, d)
    <2>1. r \in Audit(part, InFold(bars, f))
      BY DEF FoldRows
    <2> PICK wanted : wanted = InFold(bars, f)
      OBVIOUS
    <2>2. \A q \in Audit(part, wanted) : \E d \in 1..Len(part) :
            Scorable(part, wanted, d) /\ q = RowOf(part, d) /\ d < q.exit /\ q.exit \in Nat
      <3>1. part \in Seq(Hourly)
        BY <1>2
      <3> QED BY ONLY <3>1, AuditFacts
    <2>3. \E d \in 1..Len(part) : Scorable(part, wanted, d) /\ r = RowOf(part, d)
      BY <2>1, <2>2
    <2> QED BY <2>3
  <1>4. /\ r.decided = d /\ r.exit = Outcome(part, d).exit /\ r.how = Outcome(part, d).how
        /\ d \in InFold(bars, f) /\ Outcome(part, d).scored
    BY <1>3 DEF RowOf, Scorable
  <1>5. ScoredAt(part, d, r.exit)
    BY <1>2, <1>4, OutcomeIs
  <1>6. d <= Len(bars) /\ r.exit <= Len(bars) /\ \A i \in 1..r.exit : part[i] = bars[i]
    <2>1. r.exit \in (d + 1)..b
      BY <1>2, <1>5 DEF ScoredAt
    <2>2. d \in 1..b
      BY <1>2
    <2>3. \A i \in 1..r.exit : i \in 1..b
      BY <1>1, <2>1, <2>2
    <2> QED BY <1>1, <1>2, <2>1, <2>2, <2>3
  <1>7. Outcome(bars, d) = Outcome(part, d)
    BY <1>2, <1>5, <1>6, ScoreIsKept
  <1> QED BY <1>4, <1>7

LEMMA FoldsScoreAlike ==
  ASSUME series \in Seq(Hourly)
  PROVE  FoldsAgree
  <1>1. ASSUME NEW f \in 1..4, NEW g \in (f + 1)..4, NEW d,
               d \in InFold(series, f), d \in InFold(series, g)
        PROVE  FALSE
    <2> PICK h : h = g - 1
      OBVIOUS
    <2>1. f \in 0..4 /\ h \in 0..4 /\ f <= h
      OBVIOUS
    <2>2. Boundary(series, f) <= Boundary(series, h) /\ Boundary(series, f) \in Nat /\ Boundary(series, h) \in Nat
      <3>1. Boundary(series, f) \in 0..Len(series) /\ Boundary(series, h) \in 0..Len(series)
        BY <2>1, BoundariesRise
      <3>2. Boundary(series, f) <= Boundary(series, h)
        BY <2>1, BoundariesRise
      <3> QED BY <3>1, <3>2
    <2>3. /\ d \in 1..Boundary(series, f)
          /\ d = Boundary(series, f) => series[d + 1].gap
          /\ d >= Boundary(series, h)
          /\ d = Boundary(series, h) => ~series[d + 1].gap
      BY <1>1 DEF InFold
    <2>4. d = Boundary(series, f) /\ d = Boundary(series, h)
      BY <2>2, <2>3
    <2> QED BY <2>3, <2>4
  <1>2. ASSUME NEW f \in 1..4, NEW r \in FoldRows(series, f), NEW g \in (f + 1)..4
        PROVE  r.decided \notin {q.decided : q \in FoldRows(series, g)}
    <2>1. \A q \in FoldRows(series, g) : q.decided \in InFold(series, g)
      <3>1. g \in 1..4
        OBVIOUS
      <3> QED BY <3>1, FoldScores
    <2>2. r.decided \in InFold(series, f)
      BY FoldScores
    <2> QED BY <1>1, <2>1, <2>2
  <1>3. \A f \in 1..4 : \A r \in FoldRows(series, f) :
          /\ Outcome(series, r.decided).scored
          /\ Outcome(series, r.decided).exit = r.exit /\ Outcome(series, r.decided).how = r.how
    BY FoldScores
  <1> QED BY <1>2, <1>3 DEF FoldsAgree

-----------------------------------------------------------------------------
(* The accounts of the replay.                                             *)

Hows      == {"gap_liquidation", "stop", "expiry", "target"} \X Int
Positions == {NoPosition} \cup [decided : Nat \ {0}, quantity : Int, stop : Int, target : Int]
Account   ==
  [pending : Nat, position : Positions, cash : Int,
   trades : SUBSET [decided : Nat, exit : Nat, how : Hows], refused : SUBSET Nat]

\* What decides about a position that costs lift with its entry.
Stake(bars, m, d) ==
  [decided |-> d, stop |-> StopFor(bars, d, Cost(m)), target |-> TargetFor(bars, d, Cost(m))]

\* A position decided on bar d would still be held after bar n.
HeldThrough(bars, m, d, n) ==
  /\ d \in 1..Len(bars) /\ d < Len(bars)
  /\ Eligible(bars, d) /\ ~bars[d + 1].gap /\ StopFor(bars, d, Cost(m)) > 0
  /\ \A i \in (d + 1)..n : Leaves(Stake(bars, m, d), bars[i], i) = {}

TradeOK(t, bars, m, n) ==
  /\ t.exit \in (t.decided + 1)..n /\ n <= Len(bars)
  /\ HeldThrough(bars, m, t.decided, t.exit - 1)
  /\ t.how \in Leaves(Stake(bars, m, t.decided), bars[t.exit], t.exit)

\* What became of a decision: it waits, a gap cancelled it, it was refused, or the account
\* was or got busy with a position or trade.
Resolved(account, bars, d) ==
  \/ account.pending = d
  \/ d < Len(bars) /\ bars[d + 1].gap
  \/ d \in account.refused
  \/ account.position # NoPosition /\ account.position.decided <= d
  \/ \E t \in account.trades : t.decided <= d /\ d < t.exit

\* An account that has closed n bars and decided on k.
AccountOK(account, bars, m, n, k) ==
  /\ account \in Account
  /\ account.pending # 0 => account.pending = k /\ Eligible(bars, k) /\ account.position = NoPosition
  /\ account.position # NoPosition =>
       /\ HeldThrough(bars, m, account.position.decided, n)
       /\ account.position.stop = StopFor(bars, account.position.decided, Cost(m))
       /\ account.position.target = TargetFor(bars, account.position.decided, Cost(m))
       /\ \A t \in account.trades : t.exit <= account.position.decided
  /\ \A t \in account.trades : TradeOK(t, bars, m, n)
  /\ \A t, u \in account.trades : t.decided < u.decided => t.exit <= u.decided
  /\ \A d \in 1..k : Eligible(bars, d) => Resolved(account, bars, d)

ReplayInv ==
  /\ series \in Seq(Hourly)
  /\ \A m \in Multipliers : AccountOK(books[m], series, m, Len(series), Len(series))

LEMMA CostIs ==
  ASSUME NEW m \in Multipliers
  PROVE  Cost(m) \in Nat /\ (m = 1 => Cost(m) = 0)
  BY DEF Multipliers, Cost

LEMMA LeastOfTwo ==
  ASSUME NEW a \in Int, NEW b \in Int
  PROVE  Min({a, b}) \in Int /\ Min({a, b}) = IF a <= b THEN a ELSE b
  <1>1. Min({a, b}) \in {a, b} /\ \A y \in {a, b} : Min({a, b}) <= y
    <2>1. \E x \in {a, b} : \A y \in {a, b} : x <= y
      <3>1. a <= b \/ b <= a
        OBVIOUS
      <3>2. CASE a <= b
        BY <3>2
      <3>3. CASE b <= a
        BY <3>3
      <3> QED BY <3>1, <3>2, <3>3
    <2> PICK S : S = {a, b}
      OBVIOUS
    <2>2. Min(S) \in S /\ \A y \in S : Min(S) <= y
      BY <2>1 DEF Min
    <2> QED BY <2>2
  <1> PICK x : x = Min({a, b})
    OBVIOUS
  <1>2. (x = a \/ x = b) /\ x <= a /\ x <= b
    BY <1>1
  <1> QED BY <1>2

\* A bar ends a position for one reason, or for none while it is within the horizon.
LEMMA LeavesOnce ==
  ASSUME NEW p \in [decided : Nat, stop : Int, target : Int], NEW bar \in Hourly, NEW j \in Nat
  PROVE  /\ Leaves(p, bar, j) \subseteq Hows
         /\ Leaves(p, bar, j) = {} =>
              ~bar.gap /\ bar.low > p.stop /\ j < p.decided + MaximumBars /\ bar.high < p.target
         /\ \A x \in Leaves(p, bar, j) :
              /\ x[1] = "gap_liquidation" <=> bar.gap
              /\ x[1] = "stop" <=> ~bar.gap /\ bar.low <= p.stop
              /\ x[1] = "expiry" <=> ~bar.gap /\ bar.low > p.stop /\ j >= p.decided + MaximumBars
              /\ x[1] = "target" <=> /\ ~bar.gap /\ bar.low > p.stop /\ j < p.decided + MaximumBars
                                     /\ bar.high >= p.target
              /\ Leaves(p, bar, j) = {x}
  <1>1. /\ p.stop \in Int /\ p.target \in Int /\ p.decided \in Nat
        /\ bar.gap \in BOOLEAN /\ bar.open \in Nat /\ bar.high \in Nat /\ bar.low \in Nat /\ bar.close \in Nat
    BY DEF Hourly
  <1>2. MaximumBars \in Nat /\ Min({bar.open, p.stop}) \in Int
    <2>1. bar.open \in Int /\ p.stop \in Int
      BY <1>1
    <2> QED BY <2>1, ReplayConstants, LeastOfTwo
  <1> PICK L : L = Leaves(p, bar, j)
    OBVIOUS
  <1>3. CASE bar.gap
    <2>1. Leaves(p, bar, j) = {<<"gap_liquidation", bar.open>>}
      BY <1>3 DEF Leaves
    <2>2. <<"gap_liquidation", bar.open>> \in Hows
      BY <1>1 DEF Hows
    <2>4. PICK x : x = <<"gap_liquidation", bar.open>>
      OBVIOUS
    <2>5. x[1] = "gap_liquidation" /\ x \in Hows /\ L = {x}
      BY <2>1, <2>2, <2>4
    <2>6. \A y \in L : y[1] = "gap_liquidation" /\ L = {y} /\ y \in Hows
      BY <2>5
    <2>7. L # {} /\ L \subseteq Hows
      BY <2>5
    <2> QED BY <1>3, <2>6, <2>7
  <1>4. CASE ~bar.gap /\ bar.low <= p.stop
    <2>1. ~(bar.low > p.stop)
      BY <1>1, <1>4
    <2>2. Leaves(p, bar, j) = {<<"stop", Min({bar.open, p.stop})>>}
      BY <1>4, <2>1 DEF Leaves
    <2>3. <<"stop", Min({bar.open, p.stop})>> \in Hows
      BY <1>2 DEF Hows
    <2>4. PICK x : x = <<"stop", Min({bar.open, p.stop})>>
      OBVIOUS
    <2>5. x[1] = "stop" /\ x \in Hows /\ L = {x}
      BY <2>2, <2>3, <2>4
    <2>6. \A y \in L : y[1] = "stop" /\ L = {y} /\ y \in Hows
      BY <2>5
    <2>7. L # {} /\ L \subseteq Hows
      BY <2>5
    <2> QED BY <1>4, <2>1, <2>6, <2>7
  <1>5. CASE ~bar.gap /\ bar.low > p.stop /\ j >= p.decided + MaximumBars
    <2>1. ~(bar.low <= p.stop) /\ ~(j < p.decided + MaximumBars)
      BY <1>1, <1>2, <1>5
    <2>2. Leaves(p, bar, j) = {<<"expiry", bar.close>>}
      BY <1>5, <2>1 DEF Leaves
    <2>3. <<"expiry", bar.close>> \in Hows
      BY <1>1 DEF Hows
    <2>4. PICK x : x = <<"expiry", bar.close>>
      OBVIOUS
    <2>5. x[1] = "expiry" /\ x \in Hows /\ L = {x}
      BY <2>2, <2>3, <2>4
    <2>6. \A y \in L : y[1] = "expiry" /\ L = {y} /\ y \in Hows
      BY <2>5
    <2>7. L # {} /\ L \subseteq Hows
      BY <2>5
    <2> QED BY <1>5, <2>1, <2>6, <2>7
  <1>6. CASE ~bar.gap /\ bar.low > p.stop /\ j < p.decided + MaximumBars /\ bar.high >= p.target
    <2>1. ~(bar.low <= p.stop) /\ ~(j >= p.decided + MaximumBars)
      BY <1>1, <1>2, <1>6
    <2>2. Leaves(p, bar, j) = {<<"target", p.target>>}
      BY <1>6, <2>1 DEF Leaves
    <2>3. <<"target", p.target>> \in Hows
      BY <1>1 DEF Hows
    <2>4. PICK x : x = <<"target", p.target>>
      OBVIOUS
    <2>5. x[1] = "target" /\ x \in Hows /\ L = {x}
      BY <2>2, <2>3, <2>4
    <2>6. \A y \in L : y[1] = "target" /\ L = {y} /\ y \in Hows
      BY <2>5
    <2>7. L # {} /\ L \subseteq Hows
      BY <2>5
    <2> QED BY <1>6, <2>1, <2>6, <2>7
  <1>7. CASE ~bar.gap /\ bar.low > p.stop /\ j < p.decided + MaximumBars /\ bar.high < p.target
    <2>1. ~(bar.low <= p.stop) /\ ~(j >= p.decided + MaximumBars) /\ ~(bar.high >= p.target)
      BY <1>1, <1>2, <1>7
    <2>2. L = {}
      BY <1>7, <2>1 DEF Leaves
    <2> QED BY <1>7, <2>2
  <1>8. /\ bar.low <= p.stop \/ bar.low > p.stop
        /\ j < p.decided + MaximumBars \/ j >= p.decided + MaximumBars
        /\ bar.high >= p.target \/ bar.high < p.target
    BY <1>1, <1>2
  <1> QED BY <1>3, <1>4, <1>5, <1>6, <1>7, <1>8

LEMMA StakeFacts ==
  ASSUME NEW bars \in Seq(Hourly), NEW d \in 1..Len(bars), d < Len(bars), NEW m \in Multipliers
  PROVE  /\ Stake(bars, m, d).decided = d /\ d \in Nat
         /\ Stake(bars, m, d).stop = StopFor(bars, d, Cost(m))
         /\ Stake(bars, m, d).target = TargetFor(bars, d, Cost(m))
         /\ Stake(bars, m, d).stop \in Int /\ Stake(bars, m, d).target \in Int
  <1>1. StopFor(bars, d, Cost(m)) \in Int /\ TargetFor(bars, d, Cost(m)) \in Int
    BY CostIs, BarriersAre
  <1> QED BY <1>1 DEF Stake

LEMMA StakeLeaves ==
  ASSUME NEW bars \in Seq(Hourly), NEW m \in Multipliers, NEW d \in 1..Len(bars), d < Len(bars),
         NEW i \in 1..Len(bars)
  PROVE  /\ Leaves(Stake(bars, m, d), bars[i], i) \subseteq Hows
         /\ Leaves(Stake(bars, m, d), bars[i], i) = {} =>
              /\ ~bars[i].gap /\ bars[i].low > StopFor(bars, d, Cost(m))
              /\ i < d + MaximumBars /\ bars[i].high < TargetFor(bars, d, Cost(m))
         /\ \A x \in Leaves(Stake(bars, m, d), bars[i], i) :
              /\ x[1] = "gap_liquidation" <=> bars[i].gap
              /\ x[1] = "stop" <=> ~bars[i].gap /\ bars[i].low <= StopFor(bars, d, Cost(m))
              /\ x[1] = "expiry" => i >= d + MaximumBars
              /\ x[1] = "target" => /\ bars[i].low > StopFor(bars, d, Cost(m)) /\ i < d + MaximumBars
                                    /\ bars[i].high >= TargetFor(bars, d, Cost(m))
              /\ \A y \in Leaves(Stake(bars, m, d), bars[i], i) : y = x
  <1> PICK p : p = Stake(bars, m, d)
    OBVIOUS
  <1> PICK b : b = bars[i]
    OBVIOUS
  <1>1. /\ p \in [decided : Nat, stop : Int, target : Int] /\ p.decided = d
        /\ p.stop = StopFor(bars, d, Cost(m)) /\ p.target = TargetFor(bars, d, Cost(m))
    <2>1. d \in Nat /\ StopFor(bars, d, Cost(m)) \in Int /\ TargetFor(bars, d, Cost(m)) \in Int
      BY StakeFacts
    <2> QED BY <2>1 DEF Stake
  <1>2. b \in Hourly
    BY BarFacts
  <1>3. i \in Nat
    BY LenProperties
  <1>4. Leaves(p, b, i) \subseteq Hows
    BY ONLY <1>1, <1>2, <1>3, LeavesOnce
  <1>5. Leaves(p, b, i) = {} =>
          ~b.gap /\ b.low > p.stop /\ i < p.decided + MaximumBars /\ b.high < p.target
    BY ONLY <1>1, <1>2, <1>3, LeavesOnce
  <1>6. ASSUME NEW x \in Leaves(p, b, i)
        PROVE  /\ x[1] = "gap_liquidation" <=> b.gap
               /\ x[1] = "stop" <=> ~b.gap /\ b.low <= p.stop
               /\ x[1] = "expiry" <=> ~b.gap /\ b.low > p.stop /\ i >= p.decided + MaximumBars
               /\ x[1] = "target" <=> /\ ~b.gap /\ b.low > p.stop /\ i < p.decided + MaximumBars
                                      /\ b.high >= p.target
               /\ \A y \in Leaves(p, b, i) : y = x
    <2>1. /\ x[1] = "gap_liquidation" <=> b.gap
          /\ x[1] = "stop" <=> ~b.gap /\ b.low <= p.stop
          /\ x[1] = "expiry" <=> ~b.gap /\ b.low > p.stop /\ i >= p.decided + MaximumBars
          /\ x[1] = "target" <=> /\ ~b.gap /\ b.low > p.stop /\ i < p.decided + MaximumBars
                                 /\ b.high >= p.target
          /\ Leaves(p, b, i) = {x}
      BY ONLY <1>1, <1>2, <1>3, <1>6, LeavesOnce
    <2> PICK left : left = Leaves(p, b, i)
      OBVIOUS
    <2>2. \A y \in left : y = x
      <3>1. left = {x}
        BY <2>1
      <3> QED BY ONLY <3>1
    <2> QED BY <2>1, <2>2
  <1>7. Leaves(Stake(bars, m, d), bars[i], i) = Leaves(p, b, i)
    OBVIOUS
  <1> QED BY <1>1, <1>4, <1>5, <1>6, <1>7

\* What bars say of a decision does not change as they are appended.
LEMMA BarsGrow ==
  ASSUME NEW bars \in Seq(Hourly), NEW more \in Seq(Hourly), Len(bars) <= Len(more),
         \A i \in 1..Len(bars) : more[i] = bars[i], NEW m
  PROVE  /\ \A d \in 1..Len(bars) : Eligible(more, d) = Eligible(bars, d)
         /\ \A d \in 1..Len(bars) : d < Len(bars) => more[d + 1] = bars[d + 1] /\ d < Len(more)
         /\ \A d, n : n <= Len(bars) /\ HeldThrough(bars, m, d, n) /\ n \in Nat => HeldThrough(more, m, d, n)
         /\ \A t, n : n \in Nat /\ n <= Len(bars) /\ TradeOK(t, bars, m, n) => TradeOK(t, more, m, n)
         /\ \A d, c : d \in 1..Len(bars) /\ d < Len(bars) =>
              StopFor(more, d, c) = StopFor(bars, d, c) /\ TargetFor(more, d, c) = TargetFor(bars, d, c)
  <1>1. Len(bars) \in Nat /\ Len(more) \in Nat
    BY LenProperties
  <1>2. \A d \in 1..Len(bars) : d \in 1..Len(more)
    BY <1>1
  <1>3. \A d \in 1..Len(bars) : d < Len(bars) => /\ d + 1 \in 1..Len(bars) /\ more[d + 1] = bars[d + 1]
                                                 /\ d < Len(more)
    BY <1>1
  <1>4. \A d \in 1..Len(bars) : Eligible(more, d) = Eligible(bars, d)
    BY DEF Eligible
  <1>5. \A d, c : d \in 1..Len(bars) /\ d < Len(bars) =>
          StopFor(more, d, c) = StopFor(bars, d, c) /\ TargetFor(more, d, c) = TargetFor(bars, d, c)
    BY <1>3 DEF StopFor, TargetFor
  <1>6. ASSUME NEW d, NEW n \in Nat, n <= Len(bars), HeldThrough(bars, m, d, n)
        PROVE  HeldThrough(more, m, d, n) /\ Stake(more, m, d) = Stake(bars, m, d)
    <2>1. d \in 1..Len(bars) /\ d < Len(bars)
      BY <1>6 DEF HeldThrough
    <2>2. Stake(more, m, d) = Stake(bars, m, d)
      BY <1>5, <2>1 DEF Stake
    <2>3. \A i \in (d + 1)..n : i \in 1..Len(bars)
      BY <1>1, <1>6, <2>1
    <2>4. \A i \in (d + 1)..n : Leaves(Stake(more, m, d), more[i], i) = {}
      BY <1>6, <2>2, <2>3 DEF HeldThrough
    <2>5. /\ d \in 1..Len(more) /\ d < Len(more) /\ Eligible(more, d) /\ ~more[d + 1].gap
          /\ StopFor(more, d, Cost(m)) > 0
      BY <1>2, <1>3, <1>4, <1>5, <1>6, <2>1 DEF HeldThrough
    <2> QED BY <2>2, <2>4, <2>5 DEF HeldThrough
  <1>7. ASSUME NEW t, NEW n \in Nat, n <= Len(bars), TradeOK(t, bars, m, n)
        PROVE  TradeOK(t, more, m, n)
    <2>1. /\ t.exit \in (t.decided + 1)..n /\ HeldThrough(bars, m, t.decided, t.exit - 1)
          /\ t.decided \in Nat
      <3>1. t.exit \in (t.decided + 1)..n /\ HeldThrough(bars, m, t.decided, t.exit - 1)
        BY <1>7 DEF TradeOK
      <3>2. t.decided \in 1..Len(bars)
        BY <3>1 DEF HeldThrough
      <3> QED BY <1>1, <3>1, <3>2
    <2>2. t.exit - 1 \in Nat /\ t.exit - 1 <= Len(bars) /\ t.exit \in 1..Len(bars) /\ n <= Len(more)
      <3> PICK d \in Nat : d = t.decided
        BY <2>1
      <3> PICK e : e = t.exit
        OBVIOUS
      <3>1. e \in (d + 1)..n
        BY <2>1
      <3>2. e - 1 \in Nat /\ e - 1 <= Len(bars) /\ e \in 1..Len(bars) /\ n <= Len(more)
        BY <1>1, <1>7, <3>1
      <3> QED BY <3>2
    <2>3. /\ HeldThrough(more, m, t.decided, t.exit - 1)
          /\ Stake(more, m, t.decided) = Stake(bars, m, t.decided)
      BY <1>6, <2>1, <2>2
    <2> QED BY <1>7, <2>1, <2>2, <2>3 DEF TradeOK
  <1> QED BY <1>3, <1>4, <1>5, <1>6, <1>7

LEMMA AccountGrows ==
  ASSUME NEW bars \in Seq(Hourly), NEW more \in Seq(Hourly), Len(more) = Len(bars) + 1,
         \A i \in 1..Len(bars) : more[i] = bars[i], NEW m \in Multipliers, NEW account,
         AccountOK(account, bars, m, Len(bars), Len(bars))
  PROVE  AccountOK(account, more, m, Len(bars), Len(bars))
  <1> PICK n : n = Len(bars)
    OBVIOUS
  <1>1. /\ n \in Nat /\ n <= Len(more) /\ Len(more) \in Nat /\ n <= n
    BY LenProperties
  <1>2. /\ \A d \in 1..n : Eligible(more, d) = Eligible(bars, d)
        /\ \A d \in 1..n : d < n => more[d + 1] = bars[d + 1] /\ d < Len(more)
        /\ \A d : HeldThrough(bars, m, d, n) => HeldThrough(more, m, d, n)
        /\ \A t : TradeOK(t, bars, m, n) => TradeOK(t, more, m, n)
        /\ \A d, c : d \in 1..n /\ d < n =>
              StopFor(more, d, c) = StopFor(bars, d, c) /\ TargetFor(more, d, c) = TargetFor(bars, d, c)
    <2>1. \A d \in 1..Len(bars) : Eligible(more, d) = Eligible(bars, d)
      BY <1>1, BarsGrow
    <2>2. \A d \in 1..Len(bars) : d < Len(bars) => more[d + 1] = bars[d + 1] /\ d < Len(more)
      BY <1>1, BarsGrow
    <2>3. \A d, k : k <= Len(bars) /\ HeldThrough(bars, m, d, k) /\ k \in Nat => HeldThrough(more, m, d, k)
      BY <1>1, BarsGrow
    <2>4. \A t, k : k \in Nat /\ k <= Len(bars) /\ TradeOK(t, bars, m, k) => TradeOK(t, more, m, k)
      BY <1>1, BarsGrow
    <2>5. \A d, c : d \in 1..Len(bars) /\ d < Len(bars) =>
            StopFor(more, d, c) = StopFor(bars, d, c) /\ TargetFor(more, d, c) = TargetFor(bars, d, c)
      BY <1>1, BarsGrow
    <2> QED BY ONLY <1>1, <2>1, <2>2, <2>3, <2>4, <2>5, n = Len(bars)
  <1>3. ASSUME account.pending # 0
        PROVE  account.pending = n /\ Eligible(more, n) /\ account.position = NoPosition
    <2>1. account.pending = n /\ Eligible(bars, n) /\ account.position = NoPosition
      BY <1>3 DEF AccountOK
    <2>2. n \in 1..n
      BY <1>1, <1>3, <2>1
    <2> QED BY <1>2, <2>1, <2>2
  <1>4. ASSUME account.position # NoPosition
        PROVE  /\ HeldThrough(more, m, account.position.decided, n)
               /\ account.position.stop = StopFor(more, account.position.decided, Cost(m))
               /\ account.position.target = TargetFor(more, account.position.decided, Cost(m))
               /\ \A t \in account.trades : t.exit <= account.position.decided
    <2>1. /\ HeldThrough(bars, m, account.position.decided, n)
          /\ account.position.stop = StopFor(bars, account.position.decided, Cost(m))
          /\ account.position.target = TargetFor(bars, account.position.decided, Cost(m))
          /\ \A t \in account.trades : t.exit <= account.position.decided
      BY <1>4 DEF AccountOK
    <2>2. account.position.decided \in 1..n /\ account.position.decided < n
      BY <2>1 DEF HeldThrough
    <2> QED BY <1>2, <2>1, <2>2
  <1>5. ASSUME NEW d \in 1..n, Eligible(more, d) PROVE Resolved(account, more, d)
    <2>1. Resolved(account, bars, d)
      BY <1>2, <1>5 DEF AccountOK
    <2> QED BY <1>2, <2>1 DEF Resolved
  <1>6. /\ account \in Account /\ \A t \in account.trades : TradeOK(t, more, m, n)
        /\ \A t, u \in account.trades : t.decided < u.decided => t.exit <= u.decided
    BY <1>2 DEF AccountOK
  <1> QED BY <1>3, <1>4, <1>5, <1>6 DEF AccountOK

\* A gap cancels what waits.
LEMMA GapHolds ==
  ASSUME NEW bars \in Seq(Hourly), NEW n \in Nat, Len(bars) = n + 1, NEW m \in Multipliers, NEW account,
         AccountOK(account, bars, m, n, n), NEW bar, bar.gap = bars[n + 1].gap
  PROVE  /\ AccountOK(AtGap(account, bar), bars, m, n, n)
         /\ bars[n + 1].gap => AtGap(account, bar).pending = 0
  <1>1. CASE ~bar.gap
    BY <1>1 DEF AtGap
  <1>2. CASE bar.gap
    <2> PICK next : next = [account EXCEPT !.pending = 0]
      OBVIOUS
    <2>1. account \in Account
      BY DEF AccountOK
    <2>2. /\ next \in Account /\ next.pending = 0 /\ next.position = account.position
          /\ next.trades = account.trades /\ next.refused = account.refused
      BY <2>1 DEF Account
    <2>3. ASSUME NEW d \in 1..n, Eligible(bars, d) PROVE Resolved(next, bars, d)
      <3>1. Resolved(account, bars, d)
        BY <2>3 DEF AccountOK
      <3>2. ASSUME account.pending = d PROVE d < Len(bars) /\ bars[d + 1].gap
        <4>1. d \in Nat /\ d # 0 /\ account.pending # 0
          BY <3>2
        <4>2. account.pending = n
          BY <4>1 DEF AccountOK
        <4>3. d = n /\ bars[n + 1].gap
          BY <1>2, <3>2, <4>2
        <4>4. n < Len(bars)
          OBVIOUS
        <4> QED BY <4>3, <4>4
      <3> QED BY <2>2, <3>1, <3>2 DEF Resolved
    <2>4. AccountOK(next, bars, m, n, n)
      BY <2>2, <2>3 DEF AccountOK
    <2>5. AtGap(account, bar) = next
      BY <1>2 DEF AtGap
    <2> QED BY <2>2, <2>4, <2>5
  <1> QED BY <1>1, <1>2

LEMMA QuantityIsInt ==
  ASSUME NEW account, account.cash \in Int, NEW entry \in Int, NEW risk \in Nat, risk > 0,
         NEW m \in Multipliers, entry - StopR * risk > 0
  PROVE  Quantity(account, entry, risk, m) \in Int
  <1> PICK x \in Nat : x = StopR * risk
    BY ScaledIsNat
  <1> PICK c \in Nat : c = Cost(m)
    BY CostIs
  <1>1. entry > 0
    BY entry - x > 0
  <1>2. x > 0
    BY ReplayConstants
  <1>3. PICK z \in Nat : z = 4 * entry /\ z > 0
    BY <1>1
  <1>4. PICK y \in Nat : y = x + c /\ y > 0
    BY <1>2
  <1>5. account.cash \div z \in Int /\ RiskBudget \div y \in Int
    BY <1>3, <1>4, ReplayConstants
  <1> PICK a \in Int : a = account.cash \div z
    BY <1>5
  <1> PICK b \in Int : b = RiskBudget \div y
    BY <1>5
  <1>6. Quantity(account, entry, risk, m) = Min({a, b})
    BY <1>3, <1>4 DEF Quantity
  <1> QED BY <1>6, LeastOfTwo

\* What waits is refused or becomes the position.
LEMMA OpenHolds ==
  ASSUME NEW bars \in Seq(Hourly), NEW n \in Nat, Len(bars) = n + 1, NEW m \in Multipliers, NEW account,
         AccountOK(account, bars, m, n, n), bars[n + 1].gap => account.pending = 0,
         NEW bar, bar.open = bars[n + 1].open, n > 0 => series[n].risk = bars[n].risk
  PROVE  AccountOK(AtOpen(account, bar, m), bars, m, n, n) /\ AtOpen(account, bar, m).pending = 0
  <1>1. account \in Account
    BY DEF AccountOK
  <1>2. CASE account.pending = 0
    BY <1>2 DEF AtOpen
  <1>3. CASE account.pending # 0
    <2>1. /\ account.pending = n /\ Eligible(bars, n) /\ account.position = NoPosition
          /\ n > 0 /\ n \in 1..Len(bars) /\ n < Len(bars) /\ ~bars[n + 1].gap
      <3>1. account.pending = n /\ Eligible(bars, n) /\ account.position = NoPosition
        BY <1>3 DEF AccountOK
      <3> QED BY <1>3, <3>1
    <2> PICK risk : risk = bars[n].risk
      OBVIOUS
    <2> PICK entry : entry = bar.open + Cost(m)
      OBVIOUS
    <2> PICK quantity : quantity = Quantity(account, entry, risk, m)
      OBVIOUS
    <2>2. series[account.pending].risk = risk
      BY <2>1
    <2>3. \A t \in account.trades : t.exit <= n
      BY DEF AccountOK, TradeOK
    <2>4. CASE Refuses(account, entry, risk, m)
      <3> PICK next : next = [account EXCEPT !.pending = 0, !.refused = @ \cup {n}]
        OBVIOUS
      <3>1. AtOpen(account, bar, m) = next
        BY <1>3, <2>1, <2>2, <2>4 DEF AtOpen
      <3>2. /\ next \in Account /\ next.pending = 0 /\ next.position = account.position
            /\ next.trades = account.trades /\ next.refused = account.refused \cup {n}
        BY <1>1 DEF Account
      <3>3. ASSUME NEW d \in 1..n, Eligible(bars, d) PROVE Resolved(next, bars, d)
        <4>1. Resolved(account, bars, d)
          BY <3>3 DEF AccountOK
        <4> QED BY <2>1, <3>2, <4>1 DEF Resolved
      <3>4. AccountOK(next, bars, m, n, n)
        BY <3>2, <3>3 DEF AccountOK
      <3> QED BY <3>1, <3>2, <3>4
    <2>5. CASE ~Refuses(account, entry, risk, m)
      <3>1. /\ entry \in Int /\ StopR * risk \in Nat /\ TargetR * risk \in Nat /\ Cost(m) \in Nat
            /\ risk \in Nat
        <4>1. n + 1 \in 1..Len(bars)
          OBVIOUS
        <4>2. bar.open \in Nat
          BY <4>1, BarFacts
        <4>3. Cost(m) \in Nat
          BY CostIs
        <4>4. risk \in Nat /\ StopR * risk \in Nat /\ TargetR * risk \in Nat
          <5>1. bars[n].risk \in Nat /\ StopR * bars[n].risk \in Nat /\ TargetR * bars[n].risk \in Nat
            BY <2>1, BarFacts
          <5> QED BY <5>1
        <4>5. entry \in Int
          BY <4>2, <4>3
        <4> QED BY <4>3, <4>4, <4>5
      <3>2. entry - StopR * risk > 0 /\ entry - StopR * risk \in Int
        <4>1. ~(entry - StopR * risk <= 0)
          BY <2>5 DEF Refuses
        <4> QED BY <3>1, <4>1
      <3>3. quantity \in Int /\ entry * quantity \in Int
        <4>1. account.cash \in Int
          BY <1>1 DEF Account
        <4>2. risk > 0
          BY <2>1 DEF Eligible
        <4>3. quantity \in Int
          BY <3>1, <3>2, <4>1, <4>2, QuantityIsInt
        <4> QED BY <3>1, <4>3
      <3>4. entry - StopR * risk = StopFor(bars, n, Cost(m)) /\ entry + TargetR * risk = TargetFor(bars, n, Cost(m))
        <4>1. entry = bars[n + 1].open + Cost(m) /\ risk = bars[n].risk
          OBVIOUS
        <4>2. /\ StopFor(bars, n, Cost(m)) = bars[n + 1].open + Cost(m) - StopR * bars[n].risk
              /\ TargetFor(bars, n, Cost(m)) = bars[n + 1].open + Cost(m) + TargetR * bars[n].risk
          BY DEF StopFor, TargetFor
        <4> PICK s : s = StopFor(bars, n, Cost(m))
          OBVIOUS
        <4> PICK t : t = TargetFor(bars, n, Cost(m))
          OBVIOUS
        <4>3. s = entry - StopR * risk
          <5> PICK o \in Nat : o = bars[n + 1].open
            <6>1. n + 1 \in 1..Len(bars)
              OBVIOUS
            <6> QED BY <6>1, BarFacts
          <5> PICK c \in Nat : c = Cost(m)
            BY CostIs
          <5> PICK x \in Nat : x = StopR * risk
            BY <3>1
          <5>1. s = bars[n + 1].open + Cost(m) - StopR * risk
            BY ONLY <4>1, <4>2, s = StopFor(bars, n, Cost(m))
          <5>2. s = o + c - x
            BY <5>1
          <5>3. entry = o + c
            BY <4>1
          <5> QED BY <5>2, <5>3
        <4>4. t = entry + TargetR * risk
          BY ONLY <4>1, <4>2, t = TargetFor(bars, n, Cost(m))
        <4> QED BY <4>3, <4>4
      <3> PICK stop \in Int : stop = entry - StopR * risk
        BY <3>2
      <3> PICK target \in Int : target = entry + TargetR * risk
        BY <3>1
      <3> PICK paid \in Int : paid = quantity * entry
        BY <3>1, <3>3
      <3> PICK position : position = [decided |-> n, quantity |-> quantity, stop |-> stop, target |-> target]
        OBVIOUS
      <3> PICK next : next = [account EXCEPT !.pending = 0, !.cash = @ - paid, !.position = position]
        OBVIOUS
      <3>5. AtOpen(account, bar, m) = next
        BY <1>3, <2>1, <2>2, <2>5 DEF AtOpen
      <3>6. position \in Positions /\ position.decided = n /\ position.stop = stop /\ position.target = target
        BY <2>1, <3>3 DEF Positions
      <3>7. /\ next \in Account /\ next.pending = 0 /\ next.position = position
            /\ next.trades = account.trades /\ next.refused = account.refused
        <4>1. /\ account.cash \in Int /\ account.trades \in SUBSET [decided : Nat, exit : Nat, how : Hows]
              /\ account.refused \in SUBSET Nat
              /\ account = [pending |-> account.pending, position |-> account.position, cash |-> account.cash,
                            trades |-> account.trades, refused |-> account.refused]
          BY <1>1 DEF Account
        <4>2. PICK cash \in Int : cash = account.cash - paid
          BY <4>1
        <4>3. next = [pending |-> 0, position |-> position, cash |-> cash, trades |-> account.trades,
                      refused |-> account.refused]
          BY <4>1, <4>2
        <4>4. next \in Account
          <5> PICK refused \in SUBSET Nat : refused = account.refused
            BY <4>1
          <5> PICK trades \in SUBSET [decided : Nat, exit : Nat, how : Hows] : trades = account.trades
            BY <4>1
          <5>1. next = [pending |-> 0, position |-> position, cash |-> cash, trades |-> trades, refused |-> refused]
            BY <4>3
          <5>2. 0 \in Nat /\ position \in Positions
            BY <3>6
          <5>3. [pending |-> 0, position |-> position, cash |-> cash, trades |-> trades, refused |-> refused] \in Account
            BY <5>2 DEF Account
          <5> QED BY <5>1, <5>3
        <4> QED BY <4>3, <4>4
      <3>8. HeldThrough(bars, m, n, n)
        <4>1. \A i : i \notin (n + 1)..n
          OBVIOUS
        <4> QED BY <2>1, <3>2, <3>4, <4>1 DEF HeldThrough
      <3>9. position # NoPosition
        <4>1. position.decided # NoPosition.decided
          BY <2>1, <3>6 DEF NoPosition
        <4> QED BY <4>1
      <3>10. ASSUME NEW d \in 1..n, Eligible(bars, d) PROVE Resolved(next, bars, d)
        <4>1. Resolved(account, bars, d)
          BY <3>10 DEF AccountOK
        <4>2. CASE d = n
          <5>1. next.position # NoPosition /\ next.position.decided <= d
            BY <3>6, <3>7, <3>9, <4>2
          <5> QED BY <5>1 DEF Resolved
        <4>3. CASE d # n
          <5>1. account.pending # d
            BY <2>1, <4>3
          <5> QED BY <2>1, <3>7, <4>1, <5>1 DEF Resolved
        <4> QED BY <4>2, <4>3
      <3>11. AccountOK(next, bars, m, n, n)
        <4>1. /\ HeldThrough(bars, m, next.position.decided, n)
              /\ next.position.stop = StopFor(bars, next.position.decided, Cost(m))
              /\ next.position.target = TargetFor(bars, next.position.decided, Cost(m))
              /\ \A t \in next.trades : t.exit <= next.position.decided
          <5>1. stop = StopFor(bars, n, Cost(m)) /\ target = TargetFor(bars, n, Cost(m))
            BY <3>4
          <5> QED BY <2>3, <3>6, <3>7, <3>8, <5>1
        <4>2. /\ \A t \in next.trades : TradeOK(t, bars, m, n)
              /\ \A t, u \in next.trades : t.decided < u.decided => t.exit <= u.decided
          BY <3>7 DEF AccountOK
        <4> QED BY <3>7, <3>10, <4>1, <4>2 DEF AccountOK
      <3> QED BY <3>5, <3>7, <3>11
    <2> QED BY <2>4, <2>5
  <1> QED BY <1>2, <1>3

LEMMA LeavesAlike ==
  ASSUME NEW p, NEW q, NEW bar, NEW other, NEW j,
         p.decided = q.decided, p.stop = q.stop, p.target = q.target,
         bar.gap = other.gap, bar.open = other.open, bar.low = other.low, bar.high = other.high,
         bar.close = other.close
  PROVE  Leaves(p, bar, j) = Leaves(q, other, j)
  BY DEF Leaves

\* What is held goes on, or becomes a trade.
LEMMA CloseHolds ==
  ASSUME NEW bars \in Seq(Hourly), NEW n \in Nat, Len(bars) = n + 1, NEW m \in Multipliers, NEW account,
         AccountOK(account, bars, m, n, n), account.pending = 0,
         NEW bar, bar.gap = bars[n + 1].gap, bar.open = bars[n + 1].open, bar.low = bars[n + 1].low,
         bar.high = bars[n + 1].high, bar.close = bars[n + 1].close
  PROVE  /\ AccountOK(AtClose(account, bar, n + 1, m), bars, m, n + 1, n)
         /\ AtClose(account, bar, n + 1, m).pending = 0
  <1>1. account \in Account
    BY DEF AccountOK
  <1>2. \A t \in account.trades : TradeOK(t, bars, m, n + 1) /\ t.decided < t.exit /\ t.exit <= n /\ t.decided \in Nat
    <2>1. \A t \in account.trades : TradeOK(t, bars, m, n) /\ t.decided \in Nat
      BY <1>1 DEF AccountOK, Account
    <2> QED BY <2>1 DEF TradeOK
  <1>3. ASSUME account.position # NoPosition =>
                 HeldThrough(bars, m, account.position.decided, n + 1)
        PROVE  AccountOK(account, bars, m, n + 1, n)
    BY <1>1, <1>2, <1>3 DEF AccountOK
  <1>4. CASE account.position = NoPosition
    <2>1. AtClose(account, bar, n + 1, m) = account
      BY <1>4 DEF AtClose
    <2> QED BY <1>3, <1>4, <2>1
  <1>5. CASE account.position # NoPosition
    <2> PICK p : p = account.position
      OBVIOUS
    <2> PICK d : d = p.decided
      OBVIOUS
    <2>1. /\ HeldThrough(bars, m, d, n) /\ p.stop = StopFor(bars, d, Cost(m))
          /\ p.target = TargetFor(bars, d, Cost(m)) /\ \A t \in account.trades : t.exit <= d
      BY <1>5 DEF AccountOK
    <2>2. d \in 1..Len(bars) /\ d < Len(bars) /\ d \in Nat /\ d <= n /\ n + 1 \in (d + 1)..(n + 1)
      BY <2>1 DEF HeldThrough
    <2> PICK stake : stake = Stake(bars, m, d)
      OBVIOUS
    <2>3. /\ stake.decided = d /\ stake.stop = p.stop /\ stake.target = p.target
          /\ stake.stop \in Int /\ stake.target \in Int
      BY <2>1, <2>2, StakeFacts
    <2> PICK leaving : leaving = Leaves(stake, bars[n + 1], n + 1)
      OBVIOUS
    <2>4. Leaves(p, bar, n + 1) = leaving
      BY <2>3, LeavesAlike
    <2>5. leaving \subseteq Hows
      <3>1. n + 1 \in 1..Len(bars)
        OBVIOUS
      <3> QED BY <2>2, <3>1, StakeLeaves
    <2>6. CASE leaving = {}
      <3>1. AtClose(account, bar, n + 1, m) = account
        BY <1>5, <2>4, <2>6 DEF AtClose
      <3>2. HeldThrough(bars, m, d, n + 1)
        <4>1. \A i \in (d + 1)..(n + 1) : i \in (d + 1)..n \/ i = n + 1
          BY <2>2
        <4>2. ASSUME NEW i \in (d + 1)..(n + 1) PROVE Leaves(Stake(bars, m, d), bars[i], i) = {}
          <5>1. CASE i \in (d + 1)..n
            BY <2>1, <5>1 DEF HeldThrough
          <5>2. CASE i = n + 1
            BY <2>6, <5>2
          <5> QED BY <4>1, <5>1, <5>2
        <4> QED BY <2>1, <4>2 DEF HeldThrough
      <3> QED BY <1>3, <3>1, <3>2
    <2>7. CASE leaving # {}
      <3> PICK how : how = CHOOSE x \in leaving : TRUE
        OBVIOUS
      <3>1. how \in leaving /\ how \in Hows /\ how[2] \in Int
        <4>1. how \in leaving
          BY <2>7
        <4> QED BY <2>5, <4>1 DEF Hows
      <3> PICK paid \in Int : paid = p.quantity * (how[2] - Cost(m))
        <4>1. p.quantity \in Int
          <5>1. p \in Positions /\ p # NoPosition
            BY <1>1, <1>5 DEF Account
          <5> QED BY <5>1 DEF Positions
        <4>2. PICK c \in Nat : c = Cost(m)
          BY CostIs
        <4>3. PICK w \in Int : w = how[2]
          BY <3>1
        <4>4. PICK gain \in Int : gain = w - c
          OBVIOUS
        <4>5. PICK q \in Int : q = p.quantity
          BY <4>1
        <4>6. PICK paid \in Int : paid = q * gain
          OBVIOUS
        <4>7. paid = p.quantity * (how[2] - Cost(m))
          BY <4>2, <4>3, <4>4, <4>5, <4>6
        <4> QED BY <4>7
      <3> PICK trade : trade = [decided |-> d, exit |-> n + 1, how |-> how]
        OBVIOUS
      <3>2. trade.decided = d /\ trade.exit = n + 1 /\ trade.how = how
            /\ trade \in [decided : Nat, exit : Nat, how : Hows]
        BY <2>2, <3>1
      <3> PICK next : next = [account EXCEPT !.position = NoPosition, !.cash = @ + paid,
                                             !.trades = @ \cup {trade}]
        OBVIOUS
      <3>3. AtClose(account, bar, n + 1, m) = next
        BY <1>5, <2>4, <2>7 DEF AtClose
      <3>4. /\ next \in Account /\ next.pending = 0 /\ next.position = NoPosition
            /\ next.trades = account.trades \cup {trade} /\ next.refused = account.refused
        <4>1. /\ account.cash \in Int /\ account.trades \in SUBSET [decided : Nat, exit : Nat, how : Hows]
              /\ account.refused \in SUBSET Nat
              /\ account = [pending |-> account.pending, position |-> account.position, cash |-> account.cash,
                            trades |-> account.trades, refused |-> account.refused]
          BY <1>1 DEF Account
        <4>2. PICK cash \in Int : cash = account.cash + paid
          <5>1. PICK w \in Int : w = account.cash
            BY <4>1
          <5>2. w + paid \in Int
            OBVIOUS
          <5> QED BY <5>1, <5>2
        <4>3. next = [pending |-> 0, position |-> NoPosition, cash |-> cash,
                      trades |-> account.trades \cup {trade}, refused |-> account.refused]
          BY <4>1, <4>2
        <4>4. NoPosition \in Positions /\ account.trades \cup {trade} \in SUBSET [decided : Nat, exit : Nat, how : Hows]
          BY <3>2, <4>1 DEF Positions
        <4> PICK trades \in SUBSET [decided : Nat, exit : Nat, how : Hows] : trades = account.trades \cup {trade}
          BY <4>4
        <4>5. next = [pending |-> 0, position |-> NoPosition, cash |-> cash, trades |-> trades,
                      refused |-> account.refused]
          BY <4>3
        <4>6. next \in Account
          <5> PICK refused \in SUBSET Nat : refused = account.refused
            BY <4>1
          <5>1. next = [pending |-> 0, position |-> NoPosition, cash |-> cash, trades |-> trades,
                        refused |-> refused]
            BY <4>5
          <5>2. 0 \in Nat /\ NoPosition \in Positions
            BY <4>4
          <5>3. [pending |-> 0, position |-> NoPosition, cash |-> cash, trades |-> trades, refused |-> refused] \in Account
            BY <5>2 DEF Account
          <5> QED BY <5>1, <5>3
        <4> QED BY <4>5, <4>6
      <3>5. TradeOK(trade, bars, m, n + 1)
        <4>1. trade.exit - 1 = n
          BY <3>2
        <4> QED BY <2>1, <2>2, <3>1, <3>2, <4>1 DEF TradeOK
      <3>6. \A t \in next.trades : TradeOK(t, bars, m, n + 1)
        BY <1>2, <3>4, <3>5
      <3>7. ASSUME NEW t \in next.trades, NEW u \in next.trades, t.decided < u.decided
            PROVE  t.exit <= u.decided
        <4>1. \/ t \in account.trades /\ u \in account.trades
              \/ t \in account.trades /\ u = trade
              \/ t = trade /\ u \in account.trades
              \/ t = trade /\ u = trade
          BY <3>4, <3>7
        <4>2. CASE t \in account.trades /\ u \in account.trades
          BY <3>7, <4>2 DEF AccountOK
        <4>3. CASE t \in account.trades /\ u = trade
          BY <2>1, <3>2, <4>3
        <4>4. CASE t = trade /\ u \in account.trades
          <5>1. u.decided < u.exit /\ u.exit <= d /\ d < u.decided /\ u.decided \in Nat /\ u.exit <= n
            BY <1>2, <2>1, <3>2, <3>7, <4>4
          <5>2. u.exit \in Nat
            BY <1>1, <4>4 DEF Account
          <5> QED BY <2>2, <5>1, <5>2
        <4>5. CASE t = trade /\ u = trade
          BY <2>2, <3>2, <3>7, <4>5
        <4> QED BY <4>1, <4>2, <4>3, <4>4, <4>5
      <3>8. ASSUME NEW k \in 1..n, Eligible(bars, k) PROVE Resolved(next, bars, k)
        <4>1. Resolved(account, bars, k)
          BY <3>8 DEF AccountOK
        <4>2. account.pending # k /\ k < n + 1
          OBVIOUS
        <4>3. CASE account.position.decided <= k
          BY <3>2, <3>4, <4>2, <4>3 DEF Resolved
        <4>4. CASE ~(account.position.decided <= k)
          BY <3>4, <4>1, <4>2, <4>4 DEF Resolved
        <4> QED BY <4>3, <4>4
      <3>9. AccountOK(next, bars, m, n + 1, n)
        BY <3>4, <3>6, <3>7, <3>8 DEF AccountOK
      <3> QED BY <3>3, <3>4, <3>9
    <2> QED BY <2>6, <2>7
  <1> QED BY <1>4, <1>5

\* A decision waits, or finds the account busy.
LEMMA DecideHolds ==
  ASSUME NEW bars \in Seq(Hourly), NEW n \in Nat, Len(bars) = n, n > 0, NEW m \in Multipliers, NEW account,
         AccountOK(account, bars, m, n, n - 1), account.pending = 0
  PROVE  AccountOK(Decide(account, bars, n), bars, m, n, n)
  <1>1. account \in Account
    BY DEF AccountOK
  <1>2. \A d \in 1..n : d \in 1..(n - 1) \/ d = n
    OBVIOUS
  <1>3. CASE ~Eligible(bars, n) \/ account.position # NoPosition
    <2>1. Decide(account, bars, n) = account
      BY <1>3 DEF Decide
    <2>2. ASSUME NEW d \in 1..n, Eligible(bars, d) PROVE Resolved(account, bars, d)
      <3>1. CASE d \in 1..(n - 1)
        BY <2>2, <3>1 DEF AccountOK
      <3>2. CASE d = n
        <4>1. account.position # NoPosition
          BY <1>3, <2>2, <3>2
        <4>2. account.position.decided \in 1..Len(bars)
          BY <4>1 DEF AccountOK, HeldThrough
        <4>3. account.position.decided <= d
          BY <3>2, <4>2
        <4> QED BY <4>1, <4>3 DEF Resolved
      <3> QED BY <1>2, <3>1, <3>2
    <2>3. AccountOK(account, bars, m, n, n)
      BY <2>2 DEF AccountOK
    <2> QED BY <2>1, <2>3
  <1>4. CASE Eligible(bars, n) /\ account.position = NoPosition
    <2> PICK next : next = [account EXCEPT !.pending = n]
      OBVIOUS
    <2>1. Decide(account, bars, n) = next
      BY <1>4 DEF Decide
    <2>2. /\ next \in Account /\ next.pending = n /\ next.position = account.position
          /\ next.trades = account.trades /\ next.refused = account.refused
      BY <1>1 DEF Account
    <2>3. ASSUME NEW d \in 1..n, Eligible(bars, d) PROVE Resolved(next, bars, d)
      <3>1. CASE d \in 1..(n - 1)
        <4>1. Resolved(account, bars, d)
          BY <2>3, <3>1 DEF AccountOK
        <4>2. account.pending # d
          OBVIOUS
        <4> QED BY <2>2, <4>1, <4>2 DEF Resolved
      <3>2. CASE d = n
        BY <2>2, <3>2 DEF Resolved
      <3> QED BY <1>2, <3>1, <3>2
    <2>4. AccountOK(next, bars, m, n, n)
      BY <1>4, <2>2, <2>3 DEF AccountOK
    <2> QED BY <2>1, <2>4
  <1> QED BY <1>3, <1>4

LEMMA ReplayStarts ==
  ASSUME ReplayInit
  PROVE  ReplayInv
  <1>1. series \in Seq(Hourly) /\ Len(series) = 0
    BY DEF ReplayInit
  <1>2. ASSUME NEW m \in Multipliers PROVE AccountOK(books[m], series, m, Len(series), Len(series))
    <2> PICK account : account = books[m]
      OBVIOUS
    <2>1. account = [pending |-> 0, position |-> NoPosition, cash |-> InitialCash, trades |-> {}, refused |-> {}]
      BY DEF ReplayInit
    <2>2. /\ account \in Account /\ account.pending = 0 /\ account.position = NoPosition /\ account.trades = {}
      BY <2>1, ReplayConstants DEF Account, Positions
    <2>3. \A d : d \notin 1..Len(series)
      BY <1>1
    <2> QED BY <2>2, <2>3 DEF AccountOK
  <1> QED BY <1>1, <1>2 DEF ReplayInv

LEMMA PushHolds ==
  ASSUME ReplayInv, NEW bar \in Bars, NEW risk \in Risks, PushBar(bar, risk)
  PROVE  ReplayInv'
  <1> PICK row : row = [open |-> bar.open, high |-> bar.high, low |-> bar.low, close |-> bar.close,
                        gap |-> bar.gap, risk |-> risk]
    OBVIOUS
  <1> PICK grown : grown = Append(series, row)
    OBVIOUS
  <1> PICK n : n = Len(series)
    OBVIOUS
  <1>1. row \in Hourly /\ series \in Seq(Hourly)
    <2>1. bar \in HourBar /\ risk \in Nat
      BY ReplayConstants
    <2> QED BY <2>1 DEF HourBar, Hourly, ReplayInv
  <1>2. /\ grown \in Seq(Hourly) /\ n \in Nat /\ Len(grown) = n + 1 /\ n + 1 > 0
        /\ \A i \in 1..n : grown[i] = series[i]
        /\ grown[n + 1] = row
    BY <1>1, AppendProperties, LenProperties
  <1>3. /\ series' = grown
        /\ books' = [m \in Multipliers |->
                     Decide(AtClose(AtOpen(AtGap(books[m], bar), bar, m), bar, Len(grown), m), grown, Len(grown))]
    BY DEF PushBar
  <1>4. ASSUME NEW m \in Multipliers PROVE AccountOK(books'[m], grown, m, n + 1, n + 1)
    <2> PICK before : before = books[m]
      OBVIOUS
    <2> PICK passed : passed = AtGap(before, bar)
      OBVIOUS
    <2> PICK opened : opened = AtOpen(passed, bar, m)
      OBVIOUS
    <2> PICK closed : closed = AtClose(opened, bar, n + 1, m)
      OBVIOUS
    <2>1. AccountOK(before, series, m, Len(series), Len(series))
      BY DEF ReplayInv
    <2>2. AccountOK(before, grown, m, Len(series), Len(series))
      BY <1>1, <1>2, <2>1, AccountGrows
    <2>3. AccountOK(before, grown, m, n, n)
      BY <2>2
    <2>4. /\ bar.gap = grown[n + 1].gap /\ bar.open = grown[n + 1].open /\ bar.low = grown[n + 1].low
          /\ bar.high = grown[n + 1].high /\ bar.close = grown[n + 1].close
      BY <1>2
    <2>5. AccountOK(passed, grown, m, n, n) /\ (grown[n + 1].gap => passed.pending = 0)
      <3>1. AccountOK(AtGap(before, bar), grown, m, n, n) /\ (grown[n + 1].gap => AtGap(before, bar).pending = 0)
        BY ONLY <1>2, <2>3, <2>4, m \in Multipliers, GapHolds
      <3> QED BY <3>1
    <2>6. n > 0 => series[n].risk = grown[n].risk
      <3>1. n > 0 => n \in 1..n
        BY <1>2
      <3> QED BY <1>2, <3>1
    <2>7. AccountOK(opened, grown, m, n, n) /\ opened.pending = 0
      <3>1. AccountOK(AtOpen(passed, bar, m), grown, m, n, n) /\ AtOpen(passed, bar, m).pending = 0
        BY ONLY <1>2, <2>4, <2>5, <2>6, m \in Multipliers, OpenHolds
      <3> QED BY <3>1
    <2>8. AccountOK(closed, grown, m, n + 1, n) /\ closed.pending = 0
      <3>1. /\ AccountOK(AtClose(opened, bar, n + 1, m), grown, m, n + 1, n)
            /\ AtClose(opened, bar, n + 1, m).pending = 0
        BY ONLY <1>2, <2>4, <2>7, m \in Multipliers, CloseHolds
      <3> QED BY <3>1
    <2>9. n + 1 \in Nat /\ (n + 1) - 1 = n
      BY <1>2
    <2>10. AccountOK(Decide(closed, grown, n + 1), grown, m, n + 1, n + 1)
      <3> PICK k : k = n + 1
        OBVIOUS
      <3>1. k \in Nat /\ k > 0 /\ Len(grown) = k /\ AccountOK(closed, grown, m, k, k - 1)
        BY <1>2, <2>8, <2>9
      <3>2. AccountOK(Decide(closed, grown, k), grown, m, k, k)
        BY <1>2, <2>8, <3>1, DecideHolds
      <3> QED BY <3>2
    <2>11. books'[m] = Decide(closed, grown, n + 1)
      BY <1>2, <1>3
    <2> QED BY <2>10, <2>11
  <1> QED BY <1>2, <1>3, <1>4 DEF ReplayInv

-----------------------------------------------------------------------------
(* The trades of the accounts and the scores of the audit.                 *)

LEMMA EndsOnce ==
  ASSUME NEW bars \in Seq(Hourly), NEW d \in 1..Len(bars), d < Len(bars), NEW j \in 1..Len(bars)
  PROVE  /\ Ends(bars, d, j) = {} <=>
              /\ bars[j].low > StopFor(bars, d, 0) /\ j # d + MaximumBars
              /\ bars[j].high < TargetFor(bars, d, 0)
         /\ \A x \in Ends(bars, d, j) :
              /\ x[1] = "stop" <=> bars[j].low <= StopFor(bars, d, 0)
              /\ x[1] = "target" <=> /\ bars[j].low > StopFor(bars, d, 0) /\ j # d + MaximumBars
                                     /\ bars[j].high >= TargetFor(bars, d, 0)
  <1> PICK b : b = bars[j]
    OBVIOUS
  <1> PICK ending : ending = Ends(bars, d, j)
    OBVIOUS
  <1>1. PICK stop \in Int : stop = StopFor(bars, d, 0)
    BY BarriersAre
  <1>2. PICK target \in Int : target = TargetFor(bars, d, 0)
    BY BarriersAre
  <1>3. b.open \in Nat /\ b.high \in Nat /\ b.low \in Nat /\ b.close \in Nat
    BY BarFacts
  <1>4. ending = IF b.low <= stop THEN {<<"stop", IF b.open < stop THEN b.open ELSE stop>>}
                 ELSE IF j = d + MaximumBars THEN {<<"expiry", b.close>>}
                 ELSE IF b.high >= target THEN {<<"target", target>>} ELSE {}
    BY <1>1, <1>2 DEF Ends, ExitOf
  <1> PICK least : least = IF b.open < stop THEN b.open ELSE stop
    OBVIOUS
  <1>5. CASE b.low <= stop
    <2>1. ending = {<<"stop", least>>}
      BY <1>4, <1>5
    <2>2. ending # {} /\ \A x \in ending : x[1] = "stop"
      BY <2>1
    <2>3. ~(b.low > stop)
      BY <1>3, <1>5
    <2> QED BY <1>1, <1>5, <2>2, <2>3
  <1>6. CASE b.low > stop /\ j = d + MaximumBars
    <2>1. ~(b.low <= stop)
      BY <1>3, <1>6
    <2>2. ending = {<<"expiry", b.close>>}
      BY <1>4, <1>6, <2>1
    <2>3. ending # {} /\ \A x \in ending : x[1] = "expiry"
      BY <2>2
    <2> QED BY <1>1, <1>6, <2>1, <2>3
  <1>7. CASE b.low > stop /\ j # d + MaximumBars /\ b.high >= target
    <2>1. ~(b.low <= stop) /\ ~(b.high < target)
      BY <1>3, <1>7
    <2>2. ending = {<<"target", target>>}
      BY <1>4, <1>7, <2>1
    <2>3. ending # {} /\ \A x \in ending : x[1] = "target"
      BY <2>2
    <2> QED BY <1>1, <1>2, <1>7, <2>1, <2>3
  <1>8. CASE b.low > stop /\ j # d + MaximumBars /\ b.high < target
    <2>1. ~(b.low <= stop) /\ ~(b.high >= target)
      BY <1>3, <1>8
    <2>2. ending = {}
      BY <1>4, <1>8, <2>1
    <2> QED BY <1>1, <1>2, <1>8, <2>2
  <1>9. (b.low <= stop \/ b.low > stop) /\ (b.high >= target \/ b.high < target)
    BY <1>3
  <1> QED BY <1>5, <1>6, <1>7, <1>8, <1>9

\* What a trade says of the bars that it was held for.
LEMMA TradeBars ==
  ASSUME NEW bars \in Seq(Hourly), NEW m \in Multipliers, NEW n \in Nat, NEW t, TradeOK(t, bars, m, n)
  PROVE  /\ t.decided \in 1..Len(bars) /\ t.decided < Len(bars) /\ Eligible(bars, t.decided)
         /\ ~bars[t.decided + 1].gap /\ StopFor(bars, t.decided, Cost(m)) > 0
         /\ t.exit \in (t.decided + 1)..Len(bars) /\ t.exit <= t.decided + MaximumBars
         /\ \A i \in (t.decided + 1)..(t.exit - 1) :
              /\ ~bars[i].gap /\ bars[i].low > StopFor(bars, t.decided, Cost(m))
              /\ i < t.decided + MaximumBars /\ bars[i].high < TargetFor(bars, t.decided, Cost(m))
         /\ t.how \in Hows
         /\ t.how[1] = "gap_liquidation" <=> bars[t.exit].gap
         /\ t.how[1] = "stop" <=> ~bars[t.exit].gap /\ bars[t.exit].low <= StopFor(bars, t.decided, Cost(m))
         /\ t.how[1] = "expiry" => t.exit >= t.decided + MaximumBars
         /\ t.how[1] = "target" => /\ bars[t.exit].low > StopFor(bars, t.decided, Cost(m))
                                   /\ t.exit < t.decided + MaximumBars
                                   /\ bars[t.exit].high >= TargetFor(bars, t.decided, Cost(m))
  <1> PICK d : d = t.decided
    OBVIOUS
  <1> PICK e : e = t.exit
    OBVIOUS
  <1> PICK stake : stake = Stake(bars, m, d)
    OBVIOUS
  <1>1. /\ d \in 1..Len(bars) /\ d < Len(bars) /\ Eligible(bars, d) /\ ~bars[d + 1].gap
        /\ StopFor(bars, d, Cost(m)) > 0
        /\ \A i \in (d + 1)..(e - 1) : Leaves(stake, bars[i], i) = {}
        /\ e \in (d + 1)..n /\ n <= Len(bars) /\ t.how \in Leaves(stake, bars[e], e)
    BY DEF TradeOK, HeldThrough
  <1>2. /\ Len(bars) \in Nat /\ d \in Nat /\ e \in (d + 1)..Len(bars) /\ e \in 1..Len(bars) /\ e \in Nat
        /\ \A i \in (d + 1)..(e - 1) : i \in 1..Len(bars) /\ i \in Nat
    BY <1>1, LenProperties
  <1>3. ASSUME NEW i \in (d + 1)..(e - 1)
        PROVE  /\ ~bars[i].gap /\ bars[i].low > StopFor(bars, d, Cost(m))
               /\ i < d + MaximumBars /\ bars[i].high < TargetFor(bars, d, Cost(m))
    <2>1. Leaves(Stake(bars, m, d), bars[i], i) = {} /\ i \in 1..Len(bars)
      BY <1>1, <1>2
    <2> QED BY <1>1, <2>1, StakeLeaves
  <1> PICK how : how = t.how
    OBVIOUS
  <1>4. how \in Leaves(Stake(bars, m, d), bars[e], e)
    BY <1>1
  <1>5. how \in Hows
    BY <1>1, <1>2, <1>4, StakeLeaves
  <1>6. how[1] = "stop" <=> ~bars[e].gap /\ bars[e].low <= StopFor(bars, d, Cost(m))
    BY <1>1, <1>2, <1>4, StakeLeaves
  <1>7. how[1] = "expiry" => e >= d + MaximumBars
    BY <1>1, <1>2, <1>4, StakeLeaves
  <1>8. how[1] = "target" => /\ bars[e].low > StopFor(bars, d, Cost(m)) /\ e < d + MaximumBars
                              /\ bars[e].high >= TargetFor(bars, d, Cost(m))
    BY <1>1, <1>2, <1>4, StakeLeaves
  <1>9. how[1] = "gap_liquidation" <=> bars[e].gap
    BY <1>1, <1>2, <1>4, StakeLeaves
  <1>10. e <= d + MaximumBars
    <2>1. MaximumBars \in Nat /\ MaximumBars > 0
      BY ReplayConstants
    <2>2. CASE e - 1 \in (d + 1)..(e - 1)
      <3>1. e - 1 < d + MaximumBars
        BY <1>3, <2>2
      <3> QED BY <1>2, <2>1, <3>1
    <2>3. CASE e - 1 \notin (d + 1)..(e - 1)
      <3>1. e = d + 1
        BY <1>2, <2>3
      <3> QED BY <1>2, <2>1, <3>1
    <2> QED BY <2>2, <2>3
  <1> QED BY <1>1, <1>2, <1>3, <1>5, <1>6, <1>7, <1>8, <1>9, <1>10

\* Any costs: what the audit makes of a decision that an account traded.
LEMMA DearerTrade ==
  ASSUME NEW bars \in Seq(Hourly), NEW m \in Multipliers, NEW n \in Nat, NEW t, TradeOK(t, bars, m, n)
  PROVE  LET o == Outcome(bars, t.decided)
         IN  /\ t.how[1] = "target" =>
                  IF o.scored THEN o.how[1] = "target" /\ o.exit <= t.exit ELSE o.reason = "invalid_risk"
             /\ o.scored /\ o.how[1] = "stop" => t.how[1] = "stop" /\ t.exit <= o.exit
             /\ t.how[1] = "expiry" => t.exit = t.decided + MaximumBars
  <1> PICK d : d = t.decided
    OBVIOUS
  <1> PICK e : e = t.exit
    OBVIOUS
  <1> PICK how : how = t.how
    OBVIOUS
  <1>1. /\ d \in 1..Len(bars) /\ d < Len(bars) /\ ~bars[d + 1].gap
        /\ e \in (d + 1)..Len(bars) /\ e <= d + MaximumBars /\ how \in Hows
    BY TradeBars
  <1>2. Len(bars) \in Nat /\ d \in Nat /\ e \in Nat /\ MaximumBars \in Nat /\ MaximumBars > 0
    BY <1>1, LenProperties, ReplayConstants
  <1>3. PICK c \in Nat : c = Cost(m)
    BY CostIs
  <1>4. PICK stop \in Int : stop = StopFor(bars, d, 0)
    BY <1>1, BarriersAre
  <1>5. PICK target \in Int : target = TargetFor(bars, d, 0)
    BY <1>1, BarriersAre
  <1>6. StopFor(bars, d, Cost(m)) = stop + c /\ TargetFor(bars, d, Cost(m)) = target + c
    BY <1>1, <1>3, <1>4, <1>5, BarriersAre
  <1>7. \A i \in (d + 1)..(e - 1) : /\ ~bars[i].gap /\ bars[i].low > stop + c
                                    /\ i < d + MaximumBars /\ bars[i].high < target + c
    <2>1. \A i \in (t.decided + 1)..(t.exit - 1) :
            /\ ~bars[i].gap /\ bars[i].low > StopFor(bars, t.decided, Cost(m))
            /\ i < t.decided + MaximumBars /\ bars[i].high < TargetFor(bars, t.decided, Cost(m))
      BY TradeBars
    <2> QED BY <1>6, <2>1
  <1>8. /\ how[1] = "gap_liquidation" <=> bars[e].gap
        /\ how[1] = "stop" <=> ~bars[e].gap /\ bars[e].low <= stop + c
        /\ how[1] = "expiry" => e >= d + MaximumBars
        /\ how[1] = "target" => bars[e].low > stop + c /\ e < d + MaximumBars /\ bars[e].high >= target + c
    <2>1. how[1] = "gap_liquidation" <=> bars[e].gap
      BY TradeBars
    <2>2. how[1] = "stop" <=> ~bars[e].gap /\ bars[e].low <= StopFor(bars, d, Cost(m))
      BY TradeBars
    <2>3. how[1] = "expiry" => e >= d + MaximumBars
      BY TradeBars
    <2>4. how[1] = "target" => /\ bars[e].low > StopFor(bars, d, Cost(m)) /\ e < d + MaximumBars
                               /\ bars[e].high >= TargetFor(bars, d, Cost(m))
      BY TradeBars
    <2> QED BY <1>6, <2>1, <2>2, <2>3, <2>4
  <1>9. \A i \in (d + 1)..e : i \in 1..Len(bars) /\ (i \in (d + 1)..(e - 1) \/ i = e)
    BY <1>1, <1>2
  <1>10. \A i \in 1..Len(bars) : bars[i].low \in Nat /\ bars[i].high \in Nat
    BY BarFacts
  <1> PICK o : o = Outcome(bars, d)
    OBVIOUS
  <1>11. ASSUME how[1] = "target"
         PROVE  IF o.scored THEN o.how[1] = "target" /\ o.exit <= e ELSE o.reason = "invalid_risk"
    <2>1. CASE stop <= 0
      <3>1. o = Unscored("invalid_risk")
        BY <1>1, <1>4, <2>1, OutcomeIs
      <3>2. o.scored = FALSE /\ o.reason = "invalid_risk"
        BY <3>1 DEF Unscored
      <3> QED BY <3>2
    <2>2. CASE stop > 0
      <3>1. /\ ~bars[e].gap /\ bars[e].low > stop + c /\ e < d + MaximumBars /\ bars[e].high >= target + c
        <4>1. "target" # "gap_liquidation"
          OBVIOUS
        <4> QED BY <1>8, <1>11, <4>1
      <3> DEFINE ended == {i \in (d + 1)..e : Ends(bars, d, i) # {}}
      <3>2. e \in ended
        <4>1. e \in (d + 1)..e /\ e \in 1..Len(bars)
          BY <1>1, <1>2
        <4>2. bars[e].high \in Nat
          BY <1>10, <4>1
        <4>3. ~(bars[e].high < target)
          BY <3>1, <4>2
        <4>4. Ends(bars, d, e) # {}
          BY <1>1, <1>5, <4>1, <4>3, EndsOnce
        <4> QED BY <4>1, <4>4
      <3>3. PICK j \in ended : \A i \in ended : j <= i
        <4>1. ended \subseteq Nat
          BY <1>2
        <4> HIDE DEF ended
        <4> QED BY <3>2, <4>1, LeastNatural
      <3>4. j \in (d + 1)..e /\ Ends(bars, d, j) # {} /\ j <= e /\ j \in Nat
        BY <1>2
      <3>5. \A i \in (d + 1)..(j - 1) : Ends(bars, d, i) = {}
        <4>1. \A i \in (d + 1)..(j - 1) : i \in (d + 1)..e /\ ~(j <= i)
          BY <1>2, <3>4
        <4> QED BY <3>3, <4>1
      <3> HIDE DEF ended
      <3>6. /\ j \in 1..Len(bars) /\ j < d + MaximumBars /\ bars[j].low > stop + c
            /\ j \in (d + 1)..Len(bars)
        <4>1. CASE j \in (d + 1)..(e - 1)
          <5>1. j \in 1..Len(bars) /\ j \in (d + 1)..Len(bars)
            BY <1>1, <1>2, <4>1
          <5> QED BY <1>7, <4>1, <5>1
        <4>2. CASE j = e
          BY <1>1, <1>2, <3>1, <4>2
        <4> QED BY <1>9, <3>4, <4>1, <4>2
      <3>7. \A i \in (d + 1)..j : ~bars[i].gap
        <4>1. \A i \in (d + 1)..j : i \in (d + 1)..(e - 1) \/ i = e
          BY <1>2, <3>4
        <4> QED BY <1>7, <3>1, <4>1
      <3>8. ScoredAt(bars, d, j)
        <4>1. j <= d + MaximumBars
          BY <1>2, <3>4, <3>6
        <4> QED BY <1>4, <2>2, <3>4, <3>5, <3>6, <3>7, <4>1 DEF ScoredAt
      <3>9. o.scored = TRUE /\ o.exit = j /\ o.how \in Ends(bars, d, j)
        <4>1. o = [scored |-> TRUE, exit |-> j, how |-> CHOOSE x \in Ends(bars, d, j) : TRUE]
          BY <1>1, <3>8, OutcomeIs
        <4> QED BY <3>4, <4>1
      <3>10. o.how[1] = "target"
        <4>1. bars[j].low \in Nat /\ bars[j].high \in Nat
          BY <1>10, <3>6
        <4>2. bars[j].low > stop /\ j # d + MaximumBars
          <5>1. bars[j].low > stop
            <6> PICK low \in Nat : low = bars[j].low
              BY <4>1
            <6>1. low > stop + c
              BY <3>6
            <6> QED BY <6>1
          <5>2. j # d + MaximumBars
            BY <1>2, <3>4, <3>6
          <5> QED BY <5>1, <5>2
        <4>3. Ends(bars, d, j) # {} => bars[j].high >= target
          <5>1. ~(bars[j].high >= target) => bars[j].high < target
            BY <4>1
          <5> QED BY <1>1, <1>4, <1>5, <3>6, <4>2, <5>1, EndsOnce
        <4> QED BY <1>1, <1>4, <1>5, <3>4, <3>6, <3>9, <4>2, <4>3, EndsOnce
      <3> QED BY <3>4, <3>9, <3>10
    <2> QED BY <2>1, <2>2
  <1>12. ASSUME o.scored, o.how[1] = "stop"
         PROVE  how[1] = "stop" /\ e <= o.exit
    <2> PICK x : x = o.exit
      OBVIOUS
    <2>1. ScoredAt(bars, d, x)
      BY <1>1, <1>12, OutcomeIs
    <2>2. /\ x \in (d + 1)..Len(bars) /\ x <= d + MaximumBars /\ \A i \in (d + 1)..x : ~bars[i].gap
          /\ Ends(bars, d, x) # {} /\ \A i \in (d + 1)..(x - 1) : Ends(bars, d, i) = {}
      BY <2>1 DEF ScoredAt
    <2>3. x \in 1..Len(bars) /\ x \in Nat
      BY <1>2, <2>2
    <2>4. o.how \in Ends(bars, d, x)
      <3>1. o = [scored |-> TRUE, exit |-> x, how |-> CHOOSE y \in Ends(bars, d, x) : TRUE]
        <4>1. \A y : ScoredAt(bars, d, y) =>
                Outcome(bars, d) = [scored |-> TRUE, exit |-> y, how |-> CHOOSE z \in Ends(bars, d, y) : TRUE]
          BY <1>1, OutcomeIs
        <4>2. Outcome(bars, d) = [scored |-> TRUE, exit |-> x, how |-> CHOOSE z \in Ends(bars, d, x) : TRUE]
          BY ONLY <2>1, <4>1
        <4> QED BY <4>2
      <3> QED BY <2>2, <3>1
    <2>5. bars[x].low <= stop /\ bars[x].low \in Nat
      BY <1>1, <1>4, <1>10, <1>12, <2>3, <2>4, EndsOnce
    <2>6. e <= x
      <3>1. ~(x \in (d + 1)..(e - 1))
        <4>1. ~(bars[x].low > stop + c)
          BY <2>5
        <4> QED BY <1>7, <4>1
      <3> QED BY <1>2, <2>2, <2>3, <3>1
    <2>7. how[1] = "stop"
      <3>1. ~bars[e].gap /\ e \in 1..Len(bars)
        <4>1. e \in (d + 1)..x
          BY <1>1, <1>2, <2>3, <2>6
        <4> QED BY <1>1, <1>2, <2>2, <4>1
      <3>2. CASE e = x
        <4>1. bars[e].low <= stop + c
          BY <2>5, <3>2
        <4> QED BY <1>8, <3>1, <4>1
      <3>3. CASE e # x
        <4>1. e \in (d + 1)..(x - 1) /\ e < x
          BY <1>1, <1>2, <2>3, <2>6, <3>3
        <4>2. Ends(bars, d, e) = {}
          BY <2>2, <4>1
        <4>3. e # d + MaximumBars /\ bars[e].high < target
          BY <1>1, <1>5, <3>1, <4>2, EndsOnce
        <4>4. ~(e >= d + MaximumBars) /\ ~(bars[e].high >= target + c)
          <5> PICK high \in Nat : high = bars[e].high
            BY <1>10, <3>1
          <5>1. high < target
            BY <4>3
          <5>2. ~(high >= target + c)
            BY <5>1
          <5>3. ~(e >= d + MaximumBars)
            BY <1>1, <1>2, <4>3
          <5> QED BY <5>2, <5>3
        <4>5. how[1] # "gap_liquidation" /\ how[1] # "expiry" /\ how[1] # "target"
          BY <1>8, <3>1, <4>4
        <4>6. how[1] \in {"gap_liquidation", "stop", "expiry", "target"}
          BY <1>1 DEF Hows
        <4> QED BY <4>5, <4>6
      <3> QED BY <3>2, <3>3
    <2> QED BY <2>6, <2>7
  <1>13. how[1] = "expiry" => e = d + MaximumBars
    <2>1. how[1] = "expiry" => e >= d + MaximumBars
      BY <1>8
    <2>2. e >= d + MaximumBars => e = d + MaximumBars
      BY <1>1, <1>2
    <2> QED BY <2>1, <2>2
  <1> QED BY <1>11, <1>12, <1>13

LEMMA DearerHolds ==
  ASSUME ReplayInv
  PROVE  DearerIsNoBetter
  <1>1. series \in Seq(Hourly) /\ Len(series) \in Nat
    BY LenProperties DEF ReplayInv
  <1>2. ASSUME NEW m \in Multipliers, NEW t \in books[m].trades
        PROVE  TradeOK(t, series, m, Len(series))
    BY DEF ReplayInv, AccountOK
  <1> QED BY <1>1, <1>2, DearerTrade DEF DearerIsNoBetter

\* Without costs an account leaves with the bar, for the reason and at the price of the audit.
LEMMA LeavesAreEnds ==
  ASSUME NEW bars \in Seq(Hourly), NEW d \in 1..Len(bars), d < Len(bars),
         NEW j \in 1..Len(bars), ~bars[j].gap, j <= d + MaximumBars
  PROVE  Leaves(Stake(bars, 1, d), bars[j], j) = Ends(bars, d, j)
  <1>1. 1 \in Multipliers /\ Cost(1) = 0
    BY CostIs DEF Multipliers
  <1> PICK stake : stake = Stake(bars, 1, d)
    OBVIOUS
  <1> PICK b : b = bars[j]
    OBVIOUS
  <1>2. /\ stake.decided = d /\ d \in Nat /\ j \in Nat /\ stake.stop \in Int /\ stake.target \in Int
        /\ stake.stop = StopFor(bars, d, 0) /\ stake.target = TargetFor(bars, d, 0)
    <2>1. /\ stake.decided = d /\ d \in Nat /\ stake.stop \in Int /\ stake.target \in Int
          /\ stake.stop = StopFor(bars, d, Cost(1)) /\ stake.target = TargetFor(bars, d, Cost(1))
      BY <1>1, StakeFacts
    <2> QED BY <1>1, <2>1
  <1>3. b.open \in Nat /\ b.high \in Nat /\ b.low \in Nat /\ b.close \in Nat /\ ~b.gap
    BY BarFacts
  <1> PICK stop \in Int : stop = stake.stop
    BY <1>2
  <1> PICK target \in Int : target = stake.target
    BY <1>2
  <1>4. PICK last : last = d + MaximumBars /\ last \in Nat
    BY <1>2, ReplayConstants
  <1>5. Ends(bars, d, j)
          = IF b.low <= stop THEN {<<"stop", IF b.open < stop THEN b.open ELSE stop>>}
            ELSE IF j = last THEN {<<"expiry", b.close>>}
            ELSE IF b.high >= target THEN {<<"target", target>>} ELSE {}
    BY <1>2, <1>4 DEF Ends, ExitOf
  <1>6. Leaves(stake, b, j)
          = CASE b.gap -> {<<"gap_liquidation", b.open>>}
              [] ~b.gap /\ b.low <= stop -> {<<"stop", Min({b.open, stop})>>}
              [] ~b.gap /\ b.low > stop /\ j >= last -> {<<"expiry", b.close>>}
              [] ~b.gap /\ b.low > stop /\ j < last /\ b.high >= target -> {<<"target", target>>}
              [] OTHER -> {}
    BY <1>2, <1>4 DEF Leaves
  <1>7. CASE b.low <= stop
    <2>1. ~(b.low > stop)
      BY <1>3, <1>7
    <2>2. Leaves(stake, b, j) = {<<"stop", Min({b.open, stop})>>}
      BY <1>3, <1>6, <1>7, <2>1
    <2>3. Min({b.open, stop}) = IF b.open < stop THEN b.open ELSE stop
      <3>1. b.open \in Int
        BY <1>3
      <3>2. Min({b.open, stop}) = IF b.open <= stop THEN b.open ELSE stop
        BY <3>1, LeastOfTwo
      <3>3. CASE b.open < stop
        BY <3>1, <3>2, <3>3
      <3>4. CASE b.open = stop
        BY <3>1, <3>2, <3>4
      <3>5. CASE b.open > stop
        BY <3>1, <3>2, <3>5
      <3> QED BY <3>1, <3>3, <3>4, <3>5
    <2>4. Ends(bars, d, j) = {<<"stop", IF b.open < stop THEN b.open ELSE stop>>}
      BY <1>5, <1>7
    <2> QED BY <2>2, <2>3, <2>4
  <1>8. CASE b.low > stop /\ j = last
    <2>1. ~(b.low <= stop) /\ j >= last /\ ~(j < last)
      BY <1>2, <1>3, <1>4, <1>8
    <2>2. Leaves(stake, b, j) = {<<"expiry", b.close>>}
      BY <1>3, <1>6, <1>8, <2>1
    <2>3. Ends(bars, d, j) = {<<"expiry", b.close>>}
      BY <1>5, <1>8, <2>1
    <2> QED BY <2>2, <2>3
  <1>9. CASE b.low > stop /\ j # last
    <2>1. ~(b.low <= stop) /\ j < last /\ ~(j >= last)
      BY <1>2, <1>3, <1>4, <1>9
    <2>2. CASE b.high >= target
      <3>1. Leaves(stake, b, j) = {<<"target", target>>}
        BY <1>3, <1>6, <1>9, <2>1, <2>2
      <3>2. Ends(bars, d, j) = {<<"target", target>>}
        BY <1>5, <1>9, <2>1, <2>2
      <3> QED BY <3>1, <3>2
    <2>3. CASE ~(b.high >= target)
      <3>1. Leaves(stake, b, j) = {}
        BY <1>3, <1>6, <2>1, <2>3
      <3>2. Ends(bars, d, j) = {}
        BY <1>5, <1>9, <2>1, <2>3
      <3> QED BY <3>1, <3>2
    <2> QED BY <2>2, <2>3
  <1>10. b.low <= stop \/ b.low > stop
    BY <1>3
  <1> QED BY <1>7, <1>8, <1>9, <1>10

\* What is held through bar k, without costs, the audit does not end by then.
LEMMA HeldIsUnended ==
  ASSUME NEW bars \in Seq(Hourly), NEW d, NEW k \in Nat, k <= Len(bars), HeldThrough(bars, 1, d, k)
  PROVE  /\ d \in 1..Len(bars) /\ d < Len(bars) /\ Eligible(bars, d) /\ StopFor(bars, d, 0) > 0
         /\ \A i \in (d + 1)..k : ~bars[i].gap /\ i < d + MaximumBars /\ Ends(bars, d, i) = {}
         /\ \A x : ScoredAt(bars, d, x) => k < x
  <1>1. 1 \in Multipliers /\ Cost(1) = 0 /\ Len(bars) \in Nat
    BY CostIs, LenProperties DEF Multipliers
  <1>2. d \in 1..Len(bars) /\ d < Len(bars) /\ Eligible(bars, d) /\ StopFor(bars, d, 0) > 0
    BY <1>1 DEF HeldThrough
  <1>3. ASSUME NEW i \in (d + 1)..k
        PROVE  ~bars[i].gap /\ i < d + MaximumBars /\ Ends(bars, d, i) = {}
    <2>1. i \in 1..Len(bars) /\ i \in Nat
      BY <1>1, <1>2
    <2>2. Leaves(Stake(bars, 1, d), bars[i], i) = {}
      BY DEF HeldThrough
    <2>3. ~bars[i].gap /\ i < d + MaximumBars
      BY <1>1, <1>2, <2>1, <2>2, StakeLeaves
    <2>4. i <= d + MaximumBars
      BY <1>2, <2>1, <2>3, ReplayConstants
    <2>5. Ends(bars, d, i) = {}
      BY <1>2, <2>1, <2>2, <2>3, <2>4, LeavesAreEnds
    <2> QED BY <2>3, <2>5
  <1>4. ASSUME NEW x, ScoredAt(bars, d, x) PROVE k < x
    <2>1. x \in (d + 1)..Len(bars) /\ Ends(bars, d, x) # {}
      BY <1>4 DEF ScoredAt
    <2>2. x \notin (d + 1)..k
      BY <1>3, <2>1
    <2> QED BY <1>1, <1>2, <2>1, <2>2
  <1> QED BY <1>2, <1>3, <1>4

\* A trade without costs is the audit's, unless a gap ended it.
LEMMA TradeIsScored ==
  ASSUME NEW bars \in Seq(Hourly), NEW n \in Nat, NEW t \in [decided : Nat, exit : Nat, how : Hows],
         TradeOK(t, bars, 1, n)
  PROVE  /\ t.decided \in 1..Len(bars) /\ Eligible(bars, t.decided)
         /\ t.exit \in (t.decided + 1)..Len(bars)
         /\ t.how[1] # "gap_liquidation" =>
              ScoredAt(bars, t.decided, t.exit) /\ Outcome(bars, t.decided).scored /\ t = RowOf(bars, t.decided)
         /\ t.how[1] = "gap_liquidation" => bars[t.exit].gap /\ \A x : ~ScoredAt(bars, t.decided, x)
  <1> PICK d : d = t.decided
    OBVIOUS
  <1> PICK e : e = t.exit
    OBVIOUS
  <1> PICK how : how = t.how
    OBVIOUS
  <1>1. 1 \in Multipliers /\ Len(bars) \in Nat
    BY LenProperties DEF Multipliers
  <1>2. /\ e \in (d + 1)..n /\ n <= Len(bars) /\ HeldThrough(bars, 1, d, e - 1)
        /\ how \in Leaves(Stake(bars, 1, d), bars[e], e)
    BY DEF TradeOK
  <1>3. d \in Nat /\ e - 1 \in Nat /\ e - 1 <= Len(bars) /\ e \in 1..Len(bars) /\ e \in (d + 1)..Len(bars) /\ e \in Nat
    BY <1>1, <1>2
  <1>4. /\ d \in 1..Len(bars) /\ d < Len(bars) /\ Eligible(bars, d) /\ StopFor(bars, d, 0) > 0
        /\ \A i \in (d + 1)..(e - 1) : ~bars[i].gap /\ i < d + MaximumBars /\ Ends(bars, d, i) = {}
        /\ \A x : ScoredAt(bars, d, x) => e - 1 < x
    BY ONLY <1>2, <1>3, bars \in Seq(Hourly), HeldIsUnended
  <1>5. e <= d + MaximumBars
    BY <1>1, TradeBars
  <1>6. how[1] = "gap_liquidation" <=> bars[e].gap
    BY <1>1, TradeBars
  <1>7. ASSUME ~bars[e].gap
        PROVE  ScoredAt(bars, d, e) /\ Outcome(bars, d).scored /\ t = RowOf(bars, d)
    <2>1. Leaves(Stake(bars, 1, d), bars[e], e) = Ends(bars, d, e)
      BY <1>3, <1>4, <1>5, <1>7, LeavesAreEnds
    <2>2. ScoredAt(bars, d, e)
      <3>1. \A i \in (d + 1)..e : i \in (d + 1)..(e - 1) \/ i = e
        BY <1>3
      <3>2. \A i \in (d + 1)..e : ~bars[i].gap
        BY <1>4, <1>7, <3>1
      <3> QED BY <1>2, <1>3, <1>4, <1>5, <2>1, <3>2 DEF ScoredAt
    <2>3. Ends(bars, d, e) = {how}
      <3> PICK left : left = Leaves(Stake(bars, 1, d), bars[e], e)
        OBVIOUS
      <3>1. ASSUME NEW x \in Leaves(Stake(bars, 1, d), bars[e], e)
            PROVE  \A y \in Leaves(Stake(bars, 1, d), bars[e], e) : y = x
        BY <1>1, <1>3, <1>4, <3>1, StakeLeaves
      <3>2. how \in left /\ \A y \in left : y = how
        BY <1>2, <3>1
      <3>3. left = {how}
        BY ONLY <3>2
      <3> QED BY <2>1, <3>3
    <2>4. \A y : ScoredAt(bars, d, y) =>
            Outcome(bars, d) = [scored |-> TRUE, exit |-> y, how |-> CHOOSE z \in Ends(bars, d, y) : TRUE]
      BY <1>4, OutcomeIs
    <2>5. Outcome(bars, d) = [scored |-> TRUE, exit |-> e, how |-> CHOOSE z \in Ends(bars, d, e) : TRUE]
      BY ONLY <2>2, <2>4
    <2>6. (CHOOSE z \in Ends(bars, d, e) : TRUE) = how
      BY <2>3
    <2>7. Outcome(bars, d).scored /\ Outcome(bars, d).exit = e /\ Outcome(bars, d).how = how
      BY <2>5, <2>6
    <2>8. t = [decided |-> d, exit |-> e, how |-> how]
      OBVIOUS
    <2> QED BY <2>2, <2>7, <2>8 DEF RowOf
  <1>8. ASSUME bars[e].gap, NEW x, ScoredAt(bars, d, x) PROVE FALSE
    <2>1. x \in (d + 1)..Len(bars) /\ (\A i \in (d + 1)..x : ~bars[i].gap) /\ e - 1 < x
      BY <1>4, <1>8 DEF ScoredAt
    <2>2. e \in (d + 1)..x
      BY <1>1, <1>3, <2>1
    <2> QED BY <1>8, <2>1, <2>2
  <1> QED BY <1>3, <1>4, <1>6, <1>7, <1>8

LEMMA AuditHolds ==
  ASSUME ReplayInv
  PROVE  AuditIsReplayed
  <1> SUFFICES ASSUME books[1].refused = {}
               PROVE  LET scored == Audit(series, DOMAIN series)
                      IN  /\ Finished(1) \subseteq scored
                          /\ \A r \in scored \ Finished(1) :
                               \/ \E t \in Tainted(1) : t.decided < r.decided /\ r.decided < t.exit
                               \/ books[1].position # NoPosition /\ books[1].position.decided < r.decided
    BY DEF AuditIsReplayed
  <1>1. series \in Seq(Hourly) /\ Len(series) \in Nat /\ 1 \in Multipliers /\ DOMAIN series = 1..Len(series)
    BY LenProperties DEF ReplayInv, Multipliers
  <1> PICK account : account = books[1]
    OBVIOUS
  <1> PICK n \in Nat : n = Len(series)
    BY <1>1
  <1> PICK all : all = DOMAIN series
    OBVIOUS
  <1> PICK rows : rows = Audit(series, all)
    OBVIOUS
  <1> PICK tainted : tainted = Tainted(1)
    OBVIOUS
  <1> PICK finished : finished = Finished(1)
    OBVIOUS
  <1>2. AccountOK(account, series, 1, n, n)
    BY <1>1 DEF ReplayInv
  <1>3. /\ account \in Account
        /\ account.pending # 0 => account.pending = n
        /\ account.position # NoPosition =>
             /\ HeldThrough(series, 1, account.position.decided, n)
             /\ \A t \in account.trades : t.exit <= account.position.decided
        /\ \A t \in account.trades : TradeOK(t, series, 1, n)
        /\ \A t, u \in account.trades : t.decided < u.decided => t.exit <= u.decided
        /\ \A d \in 1..n : Eligible(series, d) => Resolved(account, series, d)
    BY <1>2 DEF AccountOK
  <1>4. /\ \A t \in account.trades : t \in [decided : Nat, exit : Nat, how : Hows]
        /\ account.trades = tainted \cup finished /\ tainted \subseteq account.trades
        /\ finished \subseteq account.trades
        /\ \A t \in tainted : t.how[1] = "gap_liquidation"
        /\ \A t \in finished : t.how[1] # "gap_liquidation"
    <2>1. \A t \in account.trades : t \in [decided : Nat, exit : Nat, how : Hows]
      BY <1>3 DEF Account
    <2>2. /\ tainted = {t \in account.trades : t.how[1] = "gap_liquidation"}
          /\ finished = account.trades \ tainted
      BY DEF Tainted, Finished
    <2> QED BY <2>1, <2>2
  <1>5. \A t \in account.trades :
          /\ t.decided \in 1..n /\ Eligible(series, t.decided) /\ t.exit \in (t.decided + 1)..n
          /\ t.decided \in Nat /\ t.exit \in Nat
    <2>1. ASSUME NEW t \in account.trades
          PROVE  t.decided \in 1..n /\ Eligible(series, t.decided) /\ t.exit \in (t.decided + 1)..n
      BY <1>1, <1>3, <1>4, TradeIsScored
    <2> QED BY <2>1
  <1>6. \A t \in finished :
          ScoredAt(series, t.decided, t.exit) /\ Outcome(series, t.decided).scored /\ t = RowOf(series, t.decided)
    <2> TAKE t \in finished
    <2>1. t \in account.trades /\ t.how[1] # "gap_liquidation"
      BY <1>4
    <2> QED BY <1>1, <1>3, <1>4, <2>1, TradeIsScored
  <1>7. \A t \in tainted : series[t.exit].gap /\ \A x : ~ScoredAt(series, t.decided, x)
    <2> TAKE t \in tainted
    <2>1. t \in account.trades /\ t.how[1] = "gap_liquidation"
      BY <1>4
    <2> QED BY <1>1, <1>3, <1>4, <2>1, TradeIsScored
  <1>8. /\ \A r \in rows : \E d \in 1..n : /\ Scorable(series, all, d) /\ r = RowOf(series, d)
                                           /\ d < r.exit /\ r.exit \in Nat
        /\ \A r, q \in rows : r.decided < q.decided => r.exit <= q.decided
        /\ \A d \in 1..n : Scorable(series, all, d) =>
             RowOf(series, d) \in rows \/ \E r \in rows : r.decided < d /\ d < r.exit
    BY <1>1, AuditFacts
  \* What the audit scores the account traded, or was busy.
  <1>9. ASSUME NEW d \in 1..n, Scorable(series, all, d)
        PROVE  \/ account.position # NoPosition /\ account.position.decided < d
               \/ \E t \in account.trades : t.decided < d /\ d < t.exit
               \/ RowOf(series, d) \in finished
    <2>1. PICK x : ScoredAt(series, d, x)
      BY <1>1, <1>9, OutcomeIs DEF Scorable
    <2>2. x \in (d + 1)..n /\ x \in Nat /\ d \in Nat /\ d < n /\ \A i \in (d + 1)..x : ~series[i].gap
      BY <2>1 DEF ScoredAt
    <2>3. Resolved(account, series, d)
      BY <1>3, <1>9 DEF Scorable
    <2>4. account.pending # d
      BY <1>3, <2>2
    <2>5. ~(d < Len(series) /\ series[d + 1].gap)
      <3>1. d + 1 \in (d + 1)..x
        BY <2>2
      <3> QED BY <2>2, <3>1
    <2>6. d \notin account.refused
      OBVIOUS
    <2>7. CASE account.position # NoPosition /\ account.position.decided <= d
      <3>1. account.position.decided # d
        <4>1. ASSUME account.position.decided = d PROVE FALSE
          <5>1. HeldThrough(series, 1, d, n)
            BY <1>3, <2>7, <4>1
          <5>2. n < x
            BY <1>1, <2>1, <5>1, HeldIsUnended
          <5> QED BY <2>2, <5>2
        <4> QED BY <4>1
      <3>2. account.position.decided \in 1..n
        BY <1>3, <2>7 DEF HeldThrough
      <3> QED BY <2>7, <3>1, <3>2
    <2>8. CASE \E t \in account.trades : t.decided <= d /\ d < t.exit
      <3>1. PICK t \in account.trades : t.decided <= d /\ d < t.exit
        BY <2>8
      <3>2. CASE t.decided < d
        BY <3>1, <3>2
      <3>3. CASE t.decided = d
        <4>1. t \notin tainted
          BY <1>7, <2>1, <3>3
        <4>2. t \in finished
          BY <1>4, <4>1
        <4> QED BY <1>6, <3>3, <4>2
      <3>4. t.decided < d \/ t.decided = d
        BY <1>5, <2>2, <3>1
      <3> QED BY <3>2, <3>3, <3>4
    <2> QED BY <2>3, <2>4, <2>5, <2>6, <2>7, <2>8 DEF Resolved
  <1>10. \A t \in finished : t.decided \in 1..n /\ Scorable(series, all, t.decided)
    BY <1>1, <1>4, <1>5, <1>6 DEF Scorable
  <1>11. finished \subseteq rows
    <2> DEFINE missing == {d \in 1..n : \E t \in finished : t.decided = d /\ t \notin rows}
    <2> SUFFICES ASSUME missing # {} PROVE FALSE
      BY <1>10
    <2>1. PICK d \in missing : \A c \in missing : d <= c
      <3>1. missing \subseteq Nat
        OBVIOUS
      <3> HIDE DEF missing
      <3> QED BY <3>1, LeastNatural
    <2>2. PICK t \in finished : t.decided = d /\ t \notin rows
      OBVIOUS
    <2>3. d \in 1..n /\ d \in Nat
      OBVIOUS
    <2>4. ASSUME NEW u \in finished, u.decided < d PROVE u \in rows
      <3>1. u.decided \in 1..n
        BY <1>10
      <3>2. ~(d <= u.decided)
        BY <2>3, <2>4, <3>1
      <3>3. u.decided \notin missing
        BY <2>1, <3>2
      <3> QED BY <3>1, <3>3
    <2> HIDE DEF missing
    <2>5. t = RowOf(series, d) /\ Scorable(series, all, d) /\ t \in account.trades /\ d < t.exit /\ t.exit \in Nat
      BY <1>4, <1>5, <1>6, <1>10, <2>2, <2>3
    <2>6. PICK r \in rows : r.decided < d /\ d < r.exit
      BY <1>8, <2>2, <2>3, <2>5
    <2>7. PICK c \in 1..n : Scorable(series, all, c) /\ r = RowOf(series, c) /\ c < r.exit /\ r.exit \in Nat
      BY <1>8
    <2>8. r.decided = c /\ r.exit = Outcome(series, c).exit
      BY <2>7 DEF RowOf
    <2>9. CASE account.position # NoPosition /\ account.position.decided < c
      <3>1. t.exit <= account.position.decided /\ account.position.decided \in 1..n
        BY <1>3, <2>5, <2>9 DEF HeldThrough
      <3> QED BY <2>3, <2>5, <2>6, <2>7, <2>8, <2>9, <3>1
    <2>10. CASE \E u \in account.trades : u.decided < c /\ c < u.exit
      <3>1. PICK u \in account.trades : u.decided < c /\ c < u.exit
        BY <2>10
      <3>2. u.decided \in Nat /\ u.exit \in Nat /\ u.decided < d
        BY <1>5, <2>3, <2>6, <2>7, <2>8, <3>1
      <3>3. u.exit <= d
        BY <1>3, <2>2, <2>5, <3>2
      <3>4. CASE u \in finished
        <4>1. u \in rows
          BY <2>4, <3>2, <3>4
        <4>2. u.exit <= r.decided
          BY <1>8, <2>8, <3>1, <4>1
        <4> QED BY <2>7, <2>8, <3>1, <3>2, <4>2
      <3>5. CASE u \in tainted
        <4>1. ScoredAt(series, c, r.exit)
          BY <1>1, <2>7, <2>8, OutcomeIs DEF Scorable
        <4>2. \A i \in (c + 1)..(r.exit) : ~series[i].gap
          BY <4>1 DEF ScoredAt
        <4>3. u.exit \in (c + 1)..(r.exit)
          BY <2>3, <2>6, <2>7, <3>1, <3>2, <3>3
        <4> QED BY <1>7, <3>5, <4>2, <4>3
      <3> QED BY <1>4, <3>4, <3>5
    <2>11. CASE RowOf(series, c) \in finished
      <3>1. r \in account.trades
        BY <1>4, <2>7, <2>11
      <3>2. r.exit <= d
        BY <1>3, <2>2, <2>5, <2>6, <3>1
      <3> QED BY <2>3, <2>6, <2>7, <3>2
    <2> QED BY <1>9, <2>7, <2>9, <2>10, <2>11
  <1>12. ASSUME NEW r \in rows, r \notin finished
         PROVE  \/ \E t \in tainted : t.decided < r.decided /\ r.decided < t.exit
                \/ account.position # NoPosition /\ account.position.decided < r.decided
    <2>1. PICK d \in 1..n : Scorable(series, all, d) /\ r = RowOf(series, d) /\ d < r.exit /\ r.exit \in Nat
      BY <1>8
    <2>2. r.decided = d
      BY <2>1 DEF RowOf
    <2>3. RowOf(series, d) \notin finished
      BY <1>12, <2>1
    <2>4. CASE account.position # NoPosition /\ account.position.decided < d
      BY <2>2, <2>4
    <2>5. CASE \E t \in account.trades : t.decided < d /\ d < t.exit
      <3>1. PICK t \in account.trades : t.decided < d /\ d < t.exit
        BY <2>5
      <3>2. t \notin finished
        <4>1. ASSUME t \in finished PROVE FALSE
          <5>1. t \in rows
            BY <1>11, <4>1
          <5>2. t.exit <= d
            BY <1>8, <2>2, <3>1, <5>1
          <5> QED BY <1>5, <3>1, <5>2
        <4> QED BY <4>1
      <3>3. t \in tainted
        BY <1>4, <3>2
      <3> QED BY <2>2, <3>1, <3>3
    <2> QED BY <1>9, <2>1, <2>3, <2>4, <2>5
  <1> QED BY <1>11, <1>12

\* The accounts of the replay: every trade and position follows from the bars since its
\* decision, and every decision is accounted for.
THEOREM AccountsAreSound == ReplaySpec => []ReplayInv
  <1>1. ReplayInit => ReplayInv
    BY ReplayStarts
  <1>2. ASSUME ReplayInv, [ReplayNext]_replayvars PROVE ReplayInv'
    <2>1. CASE ReplayNext
      <3>1. PICK bar \in Bars, risk \in Risks : PushBar(bar, risk)
        BY <2>1 DEF ReplayNext
      <3> QED BY <1>2, <3>1, PushHolds
    <2>2. CASE UNCHANGED replayvars
      BY <1>2, <2>2 DEF ReplayInv, replayvars
    <2> QED BY <1>2, <2>1, <2>2
  <1> QED BY <1>1, <1>2, PTL DEF ReplaySpec

\* For every rule, horizon and history of bars: what the search ranks is what a causal
\* account does, as far as the two can agree (backtest/opportunities.py and
\* research/historical_replay_account.py).
THEOREM SearchAgreesWithReplay == ReplaySpec => []SearchIsReplayed
  <1>1. ReplayInv => SearchIsReplayed
    BY AuditHolds, DearerHolds, FoldsScoreAlike DEF SearchIsReplayed, ReplayInv
  <1> QED BY <1>1, AccountsAreSound, PTL
=============================================================================
