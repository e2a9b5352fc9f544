---------------------- MODULE StrategyEvaluationProofs ----------------------
(***************************************************************************)
(* What is proved of StrategyEvaluation for all threads, slots, cohorts of *)
(* strategies, and numbers of requests, evaluations and faults.            *)
(***************************************************************************)
EXTENDS StrategyEvaluation, FiniteSetTheorems, TLAPS

(* What a call has at hand by where it is.                                 *)
Busy     == {"engines", "check", "commit", "failing"}
Claiming == {"lock", "plan", "insert"}
Loaded   == Claiming \cup {"reuse"} \cup Busy

Shape(c, asked, made) ==
  /\ c.pc \in Ingests => c.item \in DOMAIN asked
  /\ c.pc = "fetch" => c.left \subseteq asked[c.item].range
  /\ c.pc = "finalize" => /\ c.data \in Datasets
                          /\ c.verdict \in {"complete", "incomplete", "unavailable"}
  /\ c.pc \in Evaluates => c.scope \in Scopes
  /\ c.pc \in Loaded => c.data \in Datasets
  /\ c.pc = "insert" => {c.gen, c.at} \subseteq 1..(Len(made) + 1)
  /\ c.pc \in Busy \cup {"reuse"} => /\ c.item \in DOMAIN made
                                     /\ made[c.item].scope = c.scope
                                     /\ made[c.item].data = c.data
  /\ c.pc = "failing" => c.left \subseteq c.scope /\ c.verdict \in {"stale", "error"}

\* No generation and no timestamp is above the number of runs before it.
Numbered == \A i \in DOMAIN runs : runs[i].gen <= i /\ runs[i].at <= i

TypeInv == TypeOK /\ Numbered /\ \A w \in Workers : Shape(calls[w], requests, runs)

(* No request and no run goes away or changes what it is about.            *)
SameRun(r, q) == r.scope = q.scope /\ r.data = q.data /\ r.gen = q.gen /\ r.at = q.at

Kept ==
  /\ \A i \in DOMAIN requests :
       i \in DOMAIN requests' /\ requests'[i].range = requests[i].range
  /\ Len(runs) <= Len(runs')
  /\ \A i \in DOMAIN runs : i \in DOMAIN runs' /\ SameRun(runs'[i], runs[i])

TablesOK ==
  /\ bars \in [1..Slots -> 0..MaxRevision]
  /\ requests \in Seq(Request) /\ Len(requests) <= MaxRequests
  /\ runs \in Seq(Run)
  /\ \A i \in DOMAIN runs : DOMAIN runs[i].status = runs[i].scope
  /\ Numbered
  /\ source \in Workers \cup {Free}
  /\ held \in [Workers -> SUBSET (Datasets \X Nat)]
  /\ evaluations \in 0..MaxEvaluations /\ faults \in 0..MaxFaults

-----------------------------------------------------------------------------
(* The operators.                                                          *)

\* A set of naturals has a least member.
LEMMA LeastNatural ==
  ASSUME NEW S \in SUBSET Nat, S # {}
  PROVE  Min(S) \in S /\ \A x \in S : Min(S) <= x
  <1>1. \E x \in S : \A y \in S : ~(<<y, x>> \in OpToRel(<, Nat))
    BY NatLessThanWellFounded, WFMin
  <1>2. PICK x \in S : \A y \in S : ~(<<y, x>> \in OpToRel(<, Nat))
    BY <1>1
  <1>3. ASSUME NEW y \in S, y < x
        PROVE  FALSE
    <2>1. <<y, x>> \in Nat \X Nat
      OBVIOUS
    <2>2. <<y, x>>[1] = y /\ <<y, x>>[2] = x
      OBVIOUS
    <2>3. <<y, x>> \in OpToRel(<, Nat)
      BY <1>3, <2>1, <2>2 DEF OpToRel
    <2>4. QED
      BY <1>2, <2>3
  <1>4. x \in S /\ \A y \in S : x <= y
    BY <1>3
  <1>5. QED
    BY <1>4 DEF Min

\* A bounded one has a greatest.
LEMMA GreatestNatural ==
  ASSUME NEW n \in Nat, NEW S \in SUBSET (0..n), S # {}
  PROVE  Max(S) \in S /\ \A x \in S : x <= Max(S)
  <1> DEFINE T == {n - x : x \in S}
  <1>1. T \in SUBSET Nat /\ T # {}
    <2>1. \A x \in S : n - x \in Nat
      OBVIOUS
    <2>2. QED
      BY <2>1
  <1>2. Min(T) \in T /\ \A y \in T : Min(T) <= y
    <2> HIDE DEF T
    <2> QED
      BY <1>1, LeastNatural
  <1>3. PICK x \in S : Min(T) = n - x
    BY <1>2
  <1>4. \A y \in S : n - x <= n - y
    BY <1>2, <1>3
  <1>5. \A y \in S : x >= y
    BY <1>4
  <1> HIDE DEF T
  <1>6. \E z \in S : \A y \in S : z >= y
    BY <1>5
  <1>7. Max(S) \in S /\ \A y \in S : Max(S) >= y
    BY ONLY <1>6, Zenon DEF Max
  <1>8. QED
    BY <1>7

\* The bars of a range are a dataset.
LEMMA DataFacts ==
  ASSUME bars \in [1..Slots -> 0..MaxRevision], NEW range \in Ranges
  PROVE  /\ Data(range) \in Datasets /\ DOMAIN Data(range) = range
         /\ range \subseteq 1..Slots
         /\ \A s \in range : Data(range)[s] = bars[s]
  <1>1. range \subseteq 1..Slots
    <2>1. PICK a \in 1..Slots, b \in 1..Slots : range = a..b
      BY DEF Ranges
    <2>2. Slots \in Nat
      BY EvaluationAssumption
    <2> QED
      BY ONLY <2>1, <2>2
  <1>2. Data(range) \in [range -> 0..MaxRevision]
    BY <1>1 DEF Data
  <1>3. Data(range) \in Datasets
    BY <1>2 DEF Datasets
  <1>4. QED
    BY <1>1, <1>3 DEF Data

\* The local history is a range, once there are bars.
LEMMA LocalQueryFacts ==
  ASSUME bars \in [1..Slots -> 0..MaxRevision], LocalQuery # {}
  PROVE  LocalQuery \in Ranges
  <1> DEFINE present == {s \in 1..Slots : bars[s] > 0}
  <1>1. LocalQuery = IF present = {} THEN {} ELSE Min(present)..Max(present)
    BY DEF LocalQuery
  <1>2. present \subseteq 1..Slots /\ Slots \in Nat
    BY EvaluationAssumption
  <1> HIDE DEF present
  <1>3. present \in SUBSET Nat /\ present \in SUBSET (0..Slots) /\ present # {}
    BY <1>1, <1>2
  <1>4. Min(present) \in 1..Slots /\ Max(present) \in 1..Slots
    BY <1>2, <1>3, LeastNatural, GreatestNatural
  <1>5. QED
    BY <1>1, <1>3, <1>4 DEF Ranges

LEMMA IdleType == Idle \in Call
  <1>1. 0 \in 0..(Attempts - 1) /\ 0 \in 0..(Tries - 1)
    BY EvaluationAssumption
  <1>2. QED
    BY <1>1 DEF Idle, Call, Rest

\* A thread at rest holds nothing and may be anywhere.
LEMMA RestFacts ==
  ASSUME NEW outcome \in Rest
  PROVE  LET c == [Idle EXCEPT !.pc = outcome]
         IN  c \in Call /\ \A asked, made : Shape(c, asked, made)
  <1> DEFINE c == [Idle EXCEPT !.pc = outcome]
  <1>2. Idle \in Call
    BY IdleType
  <1>3. c \in Call /\ c.pc = outcome
    BY <1>2 DEF Call
  <1>4. c.pc \notin Ingests \cup Evaluates
    BY <1>3 DEF Rest, Ingests, Evaluates
  <1> HIDE DEF c
  <1>5. \A asked, made : Shape(c, asked, made)
    BY <1>4 DEF Shape, Ingests, Evaluates, Loaded, Busy, Claiming
  <1>6. QED
    BY <1>3, <1>5 DEF c

\* A thread keeps its shape while the tables are kept.
LEMMA ShapeKept ==
  ASSUME TypeOK, TablesOK', NEW v \in Workers, Shape(calls[v], requests, runs), Kept
  PROVE  Shape(calls[v], requests', runs')
  <1>1. Len(runs) \in Nat /\ Len(runs') \in Nat /\ calls[v] \in Call
    BY DEF TypeOK, TablesOK
  <1>2. {calls[v].gen, calls[v].at} \subseteq 1..(Len(runs) + 1)
          => {calls[v].gen, calls[v].at} \subseteq 1..(Len(runs') + 1)
    BY <1>1 DEF Kept, Call
  <1>3. QED
    BY <1>2 DEF Shape, Kept, Busy, Ingests, SameRun

\* A step of one thread.
LEMMA OneCall ==
  ASSUME TypeInv, NEW w \in Workers, NEW c \in Call, Set(w, c), Kept, TablesOK',
         Shape(c, requests', runs')
  PROVE  TypeInv'
  <1>1. /\ calls' \in [Workers -> Call] /\ calls'[w] = c
        /\ \A v \in Workers \ {w} : calls'[v] = calls[v]
    BY DEF TypeInv, TypeOK, Set
  <1>2. ASSUME NEW v \in Workers
        PROVE  Shape(calls'[v], requests', runs')
    <2>1. CASE v = w
      BY <1>1, <2>1
    <2>2. CASE v # w
      BY <1>1, <2>2, ShapeKept DEF TypeInv
    <2>3. QED
      BY <2>1, <2>2
  <1>3. QED
    BY <1>1, <1>2 DEF TypeInv, TypeOK, TablesOK, Numbered

\* A step of one thread that leaves the tables of the database alone.
LEMMA QuietStep ==
  ASSUME TypeInv, NEW w \in Workers, NEW c \in Call, Set(w, c), Shape(c, requests, runs),
         UNCHANGED database,
         source' \in Workers \cup {Free}, evaluations' \in 0..MaxEvaluations,
         held' \in [Workers -> SUBSET (Datasets \X Nat)], faults' \in 0..MaxFaults
  PROVE  TypeInv' /\ Kept
  <1>1. bars' = bars /\ requests' = requests /\ runs' = runs
    BY DEF database
  <1>2. Kept /\ TablesOK'
    BY <1>1 DEF TypeInv, TypeOK, TablesOK, Kept, Numbered, SameRun
  <1>3. Shape(c, requests', runs')
    BY <1>1
  <1>4. QED
    BY <1>2, <1>3, OneCall

\* One that leaves all but the thread's call alone.
LEMMA CallStep ==
  ASSUME TypeInv, NEW w \in Workers, NEW c \in Call, Set(w, c), Shape(c, requests, runs),
         UNCHANGED <<database, source, held, evaluations>>, faults' = faults \/ Fault
  PROVE  TypeInv' /\ Kept
  <1>1. /\ source \in Workers \cup {Free} /\ evaluations \in 0..MaxEvaluations
        /\ held \in [Workers -> SUBSET (Datasets \X Nat)]
        /\ faults \in 0..MaxFaults /\ MaxFaults \in Nat
    BY EvaluationAssumption DEF TypeInv, TypeOK
  <1>2. faults' \in 0..MaxFaults
    BY <1>1 DEF Fault
  <1>3. QED
    BY <1>1, <1>2, QuietStep

-----------------------------------------------------------------------------
(* Types.                                                                  *)

\* The steps of an ingest.
LEMMA IngestType ==
  ASSUME TypeInv, NEW w \in Workers,
         \/ \E range \in Requested, force \in BOOLEAN : Ingest(w, range, force)
         \/ ReadGaps(w) \/ AppendGap(w) \/ FetchFails(w) \/ ReadManifest(w)
         \/ Finalize(w) \/ FinalizeFails(w)
  PROVE  TypeInv' /\ Kept
  <1> DEFINE c == calls[w]
  <1>1. c \in Call /\ Shape(c, requests, runs)
    BY DEF TypeInv, TypeOK
  <1>2. TablesOK
    BY DEF TypeInv, TypeOK, TablesOK, Numbered
  <1>3. CASE \E range \in Requested, force \in BOOLEAN : Ingest(w, range, force)
    <2>1. PICK range \in Requested, force \in BOOLEAN : Ingest(w, range, force)
      BY <1>3
    <2> DEFINE next == [Idle EXCEPT !.pc = "gaps", !.force = force, !.item = Len(requests) + 1]
               request == [range |-> range, seen |-> Data(range), status |-> "running"]
    <2>2. range \in Ranges
      BY EvaluationAssumption DEF Ranges
    <2>3. request \in Request
      BY <1>2, <2>2, DataFacts DEF Request, TablesOK
    <2> HIDE DEF request
    <2>4. requests' = Append(requests, request) /\ Len(requests) < MaxRequests
      BY <2>1 DEF Ingest, request
    <2>5. /\ requests' \in Seq(Request) /\ Len(requests') <= MaxRequests
          /\ Len(requests) + 1 \in DOMAIN requests'
          /\ \A i \in DOMAIN requests : i \in DOMAIN requests' /\ requests'[i] = requests[i]
      <3>1. requests \in Seq(Request) /\ Len(requests) \in Nat /\ MaxRequests \in Nat
        BY <1>2, EvaluationAssumption DEF TablesOK
      <3>2. /\ requests' \in Seq(Request) /\ Len(requests') = Len(requests) + 1
            /\ \A i \in 1..Len(requests) : requests'[i] = requests[i]
        BY <2>3, <2>4, <3>1
      <3>3. QED
        BY <2>4, <3>1, <3>2
    <2>6. Kept /\ TablesOK'
      <3>1. UNCHANGED <<bars, runs, source, held, faults, evaluations>> /\ Len(runs) \in Nat
        <4>1. Len(runs) \in Nat
          BY <1>2 DEF TablesOK
        <4>2. QED
          BY <2>1, <4>1 DEF Ingest
      <3>2. Kept
        BY <2>5, <3>1 DEF Kept, SameRun
      <3>3. /\ evaluations' \in 0..MaxEvaluations /\ faults' \in 0..MaxFaults
            /\ held' \in [Workers -> SUBSET (Datasets \X Nat)]
            /\ source' \in Workers \cup {Free} /\ bars' \in [1..Slots -> 0..MaxRevision]
        BY <1>2, <3>1 DEF TablesOK
      <3>4. /\ runs' \in Seq(Run) /\ Numbered'
            /\ \A i \in DOMAIN runs' : DOMAIN runs'[i].status = runs'[i].scope
        BY <1>2, <3>1 DEF TablesOK, Numbered
      <3>5. QED
        BY <2>5, <3>2, <3>3, <3>4 DEF TablesOK
    <2>7. Idle \in Call /\ Len(requests) + 1 \in Nat
      BY <1>2, IdleType DEF TablesOK
    <2>8. next \in Call /\ next.pc = "gaps" /\ next.item = Len(requests) + 1
      BY <2>7 DEF Call, Ingests
    <2>9. Set(w, next)
      BY <2>1 DEF Ingest
    <2> HIDE DEF next
    <2>10. Shape(next, requests', runs')
      BY <2>5, <2>8 DEF Shape, Evaluates, Loaded, Busy, Claiming
    <2>11. QED
      BY <2>6, <2>8, <2>9, <2>10, OneCall
  <1>4. ASSUME c.pc \in Ingests
        PROVE  /\ c.item \in DOMAIN requests
               /\ requests[c.item].range \in Ranges
               /\ requests[c.item].range \subseteq 1..Slots
    <2>1. c.item \in DOMAIN requests
      BY <1>1, <1>4 DEF Shape
    <2>2. requests[c.item] \in Request
      BY <1>2, <2>1 DEF TablesOK
    <2>3. requests[c.item].range \in Ranges
      BY <2>2 DEF Request
    <2>4. QED
      BY <1>2, <2>1, <2>3, DataFacts DEF TablesOK
  <1>5. CASE ReadGaps(w)
    <2>1. c.pc = "gaps" /\ c.pc \in Ingests /\ UNCHANGED <<database, source, held, faults, evaluations>>
      BY <1>5 DEF ReadGaps, Ingests
    <2>2. ASSUME NEW verdict \in {"complete", "unavailable"},
                 Set(w, [c EXCEPT !.pc = "manifest", !.verdict = verdict])
          PROVE  TypeInv' /\ Kept
      <3> DEFINE next == [c EXCEPT !.pc = "manifest", !.verdict = verdict]
      <3>1. next \in Call /\ next.pc = "manifest" /\ next.item = c.item
        BY <1>1, <2>2 DEF Call, Ingests
      <3> HIDE DEF next
      <3>2. Shape(next, requests, runs)
        BY <1>4, <2>1, <3>1 DEF Shape, Evaluates, Loaded, Busy, Claiming
      <3>3. QED
        BY <2>1, <2>2, <3>1, <3>2, CallStep DEF next
    <2>3. ASSUME NEW gaps \in SUBSET requests[c.item].range,
                 Set(w, [c EXCEPT !.pc = "fetch", !.left = gaps])
          PROVE  TypeInv' /\ Kept
      <3> DEFINE next == [c EXCEPT !.pc = "fetch", !.left = gaps]
      <3>1. next \in Call /\ next.pc = "fetch" /\ next.item = c.item /\ next.left = gaps
        <4>1. gaps \in SUBSET Nat
          BY <1>4, <2>1, EvaluationAssumption
        <4>2. QED
          BY <1>1, <4>1 DEF Call, Ingests
      <3> HIDE DEF next
      <3>2. Shape(next, requests, runs)
        BY <1>4, <2>1, <3>1 DEF Shape, Evaluates, Loaded, Busy, Claiming
      <3>3. QED
        BY <2>1, <2>3, <3>1, <3>2, CallStep DEF next
    <2>4. QED
      <3>1. Missing(requests[c.item].range) \subseteq requests[c.item].range
        BY DEF Missing
      <3>2. QED
        BY <1>5, <2>2, <2>3, <3>1 DEF ReadGaps
  <1>6. CASE FetchFails(w)
    <2> DEFINE next == [c EXCEPT !.pc = "manifest", !.verdict = "unavailable", !.left = {}]
    <2>1. /\ c.pc = "fetch" /\ c.pc \in Ingests /\ Set(w, next)
          /\ UNCHANGED <<database, source, held, faults, evaluations>>
      BY <1>6 DEF FetchFails, At, Ingests
    <2>2. next \in Call /\ next.pc = "manifest" /\ next.item = c.item
      BY <1>1 DEF Call, Ingests
    <2> HIDE DEF next
    <2>3. Shape(next, requests, runs)
      BY <1>4, <2>1, <2>2 DEF Shape, Evaluates, Loaded, Busy, Claiming
    <2>4. QED
      BY <2>1, <2>2, <2>3, CallStep
  <1>7. CASE ReadManifest(w)
    <2>1. c.pc \in Ingests /\ UNCHANGED <<database, source, held, faults, evaluations>>
      BY <1>7 DEF ReadManifest, Ingests
    <2>2. PICK verdict \in {"complete", "incomplete", "unavailable"} :
            Set(w, [c EXCEPT !.pc = "finalize", !.data = Data(requests[c.item].range),
                             !.verdict = verdict])
      BY <1>7 DEF ReadManifest
    <2> DEFINE data == Data(requests[c.item].range)
               next == [c EXCEPT !.pc = "finalize", !.data = data, !.verdict = verdict]
    <2>3. data \in Datasets
      BY <1>2, <1>4, <2>1, DataFacts DEF TablesOK
    <2> HIDE DEF data
    <2>4. /\ next \in Call /\ next.pc = "finalize" /\ next.item = c.item
          /\ next.data = data /\ next.verdict = verdict
      BY <1>1, <2>3 DEF Call, Ingests
    <2> HIDE DEF next
    <2>5. Shape(next, requests, runs)
      BY <1>4, <2>1, <2>3, <2>4 DEF Shape, Evaluates, Loaded, Busy, Claiming
    <2>6. Set(w, next)
      BY <2>2 DEF next, data
    <2>7. QED
      BY <2>1, <2>4, <2>5, <2>6, CallStep
  <1>8. CASE AppendGap(w)
    <2>1. c.pc = "fetch" /\ c.pc \in Ingests
      BY <1>8 DEF AppendGap, Ingests
    <2>2. PICK got \in SUBSET FirstGap(c.left), corrected \in SUBSET FirstGap(c.left) :
            /\ corrected \subseteq {s \in got : bars[s] \in 1..(MaxRevision - 1)}
            /\ bars' = [s \in 1..Slots |->
                 IF (s \in got /\ bars[s] = 0) \/ s \in corrected THEN bars[s] + 1 ELSE bars[s]]
            /\ LET left == c.left \ FirstGap(c.left)
               IN  Set(w, [c EXCEPT !.left = left,
                                    !.pc = IF left = {} THEN "manifest" ELSE "fetch",
                                    !.verdict = IF c.force /\ got = {} THEN "incomplete" ELSE "none"])
      BY <1>8 DEF AppendGap
    <2>3. bars' \in [1..Slots -> 0..MaxRevision]
      <3>1. MaxRevision \in Nat \ {0} /\ bars \in [1..Slots -> 0..MaxRevision]
        <4>1. MaxRevision \in Nat \ {0}
          BY EvaluationAssumption
        <4>2. QED
          BY <1>2, <4>1 DEF TablesOK
      <3>2. ASSUME NEW s \in 1..Slots
            PROVE  (IF (s \in got /\ bars[s] = 0) \/ s \in corrected THEN bars[s] + 1 ELSE bars[s])
                     \in 0..MaxRevision
        BY <2>2, <3>1
      <3>3. QED
        BY <2>2, <3>2
    <2>4. UNCHANGED <<requests, runs, source, held, faults, evaluations>>
      BY <1>8 DEF AppendGap
    <2>5. Kept /\ TablesOK'
      BY <1>2, <2>3, <2>4 DEF Kept, TablesOK, Numbered, SameRun
    <2> DEFINE left == c.left \ FirstGap(c.left)
               next == [c EXCEPT !.left = left,
                                 !.pc = IF left = {} THEN "manifest" ELSE "fetch",
                                 !.verdict = IF c.force /\ got = {} THEN "incomplete" ELSE "none"]
    <2>6. Set(w, next)
      BY <2>2
    <2>7. left \subseteq c.left
      OBVIOUS
    <2> HIDE DEF left
    <2>8. /\ next \in Call /\ next.pc \in {"manifest", "fetch"} /\ next.item = c.item
          /\ next.left = left
      <3>1. PICK pc, verdict :
              /\ pc \in {"manifest", "fetch"} /\ verdict \in {"incomplete", "none"}
              /\ next = [c EXCEPT !.left = left, !.pc = pc, !.verdict = verdict]
        OBVIOUS
      <3> HIDE DEF next
      <3>2. c \in Call /\ left \in SUBSET Nat
        BY <1>1, <2>7 DEF Call
      <3> HIDE DEF c
      <3>3. QED
        BY <3>1, <3>2 DEF Call, Ingests
    <2> HIDE DEF next
    <2>9. Shape(next, requests', runs')
      <3>1. c.left \subseteq requests[c.item].range
        BY <1>1, <2>1 DEF Shape
      <3>2. QED
        BY <1>4, <2>1, <2>4, <2>7, <2>8, <3>1 DEF Shape, Evaluates, Loaded, Busy, Claiming
    <2>10. QED
      BY <2>5, <2>6, <2>8, <2>9, OneCall
  <1>9. CASE Finalize(w)
    <2>1. c.pc = "finalize" /\ c.pc \in Ingests /\ Return(w, "idle")
      BY <1>9 DEF Finalize, Ingests
    <2>2. UNCHANGED <<bars, runs, source, held, faults, evaluations>>
      BY <1>9 DEF Finalize
    <2>3. requests' = requests \/
          requests' = [requests EXCEPT ![c.item].status = c.verdict, ![c.item].seen = c.data]
      BY <1>9 DEF Finalize
    <2>4. c.data \in Datasets /\ c.verdict \in {"complete", "incomplete", "unavailable"}
      BY <1>1, <2>1 DEF Shape
    <2>5. /\ requests' \in Seq(Request) /\ Len(requests') = Len(requests)
          /\ \A i \in DOMAIN requests : requests'[i].range = requests[i].range
      <3>1. CASE requests' = requests
        BY <1>2, <3>1 DEF TablesOK
      <3>2. CASE requests' = [requests EXCEPT ![c.item].status = c.verdict, ![c.item].seen = c.data]
        <4> DEFINE request == [requests[c.item] EXCEPT !.status = c.verdict, !.seen = c.data]
        <4>1. requests[c.item] \in Request /\ c.item \in DOMAIN requests
          BY <1>2, <1>4, <2>1 DEF TablesOK
        <4>2. request \in Request /\ request.range = requests[c.item].range
          BY <2>4, <4>1 DEF Request
        <4>3. requests' = [requests EXCEPT ![c.item] = request]
          BY <3>2
        <4> HIDE DEF request, c
        <4>4. QED
          BY <1>2, <4>1, <4>2, <4>3 DEF TablesOK
      <3>3. QED
        BY <2>3, <3>1, <3>2
    <2>6. Kept /\ TablesOK'
      BY <1>2, <2>2, <2>5 DEF Kept, TablesOK, Numbered, SameRun
    <2> DEFINE next == [Idle EXCEPT !.pc = "idle"]
    <2>7. next \in Call /\ Shape(next, requests', runs')
      BY RestFacts DEF Rest
    <2>8. Set(w, next)
      BY <2>1 DEF Return
    <2> HIDE DEF next
    <2>9. QED
      BY <2>6, <2>7, <2>8, OneCall
  <1>10. CASE FinalizeFails(w)
    <2> DEFINE next == [Idle EXCEPT !.pc = "idle"]
    <2>1. next \in Call /\ Shape(next, requests, runs)
      BY RestFacts DEF Rest
    <2>2. Set(w, next) /\ UNCHANGED <<database, source, held, evaluations>> /\ Fault
      BY <1>10 DEF FinalizeFails, Return
    <2> HIDE DEF next
    <2>3. QED
      BY <2>1, <2>2, CallStep
  <1>11. QED
    BY <1>3, <1>5, <1>6, <1>7, <1>8, <1>9, <1>10

\* A run that is appended.
LEMMA AppendRun ==
  ASSUME TablesOK, NEW c \in Call, c.scope \in Scopes, c.data \in Datasets,
         c.at \in 0..(Len(runs) + 1), NEW gen \in 0..(Len(runs) + 1), NEW row \in Rows,
         runs' = Append(runs, NewRun(c, gen, row))
  PROVE  /\ runs' \in Seq(Run) /\ Len(runs') = Len(runs) + 1 /\ Len(runs) \in Nat
         /\ \A i \in DOMAIN runs : i \in DOMAIN runs' /\ runs'[i] = runs[i]
         /\ runs'[Len(runs) + 1] = NewRun(c, gen, row)
         /\ \A i \in DOMAIN runs' : DOMAIN runs'[i].status = runs'[i].scope
         /\ Numbered'
         /\ requests' = requests => Kept
  <1> DEFINE new == NewRun(c, gen, row)
  <1>1. /\ new.scope = c.scope /\ new.data = c.data /\ new.gen = gen /\ new.at = c.at
        /\ DOMAIN new.status = c.scope /\ new \in Run
    <2>1. [m \in c.scope |-> row] \in UNION {[scope -> Rows] : scope \in Scopes}
      OBVIOUS
    <2>2. gen \in Nat /\ c.at \in Nat
      BY DEF TablesOK
    <2>3. QED
      BY <2>1, <2>2 DEF NewRun, Run
  <1> HIDE DEF new
  <1>2. runs' = Append(runs, new) /\ runs \in Seq(Run) /\ Len(runs) \in Nat
    BY DEF new, TablesOK
  <1>3. /\ runs' \in Seq(Run) /\ Len(runs') = Len(runs) + 1
        /\ \A i \in 1..Len(runs) : runs'[i] = runs[i]
        /\ runs'[Len(runs) + 1] = new
    BY <1>1, <1>2
  <1>4. \A i \in DOMAIN runs : i \in DOMAIN runs' /\ runs'[i] = runs[i]
    BY <1>2, <1>3
  <1>5. \A i \in DOMAIN runs' : i \in DOMAIN runs \/ i = Len(runs) + 1
    BY <1>2, <1>3
  <1>6. \A i \in DOMAIN runs' : DOMAIN runs'[i].status = runs'[i].scope
    BY <1>1, <1>3, <1>4, <1>5 DEF TablesOK
  <1>7. Numbered'
    BY <1>1, <1>2, <1>3, <1>4, <1>5 DEF TablesOK, Numbered
  <1>8. requests' = requests => Kept
    BY <1>2, <1>3, <1>4 DEF Kept, SameRun
  <1>9. QED
    BY <1>2, <1>3, <1>4, <1>6, <1>7, <1>8 DEF new

\* A run whose rows change.
LEMMA ChangeRows ==
  ASSUME TablesOK, NEW item \in DOMAIN runs, NEW rows \in [runs[item].scope -> Rows],
         runs' = [runs EXCEPT ![item].status = rows]
  PROVE  /\ runs' \in Seq(Run) /\ DOMAIN runs' = DOMAIN runs /\ Len(runs') = Len(runs)
         /\ \A i \in DOMAIN runs : i # item => runs'[i] = runs[i]
         /\ runs'[item].status = rows
         /\ \A i \in DOMAIN runs : SameRun(runs'[i], runs[i])
         /\ \A i \in DOMAIN runs' : DOMAIN runs'[i].status = runs'[i].scope
         /\ Numbered'
         /\ requests' = requests => Kept
  <1> DEFINE new == [runs[item] EXCEPT !.status = rows]
  <1>1. runs \in Seq(Run) /\ runs[item] \in Run /\ Len(runs) \in Nat /\ Len(runs) <= Len(runs)
    BY DEF TablesOK
  <1>2. /\ new.scope = runs[item].scope /\ new.data = runs[item].data
        /\ new.gen = runs[item].gen /\ new.at = runs[item].at
        /\ new.status = rows /\ new \in Run
    <2>1. runs[item].scope \in Scopes
      BY <1>1 DEF Run
    <2>2. rows \in UNION {[scope -> Rows] : scope \in Scopes}
      BY <2>1
    <2>3. QED
      BY <1>1, <2>2 DEF Run
  <1>3. runs' = [runs EXCEPT ![item] = new]
    OBVIOUS
  <1> HIDE DEF new
  <1>4. /\ runs' \in Seq(Run) /\ DOMAIN runs' = DOMAIN runs /\ Len(runs') = Len(runs)
        /\ \A i \in DOMAIN runs : i # item => runs'[i] = runs[i]
        /\ runs'[item] = new
    BY <1>1, <1>2, <1>3
  <1>5. \A i \in DOMAIN runs : SameRun(runs'[i], runs[i])
    BY <1>2, <1>4 DEF SameRun
  <1>6. \A i \in DOMAIN runs' : DOMAIN runs'[i].status = runs'[i].scope
    BY <1>2, <1>4 DEF TablesOK
  <1>7. Numbered'
    BY <1>4, <1>5 DEF TablesOK, Numbered, SameRun
  <1>8. requests' = requests => Kept
    BY <1>1, <1>4, <1>5 DEF Kept
  <1>9. QED
    BY <1>2, <1>4, <1>5, <1>6, <1>7, <1>8

\* The next generation of a cohort is above its runs', the next timestamp above those
\* of its members.
LEMMA NextNumbers ==
  ASSUME TablesOK, NEW c
  PROVE  /\ NextGen(c) \in 1..(Len(runs) + 1)
         /\ \A i \in SameCohort(c) : runs[i].gen < NextGen(c)
         /\ NextAt(c) \in 1..(Len(runs) + 1)
         /\ \A i \in DOMAIN runs :
              runs[i].data = c.data /\ c.scope \cap HasRow(i) # {} => runs[i].at < NextAt(c)
  <1> DEFINE overlapping == {j \in DOMAIN runs : runs[j].data = c.data /\ c.scope \cap HasRow(j) # {}}
             gens == {0} \cup {runs[i].gen : i \in SameCohort(c)}
             ats  == {0} \cup {runs[i].at : i \in overlapping}
  <1>1. Len(runs) \in Nat /\ \A i \in DOMAIN runs : runs[i] \in Run
    BY DEF TablesOK
  <1>2. \A i \in DOMAIN runs : runs[i].gen \in 0..Len(runs) /\ runs[i].at \in 0..Len(runs)
    BY <1>1 DEF TablesOK, Numbered, Run
  <1>3. gens \in SUBSET (0..Len(runs)) /\ gens # {}
    BY <1>1, <1>2 DEF SameCohort
  <1>4. ats \in SUBSET (0..Len(runs)) /\ ats # {}
    BY <1>1, <1>2
  <1>5. /\ \A i \in SameCohort(c) : runs[i].gen \in gens
        /\ \A i \in overlapping : runs[i].at \in ats
    OBVIOUS
  <1>6. NextGen(c) = 1 + Max(gens) /\ NextAt(c) = 1 + Max(ats)
    BY DEF NextGen, NextAt
  <1> HIDE DEF gens, ats
  <1>7. /\ Max(gens) \in 0..Len(runs) /\ \A x \in gens : x <= Max(gens)
        /\ Max(ats) \in 0..Len(runs) /\ \A x \in ats : x <= Max(ats)
    BY <1>1, <1>3, <1>4, GreatestNatural
  <1>8. QED
    BY <1>1, <1>2, <1>3, <1>4, <1>5, <1>6, <1>7 DEF SameCohort

\* A call that goes round again, or returns.
LEMMA NextAttemptFacts ==
  ASSUME NEW w \in Workers, calls[w] \in Call, calls[w].scope \in Scopes, NextAttempt(w)
  PROVE  \E next \in Call :
           /\ Set(w, next) /\ next.pc \in {"capture", "unavailable"}
           /\ \A asked, made : Shape(next, asked, made)
  <1> DEFINE c    == calls[w]
             next == [Idle EXCEPT !.pc = "capture", !.scope = c.scope, !.force = c.force,
                                  !.attempt = c.attempt + 1]
             back == [Idle EXCEPT !.pc = "unavailable"]
  <1>1. CASE c.attempt + 1 < Attempts
    <2>1. c.attempt + 1 \in 0..(Attempts - 1)
      <3>1. c.attempt \in 0..(Attempts - 1)
        BY DEF Call
      <3>2. Attempts \in Nat \ {0}
        BY EvaluationAssumption
      <3> HIDE DEF c
      <3>3. QED
        BY <1>1, <3>1, <3>2
    <2>2. next \in Call /\ next.pc = "capture" /\ next.scope = c.scope
      BY <2>1, IdleType DEF Call, Evaluates
    <2>3. Set(w, next)
      BY <1>1 DEF NextAttempt
    <2> HIDE DEF next
    <2>4. \A asked, made : Shape(next, asked, made)
      BY <2>2 DEF Shape, Ingests, Loaded, Busy, Claiming
    <2>5. QED
      BY <2>2, <2>3, <2>4
  <1>2. CASE ~(c.attempt + 1 < Attempts)
    <2>1. back \in Call /\ back.pc = "unavailable" /\ \A asked, made : Shape(back, asked, made)
      BY RestFacts, IdleType DEF Rest, Call
    <2>2. Set(w, back)
      BY <1>2 DEF NextAttempt, Return
    <2> HIDE DEF back
    <2>3. QED
      BY <2>1, <2>2
  <1>3. QED
    BY <1>1, <1>2

\* The steps of an evaluation that write no run.
LEMMA EvaluateType ==
  ASSUME TypeInv, NEW w \in Workers,
         \/ \E scope \in Scopes, force \in BOOLEAN : Evaluate(w, scope, force)
         \/ Capture(w) \/ TakeLock(w) \/ Plan(w) \/ Recheck(w) \/ Engines(w)
         \/ CheckSource(w) \/ CommitFails(w) \/ MarkFails(w) \/ Conclude(w)
  PROVE  TypeInv' /\ Kept
  <1> DEFINE c == calls[w]
  <1>1. c \in Call /\ Shape(c, requests, runs)
    BY DEF TypeInv, TypeOK
  <1>2. TablesOK
    BY DEF TypeInv, TypeOK, TablesOK, Numbered
  <1>3. /\ source \in Workers \cup {Free} /\ evaluations \in 0..MaxEvaluations
        /\ held \in [Workers -> SUBSET (Datasets \X Nat)]
        /\ faults \in 0..MaxFaults /\ MaxFaults \in Nat /\ MaxEvaluations \in Nat
    BY <1>2, EvaluationAssumption DEF TablesOK
  <1>4. ASSUME NEW v \in Workers, NEW locks \in SUBSET (Datasets \X Nat),
               held' = [held EXCEPT ![v] = locks]
        PROVE  held' \in [Workers -> SUBSET (Datasets \X Nat)]
    BY <1>3, <1>4
  <1>5. CASE \E scope \in Scopes, force \in BOOLEAN : Evaluate(w, scope, force)
    <2>1. PICK scope \in Scopes, force \in BOOLEAN : Evaluate(w, scope, force)
      BY <1>5
    <2> DEFINE next == [Idle EXCEPT !.pc = "capture", !.scope = scope, !.force = force]
    <2>2. Set(w, next) /\ UNCHANGED <<database, source, held, faults>>
      BY <2>1 DEF Evaluate
    <2>6. evaluations' \in 0..MaxEvaluations
      <3>1. evaluations < MaxEvaluations /\ evaluations' = evaluations + 1
        BY <2>1 DEF Evaluate
      <3>2. QED
        BY <1>3, <3>1
    <2>3. next \in Call /\ next.pc = "capture" /\ next.scope = scope
      BY IdleType DEF Call, Evaluates
    <2> HIDE DEF next
    <2>4. Shape(next, requests, runs)
      BY <2>3 DEF Shape, Ingests, Loaded, Busy, Claiming
    <2>5. QED
      BY <1>3, <2>2, <2>3, <2>4, <2>6, QuietStep
  <1>6. CASE Capture(w)
    <2>1. c.pc = "capture" /\ UNCHANGED <<database, source, held, faults, evaluations>>
      BY <1>6 DEF Capture, At
    <2>2. CASE Authenticated
      <3> DEFINE data == Data(LocalQuery)
                 next == [c EXCEPT !.pc = "lock", !.data = data]
      <3>1. data \in Datasets
        BY <1>2, <2>2, LocalQueryFacts, DataFacts DEF Authenticated, TablesOK
      <3>2. Set(w, next)
        BY <1>6, <2>2 DEF Capture
      <3> HIDE DEF data
      <3>3. next \in Call /\ next.pc = "lock" /\ next.scope = c.scope /\ next.data = data
        BY <1>1, <3>1 DEF Call, Evaluates
      <3> HIDE DEF next
      <3>4. Shape(next, requests, runs)
        BY <1>1, <2>1, <3>1, <3>3 DEF Shape, Ingests, Evaluates, Loaded, Busy, Claiming
      <3>5. QED
        BY <2>1, <3>2, <3>3, <3>4, CallStep
    <2>3. CASE ~Authenticated
      <3> DEFINE next == [Idle EXCEPT !.pc = "unavailable"]
      <3>1. next \in Call /\ Shape(next, requests, runs)
        BY RestFacts DEF Rest
      <3>2. Set(w, next)
        BY <1>6, <2>3 DEF Capture, Return
      <3> HIDE DEF next
      <3>3. QED
        BY <2>1, <3>1, <3>2, CallStep
    <2>4. QED
      BY <2>2, <2>3
  <1>7. CASE TakeLock(w)
    <2>1. c.pc = "lock" /\ UNCHANGED <<database, source, faults, evaluations>>
      BY <1>7 DEF TakeLock, At
    <2>2. c.scope \in Scopes /\ c.data \in Datasets /\ c.scope \subseteq Nat
      BY <1>1, <2>1, EvaluationAssumption DEF Shape, Evaluates, Loaded, Claiming
    <2>3. PICK l \in NextLocks(w) : held' = [held EXCEPT ![w] = @ \cup {l}]
      BY <1>7 DEF TakeLock
    <2>4. l \in Datasets \X Nat
      BY <2>2, <2>3 DEF NextLocks, Waiting, Locks
    <2>5. held[w] \cup {l} \in SUBSET (Datasets \X Nat)
      BY <1>3, <2>4
    <2>6. held' \in [Workers -> SUBSET (Datasets \X Nat)]
      BY <1>4, <2>3, <2>5
    <2>7. CASE Cardinality(Waiting(w)) = 1
      <3> DEFINE next == [c EXCEPT !.pc = "plan"]
      <3>1. Set(w, next)
        BY <1>7, <2>7 DEF TakeLock, Goto
      <3>2. next \in Call /\ next.pc = "plan" /\ next.scope = c.scope /\ next.data = c.data
        BY <1>1 DEF Call, Evaluates
      <3> HIDE DEF next
      <3>3. Shape(next, requests, runs)
        BY <2>2, <3>2 DEF Shape, Ingests, Evaluates, Loaded, Busy, Claiming
      <3>4. QED
        BY <1>3, <2>1, <2>6, <3>1, <3>2, <3>3, QuietStep
    <2>8. CASE Cardinality(Waiting(w)) # 1
      <3>1. UNCHANGED calls
        BY <1>7, <2>8 DEF TakeLock
      <3>2. Set(w, c)
        BY <1>3, <3>1 DEF TypeInv, TypeOK, Set
      <3>3. QED
        BY <1>1, <1>3, <2>1, <2>6, <3>2, QuietStep
    <2>9. QED
      BY <2>7, <2>8
  <1>8. CASE Plan(w)
    <2>1. c.pc = "plan" /\ UNCHANGED <<database, source, faults, evaluations>>
      BY <1>8 DEF Plan
    <2>2. c.scope \in Scopes /\ c.data \in Datasets
      BY <1>1, <2>1 DEF Shape, Evaluates, Loaded, Claiming
    <2>3. ASSUME NEW i \in Cached(c), Set(w, [c EXCEPT !.pc = "reuse", !.item = i]),
                 held' = [held EXCEPT ![w] = {}]
          PROVE  TypeInv' /\ Kept
      <3> DEFINE next == [c EXCEPT !.pc = "reuse", !.item = i]
      <3>1. i \in DOMAIN runs /\ i \in Nat /\ runs[i].scope = c.scope /\ runs[i].data = c.data
        BY <1>2, <2>3 DEF Cached, Latest, SameCohort, TablesOK
      <3>2. /\ next \in Call /\ next.pc = "reuse" /\ next.item = i
            /\ next.scope = c.scope /\ next.data = c.data
        BY <1>1, <3>1 DEF Call, Evaluates
      <3> HIDE DEF next
      <3>3. Shape(next, requests, runs)
        BY <2>2, <3>1, <3>2 DEF Shape, Ingests, Evaluates, Loaded, Busy, Claiming
      <3>4. held' \in [Workers -> SUBSET (Datasets \X Nat)]
        BY <1>4, <2>3
      <3>5. Set(w, next)
        BY <2>3 DEF next
      <3>6. QED
        BY <1>3, <2>1, <3>2, <3>3, <3>4, <3>5, QuietStep
    <2>4. ASSUME UNCHANGED held,
                 Set(w, [c EXCEPT !.pc = "insert", !.gen = NextGen(c), !.at = NextAt(c)])
          PROVE  TypeInv' /\ Kept
      <3> DEFINE gen  == NextGen(c)
                 at   == NextAt(c)
                 next == [c EXCEPT !.pc = "insert", !.gen = gen, !.at = at]
      <3>1. gen \in 1..(Len(runs) + 1) /\ at \in 1..(Len(runs) + 1) /\ Len(runs) \in Nat
        BY <1>2, NextNumbers DEF TablesOK
      <3>2. Set(w, next)
        BY <2>4
      <3> HIDE DEF gen, at
      <3>3. /\ next \in Call /\ next.pc = "insert" /\ next.gen = gen /\ next.at = at
            /\ next.scope = c.scope /\ next.data = c.data
        <4>1. gen \in Nat /\ at \in Nat
          BY <3>1
        <4>2. QED
          BY <1>1, <4>1 DEF Call, Evaluates
      <3> HIDE DEF next
      <3>4. Shape(next, requests, runs)
        BY <2>2, <3>1, <3>3 DEF Shape, Ingests, Evaluates, Loaded, Busy, Claiming
      <3>5. QED
        BY <1>3, <2>1, <2>4, <3>2, <3>3, <3>4, CallStep
    <2>5. QED
      BY <1>8, <2>3, <2>4 DEF Plan
  <1>9. CASE Recheck(w)
    <2>1. c.pc = "reuse" /\ UNCHANGED <<database, source, held, faults, evaluations>>
      BY <1>9 DEF Recheck
    <2>2. c.scope \in Scopes
      BY <1>1, <2>1 DEF Shape, Evaluates
    <2>3. CASE NextAttempt(w)
      BY <1>1, <2>1, <2>2, <2>3, NextAttemptFacts, CallStep
    <2>4. CASE Return(w, "reused")
      <3> DEFINE next == [Idle EXCEPT !.pc = "reused"]
      <3>1. next \in Call /\ Shape(next, requests, runs) /\ Set(w, next)
        BY <2>4, RestFacts DEF Rest, Return
      <3> HIDE DEF next
      <3>2. QED
        BY <2>1, <3>1, CallStep
    <2>5. QED
      BY <1>9, <2>3, <2>4 DEF Recheck
  <1>10. ASSUME NEW verdict \in {"stale", "error"}, Fails(w, verdict), c.pc \in Evaluates,
                c.pc \in Busy,
                UNCHANGED <<database, held, evaluations>>,
                source' \in Workers \cup {Free}, faults' \in 0..MaxFaults
         PROVE  TypeInv' /\ Kept
    <2> DEFINE next == [c EXCEPT !.pc = "failing", !.verdict = verdict, !.left = c.scope]
    <2>1. /\ c.scope \in Scopes /\ c.data \in Datasets /\ c.scope \in SUBSET Nat
          /\ c.item \in DOMAIN runs /\ runs[c.item].scope = c.scope /\ runs[c.item].data = c.data
      BY <1>1, <1>10, EvaluationAssumption DEF Shape, Loaded
    <2>2. /\ next \in Call /\ next.pc = "failing" /\ next.scope = c.scope /\ next.data = c.data
          /\ next.item = c.item /\ next.left = c.scope /\ next.verdict = verdict
      BY <1>1, <1>10, <2>1 DEF Call, Evaluates
    <2>3. Set(w, next)
      BY <1>10 DEF Fails
    <2> HIDE DEF next, c
    <2>4. Shape(next, requests, runs)
      BY <2>1, <2>2 DEF Shape, Ingests, Evaluates, Loaded, Busy, Claiming
    <2>5. QED
      BY <1>3, <1>10, <2>2, <2>3, <2>4, QuietStep
  <1>11. CASE Engines(w)
    <2>1. c.pc = "engines" /\ UNCHANGED <<database, source, held, faults, evaluations>>
      BY <1>11 DEF Engines, At
    <2>2. CASE Fails(w, "error")
      BY <1>3, <1>10, <2>1, <2>2 DEF Evaluates, Busy
    <2>3. CASE Goto(w, "check")
      <3> DEFINE next == [c EXCEPT !.pc = "check"]
      <3>1. /\ next \in Call /\ next.pc = "check" /\ next.scope = c.scope /\ next.data = c.data
            /\ next.item = c.item
        BY <1>1 DEF Call, Evaluates
      <3>2. Set(w, next)
        BY <2>3 DEF Goto
      <3> HIDE DEF next
      <3>3. Shape(next, requests, runs)
        BY <1>1, <2>1, <3>1 DEF Shape, Ingests, Evaluates, Loaded, Busy, Claiming
      <3>4. QED
        BY <2>1, <3>1, <3>2, <3>3, CallStep
    <2>4. QED
      BY <1>11, <2>2, <2>3 DEF Engines
  <1>12. CASE CheckSource(w)
    <2>1. c.pc = "check" /\ UNCHANGED <<database, held, faults, evaluations>>
      BY <1>12 DEF CheckSource
    <2>2. CASE IsCurrent(c.data)
      <3> DEFINE next == [c EXCEPT !.pc = "commit"]
      <3>1. /\ next \in Call /\ next.pc = "commit" /\ next.scope = c.scope /\ next.data = c.data
            /\ next.item = c.item
        BY <1>1 DEF Call, Evaluates
      <3>2. Set(w, next) /\ source' = w
        BY <1>12, <2>2 DEF CheckSource, Goto
      <3> HIDE DEF next
      <3>3. Shape(next, requests, runs)
        BY <1>1, <2>1, <3>1 DEF Shape, Ingests, Evaluates, Loaded, Busy, Claiming
      <3>4. QED
        BY <1>3, <2>1, <3>1, <3>2, <3>3, QuietStep
    <2>3. CASE ~IsCurrent(c.data)
      <3>1. Fails(w, "stale") /\ UNCHANGED source
        BY <1>12, <2>3 DEF CheckSource
      <3>2. QED
        BY <1>3, <1>10, <2>1, <3>1 DEF Evaluates, Busy
    <2>4. QED
      BY <2>2, <2>3
  <1>13. ASSUME Fault PROVE faults' \in 0..MaxFaults
    BY <1>3, <1>13 DEF Fault
  <1>14. CASE CommitFails(w)
    <2>1. /\ c.pc = "commit" /\ Fault /\ source' = Free
          /\ UNCHANGED <<database, held, evaluations>>
          /\ Fails(w, "error") \/ Return(w, "raised")
      BY <1>14 DEF CommitFails, ReadBack, At
    <2>2. CASE Fails(w, "error")
      BY <1>10, <1>13, <2>1, <2>2 DEF Evaluates, Busy
    <2>3. CASE Return(w, "raised")
      <3> DEFINE next == [Idle EXCEPT !.pc = "raised"]
      <3>1. next \in Call /\ Shape(next, requests, runs) /\ Set(w, next)
        BY <2>3, RestFacts DEF Rest, Return
      <3> HIDE DEF next
      <3>2. /\ source' \in Workers \cup {Free} /\ faults' \in 0..MaxFaults
            /\ held' \in [Workers -> SUBSET (Datasets \X Nat)]
            /\ evaluations' \in 0..MaxEvaluations
        BY <1>3, <1>13, <2>1
      <3>3. QED
        BY <2>1, <3>1, <3>2, QuietStep
    <2>4. QED
      BY <2>1, <2>2, <2>3
  <1>15. CASE MarkFails(w)
    <2>1. c.pc = "failing" /\ Fault /\ UNCHANGED <<database, source, held, evaluations>>
      BY <1>15 DEF MarkFails
    <2>2. CASE Fails(w, "error")
      BY <1>3, <1>10, <1>13, <2>1, <2>2 DEF Evaluates, Busy
    <2>3. CASE Set(w, [c EXCEPT !.left = @ \ {Min(c.left)}])
      <3> DEFINE left == c.left \ {Min(c.left)}
                 next == [c EXCEPT !.left = left]
      <3>1. Set(w, next) /\ left \subseteq c.left
        BY <2>3
      <3> HIDE DEF left
      <3>2. /\ next \in Call /\ next.pc = "failing" /\ next.scope = c.scope
            /\ next.data = c.data /\ next.item = c.item /\ next.left = left
            /\ next.verdict = c.verdict
        BY <1>1, <2>1, <3>1 DEF Call
      <3> HIDE DEF next
      <3>3. Shape(next, requests, runs)
        BY <1>1, <2>1, <3>1, <3>2 DEF Shape, Ingests, Evaluates, Loaded, Busy, Claiming
      <3>4. QED
        BY <2>1, <3>1, <3>2, <3>3, CallStep
    <2>4. CASE Set(w, [c EXCEPT !.left = {}, !.verdict = "error"])
      <3> DEFINE next == [c EXCEPT !.left = {}, !.verdict = "error"]
      <3>1. /\ next \in Call /\ next.pc = "failing" /\ next.scope = c.scope
            /\ next.data = c.data /\ next.item = c.item /\ next.left = {}
            /\ next.verdict = "error"
        BY <1>1, <2>1 DEF Call
      <3>2. Set(w, next)
        BY <2>4
      <3> HIDE DEF next
      <3>3. Shape(next, requests, runs)
        BY <1>1, <2>1, <3>1 DEF Shape, Ingests, Evaluates, Loaded, Busy, Claiming
      <3>4. QED
        BY <2>1, <3>1, <3>2, <3>3, CallStep
    <2>5. QED
      BY <1>15, <2>2, <2>3, <2>4 DEF MarkFails
  <1>16. CASE Conclude(w)
    <2>1. c.pc = "failing" /\ UNCHANGED <<database, source, faults, evaluations>>
      BY <1>16 DEF Conclude
    <2>2. held' \in [Workers -> SUBSET (Datasets \X Nat)]
      BY <1>4, <1>16 DEF Conclude
    <2>3. c.scope \in Scopes
      BY <1>1, <2>1 DEF Shape, Evaluates
    <2>4. CASE NextAttempt(w)
      BY <1>1, <1>3, <2>1, <2>2, <2>3, <2>4, NextAttemptFacts, QuietStep
    <2>5. CASE Return(w, "raised")
      <3> DEFINE next == [Idle EXCEPT !.pc = "raised"]
      <3>1. next \in Call /\ Shape(next, requests, runs) /\ Set(w, next)
        BY <2>5, RestFacts DEF Rest, Return
      <3> HIDE DEF next
      <3>2. QED
        BY <1>3, <2>1, <2>2, <3>1, QuietStep
    <2>6. QED
      BY <1>16, <2>4, <2>5 DEF Conclude
  <1>17. QED
    BY <1>5, <1>6, <1>7, <1>8, <1>9, <1>11, <1>12, <1>14, <1>15, <1>16

\* What the engines found goes into the rows that are still running.
LEMMA PublishFacts ==
  ASSUME TypeInv, NEW w \in Workers, calls[w].pc = "commit",
         NEW found \in [calls[w].scope -> {"evaluated", "unavailable"}],
         Publish(calls[w], found)
  PROVE  LET c    == calls[w]
             rows == [m \in c.scope |-> IF runs[c.item].status[m] = "running" THEN found[m]
                                        ELSE runs[c.item].status[m]]
         IN  /\ c.item \in DOMAIN runs /\ rows \in [runs[c.item].scope -> Rows]
             /\ runs' = [runs EXCEPT ![c.item].status = rows]
  <1> DEFINE c    == calls[w]
             old  == runs[c.item].status
             rows == [m \in c.scope |-> IF old[m] = "running" THEN found[m] ELSE old[m]]
  <1>1. Shape(c, requests, runs) /\ TablesOK
    BY DEF TypeInv, TypeOK, TablesOK, Numbered
  <1>2. c.item \in DOMAIN runs /\ runs[c.item].scope = c.scope
    BY <1>1 DEF Shape, Busy
  <1>3. old \in [c.scope -> Rows]
    <2>1. runs[c.item] \in Run /\ DOMAIN old = c.scope
      BY <1>1, <1>2 DEF TablesOK
    <2>2. QED
      BY <2>1 DEF Run
  <1>4. rows \in [c.scope -> Rows]
    <2>1. {"evaluated", "unavailable"} \subseteq Rows
      BY DEF Rows
    <2>2. \A m \in c.scope : found[m] \in Rows /\ old[m] \in Rows
      BY <1>3, <2>1
    <2> HIDE DEF c, old
    <2>3. QED
      BY <2>2
  <1>5. runs' = [runs EXCEPT ![c.item].status = rows]
    BY <1>2 DEF Publish
  <1>6. QED
    BY <1>2, <1>4, <1>5

\* The next row of a failing call is its least.
LEMMA MarkFacts ==
  ASSUME TypeInv, NEW w \in Workers, MarkFailed(w)
  PROVE  LET c    == calls[w]
             old  == runs[c.item].status
             rows == [old EXCEPT ![Min(c.left)] = Failed(old[Min(c.left)])]
         IN  /\ c.pc = "failing" /\ c.item \in DOMAIN runs /\ Min(c.left) \in c.left
             /\ c.left \subseteq c.scope /\ old \in [c.scope -> Rows]
             /\ rows \in [runs[c.item].scope -> Rows]
             /\ runs' = [runs EXCEPT ![c.item].status = rows]
             /\ Set(w, [c EXCEPT !.left = c.left \ {Min(c.left)}])
  <1> DEFINE c    == calls[w]
             old  == runs[c.item].status
             rows == [old EXCEPT ![Min(c.left)] = Failed(old[Min(c.left)])]
  <1>1. Shape(c, requests, runs) /\ TablesOK /\ c \in Call
    BY DEF TypeInv, TypeOK, TablesOK, Numbered
  <1>2. c.pc = "failing" /\ c.left # {}
    BY DEF MarkFailed
  <1>3. c.item \in DOMAIN runs /\ runs[c.item].scope = c.scope /\ c.left \subseteq c.scope
    BY <1>1, <1>2 DEF Shape, Busy
  <1>4. Min(c.left) \in c.left
    BY <1>1, <1>2, LeastNatural DEF Call
  <1>5. old \in [c.scope -> Rows]
    <2>1. runs[c.item] \in Run /\ DOMAIN old = c.scope
      BY <1>1, <1>3 DEF TablesOK
    <2>2. QED
      BY <2>1 DEF Run
  <1>6. rows \in [c.scope -> Rows]
    <2>1. Failed(old[Min(c.left)]) \in Rows
      BY <1>3, <1>4, <1>5 DEF Failed, Rows
    <2> HIDE DEF c, old
    <2>2. QED
      BY <1>5, <2>1
  <1>7. runs' = [runs EXCEPT ![c.item].status = rows]
    <2>1. runs' = [runs EXCEPT ![c.item].status[Min(c.left)] = Failed(@)]
      BY DEF MarkFailed
    <2>2. QED
      BY <2>1
  <1>8. Set(w, [c EXCEPT !.left = c.left \ {Min(c.left)}])
    BY DEF MarkFailed
  <1>9. QED
    BY <1>2, <1>3, <1>4, <1>5, <1>6, <1>7, <1>8

\* The steps that write runs.
LEMMA WriteType ==
  ASSUME TypeInv, NEW w \in Workers,
         Insert(w) \/ InsertFails(w) \/ Commit(w) \/ CommitUnsure(w) \/ MarkFailed(w)
  PROVE  TypeInv' /\ Kept
  <1> DEFINE c == calls[w]
  <1>1. c \in Call /\ Shape(c, requests, runs)
    BY DEF TypeInv, TypeOK
  <1>2. TablesOK
    BY DEF TypeInv, TypeOK, TablesOK, Numbered
  <1>3. /\ source \in Workers \cup {Free} /\ evaluations \in 0..MaxEvaluations
        /\ held \in [Workers -> SUBSET (Datasets \X Nat)]
        /\ faults \in 0..MaxFaults /\ MaxFaults \in Nat
    BY <1>2, EvaluationAssumption DEF TablesOK
  <1>4. ASSUME UNCHANGED <<bars, requests, evaluations>>, source' \in Workers \cup {Free},
               faults' = faults \/ Fault,
               held' = held \/ held' = [held EXCEPT ![w] = {}],
               runs' \in Seq(Run), Numbered',
               \A i \in DOMAIN runs' : DOMAIN runs'[i].status = runs'[i].scope
        PROVE  TablesOK'
    <2>1. faults' \in 0..MaxFaults
      BY <1>3, <1>4 DEF Fault
    <2>2. held' \in [Workers -> SUBSET (Datasets \X Nat)]
      BY <1>3, <1>4
    <2>3. QED
      BY <1>2, <1>4, <2>1, <2>2 DEF TablesOK
  <1>5. ASSUME c.pc = "insert"
        PROVE  /\ c.scope \in Scopes /\ c.data \in Datasets /\ c.scope \in SUBSET Nat
               /\ c.gen \in 0..(Len(runs) + 1) /\ c.at \in 0..(Len(runs) + 1)
               /\ "running" \in Rows /\ "absent" \in Rows /\ Len(runs) \in Nat
    <2>1. c.scope \in Scopes /\ c.data \in Datasets /\ {c.gen, c.at} \subseteq 1..(Len(runs) + 1)
      BY <1>1, <1>5 DEF Shape, Evaluates, Loaded, Claiming
    <2>2. Len(runs) \in Nat
      BY <1>2 DEF TablesOK
    <2>3. c.scope \in SUBSET Nat
      BY <2>1, EvaluationAssumption
    <2>4. "running" \in Rows /\ "absent" \in Rows
      BY DEF Rows
    <2> HIDE DEF c
    <2>5. QED
      BY <2>1, <2>2, <2>3, <2>4
  <1>6. CASE Insert(w)
    <2>1. /\ c.pc = "insert" /\ UNCHANGED <<bars, requests, source, faults, evaluations>>
          /\ runs' = Append(runs, NewRun(c, c.gen, "running"))
          /\ held' = [held EXCEPT ![w] = {}]
      BY <1>6 DEF Insert
    <2>2. /\ runs' \in Seq(Run) /\ Len(runs) \in Nat /\ Numbered' /\ Kept
          /\ Len(runs) + 1 \in DOMAIN runs'
          /\ runs'[Len(runs) + 1] = NewRun(c, c.gen, "running")
          /\ \A i \in DOMAIN runs' : DOMAIN runs'[i].status = runs'[i].scope
      BY <1>1, <1>2, <1>5, <2>1, AppendRun
    <2>3. TablesOK'
      BY <1>3, <1>4, <2>1, <2>2
    <2> DEFINE next == [c EXCEPT !.pc = "engines", !.item = Len(runs) + 1]
    <2>4. /\ next \in Call /\ next.pc = "engines" /\ next.item = Len(runs) + 1
          /\ next.scope = c.scope /\ next.data = c.data
      <3>1. Len(runs) + 1 \in Nat
        BY <2>2
      <3>2. QED
        BY <1>1, <3>1 DEF Call, Evaluates
    <2>5. Set(w, next)
      BY <1>6 DEF Insert
    <2> HIDE DEF next
    <2>6. Shape(next, requests', runs')
      BY <1>5, <2>1, <2>2, <2>4 DEF NewRun, Shape, Ingests, Evaluates, Loaded, Busy, Claiming
    <2>7. QED
      BY <2>2, <2>3, <2>4, <2>5, <2>6, OneCall
  <1>7. CASE InsertFails(w)
    <2>1. c.pc = "insert" /\ Fault /\ UNCHANGED <<bars, requests, source, held, evaluations>>
      BY <1>7 DEF InsertFails
    <2>2. ASSUME c.tries + 1 < Tries, UNCHANGED runs,
                 Set(w, [c EXCEPT !.pc = "plan", !.tries = c.tries + 1])
          PROVE  TypeInv' /\ Kept
      <3> DEFINE tries == c.tries + 1
                 next  == [c EXCEPT !.pc = "plan", !.tries = tries]
      <3>1. tries \in 0..(Tries - 1)
        <4>1. Tries \in Nat \ {0}
          BY EvaluationAssumption
        <4>2. c.tries \in 0..(Tries - 1)
          BY <1>1 DEF Call
        <4> HIDE DEF c
        <4>3. QED
          BY <2>2, <4>1, <4>2
      <3>2. Set(w, next)
        BY <2>2
      <3> HIDE DEF tries
      <3>3. next \in Call /\ next.pc = "plan" /\ next.scope = c.scope /\ next.data = c.data
        BY <1>1, <3>1 DEF Call, Evaluates
      <3> HIDE DEF next
      <3>4. Shape(next, requests, runs)
        BY <1>5, <2>1, <3>3 DEF Shape, Ingests, Evaluates, Loaded, Busy, Claiming
      <3>5. UNCHANGED <<database, source, held, evaluations>>
        BY <2>1, <2>2 DEF database
      <3>6. QED
        BY <2>1, <3>2, <3>3, <3>4, <3>5, CallStep
    <2>3. ASSUME runs' = Append(runs, NewRun(c, 0, "absent")),
                 Set(w, [c EXCEPT !.pc = "failing", !.item = Len(runs) + 1,
                                  !.left = c.scope, !.verdict = "error"])
          PROVE  TypeInv' /\ Kept
      <3>1. 0 \in 0..(Len(runs) + 1)
        BY <1>5, <2>1
      <3>2. /\ runs' \in Seq(Run) /\ Len(runs) \in Nat /\ Numbered' /\ Kept
            /\ Len(runs) + 1 \in DOMAIN runs'
            /\ runs'[Len(runs) + 1] = NewRun(c, 0, "absent")
            /\ \A i \in DOMAIN runs' : DOMAIN runs'[i].status = runs'[i].scope
        BY <1>1, <1>2, <1>5, <2>1, <2>3, <3>1, AppendRun
      <3>3. TablesOK'
        BY <1>3, <1>4, <2>1, <3>2
      <3> DEFINE next == [c EXCEPT !.pc = "failing", !.item = Len(runs) + 1,
                                   !.left = c.scope, !.verdict = "error"]
      <3>4. /\ next \in Call /\ next.pc = "failing" /\ next.item = Len(runs) + 1
            /\ next.scope = c.scope /\ next.data = c.data /\ next.left = c.scope
            /\ next.verdict = "error"
        <4>1. Len(runs) + 1 \in Nat /\ c.scope \in SUBSET Nat
          BY <1>5, <2>1, <3>2
        <4>2. QED
          BY <1>1, <4>1 DEF Call, Evaluates
      <3>5. Set(w, next)
        BY <2>3
      <3> HIDE DEF next
      <3>6. Shape(next, requests', runs')
        <4>1. /\ Len(runs) + 1 \in DOMAIN runs' /\ runs'[Len(runs) + 1].scope = c.scope
              /\ runs'[Len(runs) + 1].data = c.data
          BY <2>1, <3>2 DEF NewRun
        <4>2. c.scope \in Scopes /\ c.data \in Datasets
          BY <1>5, <2>1
        <4> HIDE DEF c
        <4>3. next.pc \notin Ingests \cup {"fetch", "finalize", "insert"}
          BY <3>4 DEF Ingests
        <4>4. QED
          BY <3>4, <4>1, <4>2, <4>3 DEF Shape
      <3>7. QED
        BY <3>2, <3>3, <3>4, <3>5, <3>6, OneCall
    <2>4. QED
      BY <1>7, <2>2, <2>3 DEF InsertFails
  <1>8. ASSUME c.pc = "commit", NEW found \in [c.scope -> {"evaluated", "unavailable"}],
               Publish(c, found), UNCHANGED <<bars, requests, held, evaluations>>,
               source' = Free, faults' = faults \/ Fault,
               \/ Fails(w, "error")
               \/ \E outcome \in {"completed", "raised"} : Return(w, outcome)
        PROVE  TypeInv' /\ Kept
    <2>1. /\ runs' \in Seq(Run) /\ Numbered' /\ Kept
          /\ \A i \in DOMAIN runs' : DOMAIN runs'[i].status = runs'[i].scope
      <3>1. PICK rows \in [runs[c.item].scope -> Rows] :
              c.item \in DOMAIN runs /\ runs' = [runs EXCEPT ![c.item].status = rows]
        BY <1>8, PublishFacts
      <3>2. TablesOK /\ requests' = requests
        BY <1>2, <1>8
      <3> QED
        BY <3>1, <3>2, ChangeRows, ZenonT(60)
    <2>2. TablesOK'
      BY <1>3, <1>4, <1>8, <2>1
    <2>3. ASSUME NEW outcome \in {"completed", "raised"}, Return(w, outcome)
          PROVE  TypeInv' /\ Kept
      <3> DEFINE next == [Idle EXCEPT !.pc = outcome]
      <3>1. next \in Call /\ Shape(next, requests', runs')
        BY RestFacts DEF Rest
      <3>2. Set(w, next)
        BY <2>3 DEF Return
      <3> HIDE DEF next
      <3>3. QED
        BY <2>1, <2>2, <3>1, <3>2, OneCall
    <2>4. CASE Fails(w, "error")
      <3> DEFINE next == [c EXCEPT !.pc = "failing", !.verdict = "error", !.left = c.scope]
      <3>1. /\ c.scope \in Scopes /\ c.data \in Datasets /\ c.scope \in SUBSET Nat
            /\ c.item \in DOMAIN runs /\ runs[c.item].scope = c.scope /\ runs[c.item].data = c.data
        BY <1>1, <1>8, EvaluationAssumption DEF Shape, Evaluates, Busy, Loaded
      <3>2. /\ next \in Call /\ next.pc = "failing" /\ next.scope = c.scope /\ next.data = c.data
            /\ next.item = c.item /\ next.left = c.scope /\ next.verdict = "error"
        BY <1>1, <3>1 DEF Call, Evaluates
      <3>3. Set(w, next)
        BY <2>4 DEF Fails
      <3> HIDE DEF next, c
      <3>4. Shape(next, requests', runs')
        BY <2>1, <3>1, <3>2 DEF Kept, SameRun, Shape, Ingests, Evaluates, Loaded, Busy, Claiming
      <3>5. QED
        BY <2>1, <2>2, <3>2, <3>3, <3>4, OneCall
    <2>5. QED
      BY <1>8, <2>3, <2>4
  <1>9. CASE Commit(w)
    BY <1>8, <1>9 DEF Commit
  <1>10. CASE CommitUnsure(w)
    BY <1>8, <1>10 DEF CommitUnsure, ReadBack
  <1>11. CASE MarkFailed(w)
    <2>1. /\ UNCHANGED <<bars, requests, source, held, faults, evaluations>>
      BY <1>11 DEF MarkFailed
    <2>2. /\ runs' \in Seq(Run) /\ Numbered' /\ Kept
          /\ \A i \in DOMAIN runs' : DOMAIN runs'[i].status = runs'[i].scope
          /\ c.pc = "failing"
      <3>1. PICK item, rows : /\ item \in DOMAIN runs /\ rows \in [runs[item].scope -> Rows]
                              /\ runs' = [runs EXCEPT ![item].status = rows]
        BY <1>11, MarkFacts
      <3>2. c.pc = "failing"
        BY <1>11 DEF MarkFailed
      <3>3. QED
        BY <1>2, <2>1, <3>1, <3>2, ChangeRows
    <2>3. TablesOK'
      BY <1>3, <1>4, <2>1, <2>2
    <2> DEFINE left == c.left \ {Min(c.left)}
               next == [c EXCEPT !.left = left]
    <2>4. Set(w, next) /\ left \subseteq c.left
      BY <1>11, MarkFacts
    <2> HIDE DEF left
    <2>5. /\ next \in Call /\ next.pc = "failing" /\ next.scope = c.scope
          /\ next.data = c.data /\ next.item = c.item /\ next.left = left
          /\ next.verdict = c.verdict
      BY <1>1, <2>2, <2>4 DEF Call
    <2> HIDE DEF next
    <2>6. Shape(next, requests', runs')
      BY <1>1, <2>2, <2>4, <2>5 DEF Kept, SameRun, Shape, Ingests, Evaluates, Loaded, Busy, Claiming
    <2>7. QED
      BY <2>2, <2>3, <2>4, <2>5, <2>6, OneCall
  <1>12. QED
    BY <1>6, <1>7, <1>9, <1>10, <1>11

\* The process ends.
LEMMA CrashType ==
  ASSUME TypeInv, Crash
  PROVE  TypeInv' /\ Kept
  <1>1. bars' = bars /\ requests' = requests /\ runs' = runs /\ evaluations' = evaluations
    BY DEF Crash, database
  <1>2. source' = Free /\ held' = [w \in Workers |-> {}] /\ calls' = [w \in Workers |-> Idle]
    BY DEF Crash
  <1>3. faults' \in 0..MaxFaults
    BY EvaluationAssumption DEF Crash, Fault, TypeInv, TypeOK
  <1>4. Kept
    BY <1>1 DEF TypeInv, TypeOK, Kept, SameRun
  <1>5. TypeOK'
    BY <1>1, <1>2, <1>3, IdleType DEF TypeInv, TypeOK
  <1>6. Numbered'
    BY <1>1 DEF TypeInv, Numbered
  <1>7. ASSUME NEW w \in Workers
        PROVE  Shape(calls'[w], requests', runs')
    <2>1. calls'[w].pc = "idle"
      BY <1>2, <1>7 DEF Idle
    <2>2. QED
      BY <2>1 DEF Shape, Ingests, Evaluates, Loaded, Busy, Claiming
  <1>8. QED
    BY <1>4, <1>5, <1>6, <1>7 DEF TypeInv

\* The steps of the threads.
LEMMA NextType ==
  ASSUME TypeInv, [Next]_vars
  PROVE  TypeInv' /\ Kept
  <1>1. CASE UNCHANGED vars
    BY <1>1 DEF vars, database, TypeInv, TypeOK, Numbered, Kept, SameRun
  <1>2. CASE Crash
    BY <1>2, CrashType
  <1>3. CASE \E w \in Workers :
               \/ \E range \in Requested, force \in BOOLEAN : Ingest(w, range, force)
               \/ \E scope \in Scopes, force \in BOOLEAN : Evaluate(w, scope, force)
               \/ Step(w) \/ Failure(w)
    BY <1>3, IngestType, EvaluateType, WriteType DEF Step, Failure
  <1>4. QED
    BY <1>1, <1>2, <1>3 DEF Next

LEMMA InitType == Init => TypeInv
  <1> SUFFICES ASSUME Init PROVE TypeInv
    OBVIOUS
  <1>1. TypeOK
    <2>1. /\ bars \in [1..Slots -> 0..MaxRevision] /\ evaluations \in 0..MaxEvaluations
          /\ faults \in 0..MaxFaults /\ Len(requests) <= MaxRequests
      BY EvaluationAssumption DEF Init
    <2>2. calls \in [Workers -> Call]
      BY IdleType DEF Init
    <2>3. requests \in Seq(Request) /\ runs \in Seq(Run) /\ DOMAIN runs = {}
      BY DEF Init
    <2>4. source \in Workers \cup {Free} /\ held \in [Workers -> SUBSET (Datasets \X Nat)]
      BY DEF Init
    <2>5. QED
      BY <2>1, <2>2, <2>3, <2>4 DEF TypeOK
  <1>2. Numbered
    BY DEF Init, Numbered
  <1>3. ASSUME NEW w \in Workers
        PROVE  Shape(calls[w], requests, runs)
    <2>1. calls[w].pc = "idle"
      BY <1>3 DEF Init, Idle
    <2>2. QED
      BY <2>1 DEF Shape, Ingests, Evaluates, Loaded, Busy, Claiming
  <1>4. QED
    BY <1>1, <1>2, <1>3 DEF TypeInv

\* Every variable keeps its type, and every thread has at hand what its step needs,
\* whatever the others do to the tables.
THEOREM TypeCorrect == Spec => []TypeInv
  <1>1. TypeInv /\ [Next]_vars => TypeInv'
    BY NextType
  <1>2. QED
    BY InitType, <1>1, PTL DEF Spec

-----------------------------------------------------------------------------
(* Where a step takes a thread.                                            *)

Same(n, c) == n.scope = c.scope /\ n.data = c.data

\* An ingest never becomes an evaluation.
LEMMA IngestMoves ==
  ASSUME TypeInv, NEW w \in Workers
  PROVE  LET c == calls[w]
             n == calls'[w]
             others == \A v \in Workers \ {w} : calls'[v] = calls[v]
         IN  /\ \A range \in Requested, force \in BOOLEAN :
                  Ingest(w, range, force) => c.pc \in Rest /\ n.pc \in Ingests /\ others
             /\ ReadGaps(w) \/ AppendGap(w) \/ FetchFails(w) \/ ReadManifest(w) =>
                  c.pc \in Ingests /\ n.pc \in Ingests /\ others
             /\ Finalize(w) \/ FinalizeFails(w) => c.pc = "finalize" /\ n.pc = "idle" /\ others
  <1> DEFINE c == calls[w]
             n == calls'[w]
             others == \A v \in Workers \ {w} : calls'[v] = calls[v]
  <1>1. calls \in [Workers -> Call] /\ Idle \in Call
    BY IdleType DEF TypeInv, TypeOK
  <1>2. ASSUME NEW next, Set(w, next)
        PROVE  n = next /\ others
    BY <1>1, <1>2 DEF Set
  <1>4. ASSUME NEW range \in Requested, NEW force \in BOOLEAN, Ingest(w, range, force)
        PROVE  c.pc \in Rest /\ n.pc \in Ingests /\ others
    <2> DEFINE next == [Idle EXCEPT !.pc = "gaps", !.force = force, !.item = Len(requests) + 1]
    <2>1. Set(w, next) /\ c.pc \in Rest
      BY <1>4 DEF Ingest
    <2>2. next.pc = "gaps"
      BY <1>1 DEF Call
    <2> HIDE DEF next
    <2>3. QED
      BY <1>2, <2>1, <2>2 DEF Ingests
  <1>5. ASSUME ReadGaps(w)
        PROVE  c.pc \in Ingests /\ n.pc \in Ingests /\ others
    <2>1. \A verdict : [c EXCEPT !.pc = "manifest", !.verdict = verdict].pc = "manifest"
      BY <1>1 DEF Call
    <2>2. \A left : [c EXCEPT !.pc = "fetch", !.left = left].pc = "fetch"
      BY <1>1 DEF Call
    <2>3. \E next : Set(w, next) /\ next.pc \in {"manifest", "fetch"}
      BY <1>5, <2>1, <2>2 DEF ReadGaps
    <2>4. c.pc = "gaps"
      BY <1>5 DEF ReadGaps
    <2> HIDE DEF c, n, others
    <2>5. QED
      BY <1>2, <2>3, <2>4 DEF Ingests
  <1>6. ASSUME AppendGap(w)
        PROVE  c.pc \in Ingests /\ n.pc \in Ingests /\ others
    <2>1. \A left, verdict :
            [c EXCEPT !.left = left, !.pc = IF left = {} THEN "manifest" ELSE "fetch",
                      !.verdict = verdict].pc \in {"manifest", "fetch"}
      BY <1>1 DEF Call
    <2>2. \E next : Set(w, next) /\ next.pc \in {"manifest", "fetch"}
      <3>1. PICK left, verdict :
              Set(w, [c EXCEPT !.left = left, !.pc = IF left = {} THEN "manifest" ELSE "fetch",
                               !.verdict = verdict])
        BY <1>6 DEF AppendGap
      <3>2. QED
        BY <2>1, <3>1
    <2>3. c.pc = "fetch"
      BY <1>6 DEF AppendGap
    <2> HIDE DEF c, n, others
    <2>4. QED
      BY <1>2, <2>2, <2>3 DEF Ingests
  <1>7. ASSUME FetchFails(w)
        PROVE  c.pc \in Ingests /\ n.pc \in Ingests /\ others
    <2>1. [c EXCEPT !.pc = "manifest", !.verdict = "unavailable", !.left = {}].pc = "manifest"
      BY <1>1 DEF Call
    <2>2. \E next : Set(w, next) /\ next.pc = "manifest"
      BY <1>7, <2>1 DEF FetchFails
    <2>3. c.pc = "fetch"
      BY <1>7 DEF FetchFails, At
    <2> HIDE DEF c, n, others
    <2>4. QED
      BY <1>2, <2>2, <2>3 DEF Ingests
  <1>8. ASSUME ReadManifest(w)
        PROVE  c.pc \in Ingests /\ n.pc \in Ingests /\ others
    <2>1. \A data, verdict :
            [c EXCEPT !.pc = "finalize", !.data = data, !.verdict = verdict].pc = "finalize"
      BY <1>1 DEF Call
    <2>2. \E next : Set(w, next) /\ next.pc = "finalize"
      <3>1. PICK data, verdict :
              Set(w, [c EXCEPT !.pc = "finalize", !.data = data, !.verdict = verdict])
        BY <1>8 DEF ReadManifest
      <3>2. QED
        BY <2>1, <3>1
    <2>3. c.pc = "manifest"
      BY <1>8 DEF ReadManifest
    <2> HIDE DEF c, n, others
    <2>4. QED
      BY <1>2, <2>2, <2>3 DEF Ingests
  <1>9. ASSUME Finalize(w) \/ FinalizeFails(w)
        PROVE  c.pc = "finalize" /\ n.pc = "idle" /\ others
    <2>1. [Idle EXCEPT !.pc = "idle"].pc = "idle"
      BY <1>1 DEF Call
    <2>2. \E next : Set(w, next) /\ next.pc = "idle"
      BY <1>9, <2>1 DEF Finalize, FinalizeFails, Return
    <2>3. c.pc = "finalize"
      BY <1>9 DEF Finalize, FinalizeFails, At
    <2> HIDE DEF c, n, others
    <2>4. QED
      BY <1>2, <2>2, <2>3
  <1>10. QED
    BY <1>4, <1>5, <1>6, <1>7, <1>8, <1>9

\* An evaluation begins, captures its bars and takes its locks.
LEMMA ClaimMoves ==
  ASSUME TypeInv, NEW w \in Workers
  PROVE  LET c == calls[w]
             n == calls'[w]
             others == \A v \in Workers \ {w} : calls'[v] = calls[v]
         IN  /\ \A scope \in Scopes, force \in BOOLEAN :
                  Evaluate(w, scope, force) => c.pc \in Rest /\ n.pc = "capture" /\ others
             /\ Capture(w) =>
                  /\ c.pc = "capture" /\ others
                  /\ \/ Authenticated /\ n.pc = "lock" /\ n.data = Data(LocalQuery)
                     \/ n.pc = "unavailable"
             /\ TakeLock(w) =>
                  /\ c.pc = "lock" /\ others /\ Same(n, c)
                  /\ n.pc = IF Cardinality(Waiting(w)) = 1 THEN "plan" ELSE "lock"
             /\ Plan(w) =>
                  /\ c.pc = "plan" /\ others /\ Same(n, c)
                  /\ \/ /\ n.pc = "reuse" /\ n.item \in Cached(c)
                        /\ held' = [held EXCEPT ![w] = {}]
                     \/ /\ n.pc = "insert" /\ n.gen = NextGen(c) /\ n.at = NextAt(c)
                        /\ held' = held
             /\ Insert(w) => /\ c.pc = "insert" /\ others /\ Same(n, c)
                             /\ n.pc = "engines" /\ n.item = Len(runs) + 1
             /\ InsertFails(w) =>
                  /\ c.pc = "insert" /\ others /\ Same(n, c)
                  /\ \/ n.pc = "plan" /\ runs' = runs
                     \/ /\ n.pc = "failing" /\ n.item = Len(runs) + 1 /\ n.left = c.scope
                        /\ runs' = Append(runs, NewRun(c, 0, "absent"))
  <1> DEFINE c == calls[w]
             n == calls'[w]
             others == \A v \in Workers \ {w} : calls'[v] = calls[v]
  <1>1. calls \in [Workers -> Call] /\ Idle \in Call /\ c \in Call
    BY IdleType DEF TypeInv, TypeOK
  <1>2. ASSUME NEW next, Set(w, next)
        PROVE  n = next /\ others
    BY <1>1, <1>2 DEF Set
  <1>3. ASSUME NEW scope \in Scopes, NEW force \in BOOLEAN, Evaluate(w, scope, force)
        PROVE  c.pc \in Rest /\ n.pc = "capture" /\ others
    <2>1. [Idle EXCEPT !.pc = "capture", !.scope = scope, !.force = force].pc = "capture"
      BY <1>1 DEF Call
    <2>2. \E next : Set(w, next) /\ next.pc = "capture"
      BY <1>3, <2>1 DEF Evaluate
    <2>3. c.pc \in Rest
      BY <1>3 DEF Evaluate
    <2> HIDE DEF c, n, others
    <2>4. QED
      BY <1>2, <2>2, <2>3
  <1>4. ASSUME Capture(w)
        PROVE  /\ c.pc = "capture" /\ others
               /\ \/ Authenticated /\ n.pc = "lock" /\ n.data = Data(LocalQuery)
                  \/ n.pc = "unavailable"
    <2>1. PICK next : /\ Set(w, next)
                      /\ \/ Authenticated /\ next.pc = "lock" /\ next.data = Data(LocalQuery)
                         \/ next.pc = "unavailable"
      <3>1. [Idle EXCEPT !.pc = "unavailable"].pc = "unavailable"
        BY <1>1 DEF Call
      <3>2. \A data : LET next == [c EXCEPT !.pc = "lock", !.data = data]
                      IN  next.pc = "lock" /\ next.data = data
        BY <1>1 DEF Call
      <3>3. CASE Authenticated
        BY <1>4, <3>2, <3>3 DEF Capture
      <3>4. CASE ~Authenticated
        BY <1>4, <3>1, <3>4 DEF Capture, Return
      <3>5. QED
        BY <3>3, <3>4
    <2>2. c.pc = "capture"
      BY <1>4 DEF Capture, At
    <2> HIDE DEF c, n, others
    <2>3. QED
      BY <1>2, <2>1, <2>2
  <1>5. ASSUME TakeLock(w)
        PROVE  /\ c.pc = "lock" /\ others /\ Same(n, c)
               /\ n.pc = IF Cardinality(Waiting(w)) = 1 THEN "plan" ELSE "lock"
    <2>1. CASE Cardinality(Waiting(w)) = 1
      <3>1. PICK next : Set(w, next) /\ next.pc = "plan" /\ Same(next, c)
        BY <1>1, <1>5, <2>1 DEF TakeLock, Goto, Call, Same
      <3>2. QED
        BY <1>2, <1>5, <2>1, <3>1 DEF TakeLock, At
    <2>2. CASE Cardinality(Waiting(w)) # 1
      BY <1>5, <2>2 DEF TakeLock, At, Same
    <2>3. QED
      BY <2>1, <2>2
  <1>6. ASSUME Plan(w)
        PROVE  /\ c.pc = "plan" /\ others /\ Same(n, c)
               /\ \/ /\ n.pc = "reuse" /\ n.item \in Cached(c)
                     /\ held' = [held EXCEPT ![w] = {}]
                  \/ /\ n.pc = "insert" /\ n.gen = NextGen(c) /\ n.at = NextAt(c)
                     /\ held' = held
    <2>1. PICK next :
            /\ Set(w, next) /\ Same(next, c)
            /\ \/ /\ next.pc = "reuse" /\ next.item \in Cached(c)
                  /\ held' = [held EXCEPT ![w] = {}]
               \/ /\ next.pc = "insert" /\ next.gen = NextGen(c) /\ next.at = NextAt(c)
                  /\ held' = held
      <3>1. \A i : LET next == [c EXCEPT !.pc = "reuse", !.item = i]
                   IN  Same(next, c) /\ next.pc = "reuse" /\ next.item = i
        BY <1>1 DEF Call, Same
      <3>2. \A gen, at : LET next == [c EXCEPT !.pc = "insert", !.gen = gen, !.at = at]
                         IN  Same(next, c) /\ next.pc = "insert" /\ next.gen = gen /\ next.at = at
        BY <1>1 DEF Call, Same
      <3>3. QED
        <4>1. ASSUME NEW i \in Cached(c), Set(w, [c EXCEPT !.pc = "reuse", !.item = i]),
                     held' = [held EXCEPT ![w] = {}]
              PROVE  \E next : /\ Set(w, next) /\ Same(next, c) /\ next.pc = "reuse"
                               /\ next.item \in Cached(c) /\ held' = [held EXCEPT ![w] = {}]
          BY <3>1, <4>1
        <4>2. ASSUME Set(w, [c EXCEPT !.pc = "insert", !.gen = NextGen(c), !.at = NextAt(c)]),
                     held' = held
              PROVE  \E next : /\ Set(w, next) /\ Same(next, c) /\ next.pc = "insert"
                               /\ next.gen = NextGen(c) /\ next.at = NextAt(c) /\ held' = held
          BY <3>2, <4>2
        <4>3. QED
          BY <1>6, <4>1, <4>2 DEF Plan
    <2>2. QED
      BY <1>2, <1>6, <2>1 DEF Plan
  <1>7. ASSUME Insert(w)
        PROVE  /\ c.pc = "insert" /\ others /\ Same(n, c)
               /\ n.pc = "engines" /\ n.item = Len(runs) + 1
    <2> DEFINE next == [c EXCEPT !.pc = "engines", !.item = Len(runs) + 1]
    <2>1. Same(next, c) /\ next.pc = "engines" /\ next.item = Len(runs) + 1
      BY <1>1 DEF Call, Same
    <2>2. Set(w, next) /\ c.pc = "insert"
      BY <1>7 DEF Insert
    <2> HIDE DEF next, c, n, others
    <2>3. QED
      BY <1>2, <2>1, <2>2
  <1>8. ASSUME InsertFails(w)
        PROVE  /\ c.pc = "insert" /\ others /\ Same(n, c)
               /\ \/ n.pc = "plan" /\ runs' = runs
                  \/ /\ n.pc = "failing" /\ n.item = Len(runs) + 1 /\ n.left = c.scope
                     /\ runs' = Append(runs, NewRun(c, 0, "absent"))
    <2>1. PICK next :
            /\ Set(w, next) /\ Same(next, c)
            /\ \/ next.pc = "plan" /\ runs' = runs
               \/ /\ next.pc = "failing" /\ next.item = Len(runs) + 1 /\ next.left = c.scope
                  /\ runs' = Append(runs, NewRun(c, 0, "absent"))
      <3>1. \A tries : LET next == [c EXCEPT !.pc = "plan", !.tries = tries]
                       IN  Same(next, c) /\ next.pc = "plan"
        BY <1>1 DEF Call, Same
      <3>2. \A item, left : LET next == [c EXCEPT !.pc = "failing", !.item = item,
                                                  !.left = left, !.verdict = "error"]
                            IN  /\ Same(next, c) /\ next.pc = "failing" /\ next.item = item
                                /\ next.left = left
        BY <1>1 DEF Call, Same
      <3>3. ASSUME Set(w, [c EXCEPT !.pc = "plan", !.tries = c.tries + 1]), runs' = runs
            PROVE  \E next : Set(w, next) /\ Same(next, c) /\ next.pc = "plan" /\ runs' = runs
        BY <3>1, <3>3
      <3>4. ASSUME Set(w, [c EXCEPT !.pc = "failing", !.item = Len(runs) + 1,
                                    !.left = c.scope, !.verdict = "error"])
            PROVE  \E next : /\ Set(w, next) /\ Same(next, c) /\ next.pc = "failing"
                             /\ next.item = Len(runs) + 1 /\ next.left = c.scope
        <4> DEFINE item == Len(runs) + 1
                   left == c.scope
                   next == [c EXCEPT !.pc = "failing", !.item = item, !.left = left,
                                     !.verdict = "error"]
        <4>2. Set(w, next)
          BY <3>4
        <4> HIDE DEF item, left
        <4>1. Same(next, c) /\ next.pc = "failing" /\ next.item = item /\ next.left = left
          BY <3>2
        <4> HIDE DEF next, c
        <4> USE DEF item, left
        <4>3. QED
          BY <4>1, <4>2
      <3>5. QED
        BY <1>8, <3>3, <3>4 DEF InsertFails
    <2>2. c.pc = "insert"
      BY <1>8 DEF InsertFails
    <2> HIDE DEF c, n, others
    <2>3. QED
      BY <1>2, <2>1, <2>2
  <1>9. QED
    BY <1>3, <1>4, <1>5, <1>6, <1>7, <1>8

\* It computes, publishes or fails, and returns.
LEMMA FinishMoves ==
  ASSUME TypeInv, NEW w \in Workers
  PROVE  LET c == calls[w]
             n == calls'[w]
             others == \A v \in Workers \ {w} : calls'[v] = calls[v]
             fails(verdict) == /\ n.pc = "failing" /\ n.verdict = verdict /\ n.left = c.scope
                               /\ Same(n, c) /\ n.item = c.item
         IN  /\ Recheck(w) =>
                  /\ c.pc = "reuse" /\ others
                  /\ n.pc \in {"capture", "unavailable"} \/ (n.pc = "reused" /\ IsCurrent(c.data))
             /\ Engines(w) =>
                  /\ c.pc = "engines" /\ others
                  /\ \/ n.pc = "check" /\ Same(n, c) /\ n.item = c.item
                     \/ fails("error")
             /\ CheckSource(w) =>
                  /\ c.pc = "check" /\ others
                  /\ \/ /\ IsCurrent(c.data) /\ source' = w /\ n.pc = "commit"
                        /\ Same(n, c) /\ n.item = c.item
                     \/ source' = source /\ fails("stale")
             /\ Commit(w) => c.pc = "commit" /\ others /\ n.pc = "completed"
             /\ CommitFails(w) =>
                  /\ c.pc = "commit" /\ others
                  /\ fails("error") \/ n.pc = "raised"
             /\ CommitUnsure(w) =>
                  /\ c.pc = "commit" /\ others
                  /\ \E found \in [c.scope -> {"evaluated", "unavailable"}] :
                       /\ Publish(c, found)
                       /\ \/ Committed(c, found) /\ n.pc = "completed"
                          \/ ~Committed(c, found) /\ fails("error")
                          \/ n.pc = "raised"
             /\ MarkFailed(w) =>
                  /\ c.pc = "failing" /\ n.pc = "failing" /\ others /\ Same(n, c)
                  /\ n.item = c.item /\ n.left = c.left \ {Min(c.left)} /\ n.verdict = c.verdict
             /\ MarkFails(w) =>
                  /\ c.pc = "failing" /\ n.pc = "failing" /\ others /\ Same(n, c)
                  /\ n.item = c.item
             /\ Conclude(w) =>
                  /\ c.pc = "failing" /\ others
                  /\ n.pc \in {"capture", "unavailable"} \/ n.pc = "raised"
  <1> DEFINE c == calls[w]
             n == calls'[w]
             others == \A v \in Workers \ {w} : calls'[v] = calls[v]
             fails(verdict) == /\ n.pc = "failing" /\ n.verdict = verdict /\ n.left = c.scope
                               /\ Same(n, c) /\ n.item = c.item
  <1>1. calls \in [Workers -> Call] /\ Idle \in Call /\ c \in Call /\ Shape(c, requests, runs)
    BY IdleType DEF TypeInv, TypeOK
  <1>2. ASSUME NEW next, Set(w, next)
        PROVE  n = next /\ others
    BY <1>1, <1>2 DEF Set
  <1>3. ASSUME NEW verdict, Fails(w, verdict)
        PROVE  others /\ fails(verdict)
    <2> DEFINE next == [c EXCEPT !.pc = "failing", !.verdict = verdict, !.left = c.scope]
    <2>1. Set(w, next)
      BY <1>3 DEF Fails
    <2>2. /\ next.pc = "failing" /\ next.verdict = verdict /\ next.left = c.scope
          /\ Same(next, c) /\ next.item = c.item
      BY <1>1 DEF Call, Same
    <2> HIDE DEF next
    <2>3. QED
      BY <1>2, <2>1, <2>2
  <1>4. ASSUME NEW pc, Return(w, pc)
        PROVE  others /\ n.pc = pc
    <2>1. PICK next : Set(w, next) /\ next.pc = pc
      BY <1>1, <1>4 DEF Return, Call
    <2>2. QED
      BY <1>2, <2>1
  <1>5. ASSUME NEW pc, Goto(w, pc)
        PROVE  others /\ n.pc = pc /\ Same(n, c) /\ n.item = c.item
    <2>1. PICK next : Set(w, next) /\ next.pc = pc /\ Same(next, c) /\ next.item = c.item
      BY <1>1, <1>5 DEF Goto, Call, Same
    <2>2. QED
      BY <1>2, <2>1
  <1>6. ASSUME NextAttempt(w), c.scope \in Scopes
        PROVE  others /\ n.pc \in {"capture", "unavailable"}
    BY <1>1, <1>2, <1>6, NextAttemptFacts
  <1>7. c.pc \in Evaluates => c.scope \in Scopes
    BY <1>1 DEF Shape
  <1> HIDE DEF c, n, others, fails
  <1>8. ASSUME Recheck(w)
        PROVE  /\ c.pc = "reuse" /\ others
               /\ n.pc \in {"capture", "unavailable"} \/ (n.pc = "reused" /\ IsCurrent(c.data))
    <2>1. c.pc = "reuse" /\ c.scope \in Scopes
      BY <1>7, <1>8 DEF Recheck, Evaluates, c
    <2>2. (IsCurrent(c.data) /\ Return(w, "reused")) \/ NextAttempt(w)
      BY <1>8 DEF Recheck, c
    <2>3. CASE IsCurrent(c.data) /\ Return(w, "reused")
      BY <1>4, <2>1, <2>3
    <2>4. CASE NextAttempt(w)
      <3>1. others /\ n.pc \in {"capture", "unavailable"}
        BY <1>6, <2>1, <2>4
      <3>2. QED
        BY <2>1, <3>1
    <2>5. QED
      BY <2>2, <2>3, <2>4
  <1>9. ASSUME Engines(w)
        PROVE  /\ c.pc = "engines" /\ others
               /\ \/ n.pc = "check" /\ Same(n, c) /\ n.item = c.item
                  \/ fails("error")
    BY <1>3, <1>5, <1>9 DEF Engines, At, c
  <1>10. ASSUME CheckSource(w)
         PROVE  /\ c.pc = "check" /\ others
                /\ \/ /\ IsCurrent(c.data) /\ source' = w /\ n.pc = "commit"
                      /\ Same(n, c) /\ n.item = c.item
                   \/ source' = source /\ fails("stale")
    BY <1>3, <1>5, <1>10 DEF CheckSource, c
  <1>11. ASSUME Commit(w)
         PROVE  c.pc = "commit" /\ others /\ n.pc = "completed"
    BY <1>4, <1>11 DEF Commit, c
  <1>12. ASSUME CommitFails(w)
         PROVE  c.pc = "commit" /\ others /\ (fails("error") \/ n.pc = "raised")
    BY <1>3, <1>4, <1>12 DEF CommitFails, ReadBack, At, c
  <1>13. ASSUME CommitUnsure(w)
         PROVE  /\ c.pc = "commit" /\ others
                /\ \E found \in [c.scope -> {"evaluated", "unavailable"}] :
                     /\ Publish(c, found)
                     /\ \/ Committed(c, found) /\ n.pc = "completed"
                        \/ ~Committed(c, found) /\ fails("error")
                        \/ n.pc = "raised"
    BY <1>3, <1>4, <1>13 DEF CommitUnsure, ReadBack, c
  <1>14. ASSUME MarkFailed(w)
         PROVE  /\ c.pc = "failing" /\ n.pc = "failing" /\ others /\ Same(n, c)
                /\ n.item = c.item /\ n.left = c.left \ {Min(c.left)} /\ n.verdict = c.verdict
    <2>1. c.pc = "failing" /\ Set(w, [c EXCEPT !.left = c.left \ {Min(c.left)}])
      BY <1>14 DEF MarkFailed, c
    <2> DEFINE left == c.left \ {Min(c.left)}
               next == [c EXCEPT !.left = left]
    <2>2. /\ next.pc = "failing" /\ Same(next, c) /\ next.item = c.item /\ next.left = left
          /\ next.verdict = c.verdict
      <3> HIDE DEF left
      <3> QED
        BY <1>1, <2>1 DEF Call, Same
    <2> HIDE DEF next
    <2>3. QED
      BY <1>2, <2>1, <2>2 DEF next
  <1>15. ASSUME MarkFails(w)
         PROVE  /\ c.pc = "failing" /\ n.pc = "failing" /\ others /\ Same(n, c)
                /\ n.item = c.item
    <2>1. CASE Fails(w, "error")
      BY <1>3, <1>15, <2>1 DEF MarkFails, c, fails
    <2>2. CASE Set(w, [c EXCEPT !.left = @ \ {Min(c.left)}])
      <3>1. c.pc = "failing"
        BY <1>15 DEF MarkFails, c
      <3>2. PICK next : Set(w, next) /\ next.pc = c.pc /\ Same(next, c) /\ next.item = c.item
        BY <1>1, <2>2 DEF Call, Same
      <3>3. QED
        BY <1>2, <3>1, <3>2
    <2>3. CASE Set(w, [c EXCEPT !.left = {}, !.verdict = "error"])
      <3>1. c.pc = "failing"
        BY <1>15 DEF MarkFails, c
      <3> DEFINE next == [c EXCEPT !.left = {}, !.verdict = "error"]
      <3>2. Set(w, next) /\ next.pc = c.pc /\ Same(next, c) /\ next.item = c.item
        BY <1>1, <2>3 DEF Call, Same
      <3> HIDE DEF next
      <3>3. QED
        BY <1>2, <3>1, <3>2
    <2>4. QED
      BY <1>15, <2>1, <2>2, <2>3 DEF MarkFails, c
  <1>16. ASSUME Conclude(w)
         PROVE  /\ c.pc = "failing" /\ others
                /\ n.pc \in {"capture", "unavailable"} \/ n.pc = "raised"
    BY <1>4, <1>6, <1>7, <1>16 DEF Conclude, Evaluates, c
  <1>17. QED
    BY <1>8, <1>9, <1>10, <1>11, <1>12, <1>13, <1>14, <1>15, <1>16 DEF c, n, others, fails

-----------------------------------------------------------------------------
(* What is published is current.  The bars are locked by the thread that   *)
(* commits, and only by it, and it found them to be those it captured.     *)

SourceInv ==
  \A w \in Workers : /\ source = w <=> At(w, "commit")
                     /\ At(w, "commit") => IsCurrent(calls[w].data)

\* A step of a thread that neither commits nor is about to.
LEMMA SourceQuiet ==
  ASSUME SourceInv, NEW w \in Workers, UNCHANGED <<bars, source>>,
         \A v \in Workers \ {w} : calls'[v] = calls[v],
         calls[w].pc # "commit", calls'[w].pc # "commit"
  PROVE  SourceInv'
  <1>1. LocalQuery' = LocalQuery
    BY DEF LocalQuery
  <1>2. Data(LocalQuery)' = Data(LocalQuery)
    BY <1>1 DEF Data
  <1>3. ASSUME NEW v \in Workers
        PROVE  /\ source' = v <=> At(v, "commit")'
               /\ At(v, "commit")' => IsCurrent(calls[v].data)'
    <2>1. CASE v = w
      BY <2>1 DEF SourceInv, At
    <2>2. CASE v # w
      BY <1>1, <1>2, <2>2 DEF SourceInv, At, IsCurrent
    <2>3. QED
      BY <2>1, <2>2
  <1>4. QED
    BY <1>3 DEF SourceInv

\* A step after which no thread commits.
LEMMA SourceFree ==
  ASSUME NEW w \in Workers, source' = Free,
         \A v \in Workers : calls'[v].pc # "commit"
  PROVE  SourceInv'
  BY EvaluationAssumption DEF SourceInv, At

LEMMA SourceStep ==
  ASSUME TypeInv, SourceInv, [Next]_vars
  PROVE  SourceInv'
  <1>1. CASE UNCHANGED vars
    <2>1. calls' = calls /\ source' = source /\ bars' = bars
      BY <1>1 DEF vars, database
    <2>2. Data(LocalQuery)' = Data(LocalQuery)
      BY <2>1 DEF Data, LocalQuery
    <2>3. ASSUME NEW v \in Workers
          PROVE  /\ At(v, "commit")' <=> At(v, "commit")
                 /\ IsCurrent(calls[v].data) => IsCurrent(calls[v].data)'
      <3>1. At(v, "commit")' <=> At(v, "commit")
        BY <2>1 DEF At
      <3>2. IsCurrent(calls[v].data) => IsCurrent(calls[v].data)'
        BY <2>1, <2>2 DEF IsCurrent, LocalQuery
      <3> QED
        BY <3>1, <3>2
    <2> QED
      BY <2>1, <2>3 DEF SourceInv
  <1>2. CASE Crash
    <2>1. source' = Free /\ calls' = [w \in Workers |-> Idle]
      BY <1>2 DEF Crash
    <2>2. QED
      BY <2>1, EvaluationAssumption DEF SourceInv, At, Idle
  <1>3. ASSUME NEW w \in Workers,
               \/ \E range \in Requested, force \in BOOLEAN : Ingest(w, range, force)
               \/ ReadGaps(w) \/ FetchFails(w) \/ ReadManifest(w)
               \/ Finalize(w) \/ FinalizeFails(w)
        PROVE  SourceInv'
    <2>1. UNCHANGED <<bars, source>>
      BY <1>3 DEF Ingest, ReadGaps, FetchFails, ReadManifest, Finalize, FinalizeFails, database
    <2>2. /\ calls[w].pc # "commit" /\ calls'[w].pc # "commit"
          /\ \A v \in Workers \ {w} : calls'[v] = calls[v]
      BY <1>3, IngestMoves DEF Rest, Ingests
    <2>3. QED
      BY <2>1, <2>2, SourceQuiet
  <1>4. ASSUME NEW w \in Workers, AppendGap(w)
        PROVE  SourceInv'
    <2>1. source = Free /\ source' = Free
      BY <1>4 DEF AppendGap, MayAppend
    <2>2. \A v \in Workers : calls[v].pc # "commit"
      BY <2>1, EvaluationAssumption DEF SourceInv, At
    <2>3. calls'[w].pc \in Ingests /\ \A v \in Workers \ {w} : calls'[v] = calls[v]
      BY <1>4, IngestMoves
    <2>4. \A v \in Workers : calls'[v].pc # "commit"
      BY <2>2, <2>3 DEF Ingests
    <2>5. QED
      BY <2>1, <2>4, SourceFree
  <1>5. ASSUME NEW w \in Workers,
               \/ \E scope \in Scopes, force \in BOOLEAN : Evaluate(w, scope, force)
               \/ Capture(w) \/ TakeLock(w) \/ Plan(w) \/ Insert(w) \/ InsertFails(w)
        PROVE  SourceInv'
    <2>1. UNCHANGED <<bars, source>>
      BY <1>5 DEF Evaluate, Capture, TakeLock, Plan, Insert, InsertFails, database
    <2>2. /\ calls[w].pc # "commit" /\ calls'[w].pc # "commit"
          /\ \A v \in Workers \ {w} : calls'[v] = calls[v]
      BY <1>5, ClaimMoves DEF Rest
    <2>3. QED
      BY <2>1, <2>2, SourceQuiet
  <1>6. ASSUME NEW w \in Workers,
               Recheck(w) \/ Engines(w) \/ MarkFailed(w) \/ MarkFails(w) \/ Conclude(w)
        PROVE  SourceInv'
    <2>1. UNCHANGED <<bars, source>>
      BY <1>6 DEF Recheck, Engines, MarkFailed, MarkFails, Conclude, database
    <2>2. /\ calls[w].pc # "commit" /\ calls'[w].pc # "commit"
          /\ \A v \in Workers \ {w} : calls'[v] = calls[v]
      BY <1>6, FinishMoves
    <2>3. QED
      BY <2>1, <2>2, SourceQuiet
  <1>7. ASSUME NEW w \in Workers, CheckSource(w)
        PROVE  SourceInv'
    <2>1. bars' = bars /\ source = Free
      BY <1>7 DEF CheckSource, database
    <2>2. /\ calls[w].pc = "check" /\ \A v \in Workers \ {w} : calls'[v] = calls[v]
          /\ \/ /\ IsCurrent(calls[w].data) /\ source' = w /\ calls'[w].pc = "commit"
                /\ calls'[w].data = calls[w].data
             \/ source' = source /\ calls'[w].pc = "failing"
      BY <1>7, FinishMoves DEF Same
    <2>3. \A v \in Workers : calls[v].pc # "commit"
      BY <2>1, EvaluationAssumption DEF SourceInv, At
    <2>4. IsCurrent(calls[w].data)' <=> DOMAIN calls'[w].data = LocalQuery /\ calls'[w].data = Data(LocalQuery)
      BY <2>1 DEF IsCurrent, LocalQuery, Data
    <2>5. CASE source' = w
      BY <2>1, <2>2, <2>3, <2>4, <2>5, EvaluationAssumption DEF SourceInv, At, IsCurrent
    <2>6. CASE source' = source /\ calls'[w].pc = "failing"
      BY <2>1, <2>2, <2>6, SourceQuiet
    <2>7. QED
      BY <2>2, <2>5, <2>6
  <1>8. ASSUME NEW w \in Workers, Commit(w) \/ CommitFails(w) \/ CommitUnsure(w)
        PROVE  SourceInv'
    <2>1. source' = Free
      BY <1>8 DEF Commit, CommitFails, CommitUnsure
    <2>2. /\ calls[w].pc = "commit" /\ calls'[w].pc # "commit"
          /\ \A v \in Workers \ {w} : calls'[v] = calls[v]
      BY <1>8, FinishMoves
    <2>3. \A v \in Workers \ {w} : calls[v].pc # "commit"
      BY <2>2 DEF SourceInv, At
    <2>4. QED
      BY <2>1, <2>2, <2>3, SourceFree
  <1>9. QED
    BY <1>1, <1>2, <1>3, <1>4, <1>5, <1>6, <1>7, <1>8 DEF Next, Step, Failure

LEMMA SourceInit == Init => SourceInv
  BY EvaluationAssumption DEF Init, SourceInv, At, Idle

\* A row that is failed was not published and is not.
LEMMA FailedIsUnpublished ==
  ASSUME NEW row
  PROVE  Failed(row) \in {"evaluated", "unavailable"} <=> row \in {"evaluated", "unavailable"}
  BY DEF Failed

LEMMA PublishedStep ==
  ASSUME TypeInv, SourceInv, [Next]_vars
  PROVE  \A i \in DOMAIN runs : Published(i)' # Published(i) => runs[i].data = Data(LocalQuery)
  <1>1. TablesOK
    BY DEF TypeInv, TypeOK, TablesOK, Numbered
  <1>2. ASSUME NEW i \in DOMAIN runs, runs'[i] = runs[i]
        PROVE  Published(i)' = Published(i)
    BY <1>2 DEF Published
  <1>3. CASE runs' = runs
    BY <1>2, <1>3
  <1>4. ASSUME NEW w \in Workers, Insert(w) \/ InsertFails(w)
        PROVE  \A i \in DOMAIN runs : runs'[i] = runs[i]
    <2>1. runs \in Seq(Run)
      BY <1>1 DEF TablesOK
    <2>2. runs' = runs \/ \E run : runs' = Append(runs, run)
      BY <1>4 DEF Insert, InsertFails
    <2>3. QED
      BY <2>1, <2>2
  <1>5. ASSUME NEW w \in Workers, MarkFailed(w), NEW i \in DOMAIN runs
        PROVE  Published(i)' = Published(i)
    <2> DEFINE c    == calls[w]
               old  == runs[c.item].status
               rows == [old EXCEPT ![Min(c.left)] = Failed(old[Min(c.left)])]
    <2>1. /\ c.item \in DOMAIN runs /\ old \in [c.scope -> Rows]
          /\ rows \in [runs[c.item].scope -> Rows]
          /\ runs' = [runs EXCEPT ![c.item].status = rows]
      BY <1>5, MarkFacts
    <2>2. \A m : rows[m] = old[m] \/ rows[m] = Failed(old[m]) \/ m \notin c.scope
      BY <2>1
    <2>3. c.scope = runs[c.item].scope
      <3>1. Shape(c, requests, runs) /\ c.pc = "failing"
        BY <1>5 DEF MarkFailed, TypeInv
      <3>2. QED
        BY <3>1 DEF Shape, Busy
    <2> HIDE DEF rows, old, c
    <2>4. /\ \A j \in DOMAIN runs : j # c.item => runs'[j] = runs[j]
          /\ runs'[c.item].status = rows /\ SameRun(runs'[c.item], runs[c.item])
      <3>1. PICK item, new : item = c.item /\ new = rows
        OBVIOUS
      <3>2. /\ item \in DOMAIN runs /\ new \in [runs[item].scope -> Rows]
            /\ runs' = [runs EXCEPT ![item].status = new]
        BY <2>1, <3>1
      <3>3. /\ \A j \in DOMAIN runs : j # item => runs'[j] = runs[j]
            /\ runs'[item].status = new /\ SameRun(runs'[item], runs[item])
        BY <1>1, <3>2, ChangeRows, ZenonT(60)
      <3>4. QED
        BY <3>1, <3>3
    <2>5. CASE i # c.item
      BY <1>2, <2>4, <2>5
    <2>6. CASE i = c.item
      BY <2>2, <2>3, <2>4, <2>6, FailedIsUnpublished DEF Published, SameRun, old
    <2>7. QED
      BY <2>5, <2>6
  <1>6. ASSUME NEW w \in Workers, Commit(w) \/ CommitUnsure(w), NEW i \in DOMAIN runs,
               Published(i)' # Published(i)
        PROVE  runs[i].data = Data(LocalQuery)
    <2> DEFINE c == calls[w]
    <2>1. c.pc = "commit"
      BY <1>6 DEF Commit, CommitUnsure
    <2>2. PICK found \in [c.scope -> {"evaluated", "unavailable"}] : Publish(c, found)
      BY <1>6 DEF Commit, CommitUnsure
    <2>3. PICK rows \in [runs[c.item].scope -> Rows] :
            c.item \in DOMAIN runs /\ runs' = [runs EXCEPT ![c.item].status = rows]
      BY <2>1, <2>2, PublishFacts
    <2>4. i = c.item
      BY <1>1, <1>2, <1>6, <2>3, ChangeRows
    <2>5. runs[c.item].data = c.data
      <3>1. Shape(c, requests, runs)
        BY DEF TypeInv
      <3>2. QED
        BY <2>1, <3>1 DEF Shape, Busy
    <2>6. IsCurrent(c.data)
      BY <2>1 DEF SourceInv, At
    <2>7. QED
      BY <2>4, <2>5, <2>6 DEF IsCurrent
  <1>7. ASSUME NEW w \in Workers, Step(w) \/ Failure(w)
        PROVE  \/ runs' = runs \/ Insert(w) \/ InsertFails(w) \/ MarkFailed(w)
               \/ Commit(w) \/ CommitUnsure(w)
    BY <1>7 DEF Step, Failure, ReadGaps, AppendGap, FetchFails, ReadManifest, Finalize,
                Capture, TakeLock, Plan, Recheck, Engines, CheckSource, Conclude,
                FinalizeFails, CommitFails, MarkFails, database
  <1>8. CASE UNCHANGED vars \/ Crash
    BY <1>3, <1>8 DEF vars, database, Crash
  <1>9. ASSUME NEW w \in Workers,
               \/ \E range \in Requested, force \in BOOLEAN : Ingest(w, range, force)
               \/ \E scope \in Scopes, force \in BOOLEAN : Evaluate(w, scope, force)
        PROVE  runs' = runs
    BY <1>9 DEF Ingest, Evaluate, database
  <1>10. QED
    BY <1>2, <1>3, <1>4, <1>5, <1>6, <1>7, <1>8, <1>9 DEF Next

\* Results are published only for bars that no thread has changed since they were
\* captured, however many threads ingest and evaluate.
THEOREM PublishesCurrent == Spec => PublishedIsCurrent
  <1>1. Init => TypeInv /\ SourceInv
    BY InitType, SourceInit
  <1>2. TypeInv /\ SourceInv /\ [Next]_vars => (TypeInv /\ SourceInv)'
    BY NextType, SourceStep
  <1>3. TypeInv /\ SourceInv /\ [Next]_vars
          => [\A i \in DOMAIN runs :
                Published(i)' # Published(i) => runs[i].data = Data(LocalQuery)]_vars
    BY PublishedStep
  <1>4. QED
    BY <1>1, <1>2, <1>3, PTL DEF Spec, PublishedIsCurrent

-----------------------------------------------------------------------------
(* What was evaluated was declared.  A request that is complete never      *)
(* changes, and an authenticated history is covered by such requests.      *)

Declared(data) ==
  \A s \in DOMAIN data : \E j \in DOMAIN requests :
    /\ requests[j].status = "complete" /\ s \in requests[j].range
    /\ requests[j].seen[s] = data[s]

DeclaredInv ==
  /\ EvaluatedBarsWereDeclared
  /\ \A w \in Workers : calls[w].pc \in Loaded => Declared(calls[w].data)

\* The newest of the requests that cover a slot is consulted, and it vouches for it.
LEMMA AuthenticatedIsDeclared ==
  ASSUME TypeInv, Authenticated
  PROVE  Declared(Data(LocalQuery))
  <1>1. TablesOK
    BY DEF TypeInv, TypeOK, TablesOK, Numbered
  <1>2. LocalQuery \in Ranges
    BY <1>1, LocalQueryFacts DEF Authenticated, TablesOK
  <1>3. /\ DOMAIN Data(LocalQuery) = LocalQuery
        /\ \A s \in LocalQuery : Data(LocalQuery)[s] = bars[s]
    BY <1>1, <1>2, DataFacts DEF TablesOK
  <1>4. ASSUME NEW s \in LocalQuery
        PROVE  \E j \in DOMAIN requests :
                 /\ requests[j].status = "complete" /\ s \in requests[j].range
                 /\ requests[j].seen[s] = bars[s]
    <2> DEFINE covering == {j \in 1..Len(requests) : s \in Clip(j)}
               newest   == Max(covering)
    <2>1. Len(requests) \in Nat /\ DOMAIN requests = 1..Len(requests)
      BY <1>1 DEF TablesOK
    <2>2. s \in ClipsFrom(1)
      BY <1>4 DEF Authenticated
    <2>3. covering \in SUBSET (0..Len(requests)) /\ covering # {}
      BY <2>1, <2>2 DEF ClipsFrom
    <2>4. newest \in covering /\ \A x \in covering : x <= newest
      <3> HIDE DEF covering
      <3> QED
        BY <2>1, <2>3, GreatestNatural
    <2>5. newest \in DOMAIN requests /\ s \in Clip(newest)
      BY <2>1, <2>4
    <2>6. s \notin ClipsFrom(newest + 1)
      <3>1. ASSUME NEW j \in (newest + 1)..Len(requests), s \in Clip(j)
            PROVE  FALSE
        <4>1. j \in covering
          BY <2>1, <2>4, <3>1
        <4>2. j <= newest /\ j > newest
          BY <2>1, <2>4, <2>5, <4>1
        <4>3. QED
          BY <2>1, <2>5, <4>2
      <3>2. QED
        BY <3>1 DEF ClipsFrom
    <2> HIDE DEF newest
    <2>7. newest \in Consulted
      BY <2>5, <2>6 DEF Consulted
    <2>8. IsValid(newest)
      BY <2>7 DEF Authenticated
    <2>9. requests[newest].range \in Ranges
      <3>1. requests[newest] \in Request
        BY <1>1, <2>5 DEF TablesOK
      <3>2. QED
        BY <3>1 DEF Request
    <2>10. requests[newest].seen[s] = bars[s] /\ s \in requests[newest].range
      <3>1. s \in requests[newest].range
        BY <2>5 DEF Clip
      <3>2. Data(requests[newest].range)[s] = bars[s]
        BY <1>1, <2>9, <3>1, DataFacts DEF TablesOK
      <3>3. QED
        BY <2>8, <3>1, <3>2 DEF IsValid
    <2>11. QED
      BY <2>5, <2>8, <2>10 DEF IsValid
  <1>5. QED
    BY <1>3, <1>4 DEF Declared

\* A request that is complete stays as it is.
LEMMA CompleteStays ==
  ASSUME TypeInv, [Next]_vars, NEW j \in DOMAIN requests, requests[j].status = "complete"
  PROVE  j \in DOMAIN requests' /\ requests'[j] = requests[j]
  <1>1. requests \in Seq(Request)
    BY DEF TypeInv, TypeOK
  <1>2. CASE requests' = requests
    BY <1>2
  <1>3. ASSUME NEW w \in Workers, NEW range \in Requested, NEW force \in BOOLEAN,
               Ingest(w, range, force)
        PROVE  j \in DOMAIN requests' /\ requests'[j] = requests[j]
    <2>1. PICK request : requests' = Append(requests, request)
      BY <1>3 DEF Ingest
    <2>2. QED
      BY <1>1, <2>1
  <1>4. ASSUME NEW w \in Workers, Finalize(w)
        PROVE  j \in DOMAIN requests' /\ requests'[j] = requests[j]
    <2> DEFINE c == calls[w]
    <2>1. CASE requests[c.item].status = "running"
      <3>1. requests' = [requests EXCEPT ![c.item].status = c.verdict, ![c.item].seen = c.data]
        BY <1>4, <2>1 DEF Finalize
      <3>2. c.item # j
        BY <2>1
      <3> HIDE DEF c
      <3>3. QED
        BY <1>1, <3>1, <3>2
    <2>2. CASE requests[c.item].status # "running"
      BY <1>2, <1>4, <2>2 DEF Finalize
    <2>3. QED
      BY <2>1, <2>2
  <1>5. ASSUME NEW w \in Workers, Step(w) \/ Failure(w)
        PROVE  requests' = requests \/ Finalize(w)
    BY <1>5 DEF Step, Failure, ReadGaps, AppendGap, FetchFails, ReadManifest, Capture,
                TakeLock, Plan, Insert, Recheck, Engines, CheckSource, Commit, MarkFailed,
                Conclude, FinalizeFails, InsertFails, CommitFails, CommitUnsure, MarkFails,
                database
  <1>6. CASE UNCHANGED vars \/ Crash
    BY <1>2, <1>6 DEF vars, database, Crash
  <1>7. ASSUME NEW w \in Workers, NEW scope \in Scopes, NEW force \in BOOLEAN,
               Evaluate(w, scope, force)
        PROVE  requests' = requests
    BY <1>7 DEF Evaluate, database
  <1>8. QED
    BY <1>2, <1>3, <1>4, <1>5, <1>6, <1>7 DEF Next

\* Every run is an older one, or has the bars of the call that made it.
LEMMA RunsGrow ==
  ASSUME TypeInv, [Next]_vars, NEW i \in DOMAIN runs'
  PROVE  \/ i \in DOMAIN runs /\ SameRun(runs'[i], runs[i])
         \/ /\ i = Len(runs) + 1 /\ i \notin DOMAIN runs
            /\ \E w \in Workers : /\ Insert(w) \/ InsertFails(w)
                                  /\ calls[w].pc = "insert" /\ runs'[i].data = calls[w].data
  <1>1. TablesOK /\ Kept
    BY NextType DEF TypeInv, TypeOK, TablesOK, Numbered
  <1>2. CASE DOMAIN runs' = DOMAIN runs
    BY <1>1, <1>2 DEF Kept
  <1>3. ASSUME NEW w \in Workers, NEW gen, NEW row, calls[w].pc = "insert",
               Insert(w) \/ InsertFails(w), runs' = Append(runs, NewRun(calls[w], gen, row))
        PROVE  \/ i \in DOMAIN runs /\ SameRun(runs'[i], runs[i])
               \/ /\ i = Len(runs) + 1 /\ i \notin DOMAIN runs
                  /\ \E v \in Workers : /\ Insert(v) \/ InsertFails(v)
                                        /\ calls[v].pc = "insert" /\ runs'[i].data = calls[v].data
    <2> DEFINE new == NewRun(calls[w], gen, row)
    <2>1. new.data = calls[w].data
      BY DEF NewRun
    <2> HIDE DEF new
    <2>2. runs \in Seq(Run) /\ runs' = Append(runs, new) /\ Len(runs) \in Nat
      BY <1>1, <1>3 DEF TablesOK, new
    <2>3. i \in DOMAIN runs \/ (i = Len(runs) + 1 /\ i \notin DOMAIN runs /\ runs'[i] = new)
      BY <2>2
    <2>4. QED
      BY <1>1, <1>3, <2>1, <2>3 DEF Kept
  <1>4. ASSUME NEW w \in Workers, Insert(w) \/ InsertFails(w)
        PROVE  runs' = runs \/ \E gen, row : /\ calls[w].pc = "insert"
                                             /\ runs' = Append(runs, NewRun(calls[w], gen, row))
    BY <1>4 DEF Insert, InsertFails
  <1>5. ASSUME NEW w \in Workers, Commit(w) \/ CommitUnsure(w)
        PROVE  DOMAIN runs' = DOMAIN runs
    BY <1>5 DEF Commit, CommitUnsure, Publish
  <1>6. ASSUME NEW w \in Workers, MarkFailed(w)
        PROVE  DOMAIN runs' = DOMAIN runs
    BY <1>6 DEF MarkFailed
  <1>7. ASSUME NEW w \in Workers, Step(w) \/ Failure(w)
        PROVE  \/ runs' = runs \/ Insert(w) \/ InsertFails(w) \/ MarkFailed(w)
               \/ Commit(w) \/ CommitUnsure(w)
    BY <1>7 DEF Step, Failure, ReadGaps, AppendGap, FetchFails, ReadManifest, Finalize,
                Capture, TakeLock, Plan, Recheck, Engines, CheckSource, Conclude,
                FinalizeFails, CommitFails, MarkFails, database
  <1>8. CASE UNCHANGED vars \/ Crash
    BY <1>2, <1>8 DEF vars, database, Crash
  <1>9. ASSUME NEW w \in Workers,
               \/ \E range \in Requested, force \in BOOLEAN : Ingest(w, range, force)
               \/ \E scope \in Scopes, force \in BOOLEAN : Evaluate(w, scope, force)
        PROVE  runs' = runs
    BY <1>9 DEF Ingest, Evaluate, database
  <1>10. QED
    BY <1>2, <1>3, <1>4, <1>5, <1>6, <1>7, <1>8, <1>9 DEF Next

\* The bars that a call has loaded are those it captured.
LEMMA LoadedBars ==
  ASSUME TypeInv, [Next]_vars, NEW w \in Workers, (calls[w].pc \in Loaded)'
  PROVE  \/ calls[w].pc \in Loaded /\ calls'[w].data = calls[w].data
         \/ Authenticated /\ calls'[w].data = Data(LocalQuery)
  <1>1. CASE calls'[w] = calls[w]
    BY <1>1
  <1>2. ASSUME Crash PROVE FALSE
    BY <1>2 DEF Crash, Idle, Loaded, Claiming, Busy
  <1>3. ASSUME NEW v \in Workers, \A x \in Workers \ {v} : calls'[x] = calls[x], v # w
        PROVE  calls'[w] = calls[w]
    BY <1>3
  <1>4. ASSUME NEW v \in Workers,
               \/ \E range \in Requested, force \in BOOLEAN : Ingest(v, range, force)
               \/ ReadGaps(v) \/ AppendGap(v) \/ FetchFails(v) \/ ReadManifest(v)
               \/ Finalize(v) \/ FinalizeFails(v)
        PROVE  calls'[w] = calls[w]
    <2>1. calls'[v].pc \notin Loaded /\ \A x \in Workers \ {v} : calls'[x] = calls[x]
      BY <1>4, IngestMoves DEF Ingests, Loaded, Claiming, Busy
    <2>2. QED
      BY <1>3, <2>1
  <1>5. ASSUME NEW v \in Workers,
               \/ \E scope \in Scopes, force \in BOOLEAN : Evaluate(v, scope, force)
               \/ Capture(v) \/ TakeLock(v) \/ Plan(v) \/ Insert(v) \/ InsertFails(v)
        PROVE  \/ calls'[w] = calls[w]
               \/ calls[w].pc \in Loaded /\ calls'[w].data = calls[w].data
               \/ Authenticated /\ calls'[w].data = Data(LocalQuery)
    <2>1. /\ \A x \in Workers \ {v} : calls'[x] = calls[x]
          /\ \/ calls'[v].pc \in {"capture", "unavailable"}
             \/ calls[v].pc \in Loaded /\ calls'[v].data = calls[v].data
             \/ Authenticated /\ calls'[v].data = Data(LocalQuery)
      BY <1>5, ClaimMoves DEF Same, Loaded, Claiming
    <2>2. QED
      BY <1>3, <2>1 DEF Loaded, Claiming, Busy
  <1>6. ASSUME NEW v \in Workers,
               \/ Recheck(v) \/ Engines(v) \/ CheckSource(v) \/ Commit(v) \/ CommitFails(v)
               \/ CommitUnsure(v) \/ MarkFailed(v) \/ MarkFails(v) \/ Conclude(v)
        PROVE  \/ calls'[w] = calls[w]
               \/ calls[w].pc \in Loaded /\ calls'[w].data = calls[w].data
    <2>1. /\ \A x \in Workers \ {v} : calls'[x] = calls[x]
          /\ \/ calls'[v].pc \in Rest \cup {"capture"}
             \/ calls[v].pc \in Loaded /\ calls'[v].data = calls[v].data
      BY <1>6, FinishMoves DEF Same, Loaded, Busy, Rest
    <2>2. QED
      BY <1>3, <2>1 DEF Rest, Loaded, Claiming, Busy
  <1>7. CASE UNCHANGED vars
    BY <1>1, <1>7 DEF vars
  <1>8. QED
    BY <1>1, <1>2, <1>4, <1>5, <1>6, <1>7 DEF Next, Step, Failure

LEMMA DeclaredStep ==
  ASSUME TypeInv, DeclaredInv, [Next]_vars
  PROVE  DeclaredInv'
  <1>1. ASSUME NEW data, Declared(data)
        PROVE  \A s \in DOMAIN data : \E j \in DOMAIN requests' :
                 /\ requests'[j].status = "complete" /\ s \in requests'[j].range
                 /\ requests'[j].seen[s] = data[s]
    BY <1>1, CompleteStays DEF Declared
  <1>2. ASSUME NEW i \in DOMAIN runs'
        PROVE  \E data : Declared(data) /\ runs'[i].data = data
    BY <1>2, RunsGrow DEF DeclaredInv, EvaluatedBarsWereDeclared, Declared, SameRun, Loaded, Claiming
  <1>3. ASSUME NEW w \in Workers, (calls[w].pc \in Loaded)'
        PROVE  \E data : Declared(data) /\ calls'[w].data = data
    BY <1>3, LoadedBars, AuthenticatedIsDeclared DEF DeclaredInv
  <1>4. EvaluatedBarsWereDeclared'
    BY <1>1, <1>2 DEF EvaluatedBarsWereDeclared
  <1>5. ASSUME NEW w \in Workers, (calls[w].pc \in Loaded)'
        PROVE  Declared(calls[w].data)'
    <2>1. PICK data : Declared(data) /\ calls'[w].data = data
      BY <1>3, <1>5
    <2>2. QED
      BY <1>1, <2>1 DEF Declared
  <1>6. QED
    BY <1>4, <1>5 DEF DeclaredInv

LEMMA DeclaredInit == Init => DeclaredInv
  BY DEF Init, DeclaredInv, EvaluatedBarsWereDeclared, Idle, Loaded, Claiming, Busy

\* Nothing was evaluated but bars that a complete request declared, with the payloads
\* they had then.
THEOREM EvaluatesDeclared == Spec => []EvaluatedBarsWereDeclared
  <1>1. Init => TypeInv /\ DeclaredInv
    BY InitType, DeclaredInit
  <1>2. TypeInv /\ DeclaredInv /\ [Next]_vars => (TypeInv /\ DeclaredInv)'
    BY NextType, DeclaredStep
  <1>3. DeclaredInv => EvaluatedBarsWereDeclared
    BY DEF DeclaredInv
  <1>4. QED
    BY <1>1, <1>2, <1>3, PTL DEF Spec

-----------------------------------------------------------------------------
(* What a call answers is true.  A run has one thread that writes its rows *)
(* as long as one is at work on it, and its rows are as far as the thread. *)

Computing == {"engines", "check", "commit"}

RowOK(c, made, failures) ==
  /\ c.pc \in Computing => \A m \in c.scope : made[c.item].status[m] = "running"
  /\ c.pc = "reuse" => \A m \in c.scope : made[c.item].status[m] = "evaluated"
  /\ c.pc = "failing" =>
       /\ \E m \in c.scope : made[c.item].status[m] # "evaluated"
       /\ failures = 0 => \A m \in c.scope :
            made[c.item].status[m] = IF m \in c.left THEN "running" ELSE "failed"

RowInv ==
  /\ \A w, v \in Workers : w # v /\ calls[w].pc \in Busy /\ calls[v].pc \in Busy =>
       calls[w].item # calls[v].item
  /\ \A w \in Workers : RowOK(calls[w], runs, faults)

Idling == Rest \cup Ingests \cup {"capture", "lock", "plan", "insert"}

\* A call that is at work on no run.
LEMMA IdleRow ==
  ASSUME NEW c, c.pc \in Idling
  PROVE  c.pc \notin Busy /\ \A made, failures : RowOK(c, made, failures)
  BY DEF Idling, Rest, Ingests, RowOK, Computing, Busy

\* A step of one thread, which changes no run but the one it is at work on.
LEMMA RowOneCall ==
  ASSUME TypeInv, RowInv, NEW w \in Workers, \A v \in Workers \ {w} : calls'[v] = calls[v],
         faults' = faults \/ Fault,
         \A i \in DOMAIN runs :
           \/ runs'[i] = runs[i]
           \/ /\ i = calls[w].item /\ calls[w].pc \in Busy
              /\ \A m \in runs[i].scope :
                   runs[i].status[m] = "evaluated" => runs'[i].status[m] = "evaluated",
         calls'[w].pc \in Busy =>
           \/ calls[w].pc \in Busy /\ calls'[w].item = calls[w].item
           \/ calls'[w].item \notin DOMAIN runs,
         RowOK(calls'[w], runs', faults')
  PROVE  RowInv'
  <1>1. \A v \in Workers : Shape(calls[v], requests, runs)
    BY DEF TypeInv
  <1>2. \A v \in Workers : calls[v].pc \in Busy => calls[v].item \in DOMAIN runs
    BY <1>1 DEF Shape
  <1>3. ASSUME NEW u \in Workers, NEW v \in Workers, u # v,
               calls'[u].pc \in Busy, calls'[v].pc \in Busy
        PROVE  calls'[u].item # calls'[v].item
    <2>1. CASE u = w
      BY <1>2, <1>3, <2>1 DEF RowInv
    <2>2. CASE v = w
      BY <1>2, <1>3, <2>2 DEF RowInv
    <2>3. CASE u # w /\ v # w
      BY <1>3, <2>3 DEF RowInv
    <2>4. QED
      BY <2>1, <2>2, <2>3
  <1>4. faults' = faults \/ faults' # 0
    BY DEF Fault, TypeInv, TypeOK
  <1>5. ASSUME NEW v \in Workers, v # w
        PROVE  RowOK(calls'[v], runs', faults')
    <2>1. calls'[v] = calls[v] /\ RowOK(calls[v], runs, faults)
      BY <1>5 DEF RowInv
    <2>2. ASSUME calls[v].pc \in Busy
          PROVE  runs'[calls[v].item] = runs[calls[v].item]
      BY <1>2, <1>5, <2>2 DEF RowInv
    <2>3. ASSUME calls[v].pc = "reuse", NEW m \in calls[v].scope
          PROVE  runs'[calls[v].item].status[m] = "evaluated"
      <3>1. /\ calls[v].item \in DOMAIN runs /\ runs[calls[v].item].scope = calls[v].scope
            /\ runs[calls[v].item].status[m] = "evaluated"
        BY <1>1, <2>1, <2>3 DEF Shape, RowOK
      <3>2. QED
        BY <2>3, <3>1
    <2>4. QED
      BY <1>4, <2>1, <2>2, <2>3 DEF RowOK, Computing, Busy
  <1>6. \A v \in Workers : RowOK(calls'[v], runs', faults')
    BY <1>5
  <1>7. QED
    BY <1>3, <1>6 DEF RowInv

\* The rows that Publish writes.
LEMMA PublishedRows ==
  ASSUME TypeInv, NEW w \in Workers, calls[w].pc = "commit",
         NEW found \in [calls[w].scope -> {"evaluated", "unavailable"}],
         Publish(calls[w], found)
  PROVE  /\ calls[w].item \in DOMAIN runs /\ DOMAIN runs' = DOMAIN runs
         /\ runs[calls[w].item].scope = calls[w].scope
         /\ SameRun(runs'[calls[w].item], runs[calls[w].item])
         /\ \A i \in DOMAIN runs : i # calls[w].item => runs'[i] = runs[i]
         /\ \A m \in calls[w].scope :
              runs'[calls[w].item].status[m] =
                IF runs[calls[w].item].status[m] = "running" THEN found[m]
                ELSE runs[calls[w].item].status[m]
  <1>1. TablesOK /\ Shape(calls[w], requests, runs)
    BY DEF TypeInv, TypeOK, TablesOK, Numbered
  <1>2. PICK item, rows :
          /\ item = calls[w].item
          /\ rows = [m \in calls[w].scope |->
                       IF runs[calls[w].item].status[m] = "running" THEN found[m]
                       ELSE runs[calls[w].item].status[m]]
    OBVIOUS
  <1>3. /\ item \in DOMAIN runs /\ rows \in [runs[item].scope -> Rows]
        /\ runs' = [runs EXCEPT ![item].status = rows]
    BY <1>2, PublishFacts
  <1>4. /\ DOMAIN runs' = DOMAIN runs /\ SameRun(runs'[item], runs[item])
        /\ \A i \in DOMAIN runs : i # item => runs'[i] = runs[i]
        /\ runs'[item].status = rows
    BY <1>1, <1>3, ChangeRows, ZenonT(60)
  <1>5. runs[item].scope = calls[w].scope
    BY <1>1, <1>2 DEF Shape, Busy
  <1>6. item = calls[w].item /\ \A m \in calls[w].scope :
          rows[m] = IF runs[calls[w].item].status[m] = "running" THEN found[m]
                    ELSE runs[calls[w].item].status[m]
    BY <1>2
  <1>7. QED
    BY <1>3, <1>4, <1>5, <1>6

\* The row that a failing call writes.
LEMMA MarkedRows ==
  ASSUME TypeInv, NEW w \in Workers, MarkFailed(w)
  PROVE  LET c == calls[w]
             m == Min(c.left)
         IN  /\ c.pc = "failing" /\ c.item \in DOMAIN runs /\ DOMAIN runs' = DOMAIN runs
             /\ m \in c.left /\ c.left \subseteq c.scope
             /\ runs[c.item].scope = c.scope
             /\ SameRun(runs'[c.item], runs[c.item])
             /\ \A i \in DOMAIN runs : i # c.item => runs'[i] = runs[i]
             /\ runs'[c.item].status[m] = Failed(runs[c.item].status[m])
             /\ \A k \in c.scope \ {m} : runs'[c.item].status[k] = runs[c.item].status[k]
  <1> DEFINE c    == calls[w]
             old  == runs[c.item].status
             next == [old EXCEPT ![Min(c.left)] = Failed(old[Min(c.left)])]
  <1>1. TablesOK /\ Shape(c, requests, runs)
    BY DEF TypeInv, TypeOK, TablesOK, Numbered
  <1>2. /\ c.pc = "failing" /\ c.item \in DOMAIN runs /\ Min(c.left) \in c.left
        /\ c.left \subseteq c.scope /\ old \in [c.scope -> Rows]
        /\ next \in [runs[c.item].scope -> Rows]
        /\ runs' = [runs EXCEPT ![c.item].status = next]
    BY MarkFacts
  <1>3. next[Min(c.left)] = Failed(old[Min(c.left)]) /\ \A k \in c.scope \ {Min(c.left)} : next[k] = old[k]
    BY <1>2
  <1>4. PICK item, rows : item = c.item /\ rows = next
    OBVIOUS
  <1> HIDE DEF next, old
  <1>5. /\ item \in DOMAIN runs /\ rows \in [runs[item].scope -> Rows]
        /\ runs' = [runs EXCEPT ![item].status = rows]
    BY <1>2, <1>4
  <1>6. /\ DOMAIN runs' = DOMAIN runs /\ SameRun(runs'[item], runs[item])
        /\ \A i \in DOMAIN runs : i # item => runs'[i] = runs[i]
        /\ runs'[item].status = rows
    BY <1>1, <1>5, ChangeRows
  <1>7. runs[item].scope = c.scope
    BY <1>1, <1>2, <1>4 DEF Shape, Busy
  <1>8. QED
    BY <1>2, <1>3, <1>4, <1>6, <1>7 DEF old

LEMMA RowStep ==
  ASSUME TypeInv, RowInv, [Next]_vars
  PROVE  RowInv'
  <1>1. TablesOK /\ \A w \in Workers : Shape(calls[w], requests, runs) /\ RowOK(calls[w], runs, faults)
    BY DEF TypeInv, TypeOK, TablesOK, Numbered, RowInv
  <1>2. ASSUME Fault PROVE faults' # 0
    BY <1>1, <1>2 DEF Fault, TablesOK
  <1>4. CASE UNCHANGED vars
    BY <1>4 DEF vars, database, RowInv
  <1>5. CASE Crash
    <2>1. calls' = [w \in Workers |-> Idle] /\ "idle" \in Idling
      BY <1>5 DEF Crash, Idling, Rest
    <2>2. \A w \in Workers : calls'[w].pc \in Idling
      BY <2>1 DEF Idle
    <2>3. QED
      BY <2>2, IdleRow DEF RowInv
  <1>6. ASSUME NEW w \in Workers, runs' = runs, faults' = faults \/ Fault,
               \A v \in Workers \ {w} : calls'[v] = calls[v], calls'[w].pc \in Idling
        PROVE  RowInv'
    BY <1>6, IdleRow, RowOneCall
  <1>7. ASSUME NEW w \in Workers,
               \/ \E range \in Requested, force \in BOOLEAN : Ingest(w, range, force)
               \/ ReadGaps(w) \/ AppendGap(w) \/ FetchFails(w) \/ ReadManifest(w)
               \/ Finalize(w) \/ FinalizeFails(w)
        PROVE  RowInv'
    <2>1. runs' = runs /\ (faults' = faults \/ Fault)
      BY <1>7 DEF Ingest, ReadGaps, AppendGap, FetchFails, ReadManifest, Finalize, FinalizeFails,
                  database
    <2>2. calls'[w].pc \in Idling /\ \A v \in Workers \ {w} : calls'[v] = calls[v]
      BY <1>7, IngestMoves DEF Idling, Rest
    <2>3. QED
      BY <1>6, <2>1, <2>2
  <1>8. ASSUME NEW w \in Workers,
               \/ \E scope \in Scopes, force \in BOOLEAN : Evaluate(w, scope, force)
               \/ Capture(w) \/ TakeLock(w) \/ Recheck(w) \/ Conclude(w)
        PROVE  RowInv'
    <2>1. runs' = runs /\ (faults' = faults \/ Fault)
      BY <1>8 DEF Evaluate, Capture, TakeLock, Recheck, Conclude, database
    <2>2. calls'[w].pc \in Idling /\ \A v \in Workers \ {w} : calls'[v] = calls[v]
      BY <1>8, ClaimMoves, FinishMoves DEF Idling, Rest
    <2>3. QED
      BY <1>6, <2>1, <2>2
  <1>9. ASSUME NEW w \in Workers, Plan(w)
        PROVE  RowInv'
    <2>1. runs' = runs /\ faults' = faults
      BY <1>9 DEF Plan, database
    <2>2. \A v \in Workers \ {w} : calls'[v] = calls[v]
      BY <1>9, ClaimMoves
    <2>3. CASE calls'[w].pc = "insert"
      BY <1>6, <2>1, <2>2, <2>3 DEF Idling
    <2>4. CASE calls'[w].pc = "reuse" /\ calls'[w].item \in Cached(calls[w]) /\ Same(calls'[w], calls[w])
      <3>1. /\ EvaluatedIn(calls'[w].item) = runs[calls'[w].item].scope
            /\ runs[calls'[w].item].scope = calls'[w].scope
        BY <2>4 DEF Cached, Latest, SameCohort, Same
      <3>2. \A m \in calls'[w].scope : runs[calls'[w].item].status[m] = "evaluated"
        BY <3>1 DEF EvaluatedIn
      <3>3. RowOK(calls'[w], runs', faults') /\ calls'[w].pc \notin Busy
        BY <2>1, <2>4, <3>2 DEF RowOK, Computing, Busy
      <3>4. QED
        BY <2>1, <2>2, <3>3, RowOneCall
    <2>5. QED
      BY <1>9, <2>3, <2>4, ClaimMoves
  <1>10. ASSUME NEW w \in Workers, NEW gen, NEW row \in {"running", "absent"},
                runs' = Append(runs, NewRun(calls[w], gen, row)), calls[w].pc = "insert",
                Same(calls'[w], calls[w]), calls'[w].item = Len(runs) + 1,
                \/ row = "running" /\ calls'[w].pc = "engines"
                \/ row = "absent" /\ calls'[w].pc = "failing" /\ Fault,
                faults' = faults \/ Fault, \A v \in Workers \ {w} : calls'[v] = calls[v]
         PROVE  RowInv'
    <2> DEFINE new == NewRun(calls[w], gen, row)
    <2>1. \A m \in calls[w].scope : new.status[m] = row
      BY DEF NewRun
    <2> HIDE DEF new
    <2>2. runs \in Seq(Run) /\ Len(runs) \in Nat /\ runs' = Append(runs, new)
      BY <1>1, <1>10 DEF TablesOK, new
    <2>3. /\ \A i \in DOMAIN runs : runs'[i] = runs[i]
          /\ runs'[Len(runs) + 1] = new /\ Len(runs) + 1 \notin DOMAIN runs
      BY <2>2
    <2>4. \E m \in calls[w].scope : TRUE
      BY <1>1, <1>10, EvaluationAssumption DEF Shape, Evaluates
    <2>5. RowOK(calls'[w], runs', faults')
      BY <1>2, <1>10, <2>1, <2>3, <2>4 DEF Same, RowOK, Computing
    <2>6. QED
      BY <1>10, <2>3, <2>5, RowOneCall
  <1>11. ASSUME NEW w \in Workers, Insert(w)
         PROVE  RowInv'
    <2>1. runs' = Append(runs, NewRun(calls[w], calls[w].gen, "running")) /\ faults' = faults
      BY <1>11 DEF Insert
    <2>2. /\ calls[w].pc = "insert" /\ Same(calls'[w], calls[w]) /\ calls'[w].pc = "engines"
          /\ calls'[w].item = Len(runs) + 1 /\ \A v \in Workers \ {w} : calls'[v] = calls[v]
      BY <1>11, ClaimMoves
    <2>3. QED
      BY <1>10, <2>1, <2>2
  <1>12. ASSUME NEW w \in Workers, InsertFails(w)
         PROVE  RowInv'
    <2>1. Fault
      BY <1>12 DEF InsertFails
    <2>2. /\ calls[w].pc = "insert" /\ Same(calls'[w], calls[w])
          /\ \A v \in Workers \ {w} : calls'[v] = calls[v]
          /\ \/ calls'[w].pc = "plan" /\ runs' = runs
             \/ /\ calls'[w].pc = "failing" /\ calls'[w].item = Len(runs) + 1
                /\ runs' = Append(runs, NewRun(calls[w], 0, "absent"))
      BY <1>12, ClaimMoves
    <2>3. CASE calls'[w].pc = "plan" /\ runs' = runs
      BY <1>6, <2>1, <2>2, <2>3 DEF Idling
    <2>4. CASE /\ calls'[w].pc = "failing" /\ calls'[w].item = Len(runs) + 1
               /\ runs' = Append(runs, NewRun(calls[w], 0, "absent"))
      BY <1>10, <2>1, <2>2, <2>4
    <2>5. QED
      BY <2>2, <2>3, <2>4
  <1>13. ASSUME NEW w \in Workers, Engines(w) \/ CheckSource(w) \/ CommitFails(w)
         PROVE  RowInv'
    <2>1. runs' = runs /\ (faults' = faults \/ Fault)
      BY <1>13 DEF Engines, CheckSource, CommitFails, database
    <2>2. /\ calls[w].pc \in Computing /\ \A v \in Workers \ {w} : calls'[v] = calls[v]
          /\ \/ calls'[w].pc = "raised"
             \/ /\ Same(calls'[w], calls[w]) /\ calls'[w].item = calls[w].item
                /\ \/ calls'[w].pc \in {"check", "commit"}
                   \/ calls'[w].pc = "failing" /\ calls'[w].left = calls[w].scope
      BY <1>13, FinishMoves DEF Computing
    <2>3. /\ \A m \in calls[w].scope : runs[calls[w].item].status[m] = "running"
          /\ \E m \in calls[w].scope : TRUE
      BY <1>1, <2>2, EvaluationAssumption DEF RowOK, Shape, Computing, Evaluates
    <2>4. RowOK(calls'[w], runs', faults')
      BY <2>1, <2>2, <2>3 DEF RowOK, Same, Computing
    <2>5. calls[w].pc \in Busy /\ "raised" \notin Busy
      BY <2>2 DEF Computing, Busy
    <2>6. QED
      BY <2>1, <2>2, <2>4, <2>5, RowOneCall
  <1>14. ASSUME NEW w \in Workers, MarkFails(w)
         PROVE  RowInv'
    <2>1. runs' = runs /\ Fault
      BY <1>14 DEF MarkFails, database
    <2>2. /\ calls[w].pc = "failing" /\ calls'[w].pc = "failing" /\ Same(calls'[w], calls[w])
          /\ calls'[w].item = calls[w].item /\ \A v \in Workers \ {w} : calls'[v] = calls[v]
      BY <1>14, FinishMoves
    <2>3. RowOK(calls'[w], runs', faults')
      BY <1>1, <1>2, <2>1, <2>2 DEF RowOK, Same, Computing
    <2>4. calls[w].pc \in Busy
      BY <2>2 DEF Busy
    <2>5. QED
      BY <2>1, <2>2, <2>3, <2>4, RowOneCall
  <1>15. ASSUME NEW w \in Workers, MarkFailed(w)
         PROVE  RowInv'
    <2> DEFINE c == calls[w]
               m == Min(c.left)
    <2>1. faults' = faults
      BY <1>15 DEF MarkFailed
    <2>2. /\ calls'[w].pc = "failing" /\ Same(calls'[w], c)
          /\ calls'[w].item = c.item /\ calls'[w].left = c.left \ {m}
          /\ \A v \in Workers \ {w} : calls'[v] = calls[v]
      BY <1>15, FinishMoves
    <2>3. /\ c.pc = "failing" /\ c.item \in DOMAIN runs
          /\ m \in c.left /\ c.left \subseteq c.scope /\ runs[c.item].scope = c.scope
          /\ \A i \in DOMAIN runs : i # c.item => runs'[i] = runs[i]
          /\ runs'[c.item].status[m] = Failed(runs[c.item].status[m])
          /\ \A k \in c.scope \ {m} : runs'[c.item].status[k] = runs[c.item].status[k]
      BY <1>15, MarkedRows
    <2>4. RowOK(c, runs, faults)
      BY <1>1
    <2> HIDE DEF c, m
    <2>5. \A k \in c.scope :
            runs'[c.item].status[k] = "evaluated" <=> runs[c.item].status[k] = "evaluated"
      BY <2>3 DEF Failed
    <2>6. ASSUME faults = 0, NEW k \in c.scope
          PROVE  runs'[c.item].status[k] = IF k \in c.left \ {m} THEN "running" ELSE "failed"
      BY <2>3, <2>4, <2>6 DEF RowOK, Failed
    <2>7. RowOK(calls'[w], runs', faults')
      BY <2>1, <2>2, <2>3, <2>4, <2>5, <2>6 DEF RowOK, Same, Computing
    <2>8. c.pc \in Busy
      BY <2>3 DEF Busy
    <2>9. QED
      BY <2>1, <2>2, <2>3, <2>5, <2>7, <2>8, RowOneCall DEF c
  <1>16. ASSUME NEW w \in Workers, calls[w].pc = "commit",
                NEW found \in [calls[w].scope -> {"evaluated", "unavailable"}],
                Publish(calls[w], found), faults' = faults \/ Fault,
                \A v \in Workers \ {w} : calls'[v] = calls[v],
                \/ calls'[w].pc \in {"completed", "raised"}
                \/ /\ calls'[w].pc = "failing" /\ ~Committed(calls[w], found) /\ Fault
                   /\ Same(calls'[w], calls[w]) /\ calls'[w].item = calls[w].item
         PROVE  RowInv'
    <2> DEFINE c == calls[w]
    <2>1. /\ c.item \in DOMAIN runs /\ runs[c.item].scope = c.scope
          /\ \A i \in DOMAIN runs : i # c.item => runs'[i] = runs[i]
          /\ \A m \in c.scope :
               runs'[c.item].status[m] = IF runs[c.item].status[m] = "running" THEN found[m]
                                         ELSE runs[c.item].status[m]
      BY <1>16, PublishedRows
    <2>2. \A m \in c.scope : runs[c.item].status[m] = "running"
      BY <1>1, <1>16 DEF RowOK, Computing
    <2>3. RowOK(calls'[w], runs', faults')
      <3>1. CASE calls'[w].pc \in {"completed", "raised"}
        BY <3>1, IdleRow DEF Idling, Rest
      <3>2. CASE /\ calls'[w].pc = "failing" /\ ~Committed(c, found) /\ Fault
                 /\ Same(calls'[w], c) /\ calls'[w].item = c.item
        BY <1>2, <2>1, <2>2, <3>2 DEF RowOK, Committed, Same, Computing
      <3>3. QED
        BY <1>16, <3>1, <3>2
    <2>4. c.pc \in Busy
      BY <1>16 DEF Busy
    <2>5. calls'[w].pc \in Busy => calls'[w].item = c.item
      BY <1>16 DEF Busy
    <2>6. \A m \in runs[c.item].scope :
            runs[c.item].status[m] = "evaluated" => runs'[c.item].status[m] = "evaluated"
      BY <2>1
    <2>7. QED
      BY <1>16, <2>1, <2>3, <2>4, <2>5, <2>6, RowOneCall
  <1>17. ASSUME NEW w \in Workers, Commit(w) \/ CommitUnsure(w)
         PROVE  RowInv'
    <2>1. CASE Commit(w)
      <3>1. PICK found \in [calls[w].scope -> {"evaluated", "unavailable"}] : Publish(calls[w], found)
        BY <2>1 DEF Commit
      <3>2. /\ calls[w].pc = "commit" /\ faults' = faults
            /\ \A v \in Workers \ {w} : calls'[v] = calls[v]
            /\ calls'[w].pc = "completed"
        BY <2>1, FinishMoves DEF Commit
      <3>3. QED
        BY <1>16, <3>1, <3>2
    <2>2. CASE CommitUnsure(w)
      <3>1. Fault
        BY <2>2 DEF CommitUnsure
      <3>2. QED
        BY <1>16, <2>2, <3>1, FinishMoves
    <2>3. QED
      BY <1>17, <2>1, <2>2
  <1>18. QED
    BY <1>4, <1>5, <1>7, <1>8, <1>9, <1>11, <1>12, <1>13, <1>14, <1>15, <1>17
       DEF Next, Step, Failure

LEMMA RowInit == Init => RowInv
  <1> SUFFICES ASSUME Init PROVE RowInv
    OBVIOUS
  <1>1. \A w \in Workers : calls[w].pc \in Idling
    BY DEF Init, Idle, Idling, Rest
  <1>2. QED
    BY <1>1, IdleRow DEF RowInv

\* The thread that answers is the one that took the step, and it is where the code
\* answers.
LEMMA AnswerMoves ==
  ASSUME TypeInv, [Next]_vars, NEW w \in Workers, calls[w].pc \in Evaluates
  PROVE  /\ calls'[w].pc = "reused" => Recheck(w)
         /\ calls'[w].pc = "completed" => Commit(w) \/ CommitUnsure(w)
         /\ calls'[w].pc = "raised" =>
              \/ Conclude(w)
              \/ calls[w].pc # "failing" /\ (CommitFails(w) \/ CommitUnsure(w))
  <1> DEFINE answers == {"reused", "completed", "raised"}
  <1>1. calls[w].pc \notin Rest \cup Ingests \cup answers
    BY DEF Evaluates, Rest, Ingests
  <1>2. CASE UNCHANGED vars
    BY <1>1, <1>2 DEF vars
  <1>3. CASE Crash
    BY <1>3 DEF Crash, Idle
  <1>4. ASSUME NEW v \in Workers,
               \/ \E range \in Requested, force \in BOOLEAN : Ingest(v, range, force)
               \/ ReadGaps(v) \/ AppendGap(v) \/ FetchFails(v) \/ ReadManifest(v)
               \/ Finalize(v) \/ FinalizeFails(v)
        PROVE  calls'[w].pc \notin answers
    <2>1. calls[v].pc \in Rest \cup Ingests /\ \A x \in Workers \ {v} : calls'[x] = calls[x]
      BY <1>4, IngestMoves DEF Ingests
    <2>2. QED
      BY <1>1, <2>1
  <1>5. ASSUME NEW v \in Workers,
               \/ \E scope \in Scopes, force \in BOOLEAN : Evaluate(v, scope, force)
               \/ Capture(v) \/ TakeLock(v) \/ Plan(v) \/ Insert(v) \/ InsertFails(v)
        PROVE  calls'[w].pc \notin answers
    <2>1. calls'[v].pc \notin answers /\ \A x \in Workers \ {v} : calls'[x] = calls[x]
      BY <1>5, ClaimMoves
    <2>2. QED
      BY <1>1, <2>1
  <1>6. ASSUME NEW v \in Workers,
               \/ Recheck(v) \/ Engines(v) \/ CheckSource(v) \/ Commit(v) \/ CommitFails(v)
               \/ CommitUnsure(v) \/ MarkFailed(v) \/ MarkFails(v) \/ Conclude(v)
        PROVE  /\ calls'[w].pc = "reused" => Recheck(w)
               /\ calls'[w].pc = "completed" => Commit(w) \/ CommitUnsure(w)
               /\ calls'[w].pc = "raised" =>
                    \/ Conclude(w)
                    \/ calls[w].pc # "failing" /\ (CommitFails(w) \/ CommitUnsure(w))
    <2>1. \A x \in Workers \ {v} : calls'[x] = calls[x]
      BY <1>6, FinishMoves
    <2>2. /\ calls'[v].pc = "reused" => Recheck(v)
          /\ calls'[v].pc = "completed" => Commit(v) \/ CommitUnsure(v)
          /\ calls'[v].pc = "raised" =>
               \/ Conclude(v)
               \/ calls[v].pc # "failing" /\ (CommitFails(v) \/ CommitUnsure(v))
      BY <1>6, FinishMoves
    <2>3. QED
      BY <1>1, <2>1, <2>2
  <1>7. QED
    BY <1>2, <1>3, <1>4, <1>5, <1>6 DEF Next, Step, Failure

LEMMA AnswersStep ==
  ASSUME TypeInv, RowInv, [Next]_vars,
         NEW w \in Workers, NEW i \in DOMAIN runs,
         calls[w].pc \in Evaluates, calls[w].item = i
  PROVE  /\ At(w, "reused")' => /\ runs[i].scope = calls[w].scope
                                /\ runs[i].data = Data(LocalQuery)
                                /\ EvaluatedIn(i) = runs[i].scope
         /\ At(w, "completed")' => Published(i)' = runs[i].scope
         /\ At(w, "failing") /\ At(w, "raised")' =>
              EvaluatedIn(i)' # runs[i].scope
         /\ At(w, "raised")' /\ faults' = 0 =>
              \A m \in runs[i].scope : runs[i].status[m] = "failed"
  <1> DEFINE c == calls[w]
  <1>1. Shape(c, requests, runs) /\ RowOK(c, runs, faults)
    BY DEF TypeInv, RowInv
  <1>2. ASSUME c.pc \in Busy \cup {"reuse"}
        PROVE  runs[i].scope = c.scope /\ runs[i].data = c.data
    BY <1>1, <1>2 DEF Shape
  <1>3. ASSUME calls'[w].pc = "reused"
        PROVE  /\ runs[i].scope = c.scope /\ runs[i].data = Data(LocalQuery)
               /\ EvaluatedIn(i) = runs[i].scope
    <2>1. c.pc = "reuse" /\ IsCurrent(c.data)
      BY <1>3, AnswerMoves, FinishMoves
    <2>2. runs[i].scope = c.scope /\ runs[i].data = Data(LocalQuery)
      BY <1>2, <2>1 DEF IsCurrent
    <2>3. \A m \in c.scope : runs[i].status[m] = "evaluated"
      BY <1>1, <2>1 DEF RowOK
    <2>4. QED
      BY <2>2, <2>3 DEF EvaluatedIn
  <1>4. ASSUME NEW found \in [c.scope -> {"evaluated", "unavailable"}],
               Publish(c, found), c.pc = "commit"
        PROVE  Published(i)' = runs[i].scope
    <2>1. /\ runs[i].scope = c.scope /\ SameRun(runs'[i], runs[i])
          /\ \A m \in c.scope : runs'[i].status[m] = IF runs[i].status[m] = "running"
                                                     THEN found[m] ELSE runs[i].status[m]
      BY <1>4, PublishedRows
    <2>2. \A m \in c.scope : runs[i].status[m] = "running"
      BY <1>1, <1>4 DEF RowOK, Computing
    <2>3. \A m \in c.scope : found[m] \in {"evaluated", "unavailable"}
      BY <1>4
    <2>4. runs'[i].scope = c.scope /\ \A m \in c.scope : runs'[i].status[m] \in {"evaluated", "unavailable"}
      BY <2>1, <2>2, <2>3 DEF SameRun
    <2>5. QED
      BY <2>1, <2>4 DEF Published
  <1>5. ASSUME calls'[w].pc = "completed"
        PROVE  Published(i)' = runs[i].scope
    <2>1. CASE Commit(w)
      BY <1>4, <2>1 DEF Commit
    <2>2. CASE CommitUnsure(w)
      BY <1>4, <2>2 DEF CommitUnsure
    <2>3. QED
      BY <1>5, <2>1, <2>2, AnswerMoves
  <1>6. ASSUME Conclude(w), calls'[w].pc = "raised"
        PROVE  /\ EvaluatedIn(i)' # runs[i].scope /\ faults' = faults
               /\ faults = 0 => \A m \in runs[i].scope : runs[i].status[m] = "failed"
    <2>1. Conclude(w) /\ faults' = faults
      BY <1>6 DEF Conclude
    <2>2. c.pc = "failing" /\ c.left = {} /\ runs' = runs
      BY <2>1 DEF Conclude, database
    <2>3. runs[i].scope = c.scope
      BY <1>2, <2>2 DEF Busy
    <2>4. \E m \in runs[i].scope : runs[i].status[m] # "evaluated"
      BY <1>1, <2>2, <2>3 DEF RowOK
    <2>5. EvaluatedIn(i)' # runs[i].scope
      BY <2>2, <2>4 DEF EvaluatedIn
    <2>6. faults = 0 => \A m \in runs[i].scope : runs[i].status[m] = "failed"
      BY <1>1, <2>2, <2>3 DEF RowOK
    <2>7. QED
      BY <2>1, <2>5, <2>6
  <1>7. ASSUME CommitFails(w) \/ CommitUnsure(w)
        PROVE  faults' # 0
    <2>1. faults \in Nat /\ Fault
      <3>1. Fault
        BY <1>7 DEF CommitFails, CommitUnsure
      <3>2. faults \in 0..MaxFaults /\ MaxFaults \in Nat
        BY EvaluationAssumption DEF TypeInv, TypeOK
      <3>3. QED
        BY <3>1, <3>2
    <2>2. QED
      BY <2>1 DEF Fault
  <1>8. ASSUME calls'[w].pc = "raised"
        PROVE  \/ Conclude(w)
               \/ c.pc # "failing" /\ faults' # 0
    BY <1>7, <1>8, AnswerMoves
  <1>9. QED
    BY <1>3, <1>5, <1>6, <1>8 DEF At

\* A cohort that is reused is evaluated whole over the bars of that moment, a completed
\* one has all its results, and one whose call marked its rows and raised is without
\* them; a call that raised has all its rows failed unless the database failed.
THEOREM AnswersTrue == Spec => AnswersAreTrue
  <1>1. Init => TypeInv /\ RowInv
    BY InitType, RowInit
  <1>2. TypeInv /\ RowInv /\ [Next]_vars => (TypeInv /\ RowInv)'
    BY NextType, RowStep
  <1>3. TypeInv /\ RowInv /\ [Next]_vars
          => [\A w \in Workers : \A i \in DOMAIN runs :
                calls[w].pc \in Evaluates /\ calls[w].item = i =>
                  /\ At(w, "reused")' => /\ runs[i].scope = calls[w].scope
                                        /\ runs[i].data = Data(LocalQuery)
                                        /\ EvaluatedIn(i) = runs[i].scope
                  /\ At(w, "completed")' => Published(i)' = runs[i].scope
                  /\ At(w, "failing") /\ At(w, "raised")' =>
                       EvaluatedIn(i)' # runs[i].scope
                  /\ At(w, "raised")' /\ faults' = 0 =>
                       \A m \in runs[i].scope : runs[i].status[m] = "failed"]_vars
    BY AnswersStep
  <1>4. QED
    BY <1>1, <1>2, <1>3, PTL DEF Spec, AnswersAreTrue

-----------------------------------------------------------------------------
(* Who holds which locks.  A call that may still write a row that is absent *)
(* holds the locks of its whole cohort.                                    *)

Unwritten(c, made) == \E m \in c.scope : made[c.item].status[m] = "absent"

LockOK(c, locks, made) ==
  /\ c.pc \notin Claiming \cup {"failing"} => locks = {}
  /\ c.pc = "lock" => locks \subseteq Locks(c)
  /\ c.pc \in {"plan", "insert"} => locks = Locks(c)
  /\ c.pc = "failing" /\ Unwritten(c, made) => locks = Locks(c)

LockInv ==
  /\ \A w, v \in Workers : w # v => held[w] \cap held[v] = {}
  /\ \A w \in Workers : LockOK(calls[w], held[w], runs)

\* Two calls that hold all their locks share no strategy over the same bars.
LEMMA LockConflict ==
  ASSUME LockInv, NEW w \in Workers, NEW v \in Workers \ {w},
         held[w] = Locks(calls[w]), held[v] = Locks(calls[v]),
         calls[w].data = calls[v].data, NEW m \in calls[w].scope \cap calls[v].scope
  PROVE  FALSE
  <1>1. <<calls[w].data, m>> \in held[w] /\ <<calls[w].data, m>> \in held[v]
    BY DEF Locks
  <1>2. QED
    BY <1>1 DEF LockInv

\* A row is written once, by the call that failed to reserve it, when it was absent.
LEMMA AbsentRows ==
  ASSUME TypeInv, [Next]_vars, NEW i \in DOMAIN runs, NEW m \in runs[i].scope
  PROVE  /\ runs'[i].status[m] = "absent" => runs[i].status[m] = "absent"
         /\ runs[i].status[m] = "absent" /\ runs'[i].status[m] # "absent" =>
              \E w \in Workers : /\ MarkFailed(w) /\ calls[w].pc = "failing"
                                 /\ calls[w].item = i /\ calls[w].scope = runs[i].scope
                                 /\ Unwritten(calls[w], runs)
  <1>1. TablesOK
    BY DEF TypeInv, TypeOK, TablesOK, Numbered
  <1>2. CASE runs'[i] = runs[i]
    BY <1>2
  <1>3. ASSUME NEW w \in Workers, MarkFailed(w)
        PROVE  /\ runs'[i].status[m] = "absent" => runs[i].status[m] = "absent"
               /\ runs[i].status[m] = "absent" /\ runs'[i].status[m] # "absent" =>
                    /\ calls[w].pc = "failing" /\ calls[w].item = i
                    /\ calls[w].scope = runs[i].scope /\ Unwritten(calls[w], runs)
    <2> DEFINE c == calls[w]
               k == Min(c.left)
    <2>1. /\ c.pc = "failing" /\ k \in c.left /\ c.left \subseteq c.scope
          /\ runs[c.item].scope = c.scope
          /\ \A j \in DOMAIN runs : j # c.item => runs'[j] = runs[j]
          /\ runs'[c.item].status[k] = Failed(runs[c.item].status[k])
          /\ \A l \in c.scope \ {k} : runs'[c.item].status[l] = runs[c.item].status[l]
      BY <1>3, MarkedRows
    <2> HIDE DEF c, k
    <2>2. CASE c.item # i
      BY <1>2, <2>1, <2>2
    <2>3. CASE c.item = i
      <3>1. CASE m = k
        BY <2>1, <2>3, <3>1 DEF Failed, Unwritten, c
      <3>2. CASE m # k
        BY <2>1, <2>3, <3>2
      <3>3. QED
        BY <3>1, <3>2
    <2>4. QED
      BY <2>2, <2>3
  <1>4. ASSUME NEW w \in Workers, Commit(w) \/ CommitUnsure(w)
        PROVE  runs'[i].status[m] = "absent" <=> runs[i].status[m] = "absent"
    <2>1. PICK found \in [calls[w].scope -> {"evaluated", "unavailable"}] :
            Publish(calls[w], found) /\ calls[w].pc = "commit"
      BY <1>4 DEF Commit, CommitUnsure
    <2>2. /\ runs[calls[w].item].scope = calls[w].scope
          /\ \A j \in DOMAIN runs : j # calls[w].item => runs'[j] = runs[j]
          /\ \A k \in calls[w].scope :
               runs'[calls[w].item].status[k] =
                 IF runs[calls[w].item].status[k] = "running" THEN found[k]
                 ELSE runs[calls[w].item].status[k]
      BY <2>1, PublishedRows
    <2>3. \A k \in calls[w].scope : found[k] # "absent"
      BY <2>1
    <2>4. CASE calls[w].item = i
      BY <2>2, <2>3, <2>4
    <2>5. CASE calls[w].item # i
      BY <2>2, <2>5
    <2>6. QED
      BY <2>4, <2>5
  <1>5. ASSUME NEW new, runs' = Append(runs, new)
        PROVE  runs'[i] = runs[i]
    <2>1. runs \in Seq(Run) /\ i \in 1..Len(runs)
      BY <1>1 DEF TablesOK
    <2>2. QED
      BY <1>5, <2>1
  <1>6. ASSUME NEW w \in Workers, Insert(w) \/ InsertFails(w)
        PROVE  runs' = runs \/ \E new : runs' = Append(runs, new)
    BY <1>6 DEF Insert, InsertFails
  <1>7. ASSUME NEW w \in Workers, Step(w) \/ Failure(w)
        PROVE  \/ runs' = runs \/ Insert(w) \/ InsertFails(w) \/ MarkFailed(w)
               \/ Commit(w) \/ CommitUnsure(w)
    BY <1>7 DEF Step, Failure, ReadGaps, AppendGap, FetchFails, ReadManifest, Finalize,
                Capture, TakeLock, Plan, Recheck, Engines, CheckSource, Conclude,
                FinalizeFails, CommitFails, MarkFails, database
  <1>8. CASE UNCHANGED vars \/ Crash
    BY <1>2, <1>8 DEF vars, database, Crash
  <1>9. ASSUME NEW w \in Workers,
               \/ \E range \in Requested, force \in BOOLEAN : Ingest(w, range, force)
               \/ \E scope \in Scopes, force \in BOOLEAN : Evaluate(w, scope, force)
        PROVE  runs' = runs
    BY <1>9 DEF Ingest, Evaluate, database
  <1>10. QED
    BY <1>2, <1>3, <1>4, <1>5, <1>6, <1>7, <1>8, <1>9 DEF Next

\* A call whose rows were all inserted and that fails has no row to write.
LEMMA WrittenAlready ==
  ASSUME TypeInv, RowInv, [Next]_vars, NEW w \in Workers, calls[w].pc \in Computing,
         Same(calls'[w], calls[w]), calls'[w].item = calls[w].item
  PROVE  ~Unwritten(calls'[w], runs')
  <1>1. /\ calls[w].item \in DOMAIN runs /\ runs[calls[w].item].scope = calls[w].scope
        /\ \A m \in calls[w].scope : runs[calls[w].item].status[m] = "running"
    BY DEF TypeInv, RowInv, RowOK, Shape, Computing, Busy
  <1>2. \A m \in calls[w].scope : runs'[calls[w].item].status[m] # "absent"
    BY <1>1, AbsentRows
  <1>3. QED
    BY <1>2 DEF Unwritten, Same

\* The locks that a thread waits for are finitely many.
LEMMA WaitingIsFinite ==
  ASSUME NEW w \in Workers, calls[w].scope \in Scopes
  PROVE  IsFiniteSet(Waiting(w))
  <1> DEFINE c == calls[w]
             f == [m \in c.scope |-> <<c.data, m>>]
  <1>1. IsFiniteSet(c.scope)
    BY EvaluationAssumption
  <1>2. f \in Surjection(c.scope, Locks(c))
    BY DEF Surjection, Locks
  <1>3. IsFiniteSet(Locks(c))
    BY <1>1, <1>2, FS_Surjection
  <1>4. Waiting(w) \in SUBSET Locks(c)
    BY DEF Waiting
  <1>5. QED
    BY <1>3, <1>4, FS_Subset

\* A step of one thread, which takes no lock that another holds.
LEMMA LockOneCall ==
  ASSUME TypeInv, LockInv, [Next]_vars, NEW w \in Workers,
         \A v \in Workers \ {w} : calls'[v] = calls[v] /\ held'[v] = held[v],
         \A v \in Workers \ {w} : held'[w] \cap held[v] = {},
         LockOK(calls'[w], held'[w], runs')
  PROVE  LockInv'
  <1>1. ASSUME NEW v \in Workers \ {w}
        PROVE  LockOK(calls'[v], held'[v], runs')
    <2>1. LockOK(calls[v], held[v], runs) /\ Shape(calls[v], requests, runs)
      BY DEF LockInv, TypeInv
    <2>2. calls[v].pc = "failing" /\ Unwritten(calls[v], runs') => Unwritten(calls[v], runs)
      BY <2>1, AbsentRows DEF Unwritten, Shape, Busy
    <2>3. QED
      BY <2>1, <2>2 DEF LockOK
  <1>2. \A x \in Workers : LockOK(calls'[x], held'[x], runs')
    BY <1>1
  <1>3. ASSUME NEW x \in Workers, NEW y \in Workers, x # y
        PROVE  held'[x] \cap held'[y] = {}
    <2>1. CASE x = w
      BY <1>3, <2>1
    <2>2. CASE y = w
      BY <1>3, <2>2
    <2>3. CASE x # w /\ y # w
      BY <1>3, <2>3 DEF LockInv
    <2>4. QED
      BY <2>1, <2>2, <2>3
  <1>4. QED
    BY <1>2, <1>3 DEF LockInv

LEMMA LockStep ==
  ASSUME TypeInv, RowInv, LockInv, [Next]_vars
  PROVE  LockInv'
  <1>1. /\ held \in [Workers -> SUBSET (Datasets \X Nat)]
        /\ \A w \in Workers : Shape(calls[w], requests, runs) /\ LockOK(calls[w], held[w], runs)
        /\ \A w, v \in Workers : w # v => held[w] \cap held[v] = {}
    BY DEF TypeInv, TypeOK, LockInv
  <1>2. CASE UNCHANGED vars
    BY <1>2 DEF vars, database, LockInv
  <1>3. CASE Crash
    <2>1. calls' = [w \in Workers |-> Idle] /\ held' = [w \in Workers |-> {}]
      BY <1>3 DEF Crash
    <2>2. \A w \in Workers : calls'[w].pc = "idle" /\ held'[w] = {}
      BY <2>1 DEF Idle
    <2>3. QED
      BY <2>2 DEF LockInv, LockOK, Claiming
  <1>4. ASSUME NEW w \in Workers, held' = held, \A v \in Workers \ {w} : calls'[v] = calls[v],
               LockOK(calls'[w], held[w], runs')
        PROVE  LockInv'
    BY <1>1, <1>4, LockOneCall
  <1>5. ASSUME NEW w \in Workers, held' = [held EXCEPT ![w] = {}],
               \A v \in Workers \ {w} : calls'[v] = calls[v],
               calls'[w].pc \notin Claiming \cup {"failing"}
        PROVE  LockInv'
    <2>1. held'[w] = {} /\ \A v \in Workers \ {w} : held'[v] = held[v]
      BY <1>1, <1>5
    <2>2. LockOK(calls'[w], held'[w], runs')
      BY <1>5, <2>1 DEF LockOK, Claiming
    <2>3. QED
      BY <1>5, <2>1, <2>2, LockOneCall
  <1>6. ASSUME NEW w \in Workers, held' = held,
               calls[w].pc \notin Claiming \cup {"failing"},
               \A v \in Workers \ {w} : calls'[v] = calls[v],
               \/ calls'[w].pc \notin {"plan", "insert", "failing"}
               \/ calls'[w].pc = "failing" /\ ~Unwritten(calls'[w], runs')
        PROVE  LockInv'
    <2>1. held[w] = {}
      BY <1>1, <1>6 DEF LockOK
    <2>2. LockOK(calls'[w], held[w], runs')
      BY <1>6, <2>1 DEF LockOK, Claiming
    <2>3. QED
      BY <1>4, <1>6, <2>2
  <1>7. ASSUME NEW w \in Workers,
               \/ \E range \in Requested, force \in BOOLEAN : Ingest(w, range, force)
               \/ ReadGaps(w) \/ AppendGap(w) \/ FetchFails(w) \/ ReadManifest(w)
               \/ Finalize(w) \/ FinalizeFails(w)
        PROVE  LockInv'
    <2>1. held' = held
      BY <1>7 DEF Ingest, ReadGaps, AppendGap, FetchFails, ReadManifest, Finalize, FinalizeFails
    <2>2. /\ calls[w].pc \in Rest \cup Ingests /\ calls'[w].pc \in Rest \cup Ingests
          /\ \A v \in Workers \ {w} : calls'[v] = calls[v]
      BY <1>7, IngestMoves DEF Rest, Ingests
    <2>3. QED
      BY <1>6, <2>1, <2>2 DEF Rest, Ingests, Claiming
  <1>8. ASSUME NEW w \in Workers,
               \/ \E scope \in Scopes, force \in BOOLEAN : Evaluate(w, scope, force)
               \/ Capture(w) \/ Recheck(w) \/ Commit(w)
        PROVE  LockInv'
    <2>1. held' = held
      BY <1>8 DEF Evaluate, Capture, Recheck, Commit
    <2>2. /\ calls[w].pc \notin Claiming \cup {"failing"}
          /\ calls'[w].pc \notin {"plan", "insert", "failing"}
          /\ \A v \in Workers \ {w} : calls'[v] = calls[v]
      BY <1>8, ClaimMoves, FinishMoves DEF Rest, Claiming
    <2>3. QED
      BY <1>6, <2>1, <2>2
  <1>9. ASSUME NEW w \in Workers, Engines(w) \/ CheckSource(w) \/ CommitFails(w) \/ CommitUnsure(w)
        PROVE  LockInv'
    <2>1. held' = held
      BY <1>9 DEF Engines, CheckSource, CommitFails, CommitUnsure
    <2>2. /\ calls[w].pc \in Computing /\ \A v \in Workers \ {w} : calls'[v] = calls[v]
          /\ \/ calls'[w].pc \in {"check", "commit", "completed", "raised"}
             \/ /\ calls'[w].pc = "failing"
                /\ Same(calls'[w], calls[w]) /\ calls'[w].item = calls[w].item
      BY <1>9, FinishMoves DEF Computing
    <2>3. calls[w].pc \notin Claiming \cup {"failing"}
      BY <2>2 DEF Computing, Claiming
    <2>4. calls'[w].pc = "failing" => ~Unwritten(calls'[w], runs')
      BY <2>2, WrittenAlready
    <2>5. QED
      BY <1>6, <2>1, <2>2, <2>3, <2>4
  <1>10. ASSUME NEW w \in Workers, TakeLock(w)
         PROVE  LockInv'
    <2> DEFINE c == calls[w]
    <2>1. /\ c.pc = "lock" /\ \A v \in Workers \ {w} : calls'[v] = calls[v]
          /\ Same(calls'[w], c)
          /\ calls'[w].pc = IF Cardinality(Waiting(w)) = 1 THEN "plan" ELSE "lock"
      BY <1>10, ClaimMoves
    <2>2. PICK l \in NextLocks(w) : IsFree(l) /\ held' = [held EXCEPT ![w] = @ \cup {l}]
      BY <1>10 DEF TakeLock
    <2>3. /\ held'[w] = held[w] \cup {l} /\ \A v \in Workers \ {w} : held'[v] = held[v]
          /\ l \in Waiting(w)
      BY <1>1, <2>2 DEF NextLocks
    <2>4. \A v \in Workers \ {w} : held'[w] \cap held[v] = {}
      BY <1>1, <2>2, <2>3 DEF IsFree
    <2>5. held[w] \subseteq Locks(c) /\ Locks(calls'[w]) = Locks(c) /\ l \in Locks(c)
      BY <1>1, <2>1, <2>3 DEF LockOK, Locks, Same, Waiting
    <2>6. ASSUME Cardinality(Waiting(w)) = 1
          PROVE  held'[w] = Locks(c)
      <3>1. IsFiniteSet(Waiting(w))
        BY <1>1, <2>1, WaitingIsFinite DEF Shape, Evaluates
      <3>2. Waiting(w) = {l}
        BY <2>3, <2>6, <3>1, FS_Singleton
      <3>3. QED
        BY <2>3, <2>5, <3>2 DEF Waiting
    <2>7. LockOK(calls'[w], held'[w], runs')
      BY <2>1, <2>3, <2>5, <2>6 DEF LockOK, Claiming
    <2>8. QED
      BY <2>1, <2>3, <2>4, <2>7, LockOneCall
  <1>11. ASSUME NEW w \in Workers, Plan(w)
         PROVE  LockInv'
    <2>1. /\ calls[w].pc = "plan" /\ \A v \in Workers \ {w} : calls'[v] = calls[v]
          /\ Same(calls'[w], calls[w])
          /\ \/ calls'[w].pc = "reuse" /\ held' = [held EXCEPT ![w] = {}]
             \/ calls'[w].pc = "insert" /\ held' = held
      BY <1>11, ClaimMoves
    <2>2. CASE calls'[w].pc = "reuse" /\ held' = [held EXCEPT ![w] = {}]
      BY <1>5, <2>1, <2>2 DEF Claiming
    <2>3. CASE calls'[w].pc = "insert" /\ held' = held
      <3>1. held[w] = Locks(calls[w]) /\ Locks(calls'[w]) = Locks(calls[w])
        BY <1>1, <2>1 DEF LockOK, Locks, Same
      <3>2. LockOK(calls'[w], held[w], runs')
        BY <2>3, <3>1 DEF LockOK, Claiming
      <3>3. QED
        BY <1>4, <2>1, <2>3, <3>2
    <2>4. QED
      BY <2>1, <2>2, <2>3
  <1>12. ASSUME NEW w \in Workers, Insert(w) \/ Conclude(w)
         PROVE  LockInv'
    <2>1. held' = [held EXCEPT ![w] = {}]
      BY <1>12 DEF Insert, Conclude
    <2>2. /\ calls'[w].pc \notin Claiming \cup {"failing"}
          /\ \A v \in Workers \ {w} : calls'[v] = calls[v]
      BY <1>12, ClaimMoves, FinishMoves DEF Claiming
    <2>3. QED
      BY <1>5, <2>1, <2>2
  <1>13. ASSUME NEW w \in Workers, InsertFails(w)
         PROVE  LockInv'
    <2>1. held' = held
      BY <1>13 DEF InsertFails
    <2>2. /\ calls[w].pc = "insert" /\ Same(calls'[w], calls[w])
          /\ calls'[w].pc \in {"plan", "failing"}
          /\ \A v \in Workers \ {w} : calls'[v] = calls[v]
      BY <1>13, ClaimMoves
    <2>3. held[w] = Locks(calls[w]) /\ Locks(calls'[w]) = Locks(calls[w])
      BY <1>1, <2>2 DEF LockOK, Locks, Same
    <2>4. LockOK(calls'[w], held[w], runs')
      BY <2>2, <2>3 DEF LockOK, Claiming
    <2>5. QED
      BY <1>4, <2>1, <2>2, <2>4
  <1>14. ASSUME NEW w \in Workers, MarkFailed(w) \/ MarkFails(w)
         PROVE  LockInv'
    <2>1. held' = held
      BY <1>14 DEF MarkFailed, MarkFails
    <2>2. /\ calls[w].pc = "failing" /\ calls'[w].pc = "failing" /\ Same(calls'[w], calls[w])
          /\ calls'[w].item = calls[w].item /\ \A v \in Workers \ {w} : calls'[v] = calls[v]
      BY <1>14, FinishMoves
    <2>3. Unwritten(calls'[w], runs') => Unwritten(calls[w], runs)
      BY <1>1, <2>2, AbsentRows DEF Unwritten, Same, Shape, Busy
    <2>4. Locks(calls'[w]) = Locks(calls[w])
      BY <2>2 DEF Locks, Same
    <2>5. LockOK(calls'[w], held[w], runs')
      BY <1>1, <2>2, <2>3, <2>4 DEF LockOK, Claiming
    <2>6. QED
      BY <1>4, <2>1, <2>2, <2>5
  <1>15. QED
    BY <1>2, <1>3, <1>7, <1>8, <1>9, <1>10, <1>11, <1>12, <1>13, <1>14 DEF Next, Step, Failure

LEMMA LockInit == Init => LockInv
  BY DEF Init, Idle, LockInv, LockOK, Claiming

-----------------------------------------------------------------------------
(* Reservations are told apart.  The generation and the timestamp of a     *)
(* planned run stay above all others', for nobody else may write a row of  *)
(* its strategies over its bars as long as it holds their locks.           *)

Overlaps(c, run) ==
  run.data = c.data /\ \E m \in c.scope \cap run.scope : run.status[m] # "absent"

ReserveOK(c, made) ==
  /\ c.pc = "insert" => \A i \in DOMAIN made :
       /\ made[i].scope = c.scope /\ made[i].data = c.data => made[i].gen < c.gen
       /\ Overlaps(c, made[i]) => made[i].at < c.at
  /\ c.pc = "failing" /\ Unwritten(c, made) => \A i \in DOMAIN made \ {c.item} :
       Overlaps(c, made[i]) => made[i].at < made[c.item].at

ReserveInv == ReservationsAreDistinct /\ \A w \in Workers : ReserveOK(calls[w], runs)

\* A run that is new has the scope, the bars and the timestamp that were planned for it.
LEMMA NewRunFacts ==
  ASSUME TypeInv, [Next]_vars, NEW i \in DOMAIN runs', i \notin DOMAIN runs
  PROVE  /\ i = Len(runs) + 1 /\ \A j \in DOMAIN runs : runs'[j] = runs[j]
         /\ \E w \in Workers :
              /\ calls[w].pc = "insert" /\ calls'[w].pc \in {"engines", "failing"}
              /\ calls'[w].item = i /\ Same(calls'[w], calls[w])
              /\ runs'[i].scope = calls[w].scope /\ runs'[i].data = calls[w].data
              /\ runs'[i].at = calls[w].at
              /\ \/ calls'[w].pc = "engines" /\ runs'[i].gen = calls[w].gen
                 \/ /\ calls'[w].pc = "failing" /\ runs'[i].gen = 0
                    /\ \A m \in calls[w].scope : runs'[i].status[m] = "absent"
  <1>1. PICK w \in Workers : Insert(w) \/ InsertFails(w)
    BY RunsGrow
  <1>2. i = Len(runs) + 1
    BY RunsGrow
  <1>3. runs \in Seq(Run) /\ Len(runs) \in Nat
    BY DEF TypeInv, TypeOK
  <1>4. ASSUME NEW gen, NEW row, runs' = Append(runs, NewRun(calls[w], gen, row))
        PROVE  /\ \A j \in DOMAIN runs : runs'[j] = runs[j]
               /\ runs'[i].scope = calls[w].scope /\ runs'[i].data = calls[w].data
               /\ runs'[i].at = calls[w].at /\ runs'[i].gen = gen
               /\ \A m \in calls[w].scope : runs'[i].status[m] = row
    <2> DEFINE new == NewRun(calls[w], gen, row)
    <2>1. /\ new.scope = calls[w].scope /\ new.data = calls[w].data
          /\ new.at = calls[w].at /\ new.gen = gen
          /\ \A m \in calls[w].scope : new.status[m] = row
      BY DEF NewRun
    <2> HIDE DEF new
    <2>2. runs' = Append(runs, new)
      BY <1>4 DEF new
    <2>3. runs'[i] = new /\ \A j \in DOMAIN runs : runs'[j] = runs[j]
      BY <1>2, <1>3, <2>2
    <2>4. QED
      BY <2>1, <2>3
  <1>5. CASE Insert(w)
    <2>1. runs' = Append(runs, NewRun(calls[w], calls[w].gen, "running"))
      BY <1>5 DEF Insert
    <2>2. /\ calls[w].pc = "insert" /\ calls'[w].pc = "engines" /\ calls'[w].item = i
          /\ Same(calls'[w], calls[w])
      BY <1>2, <1>5, ClaimMoves
    <2>3. QED
      BY <1>2, <1>4, <2>1, <2>2
  <1>6. CASE InsertFails(w)
    <2>1. runs' # runs
      <3>1. DOMAIN runs' # DOMAIN runs
        OBVIOUS
      <3>2. QED
        BY <3>1
    <2>2. /\ calls[w].pc = "insert" /\ calls'[w].pc = "failing" /\ calls'[w].item = i
          /\ Same(calls'[w], calls[w]) /\ runs' = Append(runs, NewRun(calls[w], 0, "absent"))
      BY <1>2, <1>6, <2>1, ClaimMoves
    <2>3. QED
      BY <1>2, <1>4, <2>2
  <1>7. QED
    BY <1>1, <1>5, <1>6

\* What a call has reserved, a step of another thread leaves reserved.
LEMMA ReserveKept ==
  ASSUME TypeInv, RowInv, LockInv, ReserveInv, [Next]_vars,
         NEW v \in Workers, calls'[v] = calls[v]
  PROVE  ReserveOK(calls'[v], runs')
  <1> DEFINE c == calls[v]
  <1>1. /\ ReserveOK(c, runs) /\ Kept
        /\ \A w \in Workers : LockOK(calls[w], held[w], runs) /\ Shape(calls[w], requests, runs)
    BY NextType DEF ReserveInv, LockInv, TypeInv
  <1>2. ASSUME NEW i \in DOMAIN runs', Overlaps(c, runs'[i]), held[v] = Locks(c),
               \/ c.pc = "insert"
               \/ c.pc = "failing" /\ i # c.item
        PROVE  i \in DOMAIN runs /\ Overlaps(c, runs[i])
    <2>1. PICK m \in c.scope \cap runs'[i].scope :
            runs'[i].status[m] # "absent" /\ runs'[i].data = c.data
      BY <1>2 DEF Overlaps
    <2>2. CASE i \in DOMAIN runs
      <3>1. SameRun(runs'[i], runs[i])
        BY <1>1, <2>2 DEF Kept
      <3>2. CASE runs[i].status[m] # "absent"
        BY <2>1, <2>2, <3>1, <3>2 DEF Overlaps, SameRun
      <3>3. CASE runs[i].status[m] = "absent"
        <4>1. m \in runs[i].scope /\ runs[i].data = c.data
          BY <2>1, <3>1 DEF SameRun
        <4>2. PICK w \in Workers : /\ calls[w].pc = "failing" /\ calls[w].item = i
                                   /\ calls[w].scope = runs[i].scope
                                   /\ Unwritten(calls[w], runs)
          BY <2>1, <2>2, <3>3, <4>1, AbsentRows
        <4>3. held[w] = Locks(calls[w]) /\ runs[i].data = calls[w].data
          BY <1>1, <4>2 DEF LockOK, Shape, Busy
        <4>4. w # v
          BY <1>2, <4>2
        <4>5. m \in calls[w].scope \cap calls[v].scope
          BY <2>1, <4>1, <4>2
        <4>6. QED
          BY <1>2, <4>1, <4>3, <4>4, <4>5, LockConflict
      <3>4. QED
        BY <3>2, <3>3
    <2>3. CASE i \notin DOMAIN runs
      <3>1. PICK w \in Workers : /\ calls[w].pc = "insert" /\ calls'[w].pc \in {"engines", "failing"}
                                 /\ calls'[w].item = i
                                 /\ runs'[i].scope = calls[w].scope /\ runs'[i].data = calls[w].data
        BY <2>3, NewRunFacts
      <3>2. w # v
        BY <1>2, <3>1
      <3>3. held[w] = Locks(calls[w])
        BY <1>1, <3>1 DEF LockOK
      <3>4. QED
        BY <1>2, <2>1, <3>1, <3>2, <3>3, LockConflict
    <2>4. QED
      BY <2>2, <2>3
  <1>3. ASSUME c.pc = "insert", NEW i \in DOMAIN runs'
        PROVE  /\ runs'[i].scope = c.scope /\ runs'[i].data = c.data => runs'[i].gen < c.gen
               /\ Overlaps(c, runs'[i]) => runs'[i].at < c.at
    <2>1. held[v] = Locks(c) /\ c.scope # {}
      BY <1>1, <1>3, EvaluationAssumption DEF LockOK, Shape, Evaluates
    <2>2. ASSUME i \in DOMAIN runs
          PROVE  SameRun(runs'[i], runs[i])
      BY <1>1, <2>2 DEF Kept
    <2>3. Overlaps(c, runs'[i]) => runs'[i].at < c.at
      BY <1>1, <1>2, <1>3, <2>1, <2>2 DEF ReserveOK, SameRun
    <2>4. ASSUME runs'[i].scope = c.scope, runs'[i].data = c.data
          PROVE  runs'[i].gen < c.gen
      <3>1. CASE i \in DOMAIN runs
        BY <1>1, <1>3, <2>2, <2>4, <3>1 DEF ReserveOK, SameRun
      <3>2. CASE i \notin DOMAIN runs
        <4>1. PICK w \in Workers : /\ calls[w].pc = "insert" /\ calls'[w].pc \in {"engines", "failing"}
                                   /\ runs'[i].scope = calls[w].scope /\ runs'[i].data = calls[w].data
          BY <3>2, NewRunFacts
        <4>2. w # v /\ held[w] = Locks(calls[w])
          BY <1>1, <1>3, <4>1 DEF LockOK
        <4>3. PICK m : m \in c.scope
          BY <2>1
        <4>4. QED
          BY <2>1, <2>4, <4>1, <4>2, <4>3, LockConflict
      <3>3. QED
        BY <3>1, <3>2
    <2>5. QED
      BY <2>3, <2>4
  <1>4. ASSUME c.pc = "failing", Unwritten(c, runs'), NEW i \in DOMAIN runs' \ {c.item},
               Overlaps(c, runs'[i])
        PROVE  runs'[i].at < runs'[c.item].at
    <2>1. c.item \in DOMAIN runs /\ runs[c.item].scope = c.scope
      BY <1>1, <1>4 DEF Shape, Busy
    <2>2. Unwritten(c, runs)
      BY <1>4, <2>1, AbsentRows DEF Unwritten
    <2>3. held[v] = Locks(c)
      BY <1>1, <1>4, <2>2 DEF LockOK
    <2>4. i \in DOMAIN runs /\ Overlaps(c, runs[i])
      BY <1>2, <1>4, <2>3
    <2>5. runs[i].at < runs[c.item].at
      BY <1>1, <1>4, <2>2, <2>4 DEF ReserveOK
    <2>6. QED
      BY <1>1, <2>1, <2>4, <2>5 DEF Kept, SameRun
  <1>5. QED
    BY <1>3, <1>4 DEF ReserveOK

\* No two runs get the same generation, nor the same timestamp of a strategy.
LEMMA DistinctStep ==
  ASSUME TypeInv, RowInv, LockInv, ReserveInv, [Next]_vars
  PROVE  ReservationsAreDistinct'
  <1>1. /\ Kept /\ runs \in Seq(Run) /\ runs' \in Seq(Run)
        /\ ReservationsAreDistinct /\ \A w \in Workers : ReserveOK(calls[w], runs)
        /\ \A w \in Workers : Shape(calls[w], requests, runs)
    BY NextType DEF TypeInv, TypeOK, ReserveInv
  <1>2. /\ \A i \in DOMAIN runs : runs[i].gen \in Nat /\ runs[i].at \in Nat
        /\ \A i \in DOMAIN runs' : runs'[i].gen \in Nat /\ runs'[i].at \in Nat
    <2>1. (\A i \in DOMAIN runs : runs[i] \in Run) /\ \A i \in DOMAIN runs' : runs'[i] \in Run
      BY <1>1
    <2>2. QED
      BY <2>1 DEF Run
  \* Of two runs that were there, one may have got a row.
  <1>3. ASSUME NEW i \in DOMAIN runs, NEW j \in DOMAIN runs, i # j, runs[i].data = runs[j].data,
               NEW m \in runs[i].scope \cap runs[j].scope,
               runs[i].status[m] = "absent", runs'[i].status[m] # "absent",
               runs'[j].status[m] # "absent"
        PROVE  runs[j].at < runs[i].at
    <2>1. PICK w \in Workers : /\ MarkFailed(w) /\ calls[w].pc = "failing"
                               /\ calls[w].item = i /\ calls[w].scope = runs[i].scope
                               /\ Unwritten(calls[w], runs)
      BY <1>3, AbsentRows
    <2>2. runs'[j] = runs[j]
      BY <1>3, <2>1, MarkedRows
    <2>3. runs[i].data = calls[w].data
      BY <1>1, <2>1 DEF Shape, Busy
    <2>4. Overlaps(calls[w], runs[j])
      BY <1>3, <2>1, <2>2, <2>3 DEF Overlaps
    <2>5. QED
      BY <1>1, <1>3, <2>1, <2>4 DEF ReserveOK
  <1>4. ASSUME NEW i \in DOMAIN runs, NEW j \in DOMAIN runs, i # j, runs'[i].data = runs'[j].data
        PROVE  /\ runs'[i].scope = runs'[j].scope /\ runs'[i].gen > 0 => runs'[i].gen # runs'[j].gen
               /\ HasRow(i)' \cap HasRow(j)' # {} => runs'[i].at # runs'[j].at
    <2>1. SameRun(runs'[i], runs[i]) /\ SameRun(runs'[j], runs[j])
      BY <1>1 DEF Kept
    <2>2. runs'[i].scope = runs'[j].scope /\ runs'[i].gen > 0 => runs'[i].gen # runs'[j].gen
      BY <1>1, <1>4, <2>1 DEF ReservationsAreDistinct, SameRun
    <2>3. ASSUME NEW m \in HasRow(i)' \cap HasRow(j)'
          PROVE  runs'[i].at # runs'[j].at
      <3>1. /\ m \in runs[i].scope \cap runs[j].scope /\ runs[i].data = runs[j].data
            /\ runs'[i].status[m] # "absent" /\ runs'[j].status[m] # "absent"
        BY <1>4, <2>1 DEF HasRow, SameRun
      <3>2. CASE runs[i].status[m] = "absent"
        BY <1>2, <1>3, <1>4, <2>1, <3>1, <3>2 DEF SameRun
      <3>3. CASE runs[j].status[m] = "absent"
        BY <1>2, <1>3, <1>4, <2>1, <3>1, <3>3 DEF SameRun
      <3>4. CASE runs[i].status[m] # "absent" /\ runs[j].status[m] # "absent"
        <4>1. HasRow(i) \cap HasRow(j) # {}
          BY <3>1, <3>4 DEF HasRow
        <4>2. QED
          BY <1>1, <1>4, <2>1, <3>1, <4>1 DEF ReservationsAreDistinct, SameRun
      <3>5. QED
        BY <3>2, <3>3, <3>4
    <2>4. QED
      BY <2>2, <2>3
  \* A run that is new was planned above all those it could be mistaken for.
  <1>5. ASSUME NEW i \in DOMAIN runs', i \notin DOMAIN runs, NEW j \in DOMAIN runs,
               runs'[i].data = runs'[j].data
        PROVE  /\ runs'[i].scope = runs'[j].scope /\ (runs'[i].gen > 0 \/ runs'[j].gen > 0)
                    => runs'[i].gen # runs'[j].gen
               /\ HasRow(i)' \cap HasRow(j)' # {} => runs'[i].at # runs'[j].at
    <2>1. PICK w \in Workers :
            /\ calls[w].pc = "insert"
            /\ runs'[i].scope = calls[w].scope /\ runs'[i].data = calls[w].data
            /\ runs'[i].at = calls[w].at
            /\ \/ runs'[i].gen = calls[w].gen
               \/ runs'[i].gen = 0 /\ \A m \in calls[w].scope : runs'[i].status[m] = "absent"
      BY <1>5, NewRunFacts
    <2>2. runs'[j] = runs[j]
      BY <1>5, NewRunFacts
    <2>3. /\ runs[j].scope = calls[w].scope /\ runs[j].data = calls[w].data
               => runs[j].gen < calls[w].gen
          /\ Overlaps(calls[w], runs[j]) => runs[j].at < calls[w].at
      BY <1>1, <1>5, <2>1 DEF ReserveOK
    <2>4. runs'[i].gen \in Nat /\ runs'[i].at \in Nat /\ runs[j].gen \in Nat /\ runs[j].at \in Nat
      BY <1>2
    <2>5. ASSUME runs'[i].scope = runs'[j].scope, runs'[i].gen > 0 \/ runs'[j].gen > 0
          PROVE  runs'[i].gen # runs'[j].gen
      <3>1. CASE runs'[i].gen = calls[w].gen
        <4>1. runs[j].scope = calls[w].scope /\ runs[j].data = calls[w].data
          BY <1>5, <2>1, <2>2, <2>5
        <4>2. runs'[j].gen < runs'[i].gen /\ runs'[j].gen \in Nat /\ runs'[i].gen \in Nat
          BY <2>2, <2>3, <2>4, <3>1, <4>1
        <4>3. QED
          BY <4>2
      <3>2. CASE runs'[i].gen = 0
        BY <2>2, <2>4, <2>5, <3>2
      <3>3. QED
        BY <2>1, <3>1, <3>2
    <2>6. ASSUME NEW m \in HasRow(i)' \cap HasRow(j)'
          PROVE  runs'[i].at # runs'[j].at
      <3>1. m \in calls[w].scope \cap runs[j].scope /\ runs[j].status[m] # "absent"
        BY <2>1, <2>2 DEF HasRow
      <3>2. Overlaps(calls[w], runs[j])
        BY <1>5, <2>1, <2>2, <3>1 DEF Overlaps
      <3>3. QED
        BY <2>1, <2>2, <2>3, <2>4, <3>2
    <2>7. QED
      BY <2>5, <2>6
  <1>6. ASSUME NEW i \in DOMAIN runs', NEW j \in DOMAIN runs', i # j, runs'[i].data = runs'[j].data
        PROVE  /\ runs'[i].scope = runs'[j].scope /\ runs'[i].gen > 0 => runs'[i].gen # runs'[j].gen
               /\ HasRow(i)' \cap HasRow(j)' # {} => runs'[i].at # runs'[j].at
    <2>1. i \in DOMAIN runs \/ j \in DOMAIN runs
      BY <1>6, NewRunFacts
    <2>2. CASE i \in DOMAIN runs /\ j \in DOMAIN runs
      BY <1>4, <1>6, <2>2
    <2>3. CASE i \notin DOMAIN runs /\ j \in DOMAIN runs
      BY <1>5, <1>6, <2>3
    <2>4. CASE i \in DOMAIN runs /\ j \notin DOMAIN runs
      <3>1. /\ runs'[j].scope = runs'[i].scope /\ (runs'[j].gen > 0 \/ runs'[i].gen > 0)
                 => runs'[j].gen # runs'[i].gen
            /\ HasRow(j)' \cap HasRow(i)' # {} => runs'[j].at # runs'[i].at
        BY <1>5, <1>6, <2>4
      <3>2. HasRow(j)' \cap HasRow(i)' = HasRow(i)' \cap HasRow(j)'
        OBVIOUS
      <3>3. QED
        BY <3>1, <3>2
    <2>5. QED
      BY <2>1, <2>2, <2>3, <2>4
  <1>7. QED
    BY <1>6 DEF ReservationsAreDistinct

\* What the thread that steps has reserved itself.
LEMMA ReserveMoves ==
  ASSUME TypeInv, RowInv, LockInv, ReserveInv, [Next]_vars, NEW w \in Workers,
         calls'[w] # calls[w]
  PROVE  ReserveOK(calls'[w], runs')
  <1>1. /\ TablesOK /\ ReserveOK(calls[w], runs)
        /\ Shape(calls[w], requests, runs)
    BY DEF TypeInv, TypeOK, TablesOK, Numbered, ReserveInv
  <1>2. CASE calls'[w].pc \notin {"insert", "failing"}
    BY <1>2 DEF ReserveOK
  <1>3. ASSUME Plan(w)
        PROVE  ReserveOK(calls'[w], runs')
    <2>1. /\ Same(calls'[w], calls[w])
          /\ \/ calls'[w].pc = "reuse"
             \/ /\ calls'[w].pc = "insert" /\ calls'[w].gen = NextGen(calls[w])
                /\ calls'[w].at = NextAt(calls[w])
      BY <1>3, ClaimMoves
    <2>2. runs' = runs
      BY <1>3 DEF Plan, database
    <2>3. CASE /\ calls'[w].pc = "insert" /\ calls'[w].gen = NextGen(calls[w])
               /\ calls'[w].at = NextAt(calls[w])
      <3>1. ASSUME NEW i \in DOMAIN runs
            PROVE  /\ runs[i].scope = calls[w].scope /\ runs[i].data = calls[w].data
                        => runs[i].gen < NextGen(calls[w])
                   /\ Overlaps(calls[w], runs[i]) => runs[i].at < NextAt(calls[w])
        BY <1>1, NextNumbers DEF SameCohort, Overlaps, HasRow
      <3>2. \A i \in DOMAIN runs : Overlaps(calls'[w], runs[i]) <=> Overlaps(calls[w], runs[i])
        BY <2>1 DEF Overlaps, Same
      <3>3. QED
        BY <2>1, <2>2, <2>3, <3>1, <3>2 DEF ReserveOK, Same
    <2>4. QED
      BY <1>2, <2>1, <2>3
  <1>4. ASSUME InsertFails(w)
        PROVE  ReserveOK(calls'[w], runs')
    <2>1. /\ calls[w].pc = "insert" /\ Same(calls'[w], calls[w])
          /\ \/ calls'[w].pc = "plan"
             \/ /\ calls'[w].pc = "failing" /\ calls'[w].item = Len(runs) + 1
                /\ runs' = Append(runs, NewRun(calls[w], 0, "absent"))
      BY <1>4, ClaimMoves
    <2>2. CASE /\ calls'[w].pc = "failing" /\ calls'[w].item = Len(runs) + 1
               /\ runs' = Append(runs, NewRun(calls[w], 0, "absent"))
      <3> DEFINE new == NewRun(calls[w], 0, "absent")
      <3>1. new.at = calls[w].at
        BY DEF NewRun
      <3> HIDE DEF new
      <3>2. runs \in Seq(Run) /\ Len(runs) \in Nat /\ runs' = Append(runs, new)
        BY <1>1, <2>2 DEF TablesOK, new
      <3>3. /\ DOMAIN runs' \ {Len(runs) + 1} = DOMAIN runs
            /\ \A i \in DOMAIN runs : runs'[i] = runs[i]
            /\ runs'[Len(runs) + 1].at = calls[w].at
        <4>1. /\ DOMAIN runs' = 1..(Len(runs) + 1) /\ DOMAIN runs = 1..Len(runs)
              /\ \A i \in 1..Len(runs) : runs'[i] = runs[i]
              /\ runs'[Len(runs) + 1] = new
          BY <3>2
        <4>2. DOMAIN runs' \ {Len(runs) + 1} = DOMAIN runs
          BY <3>2, <4>1
        <4>3. QED
          BY <3>1, <4>1, <4>2
      <3>4. ASSUME NEW i \in DOMAIN runs, Overlaps(calls'[w], runs[i])
            PROVE  runs[i].at < calls[w].at
        <4>1. Overlaps(calls[w], runs[i])
          BY <2>1, <3>4 DEF Overlaps, Same
        <4>2. QED
          BY <1>1, <2>1, <4>1 DEF ReserveOK
      <3>5. QED
        BY <2>2, <3>3, <3>4 DEF ReserveOK
    <2>3. QED
      BY <1>2, <2>1, <2>2
  <1>5. ASSUME MarkFailed(w) \/ MarkFails(w)
        PROVE  ReserveOK(calls'[w], runs')
    <2>1. /\ calls[w].pc = "failing" /\ calls'[w].pc = "failing" /\ Same(calls'[w], calls[w])
          /\ calls'[w].item = calls[w].item
      BY <1>5, FinishMoves
    <2>2. /\ calls[w].item \in DOMAIN runs /\ runs[calls[w].item].scope = calls[w].scope
      BY <1>1, <2>1 DEF Shape, Busy
    <2>3. /\ DOMAIN runs' = DOMAIN runs
          /\ runs'[calls[w].item].at = runs[calls[w].item].at
          /\ \A i \in DOMAIN runs : i # calls[w].item => runs'[i] = runs[i]
      <3>1. CASE MarkFailed(w)
        BY <3>1, MarkedRows DEF SameRun
      <3>2. CASE MarkFails(w)
        BY <3>2 DEF MarkFails, database
      <3>3. QED
        BY <1>5, <3>1, <3>2
    <2>4. ASSUME Unwritten(calls'[w], runs'), NEW i \in DOMAIN runs \ {calls[w].item},
                 Overlaps(calls'[w], runs'[i])
          PROVE  runs'[i].at < runs'[calls[w].item].at
      <3>1. Unwritten(calls[w], runs)
        BY <2>1, <2>2, <2>4, AbsentRows DEF Unwritten, Same
      <3>2. Overlaps(calls[w], runs[i])
        BY <2>1, <2>3, <2>4 DEF Overlaps, Same
      <3>3. runs[i].at < runs[calls[w].item].at
        BY <1>1, <2>1, <2>4, <3>1, <3>2 DEF ReserveOK
      <3>4. QED
        BY <2>3, <2>4, <3>3
    <2>5. QED
      BY <2>1, <2>3, <2>4 DEF ReserveOK
  <1>6. ASSUME Engines(w) \/ CheckSource(w) \/ CommitFails(w) \/ CommitUnsure(w)
        PROVE  ReserveOK(calls'[w], runs')
    <2>1. /\ calls[w].pc \in Computing
          /\ \/ calls'[w].pc \in {"check", "commit", "completed", "raised"}
             \/ /\ calls'[w].pc = "failing"
                /\ Same(calls'[w], calls[w]) /\ calls'[w].item = calls[w].item
      BY <1>6, FinishMoves DEF Computing
    <2>2. calls'[w].pc = "failing" => ~Unwritten(calls'[w], runs')
      BY <2>1, WrittenAlready
    <2>3. QED
      BY <2>1, <2>2 DEF ReserveOK
  <1>7. ASSUME \/ \E range \in Requested, force \in BOOLEAN : Ingest(w, range, force)
               \/ ReadGaps(w) \/ AppendGap(w) \/ FetchFails(w) \/ ReadManifest(w)
               \/ Finalize(w) \/ FinalizeFails(w)
        PROVE  ReserveOK(calls'[w], runs')
    <2>1. calls'[w].pc \in Rest \cup Ingests
      BY <1>7, IngestMoves DEF Rest
    <2>2. QED
      BY <1>2, <2>1 DEF Rest, Ingests
  <1>8. ASSUME \/ \E scope \in Scopes, force \in BOOLEAN : Evaluate(w, scope, force)
               \/ Capture(w) \/ TakeLock(w) \/ Insert(w)
        PROVE  ReserveOK(calls'[w], runs')
    BY <1>2, <1>8, ClaimMoves
  <1>9. ASSUME Recheck(w) \/ Commit(w) \/ Conclude(w)
        PROVE  ReserveOK(calls'[w], runs')
    BY <1>2, <1>9, FinishMoves
  <1>10. CASE Crash
    BY <1>2, <1>10 DEF Crash, Idle
  <1>11. ASSUME NEW v \in Workers \ {w},
                \/ \E range \in Requested, force \in BOOLEAN : Ingest(v, range, force)
                \/ \E scope \in Scopes, force \in BOOLEAN : Evaluate(v, scope, force)
                \/ Step(v) \/ Failure(v)
         PROVE  calls'[w] = calls[w]
    BY <1>11, IngestMoves, ClaimMoves, FinishMoves DEF Step, Failure
  <1>12. CASE \E range \in Requested, force \in BOOLEAN : Ingest(w, range, force)
    BY <1>7, <1>12
  <1>13. CASE \E scope \in Scopes, force \in BOOLEAN : Evaluate(w, scope, force)
    BY <1>8, <1>13
  <1>14. CASE Step(w) \/ Failure(w)
    BY <1>3, <1>4, <1>5, <1>6, <1>7, <1>8, <1>9, <1>14 DEF Step, Failure
  <1>15. ~UNCHANGED vars
    BY DEF vars
  <1>16. QED
    BY <1>10, <1>11, <1>12, <1>13, <1>14, <1>15 DEF Next

LEMMA ReserveStep ==
  ASSUME TypeInv, RowInv, LockInv, ReserveInv, [Next]_vars
  PROVE  ReserveInv'
  <1>1. ReservationsAreDistinct'
    BY DistinctStep
  <1>2. \A w \in Workers : ReserveOK(calls'[w], runs')
    BY ReserveKept, ReserveMoves
  <1>3. QED
    BY <1>1, <1>2 DEF ReserveInv

LEMMA ReserveInit == Init => ReserveInv
  BY DEF Init, Idle, ReserveInv, ReserveOK, ReservationsAreDistinct

\* Reservations that threads make at once share no generation of a cohort and no
\* timestamp of a strategy over the same bars, and all were evaluated over declared bars.
THEOREM RunsSound == Spec => []RunsAreSound
  <1> DEFINE Inv == TypeInv /\ DeclaredInv /\ RowInv /\ LockInv /\ ReserveInv
  <1>1. Init => Inv
    BY InitType, DeclaredInit, RowInit, LockInit, ReserveInit
  <1>2. Inv /\ [Next]_vars => Inv'
    BY NextType, DeclaredStep, RowStep, LockStep, ReserveStep
  <1>3. Inv => RunsAreSound
    BY DEF RunsAreSound, DeclaredInv, ReserveInv
  <1>4. QED
    BY <1>1, <1>2, <1>3, PTL DEF Spec

=============================================================================
