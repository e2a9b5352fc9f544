------------------------- MODULE ContextualEvidence -------------------------
(***************************************************************************)
(* Contextual allocation (src/contextual): screen-universe and             *)
(* evaluate-contexts append eligibility, regime posteriors, estimates,     *)
(* covariances, weights, portfolio decisions and drift, one transaction a  *)
(* row or batch, to tables whose identities are immutable.  A refresh may  *)
(* fail or die between any two of them and be asked for again, at the same *)
(* instant or another.  The live monitor and the app snapshot read         *)
(* whatever is there (src/live_monitor/evidence.py,                        *)
(* src/app_snapshot/builder.py).                                           *)
(*                                                                         *)
(* One direction per asset, so an asset is a context; the database admits  *)
(* one process, so nothing else writes while a refresh runs; as_of is      *)
(* never in the future.  What statistics decide is a choice made once per  *)
(* input: which assets are liquid, how a research cohort ranks them, which *)
(* correlate, and which of a portfolio get a weight of any size.           *)
(***************************************************************************)
EXTENDS Integers, Sequences, FiniteSetsExt

CONSTANTS
  Assets,           \* the traded assets
  Requests,         \* the lists of symbols a refresh may be asked for
  Rankings,         \* for each cohort the assets it allocates to, best edge first
  MaxOpportunities, \* policy.maximum_opportunities
  Correlated,       \* the pairs of assets beyond policy.maximum_correlation
  Sized,            \* for a set of assets those that the optimiser gives enough weight
  MaxAge,           \* LIVE_ALERT_POLICY: contextual_drift_maximum_age_hours, in ticks
  MaxTime,          \* bound: the clock stops here
  MaxChanges,       \* bound: further cohorts, market observations and drift events
  MaxRefreshes      \* bound: refreshes and screens begun

Time == 1..MaxTime

ASSUME ContextualAssumption ==
  /\ \A q \in Requests :
       /\ q \in Seq(Assets) /\ q # <<>>
       /\ \A i, j \in DOMAIN q : q[i] = q[j] => i = j
  /\ Rankings \in Seq(Seq(Assets)) /\ Rankings # <<>>
  /\ \A v \in DOMAIN Rankings : \A i, j \in DOMAIN Rankings[v] :
       Rankings[v][i] = Rankings[v][j] => i = j
  /\ Sized \in [SUBSET Assets -> SUBSET Assets] /\ \A S \in SUBSET Assets : Sized[S] \subseteq S
  /\ MaxOpportunities \in Nat \ {0} /\ MaxAge \in Nat /\ MaxTime \in Nat \ {0}
  /\ MaxChanges \in Nat /\ MaxRefreshes \in Nat

VARIABLES
  now,       \* the clock
  cohorts,   \* the instants at which research cohorts were published
  market,    \* the newest market evidence of an asset as of an instant
  store,     \* the contextual tables
  run,       \* the refresh under way
  refreshes, \* refreshes begun so far
  tried,     \* history: what each refresh begun so far saw
  finished   \* history: what the last evaluation saw, if it finished

cvars == <<now, cohorts, market, store, run, refreshes, tried, finished>>

Tables == {"eligibility", "posterior", "estimate", "covariance", "weight", "decision", "drift"}
Severity == [stable |-> 0, warning |-> 1, unavailable |-> 2, confirmed |-> 3]
OwnReasons == {"authenticated_context_baseline", "prior_drift_quarantine_preserved"}

Idle == [phase |-> "idle", todo |-> <<>>]

ContextTypeOK ==
  /\ now \in Time /\ refreshes \in 0..MaxRefreshes
  /\ cohorts \in Seq(Time)
  /\ market \in [Time -> [Assets -> [mark : 0..MaxChanges, liquid : BOOLEAN]]]
  /\ DOMAIN store = Tables
  /\ \A t \in Tables : \A r \in store[t] : r.made \in Nat
  /\ run.phase \in {"idle", "evidence", "decisions"}
  /\ finished \subseteq tried

ContextInit ==
  /\ now = 1 /\ refreshes = 0 /\ tried = {} /\ finished = {} /\ run = Idle
  /\ cohorts = <<1>>
  /\ market = [t \in Time |-> [c \in Assets |-> [mark |-> 0, liquid |-> TRUE]]]
  /\ store = [t \in Tables |-> {}]

-----------------------------------------------------------------------------
(* What a refresh reads.                                                   *)

\* _complete_run_context: the newest cohort in force at t; none before the first.
CohortAt(t) == Max({v \in DOMAIN cohorts : cohorts[v] <= t} \cup {0})

\* StrategyContextKey of one of the assets q: its data set is that of the cohort for
\* one asset, and a hash of all their data sets for several.
ContextAt(c, q, t) == [asset |-> c, cohort |-> CohortAt(t), scope |-> q]
Context(s, c)      == [asset |-> c, cohort |-> s.cohort, scope |-> s.assets]

\* Rows of a context with the newest effective instant among rows.
NewestOf(rows) == {r \in rows : \A o \in rows : o.body.at <= r.body.at}

\* _previous_weights: the allocations a new one may start from.
PreviousAllocations(x, t) ==
  LET rows == NewestOf({w \in store["weight"] : w.id.context = x /\ w.body.at < t})
  IN  IF rows = {} THEN {<<>>} ELSE {w.id.allocation : w \in rows}

\* Mutant of PriorRows: a refresh counts the rows it wrote itself before it was repeated.
PriorRowsWithOwn(x, t) == {r \in store["drift"] : r.id.context = x /\ r.body.at <= t}

\* Mutant of PriorRows: drift recorded at the very instant of the refresh is not seen.
PriorRowsBefore(x, t) == {r \in store["drift"] : r.id.context = x /\ r.body.at < t}

\* _prior_drift: the rows that bear on a refresh at t, without its own.
PriorRows(x, t) ==
  {r \in store["drift"] :
     /\ r.id.context = x /\ r.body.at <= t
     /\ ~(r.body.at = t /\ r.id.reason \in OwnReasons)}

\* _prior_drift: the worst of them, the latest among equals.
WorstRows(x, t) ==
  LET rows == PriorRows(x, t)
  IN  NewestOf({r \in rows : \A o \in rows : Severity[o.id.status] <= Severity[r.id.status]})

PriorStatus(x, t) ==
  IF WorstRows(x, t) = {} THEN "stable" ELSE (CHOOSE r \in WorstRows(x, t) : TRUE).id.status
PriorId(x, t) ==
  IF WorstRows(x, t) = {} THEN <<>> ELSE <<(CHOOSE r \in WorstRows(x, t) : TRUE).id>>

-----------------------------------------------------------------------------
(* What a refresh writes: steps, one append each.                          *)

Step(t, i, b) == [table |-> t, row |-> [id |-> i, body |-> b]]

\* for symbol in request.symbols.
PerAsset(s, F(_, _)) == [i \in DOMAIN s.asked |-> F(s, s.asked[i])]

\* _fallback_identity of a screen, which reads no cohort; else the data set of _outcomes.
Dataset(s) == [cohort |-> IF s.kind = "screen" THEN 0 ELSE s.cohort, scope |-> s.assets]

\* evaluate_asset_eligibility over the newest market evidence.
EligibilityStep(s, c) ==
  Step("eligibility", [asset |-> c, at |-> s.at, mark |-> s.market[c].mark],
       [at |-> s.at, liquid |-> s.market[c].liquid])

\* _regime_record: the identity leaves the data set out, the content has it.
PosteriorStep(s, c) ==
  Step("posterior", [asset |-> c, at |-> s.at], [at |-> s.at, dataset |-> Dataset(s)])

\* build_hierarchical_estimates, one batch.
EstimateStep(s) ==
  Step("estimate", [dataset |-> Dataset(s), at |-> s.at], [at |-> s.at])

CovarianceStep(s, c) ==
  Step("covariance", [context |-> Context(s, c), at |-> s.at],
       [at |-> s.at, mark |-> s.market[c].mark])

\* allocate_contextual_weights: an allocation is made from the one before it.
Allocation(s, c) == Append(s.previous[c], s.at)

WeightStep(s, c) ==
  Step("weight", [context |-> Context(s, c), allocation |-> Allocation(s, c)],
       [at |-> s.at, mark |-> s.market[c].mark])

Interleaved(a, b) == [i \in 1..(2 * Len(a)) |-> IF i % 2 = 1 THEN a[(i + 1) \div 2] ELSE b[i \div 2]]

ScreenSteps(s) == PerAsset(s, EligibilityStep) \o PerAsset(s, PosteriorStep)

EvidenceSteps(s) ==
  IF s.kind = "screen" THEN ScreenSteps(s)
  ELSE ScreenSteps(s) \o <<EstimateStep(s)>>
         \o Interleaved(PerAsset(s, CovarianceStep), PerAsset(s, WeightStep))

\* The opportunity of an asset is eligible.
Admissible(s, c) == s.market[c].liquid /\ PriorStatus(Context(s, c), s.at) = "stable"

Admitted(s) == {c \in s.assets : Admissible(s, c)}

\* Those of G that the ranking k has before its i-th asset.
Above(k, G, i) == {c \in G : \E j \in 1..(i - 1) : k[j] = c}

\* There is room for c beside G, and it correlates with none of them.
Fits(c, G) ==
  Cardinality(G) < MaxOpportunities /\ \A d \in G : {c, d} \notin Correlated

\* The assets of A that the ranking k keeps: in its order, each that fits beside those
\* kept before it.
Decorrelated(k, A) ==
  CHOOSE G \in SUBSET {c \in A : \E i \in DOMAIN k : k[i] = c} :
    \A i \in DOMAIN k : k[i] \in G <=> k[i] \in A /\ Fits(k[i], Above(k, G, i))

\* What the cohort v selects of the assets A.
Selected(v, A) == Sized[Decorrelated(Rankings[v], A)]

\* select_portfolio_opportunities
Chosen(s) == Selected(s.cohort, Admitted(s))

\* PortfolioSelection.selection_id covers the selected decisions, in the order of the
\* cohort, and the exclusions.
Selection(s) ==
  [at       |-> s.at,
   scope    |-> s.assets,
   chosen   |-> {<<Context(s, c), Allocation(s, c)>> : c \in Chosen(s)},
   excluded |-> s.assets \ Admitted(s)]

DecisionStep(s, c) ==
  Step("decision",
       [selection |-> Selection(s), context |-> Context(s, c), allocation |-> Allocation(s, c)],
       [at |-> s.at, mark |-> s.market[c].mark,
        selected |-> c \in Chosen(s)])

\* The assessment of drift a refresh leaves: what was there before it.
DriftStep(s, c) ==
  LET x == Context(s, c) IN
  Step("drift",
       [context |-> x, at |-> s.at, status |-> PriorStatus(x, s.at),
        reason |-> IF PriorStatus(x, s.at) = "stable" THEN "authenticated_context_baseline"
                   ELSE "prior_drift_quarantine_preserved"],
       [at |-> s.at, previous |-> PriorId(x, s.at), selection |-> Selection(s)])

DecisionSteps(s) == PerAsset(s, DecisionStep) \o PerAsset(s, DriftStep)

-----------------------------------------------------------------------------
(* ContextualRepository._append_rows                                       *)

Recorded(w)  == \E r \in store[w.table] : r.id = w.row.id
Conflicts(w) == \E r \in store[w.table] : r.id = w.row.id /\ r.body # w.row.body

\* created_at, as a position in its table.
Stamped(t, row) == [id |-> row.id, body |-> row.body, made |-> Cardinality(store[t]) + 1]

Appended(w) ==
  IF Recorded(w) THEN store
  ELSE [store EXCEPT ![w.table] = @ \cup {Stamped(w.table, w.row)}]

-----------------------------------------------------------------------------
Alone == run.phase = "idle"

Marks    == Max({market[MaxTime][c].mark : c \in Assets})
External == {r \in store["drift"] : r.id.reason \notin OwnReasons}
MayChange == Alone /\ Len(cohorts) - 1 + Marks + Cardinality(External) < MaxChanges

Tick == /\ now < MaxTime
        /\ now' = now + 1
        /\ UNCHANGED <<cohorts, market, store, run, refreshes, tried, finished>>

\* A strategy evaluation publishes a cohort.
Publish == /\ MayChange /\ Len(cohorts) < Len(Rankings) /\ cohorts[Len(cohorts)] < now
           /\ cohorts' = Append(cohorts, now)
           /\ UNCHANGED <<now, market, store, run, refreshes, tried, finished>>

\* Quotes, depth or bars of an asset arrive.
Observe ==
  /\ MayChange
  /\ \E c \in Assets, l \in BOOLEAN :
       market' = [t \in Time |->
         IF t < now THEN market[t]
         ELSE [market[t] EXCEPT ![c] = [mark |-> Marks + 1, liquid |-> l]]]
  /\ UNCHANGED <<now, cohorts, store, run, refreshes, tried, finished>>

\* Drift of an allocated context is assessed, and recorded as of now.
RecordDrift ==
  /\ MayChange
  /\ \E x \in {w.id.context : w \in store["weight"]}, status \in {"warning", "confirmed"} :
       LET e == Step("drift", [context |-> x, at |-> now,
                               status |-> status, reason |-> "observed"],
                     [at |-> now, previous |-> <<>>, selection |-> <<>>])
       IN  /\ ~Recorded(e)
           /\ store' = Appended(e)
  /\ UNCHANGED <<now, cohorts, market, run, refreshes, tried, finished>>

\* History: the drift recorded before a refresh at t, and by others at t.
DriftBefore(x, t) ==
  {r.id : r \in {d \in store["drift"] : /\ d.id.context = x
                                        /\ d.body.at < t \/ (d.body.at = t /\ d \in External)}}

\* What a refresh of the list asked as of t sees, starting from the allocations prev.
Saw(kind, asked, t, prev) ==
  LET q == Range(asked) IN
  [kind |-> kind, at |-> t, asked |-> asked, assets |-> q, cohort |-> CohortAt(t),
   market |-> [c \in q |-> market[t][c]], previous |-> prev,
   drift |-> [c \in q |-> DriftBefore(ContextAt(c, q, t), t)]]

\* The allocations that one of the list may start from.
StartsFrom(asked, t) ==
  LET q == Range(asked) IN
  {prev \in [q -> UNION {PreviousAllocations(ContextAt(c, q, t), t) : c \in q}] :
     \A c \in q : prev[c] \in PreviousAllocations(ContextAt(c, q, t), t)}

\* screen_universe or evaluate_contexts, asked for as of t.
Begin(kind, asked, t) ==
  /\ Alone /\ refreshes < MaxRefreshes
  /\ kind = "evaluate" => CohortAt(t) # 0
  /\ \E prev \in StartsFrom(asked, t) :
       LET s == Saw(kind, asked, t, prev) IN
         /\ run' = [phase |-> "evidence", seen |-> s, todo |-> EvidenceSteps(s)]
         /\ tried' = tried \cup {s}
  /\ finished' = IF kind = "evaluate" THEN {} ELSE finished
  /\ refreshes' = refreshes + 1
  /\ UNCHANGED <<now, cohorts, market, store>>

\* One append commits.
Write ==
  /\ run.todo # <<>> /\ ~Conflicts(Head(run.todo))
  /\ store' = Appended(Head(run.todo))
  /\ run' = [run EXCEPT !.todo = Tail(@)]
  /\ UNCHANGED <<now, cohorts, market, refreshes, tried, finished>>

\* The identity is taken by other content: ValueError ends the refresh.
Refuse ==
  /\ run.todo # <<>> /\ Conflicts(Head(run.todo))
  /\ run' = Idle
  /\ UNCHANGED <<now, cohorts, market, store, refreshes, tried, finished>>

\* With all weights written, drift is read and the portfolio selected.
Decide ==
  /\ run.phase = "evidence" /\ run.todo = <<>> /\ run.seen.kind = "evaluate"
  /\ run' = [run EXCEPT !.phase = "decisions", !.todo = DecisionSteps(run.seen)]
  /\ UNCHANGED <<now, cohorts, market, store, refreshes, tried, finished>>

Finish ==
  /\ run.todo = <<>>
  /\ \/ run.phase = "decisions"
     \/ run.phase = "evidence" /\ run.seen.kind = "screen"
  /\ run' = Idle
  /\ finished' = IF run.phase = "decisions" THEN {run.seen} ELSE finished
  /\ UNCHANGED <<now, cohorts, market, store, refreshes, tried>>

\* The process dies, or a later append of it fails.
Crash ==
  /\ ~Alone
  /\ run' = Idle
  /\ UNCHANGED <<now, cohorts, market, store, refreshes, tried, finished>>

ContextNext ==
  \/ Tick \/ Publish \/ Observe \/ RecordDrift
  \/ \E q \in Requests, t \in 1..now : Begin("evaluate", q, t) \/ Begin("screen", q, t)
  \/ Write \/ Refuse \/ Decide \/ Finish \/ Crash

ContextSpec == ContextInit /\ [][ContextNext]_cvars

-----------------------------------------------------------------------------
(* The two readers.                                                        *)

LastMade(rows) == {r \in rows : \A o \in rows : o.made <= r.made}

\* Mutant of LatestWeights: the newest weights that have a decision.
LatestWeightsDecided(c) ==
  NewestOf({w \in store["weight"] :
    /\ w.id.context.asset = c
    /\ \E d \in store["decision"] : d.id.context = w.id.context /\ d.body.at = w.body.at})

LatestWeights(c) == NewestOf({w \in store["weight"] : w.id.context.asset = c})

\* The newest drift row of a context as of now; there is none of a first refresh
\* that died before it.
DriftStatus(x) ==
  LET rows == LastMade(NewestOf({r \in store["drift"] : r.id.context = x}))
  IN  IF rows = {} THEN "unavailable" ELSE (CHOOSE r \in rows : TRUE).id.status

\* The covariance and the posterior a weight row was made with are there.
Based(w) ==
  LET x == w.id.context IN
  /\ \E k \in store["covariance"] : k.id = [context |-> x, at |-> w.body.at]
  /\ \E p \in store["posterior"] :
       /\ p.id = [asset |-> x.asset, at |-> w.body.at]
       /\ p.body.dataset = [cohort |-> x.cohort, scope |-> x.scope]

\* The newest eligibility and decision of its instant, if they agree with it.
EligibilityOf(w) ==
  {e \in LastMade({r \in store["eligibility"] :
                     r.id.asset = w.id.context.asset /\ r.body.at = w.body.at}) :
     e.id.mark = w.body.mark}
\* Mutant of DecisionOf: the rows are not put in the order they were made.
AnyDecisionOf(w) ==
  {d \in store["decision"] :
     /\ d.id.context = w.id.context /\ d.body.at = w.body.at
     /\ d.id.allocation = w.id.allocation}

DecisionOf(w) ==
  {d \in LastMade({r \in store["decision"] :
                     r.id.context = w.id.context /\ r.body.at = w.body.at}) :
     d.id.allocation = w.id.allocation}

\* What either reader shows of an asset: at most one record.
Reads(c) ==
  UNION {{[context |-> w.id.context, at |-> w.body.at, eligible |-> e.body.liquid,
           selected |-> d.body.selected, drift |-> DriftStatus(w.id.context)] :
            e \in EligibilityOf(w), d \in DecisionOf(w)} :
         w \in {l \in LatestWeights(c) : Cardinality(LatestWeights(c)) = 1 /\ Based(l)}}

\* load_contextual_live_evidence, for a monitor started with the cohort of the context.
Envelopes(c) == {v \in Reads(c) : now - v.at <= MaxAge}

\* _contextual_projection: of any age, with its estimates.
Projections(c) ==
  {v \in Reads(c) : \E n \in store["estimate"] :
     n.id = [dataset |-> [cohort |-> v.context.cohort, scope |-> v.context.scope], at |-> v.at]}

\* evaluate: the contextual reasons that keep an entry from being offered.
Enters(v) == v.eligible /\ v.drift = "stable" /\ v.selected /\ now < v.at + MaxAge

\* The contexts the monitor would enter.
Entered == {v \in UNION {Envelopes(c) : c \in Assets} : Enters(v)}

Quarantined == {r.id.context : r \in External}

-----------------------------------------------------------------------------
(* Properties.                                                             *)

\* Once warning or confirmed drift of a context is recorded, neither the monitor nor
\* the app shows that context as stable again, through later refreshes, refreshes of
\* an earlier instant, repetitions and deaths half way.
QuarantineHolds ==
  \A c \in Assets :
    \A v \in Projections(c) \cup Envelopes(c) :
      v.context \in Quarantined => v.drift # "stable"

\* The contexts of a request that the monitor would enter.
EnteredOf(q) == {v \in Entered : v.context.scope = Range(q)}

\* The evaluations of a request, and what one of them found admissible.
Evaluations(q) == {s \in tried : s.kind = "evaluate" /\ s.assets = Range(q)}
AdmittedBy(s)  == {c \in s.assets : s.market[c].liquid /\ \A d \in s.drift[c] : d.status = "stable"}

\* The contexts of one request that may be entered at the same time are at most as
\* many as its portfolio may hold, though each is read alone, from the rows of a
\* refresh that may have died half way, beside older ones; unless it was evaluated
\* twice as of the instant they are read from, and drift recorded between the two.
PortfolioLimitHolds ==
  \A q \in Requests :
    \/ Cardinality(EnteredOf(q)) <= MaxOpportunities
    \/ \E s, o \in Evaluations(q) :
         /\ s.at = o.at /\ AdmittedBy(s) # AdmittedBy(o)
         /\ \A v \in EnteredOf(q) : v.at = s.at

\* Once an evaluation has finished, only what it selected may be entered of its
\* request, whatever others had left behind at its instant or before it, until
\* another one begins; unless there is one of a later instant.
FinishedSelectionStands ==
  \A s \in finished, q \in Requests :
    (s \in Evaluations(q) /\ \A o \in Evaluations(q) : o.at <= s.at)
      => {v.context.asset : v \in EnteredOf(q)} \subseteq Selected(s.cohort, AdmittedBy(s))

\* A refresh is refused for a conflict only if an earlier one of the same instant saw
\* something else: repeating it unchanged, after a success or a death, never is.
RerunAgrees ==
  (run.todo # <<>> /\ Conflicts(Head(run.todo)))
    => \E s \in tried : s.at = run.seen.at /\ s # run.seen
=============================================================================
