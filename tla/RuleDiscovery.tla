---------------------------- MODULE RuleDiscovery ----------------------------
(***************************************************************************)
(* The bounded search for trading rules (learning/search.py discover_rules *)
(* as strategies/pipeline.py learn calls it).  A search evaluates one rule *)
(* after another, each chosen from the trials so far, and commits every    *)
(* trial to an append-only ledger before it goes on; a search that finds   *)
(* rows of its own run in the ledger goes on after them.  A call may end   *)
(* at any step, with its process or with a database that fails.            *)
(*                                                                         *)
(* A data set hash is a number, a rule is the number that its hash sorts   *)
(* by, and what the evaluator makes of a rule is fixed with the data.      *)
(***************************************************************************)
EXTENDS Integers, SequencesExt

CONSTANTS
  Rules,      \* the rules of the grammar
  Seeds,      \* random seeds that are asked for
  Budgets,    \* evaluation budgets that are asked for
  DataSets,   \* the data sets are 1..DataSets
  Warmup,     \* how many rules are tried before any are bred
  Parents,    \* how many of the best trials are bred from
  Initial,    \* Initial[seed]: the seed rule, then the shuffled atoms
  Mates,      \* Mates[seed][ordinal][parent]: its variants, in their shuffled order
  Crossed,    \* Crossed[left][right]: the variants of two good rules
  Invalid,    \* rules outside of the experiment's domain
  Failing,    \* rules that the evaluator raises on
  Fitness,    \* Fitness[data][rule]
  MaxTime,    \* bound of the clock
  MaxLearns   \* bound on calls of learn

Ordinals == 0..(Max(Budgets) - 1)

ASSUME SearchAssumption ==
  /\ Rules \subseteq Nat /\ Rules # {} /\ IsFiniteSet(Rules)
  /\ Budgets \subseteq Nat \ {0} /\ Budgets # {} /\ IsFiniteSet(Budgets) /\ IsFiniteSet(Seeds)
  /\ {DataSets, Warmup, Parents} \subseteq Nat \ {0}
  /\ {MaxTime, MaxLearns} \subseteq Nat
  /\ \A s \in Seeds : Initial[s] \in Seq(Rules) /\ Initial[s] # <<>>
  /\ Mates \in [Seeds -> [Ordinals -> [Rules -> Seq(Rules)]]]
  /\ Crossed \in [Rules -> [Rules -> Seq(Rules)]]
  /\ Invalid \subseteq Rules /\ Failing \subseteq Rules
  /\ Fitness \in [1..DataSets -> [Rules -> Int]]

VARIABLES
  now,        \* the pipeline's clock
  data,       \* the data set that the bars hash to
  ledger,     \* learning_trials: the trials of every run
  discovered, \* discovered_rules
  call,       \* the call of learn under the lock of the bars
  learns      \* how many calls there were

svars == <<now, data, ledger, discovered, call, learns>>

\* A run is named after its data, seed and budget, and numbered if it was forced.
Run   == [data : 1..DataSets, seed : Seeds, budget : Budgets, forced : 0..MaxLearns]
Trial == [rule : Rules, status : {"succeeded", "failed", "invalid", "budget_stop"},
          started : 0..MaxTime]  \* when the experiment of its call was made
Found == [run : Run, rule : Rules, started : 0..MaxTime, trials : Budgets]
NoRun == [data |-> 0]

SearchTypeOK ==
  /\ now \in 0..MaxTime /\ data \in 1..DataSets
  /\ ledger \in [Run -> Seq(Trial)]
  /\ discovered \subseteq Found
  /\ call \in [pc : {"idle", "search", "completed", "reused", "refused", "interrupted"},
               run : Run \cup {NoRun}, started : 0..MaxTime, trials : Seq(Trial)]
  /\ learns \in 0..MaxLearns

Ended(outcome) == [pc |-> outcome, run |-> NoRun, started |-> 0, trials |-> <<>>]

SearchInit ==
  /\ now = 0 /\ data = 1
  /\ ledger = [r \in Run |-> <<>>]
  /\ discovered = {}
  /\ call = Ended("idle")
  /\ learns = 0

Searching == call.pc = "search"

-----------------------------------------------------------------------------
(* The search: what is tried next, and what becomes of it.                 *)

First(n, s)      == SubSeq(s, 1, Min({n, Len(s)}))
Rest(n, s)       == SubSeq(s, n + 1, Len(s))
Tried(trials)    == {trials[i].rule : i \in DOMAIN trials}
Succeeded(trials) == {trials[i].rule : i \in {j \in DOMAIN trials : trials[j].status = "succeeded"}}

\* calculate_fitness of the folds that the evaluator measured.
Score(d, rule) == Fitness[d][rule]

\* Mutant of Better: sorted by fitness, not by its negative.
Worse(d, a, b) == Score(d, a) < Score(d, b) \/ (Score(d, a) = Score(d, b) /\ a < b)

\* By fitness, then by hash.
Better(d, a, b) == Score(d, a) > Score(d, b) \/ (Score(d, a) = Score(d, b) /\ a < b)

\* Every rule succeeds once at most, so the best trials are the best rules.
Bred(d, good) == First(Parents, SetToSortSeq(good, LAMBDA a, b : Better(d, a, b)))

\* Variants of every parent, then of every pair, then what is left of the first list.
Variants(d, s, ordinal, good) ==
  LET best  == Bred(d, good)
      n     == Len(best)
      Alone == [i \in 1..n |-> Mates[s][ordinal][best[i]]]
      Pairs == [i \in 1..n |-> FlattenSeq([k \in 1..(n - i) |-> Crossed[best[i]][best[i + k]]])]
  IN  FlattenSeq(Alone) \o FlattenSeq(Pairs) \o Rest(Warmup, Initial[s])

\* _validate_rule_domain.
InDomain(rule) == rule \in Rules \ Invalid

\* The places of variants that are new and in the domain.
Untried(variants, tried) == {i \in DOMAIN variants : variants[i] \notin tried /\ InDomain(variants[i])}

\* _next_rule: at most one rule, the next of the first list or the first such variant,
\* and none once the space is exhausted.
NextRule(d, s, trials) ==
  IF Len(trials) < Warmup /\ Len(trials) < Len(Initial[s]) THEN {Initial[s][Len(trials) + 1]}
  ELSE LET all == Variants(d, s, Len(trials), Succeeded(trials))
           new == Untried(all, Tried(trials))
       IN  {all[i] : i \in {j \in new : \A k \in new : j <= k}}

\* An evaluator that raises leaves a trial like any other.
Evaluation(rule) == IF rule \in Failing THEN "failed" ELSE "succeeded"

\* Every query takes a place in the budget, whatever becomes of it.
NextTrial(d, s, trials, started) ==
  LET next == NextRule(d, s, trials)
      rule == IF next = {} THEN Last(Initial[s]) ELSE CHOOSE r \in next : TRUE
  IN  [rule   |-> rule, started |-> started,
       status |-> IF next = {} THEN "budget_stop"
                  ELSE IF InDomain(rule) THEN Evaluation(rule) ELSE "invalid"]

\* The best rule of a ledger, if any trial of it succeeded.
Winner(d, trials) ==
  LET good == Succeeded(trials)
  IN  {r \in good : \A o \in good : o = r \/ Better(d, r, o)}

-----------------------------------------------------------------------------
(* learn.                                                                  *)

Started(seed, budget) ==
  {r \in Run : <<r.data, r.seed, r.budget>> = <<data, seed, budget>> /\ ledger[r] # <<>>}

\* A forced run is numbered after the runs of its name that have rows.
RunId(seed, budget, force) ==
  [data |-> data, seed |-> seed, budget |-> budget,
   forced |-> IF force THEN Cardinality(Started(seed, budget)) + 1 ELSE 0]

\* The contract of a run, its start included, is part of every trial's receipt.
SameContract(run, started) == \A i \in DOMAIN ledger[run] : ledger[run][i].started = started

\* Mutant of Resumed: only the trials that succeeded are read back.
ResumedSuccesses(run) == SelectSeq(ledger[run], LAMBDA t : t.status = "succeeded")

\* _resume_trials: each row is what the search would choose after those before it.
Resumed(run) == ledger[run]

\* A full ledger is reused, an empty one begun, and any other continued by a call
\* with the very same contract only.
Learn(seed, budget, force) ==
  /\ ~Searching /\ learns < MaxLearns
  /\ learns' = learns + 1
  /\ LET run == RunId(seed, budget, force)
     IN  call' = CASE ~force /\ Len(ledger[run]) = budget -> Ended("reused")
                   [] SameContract(run, now) ->
                        [pc |-> "search", run |-> run, started |-> now, trials |-> Resumed(run)]
                   [] OTHER -> [Ended("refused") EXCEPT !.run = run]
  /\ UNCHANGED <<now, data, ledger, discovered>>

Try ==
  /\ Searching /\ Len(call.trials) < call.run.budget
  /\ LET trial == NextTrial(call.run.data, call.run.seed, call.trials, call.started)
     IN  /\ call' = [call EXCEPT !.trials = Append(@, trial)]
         /\ ledger' = [ledger EXCEPT ![call.run] = Append(@, trial)]
  /\ UNCHANGED <<now, data, discovered, learns>>

\* _persist_discovery: the winner, with the trials it was chosen from, unless this
\* call's version of it is there already.
Discover ==
  /\ Searching /\ Len(call.trials) = call.run.budget
  /\ discovered' = discovered \cup
       {[run |-> call.run, rule |-> best, started |-> call.started, trials |-> Len(call.trials)] :
          best \in Winner(call.run.data, call.trials)}
  /\ call' = Ended("completed")
  /\ UNCHANGED <<now, data, ledger, learns>>

\* The process dies, or the ledger cannot be written.
Interrupt ==
  /\ Searching
  /\ call' = Ended("interrupted")
  /\ UNCHANGED <<now, data, ledger, discovered, learns>>

\* Bars are appended under the same lock.
NewData ==
  /\ ~Searching /\ data < DataSets
  /\ data' = data + 1
  /\ UNCHANGED <<now, ledger, discovered, call, learns>>

\* The clock is read when a call begins.
Tick ==
  /\ ~Searching /\ now < MaxTime
  /\ now' = now + 1
  /\ UNCHANGED <<data, ledger, discovered, call, learns>>

SearchNext ==
  \/ \E seed \in Seeds, budget \in Budgets, force \in BOOLEAN : Learn(seed, budget, force)
  \/ Try \/ Discover \/ Interrupt \/ NewData \/ Tick

SearchSpec == SearchInit /\ [][SearchNext]_svars

-----------------------------------------------------------------------------
(* Properties.                                                             *)

\* _learning_global_trial_id: the protocol is named by its data and its seed.
GlobalId(run, i) == <<run.data, run.seed, i, ledger[run][i].rule>>

GlobalTrials(d) ==
  UNION {{GlobalId(r, i) : i \in DOMAIN ledger[r]} : r \in {q \in Run : q.data = d}}

\* The trials that all searches of one seed made on one data set, each once.
OfSeed(d, s) == {g \in GlobalTrials(d) : g[2] = s}

\* "Restarting the app, changing a run ID ... cannot reset past attempts": however
\* often searches of one seed are repeated, forced, interrupted, continued or given
\* another budget, what they add to the global count (global_learning_trial_count) is
\* the length of the longest of them, because all choose the same rules in the same
\* order.
RepeatsAreCountedOnce ==
  \A d \in 1..DataSets, s \in Seeds :
    Cardinality(OfSeed(d, s)) = Max({Len(ledger[r]) : r \in {q \in Run : q.data = d /\ q.seed = s}})

\* A discovery rests on the whole ledger of its run: the budget was spent, no trial of
\* it did better, and the run, however often it was continued, has no other.
DiscoveryIsJustified ==
  \A f \in discovered :
    /\ f.trials = f.run.budget /\ Len(ledger[f.run]) = f.run.budget
    /\ f.rule \in Succeeded(ledger[f.run])
    /\ \A r \in Succeeded(ledger[f.run]) : Score(f.run.data, r) <= Score(f.run.data, f.rule)
    /\ \A g \in discovered : g.run = f.run => g = f
=============================================================================
