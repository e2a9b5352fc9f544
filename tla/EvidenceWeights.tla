--------------------------- MODULE EvidenceWeights ---------------------------
(***************************************************************************)
(* The ensemble of strategies (strategies/ensemble.py): weights derived    *)
(* from sealed evidence and projected on caps, corrected by the outcomes   *)
(* that have been resolved since, and combined into one decision.  The     *)
(* weights carry the outcomes they were corrected by, and every call       *)
(* computes them again from these before it trusts them.                   *)
(*                                                                         *)
(* Mass is counted in units and rounded down, as floating-point numbers    *)
(* are rounded; what rounding loses is given back by the code's own        *)
(* correction.  Identities and hashes are left out.                        *)
(***************************************************************************)
EXTENDS Integers, FiniteSetsExt, SequencesExt, Functions

CONSTANTS
  Strategies,      \* a set of numbers: the code goes through them in order
  Family,          \* of each strategy
  Unit,            \* the whole mass
  StrategyCap, FamilyCap,
  Evidence,        \* the scores that evaluations may give to the strategies; 0: not eligible
  Shares,          \* one part in this many is fixed_share
  Decay,           \* exp(-rate * loss) per rate and loss, in parts of Decay[r][0]
  Patience,        \* dispersed groups of outcomes after which the rate falls
  Batches,         \* sets of outcomes that a call may bring; loss in quarters, and even
  Currents,        \* what the strategies may say: a state of each
  MinBreadth, MinMargin, MinProbability,  \* the last two per cent
  MaxAsOf          \* bound

Families  == {Family[s] : s \in Strategies}
Outcomes  == [by : Strategies, decided : Nat, at : Nat, loss : {0, 2, 4}]
Component == [signal : {-1, 0, 1}, vote : 0..4, probability : 0..100, edge : Nat,
              cost : Nat, uncertainty : Nat, sound : BOOLEAN]

ASSUME EvidenceAssumption ==
  /\ Strategies \subseteq Nat /\ IsFiniteSet(Strategies)
  /\ {Unit, StrategyCap, FamilyCap, Shares} \subseteq Nat \ {0}
  /\ {Patience, MinBreadth, MinMargin, MinProbability, MaxAsOf} \subseteq Nat
  /\ Evidence \subseteq [Strategies -> Nat]
  /\ \A batch \in Batches : batch \subseteq Outcomes /\ Currents \subseteq [Strategies -> Component]
  /\ \A r \in DOMAIN Decay : DOMAIN Decay[r] = 0..4

VARIABLES
  scores,   \* the evidence scores
  asOf,
  weights,  \* base, mass, history and whether the weights carry a persisted state
  answer    \* of the last call

evars == <<scores, asOf, weights, answer>>

NoWeights == [base |-> <<>>, mass |-> <<>>, history |-> {}, through |-> 0, stored |-> FALSE]

Total(f, keys) == MapThenSumSet(LAMBDA k : f[k], keys)

-----------------------------------------------------------------------------
(* Projection on the caps.                                                 *)

\* One round of the loop: everyone gets in proportion, and what rounding has lost goes to
\* the first; or those whom that would bring above their cap get the cap and leave.
Round(s) ==
  LET basis == IF Total(s.targets, s.active) > 0 THEN s.targets ELSE [k \in s.active |-> 1]
      whole == Total(basis, s.active)
      due   == [k \in s.active |-> (s.remaining * basis[k]) \div whole]
      above == {k \in s.active : due[k] > s.caps[k]}
  IN  IF s.active = {} \/ s.remaining = 0 THEN s
      ELSE IF above # {}
           THEN [s EXCEPT !.active    = @ \ above,
                          !.remaining = @ - Total(s.caps, above),
                          !.allocated = [k \in DOMAIN @ |-> IF k \in above THEN s.caps[k] ELSE @[k]]]
      ELSE [s EXCEPT !.remaining = 0,
                     !.allocated = [k \in DOMAIN @ |->
                                      IF k \notin s.active THEN @[k]
                                      ELSE due[k] + (IF k = Min(s.active) THEN s.remaining - Total(due, s.active)
                                                                          ELSE 0)]]

\* _allocate_capped; caps whose sum is below the total raise (Derivable).
AllocateCapped(targets, caps, total) ==
  FoldLeft(LAMBDA s, i : Round(s),
           [targets |-> targets, caps |-> caps, active |-> DOMAIN caps, remaining |-> total,
            allocated |-> [k \in DOMAIN caps |-> 0]],
           [i \in 1..Cardinality(Strategies) |-> i]).allocated

Members(fam, keys) == {s \in keys : Family[s] = fam}
Capacities(keys)   ==
  [fam \in {Family[s] : s \in keys} |-> Min({FamilyCap, Cardinality(Members(fam, keys)) * StrategyCap})]
Feasible(keys) == Total(Capacities(keys), DOMAIN Capacities(keys)) >= Unit

\* _project_caps: first the families, then the members of each.
ProjectCaps(desired, keys) ==
  LET given == AllocateCapped([fam \in {Family[s] : s \in keys} |-> Total(desired, Members(fam, keys))],
                              Capacities(keys), Unit)
      inside == [fam \in {Family[s] : s \in keys} |->
                   AllocateCapped(desired, [s \in Members(fam, keys) |-> StrategyCap], given[fam])]
  IN  [s \in keys |-> inside[Family[s]][s]]

-----------------------------------------------------------------------------
(* The offline weights.                                                    *)

Scored == {s \in Strategies : scores[s] > 0}

\* Half of the evidence, half of an equal share.
Desired ==
  [s \in Scored |-> ((Unit * scores[s]) \div Total(scores, Scored) + Unit \div Cardinality(Scored)) \div 2]

\* _derive_offline_weights.
Offline ==
  LET projected == IF Scored = {} THEN <<>> ELSE ProjectCaps(Desired, Scored)
  IN  [s \in Strategies |-> IF s \in Scored THEN projected[s] ELSE 0]

Derivable == Scored # {} => Feasible(Scored)

-----------------------------------------------------------------------------
(* The outcomes.                                                           *)

Weighted(base) == {s \in Strategies : base[s] > 0}

MeanLoss(group, s) ==
  LET own == {o \in group : o.by = s}
  IN  MapThenSumSet(LAMBDA o : o.loss, own) \div Cardinality(own)

\* One group of outcomes that became known at the same time.
Correct(base, state, group) ==
  LET specialists == {o.by : o \in group} \cap Weighted(base)
      mass        == Total(state.mass, specialists)
      rate        == IF state.gap < Patience THEN 1 ELSE 2
      grown       == [s \in specialists |-> state.mass[s] * Decay[rate][MeanLoss(group, s)]]
      wealth(s)   == IF s \in specialists THEN (mass * grown[s]) \div Total(grown, specialists)
                     ELSE state.mass[s]
      prior       == Unit \div Cardinality(Weighted(base))
      shared      == [s \in Weighted(base) |-> (wealth(s) * (Shares - 1) + prior) \div Shares]
      disperses   == \E s, z \in specialists : MeanLoss(group, s) # MeanLoss(group, z)
  IN  IF mass = 0 THEN state
      ELSE [mass |-> ProjectCaps(shared, Weighted(base)),
            gap  |-> IF disperses THEN state.gap + 1 ELSE state.gap]

\* _replay_outcome_history: from the base, in the order in which outcomes became known.
Replay(base, history) ==
  FoldLeft(LAMBDA state, at : Correct(base, state, {o \in history : o.at = at}),
           [mass |-> base, gap |-> 0], SetToSortSeq({o.at : o \in history}, <)).mass

Through(history) == Max({0} \cup {o.at : o \in history})

\* Rounding may bring a weight above its cap, and keep it from its share, by so much.
Slack == Cardinality(Strategies)

\* _validate_current_weight_mass.
IsLawful(mass) ==
  Total(mass, Strategies) > 0 =>
    /\ Total(mass, Strategies) = Unit
    /\ \A s \in Strategies : mass[s] <= StrategyCap + Slack
    /\ \A fam \in Families : Total(mass, Members(fam, Strategies)) <= FamilyCap + Slack

SameOutcome(o, p) == o.by = p.by /\ o.decided = p.decided /\ o.at = p.at

\* What a call finds out about the weights that it is given, whose base is always the one
\* derived from the evaluations.  (Of a KeyError and a mismatch the code raises the one
\* that it meets first.)
Verdict(w) ==
  LET replayed == Replay(w.base, w.history)
  IN  IF ~IsLawful(w.mass) THEN "unlawful"
      ELSE IF ~w.stored THEN "authentic"
      ELSE IF DOMAIN replayed # Strategies THEN "key_error"
      ELSE IF replayed # w.mass \/ Through(w.history) # w.through THEN "mismatch"
      ELSE "authentic"

-----------------------------------------------------------------------------
(* The decision.                                                           *)

\* combine_current_signals; breadth counts votes of both directions.
Combine(mass, current) ==
  LET active      == {s \in Strategies : mass[s] > 0 /\ current[s].signal # 0}
      sum(f(_))   == MapThenSumSet(LAMBDA s : mass[s] * f(current[s]), active)
      held        == MapThenSumSet(LAMBDA s : mass[s], active)
      vote        == sum(LAMBDA c : c.signal * c.vote)
      direction   == IF vote > 0 THEN 1 ELSE IF vote < 0 THEN -1 ELSE 0
      probability == sum(LAMBDA c : IF direction >= 0 THEN c.probability ELSE 100 - c.probability)
      net         == direction * sum(LAMBDA c : c.signal * c.edge) - sum(LAMBDA c : c.cost + c.uncertainty)
      reasons     ==
        UNION {IF \A s \in active : current[s].sound THEN {} ELSE {"evidence_unavailable"},
               IF Cardinality(active) < MinBreadth THEN {"minimum_breadth"} ELSE {},
               IF direction = 0 \/ 25 * direction * vote < MinMargin * held THEN {"vote_margin"} ELSE {},
               IF (IF active = {} THEN 50 < MinProbability ELSE probability < MinProbability * held) THEN {"probability_calibration"} ELSE {},
               IF net <= 0 THEN {"cost_buffer"} ELSE {}}
  IN  [signal |-> IF reasons = {} THEN direction ELSE 0, direction |-> direction, reasons |-> reasons]

Status(signal) == IF signal = 0 THEN "abstain" ELSE IF signal > 0 THEN "long" ELSE "short"

-----------------------------------------------------------------------------

EvidenceInit ==
  /\ scores \in Evidence
  /\ asOf = 1
  /\ weights = NoWeights
  /\ answer = "none"

\* compute_evidence_weights.
ComputeWeights ==
  /\ weights = NoWeights /\ answer = "none"
  /\ IF Derivable
     THEN /\ weights' = [NoWeights EXCEPT !.base = Offline, !.mass = Offline]
          /\ answer' = "weights"
     ELSE /\ answer' = "infeasible"
          /\ UNCHANGED weights
  /\ UNCHANGED <<scores, asOf>>

\* Mutant of Updated: what is new corrects the weights as they are.
UpdatedInPlace(batch) ==
  LET known == {o \in batch : o.at <= asOf}
  IN  IF known = {} \/ Scored = {} THEN [answer |-> "weights", weights |-> weights]
      ELSE [answer  |-> "weights",
            weights |-> [weights EXCEPT !.mass    = Replay(@, known) @@ [s \in Strategies |-> 0],
                                        !.history = @ \cup known,
                                        !.through = Through(known),
                                        !.stored  = TRUE]]

\* What fixed_share_update makes of a batch of resolved outcomes.
Updated(batch) ==
  LET known    == {o \in batch : o.at <= asOf}
      history  == weights.history \cup known
      conflict == \E o, p \in history : SameOutcome(o, p) /\ o # p
  IN  IF known = {} \/ Scored = {} THEN [answer |-> "weights", weights |-> weights]
      ELSE IF conflict THEN [answer |-> "conflict", weights |-> weights]
      ELSE [answer  |-> "weights",
            weights |-> [weights EXCEPT !.mass    = Replay(weights.base, history) @@ [s \in Strategies |-> 0],
                                        !.history = history,
                                        !.through = Through(history),
                                        !.stored  = TRUE]]

\* The weights are looked at before anything is made of them.
Refuse ==
  /\ weights # NoWeights
  /\ answer' \in {Verdict(weights)} \ {"authentic"}
  /\ UNCHANGED <<scores, asOf, weights>>

FixedShareUpdate ==
  /\ weights # NoWeights
  /\ Verdict(weights) = "authentic"
  /\ \E updated \in {Updated(batch) : batch \in Batches} :
       answer' = updated.answer /\ weights' = updated.weights
  /\ UNCHANGED <<scores, asOf>>

\* combine_current_signals, for what the strategies say now.
CombineSignals ==
  /\ weights # NoWeights
  /\ Verdict(weights) = "authentic"
  /\ \E current \in Currents :
       answer' = Status(Combine(weights.mass, current).signal)
  /\ UNCHANGED <<scores, asOf, weights>>

\* The next call is made later.
Later ==
  /\ asOf < MaxAsOf
  /\ asOf' = asOf + 1
  /\ UNCHANGED <<scores, weights, answer>>

EvidenceNext ==
  ComputeWeights \/ Refuse \/ FixedShareUpdate \/ CombineSignals \/ Later

-----------------------------------------------------------------------------
(* Properties.                                                             *)

\* No call refuses the weights that the calls before it made: not because outcomes came
\* in batches, late or twice, and not for their caps.  It breaks off only where some
\* strategy was not eligible, once outcomes have moved the weights.
OwnWeightsAreTrusted ==
  /\ answer \notin {"mismatch", "unlawful"}
  /\ answer = "key_error" => Scored # Strategies /\ \E o \in weights.history : o.by \in Scored
  /\ weights # NoWeights => \A s \in Strategies \ Scored : weights.mass[s] = 0

\* Caps move mass to those who have room in proportion to their evidence: only who is at
\* its cap, or in a family that is, has less for its evidence than another.
CapsFillEvenly ==
  weights # NoWeights =>
    LET base == weights.base
        fam(s) == Total(base, Members(Family[s], Strategies))
        due(s) == Total(Desired, Members(Family[s], Scored))
    IN  \A s, z \in Scored :
          /\ Family[s] = Family[z] /\ base[z] < StrategyCap =>
               base[s] * Desired[z] <= base[z] * Desired[s] + Slack * (Desired[s] + Desired[z])
          /\ fam(z) < Capacities(Scored)[Family[z]] =>
               fam(s) * due(z) <= fam(z) * due(s) + Slack * (due(s) + due(z))

Mirror(c) == [c EXCEPT !.signal = -@, !.probability = 100 - @]

\* A market upside down is decided upside down, for the same reasons.
DecisionsAreMirrored ==
  weights # NoWeights =>
    \A current \in Currents :
      LET decision == Combine(weights.mass, current)
          mirrored == Combine(weights.mass, [s \in Strategies |-> Mirror(current[s])])
      IN  /\ mirrored.signal = -decision.signal
          /\ decision.direction # 0 => mirrored.reasons = decision.reasons

\* The ensemble holds together: evidence, caps, feedback and decision.
EnsembleIsConsistent == OwnWeightsAreTrusted /\ CapsFillEvenly /\ DecisionsAreMirrored
=============================================================================
