----------------------------- MODULE WalkForward -----------------------------
(***************************************************************************)
(* How the decisions of a series of bars are divided into training,        *)
(* validation and a sealed final test (strategies/validation.py), and what *)
(* is made of the division by the parts that were written apart from it:   *)
(* the evidence of the folds that is sealed with an evaluation, the audit  *)
(* of it before an ensemble uses it (strategies/ensemble.py), the          *)
(* calibration of the current signal, and the nested folds of learning     *)
(* (strategies/pipeline.py, learning/search.py).                           *)
(*                                                                         *)
(* All of it is a function of one sample of bars, the only variable.       *)
(***************************************************************************)
EXTENDS Integers, SequencesExt

CONSTANTS
  MinTrain,    \* minimum_train_observations
  Block,       \* validation_observations
  FinalShare,  \* the final test is one part in this many
  WarmBars     \* rows of learning that have no indicators yet

ASSUME WalkForwardAssumption ==
  /\ {MinTrain, Block, FinalShare} \subseteq Nat \ {0}
  /\ WarmBars \in Nat

VARIABLE
  sample  \* [close, available: times of the bars; embargo: effective_embargo;
          \*  active: the decisions that are long or short]

IsSample(s) ==
  /\ s.close \in Seq(Nat) /\ s.available \in Seq(Nat)
  /\ Len(s.available) = Len(s.close)
  /\ \A i \in DOMAIN s.close :
       /\ s.close[i] <= s.available[i]
       /\ \A j \in DOMAIN s.close : i < j => s.close[i] < s.close[j]
  /\ s.embargo \in Nat

\* One decision at the close of every bar but the last; its outcome is known when the
\* next bar is.
Latest      == Len(sample.close) - 1
Decision(r) == sample.close[r]
Outcome(r)  == sample.available[r + 1]

-----------------------------------------------------------------------------
(* Boundary and folds, of the rows lo..hi.                                 *)

FinalCount(n) == Max({1, (n + FinalShare - 1) \div FinalShare})

\* The first row of the final test, and its time; the test must leave a row before it.
FinalFirst(lo, hi) == hi + 1 - FinalCount(hi + 1 - lo)
FinalStart(lo, hi) == Decision(FinalFirst(lo, hi))
HasBoundary(lo, hi) == lo <= hi /\ FinalFirst(lo, hi) > lo

\* make_outer_folds takes the rows that resolve before the final test, and raises if
\* they are not the first ones.
Eligible(lo, hi) == {r \in lo..(FinalFirst(lo, hi) - 1) : Outcome(r) < FinalStart(lo, hi)}
Divisible(lo, hi) ==
  /\ HasBoundary(lo, hi)
  /\ \A r \in Eligible(lo, hi) : lo..r \subseteq Eligible(lo, hi)

\* The rows before start whose outcome was known an embargo before it.
Known(lo, start) == {r \in lo..(start - 1) : Outcome(r) <= Decision(start) - sample.embargo}

\* Blocks follow each other after the least training; one that has nothing to train on
\* is left out.
Folds(lo, hi) ==
  LET size   == Cardinality(Eligible(lo, hi))
      end    == lo + size - 1
      starts == {s \in (lo + MinTrain)..end : (s - lo - MinTrain) % Block = 0 /\ Known(lo, s) # {}}
  IN  {[train |-> Known(lo, s), validation |-> s..Min({s + Block - 1, end})] : s \in starts}

-----------------------------------------------------------------------------
(* What an evaluation seals, and what the ensemble accepts.                *)

Final     == FinalStart(1, Latest)
Evaluates == Latest > 0 /\ Divisible(1, Latest)
Outer     == Folds(1, Latest)

FoldEvidence(f) ==
  [start |-> Decision(Min(f.validation)), end |-> Decision(Max(f.validation)),
   at    |-> Max({Outcome(r) : r \in f.validation})]

\* Mutant of DevelopmentRows: whatever was decided before the final test.
DecidedRows == {r \in 1..Latest : Decision(r) < Final}

\* What the metrics, the bounds and the bootstrap of a promotion are computed from.
DevelopmentRows == {r \in 1..Latest : Decision(r) < Final /\ Outcome(r) < Final}

\* _seal_development_evidence; a strategy whose evidence it refuses is FAILED.
Sealed ==
  /\ DevelopmentRows # {}
  /\ \A f \in Outer :
       LET e == FoldEvidence(f)
       IN  e.start < e.end /\ e.end <= e.at /\ e.end < Final /\ e.at < Final

\* promotion_evidence_through: each row of the curve bears the close at which it ends.
SealedThrough ==
  Max({sample.close[r + 1] : r \in DevelopmentRows} \cup {FoldEvidence(f).at : f \in Outer})

\* _root_validation_snapshot_is_auditable computes it from all decisions before the test.
AuditedThrough ==
  Max({Decision(r) : r \in 1..(FinalFirst(1, Latest) - 1)} \cup {FoldEvidence(f).at : f \in Outer})

AuditAccepts ==
  /\ SealedThrough = AuditedThrough
  /\ \A f \in Outer :
       LET e == FoldEvidence(f)
       IN  e.start < e.end /\ e.end <= e.at /\ e.at < Final

-----------------------------------------------------------------------------
(* The calibration of the current signal, in three phases.                 *)

\* Out-of-fold rows that are long or short, by the times of their decisions.
Joined(folds) ==
  {r \in DevelopmentRows \cap sample.active : \E f \in folds :
     FoldEvidence(f).start <= Decision(r) /\ Decision(r) <= FoldEvidence(f).end}

\* The rows in the places from..to of the order in which they were decided.
Phase(joined, from, to) == {r \in joined : Cardinality({q \in joined : q <= r}) \in from..to}

\* Mutant of Purged: the phases are cut and not purged.
CutOnly(joined, from, to) == Phase(joined, from, to)

\* Those of a phase that are resolved before the first decision of the next one.
Purged(joined, from, to) ==
  LET next == Phase(joined, to + 1, to + 1)
  IN  {r \in Phase(joined, from, to) : \A q \in next : Outcome(r) < Decision(q)}

Calibration(folds) ==
  LET joined       == Joined(folds)
      n            == Cardinality(joined)
      fitEnd       == n \div 2
      selectionEnd == (3 * n) \div 4
  IN  [fit          |-> Purged(joined, 1, fitEnd),
       selection    |-> Purged(joined, fitEnd + 1, selectionEnd),
       confirmation |-> Phase(joined, selectionEnd + 1, n)]

-----------------------------------------------------------------------------
(* The folds of learning, nested in the rows before the final test.        *)

LearnFirst == WarmBars + 1
LearnAsOf  == Decision(FinalFirst(1, Latest) - 1)

\* The last row before the final test only tells the time up to which learning sees.
LearnLast == FinalFirst(1, Latest) - 2

LearnBuilds ==
  /\ Evaluates
  /\ Latest - WarmBars >= MinTrain + Block + 3
  /\ FinalFirst(1, Latest) - LearnFirst >= 3
  /\ Divisible(LearnFirst, LearnLast)
  /\ Folds(LearnFirst, LearnLast) # {}

\* _development_frame.
FrameAccepted ==
  \A r \in LearnFirst..LearnLast :
    /\ Decision(r) < Final /\ sample.available[r] < Final
    /\ sample.available[r] <= LearnAsOf /\ sample.available[r] <= Decision(r)
    /\ Outcome(r) <= LearnAsOf /\ Outcome(r) > Decision(r)

\* _validated_fold.
FoldAccepted(f) ==
  /\ f.train # {} /\ f.validation # {}
  /\ f.train \cup f.validation \subseteq LearnFirst..LearnLast
  /\ \A r \in f.train : Decision(r) < Decision(Min(f.validation))
                        /\ Outcome(r) <= Decision(Min(f.validation))

-----------------------------------------------------------------------------
(* Properties.                                                             *)

\* The probability of the current signal is out of fold and forward in time: each row
\* it rests on is validated by one fold, whose training was known an embargo before
\* that row was decided; what fits the calibrator was known before anything selects
\* its threshold, what selects it before anything confirms it, and all of it before
\* the final test begins.
ProbabilityIsOutOfFold ==
  Evaluates =>
    LET folds == Outer
        phase == Calibration(folds)
    IN  /\ \A r \in phase.fit \cup phase.selection \cup phase.confirmation :
             /\ Outcome(r) < Final
             /\ \E f \in folds : /\ r \in f.validation
                                 /\ \A g \in folds \ {f} : r \notin g.validation
                                 /\ \A t \in f.train : Outcome(t) + sample.embargo <= Decision(r)
        /\ \A r \in phase.fit, s \in phase.selection \cup phase.confirmation : Outcome(r) < Decision(s)
        /\ \A r \in phase.selection, s \in phase.confirmation : Outcome(r) < Decision(s)

\* What an evaluation seals of a sample whose bars are published before the next one
\* closes passes the ensemble's audit, which computes the boundary of the evidence
\* in another way.
AuditAgrees ==
  Evaluates /\ Sealed /\ (\A r \in 1..Latest : sample.available[r] < sample.close[r + 1])
    => AuditAccepts

\* Learning is never refused the frame and the folds that it made itself of bars that
\* are available when they close, and sees nothing of the final test.
LearnerAcceptsItsFolds ==
  LearnBuilds /\ sample.available = sample.close =>
    /\ LearnAsOf < Final
    /\ FrameAccepted
    /\ \A f \in Folds(LearnFirst, LearnLast) : FoldAccepted(f)

\* What one part makes of a sample, the part that was written apart from it accepts.
AcceptedDownstream == AuditAgrees /\ LearnerAcceptsItsFolds
=============================================================================
