--------------------------- MODULE MCRuleDiscovery ---------------------------
(***************************************************************************)
(* Six rules.  The first list has one outside of the domain and one that   *)
(* makes the evaluator raise; new data turn the ranking of the two atoms   *)
(* round, and only then does a pair of them breed.                         *)
(*                                                                         *)
(* Beside the searches stand the samples whose division WalkForward        *)
(* defines.  A division is a function, so a sample is a state of its own   *)
(* from which nothing follows.  And beside both stands the ensemble of     *)
(* four strategies, two of them of one family, that are given weights for  *)
(* what their evaluations found (EvidenceWeights).                         *)
(***************************************************************************)
EXTENDS RuleDiscovery, WalkForward, EvidenceWeights

CONSTANTS
  Lengths,   \* of the samples, in bars
  Delays,    \* from the close of a bar to its publication; bars are two apart
  Embargoes

MCRules   == 1..6
MCInitial == <<<<3, 5, 2, 1>>>>
MCMates   == [s \in Seeds |-> [o \in Ordinals |-> [parent \in Rules |->
               IF parent = 3 THEN <<6, 1>> ELSE IF o = 4 THEN <<2, 3>> ELSE <<4>>]]]
MCCrossed == [left \in Rules |-> [right \in Rules |-> IF left = 1 THEN <<4>> ELSE <<6>>]]
MCFitness == <<[r \in Rules |-> r % 4], [r \in Rules |-> 7 - r]>>

\* Up to two of some bars are followed by a gap, one bar may be published late, and
\* one decision may be flat.
Calendars ==
  {[b \in 1..n |-> 2 * (b + Cardinality({g \in gaps : g < b}))] :
      n \in Lengths, gaps \in {g \in SUBSET {3, 6, 8, 9, 10} : Cardinality(g) <= 2}}

Samples ==
  {[close     |-> close,
    available |-> [b \in DOMAIN close |-> close[b] + delay + (IF b = late THEN 3 ELSE 0)],
    embargo   |-> embargo,
    active    |-> DOMAIN close \ {flat}] :
      close \in Calendars, delay \in Delays, late \in {0, 5, 8, 9, 10, 11},
      embargo \in Embargoes, flat \in {0, 5}}

NoSample == [close |-> <<>>]

\* No strategy is eligible, too few are for the caps, all but one, and all; alike and not.
MCEvidence ==
  {<<0, 0, 0, 0>>, <<5, 0, 1, 0>>, <<1, 1, 0, 5>>, <<5, 1, 1, 0>>, <<5, 0, 1, 1>>, <<1, 0, 5, 5>>,
   <<1, 1, 1, 1>>, <<5, 1, 1, 1>>, <<5, 5, 5, 1>>, <<1, 1, 5, 1>>, <<5, 1, 5, 5>>}

MCFamily == <<1, 1, 2, 3>>
MCDecay  == <<[l \in 0..4 |-> <<16, 11, 8, 6, 4>>[l + 1]], [l \in 0..4 |-> <<16, 13, 11, 9, 8>>[l + 1]]>>

Resolved(by, decided, at, loss) == [by |-> by, decided |-> decided, at |-> at, loss |-> loss]
Early     == {Resolved(1, 0, 1, 0), Resolved(3, 0, 1, 4)}
Late      == {Resolved(1, 1, 2, 2), Resolved(4, 0, 2, 0)}
Revised   == Resolved(1, 1, 2, 4)
MCBatches == {{o} : o \in Early \cup Late \cup {Revised}}
               \cup {{}, Early \cup Late, Early \cup Late \cup {Revised}}

Says(signal, vote, probability, edge) ==
  [signal |-> signal, vote |-> vote, probability |-> probability, edge |-> edge,
   cost |-> 1, uncertainty |-> 1, sound |-> TRUE]
MCCurrents ==
  {c \in [1..4 -> {Says(0, 0, 50, 0), Says(1, 4, 60, 10), Says(-1, 2, 40, 10)}] :
     c[1] = c[2] /\ (c[3] = c[4] \/ c[3].signal = 0)}

\* One of the three moves, and only while the other two are as they began.
NoEnsemble == EvidenceInit /\ Scored = {}

MCInit ==
  /\ SearchInit /\ EvidenceInit
  /\ \/ sample = NoSample
     \/ NoEnsemble /\ sample \in Samples /\ IsSample(sample)

MCNext ==
  \/ sample = NoSample /\ NoEnsemble /\ SearchNext /\ UNCHANGED <<sample, evars>>
  \/ sample = NoSample /\ SearchInit /\ EvidenceNext /\ UNCHANGED <<sample, svars>>
MCSpec == MCInit /\ [][MCNext]_<<svars, sample, evars>>
=============================================================================
