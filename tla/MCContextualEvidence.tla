------------------------ MODULE MCContextualEvidence ------------------------
(***************************************************************************)
(* Four assets, of which the neighbours in the order of the first cohort   *)
(* correlate but for the last two, and a portfolio of two.  A request asks *)
(* for the first two, of which one keeps the other out, or for all four.   *)
(***************************************************************************)
EXTENDS ContextualEvidence

CONSTANTS a1, a2, a3, a4

FourAssets == {a1, a2, a3, a4}
TwoOrFour  == {<<a1, a2>>, <<a1, a2, a4, a3>>}
Orders     == <<<<a1, a2, a3, a4>>, <<a2, a1>>>>
Neighbours == {{a1, a2}, {a2, a3}}
AnyWeight  == [S \in SUBSET Assets |-> S]

\* Bound: all refreshes ask for the same, and nothing changes of other assets.  Two
\* assets are refreshed twice, screens included, or evaluated three times; four assets
\* are evaluated twice.
Affordable ==
  LET asked == UNION {s.assets : s \in tried}
  IN  /\ Cardinality({s.asked : s \in tried}) <= 1
      /\ Cardinality(asked) > 2 => refreshes <= 2
      /\ Cardinality(asked) > 2 \/ refreshes > 2 => \A s \in tried : s.kind = "evaluate"
      /\ refreshes > 0 => \A c \in Assets \ asked : market[MaxTime][c].mark = 0

MCSpec == ContextInit /\ [][ContextNext /\ Affordable']_cvars
=============================================================================
