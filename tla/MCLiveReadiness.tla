-------------------------- MODULE MCLiveReadiness --------------------------
(* Three periods, two callers that close them, two evaluations, two scopes. *)
EXTENDS LiveReadiness, TLC

CONSTANTS p1, p2, p3, c1, c2, q1, q2, s1, s2

MCPeriods    == {p1, p2, p3}
MCClosers    == {c1, c2}
MCQualifiers == {q1, q2}
MCScopes     == {s1, s2}

\* Nothing tells one period, caller, evaluation or scope from another.
MCSymmetry ==
  Permutations(MCPeriods) \cup Permutations(MCClosers) \cup Permutations(MCQualifiers)
    \cup Permutations(MCScopes)
=============================================================================
