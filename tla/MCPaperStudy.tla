---------------------------- MODULE MCPaperStudy ----------------------------
(* The two symbols are exchangeable: no property orders them.               *)
EXTENDS PaperStudy, TLC

CONSTANTS x, y, s1

MCSymbols == {x, y}
Symmetry  == Permutations(MCSymbols)
=============================================================================
