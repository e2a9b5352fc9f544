------------------------- MODULE MCTradingSupervisor -------------------------
(***************************************************************************)
(* Values for the model checker: two client order ids, one that buys and   *)
(* one that sells, so that fills can also cancel out to a flat position.   *)
(***************************************************************************)
EXTENDS TradingSupervisor, TLC

CONSTANTS a, b

Both    == {a, b}
OnlyA   == {a}
SellsB  == {b}
Nothing == {}
=============================================================================
