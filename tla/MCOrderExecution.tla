-------------------------- MODULE MCOrderExecution --------------------------
(***************************************************************************)
(* Orders of both sides, of every type and of every effect, at two         *)
(* decision times.  From one of the initial states nothing is ordered, and *)
(* hourly bars are replayed and audited instead (OpportunityReplay).       *)
(***************************************************************************)
EXTENDS OrderExecution, OpportunityReplay

Order(side, type, effect, quantity, decided) ==
  [symbol |-> 1, decided |-> decided, side |-> side, quantity |-> quantity, type |-> type,
   effect |-> effect, stop |-> 2, target |-> 2]

MCCatalogue ==
  {Order("buy", "market", "auto", d, 1) : d \in {3, 4}}
    \cup {Order("sell", "market", e, 4, 1) : e \in Effects}
    \cup {Order("sell", "market", "auto", 1, 0), Order("buy", "market", "auto", 2, 2), Order("buy", "stop", "open", 2, 0),
          Order("buy", "market", "close", 4, 1)}
    \cup {[Order("sell", "bracket", "close", q, 0) EXCEPT !.stop = 1, !.target = 3] : q \in {2, 4}}
    \cup {[Order("sell", "target", "auto", 2, 0) EXCEPT !.target = 3]}

MCStarting == {0, 3, -2}

Shape(o, h, l, c) == [open |-> o, high |-> h, low |-> l, close |-> c]

\* A quiet bar, one that touches both sides, gaps up and down, one way each.
MCShapes ==
  {Shape(2, 2, 2, 2), Shape(2, 3, 1, 2), Shape(3, 3, 3, 3), Shape(1, 1, 1, 1), Shape(1, 2, 1, 2)}

Hour(gap, o, h, l, c) == [gap |-> gap, open |-> o, high |-> h, low |-> l, close |-> c]

\* Nothing, a stop, both barriers, a target; an opening below the stop, a gap.
MCBars ==
  {Hour(FALSE, 8, 9, 8, 9), Hour(FALSE, 9, 9, 7, 8), Hour(FALSE, 8, 11, 6, 7),
   Hour(FALSE, 8, 11, 8, 10), Hour(FALSE, 2, 7, 2, 7), Hour(TRUE, 2, 4, 2, 4)}

Replaying ==
  /\ stage = "intake" /\ initial = [s \in Symbols |-> 0] /\ shortBorrow
  /\ orders = [i \in Orders |-> Order("buy", "market", "auto", 3, 1)]

MCInit == ExecutionInit /\ ReplayInit
MCNext ==
  \/ series = <<>> /\ ExecutionNext /\ UNCHANGED <<series, books>>
  \/ Replaying /\ ReplayNext /\ UNCHANGED xvars
MCSpec == MCInit /\ [][MCNext]_<<xvars, series, books>>
=============================================================================
