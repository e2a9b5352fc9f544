--------------------------- MODULE OrderExecution ---------------------------
(***************************************************************************)
(* run_execution of src/backtest/execution.py: a list of order intents is  *)
(* replayed over finalized bars.  Bars come in the order of their opening; *)
(* on each bar the pending orders of its symbol are tried in the order of  *)
(* their decision, share the bar's participation capacity, and are filled  *)
(* once or rejected; a session's last bar closes what is left.             *)
(*                                                                         *)
(* Quantities and prices are integers: the tick and cost arithmetic of a   *)
(* fill, and the float tolerances, are left out.  Every order names its    *)
(* source decisions, one per order.                                        *)
(***************************************************************************)
EXTENDS Integers, FiniteSets, FiniteSetsExt

CONSTANTS
  NumSymbols,  \* symbols, numbered in the order of their names
  NumOrders,   \* orders submitted, numbered by decision time and order id
  Catalogue,   \* order intents to choose from
  Starting,    \* positions to begin with
  Lot,         \* lot_size
  Latency,     \* latency
  BorrowModes, \* values of short_borrow_available to choose from
  Volumes,     \* a bar's volume times the participation rate
  Prices,      \* prices of bars and orders
  Shapes,      \* open, high, low and close of a bar
  MaxTime      \* bound: open of the last bar

Symbols == 1..NumSymbols
Orders  == 1..NumOrders
Times   == 1..MaxTime
Effects == {"auto", "open", "close"}
Types   == {"market", "stop", "target", "bracket"}

\* stop stands for protective_stop too, and market for timed_exit.
Intent == [symbol : Symbols, decided : Nat, side : {"buy", "sell"}, quantity : Nat \ {0},
           type : Types, effect : Effects, stop : Prices, target : Prices]

ASSUME ExecutionAssumption ==
  /\ NumSymbols \in Nat /\ NumOrders \in Nat /\ Catalogue \subseteq Intent
  /\ Starting \subseteq Int
  /\ Lot \in Nat \ {0} /\ Latency \in Nat /\ BorrowModes \subseteq BOOLEAN
  /\ Volumes \subseteq Nat /\ Prices \subseteq Nat \ {0} /\ MaxTime \in Nat
  /\ Shapes \subseteq [open : Prices, high : Prices, low : Prices, close : Prices]
  /\ \A p \in Shapes : {p.open, p.close} \subseteq p.low..p.high

VARIABLES
  orders,       \* the sorted orders
  shortBorrow,  \* short_borrow_available of the assumptions
  stage,        \* "intake", "bars", "orders" of the bar, bar "ended", or "done"
  pending,      \* orders that are neither filled nor rejected
  eligible,     \* saw_eligible_bar
  positions,    \* signed quantities
  provenance,   \* position_provenance: orders whose decisions a position rests on
  bar,          \* the bar under way, or which the last one was
  used,         \* used_capacity
  cursor,       \* last order of pending that this bar has tried
  fills,        \* quantity of an order's fill, 0 when it has none
  rejections,   \* orders and reasons
  leftOpen,     \* session closes rejected, as symbol and time
  closed,       \* history: signed quantity closed by session closes
  initial       \* history: the positions to begin with

given   == <<orders, shortBorrow, initial>>
account == <<positions, provenance, fills, closed>>
market  == <<bar, used, cursor>>
xvars   == <<given, stage, pending, eligible, account, market, rejections, leftOpen>>

Reasons == {"below_lot", "no_borrow", "nothing_to_close", "exceeds_position",
            "exceeds_capacity", "trigger_not_reached", "no_actionable_bar"}

\* actionable: not halted, and with volume; volume: what participation leaves of it;
\* closes: the session ends with it, and positions are to be flattened.
Bar   == [symbol : Symbols, open_time : Times, actionable : BOOLEAN, closes : BOOLEAN,
          volume : Volumes, ohlc : Shapes]
Ended == [symbol : Symbols \cup {0}, open_time : Times \cup {0}]

Lots(q) == q - (q % Lot)
Floor0(n) == IF n > 0 THEN n ELSE 0
Least(m, n) == IF m < n THEN m ELSE n
Abs(n) == IF n < 0 THEN -n ELSE n
Sign(side) == IF side = "buy" THEN 1 ELSE -1

ExecutionTypeOK ==
  /\ orders \in [Orders -> Catalogue] /\ initial \in [Symbols -> Starting]
  /\ shortBorrow \in BorrowModes
  /\ stage \in {"intake", "bars", "orders", "ended", "done"}
  /\ pending \subseteq Orders /\ eligible \subseteq Orders
  /\ positions \in [Symbols -> Int] /\ closed \in [Symbols -> Int]
  /\ provenance \in [Symbols -> SUBSET (Orders \cup {0})]
  /\ bar \in Bar \cup Ended /\ used \in Nat /\ cursor \in Orders \cup {0}
  /\ fills \in [Orders -> Nat]
  /\ \A i \in Orders : fills[i] <= Lots(orders[i].quantity)
  /\ rejections \subseteq Orders \X Reasons
  /\ leftOpen \subseteq Symbols \X Times
  /\ stage \in {"orders", "ended"} => bar \in Bar

\* An initial position comes with its sources, here number 0.
ExecutionInit ==
  /\ orders \in [Orders -> Catalogue]
  /\ \A i, j \in Orders : i < j => orders[i].decided <= orders[j].decided
  /\ initial \in [Symbols -> Starting] /\ shortBorrow \in BorrowModes
  /\ stage = "intake" /\ pending = {} /\ eligible = {}
  /\ positions = initial
  /\ provenance = [s \in Symbols |-> IF initial[s] = 0 THEN {} ELSE {0}]
  /\ bar = [symbol |-> 0, open_time |-> 0]
  /\ used = 0 /\ cursor = 0
  /\ fills = [i \in Orders |-> 0] /\ rejections = {} /\ leftOpen = {}
  /\ closed = [s \in Symbols |-> 0]

-----------------------------------------------------------------------------
(* Orders are taken in, and bars come.                                     *)

BelowLot == {i \in Orders : Lots(orders[i].quantity) = 0}

OpensShort ==
  {i \in Orders : orders[i].side = "sell" /\ orders[i].effect = "open" /\ ~shortBorrow}

TakeOrders ==
  /\ stage = "intake"
  /\ pending' = Orders \ (BelowLot \cup OpensShort)
  /\ rejections' = (BelowLot \X {"below_lot"}) \cup ((OpensShort \ BelowLot) \X {"no_borrow"})
  /\ stage' = "bars"
  /\ UNCHANGED <<given, eligible, account, market, leftOpen>>

Follows(b) ==
  \/ b.open_time > bar.open_time
  \/ b.open_time = bar.open_time /\ b.symbol > bar.symbol

\* A bar nobody can trade on is passed over, and a session that ends with it ends open.
NextBar(b) ==
  /\ stage = "bars" /\ Follows(b)
  /\ bar' = b /\ used' = 0 /\ cursor' = 0
  /\ stage' = IF b.actionable THEN "orders" ELSE "ended"
  /\ leftOpen' = IF ~b.actionable /\ b.closes /\ positions[b.symbol] # 0
                 THEN leftOpen \cup {<<b.symbol, b.open_time>>} ELSE leftOpen
  /\ UNCHANGED <<given, pending, eligible, account, rejections>>

-----------------------------------------------------------------------------
(* One order on one bar.                                                   *)

\* The orders of the bar's symbol that may act on its opening and wait for their turn.
Waiting ==
  {i \in pending : /\ i > cursor /\ orders[i].symbol = bar.symbol
                   /\ orders[i].decided + Latency <= bar.open_time}

IsTurnOf(i) ==
  /\ stage = "orders"
  /\ i \in Waiting /\ \A j \in Waiting : i <= j

Position == positions[bar.symbol]

\* What an order that only closes may take of a position.
Reducible(i, p) == IF orders[i].side = "sell" THEN p ELSE -p

NothingToClose(i) == orders[i].effect = "close" /\ Reducible(i, Position) <= 0

StopTouched(i) ==
  /\ orders[i].type \in {"stop", "bracket"}
  /\ IF orders[i].side = "buy" THEN bar.ohlc.high >= orders[i].stop ELSE bar.ohlc.low <= orders[i].stop

TargetTouched(i) ==
  /\ orders[i].type \in {"target", "bracket"}
  /\ IF orders[i].side = "buy" THEN bar.ohlc.low <= orders[i].target ELSE bar.ohlc.high >= orders[i].target

Triggered(i) == orders[i].type = "market" \/ StopTouched(i) \/ TargetTouched(i)

Capacity == Lots(Floor0(bar.volume - used))

\* Mutant of Fillable: an order that closes is filled whatever the position.
FillableUnlimited(i) == Least(Lots(orders[i].quantity), Capacity)

Fillable(i) ==
  LET q == Least(Lots(orders[i].quantity), Capacity)
  IN  IF orders[i].effect = "close" THEN Least(q, Reducible(i, Position)) ELSE q

\* The order would sell what is not there, and nothing can be borrowed.
Unborrowed(i) ==
  /\ orders[i].side = "sell" /\ orders[i].effect # "close" /\ ~shortBorrow
  /\ Position - Fillable(i) < 0

\* What is filled: a sale without borrow ends at zero.
Filled(i) == IF Unborrowed(i) THEN Least(Fillable(i), Floor0(Position)) ELSE Fillable(i)

Considered(i) == cursor' = i /\ eligible' = eligible \cup {i}

Reject(i, reason) ==
  /\ rejections' = rejections \cup {<<i, reason>>}
  /\ pending' = pending \ {i}

RejectClose(i) ==
  /\ IsTurnOf(i) /\ NothingToClose(i)
  /\ Considered(i) /\ Reject(i, "nothing_to_close")
  /\ UNCHANGED <<given, stage, account, bar, used, leftOpen>>

\* The price is not reached, or the bar's capacity is used up: the order stays.
Stays(i) ==
  /\ IsTurnOf(i) /\ ~NothingToClose(i)
  /\ ~Triggered(i) \/ Fillable(i) <= 0
  /\ Considered(i)
  /\ UNCHANGED <<given, stage, pending, account, bar, used, rejections, leftOpen>>

RejectShort(i) ==
  /\ IsTurnOf(i) /\ ~NothingToClose(i) /\ Triggered(i) /\ Fillable(i) > 0
  /\ Unborrowed(i) /\ Filled(i) <= 0
  /\ Considered(i) /\ Reject(i, "no_borrow")
  /\ UNCHANGED <<given, stage, account, bar, used, leftOpen>>

\* A position that is opened or turned over rests on the order, one that grows on
\* the order too, one that shrinks on what it rested on.
NewSources(old, before, after, own) ==
  IF after = 0 THEN {}
  ELSE IF before = 0 \/ before * after < 0 THEN own
  ELSE IF Abs(after) > Abs(before) THEN old \cup own ELSE old

\* Why the rest of an order is not filled; a rest that capacity alone leaves of an
\* order that may open is dropped without a word.
RestReason(i) ==
  IF Unborrowed(i) THEN {"no_borrow"}
  ELSE IF orders[i].effect = "close" /\ Filled(i) < Lots(orders[i].quantity)
       THEN IF Reducible(i, Position) <= Capacity THEN {"exceeds_position"}
                                                  ELSE {"exceeds_capacity"}
  ELSE {}

After(i) == Position + Filled(i) * Sign(orders[i].side)

Fill(i) ==
  /\ IsTurnOf(i) /\ ~NothingToClose(i) /\ Triggered(i) /\ Filled(i) > 0
  /\ positions' = [positions EXCEPT ![bar.symbol] = After(i)]
  /\ provenance' = [provenance EXCEPT ![bar.symbol] = NewSources(@, Position, After(i), {i})]
  /\ fills' = [fills EXCEPT ![i] = Filled(i)]
  /\ rejections' = rejections \cup ({i} \X RestReason(i))
  /\ pending' = pending \ {i}
  /\ used' = used + Filled(i)
  /\ Considered(i)
  /\ UNCHANGED <<given, stage, closed, bar, leftOpen>>

-----------------------------------------------------------------------------
(* The end of a bar, and of the bars.                                      *)

EndBar ==
  /\ \/ stage = "orders" /\ Waiting = {} /\ (~bar.closes \/ Position = 0)
     \/ stage = "ended"
  /\ bar' = [symbol |-> bar.symbol, open_time |-> bar.open_time]
  /\ used' = 0 /\ cursor' = 0
  /\ stage' = "bars"
  /\ UNCHANGED <<given, pending, eligible, account, rejections, leftOpen>>

\* Mutant of SessionRejected: only a session close that fills nothing is rejected.
SessionRejectedIfNothing(q, after) == q = 0

\* Reported for what is left, whether capacity allowed nothing or a part.
SessionRejected(q, after) == after # 0

\* The last bar of a session closes the position as far as its capacity goes.
CloseSession ==
  /\ stage = "orders" /\ Waiting = {} /\ bar.closes /\ Position # 0
  /\ LET s == bar.symbol
         q == Least(Abs(Position), Capacity)
         after == IF Position > 0 THEN Position - q ELSE Position + q
     IN  /\ positions' = [positions EXCEPT ![s] = after]
         /\ provenance' = [provenance EXCEPT ![s] = IF after = 0 THEN {} ELSE @]
         /\ closed' = [closed EXCEPT ![s] = @ + (after - Position)]
         /\ leftOpen' = IF SessionRejected(q, after) THEN leftOpen \cup {<<s, bar.open_time>>}
                                                  ELSE leftOpen
  /\ stage' = "ended"
  /\ UNCHANGED <<given, pending, eligible, fills, bar, used, cursor, rejections>>

EndReason(i) ==
  IF i \in eligible /\ orders[i].type # "market" THEN "trigger_not_reached"
  ELSE "no_actionable_bar"

\* There are no more bars.
Finish ==
  /\ stage = "bars"
  /\ rejections' = rejections \cup {<<i, EndReason(i)>> : i \in pending}
  /\ pending' = {}
  /\ stage' = "done"
  /\ UNCHANGED <<given, eligible, account, market, leftOpen>>

-----------------------------------------------------------------------------
ExecutionNext ==
  \/ TakeOrders \/ \E b \in Bar : NextBar(b)
  \/ \E i \in Orders : RejectClose(i) \/ Stays(i) \/ RejectShort(i) \/ Fill(i)
  \/ EndBar \/ CloseSession \/ Finish

ExecutionSpec == ExecutionInit /\ [][ExecutionNext]_xvars

-----------------------------------------------------------------------------
(* What a replay promises.                                                 *)

Signed(s) == [i \in {i \in Orders : orders[i].symbol = s} |-> fills[i] * Sign(orders[i].side)]
SignedFills(s) == MapThenSumSet(LAMBDA i : Signed(s)[i], DOMAIN Signed(s))

\* The ledger of fills explains the positions, clamped and partial fills included.
LedgerExplainsPosition ==
  \A s \in Symbols : positions[s] = initial[s] + SignedFills(s) + closed[s]

\* A session never ends with an open position that nobody was told of.
SessionEndsFlat ==
  stage = "ended" /\ bar.closes /\ positions[bar.symbol] # 0
    => <<bar.symbol, bar.open_time>> \in leftOpen

\* Neither a position nor one left open at a session's end is unexplained.
NothingUnexplained == LedgerExplainsPosition /\ SessionEndsFlat

Shrinks(p, q) == Abs(q) < Abs(p) /\ p * q >= 0

\* An order that closes, and a session close, never open or turn over a position;
\* and without borrow no position goes short, nor any further short.
NoOverreach ==
  [][\A s \in Symbols : positions'[s] # positions[s] =>
       /\ \/ Shrinks(positions[s], positions'[s])
          \/ \E i \in Orders : orders[i].effect # "close" /\ fills'[i] # fills[i]
       /\ ~shortBorrow /\ positions'[s] < 0 => positions'[s] >= positions[s]]_xvars
=============================================================================
