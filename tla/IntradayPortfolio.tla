-------------------------- MODULE IntradayPortfolio --------------------------
(***************************************************************************)
(* run_intraday_backtest of src/backtest/intraday.py: decisions of several *)
(* strategies on several symbols are replayed as one portfolio.  On every  *)
(* opening the decisions that have become due set the targets, the orders  *)
(* that lead there are filled together or not at all, and within the       *)
(* limits; the closing of a session flattens what it can.                  *)
(*                                                                         *)
(* Money and lots are integers; what is not a whole lot counts in parts of *)
(* one (Fine).  Price, spread, slippage and fees of a fill are one cost    *)
(* per lot.  Volatility scaling, metrics and provenance are left out.      *)
(***************************************************************************)
EXTENDS Integers, Sequences, FiniteSetsExt

CONSTANTS
  Programs,     \* sets of decisions to choose from
  Openings,     \* groups of bars that open together: of each symbol that has one
  InitialCash,
  MaxGross, MaxNet, MaxAsset, MaxStrategy,  \* parts of a thousand of equity
  Fine,         \* parts of a lot
  LotCost,      \* cost of a fill per lot, and of a short position per lot and bar
  ShortBorrow,  \* short_borrow_available
  Cuts,         \* 0.99^k for the attempts at a batch, in parts of a thousand
  Delay,        \* latency
  MaxBars       \* bound

Decision == [by : Nat, symbol : Nat, at : Nat, target : -1000..1000]
Quote    == [open : Nat \ {0}, close : Nat \ {0}, capacity : Nat, session : BOOLEAN]

ASSUME PortfolioAssumption ==
  /\ \A program \in Programs :
       /\ program \subseteq Decision /\ IsFiniteSet(program)
       /\ \A d, e \in program : d.by = e.by /\ d.symbol = e.symbol /\ d.at = e.at => d = e
  /\ \A open \in Openings : /\ open \in [DOMAIN open -> Quote]
                            /\ DOMAIN open \subseteq Nat /\ IsFiniteSet(DOMAIN open)
  /\ {InitialCash, Fine, LotCost, Delay, MaxBars} \subseteq Nat /\ Fine > 0
  /\ {MaxGross, MaxNet, MaxAsset, MaxStrategy} \subseteq 1..1000
  /\ ShortBorrow \in BOOLEAN
  /\ Cuts \in Seq(1..1000) /\ Len(Cuts) > 0 /\ Cuts[1] = 1000

VARIABLES
  program,   \* the decisions
  consumed,  \* those that have been taken
  states,    \* what each strategy wants of a symbol now
  hour,      \* openings so far
  group,     \* the bars under way
  phase,     \* "bars", "open", or "over"
  cash,
  held,      \* positions in lots
  marks,     \* last_prices
  batch,     \* the last batch: orders, fills and what was held before
  flattened, \* lots closed at the end of the bar
  refused    \* reasons for which something of this bar was rejected

pvars == <<program, consumed, states, hour, group, phase, cash, held, marks, batch, flattened, refused>>

NoBatch == [wanted |-> <<>>, filled |-> <<>>, before |-> <<>>]

\* Signed division that rounds towards zero.
Part(x, n, d) == IF x >= 0 THEN (x * n) \div d ELSE -((-x * n) \div d)
Magnitude(x) == IF x < 0 THEN -x ELSE x
Smaller(x, y) == IF x < y THEN x ELSE y
Total(f) == MapThenSumSet(LAMBDA k : f[k], DOMAIN f)
Gross(f) == Total([k \in DOMAIN f |-> Magnitude(f[k])])

-----------------------------------------------------------------------------
(* Decisions and targets.                                                  *)

\* Everything due whose symbol has a bar now, oldest first: the last one stands.
Due(at, symbols) ==
  {d \in program \ consumed : d.at + Delay <= at /\ d.symbol \in symbols}

\* Mutant of Latest: of several that have become due, the first one stands.
Earliest(due, by, symbol) ==
  CHOOSE d \in due : /\ d.by = by /\ d.symbol = symbol
                     /\ \A e \in due : e.by = by /\ e.symbol = symbol => d.at <= e.at

Latest(due, by, symbol) ==
  CHOOSE d \in due : /\ d.by = by /\ d.symbol = symbol
                     /\ \A e \in due : e.by = by /\ e.symbol = symbol => e.at <= d.at

TakenOver(due) ==
  [key \in DOMAIN states \cup {<<d.by, d.symbol>> : d \in due} |->
     IF \E d \in due : key = <<d.by, d.symbol>> THEN Latest(due, key[1], key[2]).target ELSE states[key]]

\* Of a strategy: its wishes, scaled to what one strategy may hold.
Contribution(wishes, key) ==
  LET gross == Gross([k \in {k \in DOMAIN wishes : k[1] = key[1]} |-> wishes[k]])
  IN  IF gross > MaxStrategy THEN Part(wishes[key], MaxStrategy, gross) ELSE wishes[key]

Clip(x, limit) == IF x > limit THEN limit ELSE IF x < -limit THEN -limit ELSE x

\* _target_fractions.
TargetFractions(wishes) ==
  LET clipped == [s \in {k[2] : k \in DOMAIN wishes} |->
                    Clip(Total([k \in {k \in DOMAIN wishes : k[2] = s} |-> Contribution(wishes, k)]), MaxAsset)]
      gross   == Gross(clipped)
      net     == Magnitude(Total(clipped))
      \* The smaller of the two scales, compared without dividing.
      byNet   == net > MaxNet /\ (gross > MaxGross => MaxNet * gross < MaxGross * net)
  IN  [s \in DOMAIN clipped |->
         IF byNet THEN Part(clipped[s], MaxNet, net)
         ELSE IF gross > MaxGross THEN Part(clipped[s], MaxGross, gross) ELSE clipped[s]]

-----------------------------------------------------------------------------
(* A batch.                                                                *)

\* Signed parts of a lot that lead to the targets; less than a lot is left.
OrdersToTargets(fractions, equity, open) ==
  LET target(s) == IF s \in DOMAIN fractions THEN Part(fractions[s], equity * Fine, 1000 * open[s].open) ELSE 0
      now(s)    == IF s \in DOMAIN held THEN held[s] * Fine ELSE 0
  IN  [s \in {s \in DOMAIN open : Magnitude(target(s) - now(s)) >= Fine} |-> target(s) - now(s)]

\* Sales beyond zero are orders that open, and need something to borrow.
Shortable(s, order, fractions) ==
  order > 0 \/ ShortBorrow \/ s \notin DOMAIN fractions \/ fractions[s] >= 0

\* What the bar would fill of an order alone.
Preview(s, order, fractions) ==
  IF Shortable(s, order, fractions) THEN Smaller(Magnitude(order) \div Fine, group'[s].capacity) ELSE 0

\* Lots of every order at a fraction of it.
Scaled(wanted, num, den, cut) ==
  [s \in DOMAIN wanted |->
     (IF wanted[s] > 0 THEN 1 ELSE -1) * ((Magnitude(wanted[s]) * num * cut) \div (den * 1000 * Fine))]

HeldAfter(lots) ==
  [s \in DOMAIN held \cup DOMAIN lots |->
     (IF s \in DOMAIN held THEN held[s] ELSE 0) + (IF s \in DOMAIN lots THEN lots[s] ELSE 0)]
CashAfter(lots, prices) ==
  cash - Total([s \in DOMAIN lots |-> lots[s] * prices[s] + Magnitude(lots[s]) * LotCost])
Worth(position, prices) == [s \in DOMAIN position |-> position[s] * prices[s]]

\* _projected_risk_is_valid.
WithinLimits(position, money, prices, users) ==
  LET worth  == Worth(position, prices)
      equity == money + Total(worth)
  IN  /\ equity > 0 /\ money >= 0
      /\ 1000 * Gross(worth) <= MaxGross * equity
      /\ 1000 * Magnitude(Total(worth)) <= MaxNet * equity
      /\ \A s \in DOMAIN worth : 1000 * Magnitude(worth[s]) <= MaxAsset * equity
      /\ \A by \in {k[1] : k \in users} :
           1000 * Gross([s \in {s \in DOMAIN worth : <<by, s>> \in users} |-> worth[s]])
             <= MaxStrategy * equity

\* _execute_atomic_batch: all legs at the least fraction that one of them can be filled at,
\* cut further until the limits hold; not at all if a leg is then less than a lot.
AtomicBatch(wanted, fractions, prices, users) ==
  LET part(s) == [num |-> Preview(s, wanted[s], fractions) * Fine, den |-> Magnitude(wanted[s])]
      least   == CHOOSE s \in DOMAIN wanted :
                   \A z \in DOMAIN wanted : part(s).num * part(z).den <= part(z).num * part(s).den
      at(k)   == Scaled(wanted, part(least).num, part(least).den, Cuts[k])
      whole   == {k \in DOMAIN Cuts : \A s \in DOMAIN wanted : at(k)[s] # 0}
      valid   == {k \in whole : WithinLimits(HeldAfter(at(k)), CashAfter(at(k), prices), prices, users)}
      none    == [s \in DOMAIN wanted |-> 0]
  IN  IF DOMAIN wanted = {} THEN [lots |-> <<>>, reasons |-> {}]
      ELSE IF part(least).num = 0 THEN [lots |-> none, reasons |-> {"not_executable"}]
      ELSE IF valid = {} THEN [lots |-> none, reasons |-> {"projected_risk_limit"}]
      ELSE [lots    |-> at(Min(valid)),
            reasons |-> IF Min(valid) = 1 /\ part(least).num = part(least).den THEN {} ELSE {"rescaled"}]

-----------------------------------------------------------------------------

PortfolioInit ==
  /\ program \in Programs
  /\ consumed = {} /\ states = <<>>
  /\ hour = 0 /\ group = <<>> /\ phase = "bars"
  /\ cash = InitialCash /\ held = <<>> /\ marks = <<>>
  /\ batch = NoBatch /\ flattened = <<>> /\ refused = {}

\* The opening of a group: decisions, targets, orders, and their batch.
OpenGroup ==
  /\ phase = "bars" /\ hour < MaxBars
  /\ \E open \in Openings :
       LET due    == Due(hour + 1, DOMAIN open)
           prices == [s \in DOMAIN marks \cup DOMAIN open |->
                        IF s \in DOMAIN open THEN open[s].open ELSE marks[s]]
           equity == cash + Total(Worth(held, prices))
       IN  /\ group' = open
           /\ consumed' = consumed \cup due
           /\ states' = TakenOver(due)
           /\ \E fractions \in {TargetFractions(states')} :
                \E wanted \in {OrdersToTargets(fractions, equity, open)} :
                  \E result \in {AtomicBatch(wanted, fractions, prices, DOMAIN states')} :
                    /\ batch' = [wanted |-> wanted, filled |-> result.lots, before |-> held]
                    /\ refused' = result.reasons
                    /\ held' = HeldAfter(result.lots)
                    /\ cash' = CashAfter(result.lots, prices)
  /\ hour' = hour + 1 /\ phase' = "open" /\ flattened' = <<>>
  /\ UNCHANGED <<program, marks>>

\* What the opening has used of the capacity of a bar.
UsedAtOpen(s) == IF s \in DOMAIN batch.filled THEN Magnitude(batch.filled[s]) ELSE 0

\* Mutant of LeftOfBar: the closing has the whole bar again.
LeftOfBarTwice(s) == group[s].capacity

LeftOfBar(s) == group[s].capacity - UsedAtOpen(s)

\* Every symbol whose session closes, as far as its bar goes.
SessionLots ==
  [s \in {s \in DOMAIN group \cap DOMAIN held : group[s].session /\ held[s] # 0} |->
     (IF held[s] > 0 THEN -1 ELSE 1) * Smaller(Magnitude(held[s]), LeftOfBar(s))]

\* The closing of the group: marks, carry, and the end of sessions, all or none.
CloseGroup ==
  /\ phase = "open"
  /\ marks' = [s \in DOMAIN marks \cup DOMAIN group |-> IF s \in DOMAIN group THEN group[s].close ELSE marks[s]]
  /\ \E carry \in {LotCost * Total([s \in DOMAIN held |-> IF held[s] < 0 THEN -held[s] ELSE 0])} :
       \E lots \in {SessionLots} :
         IF \/ \A s \in DOMAIN lots : lots[s] = 0
            \/ WithinLimits(HeldAfter(lots), CashAfter(lots, marks') - carry, marks', DOMAIN states)
         THEN /\ held' = HeldAfter(lots) /\ cash' = CashAfter(lots, marks') - carry
              /\ flattened' = lots
              /\ refused' = refused \cup {"session_left" : s \in {s \in DOMAIN lots : held'[s] # 0}}
         ELSE /\ cash' = cash - carry
              /\ refused' = refused \cup {"session_refused" : s \in DOMAIN lots}
              /\ UNCHANGED <<held, flattened>>
  /\ phase' = "bars"
  /\ UNCHANGED <<program, consumed, states, hour, group, batch>>

\* No more bars: decisions that never became due are reported.
EndOfBars ==
  /\ phase = "bars" /\ hour = MaxBars
  /\ phase' = "over"
  /\ refused' = {"no_actionable_bar" : d \in program \ consumed}
  /\ UNCHANGED <<program, consumed, states, hour, group, cash, held, marks, batch, flattened>>

PortfolioNext == OpenGroup \/ CloseGroup \/ EndOfBars
PortfolioSpec == PortfolioInit /\ [][PortfolioNext]_pvars

-----------------------------------------------------------------------------
(* Properties.                                                             *)

\* However late and however many at once decisions become due, the newest one that was
\* taken is what a strategy wants of a symbol.
NewestDecisionStands ==
  \A key \in DOMAIN states :
    \E d \in consumed : /\ key = <<d.by, d.symbol>> /\ states[key] = d.target
                       /\ \A e \in consumed : key = <<e.by, e.symbol>> => e.at <= d.at

\* The legs of a batch are filled in one proportion up to a lot, none without the others.
LegsGoTogether ==
  \A s, z \in DOMAIN batch.wanted :
    /\ Fine * Magnitude(batch.filled[s]) <= Magnitude(batch.wanted[s])
    /\ batch.filled[s] = 0 => batch.filled[z] = 0
    /\ Magnitude(batch.filled[s]) * Magnitude(batch.wanted[z])
         <= (Magnitude(batch.filled[z]) + 1) * Magnitude(batch.wanted[s])

\* Opening and closing of a bar together take no more than its capacity.
CapacityIsShared ==
  \A s \in DOMAIN flattened : UsedAtOpen(s) + Magnitude(flattened[s]) <= group[s].capacity

\* When everything is to be sold and every bar has room for it, the portfolio is flat
\* after the opening, unless that would cost more than it has.
FlatIsReached ==
  LET owned == {s \in DOMAIN batch.before : batch.before[s] # 0}
  IN  /\ phase = "open"
      /\ \A key \in DOMAIN states : states[key] = 0
      /\ \A s \in owned : s \in DOMAIN group /\ group[s].capacity >= Magnitude(batch.before[s])
      => \/ \A s \in DOMAIN held : held[s] = 0
         \/ CashAfter([s \in owned |-> -held[s]], [s \in owned |-> group[s].open]) <= 0

\* The portfolio follows its decisions, as one and with what the bars can take.
PortfolioFollows ==
  NewestDecisionStands /\ LegsGoTogether /\ CapacityIsShared /\ FlatIsReached
=============================================================================
