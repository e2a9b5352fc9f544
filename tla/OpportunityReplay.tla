-------------------------- MODULE OpportunityReplay --------------------------
(***************************************************************************)
(* The same rule is scored twice over the same hourly bars: at once, by    *)
(* the audit that ranks holding periods (backtest/opportunities.py,        *)
(* research/holding_period_search.py), and bar by bar, by the replay that  *)
(* holds two cash accounts (research/historical_replay.py and              *)
(* historical_replay_account.py).  Both decide at the close of a bar,      *)
(* enter at the opening of the next and leave at a stop, at the rule's     *)
(* horizon or at a target; they differ at gaps and in what an entry costs. *)
(*                                                                         *)
(* Prices are ticks.  What one side of a trade costs is a number of ticks; *)
(* hashes, the journal and the marks of the accounts are left out.         *)
(***************************************************************************)
EXTENDS Integers, FiniteSetsExt, SequencesExt

CONSTANTS
  StopR, TargetR,  \* distances of the barriers, in multiples of the risk (ATR)
  MaximumBars,     \* maximum_bars: the horizon
  MinTargetBps,    \* MINIMUM_TARGET_DISTANCE_BPS
  RiskBudget,      \* what a trade may lose, 25 dollars in the code
  MinNotional,     \* of an entry, 5 dollars in the code
  InitialCash,
  Bars,            \* what may happen in an hour
  Risks,           \* ATR of a bar after which the strategy is long; 0 when it is not,
                   \* or when its segment is too short for an ATR
  NumBars          \* bound: bars of the series

HourBar == [gap : BOOLEAN, open : Nat, high : Nat, low : Nat, close : Nat]

ASSUME ReplayAssumption ==
  /\ {StopR, TargetR, MaximumBars, InitialCash} \subseteq Nat \ {0}
  /\ {MinTargetBps, RiskBudget, MinNotional, NumBars} \cup Risks \subseteq Nat
  /\ Bars \subseteq HourBar

VARIABLES
  series,  \* the bars so far; gap: hours are missing before the bar
  books    \* the account of each multiplier of costs

Multipliers == {1, 2}

\* The scheduled costs round to nothing on the grid of prices, the doubled ones to a tick.
Cost(m) == m - 1

NoPosition == [decided |-> 0]

ReplayInit ==
  /\ series = <<>>
  /\ books = [m \in Multipliers |-> [pending |-> 0, position |-> NoPosition, cash |-> InitialCash,
                                     trades |-> {}, refused |-> {}]]

-----------------------------------------------------------------------------
(* What both ways share: the decisions.                                    *)

FarEnough(distance, price) == distance * 10000 >= MinTargetBps * price

\* _apply_long_eligibility: long, with a target that is worth the costs.
Eligible(bars, d) == bars[d].risk > 0 /\ FarEnough(TargetR * bars[d].risk, bars[d].close)

-----------------------------------------------------------------------------
(* All at once: the audit.                                                 *)

\* The bars after the decision that follow each other without a gap, up to the horizon.
Contiguous(bars, d) ==
  {j \in (d + 1)..Len(bars) : j <= d + MaximumBars /\ \A i \in (d + 1)..j : ~bars[i].gap}

Unscored(reason) == [scored |-> FALSE, reason |-> reason]

\* How a bar ends a long position: the stop counts before the horizon, and that before
\* the target.  ambiguous_stop_first is a stop.
ExitOf(bar, last, stop, target) ==
  IF bar.low <= stop THEN {<<"stop", IF bar.open < stop THEN bar.open ELSE stop>>}
  ELSE IF last THEN {<<"expiry", bar.close>>}
  ELSE IF bar.high >= target THEN {<<"target", target>>} ELSE {}

\* _candidate_outcome.
Outcome(bars, d) ==
  LET held     == Contiguous(bars, d)
      entry    == bars[d + 1].open
      stop     == entry - StopR * bars[d].risk
      target   == entry + TargetR * bars[d].risk
      exits(j) == ExitOf(bars[j], j = d + MaximumBars, stop, target)
      ending   == {j \in held : exits(j) # {}}
  IN  IF d = Len(bars) THEN Unscored("right_censored")
      ELSE IF held = {} THEN Unscored("gap_blocked")
      ELSE IF stop <= 0 THEN Unscored("invalid_risk")
      ELSE IF ending = {}
           THEN Unscored(IF \E j \in (d + 1)..Len(bars) : j <= d + MaximumBars /\ bars[j].gap
                         THEN "gap_truncated" ELSE "right_censored")
      ELSE LET e == Min(ending)
           IN  [scored |-> TRUE, exit |-> e, how |-> CHOOSE x \in exits(e) : TRUE]

\* audit_strategy_opportunities, of the decisions among wanted: one that is not scored
\* keeps nothing busy.
AuditStep(bars, wanted, state, d) ==
  LET o == Outcome(bars, d)
  IN  IF d \notin wanted \/ ~Eligible(bars, d) \/ d < state.busy \/ ~o.scored THEN state
      ELSE [busy |-> o.exit, rows |-> state.rows \cup {[decided |-> d, exit |-> o.exit, how |-> o.how]}]

Audit(bars, wanted) ==
  LET upTo[d \in 0..Len(bars)] ==
        IF d = 0 THEN [busy |-> 0, rows |-> {}] ELSE AuditStep(bars, wanted, upTo[d - 1], d)
  IN  upTo[Len(bars)].rows

-----------------------------------------------------------------------------
(* The four chronological folds of the search.                             *)

Boundary(bars, f) == (Len(bars) * f) \div 4

\* The decisions between the opening of a fold's first bar and that of the next fold's.
InFold(bars, f) ==
  {d \in 1..Boundary(bars, f) :
     /\ d = Boundary(bars, f - 1) => ~bars[d + 1].gap
     /\ d >= Boundary(bars, f - 1)
     /\ d = Boundary(bars, f) => f < 4 /\ bars[d + 1].gap}

\* Each fold is audited on the bars up to its end.
FoldRows(bars, f) == Audit(SubSeq(bars, 1, Boundary(bars, f)), InFold(bars, f))

-----------------------------------------------------------------------------
(* Bar by bar: an account of the replay.                                   *)

AtGap(account, bar) == IF bar.gap THEN [account EXCEPT !.pending = 0] ELSE account

\* A quarter of the cash, or what the stop may lose of the budget.
Quantity(account, entry, risk, m) ==
  Min({account.cash \div (4 * entry), RiskBudget \div (StopR * risk + Cost(m))})

Refuses(account, entry, risk, m) ==
  \/ ~FarEnough(TargetR * risk, entry)
  \/ entry - StopR * risk <= 0
  \/ Quantity(account, entry, risk, m) <= 0
  \/ Quantity(account, entry, risk, m) * entry < MinNotional

\* ReplayAccount.open.
AtOpen(account, bar, m) ==
  IF account.pending = 0 THEN account
  ELSE LET d        == account.pending
           risk     == series[d].risk
           entry    == bar.open + Cost(m)
           quantity == Quantity(account, entry, risk, m)
       IN  IF Refuses(account, entry, risk, m)
           THEN [account EXCEPT !.pending = 0, !.refused = @ \cup {d}]
           ELSE [account EXCEPT !.pending = 0, !.cash = @ - quantity * entry,
                             !.position = [decided |-> d, quantity |-> quantity,
                                           stop |-> entry - StopR * risk,
                                           target |-> entry + TargetR * risk]]

\* Mutant of Leaves: the target counts before the horizon.
LeavesAtTargetFirst(p, bar, j) ==
  CASE bar.gap -> {<<"gap_liquidation", bar.open>>}
    [] ~bar.gap /\ bar.low <= p.stop -> {<<"stop", Min({bar.open, p.stop})>>}
    [] ~bar.gap /\ bar.low > p.stop /\ bar.high >= p.target -> {<<"target", p.target>>}
    [] ~bar.gap /\ bar.low > p.stop /\ bar.high < p.target /\ j >= p.decided + MaximumBars -> {<<"expiry", bar.close>>}
    [] OTHER -> {}

\* Why and at which reference the account leaves position p with bar j.
Leaves(p, bar, j) ==
  CASE bar.gap -> {<<"gap_liquidation", bar.open>>}
    [] ~bar.gap /\ bar.low <= p.stop -> {<<"stop", Min({bar.open, p.stop})>>}
    [] ~bar.gap /\ bar.low > p.stop /\ j >= p.decided + MaximumBars -> {<<"expiry", bar.close>>}
    [] ~bar.gap /\ bar.low > p.stop /\ j < p.decided + MaximumBars /\ bar.high >= p.target ->
         {<<"target", p.target>>}
    [] OTHER -> {}

\* ReplayAccount.close, for bar j.
AtClose(account, bar, j, m) ==
  LET p == account.position
  IN  IF p = NoPosition THEN account
      ELSE IF Leaves(p, bar, j) = {} THEN account
      ELSE LET how == CHOOSE x \in Leaves(p, bar, j) : TRUE
           IN  [account EXCEPT !.position = NoPosition, !.cash = @ + p.quantity * (how[2] - Cost(m)),
                            !.trades = @ \cup {[decided |-> p.decided, exit |-> j, how |-> how]}]

\* ReplayAccount.decide: an account that holds or awaits a position is busy.
Decide(account, bars, j) ==
  IF ~Eligible(bars, j) \/ account.position # NoPosition \/ account.pending # 0 THEN account
  ELSE [account EXCEPT !.pending = j]

\* HistoricalReplay.push_bar: the whole bar, for both accounts.
PushBar(bar, risk) ==
  LET grown == Append(series, [open |-> bar.open, high |-> bar.high, low |-> bar.low,
                               close |-> bar.close, gap |-> bar.gap, risk |-> risk])
      j     == Len(grown)
  IN  /\ j <= NumBars
      /\ bar.gap => j > 1
      /\ series' = grown
      /\ books' = [m \in Multipliers |->
                     Decide(AtClose(AtOpen(AtGap(books[m], bar), bar, m), bar, j, m), grown, j)]

ReplayNext == \E bar \in Bars, risk \in Risks : PushBar(bar, risk)

replayvars == <<series, books>>

ReplaySpec == ReplayInit /\ [][ReplayNext]_replayvars

-----------------------------------------------------------------------------
(* Properties.                                                             *)

Tainted(m)  == {t \in books[m].trades : t.how[1] = "gap_liquidation"}
Finished(m) == books[m].trades \ Tainted(m)

\* Where nothing is lost to costs and no entry is refused, the causal account makes the
\* trades that the audit scores, bar for bar and tick for tick.  What the audit scores
\* beyond them was decided while the account held a position that a gap liquidated, or
\* that is not resolved yet.
AuditIsReplayed ==
  books[1].refused = {} =>
    LET scored == Audit(series, DOMAIN series)
    IN  /\ Finished(1) \subseteq scored
        /\ \A r \in scored \ Finished(1) :
             \/ \E t \in Tainted(1) : t.decided < r.decided /\ r.decided < t.exit
             \/ books[1].position # NoPosition /\ books[1].position.decided < r.decided

\* Dearer entries move both barriers up: with any costs a target is a target of the
\* audit that it reached no later, unless only costs lift the stop above nothing at all;
\* a stop of the audit has stopped the account by then.
DearerIsNoBetter ==
  \A m \in Multipliers : \A t \in books[m].trades :
    LET o == Outcome(series, t.decided)
    IN  /\ t.how[1] = "target" =>
             IF o.scored THEN o.how[1] = "target" /\ o.exit <= t.exit ELSE o.reason = "invalid_risk"
        /\ o.scored /\ o.how[1] = "stop" => t.how[1] = "stop" /\ t.exit <= o.exit
        /\ t.how[1] = "expiry" => t.exit = t.decided + MaximumBars

\* A fold scores a decision as the whole search does, and no decision twice.
FoldsAgree ==
  Len(series) >= 4 =>
    \A f \in 1..4 : \A r \in FoldRows(series, f) :
      /\ LET o == Outcome(series, r.decided) IN o.scored /\ o.exit = r.exit /\ o.how = r.how
      /\ \A g \in (f + 1)..4 : r.decided \notin {q.decided : q \in FoldRows(series, g)}

\* What the search ranks is what a causal account would have done, as far as the two
\* can agree.
SearchIsReplayed == AuditIsReplayed /\ DearerIsNoBetter /\ FoldsAgree
=============================================================================
