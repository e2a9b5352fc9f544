----------------------------- MODULE PaperStudy -----------------------------
(***************************************************************************)
(* The prospective paper study (src/research): the ledger whose every      *)
(* operation is one transaction over a journal, a state and two indexes    *)
(* (prospective.py), and the collector that feeds it quotes, signals and   *)
(* gaps, may be killed between any two of them and is started again        *)
(* (prospective_runtime.py).                                               *)
(*                                                                         *)
(* A study has one candidate per symbol.  A tick is the 30 seconds after   *)
(* which an entry expires and a silence counts as a gap; prices are what   *)
(* they make of an open position: a level reached, a quantity sold.        *)
(***************************************************************************)
EXTENDS Integers, FiniteSetsExt

CONSTANTS
  Symbols,     \* symbols, with one candidate each
  Signals,     \* bound: identities of the signals ever decided
  None,        \* no signal, no quote, no snapshot
  EndsAt,      \* manifest.ends_at; starts_at is 0
  MaxTime,     \* bound: the clock stops here
  MinuteTicks, \* ticks in a minute
  Lots,        \* quantity of an entry
  MaxCuts      \* bound: starts, stops and outages a collector records as gaps

MaximumGap      == 1   \* manifest.maximum_gap_seconds, in ticks
PendingLifetime == 1   \* manifest.pending_lifetime_seconds, in ticks

ASSUME StudyAssumption ==
  /\ None \notin Signals /\ None \notin Nat
  /\ EndsAt \in Nat \ {0} /\ MaxTime \in Nat /\ EndsAt <= MaxTime
  /\ MinuteTicks \in Nat \ {0} /\ Lots \in Nat \ {0} /\ MaxCuts \in Nat

Time      == 0..MaxTime
Minute(t) == t \div MinuteTicks

VARIABLES
  now,     \* the clock
  cuts,    \* starts, stops and outages so far
  up,      \* a collector runs and holds the writer lock
  book,    \* the committed ledger
  seen     \* history: the instants of the accepted quotes of a symbol

vars == <<now, cuts, up, book, seen>>

Position == [signal : Signals, entered : Time, quantity : 1..Lots,
             triggered : BOOLEAN, tainted : BOOLEAN]
Trade    == [signal : Signals, entered : Time, closed : Time, tainted : BOOLEAN]
Pending  == [signal : Signals, decided : Time]
Interval == [since : Time, at : Time]
Span     == [first : Nat, last : Nat]
Snapshot == [trades : [Symbols -> SUBSET Signals], covered : [Symbols -> SUBSET Nat]]

Book ==
  [last     : [Symbols -> Time \cup {None}],             \* state.last_quotes
   pending  : [Symbols -> Pending \cup {None}],
   position : [Symbols -> Position \cup {None}],
   decided  : SUBSET Signals,                            \* journal: accepted decisions
   filled   : SUBSET Signals,                            \* journal: entries
   canceled : SUBSET Signals,                            \* journal: cancellations
   trades   : [Symbols -> SUBSET Trade],                 \* journal: closed trades
   gaps     : [Symbols -> SUBSET Interval],              \* journal: gaps
   index    : [Symbols -> SUBSET Span],                  \* gap_intervals
   marks    : [Symbols -> SUBSET Nat],                   \* valuations
   fixed    : Snapshot \cup {None}]                      \* state.fixed_end

ASSUME NoneAssumption == None \notin Pending \cup Position \cup Snapshot

TypeOK ==
  /\ now \in Time /\ cuts \in 0..MaxCuts /\ up \in BOOLEAN
  /\ book \in Book
  /\ seen \in [Symbols -> SUBSET Time]

Nothing == [s \in Symbols |-> {}]
Nobody  == [s \in Symbols |-> None]

Init ==
  /\ now = 0 /\ cuts = 0 /\ up = FALSE
  /\ book = [last |-> Nobody, pending |-> Nobody, position |-> Nobody,
             decided |-> {}, filled |-> {}, canceled |-> {},
             trades |-> Nothing, gaps |-> Nothing, index |-> Nothing,
             marks |-> Nothing, fixed |-> None]
  /\ seen = Nothing

-----------------------------------------------------------------------------
(* The parts of a transaction: each maps a ledger to a ledger.             *)

Touching(spans, first, last) ==
  {v \in spans : v.first <= last + 1 /\ v.last >= first - 1}

\* Mutant of Coalesced: an interval that only touches the new one stays apart.
CoalescedOverlapping(spans, first, last) ==
  LET met == {v \in spans : v.first <= last /\ v.last >= first}
      lo  == Min({first} \cup {v.first : v \in met})
      hi  == Max({last} \cup {v.last : v \in met})
  IN  (spans \ {v \in spans : v.first <= hi /\ v.last >= lo})
        \cup {[first |-> lo, last |-> hi]}

\* _index_gap: the intervals that overlap or adjoin the new one become one with it.
Coalesced(spans, first, last) ==
  LET met == Touching(spans, first, last)
      lo  == Min({first} \cup {v.first : v \in met})
      hi  == Max({last} \cup {v.last : v \in met})
  IN  (spans \ Touching(spans, lo, hi)) \cup {[first |-> lo, last |-> hi]}

LastAt(b, s) == IF b.last[s] = None THEN 0 ELSE b.last[s]

\* Mutant of Gap: a pending entry lives through a gap.
GapKeepingEntries(b, at, since) ==
  [b EXCEPT
    !.position = [s \in Symbols |->
      IF s \in DOMAIN since /\ b.position[s] # None
      THEN [b.position[s] EXCEPT !.tainted = TRUE] ELSE b.position[s]],
    !.canceled = @ \cup {b.pending[s].signal : s \in {r \in DOMAIN since : b.pending[r] # None}},
    !.gaps = [s \in Symbols |->
      IF s \in DOMAIN since THEN @[s] \cup {[since |-> since[s], at |-> at]} ELSE @[s]],
    !.index = [s \in Symbols |->
      IF s \in DOMAIN since /\ Minute(since[s]) <= Minute(at)
      THEN Coalesced(@[s], Minute(since[s]), Minute(at)) ELSE @[s]]]

\* _gap, for the symbols in the domain of since: entries are canceled, positions
\* tainted, the gap journalled and indexed.
Gap(b, at, since) ==
  [b EXCEPT
    !.pending = [s \in Symbols |-> IF s \in DOMAIN since THEN None ELSE @[s]],
    !.position = [s \in Symbols |->
      IF s \in DOMAIN since /\ b.position[s] # None
      THEN [b.position[s] EXCEPT !.tainted = TRUE] ELSE b.position[s]],
    !.canceled = @ \cup {b.pending[s].signal : s \in {r \in DOMAIN since : b.pending[r] # None}},
    !.gaps = [s \in Symbols |->
      IF s \in DOMAIN since THEN @[s] \cup {[since |-> since[s], at |-> at]} ELSE @[s]],
    !.index = [s \in Symbols |->
      IF s \in DOMAIN since /\ Minute(since[s]) <= Minute(at)
      THEN Coalesced(@[s], Minute(since[s]), Minute(at)) ELSE @[s]]]

\* Minutes before until that were valued and are in no gap.
Coverage(b, s, until) ==
  {m \in b.marks[s] : m < Minute(until)} \ UNION {v.first..v.last : v \in b.index[s]}

\* Mutant of FreezeEnd: the silence before the end is not recorded.
FreezeEndBlind(b) ==
  IF b.fixed # None THEN b
  ELSE [b EXCEPT !.fixed =
         [trades |-> [s \in Symbols |-> {t.signal : t \in b.trades[s]}],
          covered |-> [s \in Symbols |-> Coverage(b, s, EndsAt)]]]

\* _freeze_end: the one cutoff of the study.
FreezeEnd(b) ==
  IF b.fixed # None THEN b
  ELSE LET dark == {s \in Symbols : EndsAt - LastAt(b, s) > MaximumGap}
           c    == Gap(b, EndsAt, [s \in dark |-> LastAt(b, s)])
       IN  [c EXCEPT !.fixed =
              [trades |-> [s \in Symbols |-> {t.signal : t \in c.trades[s]}],
               covered |-> [s \in Symbols |-> Coverage(c, s, EndsAt)]]]

\* What every transaction begins with: the first one after the end freezes it.
Cutoff(b, at) == IF at > EndsAt THEN FreezeEnd(b) ELSE b

\* record_gap: since the oldest of the newest quotes, for every symbol.
Interrupted(b, at) ==
  LET times == {b.last[s] : s \in {r \in Symbols : b.last[r] # None}}
      since == IF times = {} THEN 0 ELSE Min(times)
  IN  Gap(Cutoff(b, at), at, [s \in Symbols |-> since])

Expired(b, s, at) ==
  b.pending[s] # None /\ (at > b.pending[s].decided + PendingLifetime \/ at >= EndsAt)

CancelExpired(b, s, at) ==
  IF Expired(b, s, at)
  THEN [b EXCEPT !.pending[s] = None, !.canceled = @ \cup {b.pending[s].signal}] ELSE b

\* _enter: the pending entry becomes a position.
Enter(b, s, at) ==
  [b EXCEPT !.filled = @ \cup {b.pending[s].signal},
            !.position[s] = [signal |-> b.pending[s].signal, entered |-> at,
                             quantity |-> Lots, triggered |-> FALSE, tainted |-> FALSE],
            !.pending[s] = None]

\* _exit: what the displayed size allows is sold; nothing left closes the trade.
Exit(b, s, at, sold) ==
  LET p == b.position[s]
  IN  IF sold = p.quantity
      THEN [b EXCEPT !.position[s] = None,
                     !.trades[s] = @ \cup {[signal |-> p.signal, entered |-> p.entered,
                                            closed |-> at, tainted |-> p.tainted]}]
      ELSE [b EXCEPT !.position[s].quantity = @ - sold, !.position[s].triggered = TRUE]

Marked(b, s, at) ==
  IF at <= EndsAt THEN [b EXCEPT !.marks[s] = @ \cup {Minute(at)}] ELSE b

-----------------------------------------------------------------------------
(* The collector and its ledger.                                           *)

Tick ==
  /\ now < MaxTime
  /\ now' = now + 1
  /\ UNCHANGED <<cuts, up, book, seen>>

Cut == cuts < MaxCuts /\ cuts' = cuts + 1

\* The ledger is opened, if it is whole, and the time nobody looked is a gap.
Start ==
  /\ ~up /\ Cut
  /\ up' = TRUE
  /\ book' = Interrupted(book, now)
  /\ UNCHANGED <<now, seen>>

\* Killed: nothing is written.
Crash ==
  /\ up /\ up' = FALSE
  /\ UNCHANGED <<now, cuts, book, seen>>

\* The collector stops, or fails, and records that observation ends here.
Stop ==
  /\ up /\ Cut /\ up' = FALSE
  /\ book' = IF now >= EndsAt THEN FreezeEnd(Interrupted(book, now))
             ELSE Interrupted(book, now)
  /\ UNCHANGED <<now, seen>>

\* The feed stalls or reconnects.
FeedGap ==
  /\ up /\ Cut
  /\ book' = Interrupted(book, now)
  /\ UNCHANGED <<now, up, seen>>

\* The heartbeat's summary.
Summary ==
  /\ up /\ now >= EndsAt
  /\ book' = FreezeEnd(book)
  /\ UNCHANGED <<now, cuts, up, seen>>

\* A closed hour gives a signal; a busy account journals it without accepting it.
\* The bar ended within the last 30 seconds and inside the study.
RecordSignal(s) ==
  /\ up /\ now < EndsAt /\ now > 0
  /\ book.pending[s] = None /\ book.position[s] = None
  /\ \E id \in Signals \ book.decided :
       book' = [book EXCEPT !.decided = @ \cup {id},
                            !.pending[s] = [signal |-> id, decided |-> now]]
  /\ UNCHANGED <<now, cuts, up, seen>>

\* A quote too old or from the future: only the clock is told.
RejectedQuote ==
  /\ up
  /\ book' = Cutoff(book, now)
  /\ UNCHANGED <<now, cuts, up, seen>>

\* The silence before a fresh quote, and the quote.
Observed(b, s) ==
  [IF now - LastAt(b, s) > MaximumGap
   THEN Gap(b, now, [r \in {s} |-> LastAt(b, s)]) ELSE b
   EXCEPT !.last[s] = now]

\* on_quote.  Whether an entry's price, size and latency allow the fill, whether a
\* level is reached, and how much the bid shows are choices.
OnQuote(s) ==
  /\ up
  /\ LET seenIt == CancelExpired(Observed(Cutoff(book, now), s), s, now)
     IN  \/ /\ seenIt.pending[s] # None
            /\ \E fill \in BOOLEAN :
                 book' = Marked(IF fill THEN Enter(seenIt, s, now) ELSE seenIt, s, now)
         \/ /\ seenIt.pending[s] = None /\ seenIt.position[s] = None
            /\ book' = Marked(seenIt, s, now)
         \/ /\ seenIt.position[s] # None
            /\ \E triggered \in BOOLEAN, sold \in 0..Lots :
                 /\ seenIt.position[s].triggered \/ now >= EndsAt => triggered
                 /\ sold <= seenIt.position[s].quantity
                 /\ ~triggered => sold = 0
                 /\ book' = Marked(IF triggered THEN Exit(seenIt, s, now, sold)
                                   ELSE seenIt, s, now)
  /\ seen' = [seen EXCEPT ![s] = @ \cup {now}]
  /\ UNCHANGED <<now, cuts, up>>

Next ==
  \/ Tick \/ Start \/ Crash \/ Stop \/ FeedGap \/ Summary \/ RejectedQuote
  \/ \E s \in Symbols : RecordSignal(s) \/ OnQuote(s)

Spec == Init /\ [][Next]_vars

-----------------------------------------------------------------------------
(* What the study promises.                                                *)

\* The index of gaps is what the journal's gaps add up to: it covers their minutes,
\* in intervals that neither overlap nor adjoin.  A ledger where it is not is refused
\* when it is opened (verify_integrity).
GapIndexIsUnion ==
  \A s \in Symbols :
    /\ UNION {v.first..v.last : v \in book.index[s]}
         = UNION {Minute(g.since)..Minute(g.at) : g \in book.gaps[s]}
    /\ \A v, w \in book.index[s] : v # w => v.last + 1 < w.first \/ w.last + 1 < v.first

\* Nobody saw the symbol between two instants that are further apart than a gap.
Silent(s, t, u) == u - t > MaximumGap /\ \A r \in seen[s] : r <= t \/ u <= r

\* The fixed evidence is what was seen: each covered minute was observed, with no silence
\* that reaches into it, whoever was down, stalled or rejected quotes meanwhile; each
\* trade closed before the end is in it, and none closed after.
FixedIsObserved ==
  book.fixed # None =>
    \A s \in Symbols :
      /\ \A m \in book.fixed.covered[s] :
           /\ \E t \in seen[s] : Minute(t) = m
           /\ \A t, u \in 0..EndsAt : Silent(s, t, u) => m < Minute(t) \/ Minute(u) < m
      /\ \A t \in book.trades[s] :
           /\ t.closed < EndsAt => t.signal \in book.fixed.trades[s]
           /\ t.closed > EndsAt => t.signal \notin book.fixed.trades[s]

\* A trade that is not tainted was watched from its entry to its close.
UntaintedIsWatched ==
  \A s \in Symbols : \A trade \in book.trades[s] :
    ~trade.tainted => \A t, u \in trade.entered..trade.closed : ~Silent(s, t, u)

\* What the study stands on, its fixed evidence and its untainted trades, was watched
\* throughout.
EvidenceIsWatched == FixedIsObserved /\ UntaintedIsWatched

\* An accepted decision is pending, canceled or filled, and a fill is open or closed:
\* exactly one of them, over every gap, restart and cutoff.
SignalsAccounted ==
  LET waiting == {book.pending[s].signal : s \in {r \in Symbols : book.pending[r] # None}}
      open    == {book.position[s].signal : s \in {r \in Symbols : book.position[r] # None}}
      closed  == UNION {{t.signal : t \in book.trades[s]} : s \in Symbols}
  IN  /\ book.decided = waiting \cup book.canceled \cup book.filled
      /\ waiting \cap book.canceled = {} /\ waiting \cap book.filled = {}
      /\ book.canceled \cap book.filled = {}
      /\ book.filled = open \cup closed /\ open \cap closed = {}
=============================================================================
