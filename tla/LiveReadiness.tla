--------------------------- MODULE LiveReadiness ---------------------------
(***************************************************************************)
(* The readiness of one cohort for the live monitor: the forward record    *)
(* that closes period by period (trading/forward.py), the receipt that a   *)
(* qualification issues from it (trading/live_monitor_readiness.py), the   *)
(* monitor that loads the receipt when it starts (live_monitor/evidence.py *)
(* and command.py), and the drift that withdraws it (live_monitor/engine.py*)
(* and readiness.py): every scope of a monitor has a drift latch of its    *)
(* own, in memory, and all share the receipt.  Every transaction is a step *)
(* of its own, so is what a process read before it.                        *)
(*                                                                         *)
(* A hash stands for what it covers: the evidence hash is the record.      *)
(***************************************************************************)
EXTENDS Integers, Sequences, FiniteSets

CONSTANTS
  Periods,      \* forward periods
  Closers,      \* callers of close_selection_period
  Qualifiers,   \* evaluations under way
  Scopes,       \* (provider, feed, symbol, interval) the monitor decides for
  Idle,         \* no call
  MinPeriods,   \* minimum_equity_sessions, or minimum_crypto_days
  Life,         \* receipt_hours
  MaxTime,      \* bound: the clock stops here
  MaxReceipts,  \* bound: receipts ever issued
  MaxAlerts     \* bound: alerts ever made for a scope

ASSUME ReadinessAssumption ==
  /\ IsFiniteSet(Periods) /\ Idle \notin Scopes
  /\ MinPeriods \in Nat \ {0} /\ Life \in Nat \ {0}
  /\ MaxTime \in Nat /\ MaxReceipts \in Nat /\ MaxAlerts \in Nat

VARIABLES
  now,       \* the clock
  forward,   \* forward_evidence_daily: what a period closed with, or "open"
  closing,   \* what a caller that found its period open is about to insert
  told,      \* history: what callers were told a period closed with
  asked,     \* an evaluation that found every gate passed, before its transaction
  receipts,  \* readiness_receipts, oldest row first
  monitor,   \* the monitor's process
  drift,     \* the scopes whose drift monitor is latched
  confirming,\* the scope whose decision is about to withdraw the receipt
  alerts,    \* history: alerts made for each scope
  drifted    \* history: scopes whose drift was confirmed since the last receipt was
             \* issued, and whether the receipt was withdrawn for it

record == <<forward, closing, told>>
engine == <<monitor, drift, confirming, alerts>>
vars   == <<now, record, asked, receipts, engine, drifted>>

Time    == 0..MaxTime
Results == {"gain", "loss", "unavailable"}  \* paper_net_return of a complete period
Record  == [Periods -> Results \cup {"open"}]
Receipt == [evidence : Record, issued : Time, expires : Nat,
            state : {"active", "superseded", "drifted"}]

TypeOK ==
  /\ now \in Time
  /\ forward \in Record
  /\ closing \in [Closers -> {Idle} \cup (Periods \X Results)]
  /\ told \in [Periods -> SUBSET Results]
  /\ asked \in [Qualifiers -> {Idle} \cup [evidence : Record, at : Time]]
  /\ receipts \in Seq(Receipt) /\ Len(receipts) <= MaxReceipts
  /\ \A i \in DOMAIN receipts : receipts[i].expires = receipts[i].issued + Life
  /\ monitor \in {"down", "starting", "up"} /\ drift \in SUBSET Scopes
  /\ confirming \in drift \cup {Idle}
  /\ alerts \in [Scopes -> 0..MaxAlerts]
  /\ drifted \in [Scopes -> {"no", "latched", "withdrawn"}]
  /\ drift # {} => monitor = "up"

Init ==
  /\ now = 0
  /\ forward = [p \in Periods |-> "open"] /\ closing = [c \in Closers |-> Idle]
  /\ told = [p \in Periods |-> {}]
  /\ asked = [q \in Qualifiers |-> Idle] /\ receipts = <<>>
  /\ monitor = "down" /\ drift = {} /\ confirming = Idle
  /\ alerts = [s \in Scopes |-> 0] /\ drifted = [s \in Scopes |-> "no"]

Tick ==
  /\ now < MaxTime
  /\ now' = now + 1
  /\ UNCHANGED <<record, asked, receipts, engine, drifted>>

-----------------------------------------------------------------------------
(* The forward record.                                                     *)

\* close_selection_period finds no row.  One that finds the same row returns it,
\* one that finds another raises.
FindOpen(c, p, result) ==
  /\ closing[c] = Idle /\ forward[p] = "open"
  /\ closing' = [closing EXCEPT ![c] = <<p, result>>]
  /\ UNCHANGED <<now, forward, told, asked, receipts, engine, drifted>>

\* The insert; the second one of a period breaks the unique key and raises.
ClosePeriod(c) ==
  /\ closing[c] # Idle
  /\ closing' = [closing EXCEPT ![c] = Idle]
  /\ LET p == closing[c][1]
         result == closing[c][2]
     IN  IF forward[p] = "open"
         THEN /\ forward' = [forward EXCEPT ![p] = result]
              /\ told' = [told EXCEPT ![p] = @ \cup {result}]
         ELSE UNCHANGED <<forward, told>>
  /\ UNCHANGED <<now, asked, receipts, engine, drifted>>

-----------------------------------------------------------------------------
(* Qualification.                                                          *)

Closed(f, results) == {p \in Periods : f[p] \in results}

\* Every gate passes: enough periods, all of them complete, and a positive edge.
Qualified(f) ==
  /\ Cardinality(Closed(f, Results)) >= MinPeriods
  /\ Closed(f, {"unavailable"}) = {}
  /\ Cardinality(Closed(f, {"gain"})) > Cardinality(Closed(f, {"loss"}))

Instants == {asked[q].at : q \in {r \in Qualifiers : asked[r] # Idle}}
              \cup {receipts[i].issued : i \in DOMAIN receipts}

\* The record is read and evaluated; one that is locked changes nothing.  No two
\* evaluations have the same instant.
Evaluate(q) ==
  /\ asked[q] = Idle /\ now \notin Instants /\ Qualified(forward)
  /\ asked' = [asked EXCEPT ![q] = [evidence |-> forward, at |-> now]]
  /\ UNCHANGED <<now, record, receipts, engine, drifted>>

Withdrawn(rows, reason) ==
  [i \in DOMAIN rows |->
    IF rows[i].state = "active" THEN [rows[i] EXCEPT !.state = reason] ELSE rows[i]]

NewReceipt(evaluation) ==
  [evidence |-> evaluation.evidence, issued |-> evaluation.at,
   expires |-> evaluation.at + Life, state |-> "active"]

\* One transaction: the active receipt is superseded and the new one inserted.
Issue(q) ==
  /\ asked[q] # Idle /\ Len(receipts) < MaxReceipts
  /\ receipts' = Append(Withdrawn(receipts, "superseded"), NewReceipt(asked[q]))
  /\ asked' = [asked EXCEPT ![q] = Idle]
  /\ drifted' = [s \in Scopes |-> "no"]
  /\ UNCHANGED <<now, record, engine>>

-----------------------------------------------------------------------------
(* The monitor.                                                            *)

ValidAt(r, t) == r.issued <= t /\ t < r.expires

\* order by issued_at desc limit 1
Newest == {i \in DOMAIN receipts : \A j \in DOMAIN receipts :
             receipts[j].issued <= receipts[i].issued}

\* Mutant of Loadable: the receipt is not compared with the record of today.
LoadableUnbound ==
  \E i \in Newest : receipts[i].state = "active" /\ ValidAt(receipts[i], now)

Loadable ==
  \E i \in Newest :
    /\ receipts[i].state = "active" /\ ValidAt(receipts[i], now)
    /\ receipts[i].evidence = forward

\* The monitor starts only with a receipt, then waits for the providers' metadata.
Load ==
  /\ monitor = "down" /\ Loadable
  /\ monitor' = "starting"
  /\ UNCHANGED <<now, record, asked, receipts, drift, confirming, alerts, drifted>>

Begin ==
  /\ monitor = "starting"
  /\ monitor' = "up"
  /\ UNCHANGED <<now, record, asked, receipts, drift, confirming, alerts, drifted>>

\* The process ends in any way, and its drift monitors with it: stopped, killed, or
\* because a step raised, the withdrawal of a receipt among them.
End ==
  /\ monitor # "down"
  /\ monitor' = "down" /\ drift' = {} /\ confirming' = Idle
  /\ UNCHANGED <<now, record, asked, receipts, alerts, drifted>>

\* A decision that nothing vetoes; the receipt is not looked at again, so that scopes
\* without drift go on when it has been withdrawn for another.
Alert(s) ==
  /\ monitor = "up" /\ confirming = Idle /\ s \notin drift /\ alerts[s] < MaxAlerts
  /\ alerts' = [alerts EXCEPT ![s] = @ + 1]
  /\ UNCHANGED <<now, record, asked, receipts, monitor, drift, confirming, drifted>>

\* A decision whose drift monitor confirms drift, latched from now on, with drift
\* evidence of its own.  One with the evidence of an earlier decision changes nothing.
ConfirmDrift(s) ==
  /\ monitor = "up" /\ confirming = Idle
  /\ drift' = drift \cup {s} /\ confirming' = s
  /\ drifted' = [drifted EXCEPT ![s] = IF @ = "no" THEN "latched" ELSE @]
  /\ UNCHANGED <<now, record, asked, receipts, monitor, alerts>>

\* Mutant of WithdrawReceipt: the engine has no invalidator.
WithdrawNothing ==
  /\ confirming # Idle
  /\ confirming' = Idle
  /\ drifted' = [drifted EXCEPT ![confirming] = "withdrawn"]
  /\ UNCHANGED <<now, record, asked, receipts, monitor, drift, alerts>>

\* Its transaction: the selection's active receipt, if it has one, is withdrawn.
WithdrawReceipt ==
  /\ confirming # Idle
  /\ receipts' = Withdrawn(receipts, "drifted")
  /\ confirming' = Idle
  /\ drifted' = [drifted EXCEPT ![confirming] = "withdrawn"]
  /\ UNCHANGED <<now, record, asked, monitor, drift, alerts>>

-----------------------------------------------------------------------------
Next ==
  \/ Tick \/ Load \/ Begin \/ End \/ WithdrawReceipt
  \/ \E s \in Scopes : Alert(s) \/ ConfirmDrift(s)
  \/ \E c \in Closers : ClosePeriod(c) \/ \E p \in Periods, r \in Results : FindOpen(c, p, r)
  \/ \E q \in Qualifiers : Evaluate(q) \/ Issue(q)

Spec == Init /\ [][Next]_vars

-----------------------------------------------------------------------------
(* What readiness promises.                                                *)

\* A cohort has one active receipt at most, however often it qualifies: drift
\* looks for one row and raises when it finds two (readiness.py:33).
OneActive ==
  \A i, j \in DOMAIN receipts :
    receipts[i].state = "active" /\ receipts[j].state = "active" => i = j

\* Two callers that close one period at the same time are told the same, and it is
\* what the record keeps.
PeriodClosesOnce == \A p \in Periods : told[p] \subseteq {forward[p]} \ {"open"}

\* A monitor is started only on a record that passes every gate at that moment, though
\* nobody evaluates the gates then and periods may have closed since somebody did.
StartIsQualified ==
  [][monitor = "down" /\ monitor' = "starting" => Qualified(forward)]_vars

\* Once a receipt is withdrawn for the drift of a scope, and until one is issued again,
\* the scope makes no alert, in the process that saw the drift or in any other, and no
\* process starts at all.  (The other scopes of the process that saw it may go on; and a
\* process that ends before it withdraws the receipt leaves the next one free to start.)
DriftStopsAlerts ==
  [][\A s \in Scopes : drifted[s] = "withdrawn" =>
       alerts'[s] = alerts[s] /\ (monitor = "down" => monitor' = "down")]_vars
=============================================================================
