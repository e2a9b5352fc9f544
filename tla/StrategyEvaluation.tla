------------------------- MODULE StrategyEvaluation -------------------------
(***************************************************************************)
(* The strategy pipeline of one provider, feed, symbol and interval        *)
(* (strategies/pipeline.py): threads of one process ingest bars and        *)
(* evaluate cohorts of strategies over them.  An ingest declares a request *)
(* for coverage, appends what its provider returns and finalizes the       *)
(* request; an evaluation captures the bars that requests vouch for,       *)
(* claims a run per strategy under locks, computes, and publishes only if  *)
(* the bars are still those.  Every transaction and every locked section   *)
(* is a step, so is what a thread read outside of one.                     *)
(*                                                                         *)
(* History is cut into slots; a revision number stands for the payloads of *)
(* a slot's bars, and what a dataset hash covers stands for the hash.      *)
(***************************************************************************)
EXTENDS Integers, Sequences, FiniteSetsExt

CONSTANTS
  Workers,      \* threads
  Free,         \* no thread
  Slots,        \* the slots of the history are 1..Slots
  Requested,    \* the ranges that ingests ask for
  Scopes,       \* sets of strategies, numbered in the order of their locks
  Attempts,     \* rounds of the loop over source attempts
  Tries,        \* rounds of the loop over reservations
  MaxRevision,  \* bound: revisions of a slot's bars
  MaxRequests,  \* bound: requests ever reserved
  MaxEvaluations,\* bound: evaluations ever called
  MaxFaults     \* bound: failed transactions and crashes

ASSUME EvaluationAssumption ==
  /\ Free \notin Workers
  /\ Slots \in Nat \ {0}
  /\ Requested \subseteq {a..b : a \in 1..Slots, b \in 1..Slots} \ {{}}
  /\ \A scope \in Scopes : scope # {} /\ scope \subseteq Nat /\ IsFiniteSet(scope)
  /\ {Attempts, Tries, MaxRevision} \subseteq Nat \ {0}
  /\ {MaxRequests, MaxEvaluations, MaxFaults} \subseteq Nat

VARIABLES
  bars,      \* market_bars: the revisions of each slot
  requests,  \* dataset_coverage_requests in the order of requested_at
  runs,      \* strategy_runs: one entry per cohort, one row per strategy
  source,    \* the thread in the locked section of the bars
  held,      \* the reservation locks each thread holds
  calls,     \* what each thread is doing
  evaluations,\* how many evaluations there were
  faults     \* how many faults there were

database == <<bars, requests, runs>>
vars     == <<database, source, held, calls, evaluations, faults>>

Ranges   == {a..b : a \in 1..Slots, b \in 1..Slots} \ {{}}
Datasets == UNION {[range -> 0..MaxRevision] : range \in Ranges}
NoData   == <<>>

Request == [range : Ranges, seen : Datasets,
            status : {"running", "complete", "incomplete", "unavailable"}]
Rows    == {"absent", "running", "evaluated", "unavailable", "failed"}
Run     == [scope : Scopes, data : Datasets, gen : Nat, at : Nat,
            status : UNION {[scope -> Rows] : scope \in Scopes}]

\* An evaluation that returned leaves its outcome; "idle" is a thread that has not
\* called yet, or whose last call was an ingest.
Rest     == {"idle", "completed", "reused", "unavailable", "raised"}
Ingests  == {"gaps", "fetch", "manifest", "finalize"}
Evaluates == {"capture", "lock", "plan", "insert", "engines", "check", "commit",
              "reuse", "failing"}
Call == [pc : Rest \cup Ingests \cup Evaluates,
         scope : Scopes \cup {{}}, force : BOOLEAN, attempt : 0..(Attempts - 1),
         tries : 0..(Tries - 1), data : Datasets \cup {NoData},
         gen : Nat, at : Nat,    \* of the planned run
         item : Nat,             \* index of the request, or of the run
         left : SUBSET Nat,      \* slots to fetch, or strategies to mark failed
         verdict : {"none", "complete", "incomplete", "unavailable", "stale", "error"}]

TypeOK ==
  /\ bars \in [1..Slots -> 0..MaxRevision]
  /\ requests \in Seq(Request) /\ Len(requests) <= MaxRequests
  /\ runs \in Seq(Run)
  /\ \A i \in DOMAIN runs : DOMAIN runs[i].status = runs[i].scope
  /\ source \in Workers \cup {Free}
  /\ held \in [Workers -> SUBSET (Datasets \X Nat)]
  /\ calls \in [Workers -> Call]
  /\ evaluations \in 0..MaxEvaluations /\ faults \in 0..MaxFaults

Idle == [pc |-> "idle", scope |-> {}, force |-> FALSE, attempt |-> 0, tries |-> 0,
         data |-> NoData, gen |-> 0, at |-> 0, item |-> 0, left |-> {}, verdict |-> "none"]

Init ==
  /\ bars = [s \in 1..Slots |-> 0]
  /\ requests = <<>> /\ runs = <<>>
  /\ source = Free /\ held = [w \in Workers |-> {}]
  /\ calls = [w \in Workers |-> Idle]
  /\ evaluations = 0 /\ faults = 0

At(w, pc)          == calls[w].pc = pc
Set(w, call)       == calls' = [calls EXCEPT ![w] = call]
Goto(w, pc)        == Set(w, [calls[w] EXCEPT !.pc = pc])
Return(w, outcome) == Set(w, [Idle EXCEPT !.pc = outcome])
Fault              == faults < MaxFaults /\ faults' = faults + 1

-----------------------------------------------------------------------------
(* What the tables say.                                                    *)

\* BarRepository.manifest: the hash of a range, and whether it has gaps.
Data(range)    == [s \in range |-> bars[s]]
Missing(range) == {s \in range : bars[s] = 0}

\* _local_query: from the first to the last slot that has bars.
LocalQuery ==
  LET present == {s \in 1..Slots : bars[s] > 0}
  IN  IF present = {} THEN {} ELSE Min(present)..Max(present)

\* _authenticated_coverage: from the newest request back, every request that adds
\* to the range must be complete and current, and together they must cover it.
Clip(i)      == requests[i].range \cap LocalQuery
ClipsFrom(i) == UNION {Clip(j) : j \in i..Len(requests)}
Consulted    == {i \in DOMAIN requests : ~(Clip(i) \subseteq ClipsFrom(i + 1))}
IsValid(i)   == /\ requests[i].status = "complete"
                /\ requests[i].seen = Data(requests[i].range)
                /\ Missing(requests[i].range) = {}

\* Mutant of Authenticated: a request vouches for bars that came after it.
AuthenticatedStale ==
  /\ LocalQuery # {} /\ Missing(LocalQuery) = {}
  /\ \A i \in Consulted : requests[i].status = "complete"
  /\ LocalQuery \subseteq ClipsFrom(1)

Authenticated ==
  /\ LocalQuery # {} /\ Missing(LocalQuery) = {}
  /\ \A i \in Consulted : IsValid(i)
  /\ LocalQuery \subseteq ClipsFrom(1)

\* _source_snapshot_is_current_unlocked.
IsCurrent(data) == DOMAIN data = LocalQuery /\ data = Data(LocalQuery)

\* _cached_cohort: of the cohort's rows that are evaluated the latest, if every
\* strategy of the cohort has one in the same run.
HasRow(i)        == {m \in runs[i].scope : runs[i].status[m] # "absent"}
EvaluatedIn(i)   == {m \in runs[i].scope : runs[i].status[m] = "evaluated"}
SameCohort(c)    == {i \in DOMAIN runs : runs[i].scope = c.scope /\ runs[i].data = c.data}
Latest(S)        == {i \in S : \A j \in S : runs[j].at <= runs[i].at}

\* Mutant of Cached: any strategy of the run will do.
CachedInPart(c) == Latest({i \in SameCohort(c) : EvaluatedIn(i) # {}})

Cached(c) == {i \in Latest({i \in SameCohort(c) : EvaluatedIn(i) # {}}) :
                EvaluatedIn(i) = runs[i].scope}

\* _evaluation_cohort_reservation_plan and _cohort_run_timestamp, with a clock that
\* stands still: one past the latest run of a member over the same bars.
NextGen(c) == 1 + Max({0} \cup {runs[i].gen : i \in SameCohort(c)})
NextAt(c)  == 1 + Max({0} \cup {runs[i].at : i \in {j \in DOMAIN runs :
                /\ runs[j].data = c.data
                /\ c.scope \cap HasRow(j) # {}}})

-----------------------------------------------------------------------------
(* ingest.                                                                 *)

\* _reserve_coverage_request.
Ingest(w, range, force) ==
  /\ calls[w].pc \in Rest /\ Len(requests) < MaxRequests
  /\ requests' = Append(requests, [range |-> range, seen |-> Data(range), status |-> "running"])
  /\ Set(w, [Idle EXCEPT !.pc = "gaps", !.force = force, !.item = Len(requests) + 1])
  /\ UNCHANGED <<bars, runs, source, held, faults, evaluations>>

\* Nothing to fetch, or nobody to fetch it from, or the gaps: with force all of it.
ReadGaps(w) ==
  LET c     == calls[w]
      range == requests[c.item].range
      gaps  == IF c.force THEN range ELSE Missing(range)
  IN  /\ c.pc = "gaps"
      /\ \/ Set(w, [c EXCEPT !.pc = "manifest", !.verdict = "unavailable"])
         \/ gaps = {} /\ Set(w, [c EXCEPT !.pc = "manifest", !.verdict = "complete"])
         \/ gaps # {} /\ Set(w, [c EXCEPT !.pc = "fetch", !.left = gaps])
      /\ UNCHANGED <<database, source, held, faults, evaluations>>

\* The slots of the first gap.
FirstGap(left) == {s \in left : Min(left)..s \subseteq left}

\* Mutant of MayAppend: bars are appended outside of the lock.
MayAppendAnyway == TRUE

MayAppend == source = Free

\* The provider answers for one gap with some of its bars, some of them corrected,
\* and BarRepository.append adds the payloads that are new.  A forced refresh that
\* brings nothing leaves its verdict behind.
AppendGap(w) ==
  LET c == calls[w] IN
  /\ c.pc = "fetch" /\ MayAppend
  /\ \E got \in SUBSET FirstGap(c.left), corrected \in SUBSET FirstGap(c.left) :
       /\ corrected \subseteq {s \in got : bars[s] \in 1..(MaxRevision - 1)}
       /\ bars' = [s \in 1..Slots |->
                     IF (s \in got /\ bars[s] = 0) \/ s \in corrected THEN bars[s] + 1 ELSE bars[s]]
       /\ LET left == c.left \ FirstGap(c.left)
          IN  Set(w, [c EXCEPT !.left = left,
                               !.pc = IF left = {} THEN "manifest" ELSE "fetch",
                               !.verdict = IF c.force /\ got = {} THEN "incomplete" ELSE "none"])
  /\ UNCHANGED <<requests, runs, source, held, faults, evaluations>>

\* The provider or the append raises.
FetchFails(w) ==
  /\ At(w, "fetch")
  /\ Set(w, [calls[w] EXCEPT !.pc = "manifest", !.verdict = "unavailable", !.left = {}])
  /\ UNCHANGED <<database, source, held, faults, evaluations>>

\* The manifest that the request is about to be finalized with.
ReadManifest(w) ==
  LET c     == calls[w]
      range == requests[c.item].range
      empty == c.force /\ c.verdict = "incomplete"
  IN  /\ c.pc = "manifest"
      /\ Set(w, [c EXCEPT !.pc = "finalize", !.data = Data(range),
                 !.verdict = CASE c.verdict \in {"unavailable", "complete"} -> c.verdict
                               [] Missing(range) # {} -> "incomplete"
                               [] Missing(range) = {} /\ empty -> "unavailable"
                               [] OTHER -> "complete"])
      /\ UNCHANGED <<database, source, held, faults, evaluations>>

\* _finalize_coverage_request.
Finalize(w) ==
  LET c == calls[w] IN
  /\ c.pc = "finalize"
  /\ requests' = IF requests[c.item].status = "running"
                 THEN [requests EXCEPT ![c.item].status = c.verdict, ![c.item].seen = c.data]
                 ELSE requests
  /\ Return(w, "idle")
  /\ UNCHANGED <<bars, runs, source, held, faults, evaluations>>

FinalizeFails(w) ==
  /\ At(w, "finalize") /\ Fault
  /\ Return(w, "idle")
  /\ UNCHANGED <<database, source, held, evaluations>>

-----------------------------------------------------------------------------
(* evaluate.                                                               *)

Evaluate(w, scope, force) ==
  /\ calls[w].pc \in Rest
  /\ evaluations < MaxEvaluations /\ evaluations' = evaluations + 1
  /\ Set(w, [Idle EXCEPT !.pc = "capture", !.scope = scope, !.force = force])
  /\ UNCHANGED <<database, source, held, faults>>

\* The next round of the loop over source attempts, if there is one.
NextAttempt(w) ==
  LET c == calls[w] IN
  IF c.attempt + 1 < Attempts
  THEN Set(w, [Idle EXCEPT !.pc = "capture", !.scope = c.scope, !.force = c.force,
                           !.attempt = c.attempt + 1])
  ELSE Return(w, "unavailable")

\* _capture_research_snapshot: what requests vouch for, or nothing.
Capture(w) ==
  /\ At(w, "capture") /\ source = Free
  /\ IF Authenticated
     THEN Set(w, [calls[w] EXCEPT !.pc = "lock", !.data = Data(LocalQuery)])
     ELSE Return(w, "unavailable")
  /\ UNCHANGED <<database, source, held, faults, evaluations>>

Locks(c)   == {<<c.data, m>> : m \in c.scope}
Waiting(w) == Locks(calls[w]) \ held[w]

\* Mutant of NextLocks: every caller takes its locks in an order of its own.
NextLocksAnyOrder(w) == Waiting(w)

\* _claim_evaluation_cohort enters its locks in one order for everybody.
NextLocks(w) == {l \in Waiting(w) : \A k \in Waiting(w) : l[2] <= k[2]}

IsFree(l) == \A v \in Workers : l \notin held[v]

TakeLock(w) ==
  /\ At(w, "lock")
  /\ \E l \in NextLocks(w) :
       /\ IsFree(l)
       /\ held' = [held EXCEPT ![w] = @ \cup {l}]
  /\ IF Cardinality(Waiting(w)) = 1 THEN Goto(w, "plan") ELSE UNCHANGED calls
  /\ UNCHANGED <<database, source, faults, evaluations>>

\* An evaluation that is cached is reused, unless it is forced.
Plan(w) ==
  LET c == calls[w] IN
  /\ c.pc = "plan"
  /\ \/ /\ ~c.force
        /\ \E i \in Cached(c) : Set(w, [c EXCEPT !.pc = "reuse", !.item = i])
        /\ held' = [held EXCEPT ![w] = {}]
     \/ /\ c.force \/ Cached(c) = {}
        /\ Set(w, [c EXCEPT !.pc = "insert", !.gen = NextGen(c), !.at = NextAt(c)])
        /\ UNCHANGED held
  /\ UNCHANGED <<database, source, faults, evaluations>>

\* One row per strategy of the cohort.
NewRun(c, gen, row) == [scope |-> c.scope, data |-> c.data, gen |-> gen, at |-> c.at,
                        status |-> [m \in c.scope |-> row]]

\* One transaction inserts a running row for every strategy.
Insert(w) ==
  LET c == calls[w] IN
  /\ c.pc = "insert"
  /\ runs' = Append(runs, NewRun(c, c.gen, "running"))
  /\ Set(w, [c EXCEPT !.pc = "engines", !.item = Len(runs) + 1])
  /\ held' = [held EXCEPT ![w] = {}]
  /\ UNCHANGED <<bars, requests, source, faults, evaluations>>

\* It fails: try again after a conflict, or leave failed rows, without a generation.
InsertFails(w) ==
  LET c == calls[w] IN
  /\ c.pc = "insert" /\ Fault
  /\ \/ /\ c.tries + 1 < Tries
        /\ Set(w, [c EXCEPT !.pc = "plan", !.tries = c.tries + 1])
        /\ UNCHANGED runs
     \/ /\ runs' = Append(runs, NewRun(c, 0, "absent"))
        /\ Set(w, [c EXCEPT !.pc = "failing", !.item = Len(runs) + 1,
                            !.left = c.scope, !.verdict = "error"])
  /\ UNCHANGED <<bars, requests, source, held, evaluations>>

Recheck(w) ==
  LET c == calls[w] IN
  /\ c.pc = "reuse" /\ source = Free
  /\ IF IsCurrent(c.data) THEN Return(w, "reused") ELSE NextAttempt(w)
  /\ UNCHANGED <<database, source, held, faults, evaluations>>

Fails(w, verdict) == Set(w, [calls[w] EXCEPT !.pc = "failing", !.verdict = verdict,
                                             !.left = calls[w].scope])

\* _evaluate_engines computes from the captured bars, or raises.
Engines(w) ==
  /\ At(w, "engines")
  /\ Goto(w, "check") \/ Fails(w, "error")
  /\ UNCHANGED <<database, source, held, faults, evaluations>>

\* _persist_evaluation_batch_if_current enters the locked section of the bars.
CheckSource(w) ==
  LET c == calls[w] IN
  /\ c.pc = "check" /\ source = Free
  /\ IF IsCurrent(c.data) THEN source' = w /\ Goto(w, "commit")
                          ELSE Fails(w, "stale") /\ UNCHANGED source
  /\ UNCHANGED <<database, held, faults, evaluations>>

\* One transaction: the rows that are still running get what the engines found.
Publish(c, found) ==
  runs' = [runs EXCEPT ![c.item].status =
             [m \in c.scope |-> IF @[m] = "running" THEN found[m] ELSE @[m]]]

Commit(w) ==
  LET c == calls[w] IN
  /\ c.pc = "commit"
  /\ \E found \in [c.scope -> {"evaluated", "unavailable"}] : Publish(c, found)
  /\ source' = Free
  /\ Return(w, "completed")
  /\ UNCHANGED <<bars, requests, held, faults, evaluations>>

\* The error handler reads back what the database holds, which may raise as well: the
\* call is over, and its rows are left as they are.
ReadBack(w, committed) ==
  \/ committed /\ Return(w, "completed")
  \/ ~committed /\ Fails(w, "error")
  \/ Return(w, "raised")

\* Nothing was committed.
CommitFails(w) ==
  /\ At(w, "commit") /\ Fault
  /\ ReadBack(w, FALSE)
  /\ source' = Free
  /\ UNCHANGED <<database, held, evaluations>>

\* _evaluation_cohort_is_complete.
Committed(c, found) == \A m \in c.scope : found[m] = "evaluated"

\* The transaction was committed and an exception hides it.
CommitUnsure(w) ==
  LET c == calls[w] IN
  /\ c.pc = "commit" /\ Fault
  /\ \E found \in [c.scope -> {"evaluated", "unavailable"}] :
       /\ Publish(c, found)
       /\ ReadBack(w, Committed(c, found))
  /\ source' = Free
  /\ UNCHANGED <<bars, requests, held, evaluations>>

\* _persist_failed_run: a row that is missing or running becomes failed.
Failed(row) == IF row \in {"absent", "running"} THEN "failed" ELSE row

MarkFailed(w) ==
  LET c == calls[w] IN
  /\ c.pc = "failing" /\ c.left # {}
  /\ runs' = [runs EXCEPT ![c.item].status[Min(c.left)] = Failed(@)]
  /\ Set(w, [c EXCEPT !.left = @ \ {Min(c.left)}])
  /\ UNCHANGED <<bars, requests, source, held, faults, evaluations>>

\* A row of a stale run that cannot be marked sends the call to its error handler,
\* which reads back, and marks all rows again or none when that raises; there, and after
\* a failed reservation, the next row follows.
MarkFails(w) ==
  LET c == calls[w] IN
  /\ c.pc = "failing" /\ c.left # {} /\ Fault
  /\ \/ c.verdict = "stale" /\ Fails(w, "error")
     \/ c.verdict = "stale" /\ Set(w, [c EXCEPT !.left = {}, !.verdict = "error"])
     \/ c.verdict # "stale" /\ Set(w, [c EXCEPT !.left = @ \ {Min(c.left)}])
  /\ UNCHANGED <<database, source, held, evaluations>>

\* The call goes round again, or returns.
Conclude(w) ==
  LET c == calls[w] IN
  /\ c.pc = "failing" /\ c.left = {}
  /\ IF c.verdict = "stale" THEN NextAttempt(w) ELSE Return(w, "raised")
  /\ held' = [held EXCEPT ![w] = {}]
  /\ UNCHANGED <<database, source, faults, evaluations>>

-----------------------------------------------------------------------------

\* The process ends, with its threads and its locks.
Crash ==
  /\ \E w \in Workers : calls[w].pc \notin Rest
  /\ Fault
  /\ calls' = [w \in Workers |-> Idle]
  /\ source' = Free /\ held' = [w \in Workers |-> {}]
  /\ UNCHANGED <<database, evaluations>>

\* What a thread that was called goes on to do by itself.
Step(w) ==
  \/ ReadGaps(w) \/ AppendGap(w) \/ FetchFails(w) \/ ReadManifest(w) \/ Finalize(w)
  \/ Capture(w) \/ TakeLock(w) \/ Plan(w) \/ Insert(w) \/ Recheck(w) \/ Engines(w)
  \/ CheckSource(w) \/ Commit(w) \/ MarkFailed(w) \/ Conclude(w)

Failure(w) ==
  \/ FinalizeFails(w) \/ InsertFails(w) \/ CommitFails(w) \/ CommitUnsure(w) \/ MarkFails(w)

Next ==
  \/ \E w \in Workers :
       \/ \E range \in Requested, force \in BOOLEAN : Ingest(w, range, force)
       \/ \E scope \in Scopes, force \in BOOLEAN : Evaluate(w, scope, force)
       \/ Step(w) \/ Failure(w)
  \/ Crash

Spec == Init /\ [][Next]_vars

-----------------------------------------------------------------------------
(* Properties.                                                             *)

Published(i) == {m \in runs[i].scope : runs[i].status[m] \in {"evaluated", "unavailable"}}

\* Results are published only for bars that no thread has changed since they were
\* captured: the check and the commit share the lock that every append takes.
PublishedIsCurrent ==
  [][\A i \in DOMAIN runs : Published(i)' # Published(i) => runs[i].data = Data(LocalQuery)]_vars

\* A run that was evaluated used nothing but bars that some ingest, having seen its
\* whole request without a gap, declared complete with these very payloads.
EvaluatedBarsWereDeclared ==
  \A i \in DOMAIN runs : \A s \in DOMAIN runs[i].data : \E j \in DOMAIN requests :
    /\ requests[j].status = "complete" /\ s \in requests[j].range
    /\ requests[j].seen[s] = runs[i].data[s]

\* Concurrent reservations never share a generation of a cohort, nor the timestamp of
\* a strategy over the same bars, by which the cached cohort is told from older ones.
ReservationsAreDistinct ==
  \A i, j \in DOMAIN runs : i # j /\ runs[i].data = runs[j].data =>
    /\ runs[i].scope = runs[j].scope /\ runs[i].gen > 0 => runs[i].gen # runs[j].gen
    /\ HasRow(i) \cap HasRow(j) # {} => runs[i].at # runs[j].at

\* The rows of the runs are sound: made from declared bars, and told apart.
RunsAreSound == EvaluatedBarsWereDeclared /\ ReservationsAreDistinct

\* What a call answers is what the database says: a reused cohort is evaluated whole
\* over the bars of this moment, a completed one has all its results, and a call whose
\* error handler came to its end left its cohort without them.  A call that raises has
\* rows that seem to run, or all its results, only if the database failed: where the
\* handler's read-back fails too, the commit it was to find may have gone through.
AnswersAreTrue ==
  [][\A w \in Workers : \A i \in DOMAIN runs :
       calls[w].pc \in Evaluates /\ calls[w].item = i =>
         /\ At(w, "reused")' => /\ runs[i].scope = calls[w].scope
                               /\ runs[i].data = Data(LocalQuery)
                               /\ EvaluatedIn(i) = runs[i].scope
         /\ At(w, "completed")' => Published(i)' = runs[i].scope
         /\ At(w, "failing") /\ At(w, "raised")' =>
              EvaluatedIn(i)' # runs[i].scope
         /\ At(w, "raised")' /\ faults' = 0 =>
              \A m \in runs[i].scope : runs[i].status[m] = "failed"]_vars

\* Threads that claim overlapping cohorts never wait for each other in a circle:
\* whenever some thread is called, some called thread can go on.
NobodyIsStuck ==
  (\E w \in Workers : calls[w].pc \notin Rest) => \E w \in Workers : ENABLED Step(w)
=============================================================================
