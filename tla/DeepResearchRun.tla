-------------------------- MODULE DeepResearchRun --------------------------
(***************************************************************************)
(* One deep research run (src/deep_research): the coordinator that takes a *)
(* cycle of candidates in batches, the repository that keeps its trials,   *)
(* checkpoints, promotions and state in separate transactions, the control *)
(* file the operator writes, and the pipeline that starts the process or   *)
(* resumes it from the newest checkpoint after it died between any two of  *)
(* those transactions (strategies/pipeline.py).                            *)
(*                                                                         *)
(* Evaluation is pure: a candidate's fitness is a constant, and a worker   *)
(* that fails twice is a choice.                                           *)
(***************************************************************************)
EXTENDS Integers, Sequences

CONSTANTS
  Hashes,         \* candidate identities
  NoHash,         \* no incumbent
  Fitness,        \* fitness of a candidate
  Budget,         \* candidates in a cycle
  Generated,      \* generate_candidates: list for a generation and an incumbent
  WorkerCounts,   \* worker counts a process may be started with
  Modes,          \* whether a run may be continuous, or bounded by a trial budget
  MaxGeneration,  \* bound: the last cycle the model looks at
  MaxProcesses    \* bound: processes that ever work on a continuous, or a bounded, run

Incumbents  == Hashes \cup {NoHash}
Generations == 1..MaxGeneration

ASSUME ResearchAssumption ==
  /\ NoHash \notin Hashes
  /\ Fitness \in [Hashes -> Nat \ {0}]
  /\ Budget \in Nat \ {0} /\ MaxGeneration \in Nat \ {0} /\ MaxProcesses \in [BOOLEAN -> Nat]
  /\ Generated \in [Generations -> [Incumbents -> [1..Budget -> Hashes]]]
  /\ WorkerCounts \subseteq Nat \ {0}
  /\ Modes \subseteq BOOLEAN

VARIABLES
  continuous,   \* protocol.continuous: cycle after cycle until a deadline
  control,      \* the control file: "none" or the state it holds
  run,          \* deep_research_runs.state, or "none"
  trials,       \* deep_research_trials in the order of persisted_sequence
  checkpoints,  \* deep_research_checkpoints, oldest first
  promotions,   \* deep_research_promotions: scores and verdicts, oldest first
  sealed,       \* history: sealed evaluations of a candidate
  late,         \* history: trials committed since the operator's stop
  processes,    \* processes started
  pc,           \* where the process is; "none": there is no process
  workers,      \* its worker count
  generation,   \* its cycle
  works,        \* the cycle's CandidateWork, in ordinal order
  done,         \* completed_count
  fresh,        \* results: positions in works evaluated by this call
  best,         \* position of the result chosen for promotion
  lead          \* incumbent_candidate of the pipeline

ledger  == <<trials, promotions, sealed, late>>
process == <<continuous, processes, workers, generation, works, lead>>
vars    == <<control, run, ledger, checkpoints, process, pc, done, fresh, best>>

Terminal == {"completed", "stopped"}
Places   == {"none", "wait", "guard", "gate", "held", "dispatched", "committed",
             "pausing", "stopping", "stress", "seal", "promote", "close", "finish"}

WorkItem   == [ordinal : Nat \ {0}, hash : Hashes, duplicate : BOOLEAN]
Trial      == [ordinal : Nat \ {0}, hash : Hashes,
               status : {"duplicate", "succeeded", "failed"}]
Checkpoint == [next : Nat \ {0}, generation : 1..(MaxGeneration + 1), completed : Nat]
Promotion  == [hash : Hashes, score : Nat, promoted : BOOLEAN]

TypeOK ==
  /\ control \in {"none", "running", "paused", "stopped"}
  /\ run \in {"none", "running", "paused"} \cup Terminal
  /\ trials \in Seq(Trial) /\ checkpoints \in Seq(Checkpoint)
  /\ promotions \in Seq(Promotion)
  /\ sealed \in [Hashes -> Nat] /\ late \in Nat
  /\ continuous \in Modes /\ processes \in 0..MaxProcesses[continuous] /\ pc \in Places
  /\ workers \in WorkerCounts /\ generation \in Generations
  /\ works \in Seq(WorkItem) /\ done \in 0..Len(works)
  /\ fresh \subseteq 1..Len(works) /\ best \in Nat
  /\ lead \in Incumbents
  /\ pc # "none" => run \notin Terminal \cup {"none"} /\ works # <<>>
  /\ pc \in {"gate", "held", "dispatched", "pausing"} => done < Len(works)
  /\ pc \in {"seal", "promote"} => best \in fresh

Init ==
  /\ continuous \in Modes /\ control = "none" /\ run = "none"
  /\ trials = <<>> /\ checkpoints = <<>> /\ promotions = <<>>
  /\ sealed = [h \in Hashes |-> 0] /\ late = 0
  /\ processes = 0 /\ pc = "none" /\ workers \in WorkerCounts /\ generation = 1
  /\ works = <<>> /\ done = 0 /\ fresh = {} /\ best = 0 /\ lead = NoHash

-----------------------------------------------------------------------------
(* The work of a cycle.                                                    *)

Tried == {trials[i].hash : i \in DOMAIN trials}

\* Mutant of CycleWork: a resumed process does not read the earlier trials.
CycleWorkForgetful(g, incumbent, start, skip) ==
  LET list == Generated[g][incumbent]
  IN  [k \in 1..(Budget - skip) |->
        [ordinal |-> start + (skip + k) - 1,
         hash |-> list[skip + k],
         duplicate |-> \E j \in 1..(skip + k - 1) : list[j] = list[skip + k]]]

\* The list without the first skip candidates, numbered by their place in the
\* whole list; a hash that has a trial, or came before in the list, is not run again.
CycleWork(g, incumbent, start, skip) ==
  LET list == Generated[g][incumbent]
  IN  [k \in 1..(Budget - skip) |->
        [ordinal |-> start + (skip + k) - 1,
         hash |-> list[skip + k],
         duplicate |-> \/ list[skip + k] \in Tried
                       \/ \E j \in 1..(skip + k - 1) : list[j] = list[skip + k]]]

\* local_ordinals has no entry for the candidate this one repeats.
RepeatsSkipped(g, incumbent, skip) ==
  LET list == Generated[g][incumbent]
  IN  \E k \in (skip + 1)..Budget, j \in 1..skip :
         list[k] = list[j] /\ list[k] \notin Tried

\* Every call of run() begins with no results.
Enter(g, start, skip, incumbent) ==
  /\ generation' = g
  /\ works' = CycleWork(g, incumbent, start, skip)
  /\ done' = 0 /\ fresh' = {} /\ best' = 0

\* A checkpoint for the same ordinal and cycle is kept as it was.
PutCheckpoint(next, g, completed) ==
  checkpoints' =
    IF \E i \in DOMAIN checkpoints :
          checkpoints[i].next = next /\ checkpoints[i].generation = g
    THEN checkpoints
    ELSE Append(checkpoints, [next |-> next, generation |-> g, completed |-> completed])

Exit == pc' = "none"

-----------------------------------------------------------------------------
(* Starting, resuming and losing the process; the operator.                *)

Start ==
  /\ pc = "none" /\ run = "none" /\ processes < MaxProcesses[continuous]
  /\ processes' = processes + 1
  /\ workers' \in WorkerCounts
  /\ control' = "running" /\ run' = "running"
  /\ Enter(1, 1, 0, NoHash) /\ lead' = NoHash
  /\ pc' = "wait"
  /\ UNCHANGED <<continuous, ledger, checkpoints>>

\* Mutant of SkipOf: the ordinal alone says how much of the cycle is done.
SkipOfOrdinal(c) == IF c.next - 1 < Budget THEN c.next - 1 ELSE 0

\* cycle_skip: what the checkpoint's writer had completed of its own call.
SkipOf(c) == IF c.completed < Budget THEN c.completed ELSE 0

Resumable == checkpoints # <<>> /\ run \notin Terminal \cup {"none"}

\* A continuous run that is resumed has lost its incumbent candidate.
Resume ==
  /\ pc = "none" /\ Resumable /\ processes < MaxProcesses[continuous]
  /\ processes' = processes + 1
  /\ workers' \in WorkerCounts
  /\ run' = "running"
  /\ LET c    == checkpoints[Len(checkpoints)]
         skip == SkipOf(c)
     IN  /\ c.generation \in Generations
         /\ ~RepeatsSkipped(c.generation, NoHash, skip)
         /\ Enter(c.generation, c.next, skip, NoHash)
  /\ lead' = NoHash
  /\ pc' = "wait"
  /\ UNCHANGED <<continuous, control, ledger, checkpoints>>

\* The same, when the pipeline raises before the coordinator runs.
ResumeRaises ==
  /\ pc = "none" /\ Resumable /\ processes < MaxProcesses[continuous]
  /\ LET c == checkpoints[Len(checkpoints)]
     IN  c.generation \in Generations /\ RepeatsSkipped(c.generation, NoHash, SkipOf(c))
  /\ processes' = processes + 1 /\ run' = "running"
  /\ UNCHANGED <<continuous, control, ledger, checkpoints, pc, workers, generation, works, done,
                 fresh, best, lead>>

\* The process is killed, a worker pool breaks or the sealed evaluator raises.
Crash ==
  /\ pc # "none"
  /\ Exit
  /\ UNCHANGED <<control, run, ledger, checkpoints, process, done, fresh, best>>

\* The app's main actor is the only writer of the control file.
Request(state) ==
  /\ control # "none"
  /\ control = "stopped" => state = "stopped"
  /\ control' = state
  /\ UNCHANGED <<run, ledger, checkpoints, process, pc, done, fresh, best>>

-----------------------------------------------------------------------------
(* DeepResearchCoordinator.run, one action per transaction.                *)

First == works[1].ordinal
Last  == works[Len(works)].ordinal

Wait ==
  /\ pc = "wait" /\ control # "paused"
  /\ IF control = "stopped"
     THEN /\ PutCheckpoint(First, generation, 0)
          /\ pc' = "stopping"
     ELSE /\ pc' = "guard" /\ UNCHANGED checkpoints
  /\ UNCHANGED <<control, run, ledger, process, done, fresh, best>>

\* The resource guard before the pool is made.
Guard ==
  /\ pc = "guard"
  /\ \/ pc' = "gate" /\ UNCHANGED checkpoints
     \/ PutCheckpoint(First, generation, 0) /\ pc' = "pausing"
  /\ UNCHANGED <<control, run, ledger, process, done, fresh, best>>

Next1 == works[done + 1].ordinal

\* The resource guard of a batch refuses it.
Preempt ==
  /\ pc = "gate"
  /\ PutCheckpoint(Next1, generation, 0)
  /\ pc' = "pausing"
  /\ UNCHANGED <<control, run, ledger, process, done, fresh, best>>

\* Mutant of Gate: the control file is read before the first batch only.
GateOnce ==
  /\ pc = "gate"
  /\ \/ (control = "running" \/ done > 0) /\ pc' = "dispatched" /\ UNCHANGED <<run, checkpoints>>
     \/ control = "paused" /\ done = 0 /\ run' = "paused" /\ pc' = "held" /\ UNCHANGED checkpoints
     \/ /\ control = "stopped" /\ done = 0
        /\ PutCheckpoint(Next1, generation, 0)
        /\ pc' = "stopping" /\ UNCHANGED run
  /\ UNCHANGED <<control, ledger, process, done, fresh, best>>

\* The operator's command before a batch.
Gate ==
  /\ pc = "gate"
  /\ \/ control = "running" /\ pc' = "dispatched" /\ UNCHANGED <<run, checkpoints>>
     \/ control = "paused" /\ run' = "paused" /\ pc' = "held" /\ UNCHANGED checkpoints
     \/ /\ control = "stopped"
        /\ PutCheckpoint(Next1, generation, 0)
        /\ pc' = "stopping" /\ UNCHANGED run
  /\ UNCHANGED <<control, ledger, process, done, fresh, best>>

\* Mutant of Held: the wait for the operator ends only when the run may go on.
HeldUntilRunning ==
  /\ pc = "held" /\ control = "running"
  /\ run' = "running" /\ pc' = "dispatched"
  /\ UNCHANGED <<control, checkpoints, ledger, process, done, fresh, best>>

\* wait_until_runnable of a paused batch.
Held ==
  /\ pc = "held"
  /\ \/ /\ control = "running"
        /\ run' = "running" /\ pc' = "dispatched" /\ UNCHANGED checkpoints
     \/ /\ control = "stopped"
        /\ PutCheckpoint(Next1, generation, 0)
        /\ pc' = "stopping" /\ UNCHANGED run
  /\ UNCHANGED <<control, ledger, process, done, fresh, best>>

SetPaused ==
  /\ pc = "pausing"
  /\ run' = "paused" /\ Exit
  /\ UNCHANGED <<control, ledger, checkpoints, process, done, fresh, best>>

SetStopped ==
  /\ pc = "stopping"
  /\ run' = "stopped" /\ Exit
  /\ UNCHANGED <<control, ledger, checkpoints, process, done, fresh, best>>

BatchEnd == IF done + workers < Len(works) THEN done + workers ELSE Len(works)
Batch    == (done + 1)..BatchEnd

Ordinals == {trials[i].ordinal : i \in DOMAIN trials}
Collides == \E k \in Batch : works[k].ordinal \in Ordinals

Status(k, succeeded) ==
  IF works[k].duplicate THEN "duplicate"
  ELSE IF k \in succeeded THEN "succeeded" ELSE "failed"

\* The batch is evaluated, a failed worker tried once more, and all its attempts
\* are appended in one transaction.
RunBatch ==
  /\ pc = "dispatched" /\ ~Collides
  /\ \E succeeded \in SUBSET {k \in Batch : ~works[k].duplicate} :
       /\ trials' = trials \o
            [j \in 1..(BatchEnd - done) |->
               [ordinal |-> works[done + j].ordinal, hash |-> works[done + j].hash,
                status |-> Status(done + j, succeeded)]]
       /\ fresh' = fresh \cup succeeded
  /\ late' = IF control = "stopped" THEN late + (BatchEnd - done) ELSE late
  /\ done' = BatchEnd
  /\ pc' = "committed"
  /\ UNCHANGED <<control, run, promotions, sealed, checkpoints, process, best>>

\* "trial ordinal already exists": the process dies of it.
BatchRaises ==
  /\ pc = "dispatched" /\ Collides
  /\ Exit
  /\ UNCHANGED <<control, run, ledger, checkpoints, process, done, fresh, best>>

\* After the evidence of its folds, the batch has its checkpoint.
CheckpointBatch ==
  /\ pc = "committed"
  /\ PutCheckpoint(works[done].ordinal + 1, generation, done)
  /\ pc' = IF done < Len(works) THEN "gate"
           ELSE IF fresh = {} THEN "close" ELSE "stress"
  /\ UNCHANGED <<control, run, ledger, process, done, fresh, best>>

\* The fittest result, the earliest of equals, and the evidence of its stress tests.
ChooseBest ==
  /\ pc = "stress"
  /\ best' \in fresh
  /\ \A k \in fresh :
       \/ Fitness[works[k].hash] < Fitness[works[best'].hash]
       \/ Fitness[works[k].hash] = Fitness[works[best'].hash] /\ best' <= k
  /\ pc' = "seal"
  /\ UNCHANGED <<control, run, ledger, checkpoints, process, done, fresh>>

\* The sealed final test of the chosen candidate.
Seal ==
  /\ pc = "seal"
  /\ sealed' = [sealed EXCEPT ![works[best].hash] = @ + 1]
  /\ pc' = "promote"
  /\ UNCHANGED <<control, run, trials, promotions, late, checkpoints, process, done, fresh, best>>

\* The best promoted score of the run; 0 when it has none.
IncumbentScore ==
  LET promoted == {i \in DOMAIN promotions : promotions[i].promoted}
  IN  IF promoted = {} THEN 0
      ELSE promotions[CHOOSE i \in promoted :
             \A j \in promoted : promotions[j].score <= promotions[i].score].score

\* Promotion needs a material improvement, and gates that are a choice here.
Promote ==
  /\ pc = "promote"
  /\ \E promoted \in BOOLEAN :
       /\ promoted => Fitness[works[best].hash] > IncumbentScore
       /\ promotions' = Append(promotions,
            [hash |-> works[best].hash, score |-> Fitness[works[best].hash],
             promoted |-> promoted])
  /\ pc' = "close"
  /\ UNCHANGED <<control, run, trials, sealed, late, checkpoints, process, done, fresh, best>>

\* The checkpoint that begins the next cycle.
Close ==
  /\ pc = "close"
  /\ PutCheckpoint(Last + 1, generation + 1, 0)
  /\ pc' = "finish"
  /\ UNCHANGED <<control, run, ledger, process, done, fresh, best>>

\* A bounded run is complete, or a continuous one after a cycle at whose end its time
\* is up; without a time budget it never is, and cycle follows cycle.
Complete ==
  /\ pc = "finish"
  /\ run' = "completed" /\ Exit
  /\ UNCHANGED <<control, ledger, checkpoints, process, done, fresh, best>>

\* The next cycle of a continuous run knows this one's best candidate.
NextCycle ==
  /\ pc = "finish"
  /\ continuous /\ generation < MaxGeneration
  /\ lead' = IF fresh = {} THEN lead ELSE works[best].hash
  /\ Enter(generation + 1, Last + 1, 0, lead')
  /\ pc' = "wait"
  /\ UNCHANGED <<continuous, control, run, ledger, checkpoints, processes, workers>>

-----------------------------------------------------------------------------
Work ==
  \/ Wait \/ Guard \/ Preempt \/ Gate \/ Held \/ SetPaused \/ SetStopped
  \/ RunBatch \/ BatchRaises \/ CheckpointBatch \/ ChooseBest \/ Seal \/ Promote
  \/ Close \/ Complete \/ NextCycle

Next ==
  \/ Work \/ Start \/ Resume \/ ResumeRaises \/ Crash
  \/ \E state \in {"running", "paused", "stopped"} : Request(state)

Spec == Init /\ [][Next]_vars

\* The coordinator goes on while it lives.
FairSpec == Spec /\ WF_vars(Work)

-----------------------------------------------------------------------------
(* What the run promises.                                                  *)

\* A champion is earned: the sealed final test of a candidate is consumed at most once
\* in the run, though a process may die right after it and its candidate may come up
\* in a later cycle, and whatever a resumed process forgot, it is better than every
\* champion before it.
ChampionsAreEarned ==
  /\ \A h \in Hashes : sealed[h] <= 1
  /\ \A i, j \in DOMAIN promotions :
       i < j /\ promotions[i].promoted /\ promotions[j].promoted
         => promotions[i].score < promotions[j].score

\* After the operator's stop only the batch that was under way is committed.
StopDrains == \E w \in WorkerCounts : late <= w

\* A bounded run that completes has a trial of every candidate of its list, wherever
\* it was interrupted and however much of it a resumed process did again.
CompletedCoversCycle ==
  ~continuous /\ run = "completed" =>
    \A k \in 1..Budget : Generated[1][NoHash][k] \in Tried

\* A live process gets through its cycle unless the operator holds it, and comes to an
\* end when its run is bounded or the operator has stopped it; a continuous run may go
\* on for ever, and is at its end at the latest in the cycle after the stop (so that
\* the stop must come before the model's last cycle).
Settles ==
  /\ pc # "none" ~> pc \in {"none", "finish"} \/ control = "paused"
  /\ pc # "none" /\ (~continuous \/ (control = "stopped" /\ generation < MaxGeneration))
       ~> pc = "none" \/ control = "paused"
=============================================================================
