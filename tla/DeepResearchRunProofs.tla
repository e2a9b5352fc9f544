------------------------- MODULE DeepResearchRunProofs -------------------------
(***************************************************************************)
(* What is proved of DeepResearchRun for all lists of candidates, budgets, *)
(* worker counts, cycles and processes; and of what replays decisions and  *)
(* orders: IntradayPortfolio, for all of them, all bars and all limits,    *)
(* and OrderExecution, for all orders and bars.                            *)
(***************************************************************************)
EXTENDS DeepResearchRun, IntradayPortfolio, OrderExecution, SequenceTheorems,
        FiniteSetTheorems, NaturalsInduction, WellFoundedInduction, TLAPS

(* How far the process has come by where it is.                            *)
Progress ==
  /\ pc \in {"wait", "guard"} => done = 0
  /\ pc = "committed" => done > 0
  /\ pc = "stress" => fresh # {}
  /\ pc \in {"close", "finish"} /\ fresh # {} => best \in fresh
  /\ pc \in {"stress", "seal", "promote", "close", "finish"} => done = Len(works)
  /\ fresh \subseteq 1..done

TypeInv == TypeOK /\ Progress

-----------------------------------------------------------------------------
(* The operators.                                                          *)

\* The work of a cycle is the rest of its list, and what is not a repetition is new.
LEMMA CycleWorkFacts ==
  ASSUME NEW g \in Generations, NEW incumbent \in Incumbents, NEW start \in Nat \ {0},
         NEW skip \in 0..(Budget - 1)
  PROVE  LET new == CycleWork(g, incumbent, start, skip)
         IN  /\ new \in Seq(WorkItem) /\ Len(new) = Budget - skip
             /\ \A k \in 1..(Budget - skip) :
                  /\ new[k].hash = Generated[g][incumbent][skip + k]
                  /\ ~new[k].duplicate => new[k].hash \notin Tried
  <1> DEFINE list == Generated[g][incumbent]
             n    == Budget - skip
             repeated(k) == \/ list[skip + k] \in Tried
                            \/ \E j \in 1..(skip + k - 1) : list[j] = list[skip + k]
             item(k) == [ordinal |-> start + (skip + k) - 1, hash |-> list[skip + k],
                         duplicate |-> repeated(k)]
             new == [k \in 1..n |-> item(k)]
  <1>1. n \in Nat /\ Budget \in Nat
    BY ResearchAssumption
  <1>2. list \in [1..Budget -> Hashes]
    BY ResearchAssumption
  <1>3. ASSUME NEW k \in 1..n
        PROVE  /\ item(k) \in WorkItem
               /\ item(k).hash = list[skip + k]
               /\ item(k).duplicate = repeated(k)
    <2>1. skip + k \in 1..Budget /\ start + (skip + k) - 1 \in Nat \ {0}
      BY <1>1
    <2>2. list[skip + k] \in Hashes
      BY <1>2, <2>1
    <2>3. repeated(k) \in BOOLEAN
      OBVIOUS
    <2> HIDE DEF repeated, list
    <2>4. QED
      BY <2>1, <2>2, <2>3 DEF WorkItem
  <1>4. CycleWork(g, incumbent, start, skip) = new
    BY DEF CycleWork
  <1>5. \A k \in 1..n : new[k] = item(k)
    OBVIOUS
  <1>6. DOMAIN new = 1..n
    OBVIOUS
  <1>7. new \in [1..n -> WorkItem]
    <2> HIDE DEF item
    <2> QED
      BY <1>3
  <1>8. new \in Seq(WorkItem) /\ Len(new) = n
    <2> HIDE DEF new, n
    <2> QED
      BY <1>1, <1>6, <1>7, SeqDef
  <1>9. ASSUME NEW k \in 1..n
        PROVE new[k].hash = list[skip + k] /\ (~new[k].duplicate => new[k].hash \notin Tried)
    <2>1. new[k].hash = list[skip + k] /\ new[k].duplicate = repeated(k)
      <3>1. new[k] = item(k)
        BY <1>5
      <3> HIDE DEF item, new, repeated
      <3> QED
        BY <1>3, <3>1
    <2> HIDE DEF new
    <2> QED
      BY <2>1
  <1>10. QED
    <2> HIDE DEF new
    <2> QED
      BY <1>4, <1>8, <1>9

\* A resumed process leaves out less than a whole list, and nothing that its
\* checkpoint does not cover.
LEMMA SkipOfFacts ==
  ASSUME NEW c \in Checkpoint
  PROVE  SkipOf(c) \in 0..(Budget - 1) /\ SkipOf(c) <= c.completed
  BY ResearchAssumption DEF SkipOf, Checkpoint

\* A checkpoint is appended or was there; none is changed.
LEMMA PutCheckpointFacts ==
  ASSUME checkpoints \in Seq(Checkpoint),
         NEW next \in Nat \ {0}, NEW g \in 1..(MaxGeneration + 1), NEW completed \in Nat,
         PutCheckpoint(next, g, completed)
  PROVE  /\ checkpoints' \in Seq(Checkpoint)
         /\ \A i \in DOMAIN checkpoints' :
              \/ i \in DOMAIN checkpoints /\ checkpoints'[i] = checkpoints[i]
              \/ checkpoints'[i] = [next |-> next, generation |-> g, completed |-> completed]
  <1> DEFINE c == [next |-> next, generation |-> g, completed |-> completed]
  <1>1. c \in Checkpoint
    BY DEF Checkpoint
  <1>2. CASE checkpoints' = checkpoints
    BY <1>2
  <1>3. CASE checkpoints' = Append(checkpoints, c)
    <2> HIDE DEF c
    <2>1. checkpoints' \in Seq(Checkpoint)
      BY <1>1, <1>3
    <2>2. \A i \in DOMAIN checkpoints' :
            \/ i \in DOMAIN checkpoints /\ checkpoints'[i] = checkpoints[i]
            \/ checkpoints'[i] = c
      BY <1>1, <1>3
    <2>3. QED
      BY <2>1, <2>2 DEF c
  <1>4. QED
    BY <1>2, <1>3 DEF PutCheckpoint

\* The end of a batch lies behind its beginning, and a batch is no longer than there
\* are workers.
LEMMA BatchFacts ==
  ASSUME TypeOK, pc = "dispatched"
  PROVE  /\ done \in 0..Len(works) /\ BatchEnd \in (done + 1)..Len(works) /\ Len(works) \in Nat
         /\ BatchEnd - done <= workers /\ workers \in Nat
  <1>1. /\ workers \in Nat \ {0} /\ Len(works) \in Nat
        /\ done \in 0..Len(works) /\ done < Len(works)
    BY ResearchAssumption DEF TypeOK
  <1>2. QED
    BY <1>1 DEF BatchEnd

\* Every candidate of a batch has a trial afterwards.
LEMMA RunBatchFacts ==
  ASSUME TypeOK, RunBatch
  PROVE  /\ trials' \in Seq(Trial)
         /\ Tried \subseteq Tried'
         /\ \A k \in Batch : works[k].hash \in Tried'
  <1>1. PICK succeeded \in SUBSET {k \in Batch : ~works[k].duplicate} :
          trials' = trials \o
            [j \in 1..(BatchEnd - done) |->
               [ordinal |-> works[done + j].ordinal, hash |-> works[done + j].hash,
                status |-> Status(done + j, succeeded)]]
    BY DEF RunBatch
  <1> DEFINE n == BatchEnd - done
             attempt(j) == [ordinal |-> works[done + j].ordinal, hash |-> works[done + j].hash,
                            status |-> Status(done + j, succeeded)]
             attempts == [j \in 1..n |-> attempt(j)]
  <1>2. /\ n \in Nat /\ done \in Nat /\ BatchEnd \in Nat
        /\ \A j \in 1..n : done + j \in 1..Len(works)
        /\ \A k \in Batch : k - done \in 1..n /\ done + (k - done) = k
    <2>1. /\ done \in 0..Len(works) /\ BatchEnd \in (done + 1)..Len(works)
          /\ Len(works) \in Nat
      BY BatchFacts DEF RunBatch
    <2>2. QED
      BY <2>1 DEF Batch
  <1>3. ASSUME NEW j \in 1..n PROVE attempt(j) \in Trial /\ attempt(j).hash = works[done + j].hash
    <2>1. works[done + j] \in WorkItem
      <3>1. works \in Seq(WorkItem)
        BY DEF TypeOK
      <3>2. done + j \in 1..Len(works)
        BY <1>2
      <3> QED
        BY <3>1, <3>2
    <2>2. Status(done + j, succeeded) \in {"duplicate", "succeeded", "failed"}
      BY DEF Status
    <2>3. works[done + j].ordinal \in Nat \ {0} /\ works[done + j].hash \in Hashes
      BY <2>1 DEF WorkItem
    <2>4. QED
      BY <2>2, <2>3 DEF Trial
  <1>4. attempts \in Seq(Trial) /\ Len(attempts) = n /\ \A j \in 1..n : attempts[j].hash = works[done + j].hash
    <2>1. DOMAIN attempts = 1..n /\ \A j \in 1..n : attempts[j] = attempt(j)
      OBVIOUS
    <2>2. attempts \in [1..n -> Trial]
      <3> HIDE DEF attempt, n
      <3> QED
        BY <1>3
    <2>3. \A j \in 1..n : attempts[j].hash = works[done + j].hash
      <3> HIDE DEF attempt, attempts, n
      <3> QED
        BY <1>3, <2>1
    <2> HIDE DEF attempts, n
    <2>4. QED
      BY <1>2, <2>1, <2>2, <2>3, SeqDef
  <1>5. trials \in Seq(Trial) /\ trials' = trials \o attempts
    BY <1>1 DEF TypeOK
  <1> HIDE DEF attempt, attempts, n
  <1>6. /\ trials' \in Seq(Trial) /\ Len(trials') = Len(trials) + n
        /\ Len(trials) \in Nat
        /\ \A i \in 1..Len(trials) : trials'[i] = trials[i]
        /\ \A j \in 1..n : trials'[Len(trials) + j] = attempts[j]
    <2>1. trials \in Seq(Trial) /\ attempts \in Seq(Trial) /\ Len(attempts) = n
          /\ n \in Nat /\ Len(trials) \in Nat
      BY <1>2, <1>4, <1>5
    <2>2. /\ trials \o attempts \in Seq(Trial)
          /\ Len(trials \o attempts) = Len(trials) + n
          /\ \A i \in 1..(Len(trials) + n) :
               (trials \o attempts)[i] =
                 IF i <= Len(trials) THEN trials[i] ELSE attempts[i - Len(trials)]
      BY <2>1, ConcatProperties
    <2>3. \A j \in 1..n : /\ Len(trials) + j \in 1..(Len(trials) + n)
                          /\ ~(Len(trials) + j <= Len(trials))
                          /\ (Len(trials) + j) - Len(trials) = j
      BY <2>1
    <2>4. \A i \in 1..Len(trials) : i \in 1..(Len(trials) + n) /\ i <= Len(trials)
      BY <2>1
    <2>5. QED
      BY <1>5, <2>1, <2>2, <2>3, <2>4
  <1>7. DOMAIN trials' = 1..(Len(trials) + n) /\ DOMAIN trials = 1..Len(trials)
    BY <1>5, <1>6
  <1>8. Tried \subseteq Tried'
    BY <1>2, <1>6, <1>7 DEF Tried
  <1>9. ASSUME NEW k \in Batch PROVE works[k].hash \in Tried'
    <2>1. k - done \in 1..n /\ works[k].hash = trials'[Len(trials) + (k - done)].hash
      BY <1>2, <1>4, <1>6
    <2>2. Len(trials) + (k - done) \in DOMAIN trials'
      BY <1>2, <1>6, <1>7, <2>1
    <2>3. QED
      BY <2>1, <2>2 DEF Tried
  <1>10. QED
    BY <1>6, <1>8, <1>9

-----------------------------------------------------------------------------
(* Types.                                                                  *)

\* Entering run() gives the process work.
LEMMA EnterFacts ==
  ASSUME NEW g \in Generations, NEW incumbent \in Incumbents, NEW start \in Nat \ {0},
         NEW skip \in 0..(Budget - 1), Enter(g, start, skip, incumbent)
  PROVE  /\ generation' \in Generations
         /\ works' \in Seq(WorkItem) /\ Len(works') = Budget - skip /\ works' # <<>>
         /\ done' = 0 /\ done' \in 0..Len(works') /\ fresh' = {} /\ best' \in Nat
         /\ \A k \in 1..Len(works') :
              /\ works'[k].hash = Generated[g][incumbent][skip + k]
              /\ ~works'[k].duplicate => works'[k].hash \notin Tried
  <1>1. works' = CycleWork(g, incumbent, start, skip)
    BY DEF Enter
  <1>2. /\ works' \in Seq(WorkItem) /\ Len(works') = Budget - skip
        /\ \A k \in 1..(Budget - skip) :
              /\ works'[k].hash = Generated[g][incumbent][skip + k]
              /\ ~works'[k].duplicate => works'[k].hash \notin Tried
    BY <1>1, CycleWorkFacts
  <1>3. Len(works') \in Nat \ {0} /\ works' # <<>>
    BY <1>2, ResearchAssumption
  <1>4. generation' = g /\ done' = 0 /\ fresh' = {} /\ best' = 0
    BY DEF Enter
  <1>5. /\ generation' \in Generations /\ fresh' = {} /\ best' \in Nat
        /\ done' = 0 /\ done' \in 0..Len(works')
    BY <1>3, <1>4
  <1>6. \A k \in 1..Len(works') :
          /\ works'[k].hash = Generated[g][incumbent][skip + k]
          /\ ~works'[k].duplicate => works'[k].hash \notin Tried
    BY ONLY <1>2
  <1>7. QED
    BY ONLY <1>2, <1>3, <1>5, <1>6

\* A process that resumes has what its checkpoint says.
LEMMA ResumeFacts ==
  ASSUME TypeOK, Resume
  PROVE  \E c \in Checkpoint :
           /\ c = checkpoints[Len(checkpoints)] /\ Len(checkpoints) \in DOMAIN checkpoints
           /\ c.generation \in Generations /\ c.next \in Nat \ {0}
           /\ SkipOf(c) \in 0..(Budget - 1)
           /\ Enter(c.generation, c.next, SkipOf(c), NoHash)
  <1> DEFINE c == checkpoints[Len(checkpoints)]
  <1>1. checkpoints \in Seq(Checkpoint) /\ checkpoints # <<>>
    BY DEF TypeOK, Resume, Resumable
  <1>2. Len(checkpoints) \in DOMAIN checkpoints /\ c \in Checkpoint
    BY <1>1
  <1>3. c.generation \in Generations /\ Enter(c.generation, c.next, SkipOf(c), NoHash)
    BY DEF Resume
  <1>4. c.next \in Nat \ {0} /\ SkipOf(c) \in 0..(Budget - 1)
    BY <1>2, SkipOfFacts DEF Checkpoint
  <1> HIDE DEF c
  <1>5. QED
    BY <1>2, <1>3, <1>4 DEF c

LEMMA TypeStart == TypeInv /\ Start => TypeInv'
  <1> SUFFICES ASSUME TypeInv, Start PROVE TypeInv'
    OBVIOUS
  <1>1. 1 \in Generations /\ NoHash \in Incumbents /\ 0 \in 0..(Budget - 1) /\ 1 \in Nat \ {0}
    BY ResearchAssumption DEF Generations, Incumbents
  <1>2. Enter(1, 1, 0, NoHash)
    BY DEF Start
  <1>3. /\ generation' \in Generations
        /\ works' \in Seq(WorkItem) /\ works' # <<>>
        /\ done' = 0 /\ done' \in 0..Len(works') /\ fresh' = {} /\ best' \in Nat
    BY <1>1, <1>2, EnterFacts
  <1>4. processes' \in 0..MaxProcesses[continuous']
    BY ResearchAssumption DEF Start, TypeInv, TypeOK
  <1>5. QED
    BY <1>1, <1>3, <1>4 DEF Start, TypeInv, TypeOK, Progress, ledger, Places, Terminal

LEMMA TypeResume == TypeInv /\ Resume => TypeInv'
  <1> SUFFICES ASSUME TypeInv, Resume PROVE TypeInv'
    OBVIOUS
  <1>1. PICK c \in Checkpoint :
          /\ c.generation \in Generations /\ c.next \in Nat \ {0}
          /\ SkipOf(c) \in 0..(Budget - 1)
          /\ Enter(c.generation, c.next, SkipOf(c), NoHash)
    BY ResumeFacts DEF TypeInv
  <1>2. NoHash \in Incumbents
    BY DEF Incumbents
  <1>3. /\ generation' \in Generations
        /\ works' \in Seq(WorkItem) /\ works' # <<>>
        /\ done' = 0 /\ done' \in 0..Len(works') /\ fresh' = {} /\ best' \in Nat
    BY <1>1, <1>2, EnterFacts
  <1>4. processes' \in 0..MaxProcesses[continuous']
    BY ResearchAssumption DEF Resume, TypeInv, TypeOK
  <1>5. /\ run' = "running" /\ pc' = "wait" /\ lead' = NoHash /\ workers' \in WorkerCounts
        /\ UNCHANGED <<continuous, control, ledger, checkpoints>>
    BY DEF Resume
  <1>6. QED
    BY <1>2, <1>3, <1>4, <1>5 DEF TypeInv, TypeOK, Progress, ledger, Places, Terminal

\* The next cycle follows, with the best of this one as its incumbent.
LEMMA NextCycleFacts ==
  ASSUME TypeInv, NextCycle
  PROVE  /\ generation + 1 \in Generations /\ lead' \in Incumbents
         /\ Last + 1 \in Nat \ {0} /\ 0 \in 0..(Budget - 1)
         /\ Enter(generation + 1, Last + 1, 0, lead')
  <1>1. generation + 1 \in Generations
    BY ResearchAssumption DEF NextCycle, TypeInv, TypeOK, Generations
  <1>2. lead' \in Incumbents
    <2>1. CASE fresh = {}
      BY <2>1 DEF NextCycle, TypeInv, TypeOK
    <2>2. CASE fresh # {}
      <3>1. best \in 1..Len(works) /\ works \in Seq(WorkItem)
        BY <2>2 DEF NextCycle, TypeInv, TypeOK, Progress
      <3>2. works[best] \in WorkItem
        BY <3>1
      <3>3. lead' = works[best].hash
        BY <2>2 DEF NextCycle
      <3>4. QED
        BY <3>2, <3>3 DEF WorkItem, Incumbents
    <2>3. QED
      BY <2>1, <2>2
  <1>3. Last + 1 \in Nat \ {0}
    <2>1. works \in Seq(WorkItem) /\ works # <<>>
      BY DEF NextCycle, TypeInv, TypeOK
    <2>2. works[Len(works)] \in WorkItem
      BY <2>1
    <2>3. QED
      BY <2>2 DEF Last, WorkItem
  <1>4. 0 \in 0..(Budget - 1) /\ Enter(generation + 1, Last + 1, 0, lead')
    BY ResearchAssumption DEF NextCycle
  <1>5. QED
    BY <1>1, <1>2, <1>3, <1>4

LEMMA TypeNextCycle == TypeInv /\ NextCycle => TypeInv'
  <1> SUFFICES ASSUME TypeInv, NextCycle PROVE TypeInv'
    OBVIOUS
  <1>1. /\ generation + 1 \in Generations /\ lead' \in Incumbents
        /\ Last + 1 \in Nat \ {0} /\ 0 \in 0..(Budget - 1)
        /\ Enter(generation + 1, Last + 1, 0, lead')
    BY NextCycleFacts
  <1>2. /\ generation' \in Generations
        /\ works' \in Seq(WorkItem) /\ works' # <<>>
        /\ done' = 0 /\ done' \in 0..Len(works') /\ fresh' = {} /\ best' \in Nat
    BY <1>1, EnterFacts
  <1>3. pc = "finish" /\ pc' = "wait" /\ UNCHANGED <<continuous, control, run, ledger, checkpoints, processes, workers>>
    BY DEF NextCycle
  <1>4. QED
    BY <1>1, <1>2, <1>3 DEF TypeInv, TypeOK, Progress, ledger, Places, Terminal

LEMMA TypeRunBatch == TypeInv /\ RunBatch => TypeInv'
  <1> SUFFICES ASSUME TypeInv, RunBatch PROVE TypeInv'
    OBVIOUS
  <1>1. /\ done \in 0..Len(works) /\ BatchEnd \in (done + 1)..Len(works) /\ Len(works) \in Nat
        /\ trials' \in Seq(Trial)
    BY BatchFacts, RunBatchFacts DEF RunBatch, TypeInv
  <1>2. /\ done' = BatchEnd /\ pc = "dispatched" /\ pc' = "committed"
        /\ late' \in {late, late + (BatchEnd - done)}
        /\ fresh' \subseteq fresh \cup Batch
        /\ UNCHANGED <<control, run, promotions, sealed, checkpoints, process, best>>
    BY DEF RunBatch
  <1>3. late' \in Nat
    BY <1>1, <1>2 DEF TypeInv, TypeOK
  <1>4. fresh' \subseteq 1..done' /\ done' > 0 /\ done' \in 0..Len(works)
    BY <1>1, <1>2 DEF TypeInv, Progress, Batch
  <1>5. fresh' \subseteq 1..Len(works)
    BY <1>1, <1>2, <1>4
  <1>6. QED
    BY <1>1, <1>2, <1>3, <1>4, <1>5
    DEF TypeInv, TypeOK, Progress, process, Places, Terminal

\* Every variable keeps its type, for all constants, and the process is where its work
\* says it is.
THEOREM TypeCorrect == Spec => []TypeInv
  <1>1. ASSUME Init PROVE TypeInv
    <2>1. /\ continuous \in Modes /\ processes = 0 /\ MaxProcesses[continuous] \in Nat
      BY <1>1, ResearchAssumption DEF Init
    <2>2. generation \in Generations
      BY <1>1, ResearchAssumption DEF Init, Generations
    <2>3. QED
      BY <1>1, <2>1, <2>2 DEF Init, TypeInv, TypeOK, Progress, Places, Terminal, Incumbents
  <1>2. TypeInv /\ [Next]_vars => TypeInv'
    <2> SUFFICES ASSUME TypeInv, [Next]_vars PROVE TypeInv'
      OBVIOUS
    <2> USE DEF ledger, process, Places, Terminal
    <2>1. ASSUME pc # "none" PROVE First \in Nat \ {0} /\ Last + 1 \in Nat \ {0}
      <3>1. works \in Seq(WorkItem) /\ works # <<>>
        BY <2>1 DEF TypeInv, TypeOK
      <3>2. works[1] \in WorkItem /\ works[Len(works)] \in WorkItem
        BY <3>1
      <3>3. QED
        BY <3>2 DEF First, Last, WorkItem
    <2>2. ASSUME done < Len(works) PROVE Next1 \in Nat \ {0}
      <3>1. works[done + 1] \in WorkItem
        BY <2>2 DEF TypeInv, TypeOK
      <3>2. QED
        BY <3>1 DEF Next1, WorkItem
    <2>3. \/ Start \/ Resume \/ NextCycle \/ RunBatch
          => TypeInv'
      BY TypeStart, TypeResume, TypeNextCycle, TypeRunBatch
    <2>4. CASE ResumeRaises
      <3>1. processes' \in 0..MaxProcesses[continuous]
        BY <2>4, ResearchAssumption DEF ResumeRaises, TypeInv, TypeOK
      <3>2. /\ pc = "none" /\ run' = "running"
            /\ UNCHANGED <<continuous, control, ledger, checkpoints, pc, workers, generation,
                           works, done, fresh, best, lead>>
        BY <2>4 DEF ResumeRaises
      <3>3. QED
        BY <3>1, <3>2 DEF TypeInv, TypeOK, Progress
    <2>5. CASE Crash \/ BatchRaises \/ SetPaused \/ SetStopped \/ Complete
      BY <2>5 DEF Crash, BatchRaises, SetPaused, SetStopped, Complete, Exit, TypeInv, TypeOK, Progress
    <2>6. ASSUME NEW state \in {"running", "paused", "stopped"}, Request(state) PROVE TypeInv'
      BY <2>6 DEF Request, TypeInv, TypeOK, Progress
    <2>7. ASSUME NEW next \in Nat \ {0}, NEW g \in 1..(MaxGeneration + 1), NEW completed \in Nat,
                 PutCheckpoint(next, g, completed)
          PROVE  checkpoints' \in Seq(Checkpoint)
      BY <2>7, PutCheckpointFacts DEF TypeInv, TypeOK
    <2>8. generation \in 1..(MaxGeneration + 1) /\ generation + 1 \in 1..(MaxGeneration + 1)
      BY ResearchAssumption DEF TypeInv, TypeOK, Generations
    <2>9. CASE Wait
      <3>1. checkpoints' \in Seq(Checkpoint)
        BY <2>1, <2>7, <2>8, <2>9 DEF Wait, TypeInv, TypeOK
      <3>2. QED
        BY <2>1, <2>9, <3>1 DEF Wait, TypeInv, TypeOK, Progress
    <2>10. CASE Guard
      <3>1. checkpoints' \in Seq(Checkpoint)
        BY <2>1, <2>7, <2>8, <2>10 DEF Guard, TypeInv, TypeOK
      <3>2. QED
        BY <2>1, <2>10, <3>1 DEF Guard, TypeInv, TypeOK, Progress
    <2>11. CASE Preempt
      <3>1. checkpoints' \in Seq(Checkpoint)
        BY <2>2, <2>7, <2>8, <2>11 DEF Preempt, TypeInv, TypeOK
      <3>2. QED
        BY <2>11, <3>1 DEF Preempt, TypeInv, TypeOK, Progress
    <2>12. CASE Gate
      <3>1. checkpoints' \in Seq(Checkpoint)
        BY <2>2, <2>7, <2>8, <2>12 DEF Gate, TypeInv, TypeOK
      <3>2. QED
        BY <2>12, <3>1 DEF Gate, TypeInv, TypeOK, Progress
    <2>13. CASE Held
      <3>1. checkpoints' \in Seq(Checkpoint)
        BY <2>2, <2>7, <2>8, <2>13 DEF Held, TypeInv, TypeOK
      <3>2. QED
        BY <2>13, <3>1 DEF Held, TypeInv, TypeOK, Progress
    <2>14. CASE CheckpointBatch
      <3>1. works[done].ordinal + 1 \in Nat \ {0} /\ done \in Nat
        <4>1. done \in 1..Len(works) /\ works \in Seq(WorkItem)
          BY <2>14 DEF CheckpointBatch, TypeInv, TypeOK, Progress
        <4>2. works[done] \in WorkItem
          BY <4>1
        <4>3. QED
          BY <4>1, <4>2 DEF WorkItem
      <3>2. checkpoints' \in Seq(Checkpoint)
        BY <2>7, <2>8, <2>14, <3>1 DEF CheckpointBatch
      <3>3. /\ pc' = "gate" => done < Len(works)
            /\ pc' = "stress" => fresh # {} /\ done = Len(works)
            /\ pc' = "close" => fresh = {} /\ done = Len(works)
            /\ pc' \in {"gate", "stress", "close"} /\ pc = "committed"
            /\ UNCHANGED <<control, run, ledger, process, done, fresh, best>>
        <4>1. done \in 0..Len(works) /\ Len(works) \in Nat
          BY DEF TypeInv, TypeOK
        <4>2. QED
          BY <2>14, <4>1 DEF CheckpointBatch
      <3>4. QED
        BY <3>2, <3>3 DEF TypeInv, TypeOK, Progress
    <2>15. CASE ChooseBest
      BY <2>15 DEF ChooseBest, TypeInv, TypeOK, Progress
    <2>16. CASE Seal
      <3>1. sealed' \in [Hashes -> Nat]
        <4> DEFINE x == works[best].hash
        <4>1. sealed \in [Hashes -> Nat] /\ sealed' = [sealed EXCEPT ![x] = sealed[x] + 1]
          BY <2>16 DEF Seal, TypeInv, TypeOK
        <4>2. sealed' = [h \in Hashes |-> IF h = x THEN sealed[h] + 1 ELSE sealed[h]]
          BY <4>1
        <4> HIDE DEF x
        <4>3. \A h \in Hashes : (IF h = x THEN sealed[h] + 1 ELSE sealed[h]) \in Nat
          BY <4>1
        <4>4. QED
          BY <4>2, <4>3
      <3>2. QED
        BY <2>16, <3>1 DEF Seal, TypeInv, TypeOK, Progress
    <2>17. CASE Promote
      <3>1. works[best].hash \in Hashes /\ Fitness[works[best].hash] \in Nat
        <4>1. best \in 1..Len(works) /\ works \in Seq(WorkItem)
          BY <2>17 DEF Promote, TypeInv, TypeOK
        <4>2. works[best] \in WorkItem
          BY <4>1
        <4>3. QED
          BY <4>2, ResearchAssumption DEF WorkItem
      <3>2. promotions' \in Seq(Promotion)
        <4>1. PICK promoted \in BOOLEAN :
                promotions' = Append(promotions, [hash |-> works[best].hash,
                                score |-> Fitness[works[best].hash], promoted |-> promoted])
          BY <2>17 DEF Promote
        <4>2. [hash |-> works[best].hash, score |-> Fitness[works[best].hash],
               promoted |-> promoted] \in Promotion
          BY <3>1 DEF Promotion
        <4>3. promotions \in Seq(Promotion)
          BY DEF TypeInv, TypeOK
        <4>4. QED
          BY <4>1, <4>2, <4>3
      <3>3. QED
        BY <2>17, <3>2 DEF Promote, TypeInv, TypeOK, Progress
    <2>18. CASE Close
      <3>1. checkpoints' \in Seq(Checkpoint)
        BY <2>1, <2>7, <2>8, <2>18 DEF Close, TypeInv, TypeOK
      <3>2. QED
        BY <2>1, <2>18, <3>1 DEF Close, TypeInv, TypeOK, Progress
    <2>19. CASE UNCHANGED vars
      BY <2>19 DEF vars, TypeInv, TypeOK, Progress
    <2>20. QED
      BY <2>3, <2>4, <2>5, <2>6, <2>9, <2>10, <2>11, <2>12, <2>13, <2>14, <2>15, <2>16,
         <2>17, <2>18, <2>19 DEF Next, Work
  <1>3. QED
    BY <1>1, <1>2, PTL DEF Spec

-----------------------------------------------------------------------------
(* Champions.                                                              *)

\* A candidate that has been sealed has a trial, and what may still be sealed has not
\* been; the best promoted score is there to be found.
ChampionInv ==
  /\ \A h \in Hashes : sealed[h] <= 1 /\ (sealed[h] > 0 => h \in Tried)
  /\ pc # "none" => \A k \in fresh : works[k].hash \in Tried /\ ~works[k].duplicate
  /\ pc \notin {"none", "promote", "close", "finish"} =>
       \A k \in 1..Len(works) : ~works[k].duplicate => sealed[works[k].hash] = 0
  /\ \A i, j \in DOMAIN promotions :
       i < j /\ promotions[i].promoted /\ promotions[j].promoted
         => promotions[i].score < promotions[j].score
  /\ (\E i \in DOMAIN promotions : promotions[i].promoted) =>
       \E i \in DOMAIN promotions :
         /\ promotions[i].promoted
         /\ \A j \in DOMAIN promotions : promotions[j].promoted => promotions[j].score <= promotions[i].score

\* Steps that try, seal and promote nothing and do not give the process other work.
LEMMA ChampionsKept ==
  ASSUME ChampionInv, UNCHANGED <<trials, promotions, sealed, works, fresh>>,
         pc' = "none" \/ pc # "none",
         pc' \in {"none", "promote", "close", "finish"} \/ pc \notin {"none", "promote", "close", "finish"}
  PROVE  ChampionInv'
  BY DEF ChampionInv, Tried

\* A process with new work has no results, and what it may seal has no trial.
LEMMA ChampionsEnter ==
  ASSUME TypeInv, ChampionInv, UNCHANGED <<trials, promotions, sealed>>,
         works' \in Seq(WorkItem), fresh' = {},
         \A k \in 1..Len(works') : ~works'[k].duplicate => works'[k].hash \notin Tried
  PROVE  ChampionInv'
  <1>1. ASSUME NEW k \in 1..Len(works'), ~works'[k].duplicate PROVE sealed'[works'[k].hash] = 0
    <2>1. works'[k].hash \in Hashes
      <3>1. works'[k] \in WorkItem
        OBVIOUS
      <3>2. QED
        BY <3>1 DEF WorkItem
    <2>2. sealed \in [Hashes -> Nat] /\ sealed' = sealed
      BY DEF TypeInv, TypeOK
    <2>3. ~(sealed[works'[k].hash] > 0)
      BY <1>1, <2>1 DEF ChampionInv
    <2>4. QED
      BY <2>1, <2>2, <2>3
  <1>2. QED
    BY <1>1 DEF ChampionInv, Tried

LEMMA ChampionsRunBatch == TypeInv /\ ChampionInv /\ RunBatch => ChampionInv'
  <1> SUFFICES ASSUME TypeInv, ChampionInv, RunBatch PROVE ChampionInv'
    OBVIOUS
  <1>1. Tried \subseteq Tried' /\ \A k \in Batch : works[k].hash \in Tried'
    BY RunBatchFacts DEF TypeInv
  <1>2. /\ pc = "dispatched" /\ pc' = "committed"
        /\ fresh' \subseteq fresh \cup {k \in Batch : ~works[k].duplicate}
        /\ UNCHANGED <<promotions, sealed, works>>
    BY DEF RunBatch, process
  <1>3. \A k \in fresh' : works'[k].hash \in Tried' /\ ~works'[k].duplicate
    BY <1>1, <1>2 DEF ChampionInv
  <1>4. \A h \in Hashes : sealed'[h] <= 1 /\ (sealed'[h] > 0 => h \in Tried')
    BY <1>1, <1>2 DEF ChampionInv
  <1>5. QED
    BY <1>2, <1>3, <1>4 DEF ChampionInv

LEMMA ChampionsSeal == TypeInv /\ ChampionInv /\ Seal => ChampionInv'
  <1> SUFFICES ASSUME TypeInv, ChampionInv, Seal PROVE ChampionInv'
    OBVIOUS
  <1> DEFINE x == works[best].hash
  <1>1. best \in fresh /\ best \in 1..Len(works)
    BY DEF Seal, TypeInv, TypeOK
  <1>2. sealed[x] = 0 /\ x \in Tried
    BY <1>1 DEF Seal, ChampionInv
  <1>3. /\ sealed \in [Hashes -> Nat] /\ sealed' = [sealed EXCEPT ![x] = sealed[x] + 1]
        /\ pc = "seal" /\ pc' = "promote" /\ UNCHANGED <<trials, promotions, works, fresh>>
    BY DEF Seal, TypeInv, TypeOK, process
  <1> HIDE DEF x
  <1>4. ASSUME NEW h \in Hashes PROVE sealed'[h] <= 1 /\ (sealed'[h] > 0 => h \in Tried')
    <2>1. CASE h = x
      <3>1. sealed'[h] = 1
        BY <1>2, <1>3, <2>1
      <3>2. QED
        BY <1>2, <1>3, <2>1, <3>1 DEF Tried
    <2>2. CASE h # x
      <3>1. sealed'[h] = sealed[h]
        BY <1>3, <2>2
      <3>2. QED
        BY <1>3, <3>1 DEF ChampionInv, Tried
    <2>3. QED
      BY <2>1, <2>2
  <1>5. QED
    BY <1>3, <1>4 DEF ChampionInv, Tried

\* The incumbent's score is not below that of any champion.
LEMMA IncumbentIsBest ==
  ASSUME ChampionInv, NEW i \in DOMAIN promotions, promotions[i].promoted
  PROVE  promotions[i].score <= IncumbentScore
  <1> DEFINE champions == {j \in DOMAIN promotions : promotions[j].promoted}
             isBest(j) == \A k \in champions : promotions[k].score <= promotions[j].score
  <1>1. \E j \in champions : isBest(j)
    BY DEF ChampionInv
  <1>2. IncumbentScore = promotions[CHOOSE j \in champions : isBest(j)].score
    BY DEF IncumbentScore
  <1>3. isBest(CHOOSE j \in champions : isBest(j))
    <2> HIDE DEF isBest, champions
    <2> QED
      BY <1>1
  <1>4. QED
    BY <1>2, <1>3

LEMMA ChampionsPromote == TypeInv /\ ChampionInv /\ Promote => ChampionInv'
  <1> SUFFICES ASSUME TypeInv, ChampionInv, Promote PROVE ChampionInv'
    OBVIOUS
  <1>1. PICK promoted \in BOOLEAN :
          /\ promoted => Fitness[works[best].hash] > IncumbentScore
          /\ promotions' = Append(promotions, [hash |-> works[best].hash,
                              score |-> Fitness[works[best].hash], promoted |-> promoted])
    BY DEF Promote
  <1> DEFINE score == Fitness[works[best].hash]
             new   == [hash |-> works[best].hash, score |-> score, promoted |-> promoted]
             n     == Len(promotions)
  <1>2. new \in Promotion
    <2>1. best \in 1..Len(works) /\ works \in Seq(WorkItem)
      BY DEF Promote, TypeInv, TypeOK
    <2>2. works[best] \in WorkItem
      BY <2>1
    <2>3. works[best].hash \in Hashes /\ score \in Nat
      BY <2>2, ResearchAssumption DEF WorkItem
    <2> HIDE DEF score
    <2>4. QED
      BY <2>3 DEF Promotion
  <1>3. promotions \in Seq(Promotion)
    BY DEF TypeInv, TypeOK
  <1>4. new.promoted = promoted /\ new.score = score /\ score \in Nat
    <2>1. new.promoted = promoted /\ new.score = score
      OBVIOUS
    <2> HIDE DEF new, score
    <2>2. QED
      BY <1>2, <2>1 DEF Promotion
  <1>5. \A i \in DOMAIN promotions : promotions[i].score \in Nat
    <2>1. ASSUME NEW i \in DOMAIN promotions PROVE promotions[i].score \in Nat
      <3>1. promotions[i] \in Promotion
        BY <1>3
      <3>2. QED
        BY <3>1 DEF Promotion
    <2>2. QED
      BY <2>1
  <1>6. promotions' = Append(promotions, new)
    BY <1>1
  <1>7. /\ UNCHANGED <<trials, sealed, works, fresh>> /\ pc = "promote" /\ pc' = "close"
    BY DEF Promote, process
  <1>8. \A i \in DOMAIN promotions : promotions[i].promoted /\ promoted => promotions[i].score < score
    <2>1. ASSUME NEW i \in DOMAIN promotions, promotions[i].promoted, promoted
          PROVE  promotions[i].score < score
      <3>1. promotions[i].score <= IncumbentScore /\ score > IncumbentScore
        BY <1>1, <2>1, IncumbentIsBest
      <3>2. promotions[i].score \in Nat /\ score \in Nat
        BY <1>4, <1>5
      <3>3. IncumbentScore \in Nat
        <4> DEFINE champions == {j \in DOMAIN promotions : promotions[j].promoted}
                   isBest(j) == \A k \in champions : promotions[k].score <= promotions[j].score
        <4>1. \E j \in champions : isBest(j)
          BY <2>1 DEF ChampionInv
        <4>2. IncumbentScore = promotions[CHOOSE j \in champions : isBest(j)].score
          BY <2>1 DEF IncumbentScore
        <4>3. (CHOOSE j \in champions : isBest(j)) \in champions
          <5> HIDE DEF isBest, champions
          <5> QED
            BY <4>1
        <4>4. QED
          BY <1>5, <4>2, <4>3
      <3>4. QED
        BY <3>1, <3>2, <3>3
    <2>2. QED
      BY <2>1
  <1> HIDE DEF new, score
  <1>9. /\ n \in Nat /\ DOMAIN promotions = 1..n /\ DOMAIN promotions' = 1..(n + 1)
        /\ \A i \in 1..n : promotions'[i] = promotions[i]
        /\ promotions'[n + 1] = new
    BY <1>2, <1>3, <1>6
  <1>10. \A i \in 1..n : promotions[i].score \in Nat
    BY <1>9, <1>5
  <1>11. score \in Nat
    BY <1>4
  <1> HIDE DEF n
  <1>12. ASSUME NEW i \in DOMAIN promotions', NEW j \in DOMAIN promotions', i < j,
                promotions'[i].promoted, promotions'[j].promoted
         PROVE  promotions'[i].score < promotions'[j].score
    <2>1. i \in 1..n /\ promotions'[i] = promotions[i]
      BY <1>9, <1>12
    <2>2. CASE j \in 1..n
      BY <1>9, <1>12, <2>1, <2>2 DEF ChampionInv
    <2>3. CASE j = n + 1
      BY <1>4, <1>8, <1>9, <1>12, <2>1, <2>3
    <2>4. QED
      BY <1>9, <2>2, <2>3
  <1>13. ASSUME \E i \in DOMAIN promotions' : promotions'[i].promoted
         PROVE  \E i \in DOMAIN promotions' :
                  /\ promotions'[i].promoted
                  /\ \A j \in DOMAIN promotions' :
                       promotions'[j].promoted => promotions'[j].score <= promotions'[i].score
    <2>1. CASE promoted
      <3>1. n + 1 \in DOMAIN promotions' /\ promotions'[n + 1].promoted
        <4>1. n + 1 \in DOMAIN promotions'
          BY <1>9
        <4>2. promotions'[n + 1].promoted = promoted
          BY <1>4, <1>9
        <4>3. QED
          BY <2>1, <4>1, <4>2
      <3>2. ASSUME NEW j \in DOMAIN promotions', promotions'[j].promoted
            PROVE  promotions'[j].score <= promotions'[n + 1].score
        <4>1. CASE j \in 1..n
          BY <1>4, <1>8, <1>9, <1>10, <1>11, <2>1, <3>2, <4>1
        <4>2. CASE j = n + 1
          BY <1>4, <1>9, <1>11, <4>2
        <4>3. QED
          BY <1>9, <4>1, <4>2
      <3>3. QED
        BY <3>1, <3>2
    <2>2. CASE ~promoted
      <3>1. \A j \in DOMAIN promotions' : promotions'[j].promoted =>
              j \in DOMAIN promotions /\ promotions'[j] = promotions[j]
        BY <1>4, <1>9, <2>2
      <3>2. PICK i \in DOMAIN promotions :
              /\ promotions[i].promoted
              /\ \A j \in DOMAIN promotions : promotions[j].promoted => promotions[j].score <= promotions[i].score
        BY <1>13, <3>1 DEF ChampionInv
      <3>3. i \in DOMAIN promotions' /\ promotions'[i] = promotions[i]
        BY <1>9
      <3>4. QED
        BY <3>1, <3>2, <3>3
    <2>3. QED
      BY <2>1, <2>2
  <1>14. QED
    BY <1>7, <1>12, <1>13 DEF ChampionInv, Tried

\* A champion is earned: the sealed final test of a candidate is used once in a run,
\* though processes die right after it and candidates come up again, and champions only
\* get better, whatever a resumed process forgot.
THEOREM ChampionsEarned == Spec => []ChampionsAreEarned
  <1>1. ASSUME Init PROVE ChampionInv
    BY <1>1 DEF Init, ChampionInv
  <1>2. TypeInv /\ ChampionInv /\ [Next]_vars => ChampionInv'
    <2> SUFFICES ASSUME TypeInv, ChampionInv, [Next]_vars PROVE ChampionInv'
      OBVIOUS
    <2> USE DEF ledger, process
    <2>1. CASE Start
      <3>1. /\ Enter(1, 1, 0, NoHash) /\ UNCHANGED <<trials, promotions, sealed>>
            /\ 1 \in Generations /\ NoHash \in Incumbents /\ 0 \in 0..(Budget - 1) /\ 1 \in Nat \ {0}
        BY <2>1, ResearchAssumption DEF Start, Generations, Incumbents
      <3>2. QED
        BY <3>1, EnterFacts, ChampionsEnter
    <2>2. CASE Resume
      <3>1. PICK c \in Checkpoint :
              /\ c.generation \in Generations /\ c.next \in Nat \ {0}
              /\ SkipOf(c) \in 0..(Budget - 1)
              /\ Enter(c.generation, c.next, SkipOf(c), NoHash)
        BY <2>2, ResumeFacts DEF TypeInv
      <3>2. UNCHANGED <<trials, promotions, sealed>> /\ NoHash \in Incumbents
        BY <2>2 DEF Resume, Incumbents
      <3>3. QED
        BY <3>1, <3>2, EnterFacts, ChampionsEnter
    <2>3. CASE NextCycle
      <3>1. /\ generation + 1 \in Generations /\ lead' \in Incumbents
            /\ Last + 1 \in Nat \ {0} /\ 0 \in 0..(Budget - 1)
            /\ Enter(generation + 1, Last + 1, 0, lead')
            /\ UNCHANGED <<trials, promotions, sealed>>
        BY <2>3, NextCycleFacts DEF NextCycle
      <3>2. QED
        BY <3>1, EnterFacts, ChampionsEnter
    <2>4. RunBatch \/ Seal \/ Promote => ChampionInv'
      BY ChampionsRunBatch, ChampionsSeal, ChampionsPromote
    <2>5. CASE Wait \/ Guard \/ Preempt \/ Gate \/ Held
      BY <2>5, ChampionsKept DEF Wait, Guard, Preempt, Gate, Held
    <2>6. CASE SetPaused \/ SetStopped \/ BatchRaises \/ Crash \/ Complete
      BY <2>6, ChampionsKept DEF SetPaused, SetStopped, BatchRaises, Crash, Complete, Exit
    <2>7. CASE CheckpointBatch \/ ChooseBest \/ Close
      BY <2>7, ChampionsKept DEF CheckpointBatch, ChooseBest, Close
    <2>8. CASE ResumeRaises
      BY <2>8, ChampionsKept DEF ResumeRaises
    <2>9. ASSUME NEW state \in {"running", "paused", "stopped"}, Request(state) PROVE ChampionInv'
      BY <2>9 DEF Request, ChampionInv, Tried
    <2>10. CASE UNCHANGED vars
      BY <2>10 DEF vars, ChampionInv, Tried
    <2>11. QED
      BY <2>1, <2>2, <2>3, <2>4, <2>5, <2>6, <2>7, <2>8, <2>9, <2>10 DEF Next, Work
  <1>3. ChampionInv => ChampionsAreEarned
    BY DEF ChampionInv, ChampionsAreEarned
  <1>4. QED
    BY <1>1, <1>2, <1>3, TypeCorrect, PTL DEF Spec

-----------------------------------------------------------------------------
(* The operator's stop.                                                    *)

\* What was committed after the stop was one batch, and none will follow.
DrainInv ==
  /\ \E w \in WorkerCounts : late <= w
  /\ late > 0 => control = "stopped" /\ pc # "dispatched" /\ run # "none"

\* After the operator's stop at most one batch is committed, the one under way, though
\* the process may die and another one resume the run.  (A batch a process died in has
\* no trials: nothing says that a stopped run has finished what it began.)
THEOREM StopIsDrained == Spec => []StopDrains
  <1>1. ASSUME Init PROVE DrainInv
    BY <1>1, ResearchAssumption DEF Init, DrainInv
  <1>2. TypeInv /\ DrainInv /\ [Next]_vars => DrainInv'
    <2> SUFFICES ASSUME TypeInv, DrainInv, [Next]_vars PROVE DrainInv'
      OBVIOUS
    <2> USE DEF ledger, process
    <2>1. late \in Nat /\ (pc # "none" => run # "none") /\ workers \in WorkerCounts
      BY DEF TypeInv, TypeOK
    <2>2. CASE RunBatch
      <3>1. /\ done \in 0..Len(works) /\ BatchEnd \in (done + 1)..Len(works) /\ Len(works) \in Nat
            /\ BatchEnd - done <= workers
        BY <2>2, BatchFacts DEF RunBatch, TypeInv
      <3>2. late = 0 /\ control' = control /\ pc' = "committed" /\ run' = run /\ run # "none"
            /\ late' = IF control = "stopped" THEN late + (BatchEnd - done) ELSE late
        BY <2>1, <2>2 DEF RunBatch, DrainInv
      <3>3. CASE control = "stopped"
        <4>1. late' <= workers
          BY <3>1, <3>2, <3>3
        <4>2. QED
          BY <2>1, <3>2, <3>3, <4>1 DEF DrainInv
      <3>4. CASE control # "stopped"
        BY <3>2, <3>4 DEF DrainInv
      <3>5. QED
        BY <3>3, <3>4
    <2>3. CASE Start
      BY <2>1, <2>3 DEF Start, DrainInv
    <2>4. CASE Gate \/ Held
      BY <2>1, <2>4 DEF Gate, Held, DrainInv
    <2>5. CASE Wait \/ Guard \/ Preempt \/ CheckpointBatch \/ ChooseBest \/ Close
      BY <2>5 DEF Wait, Guard, Preempt, CheckpointBatch, ChooseBest, Close, DrainInv
    <2>6. CASE SetPaused \/ SetStopped \/ BatchRaises \/ Crash \/ Complete
      BY <2>6 DEF SetPaused, SetStopped, BatchRaises, Crash, Complete, Exit, DrainInv
    <2>7. CASE Seal \/ Promote \/ NextCycle \/ Resume \/ ResumeRaises
      BY <2>7 DEF Seal, Promote, NextCycle, Resume, ResumeRaises, DrainInv
    <2>8. ASSUME NEW state \in {"running", "paused", "stopped"}, Request(state) PROVE DrainInv'
      BY <2>8 DEF Request, DrainInv
    <2>9. CASE UNCHANGED vars
      BY <2>9 DEF vars, DrainInv
    <2>10. QED
      BY <2>2, <2>3, <2>4, <2>5, <2>6, <2>7, <2>8, <2>9 DEF Next, Work
  <1>3. DrainInv => StopDrains
    BY DEF DrainInv, StopDrains
  <1>4. QED
    BY <1>1, <1>2, <1>3, TypeCorrect, PTL DEF Spec

-----------------------------------------------------------------------------
(* A complete run.                                                         *)

\* The first list, and how much of it has trials.
List == Generated[1][NoHash]
Covered(n) == \A k \in 1..n : k <= Budget => List[k] \in Tried

\* A checkpoint covers what it says.
Covers(c) == Covered(IF c.generation = 1 THEN c.completed ELSE Budget)

\* All do, and the process works on what is left.
CoverInv ==
  /\ \A i \in DOMAIN checkpoints : Covers(checkpoints[i])
  /\ pc # "none" /\ generation = 1 =>
       /\ Covered(Budget - Len(works)) /\ Len(works) <= Budget
       /\ \A k \in 1..Len(works) : works[k].hash = List[Budget - Len(works) + k]
       /\ \A k \in 1..done : works[k].hash \in Tried
  /\ pc # "none" /\ generation > 1 => Covered(Budget)
  /\ run = "completed" => Covered(Budget)

\* Checkpoints that are put cover what they say if the new one does.
LEMMA CheckpointsCover ==
  ASSUME TypeInv, CoverInv, UNCHANGED trials,
         NEW next \in Nat \ {0}, NEW g \in 1..(MaxGeneration + 1), NEW completed \in Nat,
         PutCheckpoint(next, g, completed), Covered(IF g = 1 THEN completed ELSE Budget)
  PROVE  (\A i \in DOMAIN checkpoints : Covers(checkpoints[i]))'
  <1> DEFINE c == [next |-> next, generation |-> g, completed |-> completed]
  <1>1. c.generation = g /\ c.completed = completed
    OBVIOUS
  <1>2. Covers(c)
    BY <1>1 DEF Covers
  <1>3. \A i \in DOMAIN checkpoints : Covers(checkpoints[i])
    BY DEF CoverInv
  <1>4. \A i \in DOMAIN checkpoints' :
          \/ i \in DOMAIN checkpoints /\ checkpoints'[i] = checkpoints[i]
          \/ checkpoints'[i] = c
    BY PutCheckpointFacts DEF TypeInv, TypeOK
  <1> HIDE DEF c
  <1>5. ASSUME NEW i \in DOMAIN checkpoints'
        PROVE  \A k \in 1..(IF checkpoints'[i].generation = 1 THEN checkpoints'[i].completed ELSE Budget) :
                 k <= Budget => List[k] \in Tried
    BY <1>2, <1>3, <1>4 DEF Covers, Covered
  <1>6. Tried' = Tried
    BY DEF Tried
  <1>7. QED
    BY <1>5, <1>6 DEF Covers, Covered, List

\* Steps of a process that keep its work and what is done.
LEMMA CoverKept ==
  ASSUME CoverInv, UNCHANGED <<trials, generation, works, done>>,
         pc' = "none" \/ pc # "none",
         (\A i \in DOMAIN checkpoints : Covers(checkpoints[i]))',
         run' = "completed" => Covered(Budget)
  PROVE  CoverInv'
  <1>1. Tried' = Tried
    BY DEF Tried
  <1>2. QED
    BY <1>1 DEF CoverInv, Covered, List

\* A process that begins a list where a checkpoint covers what it leaves out.
LEMMA CoverEnter ==
  ASSUME CoverInv, UNCHANGED <<trials, checkpoints>>, run' # "completed",
         NEW g \in Generations, NEW incumbent \in Incumbents, NEW start \in Nat \ {0},
         NEW skip \in 0..(Budget - 1), Enter(g, start, skip, incumbent),
         g = 1 => incumbent = NoHash /\ Covered(skip),
         g > 1 => Covered(Budget)
  PROVE  CoverInv'
  <1>1. Budget \in Nat
    BY ResearchAssumption
  <1>2. /\ generation' = g /\ done' = 0 /\ Len(works') = Budget - skip
        /\ \A k \in 1..Len(works') : works'[k].hash = Generated[g][incumbent][skip + k]
    <2>1. generation' = g /\ done' = 0 /\ works' = CycleWork(g, incumbent, start, skip)
      BY DEF Enter
    <2>2. /\ Len(works') = Budget - skip
          /\ \A k \in 1..(Budget - skip) : works'[k].hash = Generated[g][incumbent][skip + k]
      BY <2>1, CycleWorkFacts
    <2>3. QED
      BY <2>1, <2>2
  <1>3. Budget - Len(works') = skip /\ Len(works') <= Budget
    BY <1>1, <1>2
  <1>4. Tried' = Tried
    BY DEF Tried
  <1>5. (\A i \in DOMAIN checkpoints : Covers(checkpoints[i]))'
    BY <1>4 DEF CoverInv, Covers, Covered, List
  <1>6. (generation = 1 => \A k \in 1..Len(works) : works[k].hash = List[Budget - Len(works) + k])'
    BY <1>2, <1>3 DEF List
  <1>7. (generation = 1 => Covered(Budget - Len(works)) /\ Len(works) <= Budget)'
    BY <1>2, <1>3, <1>4 DEF Covered, List
  <1>8. (generation > 1 => Covered(Budget))'
    BY <1>2, <1>4 DEF Covered, List
  <1>9. (\A k \in 1..done : works[k].hash \in Tried)'
    BY <1>2
  <1>10. QED
    BY <1>5, <1>6, <1>7, <1>8, <1>9 DEF CoverInv

\* A process that has done its work has covered the first list.
LEMMA DoneCovers ==
  ASSUME TypeInv, CoverInv, pc # "none", generation = 1
  PROVE  Covered(done) /\ (done = Len(works) => Covered(Budget))
  <1> DEFINE skip == Budget - Len(works)
  <1>1. /\ Budget \in Nat /\ Len(works) \in Nat /\ done \in 0..Len(works) /\ skip \in Nat
        /\ skip + Len(works) = Budget
    <2>1. works \in Seq(WorkItem) /\ done \in 0..Len(works)
      BY DEF TypeInv, TypeOK
    <2>2. Budget \in Nat /\ Len(works) <= Budget
      BY ResearchAssumption DEF CoverInv
    <2>3. QED
      BY <2>1, <2>2
  <1>2. /\ \A k \in 1..skip : List[k] \in Tried
        /\ \A k \in 1..done : List[skip + k] \in Tried
    <2>1. Covered(skip)
      BY DEF CoverInv
    <2>2. \A k \in 1..done : k \in 1..Len(works)
      BY <1>1
    <2>3. \A k \in 1..done : works[k].hash = List[skip + k] /\ works[k].hash \in Tried
      <3>1. /\ \A k \in 1..Len(works) : works[k].hash = List[Budget - Len(works) + k]
            /\ \A k \in 1..done : works[k].hash \in Tried
        BY DEF CoverInv
      <3>2. QED
        BY <2>2, <3>1
    <2> HIDE DEF skip
    <2>4. \A k \in 1..skip : List[k] \in Tried
      BY <1>1, <2>1 DEF Covered
    <2>5. \A k \in 1..done : List[skip + k] \in Tried
      BY <2>3
    <2>6. QED
      BY <2>4, <2>5
  <1> HIDE DEF skip
  <1>3. ASSUME NEW k \in 1..(skip + done) PROVE List[k] \in Tried
    <2>1. CASE k \in 1..skip
      BY <1>1, <1>2, <2>1
    <2>2. CASE k \notin 1..skip
      <3>1. k - skip \in 1..done /\ skip + (k - skip) = k
        BY <1>1, <2>2
      <3>2. QED
        BY <1>2, <3>1
    <2>3. QED
      BY <2>1, <2>2
  <1>4. QED
    BY <1>1, <1>3 DEF Covered

LEMMA CoverRunBatch == TypeInv /\ CoverInv /\ RunBatch => CoverInv'
  <1> SUFFICES ASSUME TypeInv, CoverInv, RunBatch PROVE CoverInv'
    OBVIOUS
  <1>1. Tried \subseteq Tried' /\ \A k \in Batch : works[k].hash \in Tried'
    BY RunBatchFacts DEF TypeInv
  <1>2. /\ done \in 0..Len(works) /\ BatchEnd \in (done + 1)..Len(works) /\ Len(works) \in Nat
    BY BatchFacts DEF RunBatch, TypeInv
  <1>3. /\ done' = BatchEnd /\ pc # "none" /\ pc' # "none"
        /\ UNCHANGED <<run, checkpoints, works, generation>>
    BY DEF RunBatch, process
  <1>4. ASSUME generation = 1, NEW k \in 1..done' PROVE works'[k].hash \in Tried'
    <2>1. CASE k \in 1..done
      BY <1>1, <1>3, <1>4, <2>1 DEF CoverInv
    <2>2. CASE k \notin 1..done
      <3>1. k \in Batch
        BY <1>2, <1>3, <2>2 DEF Batch
      <3>2. QED
        BY <1>1, <1>3, <3>1
    <2>3. QED
      BY <2>1, <2>2
  <1>5. (\A i \in DOMAIN checkpoints : Covers(checkpoints[i]))'
    BY <1>1, <1>3 DEF CoverInv, Covers, Covered, List
  <1>6. /\ (generation = 1 => Covered(Budget - Len(works)))'
        /\ (generation > 1 => Covered(Budget))'
        /\ (run = "completed" => Covered(Budget))'
    BY <1>1, <1>3 DEF CoverInv, Covered, List
  <1>7. (generation = 1 => /\ Len(works) <= Budget
                           /\ \A k \in 1..Len(works) : works[k].hash = List[Budget - Len(works) + k])'
    BY <1>3 DEF CoverInv, List
  <1>8. (generation = 1 => \A k \in 1..done : works[k].hash \in Tried)'
    BY <1>3, <1>4
  <1>9. QED
    BY <1>5, <1>6, <1>7, <1>8 DEF CoverInv

\* A run that completes, bounded or continuous, has a trial of every candidate of its
\* first list, wherever it was interrupted and however much was done again.
THEOREM FirstListIsCovered == Spec => [](run = "completed" => Covered(Budget))
  <1>1. ASSUME Init PROVE CoverInv
    BY <1>1 DEF Init, CoverInv
  <1>2. TypeInv /\ CoverInv /\ [Next]_vars => CoverInv'
    <2> SUFFICES ASSUME TypeInv, CoverInv, [Next]_vars PROVE CoverInv'
      OBVIOUS
    <2> USE DEF ledger, process
    <2>1. /\ generation \in 1..(MaxGeneration + 1) /\ generation + 1 \in 1..(MaxGeneration + 1)
          /\ generation \in Nat \ {0} /\ Budget \in Nat \ {0} /\ done \in 0..Len(works) /\ 0 \in Nat
          /\ (pc # "none" => run # "completed")
      <3>1. generation \in 1..MaxGeneration /\ MaxGeneration \in Nat \ {0} /\ Budget \in Nat \ {0}
        BY ResearchAssumption DEF TypeInv, TypeOK, Generations
      <3>2. done \in 0..Len(works) /\ (pc # "none" => run # "completed")
        BY DEF TypeInv, TypeOK, Terminal
      <3>3. QED
        BY <3>1, <3>2
    <2>2. ASSUME UNCHANGED <<trials, checkpoints>>
          PROVE  (\A i \in DOMAIN checkpoints : Covers(checkpoints[i]))'
      BY <2>2 DEF CoverInv, Covers, Covered, List, Tried
    <2>3. Covered(0)
      BY DEF Covered
    <2>4. ASSUME pc # "none", generation > 1 PROVE Covered(Budget)
      BY <2>4 DEF CoverInv
    <2>5. ASSUME pc # "none", done = Len(works) PROVE Covered(Budget)
      BY <2>1, <2>4, <2>5, DoneCovers
    <2>6. ASSUME pc # "none" PROVE First \in Nat \ {0} /\ Last + 1 \in Nat \ {0}
      <3>1. works \in Seq(WorkItem) /\ works # <<>>
        BY <2>6 DEF TypeInv, TypeOK
      <3>2. works[1] \in WorkItem /\ works[Len(works)] \in WorkItem
        BY <3>1
      <3>3. QED
        BY <3>2 DEF First, Last, WorkItem
    <2>7. ASSUME done < Len(works) PROVE Next1 \in Nat \ {0}
      <3>1. works[done + 1] \in WorkItem
        BY <2>7 DEF TypeInv, TypeOK
      <3>2. QED
        BY <3>1 DEF Next1, WorkItem
    <2>8. ASSUME pc # "none", UNCHANGED trials, NEW next \in Nat \ {0}, PutCheckpoint(next, generation, 0)
          PROVE  (\A i \in DOMAIN checkpoints : Covers(checkpoints[i]))'
      BY <2>1, <2>3, <2>4, <2>8, CheckpointsCover
    <2>9. CASE Start
      <3>1. /\ Enter(1, 1, 0, NoHash) /\ UNCHANGED <<trials, checkpoints>> /\ run' # "completed"
            /\ 1 \in Generations /\ NoHash \in Incumbents /\ 0 \in 0..(Budget - 1) /\ 1 \in Nat \ {0}
        BY <2>9, ResearchAssumption DEF Start, Generations, Incumbents
      <3>2. QED
        BY <2>3, <3>1, CoverEnter
    <2>10. CASE Resume
      <3>1. PICK c \in Checkpoint :
              /\ c = checkpoints[Len(checkpoints)] /\ Len(checkpoints) \in DOMAIN checkpoints
              /\ c.generation \in Generations /\ c.next \in Nat \ {0}
              /\ SkipOf(c) \in 0..(Budget - 1)
              /\ Enter(c.generation, c.next, SkipOf(c), NoHash)
        BY <2>10, ResumeFacts DEF TypeInv
      <3>2. /\ UNCHANGED <<trials, checkpoints>> /\ NoHash \in Incumbents /\ run' # "completed"
        BY <2>10 DEF Resume, Incumbents
      <3>3. Covers(c)
        BY <3>1 DEF CoverInv
      <3>4. SkipOf(c) <= c.completed /\ c.completed \in Nat /\ c.generation \in Nat
        BY SkipOfFacts DEF Checkpoint
      <3>5. c.generation = 1 => Covered(SkipOf(c))
        BY <3>1, <3>3, <3>4 DEF Covers, Covered
      <3>6. c.generation > 1 => Covered(Budget)
        BY <3>3, <3>4 DEF Covers
      <3>7. QED
        BY <3>1, <3>2, <3>5, <3>6, CoverEnter
    <2>11. CASE NextCycle
      <3>1. /\ generation + 1 \in Generations /\ lead' \in Incumbents
            /\ Last + 1 \in Nat \ {0} /\ 0 \in 0..(Budget - 1)
            /\ Enter(generation + 1, Last + 1, 0, lead')
            /\ UNCHANGED <<trials, checkpoints>> /\ run' # "completed" /\ pc = "finish"
        BY <2>1, <2>11, NextCycleFacts DEF NextCycle
      <3>2. Covered(Budget) /\ generation + 1 # 1
        BY <2>1, <2>5, <3>1 DEF TypeInv, Progress
      <3>3. QED
        BY <3>1, <3>2, CoverEnter
    <2>12. RunBatch => CoverInv'
      BY CoverRunBatch
    <2>13. CASE Wait
      <3>1. (\A i \in DOMAIN checkpoints : Covers(checkpoints[i]))'
        BY <2>2, <2>6, <2>8, <2>13 DEF Wait
      <3>2. QED
        BY <2>1, <2>13, <3>1, CoverKept DEF Wait
    <2>14. CASE Guard
      <3>1. (\A i \in DOMAIN checkpoints : Covers(checkpoints[i]))'
        BY <2>2, <2>6, <2>8, <2>14 DEF Guard
      <3>2. QED
        BY <2>1, <2>14, <3>1, CoverKept DEF Guard
    <2>15. CASE Preempt \/ Gate \/ Held
      <3>1. pc # "none" /\ done < Len(works) /\ UNCHANGED trials /\ pc' # "none"
        BY <2>15 DEF Preempt, Gate, Held, TypeInv, TypeOK
      <3>2. UNCHANGED checkpoints \/ PutCheckpoint(Next1, generation, 0)
        BY <2>15 DEF Preempt, Gate, Held
      <3>3. (\A i \in DOMAIN checkpoints : Covers(checkpoints[i]))'
        BY <2>2, <2>7, <2>8, <3>1, <3>2
      <3>4. UNCHANGED <<generation, works, done>> /\ run' # "completed"
        BY <2>1, <2>15, <3>1 DEF Preempt, Gate, Held
      <3>5. QED
        BY <3>1, <3>3, <3>4, CoverKept
    <2>16. CASE CheckpointBatch
      <3>1. works[done].ordinal + 1 \in Nat \ {0} /\ done \in Nat
        <4>1. done \in 1..Len(works) /\ works \in Seq(WorkItem)
          BY <2>16 DEF CheckpointBatch, TypeInv, TypeOK, Progress
        <4>2. works[done] \in WorkItem
          BY <4>1
        <4>3. QED
          BY <4>1, <4>2 DEF WorkItem
      <3>2. Covered(IF generation = 1 THEN done ELSE Budget)
        BY <2>1, <2>4, <2>16, DoneCovers DEF CheckpointBatch
      <3>3. (\A i \in DOMAIN checkpoints : Covers(checkpoints[i]))'
        BY <2>1, <2>16, <3>1, <3>2, CheckpointsCover DEF CheckpointBatch
      <3>4. QED
        BY <2>1, <2>16, <3>3, CoverKept DEF CheckpointBatch
    <2>17. CASE Close
      <3>1. Covered(Budget) /\ pc # "none"
        BY <2>5, <2>17 DEF Close, TypeInv, Progress
      <3>2. Covered(IF generation + 1 = 1 THEN 0 ELSE Budget)
        BY <2>3, <3>1
      <3>3. (\A i \in DOMAIN checkpoints : Covers(checkpoints[i]))'
        BY <2>1, <2>6, <2>17, <3>1, <3>2, CheckpointsCover DEF Close
      <3>4. QED
        BY <2>1, <2>17, <3>1, <3>3, CoverKept DEF Close
    <2>18. CASE Complete
      <3>1. Covered(Budget)
        BY <2>5, <2>18 DEF Complete, TypeInv, Progress
      <3>2. QED
        BY <2>2, <2>18, <3>1, CoverKept DEF Complete, Exit
    <2>19. CASE ChooseBest \/ Seal \/ Promote
      BY <2>1, <2>2, <2>19, CoverKept DEF ChooseBest, Seal, Promote
    <2>20. CASE SetPaused \/ SetStopped \/ BatchRaises \/ Crash
      BY <2>1, <2>2, <2>20, CoverKept DEF SetPaused, SetStopped, BatchRaises, Crash, Exit
    <2>21. CASE ResumeRaises
      BY <2>2, <2>21, CoverKept DEF ResumeRaises
    <2>22. ASSUME NEW state \in {"running", "paused", "stopped"}, Request(state) PROVE CoverInv'
      BY <2>22 DEF Request, CoverInv, Covers, Covered, List, Tried
    <2>23. CASE UNCHANGED vars
      BY <2>23 DEF vars, CoverInv, Covers, Covered, List, Tried
    <2>24. QED
      BY <2>9, <2>10, <2>11, <2>12, <2>13, <2>14, <2>15, <2>16, <2>17, <2>18, <2>19, <2>20,
         <2>21, <2>22, <2>23 DEF Next, Work
  <1>3. CoverInv => (run = "completed" => Covered(Budget))
    BY DEF CoverInv
  <1>4. QED
    BY <1>1, <1>2, <1>3, TypeCorrect, PTL DEF Spec

\* A bounded run that completes has a trial of every candidate of its list.
COROLLARY CyclesAreCovered == Spec => []CompletedCoversCycle
  <1>1. (run = "completed" => Covered(Budget)) => CompletedCoversCycle
    BY ResearchAssumption DEF Covered, List, CompletedCoversCycle
  <1>2. QED
    BY <1>1, FirstListIsCovered, PTL

-----------------------------------------------------------------------------
(* The portfolio (IntradayPortfolio).  First the sums of integers over the *)
(* domain of a function: MapThenSumSet is defined by a table of the sums   *)
(* over all subsets, so what is to be shown first is that there is one.    *)

\* A set of naturals has a least member, which Min chooses.
LEMMA LeastOf ==
  ASSUME NEW S \in SUBSET Nat, S # {}
  PROVE  Min(S) \in S /\ \A x \in S : Min(S) <= x
  <1>1. PICK x \in S : \A y \in S : ~(<<y, x>> \in OpToRel(<, Nat))
    <2>1. \E x \in S : \A y \in S : ~(<<y, x>> \in OpToRel(<, Nat))
      BY NatLessThanWellFounded, WFMin
    <2>2. QED
      BY <2>1
  <1>2. ASSUME NEW y \in S, y < x
        PROVE  FALSE
    <2>1. <<y, x>> \in Nat \X Nat /\ <<y, x>>[1] = y /\ <<y, x>>[2] = x
      OBVIOUS
    <2>2. <<y, x>> \in OpToRel(<, Nat)
      BY <1>2, <2>1 DEF OpToRel
    <2>3. QED
      BY <1>1, <2>2
  <1>3. \A y \in S : x <= y
    BY <1>2
  <1>4. QED
    BY <1>3 DEF Min

\* The set that Total sums next, and what remains.
Pick(s) == CHOOSE x \in s : TRUE
\* A table of sums: of each set of the family.
IsTable(t, f, family) ==
  t = [s \in family |-> IF s = {} THEN 0 ELSE f[Pick(s)] + t[s \ {Pick(s)}]]
\* The sets of at most so many members.
Sized(S, n) == {s \in SUBSET S : Cardinality(s) <= n}

\* Taking a member away leaves a smaller finite set.
LEMMA OneLess ==
  ASSUME NEW S, IsFiniteSet(S), NEW s \in SUBSET S
  PROVE  /\ IsFiniteSet(s) /\ Cardinality(s) \in Nat
         /\ s = {} <=> Cardinality(s) = 0
         /\ s # {} => /\ Pick(s) \in s
                      /\ s \ {Pick(s)} \in SUBSET S
                      /\ Cardinality(s \ {Pick(s)}) = Cardinality(s) - 1
  <1>1. IsFiniteSet(s)
    BY FS_Subset
  <1>2. Cardinality(s) \in Nat /\ (s = {} <=> Cardinality(s) = 0)
    BY <1>1, FS_CardinalityType, FS_EmptySet
  <1>3. ASSUME s # {} PROVE Pick(s) \in s
    BY <1>3 DEF Pick
  <1>4. ASSUME s # {} PROVE Cardinality(s \ {Pick(s)}) = Cardinality(s) - 1
    BY <1>1, <1>3, <1>4, FS_RemoveElement
  <1>5. QED
    BY <1>1, <1>2, <1>3, <1>4

\* Finite sums have a table: the least size without one would have one.
LEMMA TableExists ==
  ASSUME NEW S, IsFiniteSet(S), NEW f
  PROVE  \E t : IsTable(t, f, SUBSET S)
  <1> DEFINE none == {n \in Nat : ~\E t : IsTable(t, f, Sized(S, n))}
  <1>0. ASSUME NEW s \in SUBSET S
        PROVE  /\ Cardinality(s) \in Nat /\ (s = {} <=> Cardinality(s) = 0)
               /\ s # {} => /\ s \ {Pick(s)} \in SUBSET S
                            /\ Cardinality(s \ {Pick(s)}) = Cardinality(s) - 1
    BY OneLess
  <1>1. none = {}
    <2> SUFFICES ASSUME none # {} PROVE FALSE
      OBVIOUS
    <2>0. none \in SUBSET Nat
      OBVIOUS
    <2>1. PICK n \in none : \A m \in none : n <= m
      <3> HIDE DEF none
      <3> QED  BY <2>0, LeastOf
    <2>2. n # 0
      <3>1. \A s \in Sized(S, 0) : s = {}
        <4>1. ASSUME NEW s \in SUBSET S, Cardinality(s) <= 0 PROVE s = {}
          <5>1. Cardinality(s) \in Nat
            BY <1>0
          <5>2. Cardinality(s) = 0
            BY <4>1, <5>1
          <5> QED  BY <1>0, <5>2
        <4> QED  BY <4>1 DEF Sized
      <3> DEFINE t == [s \in Sized(S, 0) |-> 0]
      <3>2. IsTable(t, f, Sized(S, 0))
        BY <3>1 DEF IsTable
      <3>3. QED
        BY <2>1, <3>2
    <2>3. n - 1 \in Nat /\ n \in Nat
      BY <2>0, <2>1, <2>2
    <2>4. PICK u : IsTable(u, f, Sized(S, n - 1))
      <3>1. n - 1 \notin none
        BY <2>1, <2>3
      <3> QED  BY <2>3, <3>1
    <2> DEFINE t == [s \in Sized(S, n) |-> IF s = {} THEN 0 ELSE f[Pick(s)] + u[s \ {Pick(s)}]]
    <2>5. ASSUME NEW s \in Sized(S, n - 1) PROVE t[s] = u[s]
      <3>1. s \in Sized(S, n)
        <4>1. s \in SUBSET S /\ Cardinality(s) <= n - 1 /\ Cardinality(s) \in Nat
          BY <1>0 DEF Sized
        <4> QED  BY <2>3, <4>1 DEF Sized
      <3>2. t[s] = IF s = {} THEN 0 ELSE f[Pick(s)] + u[s \ {Pick(s)}]
        BY <3>1
      <3>3. u[s] = IF s = {} THEN 0 ELSE f[Pick(s)] + u[s \ {Pick(s)}]
        BY <2>4 DEF IsTable
      <3>4. QED
        BY <3>2, <3>3
    <2>6. ASSUME NEW s \in Sized(S, n), s # {} PROVE t[s \ {Pick(s)}] = u[s \ {Pick(s)}]
      <3>1. s \ {Pick(s)} \in Sized(S, n - 1)
        <4>1. s \in SUBSET S /\ Cardinality(s) <= n /\ Cardinality(s) \in Nat
          BY <1>0 DEF Sized
        <4> QED  BY <1>0, <2>3, <2>6, <4>1 DEF Sized
      <3>2. QED
        BY <2>5, <3>1
    <2>7. IsTable(t, f, Sized(S, n))
      <3>1. \A s \in Sized(S, n) :
               (IF s = {} THEN 0 ELSE f[Pick(s)] + u[s \ {Pick(s)}])
                 = (IF s = {} THEN 0 ELSE f[Pick(s)] + t[s \ {Pick(s)}])
        <4> HIDE DEF t
        <4> QED  BY <2>6
      <3> QED  BY <3>1 DEF IsTable
    <2>8. QED
      <3> HIDE DEF t
      <3> QED  BY <2>1, <2>7
  <1>2. Cardinality(S) \in Nat /\ Sized(S, Cardinality(S)) = SUBSET S
    <2>1. Cardinality(S) \in Nat
      BY FS_CardinalityType
    <2>2. \A s \in SUBSET S : Cardinality(s) <= Cardinality(S)
      BY FS_Subset
    <2>3. QED
      BY <2>1, <2>2 DEF Sized
  <1>3. \E t : IsTable(t, f, Sized(S, Cardinality(S)))
    BY <1>1, <1>2
  <1>4. QED
    BY <1>2, <1>3

\* The sum of a function is what its table of sums has for the whole domain.
LEMMA TotalTable ==
  ASSUME NEW S, IsFiniteSet(S), NEW f, DOMAIN f = S
  PROVE  \E t : IsTable(t, f, SUBSET S) /\ Total(f) = t[S]
  <1> DEFINE table == CHOOSE t : t = [s \in SUBSET S |->
                                        IF s = {} THEN 0
                                        ELSE f[CHOOSE x \in s : TRUE] + t[s \ {CHOOSE x \in s : TRUE}]]
  <1>1. Total(f) = table[S]
    BY DEF Total, MapThenSumSet, MapThenFoldSet
  <1>2. table = CHOOSE t : IsTable(t, f, SUBSET S)
    BY DEF IsTable, Pick
  <1>3. IsTable(table, f, SUBSET S)
    BY <1>2, TableExists
  <1>4. QED
    BY <1>1, <1>3

\* What is closed under addition holds the sums of its members.
LEMMA TotalIn ==
  ASSUME NEW S, IsFiniteSet(S), NEW T, 0 \in T, \A x, y \in T : x + y \in T, NEW f \in [S -> T]
  PROVE  Total(f) \in T
  <1>1. PICK t : IsTable(t, f, SUBSET S) /\ Total(f) = t[S]
    BY TotalTable
  <1> DEFINE bad == {s \in SUBSET S : t[s] \notin T}
             sizes == {Cardinality(s) : s \in bad}
  <1>2. bad = {}
    <2> SUFFICES ASSUME bad # {} PROVE FALSE
      OBVIOUS
    <2>1. sizes \in SUBSET Nat /\ sizes # {}
      <3>1. ASSUME NEW s \in SUBSET S PROVE Cardinality(s) \in Nat
        BY OneLess
      <3> QED  BY <3>1
    <2>2. Min(sizes) \in sizes /\ \A m \in sizes : Min(sizes) <= m
      <3> HIDE DEF sizes
      <3> QED  BY <2>1, LeastOf
    <2>3. PICK s \in bad : Cardinality(s) = Min(sizes)
      BY <2>2
    <2>4. \A z \in bad : Cardinality(s) <= Cardinality(z)
      BY <2>2, <2>3
    <2>5. t[s] = IF s = {} THEN 0 ELSE f[Pick(s)] + t[s \ {Pick(s)}]
      BY <1>1 DEF IsTable
    <2>6. s # {}
      BY <2>5
    <2>7. Pick(s) \in s /\ s \ {Pick(s)} \in SUBSET S
          /\ Cardinality(s \ {Pick(s)}) = Cardinality(s) - 1 /\ Cardinality(s) \in Nat
      BY <2>6, OneLess
    <2>8. s \ {Pick(s)} \notin bad
      BY <2>4, <2>7
    <2>9. f[Pick(s)] \in T /\ t[s \ {Pick(s)}] \in T
      BY <2>7, <2>8
    <2>10. QED
      BY <2>5, <2>6, <2>9
  <1>3. QED
    BY <1>1, <1>2

\* A sum of sums is taken term by term.
LEMMA TotalAdds ==
  ASSUME NEW S, IsFiniteSet(S), NEW f \in [S -> Int], NEW g \in [S -> Int]
  PROVE  Total([s \in S |-> f[s] + g[s]]) = Total(f) + Total(g)
  <1> DEFINE h == [s \in S |-> f[s] + g[s]]
  <1>0. h \in [S -> Int] /\ DOMAIN h = S /\ \A x \in S : h[x] = f[x] + g[x]
    OBVIOUS
  <1> HIDE DEF h
  <1>1. PICK t : IsTable(t, f, SUBSET S) /\ Total(f) = t[S]
    BY TotalTable
  <1>2. PICK u : IsTable(u, g, SUBSET S) /\ Total(g) = u[S]
    BY TotalTable
  <1>3. PICK v : IsTable(v, h, SUBSET S) /\ Total(h) = v[S]
    BY <1>0, TotalTable
  <1> DEFINE Adds(s) == t[s] \in Int /\ u[s] \in Int /\ v[s] = t[s] + u[s]
             bad == {s \in SUBSET S : ~Adds(s)}
             sizes == {Cardinality(s) : s \in bad}
  <1>4. bad = {}
    <2> SUFFICES ASSUME bad # {} PROVE FALSE
      OBVIOUS
    <2>1. sizes \in SUBSET Nat /\ sizes # {}
      <3>1. ASSUME NEW s \in SUBSET S PROVE Cardinality(s) \in Nat
        BY OneLess
      <3> HIDE DEF Adds
      <3> QED  BY <3>1
    <2>2. Min(sizes) \in sizes /\ \A m \in sizes : Min(sizes) <= m
      <3> HIDE DEF sizes
      <3> QED  BY <2>1, LeastOf
    <2>3. PICK s \in bad : Cardinality(s) = Min(sizes)
      BY <2>2
    <2>4. \A z \in bad : Cardinality(s) <= Cardinality(z)
      BY <2>2, <2>3
    <2>5. /\ t[s] = IF s = {} THEN 0 ELSE f[Pick(s)] + t[s \ {Pick(s)}]
          /\ u[s] = IF s = {} THEN 0 ELSE g[Pick(s)] + u[s \ {Pick(s)}]
          /\ v[s] = IF s = {} THEN 0 ELSE h[Pick(s)] + v[s \ {Pick(s)}]
      BY <1>1, <1>2, <1>3 DEF IsTable
    <2>6. s # {}
      BY <2>5
    <2>7. Pick(s) \in s /\ s \ {Pick(s)} \in SUBSET S
          /\ Cardinality(s \ {Pick(s)}) = Cardinality(s) - 1 /\ Cardinality(s) \in Nat
      BY <2>6, OneLess
    <2>8. s \ {Pick(s)} \notin bad
      BY <2>4, <2>7
    <2>9. Adds(s \ {Pick(s)})
      BY <2>7, <2>8
    <2>10. f[Pick(s)] \in Int /\ g[Pick(s)] \in Int /\ h[Pick(s)] = f[Pick(s)] + g[Pick(s)]
      BY <1>0, <2>7
    <2>11. Adds(s)
      BY <2>5, <2>6, <2>9, <2>10
    <2>12. QED
      BY <2>11
  <1>5. QED
    BY <1>1, <1>2, <1>3, <1>4 DEF h

(* A function with finitely many arguments, all in D.                      *)
IsPartial(f, D, R) == f \in [DOMAIN f -> R] /\ DOMAIN f \subseteq D /\ IsFiniteSet(DOMAIN f)

\* More values may be allowed.
LEMMA Widen ==
  ASSUME NEW f, NEW D, NEW R, NEW T, R \subseteq T, IsPartial(f, D, R)
  PROVE  IsPartial(f, D, T)
  <1>1. f \in [DOMAIN f -> R]
    BY DEF IsPartial
  <1>2. \A x \in DOMAIN f : f[x] \in T
    BY <1>1
  <1>3. f \in [DOMAIN f -> T]
    BY <1>1, <1>2
  <1>4. QED
    BY <1>3 DEF IsPartial

\* The limits are positive.
LEMMA LimitsArePositive ==
  /\ MaxGross \in Nat \ {0} /\ MaxNet \in Nat \ {0}
  /\ MaxAsset \in Nat \ {0} /\ MaxStrategy \in Nat \ {0}
  <1>1. MaxGross \in 1..1000 /\ MaxNet \in 1..1000 /\ MaxAsset \in 1..1000 /\ MaxStrategy \in 1..1000
    BY PortfolioAssumption
  <1>2. QED
    BY <1>1

\* Sums of integers are integers, and sums of nothing are nothing.
LEMMA GrossIn ==
  ASSUME NEW T, T = Int \/ T = {0}, NEW D, NEW f, IsPartial(f, D, T)
  PROVE  Total(f) \in T /\ Gross(f) \in T /\ Gross(f) \in Nat
  <1>1. 0 \in T /\ (\A x, y \in T : x + y \in T) /\ T \subseteq Int
    OBVIOUS
  <1>2. Total(f) \in T
    BY <1>1, TotalIn DEF IsPartial
  <1> DEFINE g == [k \in DOMAIN f |-> Magnitude(f[k])]
             N == T \cap Nat
  <1>3. \A k \in DOMAIN f : Magnitude(f[k]) \in N
    BY <1>1 DEF IsPartial, Magnitude
  <1>4. g \in [DOMAIN f -> N]
    BY <1>3
  <1>5. 0 \in N /\ \A x, y \in N : x + y \in N
    BY <1>1
  <1>6. Total(g) \in N
    <2> HIDE DEF g, N
    <2> QED  BY <1>4, <1>5, TotalIn DEF IsPartial
  <1>7. QED
    BY <1>2, <1>6 DEF Gross

\* A part of an integer is an integer, and a part of nothing is nothing.
LEMMA PartIn ==
  ASSUME NEW T, T = Int \/ T = {0}, NEW x \in T, NEW n \in Nat, NEW d \in Nat \ {0}
  PROVE  Part(x, n, d) \in T
  <1>1. CASE T = Int
    <2>1. x * n \in Int /\ -x * n \in Int
      BY <1>1
    <2>2. (x * n) \div d \in Int /\ (-x * n) \div d \in Int
      BY <2>1
    <2>3. QED
      BY <1>1, <2>2 DEF Part
  <1>2. CASE T = {0}
    <2>1. x = 0 /\ 0 * n = 0 /\ 0 \div d = 0
      BY <1>2
    <2>2. QED
      BY <1>2, <2>1 DEF Part
  <1>3. QED
    BY <1>1, <1>2

\* Targets are integers; and nothing where nothing is wished.
LEMMA FractionsIn ==
  ASSUME NEW T, T = Int \/ T = {0}, NEW wishes, IsPartial(wishes, Nat \X Nat, T)
  PROVE  IsPartial(TargetFractions(wishes), Nat, T)
  <1> DEFINE W == DOMAIN wishes
             own(key) == {k \in W : k[1] = key[1]}
             mine(key) == [k \in own(key) |-> wishes[k]]
             of(s) == {k \in W : k[2] = s}
             parts(s) == [k \in of(s) |-> Contribution(wishes, k)]
             symbols == {k[2] : k \in W}
             clipped == [s \in symbols |-> Clip(Total(parts(s)), MaxAsset)]
             gross == Gross(clipped)
             net == Magnitude(Total(clipped))
  <1>0. /\ W \subseteq Nat \X Nat /\ IsFiniteSet(W) /\ \A k \in W : wishes[k] \in T
        /\ {MaxGross, MaxNet, MaxAsset, MaxStrategy} \subseteq Nat \ {0}
    <2>1. {MaxGross, MaxNet, MaxAsset, MaxStrategy} \subseteq Nat \ {0}
      BY LimitsArePositive
    <2>2. QED
      BY <2>1 DEF IsPartial
  <1>1. ASSUME NEW key \in W PROVE Contribution(wishes, key) \in T
    <2>1. IsPartial(mine(key), Nat \X Nat, T)
      <3>1. IsFiniteSet(own(key))
        BY <1>0, FS_Subset
      <3>2. QED
        BY <1>0, <3>1 DEF IsPartial
    <2>2. Gross(mine(key)) \in Nat
      <3> HIDE DEF mine
      <3> QED  BY <2>1, GrossIn
    <2>3. Gross(mine(key)) > MaxStrategy => Part(wishes[key], MaxStrategy, Gross(mine(key))) \in T
      <3> HIDE DEF mine
      <3>1. ASSUME Gross(mine(key)) > MaxStrategy PROVE Gross(mine(key)) \in Nat \ {0}
        BY <1>0, <2>2, <3>1
      <3> QED  BY <1>0, <3>1, PartIn
    <2>4. Contribution(wishes, key) =
            IF Gross(mine(key)) > MaxStrategy THEN Part(wishes[key], MaxStrategy, Gross(mine(key)))
            ELSE wishes[key]
      BY DEF Contribution
    <2>5. QED
      <3> HIDE DEF mine
      <3> QED  BY <1>0, <2>3, <2>4
  <1>2. IsFiniteSet(symbols) /\ symbols \subseteq Nat
    <2>1. IsFiniteSet(symbols)
      <3>1. [k \in W |-> k[2]] \in Surjection(W, symbols)
        BY DEF Surjection
      <3>2. QED
        BY <1>0, <3>1, FS_Surjection
    <2>2. QED
      BY <1>0, <2>1
  <1>3. ASSUME NEW s \in symbols PROVE Clip(Total(parts(s)), MaxAsset) \in T
    <2>1. IsPartial(parts(s), Nat \X Nat, T)
      <3>1. IsFiniteSet(of(s))
        BY <1>0, FS_Subset
      <3>2. QED
        BY <1>0, <1>1, <3>1 DEF IsPartial
    <2>2. Total(parts(s)) \in T
      <3> HIDE DEF parts
      <3> QED  BY <2>1, GrossIn
    <2>3. QED
      <3> HIDE DEF parts
      <3> QED  BY <1>0, <2>2 DEF Clip
  <1>4. IsPartial(clipped, Nat, T)
    <2> HIDE DEF parts
    <2> QED  BY <1>2, <1>3 DEF IsPartial
  <1>5. TargetFractions(wishes) =
          LET byNet == net > MaxNet /\ (gross > MaxGross => MaxNet * gross < MaxGross * net)
          IN  [s \in DOMAIN clipped |->
                 IF byNet THEN Part(clipped[s], MaxNet, net)
                 ELSE IF gross > MaxGross THEN Part(clipped[s], MaxGross, gross) ELSE clipped[s]]
    BY DEF TargetFractions
  <1> HIDE DEF clipped
  <1>6. gross \in Nat /\ net \in Nat
    <2>1. gross \in Nat /\ Total(clipped) \in Int
      BY <1>4, GrossIn
    <2>2. QED
      BY <2>1 DEF Magnitude
  <1>7. ASSUME NEW s \in DOMAIN clipped
        PROVE  /\ clipped[s] \in T
               /\ net > MaxNet => Part(clipped[s], MaxNet, net) \in T
               /\ gross > MaxGross => Part(clipped[s], MaxGross, gross) \in T
    <2>1. clipped[s] \in T
      BY <1>4 DEF IsPartial
    <2> HIDE DEF gross, net
    <2>2. ASSUME net > MaxNet PROVE Part(clipped[s], MaxNet, net) \in T
      <3>1. net \in Nat \ {0} /\ MaxNet \in Nat
        BY <1>0, <1>6, <2>2
      <3>2. QED
        BY <2>1, <3>1, PartIn
    <2>3. ASSUME gross > MaxGross PROVE Part(clipped[s], MaxGross, gross) \in T
      <3>1. gross \in Nat \ {0} /\ MaxGross \in Nat
        BY <1>0, <1>6, <2>3
      <3>2. QED
        BY <2>1, <3>1, PartIn
    <2>4. QED
      BY <2>1, <2>2, <2>3
  <1>8. QED
    <2> HIDE DEF gross, net
    <2> QED  BY <1>4, <1>5, <1>7 DEF IsPartial

\* Of finitely many fractions one is the least.
LEMMA LeastPart ==
  ASSUME NEW W, IsFiniteSet(W), W # {}, NEW num \in [W -> Nat], NEW den \in [W -> Nat \ {0}]
  PROVE  \E s \in W : \A z \in W : num[s] * den[z] <= num[z] * den[s]
  <1> DEFINE Below(s, z) == num[s] * den[z] <= num[z] * den[s]
             Smallest(D) == \E s \in D : \A z \in D : Below(s, z)
             bad == {D \in SUBSET W : D # {} /\ ~Smallest(D)}
             sizes == {Cardinality(D) : D \in bad}
  <1>1. ASSUME NEW x \in W, NEW y \in W, NEW z \in W, Below(x, y), Below(y, z) PROVE Below(x, z)
    <2>1. PICK a, b, c \in Nat, p, q, r \in Nat \ {0} :
             a = num[x] /\ b = num[y] /\ c = num[z] /\ p = den[x] /\ q = den[y] /\ r = den[z]
      OBVIOUS
    <2>2. a * q <= b * p /\ b * r <= c * q
      BY <1>1, <2>1
    <2>3. (a * q) * r <= (b * p) * r
      BY ONLY <2>2, a \in Nat, b \in Nat, c \in Nat, p \in Nat, q \in Nat, r \in Nat
    <2>4. (b * r) * p <= (c * q) * p
      BY ONLY <2>2, a \in Nat, b \in Nat, c \in Nat, p \in Nat, q \in Nat, r \in Nat
    <2>5. (a * r) * q <= (c * p) * q
      BY ONLY <2>3, <2>4, a \in Nat, b \in Nat, c \in Nat, p \in Nat, q \in Nat, r \in Nat
    <2>6. a * r <= c * p
      BY ONLY <2>5, a \in Nat, b \in Nat, c \in Nat, p \in Nat, q \in Nat, q # 0, r \in Nat
    <2>7. QED
      BY <2>1, <2>6
  <1>2. ASSUME NEW x \in W, NEW y \in W PROVE Below(x, y) \/ Below(y, x)
    <2>1. num[x] * den[y] \in Int /\ num[y] * den[x] \in Int
      OBVIOUS
    <2>2. QED
      BY <2>1
  <1> HIDE DEF Below
  <1>3. bad = {}
    <2> SUFFICES ASSUME bad # {} PROVE FALSE
      OBVIOUS
    <2>1. sizes \in SUBSET Nat /\ sizes # {}
      <3>1. ASSUME NEW D \in SUBSET W PROVE Cardinality(D) \in Nat
        BY OneLess
      <3> HIDE DEF Smallest
      <3> QED  BY <3>1
    <2>2. Min(sizes) \in sizes /\ \A m \in sizes : Min(sizes) <= m
      <3> HIDE DEF sizes
      <3> QED  BY <2>1, LeastOf
    <2>3. PICK D \in bad : Cardinality(D) = Min(sizes)
      BY <2>2
    <2>4. \A E \in bad : Cardinality(D) <= Cardinality(E)
      BY <2>2, <2>3
    <2> DEFINE x == Pick(D)
               R == D \ {x}
    <2>5. x \in D /\ R \in SUBSET W /\ Cardinality(R) = Cardinality(D) - 1 /\ Cardinality(D) \in Nat
      <3>1. D \in SUBSET W /\ D # {}
        OBVIOUS
      <3>2. Cardinality(D) \in Nat /\ Pick(D) \in D /\ Cardinality(D \ {Pick(D)}) = Cardinality(D) - 1
        BY <3>1, OneLess
      <3>3. QED
        BY <3>1, <3>2
    <2>6. R \notin bad
      <3>1. ASSUME R \in bad PROVE Cardinality(D) <= Cardinality(R)
        BY <2>4, <3>1
      <3> HIDE DEF bad, R
      <3>2. QED
        BY <2>5, <3>1
    <2>7. Below(x, x)
      BY <1>2, <2>5
    <2>8. R # {}
      <3>1. ASSUME R = {} PROVE \A z \in D : z = x
        BY <3>1
      <3>2. QED
        BY <2>3, <2>5, <2>7, <3>1
    <2>9. PICK y \in R : \A z \in R : Below(y, z)
      BY <2>5, <2>6, <2>8
    <2>10. CASE Below(x, y)
      <3>1. \A z \in D : Below(x, z)
        <4>1. ASSUME NEW z \in D PROVE Below(x, z)
          <5>1. CASE z = x
            BY <2>7, <5>1
          <5>2. CASE z \in R
            BY <1>1, <2>5, <2>9, <2>10, <5>2
          <5>3. QED
            BY <5>1, <5>2
        <4> QED  BY <4>1
      <3>2. QED
        BY <2>3, <2>5, <3>1
    <2>11. CASE Below(y, x)
      <3>1. \A z \in D : Below(y, z)
        BY <2>9, <2>11
      <3>2. QED
        BY <2>3, <2>9, <3>1
    <2>12. QED
      BY <1>2, <2>5, <2>9, <2>10, <2>11
  <1>4. W \notin bad
    BY <1>3
  <1>5. QED
    BY <1>4 DEF Below

-----------------------------------------------------------------------------
(* A batch.                                                                *)

\* What is ordered is more than a lot, and of a symbol that has a bar.
LEMMA OrdersFacts ==
  ASSUME NEW fractions, IsPartial(fractions, Nat, Int), NEW equity \in Int,
         NEW open, IsPartial(open, Nat, Quote), IsPartial(held, Nat, Int)
  PROVE  LET wanted == OrdersToTargets(fractions, equity, open)
         IN  /\ IsPartial(wanted, Nat, Int) /\ DOMAIN wanted \subseteq DOMAIN open
             /\ \A s \in DOMAIN wanted : Magnitude(wanted[s]) >= Fine
  <1> DEFINE target(s) == IF s \in DOMAIN fractions THEN Part(fractions[s], equity * Fine, 1000 * open[s].open) ELSE 0
             now(s)    == IF s \in DOMAIN held THEN held[s] * Fine ELSE 0
             dom       == {s \in DOMAIN open : Magnitude(target(s) - now(s)) >= Fine}
             wanted    == [s \in dom |-> target(s) - now(s)]
  <1>1. OrdersToTargets(fractions, equity, open) = wanted
    BY DEF OrdersToTargets
  <1>2. Fine \in Nat
    BY PortfolioAssumption
  <1>3. ASSUME NEW s \in DOMAIN open PROVE target(s) \in Int /\ now(s) \in Int
    <2>1. now(s) \in Int
      BY <1>2 DEF IsPartial
    <2>2. ASSUME s \in DOMAIN fractions PROVE Part(fractions[s], equity * Fine, 1000 * open[s].open) \in Int
      <3>1. fractions[s] \in Int /\ open[s].open \in Nat \ {0}
        BY <2>2 DEF IsPartial, Quote
      <3>2. PICK x, n, d \in Int : x = fractions[s] /\ n = equity * Fine /\ d = 1000 * open[s].open /\ d > 0
        BY <1>2, <3>1
      <3>3. x * n \in Int /\ -x * n \in Int
        BY <3>2
      <3>4. (x * n) \div d \in Int /\ (-x * n) \div d \in Int
        BY <3>2, <3>3
      <3>5. Part(x, n, d) \in Int
        BY <3>4 DEF Part
      <3>6. QED
        BY <3>2, <3>5
    <2>3. QED
      BY <2>1, <2>2
  <1> HIDE DEF target, now
  <1>4. IsFiniteSet(dom) /\ dom \subseteq Nat
    BY FS_Subset DEF IsPartial
  <1>5. QED
    BY <1>1, <1>3, <1>4 DEF IsPartial

\* Whole lots in a part of W, which counts in F parts of a lot, at cut of K.
LotsOf(W, num, den, cut, F, K) == (W * num * cut) \div (den * K * F)

\* What is left of W parts of a lot at num/den of them and a cut, in lots.
LEMMA LotsFacts ==
  ASSUME NEW W \in Nat, NEW num \in Nat, NEW den \in Nat \ {0}, NEW K \in Nat \ {0}, NEW cut \in 1..K, NEW F \in Nat \ {0}
  PROVE  /\ LotsOf(W, num, den, cut, F, K) \in Nat
         /\ LotsOf(W, num, den, cut, F, K) * (den * K * F) <= W * num * cut
         /\ W * num * cut < (LotsOf(W, num, den, cut, F, K) + 1) * (den * K * F)
  <1>1. PICK a, b : a = W * num * cut /\ b = den * K * F
    OBVIOUS
  <1>2. a \in Nat /\ b \in Nat /\ b > 0
    <2>1. W * num \in Nat /\ den * K \in Nat /\ den * K > 0
      OBVIOUS
    <2>2. (W * num) * cut \in Nat /\ (den * K) * F \in Nat /\ (den * K) * F > 0
      BY <2>1
    <2>3. QED
      BY <1>1, <2>2
  <1>3. a \div b \in Nat /\ (a \div b) * b <= a /\ a < (a \div b + 1) * b
    BY ONLY <1>2
  <1>4. LotsOf(W, num, den, cut, F, K) = a \div b
    BY <1>1 DEF LotsOf
  <1>5. QED
    BY <1>1, <1>3, <1>4, Zenon

\* A factor that both sides have can be left out.
LEMMA Cancel ==
  ASSUME NEW x \in Nat, NEW y \in Nat, NEW z \in Nat \ {0}, x * z <= y * z
  PROVE  x <= y
  OBVIOUS

\* A leg that can be filled in proportion k/W keeps within W and within k.
LEMMA LotsFit ==
  ASSUME NEW W \in Nat, NEW num \in Nat, NEW den \in Nat \ {0}, NEW K \in Nat \ {0}, NEW cut \in 1..K, NEW F \in Nat \ {0},
         NEW k \in Nat, num <= den, num * W <= (k * F) * den
  PROVE  F * LotsOf(W, num, den, cut, F, K) <= W /\ LotsOf(W, num, den, cut, F, K) <= k
  <1>0. /\ LotsOf(W, num, den, cut, F, K) \in Nat
        /\ LotsOf(W, num, den, cut, F, K) * (den * K * F) <= W * num * cut
    BY LotsFacts, Zenon
  <1>1. PICK q, a, b : q = LotsOf(W, num, den, cut, F, K) /\ a = W * num * cut /\ b = den * K * F
    OBVIOUS
  <1>2. q \in Nat /\ q * b <= a
    BY <1>0, <1>1, Zenon
  <1>3. PICK p, D \in Nat : p = W * num /\ D = den * F
    OBVIOUS
  <1>4. D > 0 /\ b = D * K /\ a = p * cut
    BY ONLY <1>1, <1>3, den \in Nat \ {0}, F \in Nat \ {0}, W \in Nat, num \in Nat, K \in Nat \ {0}, cut \in 1..K
  <1>5. a <= p * K
    BY ONLY <1>4, p \in Nat, K \in Nat \ {0}, cut \in 1..K
  <1>6. q * D <= p
    <2>1. (q * D) * K <= p * K
      BY ONLY <1>2, <1>4, <1>5, D \in Nat, p \in Nat
    <2>2. PICK x \in Nat : x = q * D
      BY <1>2
    <2>3. QED
      BY ONLY <2>1, <2>2, p \in Nat
  <1>7. F * q <= W
    <2>1. p <= W * den
      BY ONLY <1>3, W \in Nat, num \in Nat, den \in Nat \ {0}, num <= den
    <2>2. (F * q) * den <= W * den
      BY ONLY <1>2, <1>3, <1>6, <2>1, F \in Nat \ {0}, den \in Nat \ {0}, W \in Nat, p \in Nat
    <2>3. F * q \in Nat
      BY <1>2
    <2>4. QED
      BY <2>2, <2>3, Cancel
  <1>8. q <= k
    <2>1. p <= k * D
      BY ONLY <1>3, num * W <= (k * F) * den, W \in Nat, num \in Nat, den \in Nat \ {0}, F \in Nat \ {0}, k \in Nat
    <2>2. q * D <= k * D
      BY ONLY <1>2, <1>6, <2>1, k \in Nat, p \in Nat, D \in Nat
    <2>3. D \in Nat \ {0}
      BY <1>4
    <2>4. QED
      BY <1>2, <2>2, <2>3, Cancel
  <1>9. QED
    BY <1>1, <1>7, <1>8, Zenon

\* Two legs are filled in one proportion, up to a lot.
LEMMA LotsProportion ==
  ASSUME NEW W \in Nat, NEW V \in Nat, NEW num \in Nat, NEW den \in Nat \ {0}, NEW K \in Nat \ {0}, NEW cut \in 1..K,
         NEW F \in Nat \ {0}
  PROVE  LotsOf(W, num, den, cut, F, K) * V <= (LotsOf(V, num, den, cut, F, K) + 1) * W
  <1>0. /\ LotsOf(W, num, den, cut, F, K) \in Nat
        /\ LotsOf(W, num, den, cut, F, K) * (den * K * F) <= W * num * cut
    BY LotsFacts, Zenon
  <1>1. /\ LotsOf(V, num, den, cut, F, K) \in Nat
        /\ V * num * cut < (LotsOf(V, num, den, cut, F, K) + 1) * (den * K * F)
    BY LotsFacts, Zenon
  <1>2. PICK q, r, a, c, z : /\ q = LotsOf(W, num, den, cut, F, K) /\ r = LotsOf(V, num, den, cut, F, K)
                             /\ a = W * num * cut /\ c = V * num * cut /\ z = den * K * F
    OBVIOUS
  <1>3. q \in Nat /\ r \in Nat /\ q * z <= a /\ c < (r + 1) * z
    BY <1>0, <1>1, <1>2, Zenon
  <1>4. PICK p \in Nat : p = num * cut
    OBVIOUS
  <1>5. a = W * p /\ c = V * p
    BY ONLY <1>2, <1>4, W \in Nat, V \in Nat, num \in Nat, K \in Nat \ {0}, cut \in 1..K
  <1>6. z \in Nat /\ z > 0
    BY ONLY <1>2, den \in Nat \ {0}, F \in Nat \ {0}
  <1>7. (q * z) * V <= (W * p) * V
    BY ONLY <1>3, <1>5, <1>6, W \in Nat, V \in Nat, p \in Nat
  <1>8. (V * p) * W <= ((r + 1) * z) * W
    BY ONLY <1>3, <1>5, <1>6, W \in Nat, V \in Nat, p \in Nat
  <1>9. (q * V) * z <= ((r + 1) * W) * z
    BY ONLY <1>3, <1>6, <1>7, <1>8, W \in Nat, V \in Nat, p \in Nat
  <1>10. q * V \in Nat /\ (r + 1) * W \in Nat
    BY <1>3
  <1>11. q * V <= (r + 1) * W
    BY <1>6, <1>9, <1>10, Cancel
  <1>12. QED
    BY <1>2, <1>11, Zenon

\* What a batch promises of its orders and of what is filled of them.
Together(wanted, filled) ==
  \A s, z \in DOMAIN wanted :
    /\ Fine * Magnitude(filled[s]) <= Magnitude(wanted[s])
    /\ filled[s] = 0 => filled[z] = 0
    /\ Magnitude(filled[s]) * Magnitude(wanted[z])
         <= (Magnitude(filled[z]) + 1) * Magnitude(wanted[s])

\* A batch fills its legs together, in the direction ordered, and within the bars.
LEMMA AtomicFacts ==
  ASSUME NEW wanted, IsPartial(wanted, Nat, Int), \A s \in DOMAIN wanted : Magnitude(wanted[s]) >= Fine,
         IsPartial(group', Nat, Quote), DOMAIN wanted \subseteq DOMAIN group',
         NEW fractions, NEW prices, NEW users
  PROVE  LET lots == AtomicBatch(wanted, fractions, prices, users).lots
         IN  /\ IsPartial(lots, Nat, Int) /\ DOMAIN lots = DOMAIN wanted
             /\ Together(wanted, lots)
             /\ \A s \in DOMAIN wanted : /\ Magnitude(lots[s]) <= group'[s].capacity
                                         /\ wanted[s] > 0 => lots[s] >= 0
                                         /\ wanted[s] < 0 => lots[s] <= 0
  <1> DEFINE W == DOMAIN wanted
             size(s) == Magnitude(wanted[s])
             num(s) == Preview(s, wanted[s], fractions) * Fine
             part(s) == [num |-> Preview(s, wanted[s], fractions) * Fine, den |-> Magnitude(wanted[s])]
             least == CHOOSE s \in W : \A z \in W : part(s).num * part(z).den <= part(z).num * part(s).den
             at(k) == Scaled(wanted, part(least).num, part(least).den, Cuts[k])
             whole == {k \in DOMAIN Cuts : \A s \in W : at(k)[s] # 0}
             valid == {k \in whole : WithinLimits(HeldAfter(at(k)), CashAfter(at(k), prices), prices, users)}
             none == [s \in W |-> 0]
             lots == AtomicBatch(wanted, fractions, prices, users).lots
             Good(l) == /\ IsPartial(l, Nat, Int) /\ DOMAIN l = W
                        /\ Together(wanted, l)
                        /\ \A s \in W : /\ Magnitude(l[s]) <= group'[s].capacity
                                        /\ wanted[s] > 0 => l[s] >= 0
                                        /\ wanted[s] < 0 => l[s] <= 0
  <1>0. Fine \in Nat \ {0}
    BY PortfolioAssumption
  <1>1. Fine \in Nat \ {0} /\ Cuts \in Seq(1..1000)
    BY PortfolioAssumption
  <1>2. ASSUME NEW s \in W
        PROVE  /\ wanted[s] \in Int /\ size(s) \in Nat \ {0} /\ size(s) >= Fine
               /\ group'[s].capacity \in Nat
               /\ Preview(s, wanted[s], fractions) \in Nat
               /\ Preview(s, wanted[s], fractions) <= group'[s].capacity
               /\ Preview(s, wanted[s], fractions) * Fine <= size(s)
    <2>1. wanted[s] \in Int /\ size(s) \in Nat \ {0} /\ size(s) >= Fine
      BY <1>1 DEF IsPartial, Magnitude
    <2>2. group'[s].capacity \in Nat
      BY DEF IsPartial, Quote
    <2>3. PICK a \in Nat, f \in Nat \ {0} : a = size(s) /\ f = Fine
      BY <1>1, <2>1
    <2>4. a \div f \in Nat /\ (a \div f) * f <= a
      BY ONLY <2>3
    <2>5. PICK c, d \in Nat : c = group'[s].capacity /\ d = a \div f
      BY <2>2, <2>4
    <2>6. Smaller(d, c) \in Nat /\ Smaller(d, c) <= c /\ Smaller(d, c) <= d
      BY DEF Smaller
    <2>7. Smaller(d, c) * f <= a
      <3>1. d * f <= a
        BY <2>4, <2>5
      <3>2. CASE d < c
        BY <3>1, <3>2 DEF Smaller
      <3>3. CASE ~(d < c)
        <4>1. c * f <= d * f
          BY ONLY <3>3, c \in Nat, d \in Nat, f \in Nat
        <4>2. c * f \in Nat /\ d * f \in Nat /\ Smaller(d, c) = c
          BY <3>3 DEF Smaller
        <4>3. QED
          BY <3>1, <4>1, <4>2
      <3>4. QED
        BY <3>2, <3>3
    <2>8. Preview(s, wanted[s], fractions) = IF Shortable(s, wanted[s], fractions) THEN Smaller(d, c) ELSE 0
      BY <2>3, <2>5 DEF Preview
    <2>9. QED
      <3>1. CASE Shortable(s, wanted[s], fractions)
        BY <2>1, <2>2, <2>3, <2>5, <2>6, <2>7, <2>8, <3>1
      <3>2. CASE ~Shortable(s, wanted[s], fractions)
        BY <2>1, <2>2, <2>3, <2>5, <2>8, <3>2
      <3>3. QED
        BY <3>1, <3>2
  <1>3. Good(none)
    <2>1. Magnitude(0) = 0
      BY DEF Magnitude
    <2>2. IsPartial(none, Nat, Int) /\ DOMAIN none = W
      BY DEF IsPartial
    <2>3. \A s \in W : none[s] = 0
      OBVIOUS
    <2> HIDE DEF none
    <2>4. Together(wanted, none)
      BY <1>1, <1>2, <2>1, <2>3 DEF Together
    <2>5. QED
      BY <1>2, <2>1, <2>2, <2>3, <2>4
  <1>4. CASE W = {}
    <2>1. lots = <<>>
      BY <1>4 DEF AtomicBatch
    <2>2. Good(<<>>)
      <3>1. DOMAIN << >> = {}
        OBVIOUS
      <3>2. IsPartial(<<>>, Nat, Int)
        BY FS_EmptySet DEF IsPartial
      <3>3. QED
        BY <1>4, <3>1, <3>2 DEF Together
    <2>3. QED
      BY <2>1, <2>2
  <1>5. CASE W # {}
    <2>1. /\ least \in W
          /\ \A z \in W : num(least) * size(z) <= num(z) * size(least)
      <3> DEFINE n == [s \in W |-> num(s)]
                 d == [s \in W |-> size(s)]
      <3>1. n \in [W -> Nat] /\ d \in [W -> Nat \ {0}]
        <4>1. \A s \in W : num(s) \in Nat /\ size(s) \in Nat \ {0}
          BY <1>1, <1>2
        <4> HIDE DEF num, size
        <4>2. QED
          BY <4>1
      <3>2. \E s \in W : \A z \in W : n[s] * d[z] <= n[z] * d[s]
        <4> HIDE DEF n, d
        <4>1. IsFiniteSet(W)
          BY DEF IsPartial
        <4>2. QED
          BY <1>5, <3>1, <4>1, LeastPart
      <3>3. \E s \in W : \A z \in W : part(s).num * part(z).den <= part(z).num * part(s).den
        BY <3>2
      <3>4. least \in W /\ \A z \in W : part(least).num * part(z).den <= part(z).num * part(least).den
        <4> HIDE DEF part
        <4> QED  BY <3>3
      <3>5. QED
        BY <3>4
    <2>2. lots = IF part(least).num = 0 \/ valid = {} THEN none ELSE at(Min(valid))
      <3>1. AtomicBatch(wanted, fractions, prices, users) =
              IF W = {} THEN [lots |-> <<>>, reasons |-> {}]
              ELSE IF part(least).num = 0 THEN [lots |-> none, reasons |-> {"not_executable"}]
              ELSE IF valid = {} THEN [lots |-> none, reasons |-> {"projected_risk_limit"}]
              ELSE [lots    |-> at(Min(valid)),
                    reasons |-> IF Min(valid) = 1 /\ part(least).num = part(least).den THEN {} ELSE {"rescaled"}]
        BY DEF AtomicBatch
      <3> HIDE DEF part, none, at, valid, least
      <3>2. QED
        BY <1>5, <3>1
    <2>3. part(least).num = num(least) /\ part(least).den = size(least)
      OBVIOUS
    <2> HIDE DEF least
    <2>4. PICK K : K \in Nat \ {0} /\ K = 1000
      OBVIOUS
    <2>5. K \in Nat \ {0} /\ Cuts \in Seq(1..K)
      BY <1>1, <2>4
    <2>6. ASSUME NEW k \in whole PROVE Good(at(k))
      <3> DEFINE q(s) == LotsOf(size(s), num(least), size(least), Cuts[k], Fine, K)
                 l == at(k)
      <3>1. Cuts[k] \in 1..K /\ \A s \in W : l[s] # 0
        <4>1. k \in DOMAIN Cuts /\ \A s \in W : l[s] # 0
          <5> HIDE DEF at
          <5> QED  OBVIOUS
        <4>2. Cuts[k] \in 1..K
          <5>1. k \in 1..Len(Cuts)
            BY <1>1, <4>1
          <5>2. QED
            BY ONLY <2>5, <5>1, ElementOfSeq, Zenon
        <4>3. QED
          BY <4>1, <4>2
      <3>2. l = [s \in W |-> (IF wanted[s] > 0 THEN 1 ELSE -1) * q(s)]
        BY <2>3, <2>4 DEF Scaled, LotsOf
      <3> HIDE DEF l
      <3>3. num(least) \in Nat /\ size(least) \in Nat \ {0} /\ num(least) <= size(least)
        BY <1>1, <1>2, <2>1
      <3>4. ASSUME NEW s \in W
            PROVE  q(s) \in Nat /\ Fine * q(s) <= size(s) /\ q(s) <= Preview(s, wanted[s], fractions)
        <4>1. num(least) * size(s) <= (Preview(s, wanted[s], fractions) * Fine) * size(least)
          BY <2>1
        <4>2. size(s) \in Nat /\ Preview(s, wanted[s], fractions) \in Nat
          BY <1>2
        <4> HIDE DEF num, size
        <4>4. q(s) \in Nat
          BY ONLY <1>0, <2>5, <3>1, <3>3, <4>2, LotsFacts, Zenon
        <4>5. Fine * q(s) <= size(s) /\ q(s) <= Preview(s, wanted[s], fractions)
          BY ONLY <1>0, <2>5, <3>1, <3>3, <4>1, <4>2, LotsFit, Zenon
        <4>6. QED
          BY <4>4, <4>5
      <3>5. ASSUME NEW s \in W, NEW z \in W PROVE q(s) * size(z) <= (q(z) + 1) * size(s)
        <4>1. size(s) \in Nat /\ size(z) \in Nat
          BY <1>2
        <4> HIDE DEF num, size
        <4>2. QED
          BY ONLY <1>0, <2>5, <3>1, <3>3, <4>1, LotsProportion, Zenon
      <3> HIDE DEF q
      <3>6. ASSUME NEW s \in W
            PROVE  /\ l[s] \in Int /\ Magnitude(l[s]) = q(s)
                   /\ wanted[s] > 0 => l[s] >= 0
                   /\ wanted[s] < 0 => l[s] <= 0
        <4>1. l[s] = IF wanted[s] > 0 THEN q(s) ELSE -q(s)
          <5>1. l[s] = (IF wanted[s] > 0 THEN 1 ELSE -1) * q(s)
            BY <3>2
          <5>2. QED
            BY <3>4, <5>1
        <4>2. wanted[s] \in Int
          BY <1>2
        <4>3. QED
          BY <3>4, <4>1, <4>2 DEF Magnitude
      <3>7. IsPartial(l, Nat, Int) /\ DOMAIN l = W
        <4>1. DOMAIN l = W /\ l \in [W -> Int]
          BY <3>2, <3>6
        <4>2. QED
          BY <4>1 DEF IsPartial
      <3>8. Together(wanted, l)
        BY <3>1, <3>4, <3>5, <3>6 DEF Together
      <3>9. QED
        <4>1. ASSUME NEW s \in W PROVE Magnitude(l[s]) <= group'[s].capacity
          BY <1>2, <3>4, <3>6
        <4>2. QED
          BY <3>6, <3>7, <3>8, <4>1 DEF l
    <2>7. ASSUME valid # {} PROVE Min(valid) \in whole
      <3>1. valid \subseteq DOMAIN Cuts /\ DOMAIN Cuts \subseteq Nat /\ valid \subseteq whole
        BY <1>1
      <3> HIDE DEF valid
      <3>2. QED
        BY <2>7, <3>1, LeastOf
    <2>8. QED
      <3> HIDE DEF Good, valid, none, at, whole, part
      <3> QED  BY <1>3, <2>2, <2>6, <2>7 DEF Good
  <1>6. QED
    BY <1>4, <1>5

\* What a batch does to the positions and to the cash.
LEMMA HeldAfterFacts ==
  ASSUME IsPartial(held, Nat, Int), NEW lots, IsPartial(lots, Nat, Int)
  PROVE  /\ IsPartial(HeldAfter(lots), Nat, Int)
         /\ DOMAIN HeldAfter(lots) = DOMAIN held \cup DOMAIN lots
         /\ \A s \in DOMAIN held \cup DOMAIN lots :
              HeldAfter(lots)[s] = (IF s \in DOMAIN held THEN held[s] ELSE 0)
                                   + (IF s \in DOMAIN lots THEN lots[s] ELSE 0)
  <1> DEFINE D == DOMAIN held \cup DOMAIN lots
             sum(s) == (IF s \in DOMAIN held THEN held[s] ELSE 0)
                       + (IF s \in DOMAIN lots THEN lots[s] ELSE 0)
  <1>1. HeldAfter(lots) = [s \in D |-> sum(s)]
    BY DEF HeldAfter
  <1>2. IsFiniteSet(D) /\ D \subseteq Nat
    BY FS_Union DEF IsPartial
  <1>3. \A s \in D : sum(s) \in Int
    BY DEF IsPartial
  <1> HIDE DEF D, sum
  <1>4. DOMAIN HeldAfter(lots) = D /\ \A s \in D : HeldAfter(lots)[s] = sum(s)
    BY <1>1
  <1>5. IsPartial(HeldAfter(lots), Nat, Int)
    BY <1>1, <1>2, <1>3 DEF IsPartial
  <1>6. QED
    BY <1>4, <1>5 DEF D, sum

\* What the fills of a batch cost, by symbol.
Cost(lots, prices) == [s \in DOMAIN lots |-> lots[s] * prices[s] + Magnitude(lots[s]) * LotCost]

\* Costs are integers.
LEMMA CostFacts ==
  ASSUME NEW lots, IsPartial(lots, Nat, Int), NEW prices, \A s \in DOMAIN lots : prices[s] \in Int
  PROVE  IsPartial(Cost(lots, prices), Nat, Int) /\ Total(Cost(lots, prices)) \in Int
  <1>1. IsPartial(Cost(lots, prices), Nat, Int)
    <2>1. ASSUME NEW s \in DOMAIN lots
          PROVE lots[s] * prices[s] + Magnitude(lots[s]) * LotCost \in Int
      <3>1. lots[s] \in Int /\ prices[s] \in Int /\ Magnitude(lots[s]) \in Int /\ LotCost \in Int
        BY PortfolioAssumption DEF IsPartial, Magnitude
      <3>2. lots[s] * prices[s] \in Int /\ Magnitude(lots[s]) * LotCost \in Int
        BY <3>1
      <3>3. QED
        BY <3>2
    <2>2. QED
      BY <2>1 DEF IsPartial, Cost
  <1>2. QED
    BY <1>1, GrossIn

\* What a batch costs leaves the cash, which stays an integer.
LEMMA CashAfterFacts ==
  ASSUME cash \in Int, NEW lots, IsPartial(lots, Nat, Int), NEW prices, \A s \in DOMAIN lots : prices[s] \in Int
  PROVE  CashAfter(lots, prices) \in Int /\ CashAfter(lots, prices) = cash - Total(Cost(lots, prices))
  <1>1. CashAfter(lots, prices) = cash - Total(Cost(lots, prices))
    BY DEF CashAfter, Cost
  <1>2. QED
    BY <1>1, CostFacts

\* What a position is worth is an integer, and nothing where nothing is held.
LEMMA WorthFacts ==
  ASSUME NEW T, T = Int \/ T = {0}, NEW position, IsPartial(position, Nat, T),
         NEW prices, \A s \in DOMAIN position : prices[s] \in Int
  PROVE  IsPartial(Worth(position, prices), Nat, T)
  <1>1. ASSUME NEW s \in DOMAIN position PROVE position[s] * prices[s] \in T
    <2>1. position[s] \in T /\ prices[s] \in Int
      BY DEF IsPartial
    <2>2. QED
      BY <2>1
  <1>2. QED
    BY <1>1 DEF IsPartial, Worth

\* To hold nothing and owe nothing is within all limits.
LEMMA FlatIsWithinLimits ==
  ASSUME NEW position, IsPartial(position, Nat, {0}), NEW money \in Int, money > 0,
         NEW prices, \A s \in DOMAIN position : prices[s] \in Int, NEW users
  PROVE  WithinLimits(position, money, prices, users)
  <1> DEFINE worth == Worth(position, prices)
             spent(by) == [s \in {s \in DOMAIN worth : <<by, s>> \in users} |-> worth[s]]
  <1>1. IsPartial(worth, Nat, {0})
    BY WorthFacts
  <1> HIDE DEF worth
  <1>2. Total(worth) = 0 /\ Gross(worth) = 0
    BY <1>1, GrossIn
  <1>3. \A s \in DOMAIN worth : worth[s] = 0
    BY <1>1 DEF IsPartial
  <1>4. ASSUME NEW by PROVE Gross(spent(by)) = 0
    <2>1. IsPartial(spent(by), Nat, {0})
      <3>1. IsFiniteSet({s \in DOMAIN worth : <<by, s>> \in users})
        BY <1>1, FS_Subset DEF IsPartial
      <3>2. QED
        BY <1>1, <1>3, <3>1 DEF IsPartial
    <2> HIDE DEF spent
    <2>2. QED
      BY <2>1, GrossIn
  <1>5. Magnitude(0) = 0
    BY DEF Magnitude
  <1>6. /\ 0 <= MaxGross * money /\ 0 <= MaxNet * money
        /\ 0 <= MaxAsset * money /\ 0 <= MaxStrategy * money
    <2>1. MaxGross \in Nat /\ MaxNet \in Nat /\ MaxAsset \in Nat /\ MaxStrategy \in Nat
      BY LimitsArePositive
    <2>2. QED
      BY <2>1
  <1>7. money + 0 = money /\ 1000 * 0 = 0
    OBVIOUS
  <1>8. WithinLimits(position, money, prices, users) <=>
          /\ money + Total(worth) > 0 /\ money >= 0
          /\ 1000 * Gross(worth) <= MaxGross * (money + Total(worth))
          /\ 1000 * Magnitude(Total(worth)) <= MaxNet * (money + Total(worth))
          /\ \A s \in DOMAIN worth : 1000 * Magnitude(worth[s]) <= MaxAsset * (money + Total(worth))
          /\ \A by \in {k[1] : k \in users} : 1000 * Gross(spent(by)) <= MaxStrategy * (money + Total(worth))
    BY DEF WithinLimits, worth
  <1> HIDE DEF spent
  <1>9. QED
    BY <1>2, <1>3, <1>4, <1>5, <1>6, <1>7, <1>8

\* Everything is to be sold: what is held, and only that, is ordered.
LEMMA FlatOrders ==
  ASSUME IsPartial(held, Nat, Int), NEW fractions, IsPartial(fractions, Nat, {0}),
         NEW equity \in Int, NEW open, IsPartial(open, Nat, Quote),
         \A s \in DOMAIN held : held[s] # 0 => s \in DOMAIN open
  PROVE  LET wanted == OrdersToTargets(fractions, equity, open)
         IN  /\ DOMAIN wanted = {s \in DOMAIN held : held[s] # 0}
             /\ \A s \in DOMAIN wanted : wanted[s] = -(held[s] * Fine)
  <1> DEFINE target(s) == IF s \in DOMAIN fractions THEN Part(fractions[s], equity * Fine, 1000 * open[s].open) ELSE 0
             now(s)    == IF s \in DOMAIN held THEN held[s] * Fine ELSE 0
             dom       == {s \in DOMAIN open : Magnitude(target(s) - now(s)) >= Fine}
             wanted    == [s \in dom |-> target(s) - now(s)]
             owned     == {s \in DOMAIN held : held[s] # 0}
  <1>1. OrdersToTargets(fractions, equity, open) = wanted
    BY DEF OrdersToTargets
  <1>2. Fine \in Nat \ {0}
    BY PortfolioAssumption
  <1>3. ASSUME NEW s \in DOMAIN open PROVE target(s) = 0
    <2>1. ASSUME s \in DOMAIN fractions PROVE Part(fractions[s], equity * Fine, 1000 * open[s].open) = 0
      <3>1. fractions[s] = 0 /\ open[s].open \in Nat \ {0}
        BY <2>1 DEF IsPartial, Quote
      <3>2. PICK n, d \in Int : n = equity * Fine /\ d = 1000 * open[s].open /\ d > 0
        BY <1>2, <3>1
      <3>3. 0 * n = 0 /\ 0 \div d = 0
        BY <3>2
      <3>4. Part(0, n, d) = 0
        BY <3>3 DEF Part
      <3>5. QED
        BY <3>1, <3>2, <3>4
    <2>2. QED
      BY <2>1
  <1>4. ASSUME NEW s \in DOMAIN open
        PROVE  /\ s \in dom <=> s \in owned
               /\ s \in owned => target(s) - now(s) = -(held[s] * Fine)
    <2>1. CASE s \in DOMAIN held
      <3>1. PICK h \in Int, f \in Nat \ {0} : h = held[s] /\ f = Fine
        BY <1>2, <2>1 DEF IsPartial
      <3>2. 0 - h * f = -(h * f) /\ h * f \in Int
        OBVIOUS
      <3>3. h # 0 => Magnitude(-(h * f)) >= f
        <4>1. CASE h > 0
          <5>1. h * f >= f
            BY ONLY <4>1, h \in Int, f \in Nat \ {0}
          <5>2. QED
            BY <3>2, <5>1 DEF Magnitude
        <4>2. CASE h < 0
          <5>1. -(h * f) >= f
            BY ONLY <4>2, h \in Int, f \in Nat \ {0}
          <5>2. QED
            BY <3>2, <5>1 DEF Magnitude
        <4>3. QED
          BY <4>1, <4>2
      <3>4. h = 0 => Magnitude(-(h * f)) = 0
        BY DEF Magnitude
      <3>5. target(s) - now(s) = -(h * f)
        BY <1>3, <2>1, <3>1, <3>2
      <3> HIDE DEF target, now
      <3>6. QED
        BY <2>1, <3>1, <3>3, <3>4, <3>5
    <2>2. CASE s \notin DOMAIN held
      <3>1. target(s) - now(s) = 0
        BY <1>3, <2>2
      <3> HIDE DEF target, now
      <3>2. QED
        BY <1>2, <2>2, <3>1 DEF Magnitude
    <2>3. QED
      BY <2>1, <2>2
  <1> HIDE DEF target, now
  <1>5. dom = owned
    BY <1>4
  <1>6. QED
    BY <1>1, <1>4, <1>5

\* The whole of an order is the whole of it.
LEMMA LotsOfAll ==
  ASSUME NEW h \in Nat, NEW n \in Nat \ {0}, NEW K \in Nat \ {0}, NEW F \in Nat \ {0}
  PROVE  LotsOf(h * F, n, n, K, F, K) = h
  <1> DEFINE W == h * F
  <1>1. W \in Nat /\ K \in 1..K /\ n \in Nat
    OBVIOUS
  <1> HIDE DEF W
  <1>2. /\ LotsOf(W, n, n, K, F, K) \in Nat
        /\ LotsOf(W, n, n, K, F, K) * (n * K * F) <= W * n * K
        /\ W * n * K < (LotsOf(W, n, n, K, F, K) + 1) * (n * K * F)
    BY <1>1, LotsFacts, Zenon
  <1>3. PICK q, z : q = LotsOf(W, n, n, K, F, K) /\ z = n * K * F
    OBVIOUS
  <1>4. q \in Nat /\ q * z <= W * n * K /\ W * n * K < (q + 1) * z
    BY <1>2, <1>3, Zenon
  <1>5. W * n * K = h * z
    BY ONLY <1>3, h \in Nat, n \in Nat, K \in Nat, F \in Nat DEF W
  <1>6. z \in Nat \ {0}
    BY ONLY <1>3, n \in Nat \ {0}, K \in Nat \ {0}, F \in Nat \ {0}
  <1>7. q <= h
    BY <1>4, <1>5, <1>6, Cancel
  <1>8. h < q + 1
    <2>1. ASSUME q + 1 <= h PROVE FALSE
      <3>1. (q + 1) * z <= h * z
        BY ONLY <1>4, <1>6, <2>1, h \in Nat
      <3>2. (q + 1) * z \in Nat /\ h * z \in Nat
        BY <1>4, <1>6
      <3>3. QED
        BY <1>4, <1>5, <3>1, <3>2
    <2>2. QED
      BY <1>4, <2>1
  <1>9. q = h
    BY <1>4, <1>7, <1>8
  <1>10. QED
    BY <1>3, <1>9 DEF W

\* It is sold, if every bar has room for it, unless that costs more than there is.
LEMMA FlatBatch ==
  ASSUME IsPartial(held, Nat, Int), cash \in Int, NEW fractions, IsPartial(fractions, Nat, {0}),
         IsPartial(group', Nat, Quote), NEW wanted, IsPartial(wanted, Nat, Int),
         DOMAIN wanted = {s \in DOMAIN held : held[s] # 0},
         \A s \in DOMAIN wanted : /\ wanted[s] = -(held[s] * Fine)
                                  /\ s \in DOMAIN group'
                                  /\ group'[s].capacity >= Magnitude(held[s]),
         NEW prices, \A s \in DOMAIN held : prices[s] \in Int, NEW users
  PROVE  LET lots == AtomicBatch(wanted, fractions, prices, users).lots
             sale == [s \in DOMAIN wanted |-> -held[s]]
         IN  (\A s \in DOMAIN wanted : lots[s] = -held[s]) \/ CashAfter(sale, prices) <= 0
  <1> DEFINE W == DOMAIN wanted
             lots == AtomicBatch(wanted, fractions, prices, users).lots
             sale == [s \in W |-> -held[s]]
             size(s) == Magnitude(wanted[s])
             part(s) == [num |-> Preview(s, wanted[s], fractions) * Fine, den |-> Magnitude(wanted[s])]
             least == CHOOSE s \in W : \A z \in W : part(s).num * part(z).den <= part(z).num * part(s).den
             at(k) == Scaled(wanted, part(least).num, part(least).den, Cuts[k])
             whole == {k \in DOMAIN Cuts : \A s \in W : at(k)[s] # 0}
             valid == {k \in whole : WithinLimits(HeldAfter(at(k)), CashAfter(at(k), prices), prices, users)}
             none == [s \in W |-> 0]
  <1> SUFFICES ASSUME W # {}, CashAfter(sale, prices) > 0 PROVE \A s \in W : lots[s] = -held[s]
    <2>1. IsPartial(sale, Nat, Int) /\ \A s \in DOMAIN sale : prices[s] \in Int
      BY DEF IsPartial
    <2>2. CashAfter(sale, prices) \in Int
      <3> HIDE DEF sale
      <3> QED  BY <2>1, CashAfterFacts
    <2>3. QED
      BY <2>2
  <1>1. Fine \in Nat \ {0}
    BY PortfolioAssumption
  <1>2. Cuts \in Seq(1..1000) /\ Len(Cuts) > 0 /\ Cuts[1] = 1000
    BY PortfolioAssumption
  <1>3. ASSUME NEW s \in W
        PROVE  /\ held[s] \in Int /\ Magnitude(held[s]) \in Nat \ {0}
               /\ size(s) = Magnitude(held[s]) * Fine
               /\ size(s) \in Nat \ {0}
               /\ held[s] > 0 <=> ~(wanted[s] > 0)
    <2>1. PICK h \in Int, f \in Nat \ {0} : h = held[s] /\ f = Fine /\ h # 0
      BY <1>1 DEF IsPartial
    <2>2. h * f \in Int /\ (h > 0 => h * f > 0) /\ (h < 0 => h * f < 0)
      BY ONLY <2>1
    <2>3. Magnitude(-(h * f)) = Magnitude(h) * f
      <3>1. CASE h > 0
        <4>1. Magnitude(h) = h /\ Magnitude(-(h * f)) = h * f
          BY <2>2, <3>1 DEF Magnitude
        <4>2. QED
          BY <4>1
      <3>2. CASE h < 0
        <4>1. Magnitude(h) = -h /\ Magnitude(-(h * f)) = -(h * f)
          BY <2>2, <3>2 DEF Magnitude
        <4>2. QED
          BY <4>1
      <3>3. QED
        BY <2>1, <3>1, <3>2
    <2>4. Magnitude(h) \in Nat \ {0}
      BY <2>1 DEF Magnitude
    <2>5. Magnitude(h) * f \in Nat \ {0}
      BY <2>4
    <2>6. wanted[s] = -(h * f)
      BY <2>1
    <2>7. QED
      BY <2>1, <2>2, <2>3, <2>4, <2>5, <2>6
  <1>4. ASSUME NEW s \in W PROVE Preview(s, wanted[s], fractions) = Magnitude(held[s])
    <2>1. Shortable(s, wanted[s], fractions)
      <3>1. s \in DOMAIN fractions => fractions[s] = 0
        BY DEF IsPartial
      <3>2. QED
        BY <3>1 DEF Shortable
    <2>2. PICK m \in Nat, f \in Nat \ {0} : m = Magnitude(held[s]) /\ f = Fine
      BY <1>1, <1>3
    <2>3. (m * f) \div f = m
      BY ONLY <2>2
    <2>4. group'[s].capacity \in Nat /\ group'[s].capacity >= m
      BY <2>2 DEF IsPartial, Quote
    <2>5. Smaller(m, group'[s].capacity) = m
      BY <2>4 DEF Smaller
    <2>6. Magnitude(wanted[s]) \div Fine = m
      BY <1>3, <2>2, <2>3
    <2>7. QED
      BY <2>1, <2>2, <2>5, <2>6 DEF Preview
  <1>5. \A s \in W : part(s).num = size(s) /\ part(s).den = size(s)
    BY <1>3, <1>4
  <1>6. least \in W
    <2>1. \E s \in W : \A z \in W : part(s).num * part(z).den <= part(z).num * part(s).den
      <3>1. PICK s \in W : TRUE
        OBVIOUS
      <3>2. ASSUME NEW z \in W PROVE part(s).num * part(z).den <= part(z).num * part(s).den
        <4>1. size(s) \in Nat /\ size(z) \in Nat
          BY <1>3
        <4> HIDE DEF part, size
        <4>2. PICK a, b \in Nat : a = size(s) /\ b = size(z)
          BY <4>1
        <4>3. a * b <= b * a
          OBVIOUS
        <4>4. QED
          BY <1>5, <4>2, <4>3
      <3>3. QED
        BY <3>2
    <2> HIDE DEF part
    <2>2. QED
      BY <2>1
  <1> HIDE DEF least
  <1>7. at(1) = sale
    <2>1. PICK K : K \in Nat \ {0} /\ K = 1000
      OBVIOUS
    <2>2. PICK n : n \in Nat \ {0} /\ n = size(least) /\ part(least).num = n /\ part(least).den = n
      BY <1>3, <1>5, <1>6
    <2>0. K \in Nat \ {0} /\ n \in Nat \ {0}
      BY <2>1, <2>2
    <2>3. ASSUME NEW s \in W
          PROVE  (IF wanted[s] > 0 THEN 1 ELSE -1) * LotsOf(size(s), n, n, K, Fine, K) = -held[s]
      <3>1. LotsOf(Magnitude(held[s]) * Fine, n, n, K, Fine, K) = Magnitude(held[s])
        <4>1. PICK m : m \in Nat /\ m = Magnitude(held[s])
          BY <1>3
        <4>2. m \in Nat /\ Fine \in Nat \ {0}
          BY <1>1, <4>1
        <4>3. LotsOf(m * Fine, n, n, K, Fine, K) = m
          BY ONLY <2>0, <4>2, LotsOfAll, Zenon
        <4>4. QED
          BY <4>1, <4>3
      <3>2. PICK h \in Int : h = held[s]
        BY <1>3
      <3>3. (IF wanted[s] > 0 THEN 1 ELSE -1) * Magnitude(h) = -h
        <4>1. CASE wanted[s] > 0
          BY <1>3, <3>2, <4>1 DEF Magnitude
        <4>2. CASE ~(wanted[s] > 0)
          BY <1>3, <3>2, <4>2 DEF Magnitude
        <4>3. QED
          BY <4>1, <4>2
      <3>4. size(s) = Magnitude(held[s]) * Fine
        BY <1>3
      <3> HIDE DEF size
      <3>5. QED
        BY <3>1, <3>2, <3>3, <3>4
    <2>4. at(1) = [s \in W |-> (IF wanted[s] > 0 THEN 1 ELSE -1) * LotsOf(size(s), n, n, K, Fine, K)]
      BY <1>2, <2>1, <2>2 DEF Scaled, LotsOf
    <2> HIDE DEF size, at
    <2>5. QED
      BY <2>3, <2>4
  <1>8. 1 \in valid
    <2>1. 1 \in DOMAIN Cuts
      BY <1>2
    <2>2. \A s \in W : sale[s] # 0
      BY DEF IsPartial
    <2>3. 1 \in whole
      <3> HIDE DEF at, sale
      <3> QED  BY <1>7, <2>1, <2>2
    <2>4. IsPartial(sale, Nat, Int) /\ DOMAIN sale = W /\ W \subseteq DOMAIN held
      BY DEF IsPartial
    <2>5. CashAfter(sale, prices) \in Int
      <3> HIDE DEF sale
      <3> QED  BY <2>4, CashAfterFacts
    <2>6. IsPartial(HeldAfter(sale), Nat, {0}) /\ DOMAIN HeldAfter(sale) = DOMAIN held
      <3>1. /\ IsPartial(HeldAfter(sale), Nat, Int)
            /\ DOMAIN HeldAfter(sale) = DOMAIN held \cup W
            /\ \A s \in DOMAIN held \cup W :
                 HeldAfter(sale)[s] = (IF s \in DOMAIN held THEN held[s] ELSE 0)
                                      + (IF s \in W THEN sale[s] ELSE 0)
        <4> HIDE DEF sale, W
        <4> QED  BY <2>4, HeldAfterFacts
      <3>2. ASSUME NEW s \in DOMAIN held PROVE HeldAfter(sale)[s] = 0
        <4>1. held[s] \in Int
          BY DEF IsPartial
        <4>2. CASE s \in W
          BY <3>1, <4>1, <4>2
        <4>3. CASE s \notin W
          BY <3>1, <4>1, <4>3
        <4>4. QED
          BY <4>2, <4>3
      <3> HIDE DEF sale
      <3>3. QED
        BY <2>4, <3>1, <3>2 DEF IsPartial
    <2>7. WithinLimits(HeldAfter(sale), CashAfter(sale, prices), prices, users)
      <3> HIDE DEF sale
      <3> QED  BY <2>5, <2>6, FlatIsWithinLimits
    <2> HIDE DEF at, sale, whole
    <2>8. QED
      BY <1>7, <2>3, <2>7
  <1>9. Min(valid) = 1
    <2>1. valid \subseteq DOMAIN Cuts /\ DOMAIN Cuts = 1..Len(Cuts) /\ Len(Cuts) \in Nat
      BY <1>2
    <2> HIDE DEF valid
    <2>2. valid \in SUBSET Nat /\ \A k \in valid : k \in Nat /\ k >= 1
      BY <2>1
    <2>3. Min(valid) \in valid /\ Min(valid) <= 1
      BY <1>8, <2>2, LeastOf
    <2>4. Min(valid) \in Nat /\ Min(valid) >= 1
      BY <2>2, <2>3
    <2>5. QED
      BY <2>3, <2>4
  <1>10. part(least).num # 0
    BY <1>3, <1>5, <1>6
  <1>11. lots = at(Min(valid))
    <2>1. AtomicBatch(wanted, fractions, prices, users) =
            IF W = {} THEN [lots |-> <<>>, reasons |-> {}]
            ELSE IF part(least).num = 0 THEN [lots |-> none, reasons |-> {"not_executable"}]
            ELSE IF valid = {} THEN [lots |-> none, reasons |-> {"projected_risk_limit"}]
            ELSE [lots    |-> at(Min(valid)),
                  reasons |-> IF Min(valid) = 1 /\ part(least).num = part(least).den THEN {} ELSE {"rescaled"}]
      BY DEF AtomicBatch, least
    <2> HIDE DEF part, none, at, valid
    <2>2. QED
      BY <1>8, <1>10, <2>1
  <1>12. QED
    <2> HIDE DEF at, valid, sale, lots
    <2>1. lots = sale
      BY <1>7, <1>9, <1>11
    <2>2. QED
      BY <2>1 DEF sale

-----------------------------------------------------------------------------
(* The invariants.                                                         *)

\* What a decision may ask for, in parts of a thousand.
Targets == -1000..1000

\* What the variables hold, and that there is a price for all that is held.
PortfolioTypes ==
  /\ program \in Programs /\ consumed \subseteq program
  /\ IsPartial(states, Nat \X Nat, Targets)
  /\ hour \in Nat /\ phase \in {"bars", "open", "over"} /\ cash \in Int
  /\ IsPartial(group, Nat, Quote) /\ IsPartial(held, Nat, Int) /\ IsPartial(marks, Nat, Nat \ {0})
  /\ phase = "bars" => DOMAIN held \subseteq DOMAIN marks
  /\ phase = "open" => DOMAIN held \subseteq DOMAIN marks \cup DOMAIN group

\* What the last batch and the closing took of the bars under way.
BatchInv ==
  /\ Together(batch.wanted, batch.filled)
  /\ IsPartial(batch.filled, Nat, Int) /\ DOMAIN batch.filled \subseteq DOMAIN group
  /\ \A s \in DOMAIN batch.filled : Magnitude(batch.filled[s]) <= group[s].capacity
  /\ CapacityIsShared
  /\ phase = "open" => flattened = <<>>

\* Of a symbol everything is taken in the order in which it was decided.
DecisionInv ==
  /\ \A e \in consumed, d \in program \ consumed : d.symbol = e.symbol => e.at < d.at
  /\ NewestDecisionStands

\* The decisions of a run are finitely many and well formed.
LEMMA ProgramFacts ==
  ASSUME program \in Programs
  PROVE  IsFiniteSet(program) /\ \A d \in program : /\ d.by \in Nat /\ d.symbol \in Nat /\ d.at \in Nat
                                                    /\ d.target \in Targets
  <1>1. program \subseteq Decision /\ IsFiniteSet(program)
    BY PortfolioAssumption
  <1>2. QED
    BY <1>1 DEF Decision, Targets

\* Of what is due of a key the newest is taken.
LEMMA LatestFacts ==
  ASSUME program \in Programs, NEW h \in Nat, NEW symbols, NEW by, NEW symbol,
         \E d \in Due(h, symbols) : d.by = by /\ d.symbol = symbol
  PROVE  LET d == Latest(Due(h, symbols), by, symbol)
         IN  /\ d \in Due(h, symbols) /\ d.by = by /\ d.symbol = symbol
             /\ \A e \in Due(h, symbols) : e.by = by /\ e.symbol = symbol => e.at <= d.at
  <1> DEFINE mine == {d \in Due(h, symbols) : d.by = by /\ d.symbol = symbol}
             ages == {h - d.at : d \in mine}
  <1>1. \A d \in Due(h, symbols) : d \in program /\ d.at \in Nat /\ h - d.at \in Nat
    BY ProgramFacts, PortfolioAssumption DEF Due
  <1>2. ages \in SUBSET Nat /\ ages # {}
    BY <1>1
  <1>3. PICK a \in ages : \A b \in ages : a <= b
    <2> HIDE DEF ages
    <2>1. QED
      BY <1>2, LeastOf
  <1>4. PICK d \in mine : a = h - d.at
    OBVIOUS
  <1>5. \A e \in mine : e.at <= d.at
    <2>1. ASSUME NEW e \in mine PROVE e.at <= d.at
      <3>1. h - d.at <= h - e.at
        BY <1>3, <1>4
      <3>2. e.at \in Nat /\ d.at \in Nat
        BY <1>1
      <3>3. QED
        BY <3>1, <3>2
    <2>2. QED
      BY <2>1
  <1>6. \E x \in Due(h, symbols) :
           /\ x.by = by /\ x.symbol = symbol
           /\ \A e \in Due(h, symbols) : e.by = by /\ e.symbol = symbol => e.at <= x.at
    BY <1>5
  <1>7. QED
    BY <1>6 DEF Latest

\* Taking decisions over keeps the types and the order.
LEMMA TakenOverFacts ==
  ASSUME PortfolioTypes, DecisionInv, NEW symbols,
         consumed' = consumed \cup Due(hour + 1, symbols),
         states' = TakenOver(Due(hour + 1, symbols)), program' = program
  PROVE  IsPartial(states', Nat \X Nat, Targets) /\ consumed' \subseteq program' /\ DecisionInv'
  <1> DEFINE due == Due(hour + 1, symbols)
             keys == {<<d.by, d.symbol>> : d \in due}
  <1>0. hour + 1 \in Nat /\ program \in Programs /\ Delay \in Nat
    BY PortfolioAssumption DEF PortfolioTypes
  <1>1. /\ due \subseteq program \ consumed
        /\ \A d \in program \ consumed : d.symbol \in symbols => (d \in due <=> d.at + Delay <= hour + 1)
        /\ \A d \in due : d.symbol \in symbols
    BY DEF Due
  <1>2. \A d \in program : d.by \in Nat /\ d.symbol \in Nat /\ d.at \in Nat /\ d.target \in Targets
    BY <1>0, ProgramFacts
  <1>3. ASSUME NEW key \in keys
        PROVE  /\ Latest(due, key[1], key[2]) \in due
               /\ key = <<Latest(due, key[1], key[2]).by, Latest(due, key[1], key[2]).symbol>>
               /\ \A e \in due : key = <<e.by, e.symbol>> => e.at <= Latest(due, key[1], key[2]).at
    <2>1. PICK d \in due : key = <<d.by, d.symbol>>
      OBVIOUS
    <2>2. key[1] = d.by /\ key[2] = d.symbol
      BY <2>1
    <2>3. \E x \in due : x.by = key[1] /\ x.symbol = key[2]
      BY <2>2
    <2>4. LET x == Latest(due, key[1], key[2])
          IN  /\ x \in due /\ x.by = key[1] /\ x.symbol = key[2]
              /\ \A e \in due : e.by = key[1] /\ e.symbol = key[2] => e.at <= x.at
      BY <1>0, <2>3, LatestFacts
    <2>5. key = <<key[1], key[2]>>
      BY <2>1
    <2>6. \A e \in due : key = <<e.by, e.symbol>> => e.by = key[1] /\ e.symbol = key[2]
      OBVIOUS
    <2>7. QED
      BY <2>4, <2>5, <2>6
  <1> HIDE DEF due
  <1>4. /\ states' = [key \in DOMAIN states \cup keys |->
                         IF key \in keys THEN Latest(due, key[1], key[2]).target ELSE states[key]]
    <2>1. \A key : (\E d \in due : key = <<d.by, d.symbol>>) <=> key \in keys
      OBVIOUS
    <2>2. QED
      BY <2>1 DEF TakenOver, due
  <1>5. IsFiniteSet(keys) /\ keys \subseteq Nat \X Nat
    <2>1. IsFiniteSet(due)
      BY <1>0, <1>1, ProgramFacts, FS_Subset
    <2>2. [d \in due |-> <<d.by, d.symbol>>] \in Surjection(due, keys)
      BY DEF Surjection
    <2>3. IsFiniteSet(keys)
      BY <2>1, <2>2, FS_Surjection
    <2>4. QED
      BY <1>1, <1>2, <2>3
  <1>6. IsPartial(states', Nat \X Nat, Targets)
    <2>1. DOMAIN states' = DOMAIN states \cup keys
      BY <1>4
    <2>2. IsFiniteSet(DOMAIN states') /\ DOMAIN states' \subseteq Nat \X Nat
      <3>1. IsFiniteSet(DOMAIN states) /\ DOMAIN states \subseteq Nat \X Nat
        BY DEF PortfolioTypes, IsPartial
      <3> HIDE DEF keys
      <3>2. IsFiniteSet(DOMAIN states \cup keys) /\ DOMAIN states \cup keys \subseteq Nat \X Nat
        BY <1>5, <3>1, FS_Union
      <3>3. QED
        BY <2>1, <3>2
    <2> DEFINE value(key) == IF key \in keys THEN Latest(due, key[1], key[2]).target ELSE states[key]
               D == DOMAIN states \cup keys
    <2>4. ASSUME NEW key \in D PROVE value(key) \in Targets
      <3>1. CASE key \in keys
        <4>1. Latest(due, key[1], key[2]).target \in Targets
          BY <1>1, <1>2, <1>3, <3>1
        <4>2. QED
          BY <3>1, <4>1
      <3>2. CASE key \notin keys
        <4>1. states[key] \in Targets
          BY <3>2 DEF PortfolioTypes, IsPartial
        <4>2. QED
          BY <3>2, <4>1
      <3>3. QED
        BY <3>1, <3>2
    <2>5. states' = [key \in D |-> value(key)]
      <3> HIDE DEF keys
      <3>1. QED
        BY <1>4
    <2>6. states' \in [DOMAIN states' -> Targets]
      <3> HIDE DEF value, D
      <3>1. QED
        BY <2>4, <2>5
    <2>7. QED
      BY <2>2, <2>6 DEF IsPartial
  <1>7. consumed' = consumed \cup due /\ consumed \subseteq program /\ consumed' \subseteq program'
    BY <1>1 DEF due, PortfolioTypes
  <1>8. ASSUME NEW e \in consumed', NEW d \in program' \ consumed', d.symbol = e.symbol
        PROVE  e.at < d.at
    <2>1. d \in program \ consumed /\ d \notin due
      BY <1>7
    <2>2. CASE e \in consumed
      BY <1>8, <2>1, <2>2 DEF DecisionInv
    <2>3. CASE e \in due
      <3>1. ~(d.at + Delay <= hour + 1) /\ e.at + Delay <= hour + 1
        BY <1>1, <1>8, <2>1, <2>3
      <3>2. d.at \in Nat /\ e.at \in Nat
        BY <1>1, <1>2, <2>1, <2>3
      <3>3. QED
        BY <1>0, <3>1, <3>2
    <2>4. QED
      BY <1>7, <2>2, <2>3
  <1>9. ASSUME NEW key \in DOMAIN states'
        PROVE  \E d \in consumed' : /\ key = <<d.by, d.symbol>> /\ states'[key] = d.target
                                    /\ \A e \in consumed' : key = <<e.by, e.symbol>> => e.at <= d.at
    <2>1. CASE key \in keys
      <3>1. PICK d \in due : /\ d = Latest(due, key[1], key[2]) /\ key = <<d.by, d.symbol>>
                             /\ \A e \in due : key = <<e.by, e.symbol>> => e.at <= d.at
        BY <1>3, <2>1
      <3>2. states'[key] = d.target
        BY <1>4, <2>1, <3>1
      <3>3. ASSUME NEW e \in consumed, key = <<e.by, e.symbol>> PROVE e.at <= d.at
        <4>1. e.symbol = d.symbol
          BY <3>1, <3>3
        <4>2. e.at < d.at /\ e.at \in Nat /\ d.at \in Nat
          BY <1>1, <1>2, <1>7, <4>1 DEF DecisionInv
        <4>3. QED
          BY <4>2
      <3>4. QED
        BY <1>7, <3>1, <3>2, <3>3
    <2>2. CASE key \notin keys
      <3>1. key \in DOMAIN states /\ states'[key] = states[key]
        BY <1>4, <2>2
      <3>2. PICK d \in consumed : /\ key = <<d.by, d.symbol>> /\ states[key] = d.target
                                  /\ \A e \in consumed : key = <<e.by, e.symbol>> => e.at <= d.at
        BY <3>1 DEF DecisionInv, NewestDecisionStands
      <3>3. \A e \in due : key # <<e.by, e.symbol>>
        BY <2>2
      <3>4. QED
        BY <1>7, <3>1, <3>2, <3>3
    <2>3. QED
      BY <2>1, <2>2
  <1>10. DecisionInv'
    BY <1>8, <1>9 DEF DecisionInv, NewestDecisionStands
  <1>11. QED
    BY <1>6, <1>7, <1>10

\* The opening of a group, as its parts.
LEMMA OpenFacts ==
  ASSUME PortfolioTypes, OpenGroup, DecisionInv
  PROVE  \E prices :
           \E lots \in {AtomicBatch(batch'.wanted, TargetFractions(states'), prices, DOMAIN states').lots} :
             /\ \E equity \in Int : batch'.wanted = OrdersToTargets(TargetFractions(states'), equity, group')
             /\ IsPartial(group', Nat, Quote)
             /\ \A s \in DOMAIN held \cup DOMAIN group' : prices[s] \in Int
             /\ \A s \in DOMAIN group' : prices[s] = group'[s].open
             /\ IsPartial(TargetFractions(states'), Nat, Int)
             /\ IsPartial(states', Nat \X Nat, Targets) /\ consumed' \subseteq program /\ DecisionInv'
             /\ batch'.filled = lots /\ batch'.before = held
             /\ held' = HeldAfter(lots) /\ cash' = CashAfter(lots, prices)
             /\ hour' = hour + 1 /\ phase' = "open" /\ flattened' = <<>> /\ program' = program /\ marks' = marks
             /\ phase = "bars"
  <1>1. PICK open \in Openings :
          LET due    == Due(hour + 1, DOMAIN open)
              prices == [s \in DOMAIN marks \cup DOMAIN open |->
                           IF s \in DOMAIN open THEN open[s].open ELSE marks[s]]
              equity == cash + Total(Worth(held, prices))
              fractions == TargetFractions(states')
              wanted == OrdersToTargets(fractions, equity, open)
              result == AtomicBatch(wanted, fractions, prices, DOMAIN states')
          IN  /\ group' = open
              /\ consumed' = consumed \cup due
              /\ states' = TakenOver(due)
              /\ batch' = [wanted |-> wanted, filled |-> result.lots, before |-> held]
              /\ held' = HeldAfter(result.lots)
              /\ cash' = CashAfter(result.lots, prices)
    BY DEF OpenGroup
  <1>2. /\ phase = "bars" /\ hour' = hour + 1 /\ phase' = "open" /\ flattened' = <<>>
        /\ program' = program /\ marks' = marks
    BY DEF OpenGroup
  <1> DEFINE prices == [s \in DOMAIN marks \cup DOMAIN open |->
                          IF s \in DOMAIN open THEN open[s].open ELSE marks[s]]
             equity == cash + Total(Worth(held, prices))
             fractions == TargetFractions(states')
             wanted == OrdersToTargets(fractions, equity, open)
             lots == AtomicBatch(wanted, fractions, prices, DOMAIN states').lots
  <1>3. /\ group' = open
        /\ consumed' = consumed \cup Due(hour + 1, DOMAIN open)
        /\ states' = TakenOver(Due(hour + 1, DOMAIN open))
        /\ batch' = [wanted |-> wanted, filled |-> lots, before |-> held]
        /\ held' = HeldAfter(lots)
        /\ cash' = CashAfter(lots, prices)
    BY <1>1
  <1>4. IsPartial(open, Nat, Quote)
    BY PortfolioAssumption DEF IsPartial
  <1>5. /\ \A s \in DOMAIN held \cup DOMAIN open : prices[s] \in Int
        /\ \A s \in DOMAIN open : prices[s] = open[s].open
    <2>1. DOMAIN held \subseteq DOMAIN marks
      BY <1>2 DEF PortfolioTypes
    <2>2. \A s \in DOMAIN marks : marks[s] \in Int
      BY DEF PortfolioTypes, IsPartial
    <2>3. \A s \in DOMAIN open : open[s].open \in Int
      BY <1>4 DEF IsPartial, Quote
    <2>4. \A s \in DOMAIN marks \cup DOMAIN open :
            prices[s] = IF s \in DOMAIN open THEN open[s].open ELSE marks[s]
      OBVIOUS
    <2> HIDE DEF prices
    <2>5. QED
      BY <2>1, <2>2, <2>3, <2>4
  <1>6. IsPartial(states', Nat \X Nat, Targets) /\ consumed' \subseteq program' /\ DecisionInv'
    BY <1>2, <1>3, TakenOverFacts
  <1>7. IsPartial(fractions, Nat, Int)
    <2>1. IsPartial(states', Nat \X Nat, Int)
      <3>1. Targets \subseteq Int
        BY DEF Targets
      <3>2. QED
        BY ONLY <1>6, <3>1, Widen, Zenon
    <2>2. QED
      BY <2>1, FractionsIn
  <1>8. equity \in Int
    <2>1. IsPartial(Worth(held, prices), Nat, Int)
      <3> HIDE DEF prices
      <3>1. IsPartial(held, Nat, Int)
        BY DEF PortfolioTypes
      <3>2. QED
        BY <1>5, <3>1, WorthFacts
    <2>2. Total(Worth(held, prices)) \in Int
      <3> HIDE DEF prices
      <3>1. QED
        BY <2>1, GrossIn
    <2>3. QED
      BY <2>2 DEF PortfolioTypes
  <1>9. batch'.wanted = wanted /\ batch'.filled = lots /\ batch'.before = held
    BY <1>3
  <1> HIDE DEF prices, equity, fractions
  <1>10. lots = AtomicBatch(batch'.wanted, fractions, prices, DOMAIN states').lots
    BY <1>9
  <1> HIDE DEF wanted, lots
  <1>11. batch'.wanted = OrdersToTargets(fractions, equity, group')
    BY <1>3, <1>9 DEF wanted
  <1>12. consumed' \subseteq program
    BY <1>2, <1>6
  <1>13. QED
    BY <1>2, <1>3, <1>4, <1>5, <1>6, <1>7, <1>8, <1>9, <1>10, <1>11, <1>12 DEF fractions

\* A sale and what is left of it cost what the whole costs.
LEMMA CostSplits ==
  ASSUME NEW D \in SUBSET Nat, IsFiniteSet(D), NEW h \in [D -> Int], NEW l \in [D -> Int],
         NEW prices, \A s \in D : prices[s] \in Int,
         \A s \in D : /\ h[s] > 0 => l[s] <= 0 /\ -h[s] <= l[s]
                      /\ h[s] < 0 => l[s] >= 0 /\ l[s] <= -h[s]
                      /\ h[s] # 0
  PROVE  Total(Cost([s \in D |-> -h[s]], prices))
           = Total(Cost(l, prices)) + Total(Cost([s \in D |-> -(h[s] + l[s])], prices))
  <1> DEFINE rest == [s \in D |-> -(h[s] + l[s])]
             f == Cost(l, prices)
             g == Cost(rest, prices)
             a == Cost([s \in D |-> -h[s]], prices)
  <1>1. LotCost \in Nat
    BY PortfolioAssumption
  <1>2. IsPartial(l, Nat, Int) /\ IsPartial(rest, Nat, Int) /\ DOMAIN l = D /\ DOMAIN rest = D
    BY DEF IsPartial
  <1>3. f \in [D -> Int] /\ g \in [D -> Int]
    <2>1. IsPartial(f, Nat, Int) /\ DOMAIN f = D
      BY <1>2, CostFacts DEF Cost
    <2>2. IsPartial(g, Nat, Int) /\ DOMAIN g = D
      <3> HIDE DEF rest
      <3>1. QED
        BY <1>2, CostFacts DEF Cost
    <2> HIDE DEF f, g
    <2>3. QED
      BY <2>1, <2>2 DEF IsPartial
  <1>4. a = [s \in D |-> f[s] + g[s]]
    <2>1. ASSUME NEW s \in D
          PROVE  -h[s] * prices[s] + Magnitude(-h[s]) * LotCost
                   = (l[s] * prices[s] + Magnitude(l[s]) * LotCost)
                     + (-(h[s] + l[s]) * prices[s] + Magnitude(-(h[s] + l[s])) * LotCost)
      <3>1. PICK x, y, p \in Int, c \in Nat : x = h[s] /\ y = l[s] /\ p = prices[s] /\ c = LotCost
        BY <1>1
      <3>2. Magnitude(-x) = Magnitude(y) + Magnitude(-(x + y))
        BY <3>1 DEF Magnitude
      <3>3. Magnitude(y) \in Int /\ Magnitude(-(x + y)) \in Int
        BY DEF Magnitude
      <3>4. PICK m, n \in Int : m = Magnitude(y) /\ n = Magnitude(-(x + y))
        BY <3>3
      <3>5. -x * p + (m + n) * c = (y * p + m * c) + (-(x + y) * p + n * c)
        BY ONLY x \in Int, y \in Int, p \in Int, c \in Int, m \in Int, n \in Int
      <3>6. QED
        BY <3>1, <3>2, <3>4, <3>5
    <2>2. a = [s \in D |-> -h[s] * prices[s] + Magnitude(-h[s]) * LotCost]
      BY DEF Cost
    <2>3. \A s \in D : /\ f[s] = l[s] * prices[s] + Magnitude(l[s]) * LotCost
                       /\ g[s] = -(h[s] + l[s]) * prices[s] + Magnitude(-(h[s] + l[s])) * LotCost
      BY <1>2 DEF Cost
    <2> HIDE DEF a, f, g
    <2>4. QED
      BY <2>1, <2>2, <2>3
  <1> HIDE DEF f, g, a
  <1>5. Total(a) = Total(f) + Total(g)
    BY <1>3, <1>4, TotalAdds
  <1>6. QED
    BY <1>5 DEF a, f, g

\* The inductive invariant.
PortfolioInv == PortfolioTypes /\ BatchInv /\ DecisionInv /\ FlatIsReached

\* The opening of a group keeps it: decisions, targets, orders and their batch.
LEMMA OpenKeeps == PortfolioInv /\ OpenGroup => PortfolioInv'
  <1> SUFFICES ASSUME PortfolioInv, OpenGroup PROVE PortfolioInv'
    OBVIOUS
  <1> DEFINE fractions == TargetFractions(states')
             wanted == batch'.wanted
  <1>0. PortfolioTypes /\ BatchInv /\ DecisionInv
    BY DEF PortfolioInv
  <1>1. PICK prices, lots :
          /\ lots = AtomicBatch(wanted, fractions, prices, DOMAIN states').lots
          /\ \E equity \in Int : wanted = OrdersToTargets(fractions, equity, group')
          /\ IsPartial(group', Nat, Quote)
          /\ \A s \in DOMAIN held \cup DOMAIN group' : prices[s] \in Int
          /\ \A s \in DOMAIN group' : prices[s] = group'[s].open
          /\ IsPartial(fractions, Nat, Int)
          /\ IsPartial(states', Nat \X Nat, Targets) /\ consumed' \subseteq program /\ DecisionInv'
          /\ batch'.filled = lots /\ batch'.before = held
          /\ held' = HeldAfter(lots) /\ cash' = CashAfter(lots, prices)
          /\ hour' = hour + 1 /\ phase' = "open" /\ flattened' = <<>> /\ program' = program /\ marks' = marks
          /\ phase = "bars"
    BY <1>0, OpenFacts
  <1>2. /\ program \in Programs /\ hour \in Nat /\ cash \in Int
        /\ IsPartial(held, Nat, Int) /\ IsPartial(marks, Nat, Nat \ {0})
        /\ DOMAIN held \subseteq DOMAIN marks
    BY <1>0, <1>1 DEF PortfolioTypes
  <1> HIDE DEF fractions, wanted
  <1>3. PICK equity \in Int : wanted = OrdersToTargets(fractions, equity, group')
    BY <1>1
  <1>4. /\ IsPartial(wanted, Nat, Int) /\ DOMAIN wanted \subseteq DOMAIN group'
        /\ \A s \in DOMAIN wanted : Magnitude(wanted[s]) >= Fine
    BY <1>1, <1>2, <1>3, OrdersFacts
  <1>5. /\ IsPartial(lots, Nat, Int) /\ DOMAIN lots = DOMAIN wanted
        /\ Together(wanted, lots)
        /\ \A s \in DOMAIN wanted : /\ Magnitude(lots[s]) <= group'[s].capacity
                                    /\ wanted[s] > 0 => lots[s] >= 0
                                    /\ wanted[s] < 0 => lots[s] <= 0
    BY <1>1, <1>4, AtomicFacts
  <1>6. /\ IsPartial(held', Nat, Int) /\ DOMAIN held' = DOMAIN held \cup DOMAIN lots
        /\ \A s \in DOMAIN held \cup DOMAIN lots :
             held'[s] = (IF s \in DOMAIN held THEN held[s] ELSE 0) + (IF s \in DOMAIN lots THEN lots[s] ELSE 0)
    <2>1. /\ IsPartial(HeldAfter(lots), Nat, Int) /\ DOMAIN HeldAfter(lots) = DOMAIN held \cup DOMAIN lots
          /\ \A s \in DOMAIN held \cup DOMAIN lots :
               HeldAfter(lots)[s] = (IF s \in DOMAIN held THEN held[s] ELSE 0)
                                    + (IF s \in DOMAIN lots THEN lots[s] ELSE 0)
      BY <1>2, <1>5, HeldAfterFacts
    <2>2. held' = HeldAfter(lots)
      BY <1>1
    <2>3. QED
      BY ONLY <2>1, <2>2
  <1>7. \A s \in DOMAIN lots : prices[s] \in Int
    BY <1>1, <1>4, <1>5
  <1>8. cash' \in Int /\ cash' = cash - Total(Cost(lots, prices))
    BY <1>1, <1>2, <1>5, <1>7, CashAfterFacts
  <1>9. PortfolioTypes'
    <2>1. hour' \in Nat /\ program' \in Programs /\ consumed' \subseteq program'
      BY <1>1, <1>2
    <2>2. DOMAIN held' \subseteq DOMAIN marks' \cup DOMAIN group'
      BY <1>1, <1>2, <1>4, <1>5, <1>6
    <2>3. IsPartial(marks', Nat, Nat \ {0})
      BY <1>1, <1>2
    <2>4. phase' = "open" /\ IsPartial(states', Nat \X Nat, Targets) /\ IsPartial(group', Nat, Quote)
      BY <1>1
    <2>5. QED
      BY <1>6, <1>8, <2>1, <2>2, <2>3, <2>4 DEF PortfolioTypes
  <1>10. BatchInv'
    <2>1. /\ batch'.wanted = wanted /\ batch'.filled = lots /\ DOMAIN flattened' = {}
          /\ flattened' = <<>>
      BY <1>1 DEF wanted
    <2>2. CapacityIsShared'
      BY <2>1 DEF CapacityIsShared
    <2>3. QED
      BY <1>4, <1>5, <2>1, <2>2 DEF BatchInv
  <1>11. FlatIsReached'
    <2> DEFINE owned == {s \in DOMAIN held : held[s] # 0}
               sale == [s \in owned |-> -held[s]]
               rest == [s \in owned |-> -held'[s]]
               open == [s \in owned |-> group'[s].open]
    <2> SUFFICES ASSUME \A key \in DOMAIN states' : states'[key] = 0,
                        \A s \in owned : s \in DOMAIN group' /\ group'[s].capacity >= Magnitude(held[s])
                 PROVE  (\A s \in DOMAIN held' : held'[s] = 0) \/ cash' - Total(Cost(rest, open)) <= 0
      BY <1>1 DEF FlatIsReached, CashAfter, Cost
    <2>1. IsPartial(fractions, Nat, {0})
      <3>1. IsPartial(states', Nat \X Nat, {0})
        <4>1. DOMAIN states' \subseteq Nat \X Nat /\ IsFiniteSet(DOMAIN states')
              /\ states' = [key \in DOMAIN states' |-> states'[key]]
          BY <1>1 DEF IsPartial
        <4>2. states' \in [DOMAIN states' -> {0}]
          BY <4>1
        <4>3. QED
          BY <4>1, <4>2 DEF IsPartial
      <3>2. QED
        BY <3>1, FractionsIn DEF fractions
    <2>2. DOMAIN wanted = owned /\ \A s \in DOMAIN wanted : wanted[s] = -(held[s] * Fine)
      <3>1. \A s \in DOMAIN held : held[s] # 0 => s \in DOMAIN group'
        OBVIOUS
      <3>2. IsPartial(group', Nat, Quote)
        BY <1>1
      <3>3. /\ DOMAIN OrdersToTargets(fractions, equity, group') = {s \in DOMAIN held : held[s] # 0}
            /\ \A s \in DOMAIN OrdersToTargets(fractions, equity, group') :
                 OrdersToTargets(fractions, equity, group')[s] = -(held[s] * Fine)
        BY <1>2, <2>1, <3>1, <3>2, FlatOrders
      <3>4. QED
        BY <1>3, <3>3
    <2>3. (\A s \in owned : lots[s] = -held[s]) \/ CashAfter(sale, prices) <= 0
      <3>1. \A s \in DOMAIN wanted : /\ wanted[s] = -(held[s] * Fine)
                                     /\ s \in DOMAIN group'
                                     /\ group'[s].capacity >= Magnitude(held[s])
        BY <2>2
      <3>2. \A s \in DOMAIN held : prices[s] \in Int
        BY <1>1
      <3>3. DOMAIN wanted = {s \in DOMAIN held : held[s] # 0}
        BY <2>2
      <3>4. LET all == [s \in DOMAIN wanted |-> -held[s]]
            IN  (\A s \in DOMAIN wanted : lots[s] = -held[s]) \/ CashAfter(all, prices) <= 0
        BY <1>1, <1>2, <1>4, <2>1, <3>1, <3>2, <3>3, FlatBatch
      <3>5. QED
        BY <2>2, <3>4
    <2>4. /\ owned \in SUBSET Nat /\ IsFiniteSet(owned)
          /\ \A s \in owned : held[s] \in Int /\ lots[s] \in Int /\ held'[s] = held[s] + lots[s]
      <3>1. owned \subseteq DOMAIN held
        OBVIOUS
      <3>2. IsFiniteSet(owned) /\ owned \in SUBSET Nat
        BY <1>2, <3>1, FS_Subset DEF IsPartial
      <3>3. \A s \in owned : held[s] \in Int /\ lots[s] \in Int
        BY <1>2, <1>5, <2>2 DEF IsPartial
      <3>4. \A s \in owned : held'[s] = held[s] + lots[s]
        BY <1>5, <1>6, <2>2
      <3>5. QED
        BY <3>2, <3>3, <3>4
    <2>5. ASSUME NEW s \in owned
          PROVE  /\ held[s] > 0 => lots[s] <= 0 /\ -held[s] <= lots[s]
                 /\ held[s] < 0 => lots[s] >= 0 /\ lots[s] <= -held[s]
                 /\ held[s] # 0
      <3>1. PICK h, l \in Int, f \in Nat \ {0} : h = held[s] /\ l = lots[s] /\ f = Fine
        BY <2>4, PortfolioAssumption
      <3>2. /\ f * Magnitude(l) <= Magnitude(-(h * f))
            /\ -(h * f) > 0 => l >= 0
            /\ -(h * f) < 0 => l <= 0
        BY <1>5, <2>2, <3>1 DEF Together
      <3>3. h # 0
        BY <3>1
      <3>4. CASE h > 0
        <4>1. h * f > 0 /\ h * f \in Int
          BY ONLY <3>4, h \in Int, f \in Nat \ {0}
        <4>2. l <= 0
          BY <3>2, <4>1
        <4>3. f * (-l) <= h * f
          BY <3>2, <4>1, <4>2 DEF Magnitude
        <4>4. -l <= h
          BY ONLY <4>3, h \in Int, l \in Int, f \in Nat \ {0}
        <4>5. QED
          BY <3>1, <3>4, <4>2, <4>4
      <3>5. CASE h < 0
        <4>1. h * f < 0 /\ h * f \in Int
          BY ONLY <3>5, h \in Int, f \in Nat \ {0}
        <4>2. l >= 0
          BY <3>2, <4>1
        <4>3. f * l <= -(h * f)
          BY <3>2, <4>1, <4>2 DEF Magnitude
        <4>4. l <= -h
          BY ONLY <4>3, h \in Int, l \in Int, f \in Nat \ {0}
        <4>5. QED
          BY <3>1, <3>5, <4>2, <4>4
      <3>6. QED
        BY <3>1, <3>3, <3>4, <3>5
    <2>6. CASE \A s \in owned : lots[s] = -held[s]
      <3>1. ASSUME NEW s \in DOMAIN held' PROVE held'[s] = 0
        <4>1. CASE s \in owned
          <5>1. held'[s] = held[s] + lots[s] /\ held[s] \in Int /\ lots[s] = -held[s]
            BY <2>4, <2>6, <4>1
          <5>2. QED
            BY <5>1
        <4>2. CASE s \notin owned
          <5>1. s \in DOMAIN held /\ s \notin DOMAIN lots
            BY <1>5, <1>6, <2>2, <3>1, <4>2
          <5>2. held[s] = 0 /\ held'[s] = held[s] + 0
            BY <1>6, <4>2, <5>1
          <5>3. QED
            BY <5>2
        <4>3. QED
          BY <4>1, <4>2
      <3>2. QED
        BY <3>1
    <2>7. CASE CashAfter(sale, prices) <= 0
      <3>1. /\ \A s \in owned : prices[s] \in Int /\ prices[s] = open[s]
            /\ lots \in [owned -> Int]
        <4>1. lots \in [owned -> Int]
          BY <1>5, <2>2 DEF IsPartial
        <4>2. QED
          BY <1>1, <4>1
      <3> DEFINE h == [s \in owned |-> held[s]]
                 s1 == [s \in owned |-> -h[s]]
                 r1 == [s \in owned |-> -(h[s] + lots[s])]
      <3>2. sale = s1 /\ rest = r1 /\ h \in [owned -> Int]
        BY <2>4
      <3>3. Total(Cost(s1, prices)) = Total(Cost(lots, prices)) + Total(Cost(r1, prices))
        <4>1. \A s \in owned : h[s] = held[s]
          OBVIOUS
        <4> HIDE DEF owned, h
        <4>2. \A s \in owned : /\ h[s] > 0 => lots[s] <= 0 /\ -h[s] <= lots[s]
                               /\ h[s] < 0 => lots[s] >= 0 /\ lots[s] <= -h[s]
                               /\ h[s] # 0
          BY <2>5, <4>1
        <4>3. QED
          BY <2>4, <3>1, <3>2, <4>2, CostSplits
      <3>4. IsPartial(sale, Nat, Int) /\ IsPartial(rest, Nat, Int) /\ DOMAIN sale = owned /\ DOMAIN rest = owned
        <4>1. \A s \in owned : -held[s] \in Int /\ -held'[s] \in Int
          BY <2>4
        <4> HIDE DEF owned
        <4>2. QED
          BY <2>4, <4>1 DEF IsPartial
      <3>5. Cost(rest, open) = Cost(rest, prices)
        BY <3>1 DEF Cost
      <3>6. CashAfter(sale, prices) = cash - Total(Cost(sale, prices))
        <4> HIDE DEF sale, owned
        <4>1. QED
          BY <1>2, <3>1, <3>4, CashAfterFacts
      <3>8. Total(Cost(lots, prices)) \in Int /\ Total(Cost(rest, prices)) \in Int
        <4> HIDE DEF rest, owned
        <4>1. QED
          BY <1>5, <1>7, <3>1, <3>4, CostFacts
      <3> HIDE DEF owned, sale, rest, open, s1, r1
      <3>9. cash' - Total(Cost(rest, open)) = CashAfter(sale, prices)
        BY <1>2, <1>8, <3>2, <3>3, <3>5, <3>6, <3>8
      <3>10. QED
        BY <2>7, <3>9
    <2>8. QED
      BY <2>3, <2>6, <2>7
  <1>12. QED
    BY <1>1, <1>9, <1>10, <1>11 DEF PortfolioInv

\* The closing keeps it: marks, carry and the end of sessions.
LEMMA CloseKeeps == PortfolioInv /\ CloseGroup => PortfolioInv'
  <1> SUFFICES ASSUME PortfolioInv, CloseGroup PROVE PortfolioInv'
    OBVIOUS
  <1> DEFINE lots == SessionLots
             carry == LotCost * Total([s \in DOMAIN held |-> IF held[s] < 0 THEN -held[s] ELSE 0])
  <1>0. PortfolioTypes /\ BatchInv /\ DecisionInv
    BY DEF PortfolioInv
  <1>1. /\ phase = "open" /\ phase' = "bars"
        /\ program' = program /\ consumed' = consumed /\ states' = states /\ hour' = hour
        /\ group' = group /\ batch' = batch
        /\ marks' = [s \in DOMAIN marks \cup DOMAIN group |-> IF s \in DOMAIN group THEN group[s].close ELSE marks[s]]
        /\ \/ held' = HeldAfter(lots) /\ cash' = CashAfter(lots, marks') - carry /\ flattened' = lots
           \/ cash' = cash - carry /\ held' = held /\ flattened' = flattened
    BY DEF CloseGroup
  <1>2. /\ IsPartial(held, Nat, Int) /\ IsPartial(marks, Nat, Nat \ {0}) /\ IsPartial(group, Nat, Quote)
        /\ DOMAIN held \subseteq DOMAIN marks \cup DOMAIN group
        /\ cash \in Int
    BY <1>0, <1>1 DEF PortfolioTypes
  <1>3. IsPartial(marks', Nat, Nat \ {0}) /\ DOMAIN marks' = DOMAIN marks \cup DOMAIN group
    <2> DEFINE D == DOMAIN marks \cup DOMAIN group
               mark(s) == IF s \in DOMAIN group THEN group[s].close ELSE marks[s]
    <2>1. ASSUME NEW s \in D PROVE mark(s) \in Nat \ {0}
      BY <1>2 DEF IsPartial, Quote
    <2>2. IsFiniteSet(D) /\ D \subseteq Nat
      BY <1>2, FS_Union DEF IsPartial
    <2>3. marks' = [s \in D |-> mark(s)]
      BY <1>1
    <2> HIDE DEF mark, D
    <2>4. DOMAIN marks' = D /\ marks' \in [D -> Nat \ {0}]
      BY <2>1, <2>3
    <2>5. QED
      BY <2>2, <2>4 DEF D, IsPartial
  <1>4. carry \in Int
    <2> DEFINE short == [s \in DOMAIN held |-> IF held[s] < 0 THEN -held[s] ELSE 0]
    <2>1. IsPartial(short, Nat, Int)
      <3>1. \A s \in DOMAIN held : (IF held[s] < 0 THEN -held[s] ELSE 0) \in Int
        BY <1>2 DEF IsPartial
      <3>2. QED
        BY <1>2, <3>1 DEF IsPartial
    <2>2. Total(short) \in Int
      <3> HIDE DEF short
      <3>1. QED
        BY <2>1, GrossIn
    <2>3. LotCost \in Nat
      BY PortfolioAssumption
    <2> HIDE DEF short
    <2>4. LotCost * Total(short) \in Int
      BY <2>2, <2>3
    <2>5. QED
      BY <2>4 DEF short
  <1> HIDE DEF carry
  <1>5. /\ IsPartial(lots, Nat, Int) /\ DOMAIN lots \subseteq DOMAIN group \cap DOMAIN held
        /\ \A s \in DOMAIN lots : UsedAtOpen(s) + Magnitude(lots[s]) <= group[s].capacity
    <2> DEFINE D == {s \in DOMAIN group \cap DOMAIN held : group[s].session /\ held[s] # 0}
               lot(s) == (IF held[s] > 0 THEN -1 ELSE 1) * Smaller(Magnitude(held[s]), LeftOfBar(s))
    <2>1. lots = [s \in D |-> lot(s)]
      BY DEF SessionLots
    <2>2. IsFiniteSet(D) /\ D \subseteq Nat
      BY <1>2, FS_Subset DEF IsPartial
    <2>3. ASSUME NEW s \in D
          PROVE  lot(s) \in Int /\ UsedAtOpen(s) + Magnitude(lot(s)) <= group[s].capacity
      <3>1. group[s].capacity \in Nat /\ held[s] \in Int
        BY <1>2 DEF IsPartial, Quote
      <3>2. UsedAtOpen(s) \in Nat /\ UsedAtOpen(s) <= group[s].capacity
        <4>1. CASE s \in DOMAIN batch.filled
          <5>1. batch.filled[s] \in Int /\ Magnitude(batch.filled[s]) <= group[s].capacity
            BY <1>0, <4>1 DEF BatchInv, IsPartial
          <5>2. QED
            BY <4>1, <5>1 DEF UsedAtOpen, Magnitude
        <4>2. CASE s \notin DOMAIN batch.filled
          BY <3>1, <4>2 DEF UsedAtOpen
        <4>3. QED
          BY <4>1, <4>2
      <3>3. PICK c, u, h, m \in Int : /\ c = group[s].capacity /\ u = UsedAtOpen(s) /\ h = held[s]
                                      /\ m = Smaller(Magnitude(h), c - u) /\ m >= 0 /\ m <= c - u
        <4>1. PICK c, u, h \in Int : c = group[s].capacity /\ u = UsedAtOpen(s) /\ h = held[s] /\ u <= c
          BY <3>1, <3>2
        <4>2. Magnitude(h) \in Int /\ Magnitude(h) >= 0
          BY DEF Magnitude
        <4>3. /\ Smaller(Magnitude(h), c - u) \in Int /\ Smaller(Magnitude(h), c - u) >= 0
              /\ Smaller(Magnitude(h), c - u) <= c - u
          BY <4>1, <4>2 DEF Smaller
        <4>4. QED
          BY <4>1, <4>3
      <3>4. lot(s) = (IF h > 0 THEN -1 ELSE 1) * m
        BY <3>3 DEF LeftOfBar
      <3> HIDE DEF lot
      <3>5. lot(s) \in Int /\ Magnitude(lot(s)) = m
        BY <3>3, <3>4 DEF Magnitude
      <3>6. QED
        BY <3>3, <3>5
    <2>4. D \subseteq DOMAIN group \cap DOMAIN held
      OBVIOUS
    <2> HIDE DEF lot, D, lots
    <2>5. DOMAIN lots = D /\ lots \in [D -> Int]
      BY <2>1, <2>3
    <2>6. \A s \in D : lots[s] = lot(s)
      BY <2>1
    <2>7. QED
      BY <2>2, <2>3, <2>4, <2>5, <2>6 DEF IsPartial
  <1> HIDE DEF lots
  <1>6. /\ IsPartial(HeldAfter(lots), Nat, Int) /\ DOMAIN HeldAfter(lots) = DOMAIN held
    BY <1>2, <1>5, HeldAfterFacts
  <1>7. CashAfter(lots, marks') \in Int
    <2>1. \A s \in DOMAIN lots : marks'[s] \in Int
      BY <1>2, <1>3, <1>5 DEF IsPartial
    <2>2. QED
      BY <1>2, <1>5, <2>1, CashAfterFacts
  <1>8. PortfolioTypes'
    <2>1. IsPartial(held', Nat, Int) /\ DOMAIN held' = DOMAIN held
      BY <1>1, <1>2, <1>6
    <2>2. cash' \in Int
      BY <1>1, <1>2, <1>4, <1>7
    <2>3. /\ program' \in Programs /\ consumed' \subseteq program' /\ hour' \in Nat
          /\ IsPartial(states', Nat \X Nat, Targets) /\ IsPartial(group', Nat, Quote)
      BY <1>0, <1>1 DEF PortfolioTypes
    <2>4. phase' = "bars" /\ DOMAIN held' \subseteq DOMAIN marks'
      BY <1>1, <1>2, <1>3, <2>1
    <2>5. QED
      BY <1>3, <2>1, <2>2, <2>3, <2>4 DEF PortfolioTypes
  <1>9. BatchInv'
    <2>2. CapacityIsShared'
      <3>1. CASE flattened' = lots
        BY <1>1, <1>5, <3>1 DEF CapacityIsShared, UsedAtOpen
      <3>2. CASE flattened' = flattened
        BY <1>0, <1>1, <3>2 DEF BatchInv, CapacityIsShared, UsedAtOpen
      <3>3. QED
        BY <1>1, <3>1, <3>2
    <2>3. QED
      BY <1>0, <1>1, <2>2 DEF BatchInv
  <1>10. DecisionInv'
    BY <1>0, <1>1 DEF DecisionInv, NewestDecisionStands
  <1>11. FlatIsReached'
    BY <1>1 DEF FlatIsReached
  <1>12. QED
    BY <1>8, <1>9, <1>10, <1>11 DEF PortfolioInv

\* However decisions, bars and sessions come, the portfolio follows its newest decisions,
\* fills the legs of a batch in one proportion, shares the room of a bar between its
\* opening and its closing, and is flat when told to be and able to.
THEOREM PortfolioFollowsDecisions == PortfolioSpec => []PortfolioFollows
  <1>1. PortfolioInit => PortfolioInv
    <2> SUFFICES ASSUME PortfolioInit PROVE PortfolioInv
      OBVIOUS
    <2>1. DOMAIN << >> = {}
      OBVIOUS
    <2>2. \A D, R : IsPartial(<<>>, D, R)
      BY <2>1, FS_EmptySet DEF IsPartial
    <2>3. /\ program \in Programs /\ consumed = {} /\ states = <<>> /\ hour = 0 /\ group = <<>>
          /\ phase = "bars" /\ cash = InitialCash /\ held = <<>> /\ marks = <<>>
          /\ batch = [wanted |-> <<>>, filled |-> <<>>, before |-> <<>>] /\ flattened = <<>>
      BY DEF PortfolioInit, NoBatch
    <2>4. InitialCash \in Int
      BY PortfolioAssumption
    <2>5. PortfolioTypes
      BY <2>1, <2>2, <2>3, <2>4 DEF PortfolioTypes
    <2>6. BatchInv
      BY <2>1, <2>2, <2>3 DEF BatchInv, Together, CapacityIsShared
    <2>7. DecisionInv /\ FlatIsReached
      BY <2>1, <2>3 DEF DecisionInv, NewestDecisionStands, FlatIsReached
    <2>8. QED
      BY <2>5, <2>6, <2>7 DEF PortfolioInv
  <1>2. PortfolioInv /\ [PortfolioNext]_pvars => PortfolioInv'
    <2> SUFFICES ASSUME PortfolioInv, [PortfolioNext]_pvars PROVE PortfolioInv'
      OBVIOUS
    <2>1. CASE OpenGroup
      BY <2>1, OpenKeeps
    <2>2. CASE CloseGroup
      BY <2>2, CloseKeeps
    <2>3. CASE EndOfBars
      <3>1. /\ phase = "bars" /\ phase' = "over"
            /\ UNCHANGED <<program, consumed, states, hour, group, cash, held, marks, batch, flattened>>
        BY <2>3 DEF EndOfBars
      <3>2. PortfolioTypes'
        BY <3>1 DEF PortfolioInv, PortfolioTypes
      <3>3. BatchInv'
        BY <3>1 DEF PortfolioInv, BatchInv, CapacityIsShared, UsedAtOpen
      <3>4. DecisionInv' /\ FlatIsReached'
        BY <3>1 DEF PortfolioInv, DecisionInv, NewestDecisionStands, FlatIsReached
      <3>5. QED
        BY <3>2, <3>3, <3>4 DEF PortfolioInv
    <2>4. CASE UNCHANGED pvars
      <3>1. UNCHANGED <<program, consumed, states, hour, group, phase, cash, held, marks, batch, flattened>>
        BY <2>4 DEF pvars
      <3>2. PortfolioTypes' /\ DecisionInv'
        BY <3>1 DEF PortfolioInv, PortfolioTypes, DecisionInv, NewestDecisionStands
      <3>3. BatchInv'
        BY <3>1 DEF PortfolioInv, BatchInv, CapacityIsShared, UsedAtOpen
      <3>4. FlatIsReached'
        BY <3>1 DEF PortfolioInv, FlatIsReached, CashAfter
      <3>5. QED
        BY <3>2, <3>3, <3>4 DEF PortfolioInv
    <2>5. QED
      BY <2>1, <2>2, <2>3, <2>4 DEF PortfolioNext
  <1>3. PortfolioInv => PortfolioFollows
    BY DEF PortfolioInv, BatchInv, DecisionInv, PortfolioFollows, LegsGoTogether, Together
  <1>4. QED
    BY <1>1, <1>2, <1>3, PTL DEF PortfolioSpec

-----------------------------------------------------------------------------
(* The replay of orders over bars (OrderExecution).                        *)

\* A sum with one term is the term.
LEMMA TotalSingle ==
  ASSUME NEW S, IsFiniteSet(S), NEW i \in S, NEW v \in Int
  PROVE  Total([j \in S |-> IF j = i THEN v ELSE 0]) = v
  <1> DEFINE f == [j \in S |-> IF j = i THEN v ELSE 0]
  <1>0. DOMAIN f = S /\ f[i] = v /\ \A x \in S : x # i => f[x] = 0
    OBVIOUS
  <1> HIDE DEF f
  <1>1. PICK t : IsTable(t, f, SUBSET S) /\ Total(f) = t[S]
    BY <1>0, TotalTable
  <1> DEFINE Right(s) == t[s] = IF i \in s THEN v ELSE 0
             bad == {s \in SUBSET S : ~Right(s)}
             sizes == {Cardinality(s) : s \in bad}
  <1>2. bad = {}
    <2> SUFFICES ASSUME bad # {} PROVE FALSE
      OBVIOUS
    <2>1. sizes \in SUBSET Nat /\ sizes # {}
      <3>1. ASSUME NEW s \in SUBSET S PROVE Cardinality(s) \in Nat
        BY OneLess
      <3> HIDE DEF Right
      <3> QED  BY <3>1
    <2>2. Min(sizes) \in sizes /\ \A m \in sizes : Min(sizes) <= m
      <3> HIDE DEF sizes
      <3> QED  BY <2>1, LeastOf
    <2>3. PICK s \in bad : Cardinality(s) = Min(sizes)
      BY <2>2
    <2>4. \A z \in bad : Cardinality(s) <= Cardinality(z)
      BY <2>2, <2>3
    <2>5. t[s] = IF s = {} THEN 0 ELSE f[Pick(s)] + t[s \ {Pick(s)}]
      BY <1>1 DEF IsTable
    <2>6. s # {}
      BY <2>5
    <2>7. Pick(s) \in s /\ s \ {Pick(s)} \in SUBSET S
          /\ Cardinality(s \ {Pick(s)}) = Cardinality(s) - 1 /\ Cardinality(s) \in Nat
      BY <2>6, OneLess
    <2>8. Right(s \ {Pick(s)})
      BY <2>4, <2>7
    <2>9. Right(s)
      <3>1. CASE Pick(s) = i
        BY <1>0, <2>5, <2>6, <2>7, <2>8, <3>1
      <3>2. CASE Pick(s) # i
        BY <1>0, <2>5, <2>6, <2>7, <2>8, <3>2
      <3>3. QED
        BY <3>1, <3>2
    <2>10. QED
      BY <2>9
  <1>3. QED
    BY <1>1, <1>2 DEF f

\* What is rounded to lots is not negative.
LEMMA LotsIn ==
  ASSUME NEW q \in Nat
  PROVE  Lots(q) \in Nat
  <1>1. Lot \in Nat \ {0}
    BY ExecutionAssumption
  <1>2. q % Lot \in Nat /\ q % Lot <= q
    <2>1. q = Lot * (q \div Lot) + (q % Lot) /\ q % Lot \in Nat
      BY <1>1
    <2>2. q \div Lot \in Nat
      BY <1>1
    <2>3. Lot * (q \div Lot) \in Nat
      BY <1>1, <2>2
    <2>4. QED
      BY <2>1, <2>3
  <1>3. QED
    BY <1>2 DEF Lots

\* The inductive invariant: an order that still waits was not filled, fills explain the
\* positions, and a position that a session leaves was reported.
ExecutionInv ==
  /\ ExecutionTypeOK
  /\ \A i \in Orders : i \in pending \/ stage = "intake" => fills[i] = 0
  /\ LedgerExplainsPosition
  /\ SessionEndsFlat

\* What a turn comes to: an order is filled for no more than it asks.
LEMMA TurnFacts ==
  ASSUME ExecutionTypeOK, NEW i \in Orders, IsTurnOf(i)
  PROVE  /\ orders[i] \in Intent /\ orders[i].symbol = bar.symbol /\ i \in pending
         /\ bar \in Bar /\ bar.symbol \in Symbols /\ Position \in Int
         /\ Capacity \in Nat /\ Lots(orders[i].quantity) \in Nat
         /\ Fillable(i) \in Int /\ Fillable(i) <= Lots(orders[i].quantity)
         /\ orders[i].effect = "close" => Fillable(i) <= Reducible(i, Position)
         /\ Filled(i) \in Int /\ Filled(i) <= Fillable(i)
         /\ Unborrowed(i) => Filled(i) <= Floor0(Position)
  <1>1. /\ orders[i] \in Intent /\ orders[i].quantity \in Nat
        /\ orders[i].symbol = bar.symbol /\ i \in pending
    BY ExecutionAssumption DEF ExecutionTypeOK, IsTurnOf, Waiting, Intent
  <1>2. bar \in Bar /\ bar.symbol \in Symbols /\ bar.volume \in Nat
    BY ExecutionAssumption DEF ExecutionTypeOK, IsTurnOf, Bar
  <1>3. Position \in Int
    BY <1>2 DEF ExecutionTypeOK, Position
  <1>4. Capacity \in Nat
    <2>1. Floor0(bar.volume - used) \in Nat
      BY <1>2 DEF ExecutionTypeOK, Floor0
    <2>2. QED
      BY <2>1, LotsIn DEF Capacity
  <1>5. Lots(orders[i].quantity) \in Nat
    BY <1>1, LotsIn
  <1>6. /\ Fillable(i) \in Int /\ Fillable(i) <= Lots(orders[i].quantity)
        /\ orders[i].effect = "close" => Fillable(i) <= Reducible(i, Position)
    BY <1>3, <1>4, <1>5 DEF Fillable, Least, Reducible
  <1>7. /\ Filled(i) \in Int /\ Filled(i) <= Fillable(i)
        /\ Unborrowed(i) => Filled(i) <= Floor0(Position)
    BY <1>3, <1>6 DEF Filled, Least, Floor0
  <1>8. QED
    BY <1>1, <1>2, <1>3, <1>4, <1>5, <1>6, <1>7

\* The signed fills of a symbol are finitely many integers, and their sum is one.
LEMMA SignedIn ==
  ASSUME ExecutionTypeOK, NEW z \in Symbols
  PROVE  /\ IsFiniteSet(DOMAIN Signed(z)) /\ Signed(z) \in [DOMAIN Signed(z) -> Int]
         /\ SignedFills(z) = Total(Signed(z)) /\ SignedFills(z) \in Int
         /\ SignedFills(z)' = Total(Signed(z)')
  <1>1. IsFiniteSet(Orders)
    BY FS_Interval, ExecutionAssumption DEF Orders
  <1>2. DOMAIN Signed(z) \subseteq Orders /\ Signed(z) \in [DOMAIN Signed(z) -> Int]
    BY DEF Signed, Sign, ExecutionTypeOK
  <1>3. IsFiniteSet(DOMAIN Signed(z))
    BY <1>1, <1>2, FS_Subset
  <1>4. SignedFills(z) = Total(Signed(z))
    BY DEF SignedFills, Total
  <1>5. Total(Signed(z)) \in Int
    BY <1>2, <1>3, TotalIn
  <1>6. SignedFills(z)' = Total(Signed(z)')
    BY DEF SignedFills, Total, MapThenSumSet, MapThenFoldSet
  <1>7. QED
    BY <1>2, <1>3, <1>4, <1>5, <1>6

\* A fill changes one position by what is filled, and nothing else of the account.
LEMMA FillFacts ==
  ASSUME ExecutionInv, NEW i \in Orders, Fill(i)
  PROVE  /\ ExecutionTypeOK' /\ LedgerExplainsPosition'
         /\ \A j \in Orders : j \in pending' \/ stage' = "intake" => fills'[j] = 0
  <1> DEFINE s == bar.symbol
             change == Filled(i) * Sign(orders[i].side)
  <1>1. /\ orders[i] \in Intent /\ orders[i].symbol = s /\ i \in pending
        /\ bar \in Bar /\ s \in Symbols /\ Position \in Int
        /\ Filled(i) \in Int /\ Filled(i) <= Lots(orders[i].quantity) /\ Filled(i) > 0
    <2>1. IsTurnOf(i) /\ ExecutionTypeOK
      BY DEF Fill, ExecutionInv
    <2>2. Lots(orders[i].quantity) \in Nat /\ Fillable(i) \in Int /\ Filled(i) \in Int
          /\ Filled(i) <= Fillable(i) /\ Fillable(i) <= Lots(orders[i].quantity)
      BY <2>1, TurnFacts
    <2>3. QED
      BY <2>1, <2>2, TurnFacts DEF Fill
  <1>2. /\ stage = "orders" /\ stage' = stage /\ orders' = orders /\ initial' = initial
        /\ shortBorrow' = shortBorrow /\ closed' = closed /\ bar' = bar /\ leftOpen' = leftOpen
        /\ pending' = pending \ {i} /\ eligible' = eligible \cup {i} /\ cursor' = i
        /\ used' = used + Filled(i)
        /\ positions' = [positions EXCEPT ![s] = After(i)]
        /\ fills' = [fills EXCEPT ![i] = Filled(i)]
        /\ rejections' = rejections \cup ({i} \X RestReason(i))
        /\ provenance' = [provenance EXCEPT ![s] = NewSources(@, Position, After(i), {i})]
    BY DEF Fill, Considered, given, IsTurnOf
  <1>3. change \in Int /\ After(i) = Position + change /\ After(i) \in Int
    BY <1>1 DEF After, Sign
  <1> HIDE DEF change
  <1>4. ExecutionTypeOK'
    <2>1. positions' \in [Symbols -> Int] /\ fills' \in [Orders -> Nat]
      BY <1>1, <1>2, <1>3 DEF ExecutionInv, ExecutionTypeOK
    <2>2. \A j \in Orders : fills'[j] <= Lots(orders'[j].quantity)
      BY <1>1, <1>2 DEF ExecutionInv, ExecutionTypeOK
    <2>3. provenance' \in [Symbols -> SUBSET (Orders \cup {0})]
      BY <1>1, <1>2 DEF ExecutionInv, ExecutionTypeOK, NewSources
    <2>4. rejections' \subseteq Orders \X Reasons
      BY <1>2 DEF ExecutionInv, ExecutionTypeOK, RestReason, Reasons
    <2>5. used' \in Nat
      BY <1>1, <1>2 DEF ExecutionInv, ExecutionTypeOK
    <2>6. QED
      BY <1>1, <1>2, <2>1, <2>2, <2>3, <2>4, <2>5 DEF ExecutionInv, ExecutionTypeOK
  <1>5. \A j \in Orders : j \in pending' \/ stage' = "intake" => fills'[j] = 0
    BY <1>2 DEF ExecutionInv, ExecutionTypeOK
  <1>6. ASSUME NEW z \in Symbols PROVE positions'[z] = initial'[z] + SignedFills(z)' + closed'[z]
    <2> DEFINE D == {j \in Orders : orders[j].symbol = z}
               delta == [j \in D |-> IF j = i THEN change ELSE 0]
               next  == [j \in D |-> fills'[j] * Sign(orders[j].side)]
               added == [j \in D |-> Signed(z)[j] + delta[j]]
    <2>1. Signed(z) = [j \in D |-> fills[j] * Sign(orders[j].side)]
      BY DEF Signed
    <2>2. IsFiniteSet(D) /\ Signed(z) \in [D -> Int]
      BY <2>1, SignedIn DEF ExecutionInv
    <2>3. Signed(z)' = next
      BY <1>2 DEF Signed, Sign
    <2>4. SignedFills(z) = Total(Signed(z)) /\ SignedFills(z)' = Total(Signed(z)')
      BY SignedIn DEF ExecutionInv
    <2>5. positions[z] = initial[z] + SignedFills(z) + closed[z]
      BY DEF ExecutionInv, LedgerExplainsPosition
    <2>6. SignedFills(z) \in Int /\ initial[z] \in Int /\ closed[z] \in Int
      BY SignedIn, ExecutionAssumption DEF ExecutionInv, ExecutionTypeOK
    <2>7. CASE z = s
      <3>1. i \in D /\ delta \in [D -> Int]
        BY <1>1, <1>3, <2>7
      <3>2. Signed(z)' = added
        <4>1. ASSUME NEW j \in D
              PROVE  fills'[j] * Sign(orders[j].side) = fills[j] * Sign(orders[j].side) + delta[j]
          <5>1. CASE j = i
            <6>1. fills[i] = 0 /\ fills'[i] = Filled(i) /\ delta[j] = change
              BY <1>1, <1>2, <5>1 DEF ExecutionInv, ExecutionTypeOK
            <6>2. QED
              BY <1>1, <5>1, <6>1 DEF Sign, change
          <5>2. CASE j # i
            <6>1. fills'[j] = fills[j] /\ fills[j] \in Nat /\ delta[j] = 0
              BY <1>2, <5>2 DEF ExecutionInv, ExecutionTypeOK
            <6>2. QED
              BY <6>1 DEF Sign
          <5>3. QED
            BY <5>1, <5>2
        <4> HIDE DEF delta
        <4>2. \A j \in D : fills'[j] * Sign(orders[j].side) = Signed(z)[j] + delta[j]
          BY <2>1, <4>1
        <4>3. next = added
          <5> HIDE DEF D
          <5>1. QED
            BY ONLY <4>2
        <4> HIDE DEF next, added
        <4>4. QED
          BY ONLY <2>3, <4>3
      <3>3. Total(delta) = change
        <4>1. change \in Int /\ IsFiniteSet(D) /\ i \in D
          BY <1>3, <2>2, <3>1
        <4> HIDE DEF D
        <4>2. QED
          BY ONLY <4>1, TotalSingle, Zenon
      <3> HIDE DEF D, delta
      <3>4. SignedFills(z)' = SignedFills(z) + change
        BY <2>2, <2>4, <3>1, <3>2, <3>3, TotalAdds
      <3>5. positions'[z] = positions[z] + change
        BY <1>1, <1>2, <1>3, <2>7 DEF Position, ExecutionInv, ExecutionTypeOK
      <3>6. QED
        BY <1>2, <1>3, <2>5, <2>6, <3>4, <3>5
    <2>8. CASE z # s
      <3>1. Signed(z)' = Signed(z)
        <4>1. \A j \in D : fills'[j] = fills[j]
          BY <1>1, <1>2, <2>8 DEF ExecutionInv, ExecutionTypeOK
        <4>2. QED
          BY <2>1, <2>3, <4>1
      <3>2. positions'[z] = positions[z]
        BY <1>2, <2>8 DEF ExecutionInv, ExecutionTypeOK
      <3>3. QED
        BY <1>2, <2>4, <2>5, <3>1, <3>2
    <2>9. QED
      BY <2>7, <2>8
  <1>7. QED
    BY <1>4, <1>5, <1>6 DEF LedgerExplainsPosition

\* A session close takes no more than the position, and reports what it leaves.
LEMMA CloseFacts ==
  ASSUME ExecutionInv, CloseSession
  PROVE  /\ ExecutionInv'
         /\ \A z \in Symbols : positions'[z] # positions[z] =>
              /\ Shrinks(positions[z], positions'[z])
              /\ positions'[z] < 0 => positions'[z] >= positions[z]
  <1> DEFINE s == bar.symbol
             q == Least(Abs(Position), Capacity)
             after == IF Position > 0 THEN Position - q ELSE Position + q
  <1>1. /\ stage = "orders" /\ stage' = "ended" /\ Position # 0 /\ bar.closes
        /\ orders' = orders /\ initial' = initial /\ shortBorrow' = shortBorrow
        /\ pending' = pending /\ eligible' = eligible /\ fills' = fills /\ bar' = bar
        /\ used' = used /\ cursor' = cursor /\ rejections' = rejections
        /\ positions' = [positions EXCEPT ![s] = after]
        /\ provenance' = [provenance EXCEPT ![s] = IF after = 0 THEN {} ELSE @]
        /\ closed' = [closed EXCEPT ![s] = @ + (after - Position)]
        /\ leftOpen' = IF after # 0 THEN leftOpen \cup {<<s, bar.open_time>>} ELSE leftOpen
    BY DEF CloseSession, SessionRejected, given
  <1>2. /\ bar \in Bar /\ s \in Symbols /\ bar.open_time \in Times /\ bar.volume \in Nat
        /\ Position \in Int /\ Position = positions[s]
    <2>1. bar \in Bar
      BY <1>1 DEF ExecutionInv, ExecutionTypeOK
    <2>2. s \in Symbols /\ bar.open_time \in Times /\ bar.volume \in Nat
      BY <2>1, ExecutionAssumption DEF Bar
    <2>3. QED
      BY <2>1, <2>2 DEF ExecutionInv, ExecutionTypeOK, Position
  <1>3. Capacity \in Nat
    <2>1. Floor0(bar.volume - used) \in Nat
      BY <1>2 DEF ExecutionInv, ExecutionTypeOK, Floor0
    <2>2. QED
      BY <2>1, LotsIn DEF Capacity
  <1>4. q \in Nat /\ q <= Abs(Position)
    BY <1>2, <1>3 DEF Least, Abs
  <1> HIDE DEF q
  <1>5. /\ after \in Int
        /\ Position > 0 => 0 <= after /\ after <= Position
        /\ Position < 0 => Position <= after /\ after <= 0
    BY <1>1, <1>2, <1>4 DEF Abs
  <1>6. /\ after # Position => Shrinks(Position, after)
        /\ after < 0 => after >= Position
    <2>1. CASE Position > 0
      <3>1. Position * after >= 0
        BY <1>2, <1>5, <2>1
      <3>2. QED
        BY <1>2, <1>5, <2>1, <3>1 DEF Shrinks, Abs
    <2>2. CASE Position < 0
      <3>1. Position * after >= 0
        BY <1>2, <1>5, <2>2
      <3>2. QED
        BY <1>2, <1>5, <2>2, <3>1 DEF Shrinks, Abs
    <2>3. QED
      BY <1>1, <1>2, <2>1, <2>2
  <1> HIDE DEF after
  <1>7. ExecutionTypeOK'
    BY <1>1, <1>2, <1>5 DEF ExecutionInv, ExecutionTypeOK
  <1>8. LedgerExplainsPosition'
    <2> SUFFICES ASSUME NEW z \in Symbols
                 PROVE  positions'[z] = initial'[z] + SignedFills(z)' + closed'[z]
      BY DEF LedgerExplainsPosition
    <2>1. SignedFills(z)' = SignedFills(z)
      <3>1. Signed(z)' = Signed(z)
        BY <1>1 DEF Signed, Sign
      <3>2. QED
        BY <3>1, SignedIn DEF ExecutionInv
    <2>2. positions[z] = initial[z] + SignedFills(z) + closed[z]
      BY DEF ExecutionInv, LedgerExplainsPosition
    <2>3. SignedFills(z) \in Int /\ initial[z] \in Int /\ closed[z] \in Int
      BY SignedIn, ExecutionAssumption DEF ExecutionInv, ExecutionTypeOK
    <2>4. CASE z = s
      <3>1. positions'[z] = after /\ closed'[z] = closed[z] + (after - Position)
        BY <1>1, <1>2, <2>4 DEF ExecutionInv, ExecutionTypeOK
      <3>2. QED
        BY <1>1, <1>2, <1>5, <2>1, <2>2, <2>3, <2>4, <3>1
    <2>5. CASE z # s
      <3>1. positions'[z] = positions[z] /\ closed'[z] = closed[z]
        BY <1>1, <2>5 DEF ExecutionInv, ExecutionTypeOK
      <3>2. QED
        BY <1>1, <2>1, <2>2, <3>1
    <2>6. QED
      BY <2>4, <2>5
  <1>9. SessionEndsFlat'
    <2>1. positions'[s] = after
      BY <1>1, <1>2 DEF ExecutionInv, ExecutionTypeOK
    <2>2. QED
      BY <1>1, <2>1 DEF SessionEndsFlat
  <1>10. \A i \in Orders : i \in pending' \/ stage' = "intake" => fills'[i] = 0
    BY <1>1 DEF ExecutionInv
  <1>11. ASSUME NEW z \in Symbols, positions'[z] # positions[z]
         PROVE  z = s /\ positions'[z] = after /\ positions[z] = Position
    BY <1>1, <1>2, <1>11 DEF ExecutionInv, ExecutionTypeOK
  <1>12. QED
    BY <1>6, <1>7, <1>8, <1>9, <1>10, <1>11 DEF ExecutionInv

\* A fill turns a position over only by an order that may open one, and goes short only
\* with borrow.
LEMMA FillReach ==
  ASSUME ExecutionInv, NEW i \in Orders, Fill(i), NEW z \in Symbols, positions'[z] # positions[z]
  PROVE  /\ \/ Shrinks(positions[z], positions'[z])
            \/ orders[i].effect # "close" /\ fills'[i] # fills[i]
         /\ ~shortBorrow /\ positions'[z] < 0 => positions'[z] >= positions[z]
  <1>1. IsTurnOf(i) /\ ExecutionTypeOK /\ Filled(i) > 0 /\ ~NothingToClose(i)
    BY DEF Fill, ExecutionInv
  <1>2. /\ Position \in Int /\ bar.symbol \in Symbols /\ i \in pending /\ orders[i] \in Intent
        /\ Fillable(i) \in Int /\ Filled(i) \in Int /\ Filled(i) <= Fillable(i)
        /\ orders[i].effect = "close" => Fillable(i) <= Reducible(i, Position)
        /\ Unborrowed(i) => Filled(i) <= Floor0(Position)
    BY <1>1, TurnFacts
  <1>3. /\ positions' = [positions EXCEPT ![bar.symbol] = After(i)]
        /\ fills' = [fills EXCEPT ![i] = Filled(i)]
    BY DEF Fill
  <1>4. z = bar.symbol /\ positions[z] = Position /\ positions'[z] = After(i)
    BY <1>2, <1>3 DEF ExecutionInv, ExecutionTypeOK, Position
  <1>5. orders[i].side \in {"buy", "sell"}
    BY <1>2 DEF Intent
  <1>6. After(i) = IF orders[i].side = "buy" THEN Position + Filled(i) ELSE Position - Filled(i)
    BY <1>2, <1>5 DEF After, Sign
  <1>7. CASE orders[i].effect = "close"
    <2>1. Filled(i) <= Reducible(i, Position) /\ Reducible(i, Position) > 0
      BY <1>1, <1>2, <1>7 DEF NothingToClose, Reducible
    <2>2. CASE orders[i].side = "sell"
      <3>1. Position > 0 /\ After(i) >= 0 /\ After(i) < Position /\ After(i) \in Int
        BY <1>1, <1>2, <1>6, <2>1, <2>2 DEF Reducible
      <3>2. Position * After(i) >= 0
        BY <1>2, <3>1
      <3>3. QED
        BY <1>2, <1>4, <3>1, <3>2 DEF Shrinks, Abs
    <2>3. CASE orders[i].side = "buy"
      <3>1. Position < 0 /\ After(i) <= 0 /\ After(i) > Position /\ After(i) \in Int
        BY <1>1, <1>2, <1>6, <2>1, <2>3 DEF Reducible
      <3>2. Position * After(i) >= 0
        BY <1>2, <3>1
      <3>3. QED
        BY <1>2, <1>4, <3>1, <3>2 DEF Shrinks, Abs
    <2>4. QED
      BY <1>5, <2>2, <2>3
  <1>8. CASE orders[i].effect # "close"
    <2>1. fills[i] = 0 /\ fills'[i] = Filled(i)
      BY <1>2, <1>3 DEF ExecutionInv, ExecutionTypeOK
    <2>2. ASSUME ~shortBorrow, After(i) < 0 PROVE After(i) >= Position
      <3>1. CASE orders[i].side = "buy"
        BY <1>1, <1>2, <1>6, <3>1
      <3>2. CASE orders[i].side = "sell"
        <4>1. ASSUME Unborrowed(i) PROVE FALSE
          BY <1>1, <1>2, <1>6, <2>2, <3>2, <4>1 DEF Floor0
        <4>2. ASSUME ~Unborrowed(i) PROVE FALSE
          <5>1. Position - Fillable(i) >= 0
            BY <1>2, <1>8, <2>2, <3>2, <4>2 DEF Unborrowed
          <5>2. QED
            BY <1>2, <1>6, <2>2, <3>2, <5>1
        <4>3. QED
          BY <4>1, <4>2
      <3>3. QED
        BY <1>5, <3>1, <3>2
    <2>3. QED
      BY <1>1, <1>2, <1>4, <1>8, <2>1, <2>2
  <1>9. QED
    BY <1>7, <1>8

\* Every step keeps the invariant.
LEMMA ExecutionStep == ExecutionInv /\ [ExecutionNext]_xvars => ExecutionInv'
  <1> SUFFICES ASSUME ExecutionInv, [ExecutionNext]_xvars PROVE ExecutionInv'
    OBVIOUS
  <1> DEFINE Unfilled == \A i \in Orders : i \in pending \/ stage = "intake" => fills[i] = 0
             Kept == UNCHANGED <<orders, initial, shortBorrow, positions, provenance, fills, closed>>
  <1>0. ExecutionTypeOK /\ Unfilled /\ LedgerExplainsPosition /\ SessionEndsFlat
    BY DEF ExecutionInv
  <1>1. ASSUME Kept PROVE LedgerExplainsPosition'
    <2> SUFFICES ASSUME NEW z \in Symbols
                 PROVE  positions'[z] = initial'[z] + SignedFills(z)' + closed'[z]
      BY DEF LedgerExplainsPosition
    <2>1. Signed(z)' = Signed(z)
      BY <1>1 DEF Signed, Sign
    <2>2. SignedFills(z)' = SignedFills(z)
      BY <1>0, <2>1, SignedIn
    <2>3. QED
      BY <1>0, <1>1, <2>2 DEF LedgerExplainsPosition
  <1>2. CASE TakeOrders
    <2>1. /\ Kept /\ stage = "intake" /\ stage' = "bars" /\ pending' \subseteq Orders
          /\ rejections' \subseteq Orders \X Reasons
          /\ UNCHANGED <<eligible, bar, used, cursor, leftOpen>>
      BY <1>2 DEF TakeOrders, given, account, market, BelowLot, OpensShort, Reasons
    <2>2. ExecutionTypeOK'
      BY <1>0, <2>1 DEF ExecutionTypeOK
    <2>3. Unfilled' /\ SessionEndsFlat'
      BY <1>0, <2>1 DEF SessionEndsFlat
    <2>4. QED
      BY <1>1, <2>1, <2>2, <2>3 DEF ExecutionInv
  <1>3. ASSUME NEW b \in Bar, NextBar(b) PROVE ExecutionInv'
    <2>1. /\ Kept /\ bar' = b /\ used' = 0 /\ cursor' = 0
          /\ stage' = IF b.actionable THEN "orders" ELSE "ended"
          /\ leftOpen' = IF ~b.actionable /\ b.closes /\ positions[b.symbol] # 0
                         THEN leftOpen \cup {<<b.symbol, b.open_time>>} ELSE leftOpen
          /\ UNCHANGED <<pending, eligible, rejections>>
      BY <1>3 DEF NextBar, given, account
    <2>2. b.symbol \in Symbols /\ b.open_time \in Times
      BY DEF Bar
    <2>3. ExecutionTypeOK'
      BY <1>0, <2>1, <2>2 DEF ExecutionTypeOK
    <2>4. Unfilled' /\ SessionEndsFlat'
      BY <1>0, <2>1 DEF SessionEndsFlat
    <2>5. QED
      BY <1>1, <2>1, <2>3, <2>4 DEF ExecutionInv
  <1>4. ASSUME NEW i \in Orders, RejectClose(i) \/ Stays(i) \/ RejectShort(i) PROVE ExecutionInv'
    <2>1. /\ Kept /\ stage = "orders" /\ stage' = stage /\ cursor' = i /\ eligible' = eligible \cup {i}
          /\ pending' \subseteq pending /\ rejections' \subseteq rejections \cup (Orders \X Reasons)
          /\ UNCHANGED <<bar, used, leftOpen>>
      BY <1>4 DEF RejectClose, Stays, RejectShort, Reject, Considered, IsTurnOf, given, account, Reasons
    <2>2. ExecutionTypeOK'
      BY <1>0, <2>1 DEF ExecutionTypeOK
    <2>3. Unfilled' /\ SessionEndsFlat'
      BY <1>0, <2>1 DEF SessionEndsFlat
    <2>4. QED
      BY <1>1, <2>1, <2>2, <2>3 DEF ExecutionInv
  <1>5. ASSUME NEW i \in Orders, Fill(i) PROVE ExecutionInv'
    <2>1. SessionEndsFlat'
      BY <1>5 DEF Fill, IsTurnOf, SessionEndsFlat
    <2>2. QED
      BY <1>5, <2>1, FillFacts DEF ExecutionInv
  <1>6. CASE EndBar
    <2>1. /\ Kept /\ used' = 0 /\ cursor' = 0 /\ stage' = "bars" /\ stage \in {"orders", "ended"}
          /\ bar' = [symbol |-> bar.symbol, open_time |-> bar.open_time]
          /\ UNCHANGED <<pending, eligible, rejections, leftOpen>>
      BY <1>6 DEF EndBar, given, account
    <2>2. bar' \in Ended
      BY <1>0, <2>1 DEF ExecutionTypeOK, Bar, Ended
    <2>3. ExecutionTypeOK'
      BY <1>0, <2>1, <2>2 DEF ExecutionTypeOK
    <2>4. Unfilled' /\ SessionEndsFlat'
      BY <1>0, <2>1 DEF SessionEndsFlat
    <2>5. QED
      BY <1>1, <2>1, <2>3, <2>4 DEF ExecutionInv
  <1>7. CASE CloseSession
    BY <1>7, CloseFacts
  <1>8. CASE Finish
    <2>1. /\ Kept /\ stage = "bars" /\ stage' = "done" /\ pending' = {}
          /\ rejections' \subseteq rejections \cup (Orders \X Reasons)
          /\ UNCHANGED <<eligible, bar, used, cursor, leftOpen>>
      BY <1>0, <1>8 DEF Finish, EndReason, given, account, market, Reasons, ExecutionTypeOK
    <2>2. ExecutionTypeOK'
      BY <1>0, <2>1 DEF ExecutionTypeOK
    <2>3. Unfilled' /\ SessionEndsFlat'
      BY <1>0, <2>1 DEF SessionEndsFlat
    <2>4. QED
      BY <1>1, <2>1, <2>2, <2>3 DEF ExecutionInv
  <1>9. CASE UNCHANGED xvars
    <2>1. /\ Kept
          /\ UNCHANGED <<stage, pending, eligible, bar, used, cursor, rejections, leftOpen>>
      BY <1>9 DEF xvars, given, account, market
    <2>2. ExecutionTypeOK'
      BY <1>0, <2>1 DEF ExecutionTypeOK
    <2>3. Unfilled' /\ SessionEndsFlat'
      BY <1>0, <2>1 DEF SessionEndsFlat
    <2>4. QED
      BY <1>1, <2>1, <2>2, <2>3 DEF ExecutionInv
  <1>10. QED
    BY <1>2, <1>3, <1>4, <1>5, <1>6, <1>7, <1>8, <1>9 DEF ExecutionNext

\* The replay of any orders over any bars keeps the invariant.
LEMMA ExecutionIsInvariant == ExecutionSpec => []ExecutionInv
  <1>1. ExecutionInit => ExecutionInv
    <2> SUFFICES ASSUME ExecutionInit PROVE ExecutionInv
      OBVIOUS
    <2>1. /\ orders \in [Orders -> Catalogue] /\ initial \in [Symbols -> Starting]
          /\ shortBorrow \in BorrowModes /\ stage = "intake" /\ pending = {} /\ eligible = {}
          /\ positions = initial /\ provenance \in [Symbols -> SUBSET (Orders \cup {0})]
          /\ bar = [symbol |-> 0, open_time |-> 0] /\ used = 0 /\ cursor = 0
          /\ fills = [i \in Orders |-> 0] /\ rejections = {} /\ leftOpen = {}
          /\ closed = [s \in Symbols |-> 0]
      BY DEF ExecutionInit
    <2>2. \A i \in Orders : Lots(orders[i].quantity) \in Nat
      <3>1. \A i \in Orders : orders[i].quantity \in Nat
        BY <2>1, ExecutionAssumption DEF Intent
      <3>2. QED
        BY <3>1, LotsIn
    <2>3. positions \in [Symbols -> Int] /\ bar \in Ended
      BY <2>1, ExecutionAssumption DEF Ended
    <2>4. ExecutionTypeOK
      BY <2>1, <2>2, <2>3 DEF ExecutionTypeOK
    <2>5. ASSUME NEW z \in Symbols
          PROVE  positions[z] = initial[z] + SignedFills(z) + closed[z]
      <3>1. \A i \in DOMAIN Signed(z) : Signed(z)[i] = 0
        BY <2>1 DEF Signed, Sign
      <3>2. Signed(z) \in [DOMAIN Signed(z) -> {0}] /\ IsFiniteSet(DOMAIN Signed(z))
        BY <2>4, <3>1, SignedIn
      <3>3. IsPartial(Signed(z), DOMAIN Signed(z), {0})
        BY <3>2 DEF IsPartial
      <3>4. Total(Signed(z)) \in {0}
        BY ONLY <3>3, GrossIn
      <3>5. SignedFills(z) = 0
        BY <2>4, <3>4, SignedIn
      <3>6. QED
        BY <2>1, <2>3, <3>5
    <2>6. QED
      BY <2>1, <2>4, <2>5 DEF ExecutionInv, LedgerExplainsPosition, SessionEndsFlat
  <1>2. QED
    BY <1>1, ExecutionStep, PTL DEF ExecutionSpec

\* Whatever is ordered and whatever bars come, the fills and the session closes explain
\* every position, and a position that a session leaves was reported.
THEOREM ReplayIsExplained == ExecutionSpec => []NothingUnexplained
  <1>1. ExecutionInv => NothingUnexplained
    BY DEF ExecutionInv, NothingUnexplained
  <1>2. QED
    BY <1>1, ExecutionIsInvariant, PTL

\* Closing never opens or turns a position, and without borrow none goes short.
THEOREM ReplayNeverOverreaches == ExecutionSpec => NoOverreach
  <1> DEFINE Reach ==
        \A s \in Symbols : positions'[s] # positions[s] =>
          /\ \/ Shrinks(positions[s], positions'[s])
             \/ \E i \in Orders : orders[i].effect # "close" /\ fills'[i] # fills[i]
          /\ ~shortBorrow /\ positions'[s] < 0 => positions'[s] >= positions[s]
  <1>1. ExecutionInv /\ [ExecutionNext]_xvars => Reach
    <2> SUFFICES ASSUME ExecutionInv, [ExecutionNext]_xvars PROVE Reach
      OBVIOUS
    <2>1. ASSUME NEW i \in Orders, Fill(i) PROVE Reach
      BY <2>1, FillReach
    <2>2. CASE CloseSession
      BY <2>2, CloseFacts
    <2>3. ASSUME positions' = positions PROVE Reach
      BY <2>3
    <2>4. \/ \E i \in Orders : Fill(i)
          \/ CloseSession
          \/ positions' = positions
      BY DEF ExecutionNext, TakeOrders, NextBar, RejectClose, Stays, RejectShort, EndBar, Finish,
             account, xvars
    <2> HIDE DEF Reach
    <2>5. QED
      BY <2>1, <2>2, <2>3, <2>4
  <1>2. QED
    BY <1>1, ExecutionIsInvariant, PTL DEF ExecutionSpec, NoOverreach
=============================================================================
