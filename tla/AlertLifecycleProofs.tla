------------------------- MODULE AlertLifecycleProofs -------------------------
(***************************************************************************)
(* Theorems about the alert setups, for any number of setups,              *)
(* configurations and processes and any length of time: the type           *)
(* invariant, one open setup, recovery that does not raise, and an app     *)
(* that is never ahead of the database.                                    *)
(***************************************************************************)
EXTENDS AlertLifecycle, TLAPS

\* The table relates open states to states, never leads out of an end, and a
\* tracked setup only goes on to its first target or to an end.
LEMMA TransitionFacts ==
  ASSUME NEW from \in Open, NEW to \in Transitions[from]
  PROVE  /\ to \in States \ {"none", "watching"}
         /\ to # "none"
         /\ from \in {"tracked", "target_1"} => to \in {"target_1"} \cup Terminal
  BY DEF Transitions, Open, States, Terminal, Ends

\* What a handler records next is a state, and only after an open one.
LEMMA FollowingFacts ==
  ASSUME NEW state \in States
  PROVE  /\ Following(state) \in States \cup {"none"}
         /\ state \in Terminal => Following(state) = "none"
  BY DEF Following, States, Open, Terminal

LEMMA RiskGoalType ==
  ASSUME NEW end, NEW touched
  PROVE  RiskGoal(end, touched) \in States \cup {"none"}
  BY DEF RiskGoal, States, Open, Terminal

-----------------------------------------------------------------------------
LEMMA TypeStep == TypeOK /\ [Next]_vars => TypeOK'
<1> SUFFICES ASSUME TypeOK, [Next]_vars
             PROVE  TypeOK'
  OBVIOUS
<1> USE LifecycleAssumption DEF LifecycleAssumption
<1>0. Nothing \in [Setups -> States \cup {"none"}]
  BY DEF Nothing
<1>d. ASSUME NEW reason \in {"none", "transition", "restore"}, Dies(reason)
      PROVE  TypeOK'
  BY <1>d, <1>0 DEF TypeOK, Dies, durable
<1>1. CASE Tick
  BY <1>1 DEF TypeOK, Tick, durable, handler
<1>2. CASE BarArrives
  <2>1. PICK touched \in SUBSET {"stop", "target_1", "target_2"} :
          /\ goal' = IF active = NoSetup THEN "none" ELSE RiskGoal(now', touched)
          /\ both' = (goal' = "target_1" /\ "target_2" \in touched)
    BY <1>2 DEF BarArrives
  <2>2. goal' \in States \cup {"none"} /\ (goal' # "none" => active # NoSetup)
    BY <2>1, RiskGoalType
  <2>3. both' \in BOOLEAN
    BY <2>1
  <2>4. now' \in 0..MaxTime
    BY <1>2 DEF TypeOK, BarArrives
  <2>5. /\ up /\ stage' = "risk" /\ issue = FALSE /\ dark' = FALSE
        /\ UNCHANGED <<session, up, config, failure, durable, active, issue, news, told>>
    BY <1>2 DEF TypeOK, BarArrives, Idle
  <2> QED
    BY <2>2, <2>3, <2>4, <2>5 DEF TypeOK, durable
<1>3. CASE QuoteArrives
  <2>1. /\ up /\ stage' = "risk" /\ goal' = goal /\ goal = "none" /\ issue = FALSE
        /\ UNCHANGED <<clock, durable, active, both, issue, news, told>>
    BY <1>3 DEF TypeOK, QuoteArrives, Idle
  <2> QED
    BY <2>1 DEF TypeOK, clock, durable
<1>4. CASE TrackSetup
  BY <1>4 DEF TypeOK, TrackSetup, Idle, clock, durable, States, Open
<1>5. CASE Decide
  BY <1>5 DEF TypeOK, Decide, CanIssue, clock, durable, States, Terminal
<1>6. CASE CreateSetup
  <2>1. PICK s \in Setups, life \in 1..MaxLife :
          /\ rows[s] = "none"
          /\ now + life <= MaxTime
          /\ rows' = [rows EXCEPT ![s] = "watching"]
          /\ owner' = [owner EXCEPT ![s] = config]
          /\ expires' = [expires EXCEPT ![s] = now + life]
          /\ active' = s
    BY <1>6 DEF CreateSetup
  <2>2. now + life \in 0..MaxTime
    BY <2>1 DEF TypeOK
  <2>3. rows' \in [Setups -> States \cup {"none"}] /\ rows'[active'] \in Open
    BY <2>1 DEF TypeOK, States, Open
  <2>4. owner' \in [Setups -> Configs] /\ expires' \in [Setups -> 0..MaxTime]
    BY <2>1, <2>2 DEF TypeOK
  <2>5. active' \in Setups /\ goal' \in States
    BY <1>6, <2>1 DEF CreateSetup, States, Open
  <2>6. /\ stage' = stage /\ stage # "idle"
        /\ issue' = FALSE /\ UNCHANGED <<clock, fill, both, news, told>>
    BY <1>6 DEF CreateSetup, TypeOK
  <2> QED
    BY <2>3, <2>4, <2>5, <2>6 DEF TypeOK, clock
<1>7. CASE RecordTransition
  <2>1. CASE goal \notin Transitions[rows[active]]
    BY <1>7, <1>d, <2>1 DEF RecordTransition
  <2>2. CASE goal \in Transitions[rows[active]]
    <3>1. /\ rows' = [rows EXCEPT ![active] = goal]
          /\ fill' = [fill EXCEPT ![active] = fill[active] \/ goal = "tracked"]
          /\ news' = [news EXCEPT ![active] = goal]
          /\ goal' = Following(goal)
          /\ active' = IF goal \in Terminal THEN NoSetup ELSE active
          /\ UNCHANGED <<clock, owner, expires, stage, both, issue, told>>
      BY <1>7, <2>2 DEF RecordTransition
    <3>2. active \in Setups /\ goal \in States /\ stage # "idle"
      BY <1>7 DEF TypeOK, RecordTransition
    <3>3. goal' \in States \cup {"none"} /\ (goal \in Terminal => goal' = "none")
      BY <3>1, <3>2, FollowingFacts
    <3>4. rows' \in [Setups -> States \cup {"none"}] /\ rows'[active] = goal
      BY <3>1, <3>2 DEF TypeOK
    <3>5. fill' \in [Setups -> BOOLEAN]
      BY <3>1, <3>2 DEF TypeOK
    <3>6. news' \in [Setups -> States \cup {"none"}]
      BY <3>1, <3>2 DEF TypeOK
    <3>7. active' \in Setups \cup {NoSetup} /\ (active' # NoSetup => rows'[active'] \in Open)
      BY <3>1, <3>2, <3>4 DEF States
    <3>8. goal' # "none" => active' # NoSetup
      BY <3>1, <3>2, <3>3
    <3> QED
      BY <3>1, <3>2, <3>3, <3>4, <3>5, <3>6, <3>7, <3>8 DEF TypeOK, clock
  <2> QED
    BY <2>1, <2>2
<1>8. CASE Emit
  BY <1>8, <1>0 DEF TypeOK, Emit, clock, durable
<1>9. CASE Crash
  BY <1>9, <1>d DEF Crash
<1>10. CASE Restart
  <2>1. told' \in [Setups -> States \cup {"none"}]
    <3>1. \/ told' = told
          \/ told' = [s \in Setups |-> IF s \in Recoverable(config') THEN rows[s] ELSE told[s]]
      BY <1>10 DEF Restart
    <3> QED
      BY <3>1 DEF TypeOK
  <2>2. /\ up' \in BOOLEAN /\ failure' \in {"none", "restore"}
        /\ active' = active \/ active' = NoSetup \/ active' \in Recoverable(config')
    BY <1>10 DEF TypeOK, Restart
  <2>3. \A s \in Recoverable(config') : s \in Setups /\ rows[s] \in Open
    BY DEF Recoverable, Unexpired
  <2>4. /\ session' \in 0..MaxSessions /\ config' \in Configs
        /\ UNCHANGED <<now, dark, durable, handler, news>>
    BY <1>10 DEF TypeOK, Restart
  <2>5. goal = "none" /\ stage = "idle" /\ (~up' => active' = NoSetup)
    BY <1>10 DEF TypeOK, Restart
  <2> QED
    BY <2>1, <2>2, <2>3, <2>4, <2>5 DEF TypeOK, durable, handler
<1>11. CASE UNCHANGED vars
  BY <1>11 DEF TypeOK, vars, clock, durable, handler
<1>12. CASE GoesDark
  BY <1>12 DEF TypeOK, GoesDark, durable, handler
<1> QED
  BY <1>1, <1>2, <1>3, <1>4, <1>5, <1>6, <1>7, <1>8, <1>9, <1>10, <1>11, <1>12 DEF Next

LEMMA TypeInit == Init => TypeOK
<1> SUFFICES ASSUME Init
             PROVE  TypeOK
  OBVIOUS
<1>1. 0 \in 0..MaxTime /\ 1 \in 0..MaxSessions
  BY LifecycleAssumption DEF LifecycleAssumption
<1>2. Nothing \in [Setups -> States \cup {"none"}]
  BY DEF Nothing
<1>3. /\ owner \in [Setups -> Configs] /\ expires \in [Setups -> 0..MaxTime]
      /\ fill \in [Setups -> BOOLEAN] /\ config \in Configs
  BY <1>1 DEF Init
<1>4. up = TRUE /\ issue = FALSE /\ active = NoSetup /\ goal = "none" /\ stage = "idle" /\ both = FALSE
  BY DEF Init
<1>5. now \in 0..MaxTime /\ session \in 0..MaxSessions /\ failure = "none" /\ dark = FALSE
  BY <1>1 DEF Init
<1>6. rows = Nothing /\ news = Nothing /\ told = Nothing
  BY DEF Init
<1> QED
  BY <1>2, <1>3, <1>4, <1>5, <1>6 DEF TypeOK

\* Every variable of a setup's process and rows stays in its type, the active
\* setup is open, and a state to be recorded has a setup.
THEOREM TypeCorrect == Spec => []TypeOK
<1> QED
  BY TypeInit, TypeStep, PTL DEF Spec

-----------------------------------------------------------------------------
(* One open setup.  The rows alone do not keep it: the process must know   *)
(* every unexpired setup of its configuration, and a decision that issues  *)
(* must have closed the one before, or be about to.                        *)

KnownToProcess == up => \A s \in Unexpired(config) : s = active

IssuesAlone == issue => goal = "closed" \/ (goal = "none" /\ active = NoSetup)

OneOpenInv == OneOpenSetup /\ KnownToProcess /\ IssuesAlone

\* No step but the insertion of a row makes a setup open or unexpired.
LEMMA UnexpiredShrinks ==
  ASSUME TypeOK, [Next]_vars, ~CreateSetup, NEW c \in Configs
  PROVE  Unexpired(c)' \subseteq Unexpired(c)
<1> SUFFICES ASSUME NEW s \in Setups, rows'[s] \in Open, owner'[s] = c, expires'[s] > now'
             PROVE  rows[s] \in Open /\ owner[s] = c /\ expires[s] > now
  BY DEF Unexpired
<1>1. owner' = owner /\ expires' = expires
  BY DEF Next, vars, clock, durable, Tick, GoesDark, BarArrives, QuoteArrives, TrackSetup, Decide,
         RecordTransition, Emit, Crash, Restart, Dies
<1>2. now' \in Nat /\ now \in Nat /\ now <= now' /\ expires[s] \in Nat
  <2>1. now \in 0..MaxTime /\ expires[s] \in 0..MaxTime
    BY DEF TypeOK
  <2>2. now' = now \/ now' = now + 1
    BY DEF Next, vars, clock, durable, Tick, GoesDark, BarArrives, QuoteArrives, TrackSetup, Decide,
           RecordTransition, Emit, Crash, Restart, Dies
  <2> QED
    BY <2>1, <2>2, LifecycleAssumption DEF LifecycleAssumption
<1>3. rows[s] \in Open
  <2>1. rows' = rows \/ (RecordTransition /\ rows' = [rows EXCEPT ![active] = goal])
    BY DEF Next, vars, clock, durable, Tick, GoesDark, BarArrives, QuoteArrives, TrackSetup, Decide,
           RecordTransition, Emit, Crash, Restart, Dies
  <2>2. CASE RecordTransition /\ rows' = [rows EXCEPT ![active] = goal]
    BY <2>2 DEF TypeOK, RecordTransition
  <2> QED
    BY <2>1, <2>2
<1> QED
  BY <1>1, <1>2, <1>3

LEMMA OneOpenInit == Init => OneOpenInv
  BY LifecycleAssumption
     DEF Init, Nothing, OneOpenInv, OneOpenSetup, KnownToProcess, IssuesAlone, Unexpired, Open

LEMMA OneOpenStep == TypeOK /\ TypeOK' /\ OneOpenInv /\ [Next]_vars => OneOpenInv'
<1> SUFFICES ASSUME TypeOK, TypeOK', OneOpenInv, [Next]_vars
             PROVE  OneOpenInv'
  OBVIOUS
<1>1. CASE CreateSetup
  <2>1. PICK s \in Setups, life \in 1..MaxLife :
          /\ rows' = [rows EXCEPT ![s] = "watching"]
          /\ owner' = [owner EXCEPT ![s] = config]
          /\ expires' = [expires EXCEPT ![s] = now + life]
          /\ active' = s
    BY <1>1 DEF CreateSetup
  <2>2. up /\ issue /\ goal = "none" /\ goal' = "candidate" /\ issue' = FALSE /\ now' = now
        /\ up' = up /\ config' = config
    BY <1>1 DEF CreateSetup, clock
  <2>3. active = NoSetup
    BY <2>2 DEF OneOpenInv, IssuesAlone
  <2>4. Unexpired(config) = {}
    BY <2>2, <2>3, LifecycleAssumption DEF OneOpenInv, KnownToProcess, Unexpired, LifecycleAssumption
  <2>5. \A c \in Configs : \A x \in Unexpired(c)' : x = s \/ x \in Unexpired(c)
    BY <2>1, <2>2 DEF Unexpired, TypeOK
  <2>6. \A c \in Configs : s \in Unexpired(c)' => c = config
    BY <2>1 DEF Unexpired, TypeOK
  <2>7. config \in Configs
    BY DEF TypeOK
  <2>8. OneOpenSetup'
    <3> SUFFICES ASSUME NEW c \in Configs, NEW x \in Unexpired(c)', NEW y \in Unexpired(c)'
                 PROVE  x = y
      BY DEF OneOpenSetup
    <3>1. CASE c = config
      BY <2>4, <2>5, <3>1
    <3>2. CASE c # config
      BY <2>5, <2>6, <3>2 DEF OneOpenInv, OneOpenSetup
    <3> QED
      BY <3>1, <3>2
  <2>9. KnownToProcess'
    <3>1. PICK c \in Configs : c = config
      BY <2>7
    <3>2. Unexpired(config)' = Unexpired(c)' /\ Unexpired(c) = Unexpired(config)
      BY <2>2, <3>1 DEF Unexpired
    <3> QED
      BY <2>1, <2>4, <2>5, <3>1, <3>2 DEF KnownToProcess
  <2> QED
    BY <2>2, <2>8, <2>9 DEF OneOpenInv, IssuesAlone
<1>2. CASE ~CreateSetup
  <2>1. \A c \in Configs : Unexpired(c)' \subseteq Unexpired(c)
    BY <1>2, UnexpiredShrinks
  <2>2. OneOpenSetup'
    BY <2>1 DEF OneOpenInv, OneOpenSetup
  <2>3. KnownToProcess'
    <3> SUFFICES ASSUME up', NEW s \in Unexpired(config)'
                 PROVE  s = active'
      BY DEF KnownToProcess
    <3>1. config' \in Configs
      BY DEF TypeOK
    <3>2. PICK c \in Configs : c = config'
      BY <3>1
    <3>3. s \in Unexpired(c)'
      BY <3>2 DEF Unexpired
    <3>4. s \in Unexpired(c)
      BY <2>1, <3>3
    <3>5. CASE Restart
      <4>1. Recoverable(config') = Unexpired(c)
        BY <3>2 DEF Recoverable, Unexpired
      <4>2. active' \in IF Unexpired(c) = {} THEN {NoSetup} ELSE Unexpired(c)
        BY <3>5, <4>1 DEF Restart
      <4> QED
        BY <3>4, <4>2 DEF OneOpenInv, OneOpenSetup
    <3>6. CASE RecordTransition
      <4>1. config' = config /\ up /\ goal \in Transitions[rows[active]]
            /\ rows' = [rows EXCEPT ![active] = goal]
            /\ active' = IF goal \in Terminal THEN NoSetup ELSE active
        BY <3>6 DEF RecordTransition, Dies, clock
      <4>2. s = active
        BY <3>2, <3>4, <4>1 DEF OneOpenInv, KnownToProcess, Unexpired
      <4>3. goal \notin Terminal
        BY <3>3, <4>1, <4>2 DEF Unexpired, TypeOK, Open, Terminal
      <4> QED
        BY <4>1, <4>2, <4>3
    <3>7. CASE ~Restart /\ ~RecordTransition
      <4>1. up /\ config' = config /\ active' = active
        BY <1>2, <3>7 DEF Next, vars, clock, Tick, GoesDark, BarArrives, QuoteArrives, TrackSetup, Decide,
           Emit, Crash, Dies
      <4> QED
        BY <3>2, <3>4, <4>1 DEF OneOpenInv, KnownToProcess, Unexpired
    <3> QED
      BY <3>5, <3>6, <3>7
  <2>4. IssuesAlone'
    <3>1. CASE Decide
      BY <3>1 DEF Decide, IssuesAlone, OneOpenInv, clock, TypeOK
    <3>2. CASE RecordTransition
      <4>1. CASE Dies("transition")
        BY <4>1 DEF Dies, IssuesAlone
      <4>2. CASE issue
        <5>1. goal = "closed"
          BY <3>2, <4>2 DEF RecordTransition, OneOpenInv, IssuesAlone
        <5>2. ~Dies("transition") => goal' = "none" /\ active' = NoSetup
          BY <3>2, <5>1 DEF RecordTransition, Following, Terminal
        <5> QED
          BY <4>1, <5>2 DEF IssuesAlone
      <4>3. CASE ~issue /\ ~Dies("transition")
        BY <3>2, <4>3 DEF RecordTransition, IssuesAlone
      <4> QED
        BY <4>1, <4>2, <4>3
    <3>3. CASE ~Decide /\ ~RecordTransition
      <4>1. ~issue' \/ (issue' = issue /\ goal' = goal /\ active' = active)
        BY <1>2, <3>3 DEF Next, vars, clock, handler, Tick, GoesDark, BarArrives, QuoteArrives, TrackSetup,
           Idle, Emit, Crash, Dies, Restart, TypeOK
      <4> QED
        BY <4>1 DEF OneOpenInv, IssuesAlone
    <3> QED
      BY <3>1, <3>2, <3>3
  <2> QED
    BY <2>2, <2>3, <2>4 DEF OneOpenInv
<1> QED
  BY <1>1, <1>2

\* No configuration ever has two open, unexpired setups of the scope, whatever
\* processes have ended in the middle of closing one and issuing another.
THEOREM OneSetupPerScope == Spec => []OneOpenSetup
<1>1. Init => TypeOK
  BY TypeInit
<1>2. Init => OneOpenInv
  BY OneOpenInit
<1>3. TypeOK /\ OneOpenInv /\ [Next]_vars => TypeOK' /\ OneOpenInv'
  BY TypeStep, OneOpenStep
<1>4. OneOpenInv => OneOpenSetup
  BY DEF OneOpenInv
<1> QED
  BY <1>1, <1>2, <1>3, <1>4, PTL DEF Spec

-----------------------------------------------------------------------------
(* What is durable.  Recovery needs the fill of a tracked setup and refuses*)
(* one anywhere else; what the handler holds back to print is as durable   *)
(* as what the app has been told.                                          *)

FillMatches(s) ==
  /\ rows[s] = "tracked" => fill[s]
  /\ fill[s] => rows[s] \in {"tracked", "target_1"} \cup Terminal

Durable(s, state) ==
  /\ state \in Terminal => rows[s] = state
  /\ state = "tracked" => fill[s]

DurableInv ==
  /\ \A s \in Setups : FillMatches(s) /\ Durable(s, told[s]) /\ Durable(s, news[s])
  /\ RestartRestores

LEMMA DurableRecord ==
  ASSUME TypeOK, DurableInv, RecordTransition, goal \in Transitions[rows[active]], NEW s \in Setups
  PROVE  (FillMatches(s) /\ Durable(s, told[s]) /\ Durable(s, news[s]))'
<1>1. /\ rows' = [rows EXCEPT ![active] = goal]
      /\ fill' = [fill EXCEPT ![active] = fill[active] \/ goal = "tracked"]
      /\ news' = [news EXCEPT ![active] = goal]
      /\ told' = told
  BY DEF RecordTransition
<1>2. active \in Setups /\ rows[active] \in Open
  BY DEF TypeOK, RecordTransition
<1>3. FillMatches(s) /\ Durable(s, told[s]) /\ Durable(s, news[s])
  BY DEF DurableInv
<1>4. CASE s # active
  <2>1. rows'[s] = rows[s] /\ fill'[s] = fill[s] /\ news'[s] = news[s] /\ told'[s] = told[s]
    BY <1>1, <1>4 DEF TypeOK
  <2> QED
    BY <1>3, <2>1 DEF FillMatches, Durable
<1>5. CASE s = active
  <2>1. rows'[s] = goal /\ news'[s] = goal /\ told'[s] = told[s]
        /\ fill'[s] = (fill[s] \/ goal = "tracked")
    BY <1>1, <1>2, <1>5 DEF TypeOK
  <2>2. fill[s] => goal \in {"target_1"} \cup Terminal
    BY <1>2, <1>3, <1>5, TransitionFacts DEF FillMatches, Terminal, Open
  <2>3. told[s] \notin Terminal
    BY <1>2, <1>3, <1>5 DEF Durable, Terminal, Open
  <2>4. FillMatches(s)'
    BY <2>1, <2>2 DEF FillMatches
  <2>5. Durable(s, told[s])'
    BY <1>3, <2>1, <2>3 DEF Durable
  <2>6. Durable(s, news[s])'
    BY <2>1 DEF Durable
  <2> QED
    BY <2>4, <2>5, <2>6
<1> QED
  BY <1>4, <1>5

LEMMA DurableStep == TypeOK /\ OneOpenInv /\ TypeOK' /\ DurableInv /\ [Next]_vars => DurableInv'
<1> SUFFICES ASSUME TypeOK, OneOpenInv, TypeOK', DurableInv, [Next]_vars
             PROVE  DurableInv'
  OBVIOUS
<1>r. CASE UNCHANGED <<rows, fill>> /\ RestartRestores'
           /\ \A s \in Setups : /\ told'[s] \in {told[s], news[s], rows[s]}
                                /\ news'[s] \in {"none", news[s]}
  <2> SUFFICES ASSUME NEW s \in Setups
               PROVE  (FillMatches(s) /\ Durable(s, told[s]) /\ Durable(s, news[s]))'
    BY <1>r DEF DurableInv
  <2>1. FillMatches(s) /\ Durable(s, told[s]) /\ Durable(s, news[s])
    BY DEF DurableInv
  <2>2. Durable(s, rows[s]) /\ Durable(s, "none")
    BY <2>1 DEF Durable, FillMatches, Terminal
  <2>3. Durable(s, told'[s]) /\ Durable(s, news'[s]) /\ rows' = rows /\ fill' = fill
    BY <1>r, <2>1, <2>2
  <2> QED
    BY <2>1, <2>3 DEF FillMatches, Durable
<1>1. ASSUME NEW reason \in {"none", "transition"}, Dies(reason)
      PROVE  DurableInv'
  BY <1>1, <1>r DEF Dies, durable, RestartRestores, Nothing
<1>2. CASE Tick \/ GoesDark \/ BarArrives \/ QuoteArrives \/ TrackSetup \/ Decide \/ UNCHANGED vars
  BY <1>2, <1>r DEF Tick, GoesDark, BarArrives, QuoteArrives, TrackSetup, Decide, vars, clock, durable,
     RestartRestores, DurableInv
<1>3. CASE CreateSetup
  <2>1. PICK s \in Setups : rows[s] = "none" /\ rows' = [rows EXCEPT ![s] = "watching"]
    BY <1>3 DEF CreateSetup
  <2>2. fill' = fill /\ told' = told /\ news' = news /\ failure' = failure
    BY <1>3 DEF CreateSetup, clock
  <2> SUFFICES ASSUME NEW x \in Setups
               PROVE  (FillMatches(x) /\ Durable(x, told[x]) /\ Durable(x, news[x]))'
    BY <2>2 DEF DurableInv, RestartRestores
  <2>3. FillMatches(x) /\ Durable(x, told[x]) /\ Durable(x, news[x])
    BY DEF DurableInv
  <2>4. rows'[x] = rows[x] \/ (rows[x] = "none" /\ rows'[x] = "watching")
    BY <2>1 DEF TypeOK
  <2> QED
    BY <2>2, <2>3, <2>4 DEF FillMatches, Durable, Terminal
<1>4. CASE RecordTransition
  <2>1. CASE goal \in Transitions[rows[active]]
    <3>1. failure' = failure
      BY <1>4, <2>1 DEF RecordTransition, clock
    <3> QED
      BY <1>4, <2>1, <3>1, DurableRecord DEF DurableInv, RestartRestores
  <2>2. CASE goal \notin Transitions[rows[active]]
    BY <1>1, <1>4, <2>2 DEF RecordTransition
  <2> QED
    BY <2>1, <2>2
<1>5. CASE Emit
  BY <1>5, <1>r DEF Emit, clock, durable, Nothing, RestartRestores, DurableInv
<1>6. CASE Crash
  BY <1>1, <1>6 DEF Crash
<1>7. CASE Restart
  <2>1. config' \in Configs /\ rows' = rows /\ fill' = fill /\ news' = news
    BY <1>7 DEF Restart, durable
  <2>2. Restorable(Recoverable(config'))
    <3>1. \A s, t \in Unexpired(config') : s = t
      BY <2>1 DEF OneOpenInv, OneOpenSetup
    <3>2. \A s \in Unexpired(config') : s \in Setups /\ rows[s] \in Open
      BY DEF Unexpired
    <3>3. \A s \in Unexpired(config') : FillMatches(s)
      BY <3>2 DEF DurableInv
    <3> QED
      BY <3>1, <3>2, <3>3 DEF Restorable, Recoverable, FillMatches, Open, Terminal
  <2>3. /\ failure' = "none"
        /\ told' = [s \in Setups |-> IF s \in Recoverable(config') THEN rows[s] ELSE told[s]]
    BY <1>7, <2>2 DEF Restart
  <2> QED
    BY <1>r, <2>1, <2>3 DEF RestartRestores
<1> QED
  BY <1>2, <1>3, <1>4, <1>5, <1>6, <1>7 DEF Next

LEMMA DurableInvariant == Spec => []DurableInv
<1>1. Init => TypeOK
  BY TypeInit
<1>2. Init => OneOpenInv
  BY OneOpenInit
<1>3. Init => DurableInv
  BY DEF Init, Nothing, DurableInv, FillMatches, Durable, RestartRestores, Terminal
<1>4. TypeOK /\ OneOpenInv /\ DurableInv /\ [Next]_vars => TypeOK' /\ OneOpenInv' /\ DurableInv'
  BY TypeStep, OneOpenStep, DurableStep
<1> QED
  BY <1>1, <1>2, <1>3, <1>4, PTL DEF Spec

\* Recovery never raises: the rows it finds are at most one setup, with a fill
\* exactly where the lifecycle allows one.
THEOREM RecoverySucceeds == Spec => []RestartRestores
<1>1. DurableInv => RestartRestores
  BY DEF DurableInv
<1> QED
  BY <1>1, DurableInvariant, PTL

\* The app is never ahead of the database: an end or a fill it was told of is in
\* the rows, and stays there.
THEOREM AppIsNeverAhead == Spec => []ToldIsDurable
<1>1. DurableInv => ToldIsDurable
  BY DEF DurableInv, ToldIsDurable, Durable
<1> QED
  BY <1>1, DurableInvariant, PTL
=============================================================================
