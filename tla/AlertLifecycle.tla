--------------------------- MODULE AlertLifecycle ---------------------------
(***************************************************************************)
(* The alert setups of the live monitor (src/live_monitor): the lifecycle  *)
(* a setup goes through (lifecycle.py), the handler that ends it at a stop,*)
(* a target or its expiry, closes it and issues another (engine.py), the   *)
(* rows it is kept in (repository.py), the output the app reads only after *)
(* a handler has returned, and a process that may end between any two      *)
(* writes and start again from the rows (command.py).                      *)
(*                                                                         *)
(* One scope (provider, feed and symbol).  The side of a plan is left out: *)
(* a decision for the other side is one that closes and may issue.  A      *)
(* configuration is the configuration hash together with the cohort that   *)
(* is selected for the scope: processes started with one configuration     *)
(* select one cohort.                                                      *)
(***************************************************************************)
EXTENDS Integers

CONSTANTS
  Setups,       \* bound: the setups that are ever issued
  NoSetup,      \* no active setup
  Configs,      \* configurations a process may be started with
  MaxTime,      \* bound: the clock stops here
  MaxLife,      \* bound: expires_after_bars, in minutes
  MaxSessions   \* bound: monitor processes that ever run

ASSUME LifecycleAssumption ==
  /\ NoSetup \notin Setups
  /\ {MaxTime, MaxLife} \subseteq Nat
  /\ MaxSessions \in Nat \ {0}

Terminal == {"target_2", "stopped", "closed", "invalidated", "expired"}
Open     == {"watching", "candidate", "entry_alerted", "tracked", "untracked", "target_1"}
States   == Open \cup Terminal
Ends     == {"stopped", "closed", "invalidated", "expired"}

Transitions ==
  [watching      |-> {"candidate"},
   candidate     |-> {"entry_alerted", "invalidated", "expired"},
   entry_alerted |-> {"tracked", "untracked"} \cup Ends,
   tracked       |-> {"target_1"} \cup Ends,
   untracked     |-> {"tracked", "target_1"} \cup Ends,
   target_1      |-> {"target_2"} \cup Ends]

VARIABLES
  now,      \* minutes on the clock
  session,  \* processes started
  up,       \* a process is running
  config,   \* its configuration
  failure,  \* what ended the last process: "none", "transition" or "restore"
  dark,     \* no bar of the scope reaches the engine
  rows,     \* monitor_setups.current_state, or "none"
  owner,    \* configuration of a setup's plan
  expires,  \* expires_at of a setup's plan
  fill,     \* monitor_transitions has the fill of the setup
  active,   \* the setup in _active, or NoSetup
  stage,    \* "idle", or what the handler has come to: "risk", "decide"
  goal,     \* the state the handler records next, or "none"
  both,     \* the bar has reached both targets
  issue,    \* the handler will issue a setup
  news,     \* newest state of a setup in the events the handler will return
  told      \* newest state of a setup in the events printed to the app

clock   == <<now, session, up, config, failure, dark>>
durable == <<rows, owner, expires, fill>>
handler == <<stage, goal, both, issue>>
vars    == <<clock, durable, active, handler, news, told>>

TypeOK ==
  /\ now \in 0..MaxTime /\ session \in 0..MaxSessions /\ up \in BOOLEAN
  /\ config \in Configs /\ failure \in {"none", "transition", "restore"}
  /\ dark \in BOOLEAN
  /\ rows \in [Setups -> States \cup {"none"}]
  /\ owner \in [Setups -> Configs] /\ expires \in [Setups -> 0..MaxTime]
  /\ fill \in [Setups -> BOOLEAN]
  /\ active \in Setups \cup {NoSetup}
  /\ active # NoSetup => rows[active] \in Open
  /\ stage \in {"idle", "risk", "decide"} /\ goal \in States \cup {"none"}
  /\ both \in BOOLEAN /\ issue \in BOOLEAN
  /\ goal # "none" => active # NoSetup /\ stage # "idle"
  /\ issue => stage = "decide"
  /\ ~up => stage = "idle" /\ active = NoSetup
  /\ news \in [Setups -> States \cup {"none"}] /\ told \in [Setups -> States \cup {"none"}]

Nothing == [s \in Setups |-> "none"]

Init ==
  /\ now = 0 /\ session = 1 /\ up = TRUE /\ config \in Configs /\ failure = "none" /\ dark = FALSE
  /\ rows = Nothing
  /\ owner = [s \in Setups |-> config] /\ expires = [s \in Setups |-> 0]
  /\ fill = [s \in Setups |-> FALSE] /\ active = NoSetup
  /\ stage = "idle" /\ goal = "none" /\ both = FALSE /\ issue = FALSE
  /\ news = Nothing /\ told = Nothing

-----------------------------------------------------------------------------
(* The handlers, which the one event loop runs one at a time.              *)

Idle == up /\ stage = "idle"

\* Minutes go by with no bar, or with one the engine does not look at, or with
\* no process.
Tick ==
  /\ now < MaxTime
  /\ up => stage = "idle"
  /\ now' = now + 1
  /\ UNCHANGED <<session, up, config, failure, dark, durable, active, handler, news, told>>

\* The provider sends no more bars, or the producer drops them: a gap has grown
\* beyond the bound of one repair, or its repair goes on failing.
GoesDark ==
  /\ Idle
  /\ ~dark
  /\ dark' = TRUE
  /\ UNCHANGED <<now, session, up, config, failure, durable, active, handler, news, told>>

\* Mutant of RiskGoal: a plan is never too old.
RiskGoalWithoutExpiry(end, touched) ==
  IF "stop" \in touched THEN "stopped"
  ELSE IF rows[active] = "target_1" /\ "target_2" \in touched THEN "target_2"
  ELSE IF rows[active] \in {"tracked", "untracked"} /\ "target_1" \in touched THEN "target_1"
  ELSE "none"

\* What a finalized bar means for the active setup; the stop comes first.
RiskGoal(end, touched) ==
  IF "stop" \in touched THEN "stopped"
  ELSE IF end >= expires[active] THEN "expired"
  ELSE IF rows[active] = "target_1" /\ "target_2" \in touched THEN "target_2"
  ELSE IF rows[active] \in {"tracked", "untracked"} /\ "target_1" \in touched THEN "target_1"
  ELSE "none"

\* A bar the engine looks at.  A price beyond the second target is beyond the first.
BarArrives ==
  /\ Idle
  /\ now' = IF now < MaxTime THEN now + 1 ELSE now
  /\ dark' = FALSE
  /\ \E touched \in SUBSET {"stop", "target_1", "target_2"} :
       /\ "target_2" \in touched => "target_1" \in touched
       /\ goal' = IF active = NoSetup THEN "none" ELSE RiskGoal(now', touched)
       /\ both' = (goal' = "target_1" /\ "target_2" \in touched)
  /\ stage' = "risk"
  /\ UNCHANGED <<session, up, config, failure, durable, active, issue, news, told>>

\* A quote that decides a bar that waits for it.  The several bars one quote may
\* decide are as many handlers here, whose events are printed no later.
QuoteArrives ==
  /\ Idle
  /\ stage' = "risk"
  /\ UNCHANGED <<clock, durable, active, goal, both, issue, news, told>>

\* The operator reports the fill of the active setup.  A control for another
\* setup, or in a state that cannot be tracked, is refused and changes nothing.
TrackSetup ==
  /\ Idle
  /\ active # NoSetup
  /\ "tracked" \in Transitions[rows[active]]
  /\ goal' = "tracked"
  /\ stage' = "decide"
  /\ UNCHANGED <<clock, durable, active, both, issue, news, told>>

CanIssue == now < MaxTime /\ \E s \in Setups : rows[s] = "none"

DecideWithoutClosing ==   \* mutant of Decide: the other side is issued beside the open setup
  /\ up /\ stage = "risk" /\ goal = "none"
  /\ stage' = "decide"
  /\ \/ UNCHANGED <<goal, issue>>
     \/ CanIssue /\ issue' = TRUE /\ goal' = goal
  /\ UNCHANGED <<clock, durable, active, both, news, told>>

\* The decision, if there is one: keep what is, close the active setup (evidence
\* gone, or the other side), and issue one where there is none or no longer one.
Decide ==
  /\ up /\ stage = "risk" /\ goal = "none"
  /\ stage' = "decide"
  /\ \/ UNCHANGED <<goal, issue>>
     \/ /\ active # NoSetup
        /\ goal' = "closed"
        /\ issue' \in {FALSE, CanIssue}
     \/ /\ active = NoSetup /\ CanIssue
        /\ issue' = TRUE
        /\ goal' = goal
  /\ UNCHANGED <<clock, durable, active, both, news, told>>

CreateSetup ==
  /\ up /\ issue /\ goal = "none"
  /\ \E s \in Setups, life \in 1..MaxLife :
       /\ rows[s] = "none"
       /\ now + life <= MaxTime
       /\ rows' = [rows EXCEPT ![s] = "watching"]
       /\ owner' = [owner EXCEPT ![s] = config]
       /\ expires' = [expires EXCEPT ![s] = now + life]
       /\ active' = s
  /\ goal' = "candidate"
  /\ issue' = FALSE
  /\ UNCHANGED <<clock, fill, stage, both, news, told>>

\* What the handler records after a state: a new setup is promoted in three
\* transactions, and a bar that reached both targets passes through the first.
Following(state) ==
  CASE state = "candidate"            -> "entry_alerted"
    [] state = "entry_alerted"        -> "untracked"
    [] state = "target_1" /\ both     -> "target_2"
    [] OTHER                          -> "none"

\* The process ends and its memory is gone.
Dies(reason) ==
  /\ up' = FALSE /\ failure' = reason
  /\ active' = NoSetup /\ stage' = "idle" /\ goal' = "none"
  /\ both' = FALSE /\ issue' = FALSE /\ news' = Nothing
  /\ UNCHANGED <<now, session, config, dark, durable, told>>

RecordAhead ==   \* mutant of RecordTransition: the app hears of a transition before it is recorded
  /\ up /\ goal # "none"
  /\ IF goal \in Transitions[rows[active]]
       THEN /\ rows' = [rows EXCEPT ![active] = goal]
            /\ fill' = [fill EXCEPT ![active] = @ \/ goal = "tracked"]
            /\ told' = [told EXCEPT ![active] = IF Following(goal) = "none" THEN goal ELSE Following(goal)]
            /\ goal' = Following(goal)
            /\ active' = IF goal \in Terminal THEN NoSetup ELSE active
            /\ UNCHANGED <<clock, owner, expires, stage, both, issue, news>>
       ELSE Dies("transition")

\* apply() and record_transition().  A transition the table does not have raises,
\* and the process ends.
RecordTransition ==
  /\ up /\ goal # "none"
  /\ IF goal \in Transitions[rows[active]]
       THEN /\ rows' = [rows EXCEPT ![active] = goal]
            /\ fill' = [fill EXCEPT ![active] = @ \/ goal = "tracked"]
            /\ news' = [news EXCEPT ![active] = goal]
            /\ goal' = Following(goal)
            /\ active' = IF goal \in Terminal THEN NoSetup ELSE active
            /\ UNCHANGED <<clock, owner, expires, stage, both, issue, told>>
       ELSE Dies("transition")

\* The handler returns and its events are printed.
Emit ==
  /\ up /\ stage = "decide" /\ goal = "none" /\ ~issue
  /\ told' = [s \in Setups |-> IF news[s] = "none" THEN told[s] ELSE news[s]]
  /\ news' = Nothing
  /\ stage' = "idle"
  /\ both' = FALSE
  /\ UNCHANGED <<clock, durable, active, goal, issue>>

-----------------------------------------------------------------------------
\* A crash, a shutdown, or a database that refuses a write.
Crash ==
  /\ up
  /\ Dies("none")

\* The rows a process with configuration c restores.
Unexpired(c) == {s \in Setups : rows[s] \in Open /\ owner[s] = c /\ expires[s] > now}

\* Mutant of Recoverable: a setup whose promotion was interrupted is not restored.
UnexpiredEntries(c) == Unexpired(c) \ {s \in Setups : rows[s] \in {"watching", "candidate"}}

Recoverable(c) == Unexpired(c)

\* restore_setup refuses a second setup of a scope, a tracked one without its
\* fill, and a fill with a state that has none.
Restorable(found) ==
  /\ \A s, t \in found : s = t
  /\ \A s \in found :
       /\ rows[s] = "tracked" => fill[s]
       /\ fill[s] => rows[s] \in {"tracked", "target_1"}

Restart ==
  /\ ~up
  /\ session < MaxSessions
  /\ session' = session + 1
  /\ config' \in Configs
  /\ LET found == Recoverable(config')
     IN  IF Restorable(found)
           THEN /\ up' = TRUE /\ failure' = "none"
                /\ active' \in IF found = {} THEN {NoSetup} ELSE found
                /\ told' = [s \in Setups |-> IF s \in found THEN rows[s] ELSE told[s]]
           ELSE /\ failure' = "restore"
                /\ UNCHANGED <<up, active, told>>
  /\ UNCHANGED <<now, dark, durable, handler, news>>

Next ==
  \/ Tick \/ GoesDark \/ BarArrives \/ QuoteArrives \/ TrackSetup
  \/ Decide \/ CreateSetup \/ RecordTransition \/ Emit
  \/ Crash \/ Restart

\* A handler that has started goes on, and while bars reach the queue each is
\* handled in its turn.  Nothing obliges a scope that is dark to come back.
Fairness ==
  /\ WF_vars(Decide \/ CreateSetup \/ RecordTransition \/ Emit)
  /\ SF_vars(~dark /\ BarArrives)

Spec == Init /\ [][Next]_vars
FairSpec == Spec /\ Fairness

-----------------------------------------------------------------------------
(* Properties.                                                             *)

\* "No existing active setup for the same symbol": no configuration ever has two
\* open setups that have not expired, in its rows or in the process, whatever
\* was closed, issued and interrupted before.
OneOpenSetup == \A c \in Configs : \A s, t \in Unexpired(c) : s = t

\* "Active state is saved and restored after restart": whatever the process was
\* doing when it ended, and whatever ran since, recovery does not raise.
RestartRestores == failure # "restore"

\* The app is never ahead of the database: a setup it was told has ended stays
\* as it ended, and one it was told is tracked keeps its fill.
ToldIsDurable ==
  \A s \in Setups :
    /\ told[s] \in Terminal => rows[s] = told[s]
    /\ told[s] = "tracked" => fill[s]

\* An entry plan does not outlive its expiry: a setup a process watches ends, or
\* the process does, though quotes and controls keep coming; unless from some time
\* on no bar of the scope reaches the engine, for only bars are held against the
\* expiry.
SetupsEnd == \A s \in Setups : active = s ~> (rows[s] \in Terminal \/ ~up \/ []dark)
=============================================================================
