------------------------- MODULE MCDeepResearchRun -------------------------
(***************************************************************************)
(* Three candidates a cycle for the model checker.  The first list repeats *)
(* a candidate; the second, with an incumbent, begins with a variant of it.*)
(*                                                                         *)
(* What a candidate's decisions come to is replayed beside the run: two    *)
(* strategies on two symbols, as one portfolio (IntradayPortfolio).        *)
(***************************************************************************)
EXTENDS DeepResearchRun, IntradayPortfolio, TLC

CONSTANTS alpha, beta, gamma, delta

MCHashes  == {alpha, beta, gamma, delta}
MCFitness == [h \in MCHashes |-> CASE h = alpha -> 1 [] h = gamma -> 3 [] OTHER -> 2]

MCGenerated ==
  [g \in Generations |-> [h \in Incumbents |->
     IF h # NoHash /\ h # delta THEN <<delta, alpha, gamma>>
     ELSE IF g = 1 THEN <<alpha, beta, alpha>> ELSE <<gamma, alpha, gamma>>]]

MCWorkers == {1, 2}

MCProcesses == [long \in BOOLEAN |-> IF long THEN 2 ELSE 3]

Wish(by, symbol, at, target) == [by |-> by, symbol |-> symbol, at |-> at, target |-> target]

\* Entries, a reversal or an exit that become due together with them, or late.
MCPrograms ==
  {{}} \cup {{Wish(1, 1, 0, a), Wish(1, 2, 0, b), Wish(2, 1, 1, c), Wish(1, 1, 1, d),
              Wish(1, 2, 2, 0), Wish(2, 1, 2, 0)} :
                a \in {600, 1000}, b \in {0, 500, -500}, c \in {0, -1000}, d \in {600, 0}}

Bar(open, close, capacity, session) ==
  [open |-> open, close |-> close, capacity |-> capacity, session |-> session]

\* One symbol has no bar; one is halted, has little room, or its session ends.
MCOpenings ==
  {1 :> Bar(4, 5, 9, FALSE)} \cup
  {1 :> one @@ 2 :> two : one \in {Bar(4, 6, 30, FALSE), Bar(6, 4, 7, TRUE), Bar(4, 4, 0, FALSE)},
                          two \in {Bar(5, 5, 20, FALSE), Bar(8, 5, 30, TRUE), Bar(3, 9, 4, FALSE)}}

MCCuts == <<1000, 900, 700, 500, 366>>

\* One of the two moves, and only while the other is as it began.
MCInit == Init /\ PortfolioInit /\ (program # {} => continuous = (TRUE \in Modes) /\ workers = 1)
MCNext ==
  \/ program = {} /\ Next /\ UNCHANGED pvars
  \/ program # {} /\ PortfolioNext /\ UNCHANGED vars
MCSpec == MCInit /\ [][MCNext]_<<vars, pvars>> /\ WF_vars(Work)
=============================================================================
