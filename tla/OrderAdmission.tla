---------------------------- MODULE OrderAdmission ----------------------------
(***************************************************************************)
(* What the trading supervisor promises its operator about outgoing orders *)
(* (src/trading/supervisor.py): an order is announced durably first, goes  *)
(* to the broker once or never, and is announced only through a gate that  *)
(* is never open after a comparison that did not match and, once frozen,   *)
(* stays shut for the session.  Two things may go wrong around the gate,   *)
(* and the promise says how far: a start whose comparison came to no end   *)
(* leaves it unchecked, and a freeze from another thread does not call     *)
(* back the one order that has been announced.                             *)
(***************************************************************************)
CONSTANTS
  Ids,
  Compares,     \* every comparison that begins ends with a verdict
  FreezesAtOnce \* nobody freezes while an order is being submitted

VARIABLES gate,   \* "closed", "unchecked", "open" after a matched comparison, or "frozen"
          stage   \* of each logical order

admission == <<gate, stage>>

AdmissionTypeOK ==
  /\ gate \in {"closed", "unchecked", "open", "frozen"}
  /\ stage \in [Ids -> {"none", "intended", "sent", "abandoned"}]

AdmissionInit ==
  /\ gate = "closed"
  /\ stage = [id \in Ids |-> "none"]

Passable == gate \in {"unchecked", "open"}

Announce(id) ==
  /\ Passable
  /\ stage[id] = "none"
  /\ \A other \in Ids : stage[other] # "intended"
  /\ stage' = [stage EXCEPT ![id] = "intended"]
  /\ UNCHANGED gate

Send(id) ==
  /\ FreezesAtOnce => Passable
  /\ stage[id] = "intended"
  /\ stage' = [stage EXCEPT ![id] = "sent"]
  /\ UNCHANGED gate

\* Risk refuses the announced order; a missing risk context also freezes.
Abandon(id) ==
  /\ stage[id] = "intended"
  /\ stage' = [stage EXCEPT ![id] = "abandoned"]
  /\ gate' \in {gate, "frozen"}

\* A comparison begins anew, matches, does not, or comes to no end.
Recheck   == gate = "unchecked" /\ gate' = "closed" /\ UNCHANGED stage
OpenGate  == gate = "closed" /\ gate' = "open" /\ UNCHANGED stage
Freeze    == gate' = "frozen" /\ UNCHANGED stage
Unchecked == ~Compares /\ gate = "closed" /\ gate' = "unchecked" /\ UNCHANGED stage

\* A new process: the gate is shut and what was announced is never sent.
NewSession ==
  /\ gate' = "closed"
  /\ stage' = [id \in Ids |-> IF stage[id] = "intended" THEN "abandoned" ELSE stage[id]]

AdmissionNext ==
  \/ \E id \in Ids : Announce(id) \/ Send(id) \/ Abandon(id)
  \/ Recheck \/ OpenGate \/ Freeze \/ Unchecked \/ NewSession

AdmissionSpec == AdmissionInit /\ [][AdmissionNext]_admission
=============================================================================
