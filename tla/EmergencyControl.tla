---------------------------- MODULE EmergencyControl ----------------------------
(***************************************************************************)
(* The emergency controller of src/trading/emergency.py: freeze, and the   *)
(* separately confirmed flatten that closes every position with an order   *)
(* whose client id is derived from symbol and quantity, while the broker   *)
(* goes on filling entry orders whose cancellation it has not carried out. *)
(***************************************************************************)
EXTENDS Integers

CONSTANTS
  Symbols,
  Units,         \* bound: largest position, and largest entry order
  Attempts,      \* reconciliation_attempts
  MaxCalls,      \* bound: freeze and flatten calls that are ever made
  Faults         \* the broker, the network or the database may fail any request

ASSUME EmergencyAssumption ==
  /\ Units \in Nat \ {0} /\ Attempts \in Nat
  /\ MaxCalls \in Nat
  /\ Faults \in BOOLEAN

VARIABLES
  frozen,    \* _frozen
  cancelled, \* the cancel-all request of the freeze has been answered
  pc,        \* "idle", or what flatten does next
  seen,      \* positions flatten has read and not yet sent a close for
  tries,     \* reconciliation attempts left
  outcome,   \* status of the last answer, "raised" when the call raised
  calls,     \* bound counter
  position,  \* the broker's positions, signed
  entry,     \* units of working entry orders at the broker, negative when they sell
  closes,    \* units left of the closing order with each client id
  used,      \* client ids the broker has accepted
  late,      \* client ids of closes whose request is still on its way
  crossed    \* history: symbols last read while another order of them was outstanding

controller == <<frozen, cancelled, pc, seen, tries, outcome, calls>>
broker     == <<position, entry, closes, used, late>>
vars       == <<controller, broker, crossed>>

Quantities == (-Units .. Units) \ {0}
CloseIds   == Symbols \X Quantities
Outcomes   == {"none", "frozen", "frozen_unresolved", "already_frozen", "confirmation_rejected",
               "flattened", "unresolved", "raised"}

\* The client id of a close: environment and account are fixed, so it is the
\* symbol and the signed quantity, whatever call sends it.
CloseId(s, q) == <<s, q>>
Size(q)       == IF q > 0 THEN q ELSE -q

TypeOK ==
  /\ frozen \in BOOLEAN /\ cancelled \in BOOLEAN
  /\ pc \in {"idle", "listing", "closing", "verifying"}
  /\ seen \in [Symbols -> -Units .. Units]
  /\ tries \in 0..Attempts
  /\ outcome \in Outcomes
  /\ calls \in 0..MaxCalls
  /\ position \in [Symbols -> -Units .. Units]
  /\ entry \in [Symbols -> -Units .. Units]
  /\ closes \in [CloseIds -> 0..Units]
  /\ used \subseteq CloseIds /\ late \subseteq CloseIds
  /\ crossed \subseteq Symbols

Init ==
  /\ frozen = FALSE /\ cancelled = FALSE
  /\ pc = "idle" /\ seen = [s \in Symbols |-> 0] /\ tries = 0
  /\ outcome = "none" /\ calls = 0
  /\ position \in [Symbols -> -Units .. Units]
  /\ entry \in [Symbols -> -Units .. Units]
  /\ closes = [id \in CloseIds |-> 0] /\ used = {} /\ late = {}
  /\ crossed = {}

-----------------------------------------------------------------------------
(* The broker.                                                             *)

EntryFills(s) ==
  \E unit \in {1, -1} :
    /\ entry[s] * unit > 0
    /\ position[s] + unit \in -Units .. Units
    /\ entry' = [entry EXCEPT ![s] = @ - unit]
    /\ position' = [position EXCEPT ![s] = @ + unit]
    /\ UNCHANGED <<controller, closes, used, late, crossed>>

EntryEnds(s) ==
  /\ entry[s] # 0
  /\ entry' = [entry EXCEPT ![s] = 0]
  /\ UNCHANGED <<controller, position, closes, used, late, crossed>>

CloseFills(id) ==
  /\ closes[id] > 0
  /\ \E amount \in 1..closes[id] :
       LET after == position[id[1]] - (IF id[2] > 0 THEN amount ELSE -amount)
       IN  /\ after \in -Units .. Units
           /\ position' = [position EXCEPT ![id[1]] = after]
           /\ closes' = [closes EXCEPT ![id] = @ - amount]
  /\ UNCHANGED <<controller, entry, used, late, crossed>>

CloseEnds(id) ==
  /\ closes[id] > 0
  /\ closes' = [closes EXCEPT ![id] = 0]
  /\ UNCHANGED <<controller, position, entry, used, late, crossed>>

\* A request that the controller has given up arrives, or is lost.
LateArrives(id) ==
  /\ id \in late
  /\ late' = late \ {id}
  /\ \/ /\ id \notin used
        /\ used' = used \cup {id}
        /\ closes' = [closes EXCEPT ![id] = Size(id[2])]
     \/ UNCHANGED <<used, closes>>
  /\ UNCHANGED <<controller, position, entry, crossed>>

\* DELETE /v2/orders: some orders are canceled at once, the others stay
\* pending and may still fill; a request that fails may have done the same.
CancelAllOrders ==
  \E done \in SUBSET Symbols, dead \in SUBSET {id \in CloseIds : closes[id] > 0} :
    /\ entry' = [s \in Symbols |-> IF s \in done THEN 0 ELSE entry[s]]
    /\ closes' = [id \in CloseIds |-> IF id \in dead THEN 0 ELSE closes[id]]

-----------------------------------------------------------------------------
(* freeze().                                                               *)

\* A second freeze requests no cancellation, whatever came of the first.
FreezeAgain ==
  /\ frozen
  /\ outcome' \in {"already_frozen"} \cup (IF Faults THEN {"raised"} ELSE {})
  /\ UNCHANGED <<frozen, cancelled, broker, crossed>>

\* The cancel request is answered or fails; recording the event and listing
\* the positions may raise afterwards.
FreezeFirst ==
  /\ ~frozen
  /\ frozen' = TRUE
  /\ CancelAllOrders
  /\ cancelled' \in IF Faults THEN BOOLEAN ELSE {TRUE}
  /\ outcome' \in {IF cancelled' THEN "frozen" ELSE "frozen_unresolved"}
                    \cup (IF Faults THEN {"raised"} ELSE {})
  /\ UNCHANGED <<position, used, late, crossed>>

Called == pc = "idle" /\ calls < MaxCalls /\ calls' = calls + 1

Freeze ==
  /\ Called
  /\ FreezeFirst \/ FreezeAgain
  /\ UNCHANGED <<pc, seen, tries>>

-----------------------------------------------------------------------------
(* flatten().                                                              *)

FlattenRejected ==
  /\ Called
  /\ outcome' \in {"confirmation_rejected"} \cup (IF Faults THEN {"raised"} ELSE {})
  /\ UNCHANGED <<frozen, cancelled, pc, seen, tries, broker, crossed>>

Flatten ==
  /\ Called
  /\ FreezeFirst \/ FreezeAgain
  /\ pc' = IF outcome' = "raised" THEN "idle" ELSE "listing"
  /\ UNCHANGED <<seen, tries>>

\* Besides a close of this very position, another close of the symbol works or is
\* on its way, or an entry order that trades against the position.
OtherOrders(s) ==
  \/ \E q \in Quantities \ {position[s]} : closes[CloseId(s, q)] > 0 \/ CloseId(s, q) \in late
  \/ position[s] > 0 /\ entry[s] < 0
  \/ position[s] < 0 /\ entry[s] > 0

ListPositions ==
  /\ pc = "listing"
  /\ seen' = position
  /\ crossed' = {s \in Symbols : OtherOrders(s)}
  /\ pc' = "closing"
  /\ UNCHANGED <<frozen, cancelled, tries, outcome, calls, broker>>

\* The POST: the broker takes an id it has never had, and the reply may be lost;
\* otherwise the failure is recorded and the loop goes on with the next symbol,
\* while the request may still be on its way.
SendCloseAfresh(id) ==   \* mutant of SendClose: the id is new on every call
  /\ used' = used \cup {id}
  /\ closes' = [closes EXCEPT ![id] = IF @ + Size(id[2]) > Units THEN Units ELSE @ + Size(id[2])]
  /\ UNCHANGED late

SendClose(id) ==
  \/ /\ id \notin used
     /\ used' = used \cup {id}
     /\ closes' = [closes EXCEPT ![id] = Size(id[2])]
     /\ UNCHANGED late
  \/ /\ id \in used \/ Faults
     /\ late' \in {late} \cup (IF Faults THEN {late \cup {id}} ELSE {})
     /\ UNCHANGED <<closes, used>>

SubmitClose(s) ==
  /\ pc = "closing"
  /\ seen[s] # 0
  /\ SendClose(CloseId(s, seen[s]))
  /\ seen' = [seen EXCEPT ![s] = 0]
  /\ UNCHANGED <<frozen, cancelled, pc, tries, outcome, calls, position, entry, crossed>>

AllSubmitted ==
  /\ pc = "closing"
  /\ \A s \in Symbols : seen[s] = 0
  /\ pc' = "verifying"
  /\ tries' = Attempts
  /\ UNCHANGED <<frozen, cancelled, seen, outcome, calls, broker, crossed>>

Flat == \A s \in Symbols : position[s] = 0

Verified ==
  /\ pc = "verifying" /\ tries > 0
  /\ Flat
  /\ outcome' = "flattened" /\ pc' = "idle" /\ tries' = 0
  /\ UNCHANGED <<frozen, cancelled, seen, calls, broker, crossed>>

StillOpenForever ==   \* mutant of StillOpen: no bound on the attempts
  /\ pc = "verifying" /\ tries > 0
  /\ ~Flat
  /\ UNCHANGED vars

StillOpen ==
  /\ pc = "verifying" /\ tries > 0
  /\ ~Flat
  /\ tries' = tries - 1
  /\ UNCHANGED <<frozen, cancelled, pc, seen, outcome, calls, broker, crossed>>

Unresolved ==
  /\ pc = "verifying" /\ tries = 0
  /\ outcome' = "unresolved" /\ pc' = "idle"
  /\ UNCHANGED <<frozen, cancelled, seen, tries, calls, broker, crossed>>

\* A listing, or the recording of a failed close or of the result, raises.
FlattenRaises ==
  /\ Faults
  /\ pc # "idle"
  /\ pc' = "idle"
  /\ outcome' = "raised"
  /\ seen' = [s \in Symbols |-> 0] /\ tries' = 0
  /\ UNCHANGED <<frozen, cancelled, calls, broker, crossed>>

Proceed == ListPositions \/ (\E s \in Symbols : SubmitClose(s)) \/ AllSubmitted
             \/ Verified \/ StillOpen \/ Unresolved

Next ==
  \/ Freeze \/ Flatten \/ FlattenRejected \/ Proceed \/ FlattenRaises
  \/ \E s \in Symbols : EntryFills(s) \/ EntryEnds(s)
  \/ \E id \in CloseIds : CloseFills(id) \/ CloseEnds(id) \/ LateArrives(id)

\* flatten() is one straight-line call: it keeps running until it returns, and
\* nothing obliges a request to raise.
Spec == Init /\ [][Next]_vars /\ WF_vars(Proceed)

-----------------------------------------------------------------------------
(* Properties.                                                             *)

\* What works to close a symbol is never more than what is held, long or short:
\* a flatten may be repeated, may raise and may lose replies or requests any
\* number of times, orders may fill in parts and entry orders may fill meanwhile.
\* The one exception is a symbol whose position was read while another order of it
\* was outstanding: a close for another quantity has another client id, and both
\* may fill.
Holds(s, q, units) == IF q > 0 THEN position[s] >= units ELSE -position[s] >= units

NeverReversed ==
  \A s \in Symbols \ crossed, q \in Quantities :
    closes[CloseId(s, q)] > 0 =>
      /\ Holds(s, q, closes[CloseId(s, q)])
      /\ \A r \in Quantities \ {q} : closes[CloseId(s, r)] = 0

\* The strengthening that makes it inductive: at most one close of a symbol is
\* outstanding, be it working, on its way or about to be sent, it fits what is
\* held, and no entry order trades against it.
Outstanding(s, q) ==
  \/ closes[CloseId(s, q)] > 0
  \/ CloseId(s, q) \notin used /\ (CloseId(s, q) \in late \/ seen[s] = q)

Left(s, q) == IF closes[CloseId(s, q)] > 0 THEN closes[CloseId(s, q)] ELSE Size(q)

CloseInv ==
  /\ \A s \in Symbols, q \in Quantities :
       closes[CloseId(s, q)] <= Size(q) /\ (closes[CloseId(s, q)] > 0 => CloseId(s, q) \in used)
  /\ \A s \in Symbols \ crossed, q \in Quantities : Outstanding(s, q) =>
       /\ Holds(s, q, Left(s, q))
       /\ IF q > 0 THEN entry[s] >= 0 ELSE entry[s] <= 0
       /\ \A r \in Quantities \ {q} : ~Outstanding(s, r)

\* The destructive call always answers, even when nothing closes.
FlattenAnswers == pc # "idle" ~> pc = "idle"
=============================================================================
