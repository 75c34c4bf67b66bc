--------------------------- MODULE OrderLifecycle ---------------------------
(***************************************************************************)
(* What a trader driver promises about one order, whatever exchange is     *)
(* behind it: the notices a trader_api delivers (entrust, deal, trade,     *)
(* cancel, error) tell of every order a life that starts with a placement, *)
(* only ever uses up the volume that was asked for, and ends once.         *)
(*                                                                         *)
(* The simulator implements this (TraderSimulatorProofs), and so do the    *)
(* CTP and TAP drivers (LiveTradingProofs).  A step is what one call of    *)
(* the driver tells of an order: a single match may tell an entrust, a     *)
(* deal and a trade, so a step may cross several stations at once.         *)
(***************************************************************************)
EXTENDS Integers

CONSTANTS Ids,        \* the estids the driver may hand out
          MaxVolume   \* the largest volume an order asks for

VARIABLES status,     \* Ids -> Statuses: what the driver has told so far
          left        \* Ids -> the volume not dealt yet

vars == <<status, left>>

Ended    == {"traded", "canceled", "refused"}
Statuses == {"none", "placed", "entrusted"} \cup Ended

Init ==
  /\ status = [o \in Ids |-> "none"]
  /\ left = [o \in Ids |-> 0]

\* place_order returns an estid.
Place(o) ==
  /\ status[o] = "none"
  /\ status' = [status EXCEPT ![o] = "placed"]
  /\ \E v \in 1..MaxVolume : left' = [left EXCEPT ![o] = v]

\* The order is refused before it was ever entrusted.
Refuse(o) ==
  /\ status[o] = "placed"
  /\ status' = [status EXCEPT ![o] = "refused"]
  /\ UNCHANGED left

\* One call of the driver: any deals, then possibly the end of the order.
Report(o) ==
  /\ status[o] \in {"placed", "entrusted"}
  /\ \E n \in 0..left[o], s \in {"entrusted", "traded", "canceled"} :
       /\ s = "traded" <=> n = 0
       /\ status' = [status EXCEPT ![o] = s]
       /\ left' = [left EXCEPT ![o] = n]

Next == \E o \in Ids : Place(o) \/ Refuse(o) \/ Report(o)

Spec == Init /\ [][Next]_vars

-----------------------------------------------------------------------------
\* Traded means that nothing is left, and an order that ended otherwise, or
\* has not ended, still has volume: the two facts a strategy relies on when it
\* reads on_trade as complete and on_cancel as something left undone.
EndTellsVolume ==
  \A o \in Ids : /\ status[o] = "traded" => left[o] = 0
                 /\ status[o] \notin {"none", "traded"} => left[o] > 0

\* An order that ended is never told of again.
EndIsFinal ==
  [][\A o \in Ids : status[o] \in Ended =>
        status'[o] = status[o] /\ left'[o] = left[o]]_vars
=============================================================================
