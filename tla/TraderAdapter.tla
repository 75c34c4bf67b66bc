---------------------------- MODULE TraderAdapter ----------------------------
(***************************************************************************)
(* How the two actual trader drivers turn what a broker's API calls back   *)
(* into trader events: ctp_api_trader.cpp and tap_api_trader.cpp.  Both    *)
(* keep a copy of the orders they have seen, find a deal in the difference *)
(* between an order's return and their copy, and drop an order at its end. *)
(* The operators are those callbacks, as functions from the driver's maps  *)
(* to the maps it leaves and the events it fires.                          *)
(*                                                                         *)
(* The maps are a record                                                   *)
(*   order : Ids -> the last_volume of _order_info, or Unknown             *)
(*   index : the ids in the TAP driver's _order_index                      *)
(* A callback of the API is a record                                       *)
(*   [kind |-> "order", id, status, left, total]   OnRtnOrder              *)
(*   [kind |-> "refused", id]                      the insert was refused  *)
(*   [kind |-> "cancelrefused", id]                the cancel was refused  *)
(*   [kind |-> "unheard", id]   either, by a TAP notice with an error code *)
(* TAP tells every result with OnRtnOrder: its API does not use            *)
(* OnRspOrderAction.                                                       *)
(*                                                                         *)
(* A callback changes the maps at once and fires its events afterwards.    *)
(* The code erases an order that ended after its last event, so that it    *)
(* can be found, and a cancel of it sent, while the callback waits for     *)
(* room in the queue.  The exchange refuses that cancel like one that was  *)
(* sent before the callback began, which the model has.                    *)
(***************************************************************************)
EXTENDS Integers, Sequences

CONSTANTS Ids, Modulus

Unknown == -1

NoOrders == [order |-> [o \in Ids |-> Unknown], index |-> {}]

Seen(a, o) == a.order[o] # Unknown

\* fire_event: deals say how much was dealt and what is left after it.
Fired(type, o, volume, left) ==
  [type |-> type, id |-> o, volume |-> volume, left |-> left]

Placed(m)       == <<Fired("OrderPlace", m.id, m.total, m.left)>>
Dealt(m, v)     == <<Fired("OrderDeal", m.id, v, m.left)>>
PlaceRefused(o) == Fired("OrderError", o, 0, 0)
CancelRefused(o) == Fired("CancelError", o, 0, 0)

\* (Slip: a canceled order is not over.)
IsOverTraded(m) == m.status = "traded"

IsOver(m) == m.status \in {"traded", "canceled"}

\* (Slip: an order that ends is told as traded.)
OverTraded(m) == <<Fired("OrderTrade", m.id, m.total, 0)>>

Over(m) ==
  IF m.status = "traded" THEN <<Fired("OrderTrade", m.id, m.total, 0)>>
                         ELSE <<Fired("OrderCancel", m.id, m.left, m.left)>>

Keeps(a, events) == [adapter |-> a, events |-> events]

-----------------------------------------------------------------------------
(* CTP *)

\* The deal a return tells of, when it is not older than the driver's copy.
\* (Slip: the whole of what was dealt so far.)
CtpDealTotal(a, m) ==
  IF a.order[m.id] > m.left THEN Dealt(m, m.total - m.left) ELSE <<>>

CtpDeal(a, m) ==
  IF a.order[m.id] > m.left THEN Dealt(m, a.order[m.id] - m.left) ELSE <<>>

\* ctp_api_trader::OnRtnOrder.  The first return of an order that dealt in
\* part tells of a deal of what is left of it.
CtpRtnOrder(a, m) ==
  CASE IsOver(m) /\ Seen(a, m.id) ->
         Keeps([a EXCEPT !.order[m.id] = Unknown], CtpDeal(a, m) \o Over(m))
    [] IsOver(m) /\ ~Seen(a, m.id) -> Keeps(a, <<>>)
    [] ~IsOver(m) /\ ~Seen(a, m.id) ->
         Keeps([a EXCEPT !.order[m.id] = m.left],
               Placed(m) \o IF m.left < m.total THEN Dealt(m, m.left) ELSE <<>>)
    [] OTHER ->
         Keeps([a EXCEPT !.order[m.id] = IF @ > m.left THEN m.left ELSE @],
               CtpDeal(a, m))

\* OnRspOrderInsert and then OnErrRtnOrderInsert, which alone erases the order.
CtpRefused(a, m) ==
  Keeps([a EXCEPT !.order[m.id] = Unknown], <<PlaceRefused(m.id), PlaceRefused(m.id)>>)

\* OnRspOrderAction.
CtpCancelRefused(a, m) == Keeps(a, <<CancelRefused(m.id)>>)

-----------------------------------------------------------------------------
(* TAP *)

\* The difference is taken in unsigned integers and told when it is not 0.
TapDeal(a, m) ==
  LET v == (a.order[m.id] - m.left) % Modulus
  IN IF v > 0 THEN Dealt(m, v) ELSE <<>>

\* tap_api_trader::OnRtnOrder.
TapRtnOrder(a, m) ==
  CASE IsOver(m) /\ Seen(a, m.id) ->
         Keeps([order |-> [a.order EXCEPT ![m.id] = Unknown], index |-> a.index \ {m.id}],
               TapDeal(a, m) \o Over(m))
    [] IsOver(m) /\ ~Seen(a, m.id) -> Keeps([a EXCEPT !.index = @ \ {m.id}], <<>>)
    [] ~IsOver(m) /\ ~Seen(a, m.id) ->
         Keeps([order |-> [a.order EXCEPT ![m.id] = m.left], index |-> a.index \cup {m.id}],
               Placed(m) \o IF m.left < m.total THEN Dealt(m, m.total - m.left) ELSE <<>>)
    [] OTHER ->
         Keeps([order |-> [a.order EXCEPT ![m.id] = m.left], index |-> a.index \cup {m.id}],
               TapDeal(a, m))

\* OnRtnOrder with an error code in the order's particulars or the state FAIL:
\* whatever was refused, its placement or a cancel, it is told as the placement.
\* The maps stay.
TapError(a, m) == Keeps(a, <<PlaceRefused(m.id)>>)

\* OnRtnOrder whose notice has the error code: it is logged.
TapErrorLogged(a) == Keeps(a, <<>>)

-----------------------------------------------------------------------------
(* What the rest of the system uses. *)

\* The callback m of the API.
Callback(api, a, m) ==
  CASE m.kind = "order"   -> IF api = "ctp" THEN CtpRtnOrder(a, m) ELSE TapRtnOrder(a, m)
    [] m.kind = "refused" -> IF api = "ctp" THEN CtpRefused(a, m) ELSE TapError(a, m)
    [] m.kind = "cancelrefused" ->
         IF api = "ctp" THEN CtpCancelRefused(a, m) ELSE TapError(a, m)
    [] OTHER -> TapErrorLogged(a)

\* cancel_order finds an order in the map it takes its particulars from.
CanCancel(api, a, o) == IF api = "ctp" THEN Seen(a, o) ELSE o \in a.index

\* OnRspQryOrder for every live order o, of which left[o] is left: CTP starts
\* its map afresh, TAP only takes the orders that are not in its index.
QueriedOrders(api, a, live, left) ==
  LET taken == IF api = "ctp" THEN live ELSE live \ a.index
  IN [order |-> [o \in Ids |-> IF o \in taken THEN left[o] ELSE Unknown],
      index |-> IF api = "ctp" THEN a.index ELSE a.index \cup live]

\* The offset an order comes back with after convert_offset_type and
\* wrap_offset_type: where today's lots are not told apart, TAP covers both
\* with one effect and reads it as today's.
WrappedOffset(api, distinct, offset) ==
  IF api = "tap" /\ ~distinct /\ offset # "open" THEN "clstd" ELSE offset
=============================================================================
