--------------------------- MODULE ContextLedger ---------------------------
(***************************************************************************)
(* What lt::context believes of the account, src/framework/context.cpp:    *)
(* its copy of the live orders, of the positions with their frozen and     *)
(* pending volumes, the listeners its notices go to and the conditions it  *)
(* checks.  The operators are its trader-event handlers and load_data, as  *)
(* functions from a context to a context; Backtest and LiveTrading compose *)
(* them with a trader.                                                     *)
(*                                                                         *)
(* A context is a record                                                   *)
(*   position : Codes -> [postion, frozen : Buckets -> Dirs -> Nat,        *)
(*                        pending : Dirs -> Nat]                           *)
(*   entries  : the codes that have an entry in _position_info             *)
(*   order    : Ids -> the last_volume of _order_info, or Unknown          *)
(*   listener : the ids in _order_listener                                 *)
(*   condition: Ids -> "none", "always" or "user": _need_check_condition   *)
(* Buckets are "today" and "yestoday" (history), volumes wrap at Modulus.  *)
(***************************************************************************)
EXTENDS Integers, Sequences, Functions

CONSTANTS Codes, Ids, Modulus

Dirs    == {"long", "short"}
Buckets == {"today", "yestoday"}

Unknown == -1

Zero == [b \in Buckets |-> [d \in Dirs |-> 0]]

NoPosition == [postion |-> Zero, frozen |-> Zero, pending |-> [d \in Dirs |-> 0]]

Empty == [position  |-> [c \in Codes |-> NoPosition],
          entries   |-> {},
          order     |-> [o \in Ids |-> Unknown],
          listener  |-> {},
          condition |-> [o \in Ids |-> "none"]]

Plus(a, b)  == (a + b) % Modulus
Minus(a, b) == (a - b) % Modulus

\* position_info::empty: neither positions nor pendings; frozen is not asked.
IsEmpty(p) == p.postion = Zero /\ p.pending = [d \in Dirs |-> 0]

BucketOf(r) == IF r.offset = "clstd" THEN "today" ELSE "yestoday"

-----------------------------------------------------------------------------
(* The bookkeeping of one order r = [code, offset, direction, total, last]. *)

\* record_pending and frozen_deduction: the former makes the entry it needs,
\* the latter does nothing without one.
Reserve(x, r, v) ==
  IF r.offset = "open"
  THEN [x EXCEPT !.position[r.code].pending[r.direction] = Plus(@, v),
                 !.entries = @ \cup {r.code}]
  ELSE IF r.code \notin x.entries THEN x
  ELSE [x EXCEPT !.position[r.code].frozen[BucketOf(r)][r.direction] = Plus(@, v)]

\* recover_pending and unfreeze_deduction.  (Slip: gives back
\* all of the order.)
ReleaseTotal(x, r, v) ==
  IF r.code \notin x.entries THEN x
  ELSE IF r.offset = "open"
  THEN [x EXCEPT !.position[r.code].pending[r.direction] = @ - r.total]
  ELSE [x EXCEPT !.position[r.code].frozen[BucketOf(r)][r.direction] =
                    IF @ > r.total THEN @ - r.total ELSE 0]

Release(x, r, v) ==
  IF r.code \notin x.entries THEN x
  ELSE IF r.offset = "open"
  THEN [x EXCEPT !.position[r.code].pending[r.direction] = Minus(@, v)]
  ELSE [x EXCEPT !.position[r.code].frozen[BucketOf(r)][r.direction] =
                    IF @ > v THEN @ - v ELSE 0]

\* What a deal of v lots makes of a position.  (Slip: every close takes the
\* lots of yesterday.)
DealtYestoday(p, r, v) ==
  IF r.offset = "open"
  THEN [p EXCEPT !.postion["today"][r.direction] = Plus(@, v),
                 !.pending[r.direction] = Minus(@, v)]
  ELSE [p EXCEPT !.postion["yestoday"][r.direction] = Minus(@, v),
                 !.frozen["yestoday"][r.direction] = Minus(@, v)]

\* (Slip: a closing deal leaves the frozen lots alone.)
DealtKeepsFrozen(p, r, v) ==
  IF r.offset = "open"
  THEN [p EXCEPT !.postion["today"][r.direction] = Plus(@, v),
                 !.pending[r.direction] = Minus(@, v)]
  ELSE [p EXCEPT !.postion[BucketOf(r)][r.direction] = Minus(@, v)]

DealtPosition(p, r, v) ==
  IF r.offset = "open"
  THEN [p EXCEPT !.postion["today"][r.direction] = Plus(@, v),
                 !.pending[r.direction] = Minus(@, v)]
  ELSE [p EXCEPT !.postion[BucketOf(r)][r.direction] = Minus(@, v),
                 !.frozen[BucketOf(r)][r.direction] = Minus(@, v)]

\* calculate_position; the entry goes when nothing is left in it.
CalculatePosition(x, r, v) ==
  LET p == DealtPosition(x.position[r.code], r, v)
  IN [x EXCEPT !.position[r.code] = IF IsEmpty(p) THEN NoPosition ELSE p,
               !.entries = IF IsEmpty(p) THEN @ \ {r.code} ELSE @ \cup {r.code}]

-----------------------------------------------------------------------------
(* The handlers.  e is the event, r the order as the driver has it then. *)

Knows(x, o) == x.order[o] # Unknown

\* An order is over: its listener and its condition go with it.
\* (Slip: the condition stays.)
ForgetListener(x, o) == [x EXCEPT !.listener = @ \ {o}]

\* (Slip: the listener stays.)
ForgetCondition(x, o) == [x EXCEPT !.condition[o] = "none"]

Forget(x, o) == [x EXCEPT !.listener = @ \ {o}, !.condition[o] = "none"]

\* An order enters the book with what is left of it, and reserves its total.
Entrust(x, o, r, last) == Reserve([x EXCEPT !.order[o] = last], r, r.total)

HandleEntrust(x, e, r) == Entrust(x, e.id, r, r.total)

HandleDeal(x, e, r) ==
  IF ~Knows(x, e.id) THEN x
  ELSE CalculatePosition([x EXCEPT !.order[e.id] = r.last], r, e.volume)

HandleTrade(x, e) == Forget([x EXCEPT !.order[e.id] = Unknown], e.id)

\* (Slip: the order stays in the book.)
HandleCancelKeeps(x, e, r) ==
  Forget(IF ~Knows(x, e.id) THEN x ELSE Release(x, r, e.volume), e.id)

HandleCancel(x, e, r) ==
  Forget(IF ~Knows(x, e.id) THEN x
         ELSE [Release(x, r, e.volume) EXCEPT !.order[e.id] = Unknown], e.id)

\* A refused placement; one that was entrusted before leaves its volume behind.
HandleError(x, e) == Forget([x EXCEPT !.order[e.id] = Unknown], e.id)

Handle(x, e, r) ==
  CASE e.type = "OrderPlace"  -> HandleEntrust(x, e, r)
    [] e.type = "OrderDeal"   -> HandleDeal(x, e, r)
    [] e.type = "OrderTrade"  -> HandleTrade(x, e)
    [] e.type = "OrderCancel" -> HandleCancel(x, e, r)
    [] e.type = "OrderError"  -> HandleError(x, e)

\* A driver's handler delivers at most three events.
HandleAll(x, events, r) ==
  LET handle(y, n) == IF n <= Len(events) THEN Handle(y, events[n], r) ELSE y
  IN handle(handle(handle(x, 1), 2), 3)

-----------------------------------------------------------------------------
(* load_data, at the start of a service: the trader's live orders, with the
   volume they were placed for, and its positions.  Listeners and conditions
   are not touched. *)
LoadData(x, live, order, position, held) ==
  LET mine(c, d) == {o \in live : order[o].code = c /\ order[o].direction = d}
      placed(os) == SumFunctionOnSet([o \in Ids |-> order[o].total], os) % Modulus
  IN [x EXCEPT
       !.order = [o \in Ids |-> IF o \in live THEN order[o].last ELSE Unknown],
       !.entries = {order[o].code : o \in live} \cup held,
       !.position = [c \in Codes |->
         [postion |-> [b \in Buckets |-> [d \in Dirs |-> position[c][b][d].postion]],
          frozen  |-> [b \in Buckets |-> [d \in Dirs |->
             placed({o \in mine(c, d) : order[o].offset # "open"
                                        /\ BucketOf(order[o]) = b})]],
          pending |-> [d \in Dirs |->
             placed({o \in mine(c, d) : order[o].offset = "open"})]]]]
=============================================================================
