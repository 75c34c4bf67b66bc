-------------------------- MODULE TraderSimulator --------------------------
(***************************************************************************)
(* The back-test exchange, src/simulator/trader_simulator.cpp.  Strategies *)
(* place and cancel orders; every update() runs each instrument's current  *)
(* tick over that instrument's orders, freezing margin or position for the *)
(* new ones, dealing what the tick allows and telling the context of it    *)
(* through synchronous events.                                             *)
(*                                                                         *)
(* Grain.  One step is one handle_entrust: its events are delivered inside *)
(* it, and the strategy callbacks they run may cancel and place orders.    *)
(* Those calls touch nothing the rest of the handler reads, so they are    *)
(* steps of their own, enabled until the loop moves on (InCallback).       *)
(*                                                                         *)
(* Data.  _order_match[code] is a vector that only grows at its end and    *)
(* only shrinks in the sweep: it is the set of the instrument's orders     *)
(* that are not erased, visited in the order of their estid.  Prices are   *)
(* integers and money is counted in 1/MarginDen, so that margin and profit *)
(* are exact; unsigned volumes wrap at Modulus.                            *)
(***************************************************************************)
EXTENDS Integers, Sequences, FiniteSets, FiniteSetsExt, Functions

CONSTANTS
  Codes,          \* instruments, numbered from 1 in the order of the std::map
  Contracts,      \* those the contract file knows
  Distinct,       \* those of SHFE and INE (code_t::is_distinct)
  Ids,            \* 1..n: the estids, in the order make_estid hands them out
  Volumes,        \* volumes an order may ask for
  MaxVolume,      \* none is larger
  Prices,         \* limit prices; 0 asks for the current price
  Offsets, Directions, Flags, \* those the strategies use
  Quotes,         \* [price, bids, asks]: what a tick may show
  Increments,     \* volume the market may trade between two ticks
  MaxDayVolume,   \* bound: cumulative volume of an instrument in a day
  MaxDays,        \* bound: trading days
  InitialCapital, Multiple, MarginNum, MarginDen,
  Fee,            \* offset -> service charge for one lot
  Modulus,        \* the unsigned integers are those below it: 2^32
  CancelsEnded    \* do strategies cancel an order they were told has ended?

ASSUME CodesAssumption ==
  /\ Codes \subseteq Nat \ {0} /\ Contracts \subseteq Codes /\ Distinct \subseteq Codes
ASSUME IdsAssumption == Ids \subseteq Nat \ {0}
ASSUME FiniteAssumption == IsFiniteSet(Codes) /\ IsFiniteSet(Ids)
ASSUME OrderAssumption ==
  /\ MaxVolume \in Nat \ {0} /\ Volumes \subseteq 1..MaxVolume
  /\ Prices \subseteq Nat
  /\ Offsets \subseteq {"open", "close", "clstd"}
  /\ Directions \subseteq {"long", "short"}
  /\ Flags \subseteq {"NOR", "FAK", "FOK"}
ASSUME MarketAssumption ==
  /\ \A q \in Quotes : /\ q.price \in Nat
                        /\ DOMAIN q.bids \subseteq Nat \ {0}
                        /\ DOMAIN q.asks \subseteq Nat \ {0}
                        /\ q.bids \in [DOMAIN q.bids -> Nat]
                        /\ q.asks \in [DOMAIN q.asks -> Nat]
  /\ Increments \subseteq Nat
  /\ MaxDayVolume \in Nat /\ MaxDays \in Nat
ASSUME MoneyAssumption ==
  /\ InitialCapital \in Nat
  /\ Fee \in [{"open", "close", "clstd"} -> Nat]
  /\ Multiple \in Nat \ {0} /\ MarginNum \in Nat \ {0} /\ MarginDen \in Nat \ {0}
ASSUME ModulusAssumption == Modulus \in Nat \ {0}
ASSUME CancelsEndedAssumption == CancelsEnded \in BOOLEAN

Dirs    == {"long", "short"}
Buckets == {"today", "yestoday"}
States  == {"erased", "INVALID", "IN_MATCH", "CANELED", "DELETE"}

VARIABLES
  order,      \* _order_info: Ids -> order_info
  state,      \* order_match::state, "erased" when the order is in no container
  seat,       \* order_match::queue_seat
  account,    \* _account_info
  position,   \* _position_info: Codes -> Buckets -> Dirs -> position_item
  held,       \* the codes that have an entry in _position_info
  tick,       \* _current_tick_info, NoTick where there is no entry
  lastFrame,  \* _last_frame_volume, NoVolume where there is no entry
  loop,       \* where update() is: the codes and the orders still to visit
  fired,      \* the events the last step of update() delivered
  day,        \* how many trading days have begun
  \* The market and the listener, outside the simulator:
  dayVolume,  \* Codes -> what the exchange traded today
  traded,     \* Codes -> what it traded since the instrument's last frame
  told        \* Ids -> what the events have told of the order

orderVars == <<order, state, seat>>
bookVars  == <<account, position, held>>
tickVars  == <<tick, lastFrame>>
envVars   == <<day, dayVolume, traded>>
vars == <<orderVars, bookVars, tickVars, loop, fired, told, envVars>>

NoTick   == [price |-> 0, bids |-> <<>>, asks |-> <<>>, volume |-> -1]
NoVolume == -1
NoOrder  == [code |-> 0, offset |-> "open", direction |-> "long", flag |-> "NOR",
             total |-> 0, last |-> 0, price |-> 0]
NoItem   == [postion |-> 0, price |-> 0, frozen |-> 0]
Idle     == [codes |-> {}, code |-> 0, todo |-> {}, volume |-> 0, cur |-> 0]

Wrap(n)   == n % Modulus
Signed(n) == IF 2 * n >= Modulus THEN n - Modulus ELSE n
Least(a, b) == IF a < b THEN a ELSE b
IsFirst(x, S) == \A y \in S : x <= y

-----------------------------------------------------------------------------
(* Orders *)

IsBuy(r) == (r.direction = "long") <=> (r.offset = "open")

BucketOf(r) == IF r.offset = "clstd" THEN "today" ELSE "yestoday"

Live == {o \in Ids : state[o] # "erased"}

\* The queue a new order joins: the quantity its side shows at its price.
QueueAhead(r, t) ==
  LET side == IF IsBuy(r) THEN t.bids ELSE t.asks
  IN IF r.price \in DOMAIN side THEN side[r.price] ELSE 0

\* tick_info::buy_price and sell_price: the best level, 0 for an empty side.
BuyPrice(t)  == IF DOMAIN t.bids = {} THEN 0 ELSE Max(DOMAIN t.bids)
SellPrice(t) == IF DOMAIN t.asks = {} THEN 0 ELSE Min(DOMAIN t.asks)

-----------------------------------------------------------------------------
(* Money and positions: a book is a record [account, position, held]. *)

Margin(v, p) == v * p * Multiple * MarginNum
Profit(r, v, from) ==
  (IF r.direction = "long" THEN r.price - from ELSE from - r.price)
     * v * Multiple * MarginDen

Book == [account |-> account, position |-> position, held |-> held]

Usable(item) == Wrap(item.postion - item.frozen)

\* frozen_deduction: the error it returns, and the book it leaves.
FreezeError(r) ==
  CASE r.code \notin Contracts -> "Failure"
    [] r.offset = "open" ->
         IF Margin(r.last, r.price) + account.frozen > account.money
         THEN "MarginNotEnough" ELSE "Success"
    [] OTHER ->
         IF r.code \notin held
            \/ Usable(position[r.code][BucketOf(r)][r.direction]) < r.last
         THEN "PositionNotEnough" ELSE "Success"

Freeze(b, r) ==
  IF r.offset = "open"
  THEN [b EXCEPT !.account.frozen = @ + Margin(r.last, r.price)]
  ELSE [b EXCEPT !.position[r.code][BucketOf(r)][r.direction].frozen = @ + r.last]

\* unfrozen_deduction: whether it succeeds, and the book it leaves.
\* (Slip: looks the position up before it asks whether the order opens one.)
CanUnfreezeHeld(b, r) == r.code \in Contracts /\ r.code \in b.held

CanUnfreeze(b, r) == r.code \in Contracts /\ (r.offset = "open" \/ r.code \in b.held)

\* (Slip: thaws what the order asked for, not what is left of it.)
UnfreezeTotal(b, r) ==
  IF r.offset = "open"
  THEN [b EXCEPT !.account.frozen = @ - Least(Margin(r.total, r.price), @)]
  ELSE [b EXCEPT !.position[r.code][BucketOf(r)][r.direction].frozen =
                    @ - Least(r.total, @)]

Unfreeze(b, r) ==
  IF r.offset = "open"
  THEN [b EXCEPT !.account.frozen = @ - Least(Margin(r.last, r.price), @)]
  ELSE [b EXCEPT !.position[r.code][BucketOf(r)][r.direction].frozen =
                    @ - Least(r.last, @)]

\* (Slip: takes the volume the order waits for, not the one just dealt.)
OpenLast(b, r, v) ==
  LET item == b.position[r.code]["today"][r.direction]
      sum  == item.postion + r.last
  IN [b EXCEPT
        !.position[r.code]["today"][r.direction] =
          [@ EXCEPT !.price = (item.postion * item.price + r.price * r.last) \div sum,
                    !.postion = sum],
        !.account.money = @ - v * Fee[r.offset],
        !.held = @ \cup {r.code}]

\* order_deal on an opening order: the position is only taken when the charge
\* can be paid, the deal is told either way.
Open(b, r, v) ==
  LET item == b.position[r.code]["today"][r.direction]
      sum  == item.postion + v
      paid == [b EXCEPT
        !.position[r.code]["today"][r.direction] =
          [@ EXCEPT !.price = (item.postion * item.price + r.price * v) \div sum,
                    !.postion = sum],
        !.account.money = @ - v * Fee[r.offset],
        !.held = @ \cup {r.code}]
  IN IF b.account.money >= v * Fee[r.offset] THEN paid
     ELSE [b EXCEPT !.held = @ \cup {r.code}]

\* order_deal on a closing order.  (Slip: the lots stay frozen.)
CloseKeepsFrozen(b, r, v) ==
  LET item == b.position[r.code][BucketOf(r)][r.direction]
  IN [b EXCEPT
        !.position[r.code][BucketOf(r)][r.direction].postion = @ - Least(v, @),
        !.account.money  = @ + Profit(r, v, item.price) - v * Fee[r.offset],
        !.account.frozen = @ - Margin(v, item.price)]

Close(b, r, v) ==
  LET item == b.position[r.code][BucketOf(r)][r.direction]
  IN [b EXCEPT
        !.position[r.code][BucketOf(r)][r.direction] =
          [item EXCEPT !.postion = item.postion - Least(v, item.postion),
                       !.frozen = item.frozen - Least(v, item.frozen)],
        !.account.money  = @ + Profit(r, v, item.price) - v * Fee[r.offset],
        !.account.frozen = @ - Margin(v, item.price)]

Dealt(b, r, v) ==
  CASE v = 0 -> b
    [] v > 0 /\ r.offset = "open" -> Open(b, r, v)
    [] OTHER -> Close(b, r, v)

-----------------------------------------------------------------------------
(* Matching: handle_buy and handle_sell decide a volume to deal, whether
   the rest is cancelled and where the order stands in the queue. *)

Crosses(r, t) == IF IsBuy(r) THEN r.price >= SellPrice(t) ELSE r.price <= BuyPrice(t)
Touches(r, t) == IF IsBuy(r) THEN r.price >= t.price ELSE r.price <= t.price

\* (Slip: deals what there is, as an ordinary order would.)
MatchFOKPartly(r, t, max, s) ==
  [deal |-> IF Crosses(r, t) THEN Least(r.last, max) ELSE 0, kill |-> FALSE, seat |-> s]

MatchFOK(r, t, max, s) ==
  LET full == r.last <= max /\ Crosses(r, t)
  IN [deal |-> IF full THEN r.last ELSE 0, kill |-> ~full, seat |-> s]

MatchFAK(r, t, max, s) ==
  LET deal == IF Crosses(r, t) THEN Least(r.last, max) ELSE 0
  IN [deal |-> deal,
      kill |-> ~Crosses(r, t) \/ Wrap((r.last - deal) - max) > 0,
      seat |-> s]

\* Where the queue stands after max lots.  (Slip: kept unsigned.)
NewSeatUnsigned(s, max) == Wrap(s - max)

NewSeat(s, max) == Signed(Wrap(s - max))

\* (Slip: the queue that is used up is left where it was counted to.)
MatchNORPassesZero(r, t, max, s) ==
  LET newSeat == NewSeat(s, max)
  IN CASE Crosses(r, t) -> [deal |-> Least(r.last, max), kill |-> FALSE, seat |-> s]
       [] ~Crosses(r, t) /\ Touches(r, t) /\ newSeat < 0 ->
            [deal |-> Least(r.last, -newSeat), kill |-> FALSE, seat |-> newSeat]
       [] OTHER -> [deal |-> 0, kill |-> FALSE, seat |-> s]

MatchNOR(r, t, max, s) ==
  LET newSeat == NewSeat(s, max)
  IN CASE Crosses(r, t) -> [deal |-> Least(r.last, max), kill |-> FALSE, seat |-> s]
       [] ~Crosses(r, t) /\ Touches(r, t) /\ newSeat < 0 ->
            [deal |-> Least(r.last, -newSeat), kill |-> FALSE, seat |-> 0]
       [] ~Crosses(r, t) /\ Touches(r, t) /\ newSeat >= 0 ->
            [deal |-> 0, kill |-> FALSE, seat |-> newSeat]
       [] OTHER -> [deal |-> 0, kill |-> FALSE, seat |-> s]

Match(r, t, max, s) ==
  CASE r.flag = "FOK" -> MatchFOK(r, t, max, s)
    [] r.flag = "FAK" -> MatchFAK(r, t, max, s)
    [] OTHER          -> MatchNOR(r, t, max, s)

-----------------------------------------------------------------------------
(* Events and what they tell a listener of an order *)

Event(type, o, v) == [type |-> type, id |-> o, volume |-> v]

\* An event that does not continue the life it is told of breaks it.
Hear(life, e) ==
  LET open == life.status \in {"placed", "entrusted"}
  IN CASE e.type = "OrderPlace" /\ life.status = "placed" ->
            [life EXCEPT !.status = "entrusted"]
       [] e.type = "OrderDeal" /\ life.status = "entrusted" /\ e.volume <= life.left ->
            [life EXCEPT !.left = @ - e.volume]
       [] e.type = "OrderTrade" /\ life.status = "entrusted" /\ life.left = 0 ->
            [life EXCEPT !.status = "traded"]
       [] e.type = "OrderCancel" /\ open /\ e.volume = life.left ->
            [life EXCEPT !.status = "canceled"]
       [] e.type = "OrderError" /\ life.status = "placed" ->
            [life EXCEPT !.status = "refused"]
       [] OTHER -> [life EXCEPT !.status = "broken"]

\* A handler delivers at most three events.
HearAll(life, events) ==
  LET hear(l, n) == IF n <= Len(events) THEN Hear(l, events[n]) ELSE l
  IN hear(hear(hear(life, 1), 2), 3)

-----------------------------------------------------------------------------
Init ==
  /\ order = [o \in Ids |-> NoOrder]
  /\ state = [o \in Ids |-> "erased"]
  /\ seat = [o \in Ids |-> 0]
  /\ account = [money |-> InitialCapital, frozen |-> 0]
  /\ position = [c \in Codes |-> [b \in Buckets |-> [d \in Dirs |-> NoItem]]]
  /\ held = {}
  /\ tick = [c \in Codes |-> NoTick]
  /\ lastFrame = [c \in Codes |-> NoVolume]
  /\ loop = Idle
  /\ fired = <<>>
  /\ day = 1
  /\ dayVolume = [c \in Codes |-> 0]
  /\ traded = [c \in Codes |-> 0]
  /\ told = [o \in Ids |-> [status |-> "none", left |-> 0]]

-----------------------------------------------------------------------------
(* Calls of the market and of the strategies *)

Quiet      == loop = Idle
InCallback == fired # <<>>

\* push_tick.  The exchange counts an instrument's volume from the start of
\* the day.
PushTick(c) ==
  /\ Quiet
  /\ \E q \in Quotes, inc \in Increments :
       /\ dayVolume[c] + inc <= MaxDayVolume
       /\ dayVolume' = [dayVolume EXCEPT ![c] = @ + inc]
       /\ traded' = [traded EXCEPT ![c] = @ + inc]
       /\ tick' = [tick EXCEPT ![c] = [price |-> q.price, bids |-> q.bids,
                                       asks |-> q.asks,
                                       volume |-> dayVolume[c] + inc]]
  /\ fired' = <<>>
  /\ UNCHANGED <<orderVars, bookVars, lastFrame, loop, told, day>>

\* place_order: the order waits, unmatched, for the next update.  A vector
\* that is being visited keeps the end it had when the visit began.
PlaceOrder(o) ==
  /\ Quiet \/ InCallback
  /\ told[o].status = "none"
  /\ \A p \in Ids : p < o => told[p].status # "none"
  /\ \E c \in Codes, off \in Offsets, d \in Directions, f \in Flags,
        v \in Volumes, p \in Prices :
       /\ order' = [order EXCEPT ![o] =
            [code |-> c, offset |-> off, direction |-> d, flag |-> f,
             total |-> v, last |-> v,
             price |-> IF p = 0 THEN tick[c].price ELSE p]]
       /\ told' = [told EXCEPT ![o] = [status |-> "placed", left |-> v]]
  /\ state' = [state EXCEPT ![o] = "INVALID"]
  /\ seat' = [seat EXCEPT ![o] = 0]
  /\ UNCHANGED <<bookVars, tickVars, loop, fired, envVars>>

\* What cancel_order does to the state of an order it finds.
Cancelable(o) == state[o] \notin {"erased", "INVALID"}

\* cancel_order, when it returns true.  The order being handled can only be
\* reached from the callback of a deal that did not end it: before that it is
\* OS_INVALID, and an end overwrites what the callback wrote.
CancelOrder(o) ==
  /\ \/ Quiet
     \/ /\ InCallback
        /\ o = loop.cur =>
             /\ state[o] = "IN_MATCH"
             /\ \E i \in 1..Len(fired) : fired[i].type = "OrderDeal"
  /\ CancelsEnded \/ told[o].status = "entrusted"
  /\ Cancelable(o)
  /\ state' = [state EXCEPT ![o] = "CANELED"]
  /\ UNCHANGED <<order, seat, bookVars, tickVars, loop, fired, told, envVars>>

\* crossday: every order that is in the match is cancelled, and on SHFE and
\* INE what is held from yesterday is merged into today's position.
Merged(item, from) ==
  LET sum == item.postion + from.postion
  IN IF from.postion = 0 THEN item
     ELSE [item EXCEPT !.price = (from.postion * from.price
                                  + item.postion * item.price) \div sum,
                       !.postion = sum]

Crossday ==
  /\ Quiet
  /\ day < MaxDays
  /\ day' = day + 1
  /\ dayVolume' = [c \in Codes |-> 0]
  /\ state' = [o \in Ids |-> IF Cancelable(o) THEN "CANELED" ELSE state[o]]
  /\ position' = [c \in Codes |->
       IF c \notin Distinct \cap held THEN position[c]
       ELSE [b \in Buckets |-> [d \in Dirs |->
               IF b = "today"
               THEN Merged(position[c]["today"][d], position[c]["yestoday"][d])
               ELSE [position[c]["yestoday"][d] EXCEPT !.postion = 0, !.frozen = 0]]]]
  /\ fired' = <<>>
  /\ UNCHANGED <<order, seat, account, held, tickVars, loop, told, traded>>

-----------------------------------------------------------------------------
(* update *)

\* The codes that have a tick, in the order of the map.
BeginUpdate ==
  /\ Quiet
  /\ \E c \in Codes : tick[c] # NoTick
  /\ loop' = [loop EXCEPT !.codes = {c \in Codes : tick[c] # NoTick}]
  /\ UNCHANGED <<orderVars, bookVars, tickVars, fired, told, envVars>>

\* How much was traded since the last frame.  (Slip: in all the day.)
FrameVolumeOfDay(c) == Wrap(tick[c].volume)

FrameVolume(c) ==
  IF lastFrame[c] = NoVolume THEN Wrap(tick[c].volume)
  ELSE Wrap(tick[c].volume - lastFrame[c])

\* The orders of a code the loop will visit.  (Slip: only those in the match.)
InMatchOf(c) == {o \in Live : order[o].code = c /\ state[o] # "INVALID"}

OrdersOf(c) == {o \in Live : order[o].code = c}

\* match_entrust begins.
MatchEntrust ==
  /\ loop.code = 0 /\ loop.codes # {}
  /\ \E c \in loop.codes :
       /\ IsFirst(c, loop.codes)
       /\ loop' = [loop EXCEPT !.code = c,
                               !.todo = OrdersOf(c),
                               !.volume = FrameVolume(c)]
  /\ fired' = <<>>
  /\ UNCHANGED <<orderVars, bookVars, tickVars, told, envVars>>

\* handle_entrust of one order leaves a book, a state, a seat and events.
Leave(o, b, r, s, q, events) ==
  /\ account' = b.account /\ position' = b.position /\ held' = b.held
  /\ order' = [order EXCEPT ![o] = r]
  /\ state' = [state EXCEPT ![o] = s]
  /\ seat' = [seat EXCEPT ![o] = q]
  /\ fired' = events
  /\ told' = [told EXCEPT ![o] = HearAll(@, events)]

\* The order enters the match if it is new, and is matched.
MatchOrder(o) ==
  LET r     == order[o]
      t     == tick[loop.code]
      new   == state[o] = "INVALID"
      begin == IF new THEN Freeze(Book, r) ELSE Book
      m     == Match(r, t, loop.volume, IF new THEN QueueAhead(r, t) ELSE seat[o])
      rest  == [r EXCEPT !.last = @ - m.deal]
      dealt == Dealt(begin, r, m.deal)
      full  == m.deal > 0 /\ rest.last = 0
      kill  == m.kill /\ rest.last > 0
  IN Leave(o, IF kill THEN Unfreeze(dealt, rest) ELSE dealt, rest,
           IF full \/ kill THEN "DELETE" ELSE "IN_MATCH", m.seat,
           (IF new THEN <<Event("OrderPlace", o, r.total)>> ELSE <<>>)
           \o (IF m.deal > 0 THEN <<Event("OrderDeal", o, m.deal)>> ELSE <<>>)
           \o (IF full THEN <<Event("OrderTrade", o, r.total)>> ELSE <<>>)
           \o (IF kill THEN <<Event("OrderCancel", o, rest.last)>> ELSE <<>>))

\* (Slip: the cancelled order is matched once more.)
HandleCanceledLate(o) == state[o] = "CANELED" /\ MatchOrder(o)

\* order_cancel: nothing happens to an order with no volume left, or whose
\* deduction cannot be undone.
HandleCanceled(o) ==
  LET r == order[o]
      ok == r.last > 0 /\ CanUnfreeze(Book, r)
  IN /\ state[o] = "CANELED"
     /\ Leave(o, IF ok THEN Unfreeze(Book, r) ELSE Book, r,
              IF ok THEN "DELETE" ELSE "CANELED", seat[o],
              IF ok THEN <<Event("OrderCancel", o, r.last)>> ELSE <<>>)

\* (Slip: the refused order stays in the vector.)
HandleRefusedAgain(o) ==
  /\ state[o] = "INVALID"
  /\ FreezeError(order[o]) # "Success"
  /\ Leave(o, Book, order[o], "INVALID", seat[o], <<Event("OrderError", o, 0)>>)

\* order_error: the deduction is refused.
HandleRefused(o) ==
  /\ state[o] = "INVALID"
  /\ FreezeError(order[o]) # "Success"
  /\ Leave(o, Book, order[o], "DELETE", seat[o], <<Event("OrderError", o, 0)>>)

HandleMatch(o) ==
  /\ state[o] \in {"INVALID", "IN_MATCH"}
  /\ state[o] = "INVALID" => FreezeError(order[o]) = "Success"
  /\ MatchOrder(o)

HandleEntrust ==
  /\ loop.code # 0
  /\ \E o \in loop.todo :
       /\ IsFirst(o, loop.todo)
       /\ HandleCanceled(o) \/ HandleRefused(o) \/ HandleMatch(o)
       /\ loop' = [loop EXCEPT !.todo = @ \ {o}, !.cur = o]
  /\ UNCHANGED <<tickVars, envVars>>

\* match_entrust ends: the orders that are done are erased, whatever their
\* code, and the frame's volume is remembered.
Sweep ==
  /\ loop.code # 0 /\ loop.todo = {}
  /\ state' = [o \in Ids |-> IF state[o] = "DELETE" THEN "erased" ELSE state[o]]
  /\ lastFrame' = [lastFrame EXCEPT ![loop.code] = tick[loop.code].volume]
  /\ traded' = [traded EXCEPT ![loop.code] = 0]
  /\ loop' = [Idle EXCEPT !.codes = loop.codes \ {loop.code}]
  /\ fired' = <<>>
  /\ UNCHANGED <<order, seat, bookVars, tick, told, day, dayVolume>>

Update == BeginUpdate \/ MatchEntrust \/ HandleEntrust \/ Sweep

Next ==
  \/ \E c \in Codes : PushTick(c)
  \/ \E o \in Ids : PlaceOrder(o) \/ CancelOrder(o)
  \/ Crossday
  \/ Update

\* The real-time thread runs update() again and again.
Spec == Init /\ [][Next]_vars /\ WF_vars(Update)

-----------------------------------------------------------------------------
(* Properties *)

OrderInfos ==
  [code : Codes \cup {0}, offset : {"open", "close", "clstd"}, direction : Dirs,
   flag : {"NOR", "FAK", "FOK"}, total : Nat, last : Nat, price : Nat]

\* Every variable has the type the class declares for it.
TypeOK ==
  /\ order \in [Ids -> OrderInfos]
  /\ state \in [Ids -> States]
  /\ seat \in [Ids -> Nat]
  /\ account \in [money : Int, frozen : Int]
  /\ position \in [Codes -> [Buckets -> [Dirs ->
                     [postion : Nat, price : Nat, frozen : Nat]]]]
  /\ held \subseteq Codes
  /\ lastFrame \in [Codes -> Nat \cup {NoVolume}]
  /\ \A c \in Codes : tick[c] # NoTick => tick[c].volume \in Nat
  /\ loop \in [codes : SUBSET Codes, code : Codes \cup {0}, todo : SUBSET Ids,
               volume : Nat, cur : Ids \cup {0}]
  /\ day \in 1..(1 + MaxDays)
  /\ dayVolume \in [Codes -> 0..MaxDayVolume] /\ traded \in [Codes -> Nat]

\* In the match, and not reported as ended.
Resting(o) == state[o] \in {"IN_MATCH", "CANELED"}

CloseOrders(c, b, d) ==
  {o \in Ids : /\ Resting(o) /\ order[o].offset # "open" /\ order[o].code = c
               /\ BucketOf(order[o]) = b /\ order[o].direction = d}

\* frozen_deduction, order_deal and unfrozen_deduction keep a bucket's frozen
\* lots equal to what the closing orders in the match still wait for, and so
\* no lot is promised to two of them.
FrozenBacksCloses ==
  \A c \in Codes, b \in Buckets, d \in Dirs :
    LET item == position[c][b][d]
    IN /\ item.frozen = SumFunctionOnSet([o \in Ids |-> order[o].last], CloseOrders(c, b, d))
       /\ item.frozen <= item.postion

\* The frozen money is the margin of the opening orders in the match and of
\* the positions: the check that update() carries, commented out.
MarginBacked ==
  account.frozen =
      SumFunctionOnSet([o \in Ids |-> Margin(order[o].last, order[o].price)],
                       {o \in Ids : Resting(o) /\ order[o].offset = "open"})
    + SumFunction([cell \in Codes \X Buckets \X Dirs |->
                     LET item == position[cell[1]][cell[2]][cell[3]]
                     IN Margin(item.postion, item.price)])

\* What a listener was told was dealt, opened less closed, is the position
\* the exchange holds: deals, merges and cancels never drift apart.
PositionReconciles ==
  \A c \in Codes, d \in Dirs :
    LET dealt == [o \in Ids |-> order[o].total - told[o].left]
        mine == {o \in Ids : /\ told[o].status # "none"
                             /\ order[o].code = c /\ order[o].direction = d}
    IN position[c]["today"][d].postion + position[c]["yestoday"][d].postion
       = SumFunctionOnSet(dealt, {o \in mine : order[o].offset = "open"})
         - SumFunctionOnSet(dealt, {o \in mine : order[o].offset # "open"})

\* A FOK order is dealt in full or not at all, and never waits for a second
\* frame (handle_buy and handle_sell on OF_FOK).
FokAllOrNothing ==
  \A o \in Ids : order[o].flag = "FOK" =>
    /\ Quiet => state[o] \in {"erased", "INVALID"}
    /\ told[o].left \in {0, order[o].total}

\* A FAK order never waits for a second frame either (define_types.hpp on
\* OF_FAK): what its first frame does not deal is cancelled at once.
FakNeverRests ==
  \A o \in Ids : order[o].flag = "FAK" /\ Quiet => state[o] \in {"erased", "INVALID"}

\* Once cancel_order returned true the order deals no more: the strategy may
\* count the volume it read as final.
NoDealAfterCancel ==
  [][\A o \in Ids : state[o] = "CANELED" => order'[o].last = order[o].last]_vars

\* A frame is matched with the volume the exchange traded since the frame
\* before it (trader_simulator.h on _last_frame_volume).
FrameVolumeIsTraded == loop.code # 0 => loop.volume = traded[loop.code]

\* While an order waits, the queue before it only gets shorter.
SeatOnlyShrinks ==
  [][\A o \in Ids : state[o] = "IN_MATCH" => seat'[o] <= seat[o]]_vars

\* A cancel that cancel_order accepted is answered with the order's end.
CancelsComplete ==
  \A o \in Ids : state[o] = "CANELED" ~> told[o].status \in {"canceled", "traded"}

\* An order for an instrument that has a tick is answered: it enters the match
\* or is refused, however many orders and cancels come meanwhile.
OrdersAnswered ==
  \A o \in Ids : (state[o] = "INVALID" /\ tick[order[o].code] # NoTick)
                   ~> state[o] # "INVALID"

\* What the events tell is a life the trader interface promises.
Lifecycle == INSTANCE OrderLifecycle WITH
  status <- [o \in Ids |-> told[o].status],
  left   <- [o \in Ids |-> told[o].left]

KeepsLifecycle == Lifecycle!Spec
=============================================================================
