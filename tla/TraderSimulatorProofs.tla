----------------------- MODULE TraderSimulatorProofs -----------------------
(***************************************************************************)
(* Proofs about TraderSimulator, for every value of its constants: the     *)
(* type invariant, the promise of cancel_order, and that the simulator     *)
(* implements OrderLifecycle, as long as strategies do not cancel what was *)
(* told to have ended; and about its books: which lots and how much money  *)
(* are frozen, what the positions add up to, and with what volume a frame  *)
(* is matched.                                                             *)
(***************************************************************************)
EXTENDS TraderSimulator, SumProofs, SequenceTheorems, TLAPS

Ticks == {NoTick} \cup {[price |-> q.price, bids |-> q.bids, asks |-> q.asks,
                         volume |-> n] : q \in Quotes, n \in Nat}

Orders == [code : Codes, offset : {"open", "close", "clstd"}, direction : Dirs,
           flag : {"NOR", "FAK", "FOK"}, total : Nat, last : Nat, price : Nat]

Items == [postion : Nat, price : Nat, frozen : Nat]

Positions == [Codes -> [Buckets -> [Dirs -> Items]]]

Accounts == [money : Int, frozen : Int]

Books == [account : Accounts, position : Positions, held : SUBSET Codes]

IsLife(l) == l = [status |-> l.status, left |-> l.left]

\* What a type-correct state needs besides: ticks come from Quotes, the orders
\* in a container have a code and were placed, and update() is always at an
\* instrument that has a tick, with live orders of it to visit.
IInv ==
  /\ TypeOK
  /\ tick \in [Codes -> Ticks]
  /\ told = [o \in Ids |-> told[o]]
  /\ \A o \in Ids : IsLife(told[o])
  /\ \A o \in Ids : state[o] # "erased" => /\ told[o].status # "none"
                                           /\ order[o] \in Orders
  /\ \A c \in loop.codes : tick[c] # NoTick
  /\ loop.code # 0 => tick[loop.code] # NoTick
  /\ loop.todo \subseteq Live
  /\ \A o \in loop.todo : order[o].code = loop.code

-----------------------------------------------------------------------------
(* Arithmetic *)

LEMMA DivNat == ASSUME NEW a \in Nat, NEW b \in Nat \ {0} PROVE a \div b \in Nat
OBVIOUS

LEMMA MulInt == ASSUME NEW a \in Int, NEW b \in Int PROVE a * b \in Int
OBVIOUS

LEMMA MulNat == ASSUME NEW a \in Nat, NEW b \in Nat PROVE a * b \in Nat
OBVIOUS

LEMMA WrapNat == ASSUME NEW n \in Int PROVE Wrap(n) \in Nat
BY ModulusAssumption DEF Wrap

LEMMA SignedInt == ASSUME NEW n \in Nat PROVE Signed(n) \in Int
BY ModulusAssumption DEF Signed

LEMMA MarginNat == ASSUME NEW v \in Nat, NEW p \in Nat PROVE Margin(v, p) \in Nat
<1>1. v * p \in Nat
  BY MulNat
<1>2. v * p * Multiple \in Nat
  BY <1>1, MulNat, MoneyAssumption
<1> QED
  BY <1>2, MulNat, MoneyAssumption DEF Margin

LEMMA ProfitInt ==
  ASSUME NEW r \in Orders, NEW v \in Nat, NEW from \in Nat
  PROVE  Profit(r, v, from) \in Int
<1> DEFINE gain == IF r.direction = "long" THEN r.price - from ELSE from - r.price
<1>1. gain \in Int
  BY DEF Orders
<1>2. gain * v \in Int
  BY <1>1, MulInt
<1>3. gain * v * Multiple \in Int
  BY <1>2, MulInt, MoneyAssumption
<1>4. gain * v * Multiple * MarginDen \in Int
  BY <1>3, MulInt, MoneyAssumption
<1> QED
  BY <1>4 DEF Profit

-----------------------------------------------------------------------------
(* The books *)

LEMMA SetItem ==
  ASSUME NEW p \in Positions, NEW i \in Items,
         NEW c \in Codes, NEW k \in Buckets, NEW d \in Dirs
  PROVE  [p EXCEPT ![c][k][d] = i] \in Positions
<1>1. [p[c][k] EXCEPT ![d] = i] \in [Dirs -> Items]
  BY DEF Positions
<1>2. [p[c] EXCEPT ![k] = [p[c][k] EXCEPT ![d] = i]] \in [Buckets -> [Dirs -> Items]]
  BY <1>1 DEF Positions
<1> QED
  BY <1>2 DEF Positions

\* An account or a bucket's frozen lots change, and a book stays a book.
LEMMA SetFrozen ==
  ASSUME NEW b \in Books, NEW n \in Nat,
         NEW c \in Codes, NEW k \in Buckets, NEW d \in Dirs
  PROVE  [b EXCEPT !.position[c][k][d].frozen = n] \in Books
<1> DEFINE i == [b.position[c][k][d] EXCEPT !.frozen = n]
<1>1. i \in Items
  BY DEF Books, Positions, Items
<1>2. [b.position EXCEPT ![c][k][d] = i] \in Positions
  BY <1>1, SetItem DEF Books
<1>3. [b EXCEPT !.position = [b.position EXCEPT ![c][k][d] = i]] \in Books
  BY <1>2 DEF Books
<1> QED
  BY <1>3

LEMMA SetAccount ==
  ASSUME NEW b \in Books, NEW n \in Int PROVE [b EXCEPT !.account.frozen = n] \in Books
<1>1. [b.account EXCEPT !.frozen = n] \in Accounts
  BY DEF Books, Accounts
<1>2. [b EXCEPT !.account = [b.account EXCEPT !.frozen = n]] \in Books
  BY <1>1 DEF Books
<1> QED
  BY <1>2

\* Every field of an order that the books are indexed with.
LEMMA OrderKeys ==
  ASSUME NEW r \in Orders
  PROVE  /\ r.code \in Codes /\ BucketOf(r) \in Buckets /\ r.direction \in Dirs
         /\ r.last \in Nat /\ r.price \in Nat /\ Margin(r.last, r.price) \in Nat
         /\ \A v \in Nat : v * Fee[r.offset] \in Int
<1>1. r.last \in Nat /\ r.price \in Nat
  BY DEF Orders
<1>2. Fee[r.offset] \in Nat
  BY MoneyAssumption DEF Orders
<1>3. ASSUME NEW v \in Nat PROVE v * Fee[r.offset] \in Int
  BY <1>2, MulNat
<1>4. Margin(r.last, r.price) \in Nat
  BY <1>1, MarginNat
<1>5. r.code \in Codes /\ BucketOf(r) \in Buckets /\ r.direction \in Dirs
  BY DEF Orders, BucketOf, Buckets
<1> QED
  BY <1>1, <1>3, <1>4, <1>5

LEMMA ItemTyped ==
  ASSUME NEW b \in Books, NEW c \in Codes, NEW k \in Buckets, NEW d \in Dirs
  PROVE  b.position[c][k][d] \in Items
BY DEF Books, Positions

LEMMA FreezeTyped ==
  ASSUME NEW b \in Books, NEW r \in Orders PROVE Freeze(b, r) \in Books
<1> DEFINE n == b.position[r.code][BucketOf(r)][r.direction].frozen + r.last
<1>1. n \in Nat
  BY OrderKeys, ItemTyped DEF Items
<1>2. b.account.frozen + Margin(r.last, r.price) \in Int
  BY OrderKeys DEF Books, Accounts
<1>3. [b EXCEPT !.position[r.code][BucketOf(r)][r.direction].frozen = n] \in Books
  BY <1>1, OrderKeys, SetFrozen
<1>4. [b EXCEPT !.account.frozen = b.account.frozen + Margin(r.last, r.price)] \in Books
  BY <1>2, SetAccount
<1> QED
  BY <1>3, <1>4 DEF Freeze

LEMMA UnfreezeTyped ==
  ASSUME NEW b \in Books, NEW r \in Orders PROVE Unfreeze(b, r) \in Books
<1> DEFINE was  == b.position[r.code][BucketOf(r)][r.direction].frozen
           n    == was - Least(r.last, was)
           m    == b.account.frozen - Least(Margin(r.last, r.price), b.account.frozen)
<1>1. was \in Nat
  BY OrderKeys, ItemTyped DEF Items
<1>2. n \in Nat
  BY SMTT(30), <1>1, OrderKeys DEF Least
<1>3. m \in Int
  BY OrderKeys DEF Books, Accounts, Least
<1>4. [b EXCEPT !.position[r.code][BucketOf(r)][r.direction].frozen = n] \in Books
  BY <1>2, OrderKeys, SetFrozen
<1>5. [b EXCEPT !.account.frozen = m] \in Books
  BY <1>3, SetAccount
<1> QED
  BY <1>4, <1>5 DEF Unfreeze

LEMMA OpenTyped ==
  ASSUME NEW b \in Books, NEW r \in Orders, NEW v \in Nat \ {0}
  PROVE  Open(b, r, v) \in Books
<1> DEFINE item == b.position[r.code]["today"][r.direction]
           sum  == item.postion + v
           avg  == (item.postion * item.price + r.price * v) \div sum
           new  == [item EXCEPT !.price = avg, !.postion = sum]
           left == b.account.money - v * Fee[r.offset]
<1>1. item \in Items
  BY OrderKeys, ItemTyped DEF Buckets
<1>2. /\ item.postion * item.price \in Nat
      /\ r.price * v \in Nat
      /\ sum \in Nat \ {0}
  BY <1>1, MulNat, OrderKeys DEF Items
<1>3. avg \in Nat
  BY SMTT(30), <1>2, DivNat
<1>4. new \in Items
  BY <1>1, <1>2, <1>3 DEF Items
<1>5. left \in Int
  BY OrderKeys DEF Books, Accounts
<1> HIDE DEF item, new, left
<1>6. [b.position EXCEPT ![r.code]["today"][r.direction] = new] \in Positions
  BY <1>4, SetItem, OrderKeys DEF Books, Buckets
<1>7. [b.account EXCEPT !.money = left] \in Accounts
  BY <1>5 DEF Books, Accounts
<1>8. [b EXCEPT !.position = [b.position EXCEPT ![r.code]["today"][r.direction] = new],
                !.account = [b.account EXCEPT !.money = left],
                !.held = @ \cup {r.code}] \in Books
  BY <1>6, <1>7, OrderKeys DEF Books
<1>9. [b EXCEPT !.held = @ \cup {r.code}] \in Books
  BY OrderKeys DEF Books
<1> QED
  BY <1>8, <1>9 DEF Open, new, left, item

LEMMA SetBook ==
  ASSUME NEW b \in Books, NEW i \in Items, NEW m \in Int, NEW n \in Int,
         NEW c \in Codes, NEW k \in Buckets, NEW d \in Dirs
  PROVE  [b EXCEPT !.position[c][k][d] = i, !.account.money = m,
                   !.account.frozen = n] \in Books
<1>1. [b.position EXCEPT ![c][k][d] = i] \in Positions
  BY SetItem DEF Books
<1>2. [b.account EXCEPT !.money = m, !.frozen = n] \in Accounts
  BY DEF Books, Accounts
<1>3. [b EXCEPT !.position = [b.position EXCEPT ![c][k][d] = i],
                !.account = [b.account EXCEPT !.money = m, !.frozen = n]] \in Books
  BY <1>1, <1>2 DEF Books
<1>4. b.account \in Accounts
  BY DEF Books
<1> QED
  BY <1>3, <1>4 DEF Accounts

LEMMA CloseTyped ==
  ASSUME NEW b \in Books, NEW r \in Orders, NEW v \in Nat
  PROVE  Close(b, r, v) \in Books
<1> DEFINE item  == b.position[r.code][BucketOf(r)][r.direction]
           new   == [item EXCEPT !.postion = item.postion - Least(v, item.postion),
                                 !.frozen = item.frozen - Least(v, item.frozen)]
           money == b.account.money + Profit(r, v, item.price) - v * Fee[r.offset]
           froze == b.account.frozen - Margin(v, item.price)
<1>1. item \in Items
  BY OrderKeys, ItemTyped
<1> HIDE DEF item
<1>2. item.price \in Nat /\ item.postion \in Nat /\ item.frozen \in Nat
  BY <1>1 DEF Items
<1>3. Profit(r, v, item.price) \in Int
  BY <1>2, ProfitInt
<1>4. Margin(v, item.price) \in Nat
  BY <1>2, MarginNat
<1>5. new \in Items
  <2>1. item.postion - Least(v, item.postion) \in Nat
    BY <1>2 DEF Least
  <2>2. item.frozen - Least(v, item.frozen) \in Nat
    BY <1>2 DEF Least
  <2> QED
    BY <1>1, <2>1, <2>2 DEF Items
<1>6. money \in Int /\ froze \in Int
  BY <1>3, <1>4, OrderKeys DEF Books, Accounts
<1> HIDE DEF new, money, froze
<1>7. [b EXCEPT !.position[r.code][BucketOf(r)][r.direction] = new,
                !.account.money = money, !.account.frozen = froze] \in Books
  BY <1>5, <1>6, SetBook, OrderKeys
<1> QED
  BY <1>7 DEF Close, new, money, froze, item

LEMMA DealtTyped ==
  ASSUME NEW b \in Books, NEW r \in Orders, NEW v \in Nat
  PROVE  Dealt(b, r, v) \in Books
BY OpenTyped, CloseTyped DEF Dealt

-----------------------------------------------------------------------------
(* Matching: a match deals no more than the order waits for. *)

Matches(r) == [deal : 0..r.last, kill : BOOLEAN, seat : Nat]

LEMMA NewSeatInt == ASSUME NEW s \in Nat, NEW max \in Nat PROVE NewSeat(s, max) \in Int
BY WrapNat, SignedInt DEF NewSeat

LEMMA MatchTyped ==
  ASSUME NEW r \in Orders, NEW t, NEW max \in Nat, NEW s \in Nat
  PROVE  Match(r, t, max, s) \in Matches(r)
<1> r.last \in Nat
  BY DEF Orders
<1>1. MatchFOK(r, t, max, s) \in Matches(r)
  BY DEF MatchFOK, Matches, Crosses
<1>2. MatchFAK(r, t, max, s) \in Matches(r)
  BY DEF MatchFAK, Matches, Least, Crosses
<1>3. MatchNOR(r, t, max, s) \in Matches(r)
  BY NewSeatInt DEF MatchNOR, Matches, Least
<1> QED
  BY <1>1, <1>2, <1>3 DEF Match

-----------------------------------------------------------------------------
(* What is told of an order *)

LEMMA HearLife ==
  ASSUME NEW l, IsLife(l), l.status # "none", NEW e
  PROVE  IsLife(Hear(l, e)) /\ Hear(l, e).status # "none"
BY DEF IsLife, Hear

LEMMA HearAllLife ==
  ASSUME NEW l, IsLife(l), l.status # "none", NEW events
  PROVE  IsLife(HearAll(l, events)) /\ HearAll(l, events).status # "none"
<1> DEFINE hear(k, n) == IF n <= Len(events) THEN Hear(k, events[n]) ELSE k
<1>1. ASSUME NEW k, IsLife(k), k.status # "none", NEW n
      PROVE  IsLife(hear(k, n)) /\ hear(k, n).status # "none"
  BY <1>1, HearLife
<1> HIDE DEF hear
<1>2. IsLife(hear(hear(hear(l, 1), 2), 3)) /\ hear(hear(hear(l, 1), 2), 3).status # "none"
  BY <1>1
<1> QED
  BY <1>2 DEF HearAll, hear

-----------------------------------------------------------------------------
(* The initial state and the calls from outside *)

LEMMA InitIInv == Init => IInv
<1> SUFFICES ASSUME Init PROVE IInv
  OBVIOUS
<1>1. order \in [Ids -> OrderInfos] /\ account \in Accounts
  BY MoneyAssumption DEF Init, OrderInfos, NoOrder, Dirs, Accounts
<1>2. position \in Positions
  BY DEF Init, Positions, Items, NoItem
<1>3. TypeOK
  BY <1>1, <1>2, MarketAssumption
  DEF Init, TypeOK, Accounts, Positions, Items, States, Idle, NoVolume
<1>4. tick \in [Codes -> Ticks]
  BY DEF Init, Ticks
<1> QED
  BY <1>3, <1>4 DEF Init, IInv, IsLife, Idle, Live

LEMMA PushTickIInv ==
  ASSUME IInv, NEW c \in Codes, PushTick(c) PROVE IInv'
<1>1. PICK q \in Quotes, inc \in Increments :
        /\ dayVolume[c] + inc <= MaxDayVolume
        /\ dayVolume' = [dayVolume EXCEPT ![c] = @ + inc]
        /\ traded' = [traded EXCEPT ![c] = @ + inc]
        /\ tick' = [tick EXCEPT ![c] = [price |-> q.price, bids |-> q.bids,
                                        asks |-> q.asks,
                                        volume |-> dayVolume[c] + inc]]
  BY DEF PushTick
<1>2. inc \in Nat /\ dayVolume[c] + inc \in 0..MaxDayVolume
  BY <1>1, MarketAssumption DEF IInv, TypeOK
<1>3. tick' \in [Codes -> Ticks]
  BY <1>1, <1>2 DEF IInv, Ticks
<1>4. \A d \in Codes : tick'[d] # NoTick => tick'[d].volume \in Nat
  BY <1>1, <1>2 DEF IInv, TypeOK
<1>5. TypeOK'
  BY <1>1, <1>2, <1>4 DEF IInv, TypeOK, PushTick, orderVars, bookVars
<1>6. tick'[c] # NoTick
  BY <1>1, <1>2 DEF IInv, NoTick
<1> QED
  BY <1>1, <1>3, <1>5, <1>6 DEF IInv, PushTick, orderVars, Live, Quiet, Idle

LEMMA PlaceOrderIInv ==
  ASSUME IInv, NEW o \in Ids, PlaceOrder(o) PROVE IInv'
<1>1. PICK c \in Codes, off \in Offsets, d \in Directions, f \in Flags,
           v \in Volumes, p \in Prices :
        /\ order' = [order EXCEPT ![o] =
             [code |-> c, offset |-> off, direction |-> d, flag |-> f,
              total |-> v, last |-> v,
              price |-> IF p = 0 THEN tick[c].price ELSE p]]
        /\ told' = [told EXCEPT ![o] = [status |-> "placed", left |-> v]]
  BY DEF PlaceOrder
<1>2. tick[c].price \in Nat
  BY MarketAssumption DEF IInv, Ticks, NoTick
<1>3. order'[o] \in Orders
  BY <1>1, <1>2, OrderAssumption DEF IInv, TypeOK, Orders, Dirs
<1>4. Orders \subseteq OrderInfos
  BY DEF Orders, OrderInfos
<1>5. order' \in [Ids -> OrderInfos]
  BY <1>1, <1>3, <1>4 DEF IInv, TypeOK
<1>6. state' \in [Ids -> States] /\ seat' \in [Ids -> Nat]
  BY DEF IInv, TypeOK, PlaceOrder, States
<1>7. TypeOK'
  BY <1>5, <1>6 DEF IInv, TypeOK, PlaceOrder, bookVars, tickVars, envVars
<1>8. o \notin Live
  BY DEF PlaceOrder, IInv, Live
<1>9. told' = [q \in Ids |-> told'[q]] /\ \A q \in Ids : IsLife(told'[q])
  BY <1>1 DEF IInv, IsLife
<1> QED
  BY <1>1, <1>3, <1>7, <1>8, <1>9
  DEF IInv, TypeOK, PlaceOrder, bookVars, tickVars, envVars, Live

LEMMA CancelOrderIInv ==
  ASSUME IInv, NEW o \in Ids, CancelOrder(o) PROVE IInv'
<1>1. state' = [state EXCEPT ![o] = "CANELED"] /\ state[o] # "erased"
  BY DEF CancelOrder, Cancelable
<1>2. TypeOK'
  BY <1>1 DEF IInv, TypeOK, CancelOrder, bookVars, tickVars, envVars, States
<1> QED
  BY <1>1, <1>2 DEF IInv, TypeOK, CancelOrder, bookVars, tickVars, envVars, Live

LEMMA MergedTyped ==
  ASSUME NEW item \in Items, NEW from \in Items PROVE Merged(item, from) \in Items
<1> DEFINE sum == item.postion + from.postion
           avg == (from.postion * from.price + item.postion * item.price) \div sum
<1>1. CASE from.postion = 0
  BY <1>1 DEF Merged
<1>2. CASE from.postion # 0
  <2>1. /\ from.postion * from.price \in Nat
        /\ item.postion * item.price \in Nat
        /\ sum \in Nat \ {0}
    BY <1>2, MulNat DEF Items
  <2>2. avg \in Nat
    BY <2>1, DivNat
  <2>3. [item EXCEPT !.price = avg, !.postion = sum] \in Items
    BY <2>1, <2>2 DEF Items
  <2> QED
    BY <1>2, <2>3 DEF Merged
<1> QED
  BY <1>1, <1>2

LEMMA CrossdayIInv == ASSUME IInv, Crossday PROVE IInv'
<1> DEFINE merged(c) ==
      [b \in Buckets |-> [d \in Dirs |->
         IF b = "today"
         THEN Merged(position[c]["today"][d], position[c]["yestoday"][d])
         ELSE [position[c]["yestoday"][d] EXCEPT !.postion = 0, !.frozen = 0]]]
<1>1. position \in Positions
  BY DEF IInv, TypeOK, Positions, Items
<1>2. ASSUME NEW c \in Codes PROVE merged(c) \in [Buckets -> [Dirs -> Items]]
  <2>1. ASSUME NEW d \in Dirs
        PROVE  /\ position[c]["today"][d] \in Items
               /\ position[c]["yestoday"][d] \in Items
    BY <1>1 DEF Positions, Buckets
  <2>2. ASSUME NEW d \in Dirs
        PROVE  /\ Merged(position[c]["today"][d], position[c]["yestoday"][d]) \in Items
               /\ [position[c]["yestoday"][d] EXCEPT !.postion = 0, !.frozen = 0] \in Items
    <3>1. Merged(position[c]["today"][d], position[c]["yestoday"][d]) \in Items
      BY <2>1, MergedTyped
    <3> DEFINE i == position[c]["yestoday"][d]
    <3>2. i \in Items
      BY <2>1
    <3> HIDE DEF i
    <3>3. [i EXCEPT !.postion = 0, !.frozen = 0] \in Items
      BY <3>2 DEF Items
    <3> QED
      BY <3>1, <3>3 DEF i
  <2> QED
    BY <2>2 DEF Buckets
<1> HIDE DEF merged
<1>3. position' = [c \in Codes |-> IF c \notin Distinct \cap held THEN position[c]
                                   ELSE merged(c)]
  BY DEF Crossday, merged
<1>4. position' \in Positions
  BY <1>1, <1>2, <1>3 DEF Positions
<1>5. state' \in [Ids -> States]
  BY DEF Crossday, IInv, TypeOK, States
<1>6. day' \in 1..(1 + MaxDays) /\ dayVolume' \in [Codes -> 0..MaxDayVolume]
  <2>1. day \in 1..(1 + MaxDays) /\ day < MaxDays /\ day' = day + 1
    BY DEF Crossday, IInv, TypeOK
  <2>2. day' \in 1..(1 + MaxDays)
    BY <2>1, MarketAssumption
  <2>3. dayVolume' = [c \in Codes |-> 0]
    BY DEF Crossday
  <2>4. dayVolume' \in [Codes -> 0..MaxDayVolume]
    BY <2>3, MarketAssumption
  <2> QED
    BY <2>2, <2>4
<1>7. TypeOK'
  BY <1>4, <1>5, <1>6 DEF Crossday, IInv, TypeOK, tickVars, Positions, Items
<1>8. \A o \in Ids : state'[o] # "erased" <=> state[o] # "erased"
  BY DEF Crossday, Cancelable
<1> QED
  BY <1>7, <1>8 DEF Crossday, IInv, TypeOK, tickVars, Live

-----------------------------------------------------------------------------
(* The steps of update() *)

LEMMA BeginUpdateIInv == ASSUME IInv, BeginUpdate PROVE IInv'
<1>1. loop' = [loop EXCEPT !.codes = {c \in Codes : tick[c] # NoTick}]
  BY DEF BeginUpdate
<1>2. loop' \in [codes : SUBSET Codes, code : Codes \cup {0}, todo : SUBSET Ids,
                 volume : Nat, cur : Ids \cup {0}]
  <2>1. {c \in Codes : tick[c] # NoTick} \in SUBSET Codes
    OBVIOUS
  <2>2. loop \in [codes : SUBSET Codes, code : Codes \cup {0}, todo : SUBSET Ids,
                  volume : Nat, cur : Ids \cup {0}]
    BY DEF IInv, TypeOK
  <2> QED
    BY <1>1, <2>1, <2>2
<1>3. TypeOK'
  BY <1>2 DEF BeginUpdate, IInv, TypeOK, orderVars, bookVars, tickVars, envVars
<1>4. /\ loop'.codes = {c \in Codes : tick[c] # NoTick}
      /\ loop'.code = loop.code /\ loop'.todo = loop.todo
  BY <1>1 DEF IInv, TypeOK
<1> QED
  BY <1>3, <1>4 DEF BeginUpdate, IInv, orderVars, bookVars, tickVars, envVars, Live

LEMMA MatchEntrustIInv == ASSUME IInv, MatchEntrust PROVE IInv'
<1>1. PICK c \in loop.codes : loop' = [loop EXCEPT !.code = c, !.todo = OrdersOf(c),
                                                   !.volume = FrameVolume(c)]
  BY DEF MatchEntrust
<1>2. c \in Codes /\ tick[c] # NoTick /\ tick[c].volume \in Nat
  BY DEF IInv, TypeOK
<1>3. FrameVolume(c) \in Nat
  <2>1. lastFrame[c] # NoVolume => lastFrame[c] \in Nat
    BY <1>2 DEF IInv, TypeOK
  <2> QED
    BY <1>2, <2>1, WrapNat DEF FrameVolume
<1>4. OrdersOf(c) \subseteq Live /\ \A o \in OrdersOf(c) : order[o].code = c
  BY DEF OrdersOf
<1>5. loop' \in [codes : SUBSET Codes, code : Codes \cup {0}, todo : SUBSET Ids,
                 volume : Nat, cur : Ids \cup {0}]
  BY <1>1, <1>2, <1>3, <1>4 DEF IInv, TypeOK, Live
<1>6. TypeOK'
  BY <1>5 DEF MatchEntrust, IInv, TypeOK, orderVars, bookVars, tickVars, envVars
<1> QED
  BY <1>1, <1>2, <1>4, <1>6
  DEF MatchEntrust, IInv, TypeOK, orderVars, bookVars, tickVars, envVars, Live

LEMMA SweepIInv == ASSUME IInv, Sweep PROVE IInv'
<1>1. loop.code \in Codes /\ tick[loop.code].volume \in Nat
  BY DEF Sweep, IInv, TypeOK
<1>2. /\ state' = [o \in Ids |-> IF state[o] = "DELETE" THEN "erased" ELSE state[o]]
      /\ lastFrame' = [lastFrame EXCEPT ![loop.code] = tick[loop.code].volume]
      /\ traded' = [traded EXCEPT ![loop.code] = 0]
      /\ loop' = [Idle EXCEPT !.codes = loop.codes \ {loop.code}]
  BY DEF Sweep
<1>3. state' \in [Ids -> States] /\ lastFrame' \in [Codes -> Nat \cup {NoVolume}]
  BY <1>1, <1>2 DEF IInv, TypeOK, States
<1>4. traded' \in [Codes -> Nat]
  BY <1>1, <1>2 DEF IInv, TypeOK
<1>5. loop.codes \subseteq Codes
  BY DEF IInv, TypeOK
<1>6. loop' \in [codes : SUBSET Codes, code : Codes \cup {0}, todo : SUBSET Ids,
                 volume : Nat, cur : Ids \cup {0}]
  BY <1>2, <1>5 DEF Idle
<1>7. TypeOK'
  BY <1>3, <1>4, <1>6 DEF Sweep, IInv, TypeOK, bookVars
<1> QED
  BY <1>2, <1>7 DEF Sweep, IInv, TypeOK, bookVars, Idle, Live

-----------------------------------------------------------------------------
(* handle_entrust *)

\* The book, the order, the state and the seat that a handler may leave.
LEMMA LeaveIInv ==
  ASSUME IInv, NEW o \in loop.todo,
         NEW b \in Books, NEW r \in Orders, r.code = order[o].code,
         NEW s \in States, NEW q \in Nat, NEW events,
         Leave(o, b, r, s, q, events),
         loop' = [loop EXCEPT !.todo = @ \ {o}, !.cur = o],
         UNCHANGED <<tickVars, envVars>>,
         s # "erased"
  PROVE  IInv'
<1>1. o \in Ids /\ state[o] # "erased" /\ IsLife(told[o]) /\ told[o].status # "none"
  BY DEF IInv, Live
<1>2. IsLife(HearAll(told[o], events)) /\ HearAll(told[o], events).status # "none"
  BY <1>1, HearAllLife
<1>3. /\ account' \in Accounts /\ position' \in Positions /\ held' \subseteq Codes
  BY DEF Leave, Books
<1>4. order' \in [Ids -> OrderInfos]
  BY DEF Leave, IInv, TypeOK, Orders, OrderInfos
<1>5. TypeOK'
  BY <1>1, <1>3, <1>4 DEF Leave, IInv, TypeOK, tickVars, envVars, Accounts, Positions, Items
<1>6. told' = [told EXCEPT ![o] = HearAll(told[o], events)]
  BY DEF Leave
<1>7. told' = [p \in Ids |-> told'[p]] /\ \A p \in Ids : IsLife(told'[p])
  BY <1>1, <1>2, <1>6 DEF IInv
<1>8. \A p \in Ids : state'[p] # "erased" => told'[p].status # "none" /\ order'[p] \in Orders
  BY <1>1, <1>2, <1>6 DEF Leave, IInv, TypeOK
<1> QED
  BY <1>1, <1>5, <1>7, <1>8 DEF Leave, IInv, TypeOK, tickVars, envVars, Live

LEMMA BookTyped == IInv => Book \in Books
BY DEF IInv, TypeOK, Book, Books, Accounts, Positions, Items

\* The order that is visited, and what it is matched with.
LEMMA VisitedTyped ==
  ASSUME IInv, NEW o \in loop.todo
  PROVE  /\ o \in Ids /\ order[o] \in Orders /\ seat[o] \in Nat
         /\ loop.volume \in Nat /\ loop.code \in Codes
         /\ tick[loop.code] \in Ticks /\ tick[loop.code] # NoTick
<1>1. o \in Ids /\ order[o] \in Orders
  BY DEF IInv, Live
<1>2. loop.code \in Codes
  BY <1>1 DEF IInv, Orders
<1>3. 0 \notin Codes
  BY CodesAssumption
<1> QED
  BY <1>1, <1>2, <1>3 DEF IInv, TypeOK

LEMMA QueueAheadNat ==
  ASSUME NEW r \in Orders, NEW t \in Ticks, t # NoTick PROVE QueueAhead(r, t) \in Nat
<1>1. PICK q \in Quotes : t.bids = q.bids /\ t.asks = q.asks
  BY DEF Ticks
<1> QED
  BY <1>1, MarketAssumption DEF QueueAhead

LEMMA MatchOrderIInv ==
  ASSUME IInv, NEW o \in loop.todo, MatchOrder(o),
         loop' = [loop EXCEPT !.todo = @ \ {o}, !.cur = o],
         UNCHANGED <<tickVars, envVars>>
  PROVE  IInv'
<1> DEFINE r     == order[o]
           t     == tick[loop.code]
           new   == state[o] = "INVALID"
           begin == IF new THEN Freeze(Book, r) ELSE Book
           queue == IF new THEN QueueAhead(r, t) ELSE seat[o]
           m     == Match(r, t, loop.volume, queue)
           rest  == [r EXCEPT !.last = @ - m.deal]
           dealt == Dealt(begin, r, m.deal)
           full  == m.deal > 0 /\ rest.last = 0
           kill  == m.kill /\ rest.last > 0
           events ==
             (IF new THEN <<Event("OrderPlace", o, r.total)>> ELSE <<>>)
             \o (IF m.deal > 0 THEN <<Event("OrderDeal", o, m.deal)>> ELSE <<>>)
             \o (IF full THEN <<Event("OrderTrade", o, r.total)>> ELSE <<>>)
             \o (IF kill THEN <<Event("OrderCancel", o, rest.last)>> ELSE <<>>)
<1>1. r \in Orders /\ loop.volume \in Nat
  BY VisitedTyped
<1>2. queue \in Nat
  BY VisitedTyped, QueueAheadNat
<1>3. begin \in Books
  BY <1>1, BookTyped, FreezeTyped
<1>4. m \in Matches(r)
  BY <1>1, <1>2, MatchTyped
<1>5. m.deal \in 0..r.last /\ m.seat \in Nat
  BY <1>4 DEF Matches
<1>6. rest \in Orders /\ rest.code = r.code
  BY <1>1, <1>5 DEF Orders
<1>7. m.deal \in Nat
  BY <1>1, <1>5 DEF Orders
<1>8. dealt \in Books
  BY <1>1, <1>3, <1>7, DealtTyped
<1> DEFINE book == IF kill THEN Unfreeze(dealt, rest) ELSE dealt
           next == IF full \/ kill THEN "DELETE" ELSE "IN_MATCH"
<1>9. book \in Books
  BY <1>6, <1>8, UnfreezeTyped
<1>10. next \in States /\ next # "erased"
  BY DEF States
<1>11. Leave(o, book, rest, next, m.seat, events)
  BY DEF MatchOrder
<1> HIDE DEF book, rest, next, m, events
<1> QED
  BY <1>5, <1>6, <1>9, <1>10, <1>11, LeaveIInv

LEMMA HandleEntrustIInv == ASSUME IInv, HandleEntrust PROVE IInv'
<1>1. PICK o \in loop.todo :
        /\ HandleCanceled(o) \/ HandleRefused(o) \/ HandleMatch(o)
        /\ loop' = [loop EXCEPT !.todo = @ \ {o}, !.cur = o]
  BY DEF HandleEntrust
<1>2. UNCHANGED <<tickVars, envVars>>
  BY DEF HandleEntrust
<1>3. order[o] \in Orders /\ seat[o] \in Nat
  BY VisitedTyped
<1>4. Book \in Books /\ Unfreeze(Book, order[o]) \in Books
  BY <1>3, BookTyped, UnfreezeTyped
<1>5. CASE HandleCanceled(o)
  <2> DEFINE ok    == order[o].last > 0 /\ CanUnfreeze(Book, order[o])
             book  == IF ok THEN Unfreeze(Book, order[o]) ELSE Book
             next  == IF ok THEN "DELETE" ELSE "CANELED"
             tells == IF ok THEN <<Event("OrderCancel", o, order[o].last)>> ELSE <<>>
  <2>1. Leave(o, book, order[o], next, seat[o], tells)
    BY <1>5 DEF HandleCanceled
  <2>2. book \in Books /\ next \in States /\ next # "erased"
    BY <1>4 DEF States
  <2> HIDE DEF book, next, tells
  <2> QED
    BY <1>1, <1>2, <1>3, <2>1, <2>2, LeaveIInv
<1>6. CASE HandleRefused(o)
  <2>1. Leave(o, Book, order[o], "DELETE", seat[o], <<Event("OrderError", o, 0)>>)
    BY <1>6 DEF HandleRefused
  <2>2. "DELETE" \in States
    BY DEF States
  <2> QED
    BY <1>1, <1>2, <1>3, <1>4, <2>1, <2>2, LeaveIInv
<1>7. CASE HandleMatch(o)
  <2>1. MatchOrder(o)
    BY <1>7 DEF HandleMatch
  <2> QED
    BY <1>1, <1>2, <2>1, MatchOrderIInv
<1> QED
  BY <1>1, <1>5, <1>6, <1>7

-----------------------------------------------------------------------------
(* The theorems *)

LEMMA NextIInv == IInv /\ [Next]_vars => IInv'
<1> SUFFICES ASSUME IInv, [Next]_vars PROVE IInv'
  OBVIOUS
<1>1. CASE \E c \in Codes : PushTick(c)
  BY <1>1, PushTickIInv
<1>2. CASE \E o \in Ids : PlaceOrder(o) \/ CancelOrder(o)
  BY <1>2, PlaceOrderIInv, CancelOrderIInv
<1>3. CASE Crossday
  BY <1>3, CrossdayIInv
<1>4. CASE BeginUpdate
  BY <1>4, BeginUpdateIInv
<1>5. CASE MatchEntrust
  BY <1>5, MatchEntrustIInv
<1>6. CASE HandleEntrust
  BY <1>6, HandleEntrustIInv
<1>7. CASE Sweep
  BY <1>7, SweepIInv
<1>8. CASE UNCHANGED vars
  BY <1>8 DEF IInv, TypeOK, vars, orderVars, bookVars, tickVars, envVars, Live
<1> QED
  BY <1>1, <1>2, <1>3, <1>4, <1>5, <1>6, <1>7, <1>8 DEF Next, Update

LEMMA IInvAlways == Spec => []IInv
BY InitIInv, NextIInv, PTL DEF Spec

\* Nothing that update(), the market and the strategies do takes a variable of
\* the simulator out of the type its declaration gives it.
THEOREM TypeCorrect == Spec => []TypeOK
<1>1. IInv => TypeOK
  BY DEF IInv
<1> QED
  BY <1>1, IInvAlways, PTL

\* An order is not dealt while it is cancelled, whatever step is taken.
LEMMA StepKeepsCanceled ==
  ASSUME IInv, [Next]_vars, NEW o \in Ids, state[o] = "CANELED"
  PROVE  order'[o].last = order[o].last
<1>1. told[o].status # "none"
  BY DEF IInv
<1>2. CASE \E c \in Codes : PushTick(c)
  BY <1>2 DEF PushTick, orderVars
<1>3. ASSUME NEW p \in Ids, PlaceOrder(p) PROVE order'[o].last = order[o].last
  <2>1. p # o
    BY <1>1, <1>3 DEF PlaceOrder
  <2> QED
    BY <1>3, <2>1 DEF PlaceOrder, IInv, TypeOK
<1>4. ASSUME NEW p \in Ids, CancelOrder(p) PROVE order'[o].last = order[o].last
  BY <1>4 DEF CancelOrder
<1>5. CASE Crossday
  BY <1>5 DEF Crossday
<1>6. CASE BeginUpdate \/ MatchEntrust \/ Sweep
  BY <1>6 DEF BeginUpdate, MatchEntrust, Sweep, orderVars
<1>7. CASE HandleEntrust
  <2>1. PICK p \in loop.todo : HandleCanceled(p) \/ HandleRefused(p) \/ HandleMatch(p)
    BY <1>7 DEF HandleEntrust
  <2>2. p \in Ids
    BY DEF IInv, Live
  <2>3. CASE HandleCanceled(p) \/ HandleRefused(p)
    <3>1. order' = [order EXCEPT ![p] = order[p]]
      BY <2>3 DEF HandleCanceled, HandleRefused, Leave
    <3> QED
      BY <3>1 DEF IInv, TypeOK
  <2>4. CASE HandleMatch(p)
    <3>1. p # o
      BY SMTT(30), <2>4 DEF HandleMatch
    <3>2. PICK r : order' = [order EXCEPT ![p] = r]
      BY <2>4 DEF HandleMatch, MatchOrder, Leave
    <3> QED
      BY <3>1, <3>2 DEF IInv, TypeOK
  <2> QED
    BY <2>1, <2>3, <2>4
<1>8. CASE UNCHANGED vars
  BY <1>8 DEF vars, orderVars
<1> QED
  BY <1>2, <1>3, <1>4, <1>5, <1>6, <1>7, <1>8 DEF Next, Update

\* cancel_order returned true: the volume left is final.
THEOREM CancelStopsDeals == Spec => NoDealAfterCancel
<1>1. IInv /\ [Next]_vars =>
        [\A o \in Ids : state[o] = "CANELED" => order'[o].last = order[o].last]_vars
  BY StepKeepsCanceled
<1> QED
  BY <1>1, IInvAlways, PTL DEF Spec, NoDealAfterCancel

-----------------------------------------------------------------------------
(* The queue before an order.  A frame's volume is subtracted from a seat in
   unsigned integers and read as a signed one: a volume beyond the signed
   range would come out as a longer queue. *)

SmallFrame == 2 * loop.volume <= Modulus

LEMMA ModSmall ==
  ASSUME NEW n \in Nat, NEW m \in Nat \ {0} PROVE (n % m) \in 0..n
OBVIOUS

LEMMA ModNegative ==
  ASSUME NEW n \in Int, NEW m \in Nat \ {0}, n < 0, -m < n PROVE (n % m) = n + m
OBVIOUS

LEMMA NewSeatShrinks ==
  ASSUME NEW s \in Nat, NEW max \in Nat, 2 * max <= Modulus
  PROVE  NewSeat(s, max) \in Int /\ NewSeat(s, max) <= s
<1>1. Modulus \in Nat \ {0}
  BY ModulusAssumption
<1>2. CASE s >= max
  <2>1. s - max \in Nat
    BY <1>2
  <2>2. Wrap(s - max) \in 0..(s - max)
    BY <1>1, <2>1, ModSmall DEF Wrap
  <2> QED
    BY <1>1, <2>2 DEF NewSeat, Signed
<1>3. CASE s < max
  <2>1. s - max \in Int /\ s - max < 0 /\ -Modulus < s - max
    BY <1>1, <1>3
  <2>2. Wrap(s - max) = s - max + Modulus
    BY <1>1, <2>1, ModNegative DEF Wrap
  <2>3. 2 * (s - max + Modulus) >= Modulus
    BY <1>1
  <2> QED
    BY <1>1, <1>3, <2>2, <2>3 DEF NewSeat, Signed
<1> QED
  BY <1>2, <1>3

LEMMA MatchShrinks ==
  ASSUME NEW r, NEW t, NEW max \in Nat, NEW s \in Nat, 2 * max <= Modulus
  PROVE  Match(r, t, max, s).seat <= s
<1> DEFINE newSeat == NewSeat(s, max)
<1>1. newSeat \in Int /\ newSeat <= s
  BY NewSeatShrinks
<1>2. MatchFOK(r, t, max, s).seat = s /\ MatchFAK(r, t, max, s).seat = s
  BY DEF MatchFOK, MatchFAK
<1>3. MatchNOR(r, t, max, s).seat \in {s, 0, newSeat}
  BY <1>1 DEF MatchNOR
<1> HIDE DEF newSeat
<1> QED
  BY <1>1, <1>2, <1>3 DEF Match

\* No step makes the queue before a waiting order longer.
LEMMA StepShrinks ==
  ASSUME IInv, SmallFrame, [Next]_vars, NEW o \in Ids, state[o] = "IN_MATCH"
  PROVE  seat'[o] <= seat[o]
<1>1. told[o].status # "none" /\ seat[o] \in Nat
  BY DEF IInv, TypeOK
<1>2. SUFFICES seat'[o] = seat[o] \/ seat'[o] <= seat[o]
  BY <1>1
<1>3. CASE \E c \in Codes : PushTick(c)
  BY <1>3 DEF PushTick, orderVars
<1>4. ASSUME NEW p \in Ids, PlaceOrder(p) PROVE seat'[o] = seat[o]
  <2>1. p # o
    BY <1>1, <1>4 DEF PlaceOrder
  <2> QED
    BY <1>4, <2>1 DEF PlaceOrder, IInv, TypeOK
<1>5. ASSUME NEW p \in Ids, CancelOrder(p) PROVE seat'[o] = seat[o]
  BY <1>5 DEF CancelOrder
<1>6. CASE Crossday
  BY <1>6 DEF Crossday
<1>7. CASE BeginUpdate \/ MatchEntrust \/ Sweep
  BY <1>7 DEF BeginUpdate, MatchEntrust, Sweep, orderVars
<1>8. CASE HandleEntrust
  <2>1. PICK p \in loop.todo : HandleCanceled(p) \/ HandleRefused(p) \/ HandleMatch(p)
    BY <1>8 DEF HandleEntrust
  <2>2. p \in Ids /\ loop.volume \in Nat
    BY DEF IInv, Live, TypeOK
  <2>3. CASE HandleCanceled(p) \/ HandleRefused(p)
    <3>1. p # o
      BY <2>3 DEF HandleCanceled, HandleRefused
    <3>2. PICK q : seat' = [seat EXCEPT ![p] = q]
      BY SMTT(30), <2>3 DEF HandleCanceled, HandleRefused, Leave
    <3> QED
      BY <3>1, <3>2 DEF IInv, TypeOK
  <2>4. CASE HandleMatch(p) /\ p # o
    <3>1. PICK q : seat' = [seat EXCEPT ![p] = q]
      BY <2>4 DEF HandleMatch, MatchOrder, Leave
    <3> QED
      BY <2>4, <3>1 DEF IInv, TypeOK
  <2>5. CASE HandleMatch(p) /\ p = o
    <3> DEFINE m == Match(order[o], tick[loop.code], loop.volume, seat[o])
    <3>1. seat' = [seat EXCEPT ![o] = m.seat]
      BY <2>5 DEF HandleMatch, MatchOrder, Leave
    <3>2. m.seat <= seat[o]
      BY <1>1, <2>2, MatchShrinks DEF SmallFrame
    <3>3. seat'[o] = m.seat
      BY <3>1 DEF IInv, TypeOK
    <3> QED
      BY SMTT(30), <3>2, <3>3
  <2> QED
    BY <2>1, <2>3, <2>4, <2>5
<1>9. CASE UNCHANGED vars
  BY <1>9 DEF vars, orderVars
<1> QED
  BY <1>3, <1>4, <1>5, <1>6, <1>7, <1>8, <1>9 DEF Next, Update

\* While frames stay within the signed range, the seat of an order that waits
\* never moves back, whatever volumes its price level shows.
THEOREM SeatsShrink == Spec /\ []SmallFrame => SeatOnlyShrinks
<1>1. IInv /\ SmallFrame /\ [Next]_vars =>
        [\A o \in Ids : state[o] = "IN_MATCH" => seat'[o] <= seat[o]]_vars
  BY StepShrinks
<1> QED
  BY <1>1, IInvAlways, PTL DEF Spec, SeatOnlyShrinks

-----------------------------------------------------------------------------
(* The volume of a frame.  The exchange counts from the start of the day and
   lastFrame is never reset, so this is about one trading day, in which the
   exchange's count has not wrapped. *)

\* What was traded since the last frame, and what the ticks and the loop have
\* of it.
FrameInv ==
  /\ \A c \in Codes :
       /\ lastFrame[c] = NoVolume => traded[c] = dayVolume[c]
       /\ lastFrame[c] # NoVolume => lastFrame[c] + traded[c] = dayVolume[c]
       /\ tick[c] # NoTick => tick[c].volume = dayVolume[c]
  /\ FrameVolumeIsTraded

LEMMA FrameVolumeIs ==
  ASSUME IInv, FrameInv, MaxDayVolume < Modulus, NEW c \in Codes, tick[c] # NoTick
  PROVE  FrameVolume(c) = traded[c]
<1>1. /\ dayVolume[c] \in Nat /\ dayVolume[c] < Modulus /\ traded[c] \in Nat
      /\ tick[c].volume = dayVolume[c] /\ lastFrame[c] \in Nat \cup {NoVolume}
  BY MarketAssumption, ModulusAssumption DEF IInv, TypeOK, FrameInv
<1>2. CASE lastFrame[c] = NoVolume
  <2>1. traded[c] = dayVolume[c]
    BY <1>2 DEF FrameInv
  <2>2. Wrap(dayVolume[c]) = dayVolume[c]
    BY <1>1, ModulusAssumption DEF Wrap
  <2> QED
    BY <1>1, <1>2, <2>1, <2>2 DEF FrameVolume
<1>3. CASE lastFrame[c] # NoVolume
  <2>1. lastFrame[c] + traded[c] = dayVolume[c] /\ lastFrame[c] \in Nat
    BY <1>1, <1>3 DEF FrameInv
  <2>2. dayVolume[c] - lastFrame[c] = traded[c] /\ traded[c] < Modulus
    BY <1>1, <2>1, ModulusAssumption
  <2>3. Wrap(traded[c]) = traded[c]
    BY <1>1, <2>2, ModulusAssumption DEF Wrap
  <2> QED
    BY <1>1, <1>3, <2>2, <2>3 DEF FrameVolume
<1> QED
  BY <1>2, <1>3

LEMMA FrameStep ==
  ASSUME IInv, FrameInv, MaxDays = 1, MaxDayVolume < Modulus, [Next]_vars
  PROVE  FrameInv'
<1>1. CASE \E c \in Codes : PushTick(c)
  <2>1. PICK c \in Codes : PushTick(c)
    BY <1>1
  <2>2. PICK q \in Quotes, inc \in Increments :
          /\ dayVolume' = [dayVolume EXCEPT ![c] = @ + inc]
          /\ traded' = [traded EXCEPT ![c] = @ + inc]
          /\ tick' = [tick EXCEPT ![c] = [price |-> q.price, bids |-> q.bids,
                                          asks |-> q.asks,
                                          volume |-> dayVolume[c] + inc]]
    BY <2>1 DEF PushTick
  <2>3. inc \in Nat /\ lastFrame' = lastFrame /\ loop' = loop /\ loop.code = 0
    BY <2>1, MarketAssumption DEF PushTick, Quiet, Idle
  <2>4. /\ dayVolume'[c] = dayVolume[c] + inc /\ traded'[c] = traded[c] + inc
        /\ tick'[c].volume = dayVolume[c] + inc
        /\ \A p \in Codes \ {c} : /\ dayVolume'[p] = dayVolume[p] /\ traded'[p] = traded[p]
                                  /\ tick'[p] = tick[p]
    BY <2>2 DEF IInv, TypeOK
  <2>5. /\ \A p \in Codes : dayVolume[p] \in Nat /\ traded[p] \in Nat
        /\ \A p \in Codes : lastFrame[p] \in Nat \cup {NoVolume}
    BY MarketAssumption DEF IInv, TypeOK
  <2>6. ASSUME NEW p \in Codes
        PROVE  /\ lastFrame'[p] = NoVolume => traded'[p] = dayVolume'[p]
               /\ lastFrame'[p] # NoVolume => lastFrame'[p] + traded'[p] = dayVolume'[p]
               /\ tick'[p] # NoTick => tick'[p].volume = dayVolume'[p]
    <3>1. /\ lastFrame[p] = NoVolume => traded[p] = dayVolume[p]
          /\ lastFrame[p] # NoVolume => lastFrame[p] + traded[p] = dayVolume[p]
          /\ tick[p] # NoTick => tick[p].volume = dayVolume[p]
      BY DEF FrameInv
    <3>2. CASE p = c
      BY <2>3, <2>4, <2>5, <3>1, <3>2 DEF NoVolume
    <3>3. CASE p # c
      BY <2>3, <2>4, <3>1, <3>3
    <3> QED
      BY <3>2, <3>3
  <2>7. FrameVolumeIsTraded'
    BY <2>3 DEF FrameVolumeIsTraded
  <2> QED
    BY <2>6, <2>7 DEF FrameInv
<1>2. CASE \E o \in Ids : PlaceOrder(o) \/ CancelOrder(o)
  <2>1. UNCHANGED <<tick, lastFrame, loop, dayVolume, traded>>
    BY <1>2 DEF PlaceOrder, CancelOrder, tickVars, envVars
  <2> QED
    BY <2>1 DEF FrameInv, FrameVolumeIsTraded
<1>3. ~Crossday
  <2>1. day \in 1..2
    BY DEF IInv, TypeOK
  <2>2. Crossday => day < 1
    BY Zenon DEF Crossday
  <2> QED
    BY <2>1, <2>2
<1>4. CASE BeginUpdate
  <2>1. loop'.code = loop.code /\ loop.code = 0
    BY <1>4 DEF BeginUpdate, Quiet, Idle
  <2> QED
    BY <1>4, <2>1 DEF BeginUpdate, tickVars, envVars, FrameInv, FrameVolumeIsTraded
<1>5. CASE MatchEntrust
  <2>1. PICK c \in loop.codes : loop' = [loop EXCEPT !.code = c, !.todo = OrdersOf(c),
                                                     !.volume = FrameVolume(c)]
    BY <1>5 DEF MatchEntrust
  <2>2. c \in Codes /\ tick[c] # NoTick
    BY DEF IInv, TypeOK
  <2>3. FrameVolume(c) = traded[c]
    BY <2>2, FrameVolumeIs
  <2>4. loop'.code = c /\ loop'.volume = traded[c]
    BY <2>1, <2>3 DEF IInv, TypeOK
  <2> QED
    BY <1>5, <2>4 DEF MatchEntrust, tickVars, envVars, FrameInv, FrameVolumeIsTraded
<1>6. CASE HandleEntrust
  <2>1. PICK o : loop' = [loop EXCEPT !.todo = @ \ {o}, !.cur = o]
    BY <1>6 DEF HandleEntrust
  <2>2. loop'.code = loop.code /\ loop'.volume = loop.volume
    BY <2>1 DEF IInv, TypeOK
  <2> QED
    BY <1>6, <2>2 DEF HandleEntrust, tickVars, envVars, FrameInv, FrameVolumeIsTraded
<1>7. CASE Sweep
  <2> DEFINE c == loop.code
  <2>1. c \in Codes /\ tick[c] # NoTick /\ tick[c].volume = dayVolume[c]
    BY <1>7 DEF Sweep, IInv, TypeOK, FrameInv
  <2>2. /\ lastFrame' = [lastFrame EXCEPT ![c] = tick[c].volume]
        /\ traded' = [traded EXCEPT ![c] = 0]
        /\ tick' = tick /\ dayVolume' = dayVolume
    BY <1>7 DEF Sweep
  <2>3. loop'.code = 0
    BY <1>7 DEF Sweep, Idle
  <2> HIDE DEF c
  <2>4. /\ lastFrame'[c] = dayVolume[c] /\ traded'[c] = 0
        /\ \A p \in Codes \ {c} : lastFrame'[p] = lastFrame[p] /\ traded'[p] = traded[p]
    BY <2>1, <2>2 DEF IInv, TypeOK
  <2>5. \A p \in Codes : dayVolume[p] \in Nat /\ traded[p] \in Nat
    BY MarketAssumption DEF IInv, TypeOK
  <2> QED
    BY <2>1, <2>2, <2>3, <2>4, <2>5 DEF FrameInv, FrameVolumeIsTraded, NoVolume
<1>8. CASE UNCHANGED vars
  BY <1>8 DEF vars, tickVars, envVars, FrameInv, FrameVolumeIsTraded
<1> QED
  BY <1>1, <1>2, <1>3, <1>4, <1>5, <1>6, <1>7, <1>8 DEF Next, Update

\* Every frame of a day is matched with what the exchange traded since the
\* instrument's last frame, however many ticks one frame stands for.
THEOREM FramesAreTraded ==
  ASSUME MaxDays = 1, MaxDayVolume < Modulus PROVE Spec => []FrameVolumeIsTraded
<1>1. Init => FrameInv
  BY DEF Init, Idle, FrameInv, FrameVolumeIsTraded, NoVolume, NoTick
<1>2. IInv /\ FrameInv /\ [Next]_vars => FrameInv'
  BY FrameStep
<1>3. FrameInv => FrameVolumeIsTraded
  BY DEF FrameInv
<1> QED
  BY <1>1, <1>2, <1>3, IInvAlways, PTL DEF Spec

-----------------------------------------------------------------------------
(* The simulator implements OrderLifecycle. *)

\* What an order's state says of what was told of it.  Nothing waits for the
\* sweep but during the visit of an instrument.
LInv ==
  \A o \in Ids :
    /\ told[o] \in [status : Lifecycle!Statuses, left : 0..MaxVolume]
    /\ state[o] = "INVALID" =>
         told[o].status = "placed" /\ told[o].left = order[o].last /\ order[o].last > 0
    /\ state[o] \in {"IN_MATCH", "CANELED"} =>
         told[o].status = "entrusted" /\ told[o].left = order[o].last /\ order[o].last > 0
    /\ state[o] = "DELETE" => told[o].status \in Lifecycle!Ended /\ loop.code # 0

-----------------------------------------------------------------------------
(* What a listener makes of the events of one handler. *)

LEMMA Hear0 == ASSUME NEW l PROVE HearAll(l, <<>>) = l
BY DEF HearAll

LEMMA Hear1 == ASSUME NEW l, NEW a PROVE HearAll(l, <<a>>) = Hear(l, a)
BY DEF HearAll

LEMMA Hear2 ==
  ASSUME NEW l, NEW a, NEW b PROVE HearAll(l, <<a, b>>) = Hear(Hear(l, a), b)
BY DEF HearAll

LEMMA Hear3 ==
  ASSUME NEW l, NEW a, NEW b, NEW c
  PROVE  HearAll(l, <<a, b, c>>) = Hear(Hear(Hear(l, a), b), c)
BY DEF HearAll

LEMMA Pair ==
  ASSUME NEW a, NEW b PROVE <<a>> \o <<b>> = <<a, b>>
<1> DEFINE S  == {a, b}
           ab == <<a>> \o <<b>>
           t  == <<a, b>>
<1>1. <<a>> \in Seq(S) /\ <<b>> \in Seq(S) /\ t \in Seq(S)
  OBVIOUS
<1>2. ab \in Seq(S) /\ Len(ab) = 2
      /\ \A i \in 1..2 : ab[i] = IF i <= 1 THEN <<a>>[i] ELSE <<b>>[i - 1]
  BY <1>1, ConcatProperties
<1>3. ab[1] = t[1] /\ ab[2] = t[2] /\ Len(t) = 2
  BY <1>2
<1> HIDE DEF ab, t, S
<1>4. Len(ab) = Len(t) /\ \A i \in 1..Len(ab) : ab[i] = t[i]
  BY <1>2, <1>3
<1>5. ab = t
  BY <1>1, <1>2, <1>4, SeqEqual
<1> QED
  BY <1>5 DEF ab, t

LEMMA Triple ==
  ASSUME NEW a, NEW b, NEW c PROVE <<a, b>> \o <<c>> = <<a, b, c>>
<1> DEFINE S   == {a, b, c}
           abc == <<a, b>> \o <<c>>
           t   == <<a, b, c>>
<1>1. <<a, b>> \in Seq(S) /\ <<c>> \in Seq(S) /\ t \in Seq(S)
  OBVIOUS
<1>2. abc \in Seq(S) /\ Len(abc) = 3
      /\ \A i \in 1..3 : abc[i] = IF i <= 2 THEN <<a, b>>[i] ELSE <<c>>[i - 2]
  BY <1>1, ConcatProperties
<1>3. abc[1] = t[1] /\ abc[2] = t[2] /\ abc[3] = t[3] /\ Len(t) = 3
  BY <1>2
<1> HIDE DEF abc, t, S
<1>4. Len(abc) = Len(t) /\ \A i \in 1..Len(abc) : abc[i] = t[i]
  BY <1>2, <1>3
<1>5. abc = t
  BY <1>1, <1>2, <1>4, SeqEqual
<1> QED
  BY <1>5 DEF abc, t

\* The events of a handler, joined: from the empty sequence to three events.
LEMMA Join0 == <<>> \o <<>> \o <<>> \o <<>> = <<>>
OBVIOUS

LEMMA Nothing ==
  ASSUME NEW a, NEW b, NEW c
  PROVE  /\ <<>> \o <<a>> = <<a>> /\ <<a>> \o <<>> = <<a>>
         /\ <<a, b>> \o <<>> = <<a, b>> /\ <<a, b, c>> \o <<>> = <<a, b, c>>
<1>1. <<>> \o <<a>> = <<a>>
  OBVIOUS
<1>2. <<a>> \o <<>> = <<a>>
  OBVIOUS
<1>3. <<a, b>> \o <<>> = <<a, b>>
  OBVIOUS
<1>4. <<a, b, c>> \o <<>> = <<a, b, c>>
  OBVIOUS
<1> QED
  BY <1>1, <1>2, <1>3, <1>4

LEMMA Join1 ==
  ASSUME NEW a PROVE /\ <<a>> \o <<>> \o <<>> \o <<>> = <<a>>
                     /\ <<>> \o <<a>> \o <<>> \o <<>> = <<a>>
                     /\ <<>> \o <<>> \o <<>> \o <<a>> = <<a>>
<1>1. <<>> \o <<>> = <<>>
  OBVIOUS
<1> QED
  BY <1>1, Nothing

LEMMA Join2 ==
  ASSUME NEW a, NEW b PROVE /\ <<a>> \o <<b>> \o <<>> \o <<>> = <<a, b>>
                            /\ <<a>> \o <<>> \o <<>> \o <<b>> = <<a, b>>
                            /\ <<>> \o <<a>> \o <<b>> \o <<>> = <<a, b>>
                            /\ <<>> \o <<a>> \o <<>> \o <<b>> = <<a, b>>
BY Pair, Nothing

LEMMA Join3 ==
  ASSUME NEW a, NEW b, NEW c
  PROVE  /\ <<a>> \o <<b>> \o <<c>> \o <<>> = <<a, b, c>>
         /\ <<a>> \o <<b>> \o <<>> \o <<c>> = <<a, b, c>>
<1>1. <<a>> \o <<b>> = <<a, b>>
  BY Pair
<1>2. <<a, b>> \o <<c>> = <<a, b, c>>
  BY Triple
<1>3. <<a, b, c>> \o <<>> = <<a, b, c>> /\ <<a, b>> \o <<>> = <<a, b>>
  BY Nothing
<1> QED
  BY <1>1, <1>2, <1>3

LEMMA HearMatch ==
  ASSUME NEW new \in BOOLEAN, NEW kill \in BOOLEAN, NEW o, NEW total,
         NEW l, IsLife(l), l.left \in Nat,
         l.status = (IF new THEN "placed" ELSE "entrusted"),
         NEW d \in 0..l.left, NEW rest \in Nat, rest = l.left - d,
         l.left > 0, kill => rest > 0
  PROVE  HearAll(l, (IF new THEN <<Event("OrderPlace", o, total)>> ELSE <<>>)
                    \o (IF d > 0 THEN <<Event("OrderDeal", o, d)>> ELSE <<>>)
                    \o (IF d > 0 /\ rest = 0 THEN <<Event("OrderTrade", o, total)>> ELSE <<>>)
                    \o (IF kill THEN <<Event("OrderCancel", o, rest)>> ELSE <<>>))
         = [status |-> IF rest = 0 THEN "traded" ELSE IF kill THEN "canceled" ELSE "entrusted",
            left   |-> rest]
<1> DEFINE p == Event("OrderPlace", o, total)
           e == Event("OrderDeal", o, d)
           t == Event("OrderTrade", o, total)
           c == Event("OrderCancel", o, rest)
           on == [status |-> "entrusted", left |-> l.left]
           in == [status |-> "entrusted", left |-> rest]
           events == (IF new THEN <<p>> ELSE <<>>) \o (IF d > 0 THEN <<e>> ELSE <<>>)
                     \o (IF d > 0 /\ rest = 0 THEN <<t>> ELSE <<>>)
                     \o (IF kill THEN <<c>> ELSE <<>>)
           end == [status |-> IF rest = 0 THEN "traded"
                              ELSE IF kill THEN "canceled" ELSE "entrusted",
                   left   |-> rest]
<1>1. new => Hear(l, p) = on
  BY DEF Hear, Event, IsLife
<1>2. ~new => l = on
  BY DEF IsLife
<1>3. Hear(on, e) = in
  BY DEF Hear, Event
<1>4. rest = 0 => Hear(in, t) = end
  BY DEF Hear, Event
<1>5. kill => Hear(in, c) = end
  BY DEF Hear, Event
<1>6. d = 0 => in = on /\ rest # 0
  OBVIOUS
<1>7. rest # 0 /\ ~kill => in = end
  OBVIOUS
<1> SUFFICES HearAll(l, events) = end
  OBVIOUS
<1> HIDE DEF p, e, t, c, on, in, end
<1>8. CASE d = 0 /\ ~kill
  <2>1. CASE new
    <3>1. events = <<p>> \o <<>> \o <<>> \o <<>>
      BY <1>8, <2>1
    <3>2. events = <<p>>
      BY <3>1, Join1
    <3> HIDE DEF events
    <3> QED
      BY <3>2, <1>8, <2>1, Hear1, <1>1, <1>6, <1>7
  <2>2. CASE ~new
    <3>1. events = <<>> \o <<>> \o <<>> \o <<>>
      BY <1>8, <2>2
    <3>2. events = <<>>
      BY <3>1, Join0
    <3> HIDE DEF events
    <3> QED
      BY <3>2, <1>8, <2>2, Hear0, <1>2, <1>6, <1>7
  <2> QED
    BY <2>1, <2>2
<1>9. CASE d = 0 /\ kill
  <2>1. CASE new
    <3>1. events = <<p>> \o <<>> \o <<>> \o <<c>>
      BY <1>9, <2>1
    <3>2. events = <<p, c>>
      BY <3>1, Join2
    <3> HIDE DEF events
    <3> QED
      BY <3>2, <1>9, <2>1, Hear2, <1>1, <1>5, <1>6
  <2>2. CASE ~new
    <3>1. events = <<>> \o <<>> \o <<>> \o <<c>>
      BY <1>9, <2>2
    <3>2. events = <<c>>
      BY <3>1, Join1
    <3> HIDE DEF events
    <3> QED
      BY <3>2, <1>9, <2>2, Hear1, <1>2, <1>5, <1>6
  <2> QED
    BY <2>1, <2>2
<1>10. CASE d > 0 /\ rest = 0
  <2>1. CASE new
    <3>1. events = <<p>> \o <<e>> \o <<t>> \o <<>>
      BY <1>10, <2>1
    <3>2. events = <<p, e, t>>
      BY <3>1, Join3
    <3> HIDE DEF events
    <3> QED
      BY <3>2, <1>10, <2>1, Hear3, <1>1, <1>3, <1>4
  <2>2. CASE ~new
    <3>1. events = <<>> \o <<e>> \o <<t>> \o <<>>
      BY <1>10, <2>2
    <3>2. events = <<e, t>>
      BY <3>1, Join2
    <3> HIDE DEF events
    <3> QED
      BY <3>2, <1>10, <2>2, Hear2, <1>2, <1>3, <1>4
  <2> QED
    BY <2>1, <2>2
<1>11. CASE d > 0 /\ rest # 0 /\ kill
  <2>1. CASE new
    <3>1. events = <<p>> \o <<e>> \o <<>> \o <<c>>
      BY <1>11, <2>1
    <3>2. events = <<p, e, c>>
      BY <3>1, Join3
    <3> HIDE DEF events
    <3> QED
      BY <3>2, <1>11, <2>1, Hear3, <1>1, <1>3, <1>5
  <2>2. CASE ~new
    <3>1. events = <<>> \o <<e>> \o <<>> \o <<c>>
      BY <1>11, <2>2
    <3>2. events = <<e, c>>
      BY <3>1, Join2
    <3> HIDE DEF events
    <3> QED
      BY <3>2, <1>11, <2>2, Hear2, <1>2, <1>3, <1>5
  <2> QED
    BY <2>1, <2>2
<1>12. CASE d > 0 /\ rest # 0 /\ ~kill
  <2>1. CASE new
    <3>1. events = <<p>> \o <<e>> \o <<>> \o <<>>
      BY <1>12, <2>1
    <3>2. events = <<p, e>>
      BY <3>1, Join2
    <3>3. Hear(l, p) = on
      BY <1>1, <2>1
    <3>4. Hear(on, e) = end
      BY <1>3, <1>7, <1>12
    <3> HIDE DEF events
    <3> QED
      BY <3>2, <3>3, <3>4, Hear2
  <2>2. CASE ~new
    <3>1. events = <<>> \o <<e>> \o <<>> \o <<>>
      BY <1>12, <2>2
    <3>2. events = <<e>>
      BY <3>1, Join1
    <3> HIDE DEF events
    <3> QED
      BY <3>2, <1>12, <2>2, Hear1, <1>2, <1>3, <1>7
  <2> QED
    BY <2>1, <2>2
<1> QED
  BY <1>8, <1>9, <1>10, <1>11, <1>12

-----------------------------------------------------------------------------
(* The invariant and the steps *)

Mapped == Lifecycle!vars

\* A step that tells nothing, or tells one order what Lifecycle allows.
Step == [Lifecycle!Next]_Mapped

LEMMA LeavesAlone ==
  ASSUME told' = told PROVE Step
BY DEF Step, Mapped, Lifecycle!vars

\* told of one order changes from one life to another.
LEMMA TellsOne ==
  ASSUME LInv, NEW o \in Ids, NEW life,
         told = [p \in Ids |-> told[p]],
         told' = [told EXCEPT ![o] = life]
  PROVE  /\ [p \in Ids |-> told[p].status]'
              = [[p \in Ids |-> told[p].status] EXCEPT ![o] = life.status]
         /\ [p \in Ids |-> told[p].left]'
              = [[p \in Ids |-> told[p].left] EXCEPT ![o] = life.left]
OBVIOUS

LEMMA InitLInv == Init => LInv /\ Lifecycle!Init
BY OrderAssumption DEF Init, LInv, Lifecycle!Init, Lifecycle!Statuses, Lifecycle!Ended

LEMMA PlaceOrderStep ==
  ASSUME IInv, LInv, NEW o \in Ids, PlaceOrder(o) PROVE LInv' /\ Step
<1>1. PICK c \in Codes, off \in Offsets, d \in Directions, f \in Flags,
           v \in Volumes, p \in Prices :
        /\ order' = [order EXCEPT ![o] =
             [code |-> c, offset |-> off, direction |-> d, flag |-> f,
              total |-> v, last |-> v,
              price |-> IF p = 0 THEN tick[c].price ELSE p]]
        /\ told' = [told EXCEPT ![o] = [status |-> "placed", left |-> v]]
  BY DEF PlaceOrder
<1>2. v \in 1..MaxVolume
  BY OrderAssumption
<1>3. order'[o].last = v /\ \A p2 \in Ids : p2 # o => order'[p2] = order[p2]
  BY <1>1 DEF IInv, TypeOK
<1>4. told'[o] = [status |-> "placed", left |-> v]
      /\ \A p2 \in Ids : p2 # o => told'[p2] = told[p2]
  BY <1>1 DEF IInv
<1>5. state' = [state EXCEPT ![o] = "INVALID"] /\ loop' = loop
  BY DEF PlaceOrder
<1>6. [status |-> "placed", left |-> v] \in [status : Lifecycle!Statuses, left : 0..MaxVolume]
  BY <1>2 DEF Lifecycle!Statuses
<1>7. LInv'
  <2> SUFFICES ASSUME NEW q \in Ids
               PROVE  (/\ told[q] \in [status : Lifecycle!Statuses, left : 0..MaxVolume]
                       /\ state[q] = "INVALID" =>
                            told[q].status = "placed" /\ told[q].left = order[q].last
                            /\ order[q].last > 0
                       /\ state[q] \in {"IN_MATCH", "CANELED"} =>
                            told[q].status = "entrusted" /\ told[q].left = order[q].last
                            /\ order[q].last > 0
                       /\ state[q] = "DELETE" =>
                            told[q].status \in Lifecycle!Ended /\ loop.code # 0)'
    BY DEF LInv
  <2>1. CASE q = o
    BY <1>2, <1>3, <1>4, <1>5, <1>6, <2>1 DEF IInv, TypeOK
  <2>2. CASE q # o
    BY <1>3, <1>4, <1>5, <2>2 DEF LInv, IInv, TypeOK
  <2> QED
    BY <2>1, <2>2
<1>8. Lifecycle!Place(o)
  <2>1. [q \in Ids |-> told[q].status][o] = "none"
    BY DEF PlaceOrder
  <2>2. /\ [q \in Ids |-> told[q].status]'
             = [[q \in Ids |-> told[q].status] EXCEPT ![o] = "placed"]
        /\ [q \in Ids |-> told[q].left]'
             = [[q \in Ids |-> told[q].left] EXCEPT ![o] = v]
    BY <1>1, TellsOne DEF IInv
  <2> QED
    BY <1>2, <2>1, <2>2 DEF Lifecycle!Place
<1> QED
  BY <1>7, <1>8 DEF Step, Lifecycle!Next

LEMMA CancelOrderStep ==
  ASSUME IInv, LInv, ~CancelsEnded, NEW o \in Ids, CancelOrder(o) PROVE LInv' /\ Step
<1>1. /\ told[o].status = "entrusted" /\ state[o] \notin {"erased", "INVALID"}
      /\ state' = [state EXCEPT ![o] = "CANELED"]
      /\ UNCHANGED <<order, loop, told>>
  BY DEF CancelOrder, Cancelable
<1>2. state[o] \in {"IN_MATCH", "CANELED"}
  BY <1>1 DEF IInv, TypeOK, States, LInv, Lifecycle!Ended
<1>3. LInv'
  BY <1>1, <1>2 DEF LInv, IInv, TypeOK
<1> QED
  BY <1>1, <1>3, LeavesAlone

LEMMA CrossdayStep == ASSUME IInv, LInv, Crossday PROVE LInv' /\ Step
<1>1. /\ state' = [o \in Ids |-> IF Cancelable(o) THEN "CANELED" ELSE state[o]]
      /\ UNCHANGED <<order, loop, told>>
  BY DEF Crossday
<1>2. \A o \in Ids : state[o] # "DELETE"
  BY DEF LInv, Crossday, Quiet, Idle
<1>3. LInv'
  BY <1>1, <1>2 DEF LInv, IInv, TypeOK, States, Cancelable
<1> QED
  BY <1>1, <1>3, LeavesAlone

LEMMA SweepStep == ASSUME IInv, LInv, Sweep PROVE LInv' /\ Step
<1>1. /\ state' = [o \in Ids |-> IF state[o] = "DELETE" THEN "erased" ELSE state[o]]
      /\ UNCHANGED <<order, told>>
  BY DEF Sweep
<1>2. LInv'
  BY <1>1 DEF LInv
<1> QED
  BY <1>1, <1>2, LeavesAlone

\* A handler tells its order a life that Lifecycle!Report allows, or nothing.
LEMMA ReportStep ==
  ASSUME IInv, LInv, NEW o \in loop.todo, loop.code # 0,
         loop' = [loop EXCEPT !.todo = @ \ {o}, !.cur = o],
         NEW r, NEW s,
         order' = [order EXCEPT ![o] = r], state' = [state EXCEPT ![o] = s],
         NEW n \in 0..told[o].left, NEW end \in {"entrusted", "traded", "canceled"},
         told' = [told EXCEPT ![o] = [status |-> end, left |-> n]],
         told[o].status \in {"placed", "entrusted"},
         end = "traded" <=> n = 0,
         \/ end = "entrusted" /\ s \in {"IN_MATCH", "CANELED"} /\ r.last = n
         \/ end # "entrusted" /\ s = "DELETE"
  PROVE  LInv' /\ Step
<1>1. o \in Ids
  BY DEF IInv, Live
<1>2. told' = [told EXCEPT ![o] = [status |-> end, left |-> n]]
  OBVIOUS
<1>3. told[o].left \in 0..MaxVolume
  BY <1>1 DEF LInv
<1>4. [status |-> end, left |-> n] \in [status : Lifecycle!Statuses, left : 0..MaxVolume]
  BY <1>3, OrderAssumption DEF Lifecycle!Statuses, Lifecycle!Ended
<1>5. /\ told'[o] = [status |-> end, left |-> n]
      /\ state'[o] = s /\ order'[o] = r
      /\ \A p \in Ids : p # o => /\ told'[p] = told[p] /\ state'[p] = state[p]
                                 /\ order'[p] = order[p]
  BY <1>1, <1>2 DEF IInv, TypeOK
<1>6. loop'.code = loop.code
  BY DEF IInv, TypeOK
<1>7. LInv'
  <2> SUFFICES ASSUME NEW p \in Ids
               PROVE  (/\ told[p] \in [status : Lifecycle!Statuses, left : 0..MaxVolume]
                       /\ state[p] = "INVALID" =>
                            told[p].status = "placed" /\ told[p].left = order[p].last
                            /\ order[p].last > 0
                       /\ state[p] \in {"IN_MATCH", "CANELED"} =>
                            told[p].status = "entrusted" /\ told[p].left = order[p].last
                            /\ order[p].last > 0
                       /\ state[p] = "DELETE" =>
                            told[p].status \in Lifecycle!Ended /\ loop.code # 0)'
    BY DEF LInv
  <2>1. CASE p = o
    BY <1>3, <1>4, <1>5, <1>6, <2>1 DEF Lifecycle!Ended
  <2>2. CASE p # o
    BY <1>5, <1>6, <2>2 DEF LInv
  <2> QED
    BY <2>1, <2>2
<1>8. Lifecycle!Report(o)
  <2> DEFINE life == [status |-> end, left |-> n]
  <2>1. /\ [p \in Ids |-> told[p].status][o] \in {"placed", "entrusted"}
        /\ [p \in Ids |-> told[p].left][o] = told[o].left
    BY <1>1
  <2>2. told' = [told EXCEPT ![o] = life] /\ told = [p \in Ids |-> told[p]]
    BY <1>2 DEF IInv
  <2>3. life.status = end /\ life.left = n
    OBVIOUS
  <2> HIDE DEF life
  <2>4. /\ [p \in Ids |-> told[p].status]'
             = [[p \in Ids |-> told[p].status] EXCEPT ![o] = end]
        /\ [p \in Ids |-> told[p].left]'
             = [[p \in Ids |-> told[p].left] EXCEPT ![o] = n]
    BY <1>1, <2>2, <2>3, TellsOne
  <2> QED
    BY <2>1, <2>4 DEF Lifecycle!Report
<1> QED
  BY <1>1, <1>7, <1>8 DEF Step, Lifecycle!Next

\* What matching decides for the visited order o, what it leaves of it and
\* whether that is cancelled at once.
Decided(o) ==
  Match(order[o], tick[loop.code], loop.volume,
        IF state[o] = "INVALID" THEN QueueAhead(order[o], tick[loop.code]) ELSE seat[o])

Rest(o)   == order[o].last - Decided(o).deal
Killed(o) == Decided(o).kill /\ Rest(o) > 0

EndOf(o) ==
  IF Rest(o) = 0 THEN "traded" ELSE IF Killed(o) THEN "canceled" ELSE "entrusted"

\* Matching an order leaves it the rest, ends it if nothing is left or the rest
\* is cancelled, and tells as much.
LEMMA MatchTells ==
  ASSUME IInv, LInv, NEW o \in loop.todo,
         state[o] \in {"INVALID", "IN_MATCH"},
         MatchOrder(o)
  PROVE  /\ told[o].status \in {"placed", "entrusted"} /\ told[o].left = order[o].last
         /\ Rest(o) \in 0..order[o].last
         /\ order' = [order EXCEPT ![o] = [order[o] EXCEPT !.last = Rest(o)]]
         /\ state' = [state EXCEPT ![o] = IF EndOf(o) = "entrusted" THEN "IN_MATCH"
                                                                    ELSE "DELETE"]
         /\ told' = [told EXCEPT ![o] = [status |-> EndOf(o), left |-> Rest(o)]]
<1> DEFINE r     == order[o]
           t     == tick[loop.code]
           new   == state[o] = "INVALID"
           begin == IF new THEN Freeze(Book, r) ELSE Book
           queue == IF new THEN QueueAhead(r, t) ELSE seat[o]
           m     == Match(r, t, loop.volume, queue)
           rest  == [r EXCEPT !.last = @ - m.deal]
           dealt == Dealt(begin, r, m.deal)
           full  == m.deal > 0 /\ rest.last = 0
           kill  == m.kill /\ rest.last > 0
           book  == IF kill THEN Unfreeze(dealt, rest) ELSE dealt
           next  == IF full \/ kill THEN "DELETE" ELSE "IN_MATCH"
           events ==
             (IF new THEN <<Event("OrderPlace", o, r.total)>> ELSE <<>>)
             \o (IF m.deal > 0 THEN <<Event("OrderDeal", o, m.deal)>> ELSE <<>>)
             \o (IF full THEN <<Event("OrderTrade", o, r.total)>> ELSE <<>>)
             \o (IF kill THEN <<Event("OrderCancel", o, rest.last)>> ELSE <<>>)
           end == IF rest.last = 0 THEN "traded" ELSE IF kill THEN "canceled" ELSE "entrusted"
<1>1. o \in Ids /\ r \in Orders /\ IsLife(told[o])
  BY VisitedTyped DEF IInv
<1>2. /\ told[o].status = (IF new THEN "placed" ELSE "entrusted")
      /\ told[o].left = r.last /\ r.last > 0
  BY <1>1 DEF LInv
<1>3. m \in Matches(r)
  BY VisitedTyped, QueueAheadNat, MatchTyped
<1>4. m.deal \in 0..r.last /\ m.kill \in BOOLEAN /\ r.last \in Nat
  BY <1>1, <1>3 DEF Matches, Orders
<1>5. Decided(o) = m
  BY DEF Decided
<1> HIDE DEF m
<1>6. rest = [r EXCEPT !.last = Rest(o)] /\ rest.last = Rest(o)
      /\ Rest(o) = r.last - m.deal /\ Rest(o) \in Nat
  BY <1>1, <1>4, <1>5 DEF Orders, Rest
<1>7. new \in BOOLEAN /\ kill \in BOOLEAN /\ (kill => rest.last > 0)
      /\ kill = Killed(o) /\ end = EndOf(o)
  BY <1>4, <1>5, <1>6 DEF Killed, EndOf
<1>8. Leave(o, book, rest, next, m.seat, events)
  BY DEF MatchOrder, m
<1> HIDE DEF rest, new, book
<1>9. HearAll(told[o], events) = [status |-> end, left |-> rest.last]
  <2> HIDE DEF kill
  <2> QED
    BY <1>1, <1>2, <1>4, <1>6, <1>7, HearMatch
<1>10. full <=> rest.last = 0
  BY <1>2, <1>4, <1>6
<1>11. next = IF end = "entrusted" THEN "IN_MATCH" ELSE "DELETE"
  BY <1>7, <1>10
<1>12. told[o].status \in {"placed", "entrusted"} /\ Rest(o) \in 0..order[o].last
  BY <1>2, <1>4, <1>6
<1> HIDE DEF end, next, events
<1> QED
  BY <1>2, <1>6, <1>7, <1>8, <1>9, <1>11, <1>12 DEF Leave

LEMMA MatchOrderStep ==
  ASSUME IInv, LInv, NEW o \in loop.todo, loop.code # 0,
         loop' = [loop EXCEPT !.todo = @ \ {o}, !.cur = o],
         state[o] \in {"INVALID", "IN_MATCH"},
         MatchOrder(o)
  PROVE  LInv' /\ Step
<1> DEFINE rest == [order[o] EXCEPT !.last = Rest(o)]
           next == IF EndOf(o) = "entrusted" THEN "IN_MATCH" ELSE "DELETE"
<1>1. /\ told[o].status \in {"placed", "entrusted"}
      /\ Rest(o) \in 0..told[o].left
      /\ order' = [order EXCEPT ![o] = rest]
      /\ state' = [state EXCEPT ![o] = next]
      /\ told' = [told EXCEPT ![o] = [status |-> EndOf(o), left |-> Rest(o)]]
  BY MatchTells
<1>2. rest.last = Rest(o)
  BY VisitedTyped DEF Orders
<1>3. /\ EndOf(o) \in {"entrusted", "traded", "canceled"}
      /\ EndOf(o) = "traded" <=> Rest(o) = 0
      /\ \/ EndOf(o) = "entrusted" /\ next \in {"IN_MATCH", "CANELED"}
         \/ EndOf(o) # "entrusted" /\ next = "DELETE"
  BY DEF EndOf
<1> HIDE DEF rest, next
<1> QED
  BY <1>1, <1>2, <1>3, ReportStep

LEMMA HandleCanceledStep ==
  ASSUME IInv, LInv, NEW o \in loop.todo, loop.code # 0,
         loop' = [loop EXCEPT !.todo = @ \ {o}, !.cur = o],
         HandleCanceled(o)
  PROVE  LInv' /\ Step
<1>1. /\ o \in Ids /\ order[o].last \in Nat /\ IsLife(told[o])
      /\ told[o].status = "entrusted" /\ told[o].left = order[o].last
      /\ order[o].last > 0 /\ state[o] = "CANELED"
  BY VisitedTyped DEF IInv, LInv, HandleCanceled, Orders
<1> DEFINE e == Event("OrderCancel", o, order[o].last)
<1>2. CASE CanUnfreeze(Book, order[o])
  <2>1. Leave(o, Unfreeze(Book, order[o]), order[o], "DELETE", seat[o], <<e>>)
    BY <1>1, <1>2 DEF HandleCanceled
  <2>2. HearAll(told[o], <<e>>) = Hear(told[o], e)
    BY Hear1
  <2>3. Hear(told[o], e) = [status |-> "canceled", left |-> order[o].last]
    BY <1>1 DEF Hear, Event, IsLife
  <2>4. order[o].last \in 0..told[o].left /\ order[o].last # 0
    BY <1>1
  <2>5. /\ order' = [order EXCEPT ![o] = order[o]] /\ state' = [state EXCEPT ![o] = "DELETE"]
        /\ told' = [told EXCEPT ![o] = [status |-> "canceled", left |-> order[o].last]]
    BY <2>1, <2>2, <2>3 DEF Leave
  <2> QED
    BY <1>1, <2>4, <2>5, ReportStep
<1>3. CASE ~CanUnfreeze(Book, order[o])
  <2>1. Leave(o, Book, order[o], "CANELED", seat[o], <<>>)
    BY <1>1, <1>3 DEF HandleCanceled
  <2>2. HearAll(told[o], <<>>) = [status |-> "entrusted", left |-> order[o].last]
    BY <1>1, Hear0 DEF IsLife
  <2>3. order[o].last \in 0..told[o].left /\ order[o].last # 0
    BY <1>1
  <2>4. /\ order' = [order EXCEPT ![o] = order[o]] /\ state' = [state EXCEPT ![o] = "CANELED"]
        /\ told' = [told EXCEPT ![o] = [status |-> "entrusted", left |-> order[o].last]]
    BY <2>1, <2>2 DEF Leave
  <2> QED
    BY <1>1, <2>3, <2>4, ReportStep
<1> QED
  BY <1>2, <1>3

LEMMA HandleRefusedStep ==
  ASSUME IInv, LInv, NEW o \in loop.todo, loop.code # 0,
         loop' = [loop EXCEPT !.todo = @ \ {o}, !.cur = o],
         HandleRefused(o)
  PROVE  LInv' /\ Step
<1> DEFINE e == Event("OrderError", o, 0)
<1>1. /\ o \in Ids /\ IsLife(told[o]) /\ told[o].status = "placed"
      /\ told[o].left \in 0..MaxVolume
  BY VisitedTyped DEF IInv, LInv, HandleRefused
<1>2. Leave(o, Book, order[o], "DELETE", seat[o], <<e>>)
  BY DEF HandleRefused
<1>3. HearAll(told[o], <<e>>) = Hear(told[o], e)
  BY Hear1
<1>4. Hear(told[o], e) = [status |-> "refused", left |-> told[o].left]
  BY <1>1 DEF Hear, Event, IsLife
<1>5. told' = [told EXCEPT ![o] = [status |-> "refused", left |-> told[o].left]]
  BY <1>2, <1>3, <1>4 DEF Leave
<1>6. /\ told'[o] = [status |-> "refused", left |-> told[o].left]
      /\ state'[o] = "DELETE" /\ order'[o] = order[o]
      /\ \A p \in Ids : p # o => /\ told'[p] = told[p] /\ state'[p] = state[p]
                                 /\ order'[p] = order[p]
  BY <1>1, <1>2, <1>5 DEF Leave, IInv, TypeOK
<1>7. loop'.code = loop.code
  BY DEF IInv, TypeOK
<1>8. "refused" \in Lifecycle!Ended /\ "refused" \in Lifecycle!Statuses
  BY DEF Lifecycle!Statuses, Lifecycle!Ended
<1>9. LInv'
  BY <1>1, <1>6, <1>7, <1>8 DEF LInv
<1>10. Lifecycle!Refuse(o)
  <2>1. [p \in Ids |-> told[p].status][o] = "placed"
    BY <1>1
  <2>2. /\ [p \in Ids |-> told[p].status]'
             = [[p \in Ids |-> told[p].status] EXCEPT ![o] = "refused"]
        /\ [p \in Ids |-> told[p].left]'
             = [[p \in Ids |-> told[p].left] EXCEPT ![o] = told[o].left]
    BY <1>1, <1>5, TellsOne DEF IInv
  <2> QED
    BY <1>1, <2>1, <2>2 DEF Lifecycle!Refuse
<1> QED
  BY <1>1, <1>9, <1>10 DEF Step, Lifecycle!Next

LEMMA NextStep == ASSUME IInv, LInv, ~CancelsEnded, [Next]_vars PROVE LInv' /\ Step
<1>1. CASE \E c \in Codes : PushTick(c)
  <2>1. UNCHANGED <<order, state, told, loop>>
    BY <1>1 DEF PushTick, orderVars
  <2> QED
    BY <2>1, LeavesAlone DEF LInv
<1>2. CASE \E o \in Ids : PlaceOrder(o)
  BY <1>2, PlaceOrderStep
<1>3. CASE \E o \in Ids : CancelOrder(o)
  BY <1>3, CancelOrderStep
<1>4. CASE Crossday
  BY <1>4, CrossdayStep
<1>5. CASE BeginUpdate
  <2>1. UNCHANGED <<order, state, told>> /\ loop'.code = loop.code
    BY <1>5 DEF BeginUpdate, orderVars, IInv, TypeOK
  <2> QED
    BY <2>1, LeavesAlone DEF LInv
<1>6. CASE MatchEntrust
  <2>1. /\ UNCHANGED <<order, state, told>> /\ loop.code = 0
    BY <1>6 DEF MatchEntrust, orderVars
  <2>2. \A o \in Ids : state[o] # "DELETE"
    BY <2>1 DEF LInv
  <2> QED
    BY <2>1, <2>2, LeavesAlone DEF LInv
<1>7. CASE HandleEntrust
  <2>1. loop.code # 0
    BY <1>7 DEF HandleEntrust
  <2>2. PICK o \in loop.todo :
          /\ HandleCanceled(o) \/ HandleRefused(o) \/ HandleMatch(o)
          /\ loop' = [loop EXCEPT !.todo = @ \ {o}, !.cur = o]
    BY <1>7 DEF HandleEntrust
  <2>3. CASE HandleCanceled(o)
    BY <2>1, <2>2, <2>3, HandleCanceledStep
  <2>4. CASE HandleRefused(o)
    BY <2>1, <2>2, <2>4, HandleRefusedStep
  <2>5. CASE HandleMatch(o)
    BY <2>1, <2>2, <2>5, MatchOrderStep DEF HandleMatch
  <2> QED
    BY <2>2, <2>3, <2>4, <2>5
<1>8. CASE Sweep
  BY <1>8, SweepStep
<1>9. CASE UNCHANGED vars
  <2>1. UNCHANGED <<order, state, told, loop>>
    BY <1>9 DEF vars, orderVars
  <2> QED
    BY <2>1, LeavesAlone DEF LInv
<1> QED
  BY <1>1, <1>2, <1>3, <1>4, <1>5, <1>6, <1>7, <1>8, <1>9 DEF Next, Update

\* The events the simulator delivers tell of every order a life the trader
\* interface promises: entrusted or refused once, dealt within its volume,
\* ended once.
THEOREM TellsLives == ASSUME ~CancelsEnded PROVE Spec => KeepsLifecycle
<1>1. Init => LInv /\ Lifecycle!Init
  BY InitLInv
<1>2. IInv /\ LInv /\ [Next]_vars => LInv' /\ [Lifecycle!Next]_(Lifecycle!vars)
  BY NextStep DEF Step, Mapped
<1> QED
  BY <1>1, <1>2, IInvAlways, PTL DEF Spec, KeepsLifecycle, Lifecycle!Spec

-----------------------------------------------------------------------------
(* What OrderLifecycle promises, the simulator therefore keeps. *)

\* One step of a life: a traded order has nothing left, another one that was
\* told of has.
LEMMA EndTells ==
  ASSUME LInv, Lifecycle!EndTellsVolume, Step PROVE Lifecycle!EndTellsVolume'
<1> DEFINE status == [o \in Ids |-> told[o].status]
           left == [o \in Ids |-> told[o].left]
<1>1. \A o \in Ids : left[o] \in Nat
  BY OrderAssumption DEF LInv
<1>2. \A o \in Ids : /\ status[o] = "traded" => left[o] = 0
                     /\ status[o] \notin {"none", "traded"} => left[o] > 0
  BY DEF Lifecycle!EndTellsVolume
<1>3. DOMAIN status = Ids /\ DOMAIN left = Ids
  OBVIOUS
<1>4. \/ UNCHANGED <<status, left>>
      \/ \E o \in Ids :
           \/ /\ status' = [status EXCEPT ![o] = "placed"]
              /\ \E v \in 1..MaxVolume : left' = [left EXCEPT ![o] = v]
           \/ /\ status[o] = "placed"
              /\ status' = [status EXCEPT ![o] = "refused"] /\ UNCHANGED left
           \/ \E n \in 0..left[o], s \in {"entrusted", "traded", "canceled"} :
                /\ s = "traded" <=> n = 0
                /\ status' = [status EXCEPT ![o] = s] /\ left' = [left EXCEPT ![o] = n]
  BY DEF Step, Mapped, Lifecycle!vars, Lifecycle!Next, Lifecycle!Place, Lifecycle!Refuse,
         Lifecycle!Report
<1>5. SUFFICES \A o \in Ids : /\ status'[o] = "traded" => left'[o] = 0
                              /\ status'[o] \notin {"none", "traded"} => left'[o] > 0
  BY DEF Lifecycle!EndTellsVolume
<1> HIDE DEF status, left
<1> QED
  BY <1>1, <1>2, <1>3, <1>4, OrderAssumption

\* The simulator tells a trade exactly when nothing is left of the order.
THEOREM TradesAreComplete == ASSUME ~CancelsEnded
                             PROVE  Spec => []Lifecycle!EndTellsVolume
<1>1. Init => LInv /\ Lifecycle!EndTellsVolume
  BY InitLInv DEF Init, Lifecycle!EndTellsVolume
<1>2. IInv /\ LInv /\ Lifecycle!EndTellsVolume /\ [Next]_vars
        => LInv' /\ Lifecycle!EndTellsVolume'
  BY NextStep, EndTells
<1> QED
  BY <1>1, <1>2, IInvAlways, PTL DEF Spec

\* After an order's trade, cancel or refusal the simulator's events tell
\* nothing more of it: Lifecycle!EndIsFinal, of what was told.
ToldOnlyOnce ==
  [][\A o \in Ids : told[o].status \in Lifecycle!Ended => told'[o] = told[o]]_vars

\* What was told to have ended stays as it was told.
THEOREM EndsStay == ASSUME ~CancelsEnded PROVE Spec => ToldOnlyOnce
<1>1. Init => LInv
  BY InitLInv
<1>2. IInv /\ LInv /\ [Next]_vars => LInv' /\ Step
  BY NextStep
<1>3. IInv /\ IInv' /\ LInv /\ LInv' /\ Step =>
        [\A o \in Ids : told[o].status \in Lifecycle!Ended => told'[o] = told[o]]_vars
  <2> DEFINE status == [o \in Ids |-> told[o].status]
             left == [o \in Ids |-> told[o].left]
  <2> SUFFICES ASSUME IInv, IInv', LInv, LInv', Step, NEW p \in Ids,
                      told[p].status \in Lifecycle!Ended
               PROVE  told'[p] = told[p]
    OBVIOUS
  <2>1. \/ UNCHANGED <<status, left>>
        \/ \E o \in Ids :
             /\ status[o] \in {"none", "placed", "entrusted"}
             /\ \/ left' = left
                \/ \E v : left' = [left EXCEPT ![o] = v]
             /\ \E s : status' = [status EXCEPT ![o] = s]
    BY DEF Step, Mapped, Lifecycle!vars, Lifecycle!Next, Lifecycle!Place,
           Lifecycle!Refuse, Lifecycle!Report
  <2>2. DOMAIN status = Ids /\ DOMAIN left = Ids /\ status[p] \in Lifecycle!Ended
    OBVIOUS
  <2>3. status'[p] = status[p] /\ left'[p] = left[p]
    <3> HIDE DEF status, left
    <3> QED
      BY <2>1, <2>2 DEF Lifecycle!Ended
  <2>4. told'[p].status = told[p].status /\ told'[p].left = told[p].left
    BY <2>3
  <2>5. /\ told[p] \in [status : Lifecycle!Statuses, left : 0..MaxVolume]
        /\ told'[p] \in [status : Lifecycle!Statuses, left : 0..MaxVolume]
    BY DEF LInv
  <2> QED
    BY <2>4, <2>5
<1> QED
  BY <1>1, <1>2, <1>3, IInvAlways, PTL DEF Spec, ToldOnlyOnce

-----------------------------------------------------------------------------
(* A FOK order is through with its first frame. *)

FInv ==
  \A o \in Ids : order[o].flag = "FOK" =>
    /\ state[o] \in {"erased", "INVALID", "DELETE"}
    /\ state[o] = "INVALID" => order[o].last = order[o].total
    /\ told[o].left \in {0, order[o].total}

LEMMA FokDecided ==
  ASSUME NEW r \in Orders, NEW t, NEW max, NEW s, r.flag = "FOK"
  PROVE  LET m == Match(r, t, max, s)
         IN m = [deal |-> r.last, kill |-> FALSE, seat |-> s]
            \/ m = [deal |-> 0, kill |-> TRUE, seat |-> s]
BY DEF Match, MatchFOK

LEMMA FokMatched ==
  ASSUME IInv, LInv, FInv, NEW o \in loop.todo,
         state[o] \in {"INVALID", "IN_MATCH"}, MatchOrder(o)
  PROVE  FInv'
<1> DEFINE rest == [order[o] EXCEPT !.last = Rest(o)]
           next == IF EndOf(o) = "entrusted" THEN "IN_MATCH" ELSE "DELETE"
<1>1. /\ told[o].left = order[o].last
      /\ order' = [order EXCEPT ![o] = rest]
      /\ state' = [state EXCEPT ![o] = next]
      /\ told' = [told EXCEPT ![o] = [status |-> EndOf(o), left |-> Rest(o)]]
  BY MatchTells
<1>2. o \in Ids /\ order[o] \in Orders /\ order[o].last \in Nat
  BY VisitedTyped DEF Orders
<1>3. rest.flag = order[o].flag /\ rest.total = order[o].total
  BY <1>2 DEF Orders
<1>4. CASE order[o].flag = "FOK"
  <2>1. state[o] = "INVALID" /\ order[o].last = order[o].total /\ order[o].last > 0
    BY <1>2, <1>4 DEF FInv, LInv
  <2>2. \/ Decided(o).deal = order[o].last /\ Decided(o).kill = FALSE
        \/ Decided(o).deal = 0 /\ Decided(o).kill = TRUE
    BY <1>2, <1>4, FokDecided DEF Decided
  <2>3. Rest(o) \in {0, order[o].total} /\ next = "DELETE"
    BY <1>2, <2>1, <2>2 DEF Rest, Killed, EndOf
  <2> HIDE DEF rest, next
  <2>4. /\ order'[o] = rest /\ state'[o] = "DELETE" /\ told'[o].left = Rest(o)
        /\ \A p \in Ids : p # o => /\ order'[p] = order[p] /\ state'[p] = state[p]
                                   /\ told'[p] = told[p]
    BY <1>1, <1>2, <2>3 DEF IInv, TypeOK
  <2> QED
    BY <1>3, <2>3, <2>4 DEF FInv
<1>5. CASE order[o].flag # "FOK"
  <2> HIDE DEF rest, next
  <2>1. /\ order'[o] = rest
        /\ \A p \in Ids : p # o => /\ order'[p] = order[p] /\ state'[p] = state[p]
                                   /\ told'[p] = told[p]
    BY <1>1, <1>2 DEF IInv, TypeOK
  <2> QED
    BY <1>3, <1>5, <2>1 DEF FInv
<1> QED
  BY <1>4, <1>5

LEMMA FokPlaced ==
  ASSUME IInv, FInv, NEW o \in Ids, PlaceOrder(o) PROVE FInv'
<1>1. PICK c \in Codes, off \in Offsets, d \in Directions, f \in Flags,
           v \in Volumes, p \in Prices :
        /\ order' = [order EXCEPT ![o] =
             [code |-> c, offset |-> off, direction |-> d, flag |-> f,
              total |-> v, last |-> v,
              price |-> IF p = 0 THEN tick[c].price ELSE p]]
        /\ told' = [told EXCEPT ![o] = [status |-> "placed", left |-> v]]
  BY DEF PlaceOrder
<1>2. state' = [state EXCEPT ![o] = "INVALID"]
  BY DEF PlaceOrder
<1>3. /\ state'[o] = "INVALID" /\ told'[o].left = v
      /\ order'[o].total = v /\ order'[o].last = v
      /\ \A q \in Ids : q # o => /\ order'[q] = order[q] /\ state'[q] = state[q]
                                 /\ told'[q] = told[q]
  BY <1>1, <1>2 DEF IInv, TypeOK
<1> QED
  BY <1>3 DEF FInv

LEMMA FokStep == ASSUME IInv, LInv, FInv, ~CancelsEnded, [Next]_vars PROVE FInv'
<1>1. CASE \E c \in Codes : PushTick(c)
  BY <1>1 DEF PushTick, orderVars, FInv
<1>2. CASE \E o \in Ids : PlaceOrder(o)
  BY <1>2, FokPlaced
<1>3. CASE \E o \in Ids : CancelOrder(o)
  <2>1. PICK o \in Ids : CancelOrder(o)
    BY <1>3
  <2>2. /\ told[o].status = "entrusted" /\ state[o] \notin {"erased", "INVALID"}
        /\ state' = [state EXCEPT ![o] = "CANELED"] /\ UNCHANGED <<order, told>>
    BY <2>1 DEF CancelOrder, Cancelable
  <2>3. order[o].flag # "FOK"
    BY <2>2 DEF FInv, LInv, Lifecycle!Ended
  <2> QED
    BY <2>2, <2>3 DEF FInv, IInv, TypeOK
<1>4. CASE Crossday
  <2>1. /\ state' = [o \in Ids |-> IF Cancelable(o) THEN "CANELED" ELSE state[o]]
        /\ UNCHANGED <<order, told>>
    BY <1>4 DEF Crossday
  <2>2. \A o \in Ids : state[o] # "DELETE"
    BY <1>4 DEF LInv, Crossday, Quiet, Idle
  <2> QED
    BY <2>1, <2>2 DEF FInv, Cancelable
<1>5. CASE BeginUpdate \/ MatchEntrust
  BY <1>5 DEF BeginUpdate, MatchEntrust, orderVars, FInv
<1>6. CASE HandleEntrust
  <2>1. PICK o \in loop.todo : HandleCanceled(o) \/ HandleRefused(o) \/ HandleMatch(o)
    BY <1>6 DEF HandleEntrust
  <2>2. o \in Ids /\ order[o] \in Orders
    BY VisitedTyped
  <2>3. CASE HandleCanceled(o)
    <3>1. order[o].flag # "FOK"
      BY <2>2, <2>3 DEF HandleCanceled, FInv
    <3>2. PICK s, life : /\ order' = [order EXCEPT ![o] = order[o]]
                         /\ state' = [state EXCEPT ![o] = s]
                         /\ told' = [told EXCEPT ![o] = life]
      BY <2>3 DEF HandleCanceled, Leave
    <3>3. /\ order' = order
          /\ \A p \in Ids : p # o => state'[p] = state[p] /\ told'[p] = told[p]
      BY <3>2 DEF IInv, TypeOK
    <3> QED
      BY <3>1, <3>3 DEF FInv
  <2>4. CASE HandleRefused(o)
    <3> DEFINE e == Event("OrderError", o, 0)
    <3>1. /\ told[o].status = "placed" /\ IsLife(told[o])
      BY <2>2, <2>4 DEF HandleRefused, LInv, IInv
    <3>a. HearAll(told[o], <<e>>) = Hear(told[o], e)
      BY Hear1
    <3>b. Hear(told[o], e) = [status |-> "refused", left |-> told[o].left]
      BY <3>1 DEF Hear, Event, IsLife
    <3>2. HearAll(told[o], <<e>>) = [status |-> "refused", left |-> told[o].left]
      BY <3>a, <3>b
    <3>3. /\ order' = [order EXCEPT ![o] = order[o]]
          /\ state' = [state EXCEPT ![o] = "DELETE"]
          /\ told' = [told EXCEPT ![o] = [status |-> "refused", left |-> told[o].left]]
      BY <2>4, <3>2 DEF HandleRefused, Leave
    <3>4. /\ order' = order /\ state'[o] = "DELETE" /\ told'[o].left = told[o].left
          /\ \A p \in Ids : p # o => state'[p] = state[p] /\ told'[p] = told[p]
      BY <2>2, <3>3 DEF IInv, TypeOK
    <3> QED
      BY <3>4 DEF FInv
  <2>5. CASE HandleMatch(o)
    BY <2>5, FokMatched DEF HandleMatch
  <2> QED
    BY <2>1, <2>3, <2>4, <2>5
<1>7. CASE Sweep
  <2>1. /\ state' = [o \in Ids |-> IF state[o] = "DELETE" THEN "erased" ELSE state[o]]
        /\ UNCHANGED <<order, told>>
    BY <1>7 DEF Sweep
  <2> QED
    BY <2>1 DEF FInv
<1>8. CASE UNCHANGED vars
  BY <1>8 DEF vars, orderVars, FInv
<1> QED
  BY <1>1, <1>2, <1>3, <1>4, <1>5, <1>6, <1>7, <1>8 DEF Next, Update

\* A FOK order is dealt in full or killed, and after the update that matched it
\* first it is gone: as long as strategies do not cancel what has ended, no
\* callback and no other order can make it wait or split it.
THEOREM FokIsAllOrNothing == ASSUME ~CancelsEnded PROVE Spec => []FokAllOrNothing
<1>1. Init => LInv /\ FInv
  BY InitLInv DEF Init, NoOrder, FInv
<1>2. IInv /\ LInv /\ FInv /\ [Next]_vars => LInv' /\ FInv'
  BY NextStep, FokStep
<1>3. IInv /\ LInv /\ FInv => FokAllOrNothing
  <2> SUFFICES ASSUME LInv, FInv, NEW o \in Ids, order[o].flag = "FOK"
               PROVE  /\ Quiet => state[o] \in {"erased", "INVALID"}
                      /\ told[o].left \in {0, order[o].total}
    BY DEF FokAllOrNothing
  <2>1. Quiet => state[o] # "DELETE"
    BY DEF LInv, Quiet, Idle
  <2> QED
    BY <2>1 DEF FInv
<1> QED
  BY <1>1, <1>2, <1>3, IInvAlways, PTL DEF Spec
-----------------------------------------------------------------------------
(* What freezing, dealing and thawing leave of a book *)

\* The positions p with one item replaced.
Put(p, c, k, d, i) == [p EXCEPT ![c][k][d] = i]

LEMMA PutAt ==
  ASSUME NEW p \in Positions, NEW i, NEW c \in Codes, NEW k \in Buckets, NEW d \in Dirs
  PROVE  \A c2 \in Codes, k2 \in Buckets, d2 \in Dirs :
           Put(p, c, k, d, i)[c2][k2][d2]
             = IF c2 = c /\ k2 = k /\ d2 = d THEN i ELSE p[c2][k2][d2]
<1>1. p \in [Codes -> [Buckets -> [Dirs -> Items]]]
  BY DEF Positions
<1>2. \A c2 \in Codes : [p EXCEPT ![c][k][d] = i][c2]
                          = IF c2 = c THEN [p[c] EXCEPT ![k][d] = i] ELSE p[c2]
  BY <1>1
<1>3. \A k2 \in Buckets : [p[c] EXCEPT ![k][d] = i][k2]
                            = IF k2 = k THEN [p[c][k] EXCEPT ![d] = i] ELSE p[c][k2]
  BY <1>1
<1>4. \A d2 \in Dirs : [p[c][k] EXCEPT ![d] = i][d2] = IF d2 = d THEN i ELSE p[c][k][d2]
  BY <1>1
<1> QED
  BY <1>2, <1>3, <1>4 DEF Put

LEMMA PutTyped ==
  ASSUME NEW p \in Positions, NEW i \in Items,
         NEW c \in Codes, NEW k \in Buckets, NEW d \in Dirs
  PROVE  Put(p, c, k, d, i) \in Positions
BY SetItem DEF Put

\* Positions with the same items are the same.
LEMMA SamePositions ==
  ASSUME NEW p \in Positions, NEW q \in Positions,
         \A c \in Codes, k \in Buckets, d \in Dirs : p[c][k][d] = q[c][k][d]
  PROVE  p = q
<1>1. \A c \in Codes, k \in Buckets : p[c][k] = q[c][k]
  BY DEF Positions
<1>2. \A c \in Codes : p[c] = q[c]
  BY <1>1 DEF Positions
<1> QED
  BY <1>2 DEF Positions

\* Putting an item back where it was changes nothing, and of two items put in
\* one place the second stays.
LEMMA PutSame ==
  ASSUME NEW p \in Positions, NEW c \in Codes, NEW k \in Buckets, NEW d \in Dirs
  PROVE  Put(p, c, k, d, p[c][k][d]) = p
<1> DEFINE q == Put(p, c, k, d, p[c][k][d])
<1>1. p[c][k][d] \in Items
  BY DEF Positions
<1>2. q \in Positions
  BY <1>1, PutTyped
<1>3. \A c2 \in Codes, k2 \in Buckets, d2 \in Dirs : q[c2][k2][d2] = p[c2][k2][d2]
  BY PutAt
<1> HIDE DEF q
<1>4. q = p
  BY <1>2, <1>3, SamePositions
<1> QED
  BY <1>4 DEF q

LEMMA PutTwice ==
  ASSUME NEW p \in Positions, NEW c \in Codes, NEW k \in Buckets, NEW d \in Dirs,
         NEW i \in Items, NEW j \in Items
  PROVE  Put(Put(p, c, k, d, i), c, k, d, j) = Put(p, c, k, d, j)
<1> DEFINE q == Put(p, c, k, d, i)
           s == Put(q, c, k, d, j)
           t == Put(p, c, k, d, j)
<1>1. q \in Positions /\ t \in Positions
  BY PutTyped
<1> HIDE DEF q
<1>2. s \in Positions
  BY <1>1, PutTyped
<1>3. \A c2 \in Codes, k2 \in Buckets, d2 \in Dirs :
        q[c2][k2][d2] = IF c2 = c /\ k2 = k /\ d2 = d THEN i ELSE p[c2][k2][d2]
  BY PutAt DEF q
<1>4. \A c2 \in Codes, k2 \in Buckets, d2 \in Dirs :
        t[c2][k2][d2] = IF c2 = c /\ k2 = k /\ d2 = d THEN j ELSE p[c2][k2][d2]
  BY PutAt
<1>5. \A c2 \in Codes, k2 \in Buckets, d2 \in Dirs :
        s[c2][k2][d2] = IF c2 = c /\ k2 = k /\ d2 = d THEN j ELSE q[c2][k2][d2]
  BY <1>1, PutAt
<1> HIDE DEF s, t
<1>6. \A c2 \in Codes, k2 \in Buckets, d2 \in Dirs : s[c2][k2][d2] = t[c2][k2][d2]
  BY <1>3, <1>4, <1>5
<1>7. s = t
  BY <1>1, <1>2, <1>6, SamePositions
<1> QED
  BY <1>7 DEF s, t, q

LEMMA FreezeOpen ==
  ASSUME NEW b \in Books, NEW r \in Orders, r.offset = "open"
  PROVE  /\ Freeze(b, r).position = b.position
         /\ Freeze(b, r).account.money = b.account.money
         /\ Freeze(b, r).account.frozen = b.account.frozen + Margin(r.last, r.price)
BY DEF Freeze, Books, Accounts

LEMMA UnfreezeOpen ==
  ASSUME NEW b \in Books, NEW r \in Orders, r.offset = "open"
  PROVE  /\ Unfreeze(b, r).position = b.position
         /\ Unfreeze(b, r).account.money = b.account.money
         /\ Unfreeze(b, r).account.frozen
              = b.account.frozen - Least(Margin(r.last, r.price), b.account.frozen)
BY DEF Unfreeze, Books, Accounts

\* An item with other volumes.
WithLots(i, n, f) == [i EXCEPT !.postion = n, !.frozen = f]

LEMMA WithLotsIs ==
  ASSUME NEW i \in Items, NEW n \in Nat, NEW f \in Nat
  PROVE  /\ WithLots(i, n, f) \in Items
         /\ WithLots(i, n, f).postion = n /\ WithLots(i, n, f).frozen = f
         /\ WithLots(i, n, f).price = i.price
BY DEF WithLots, Items

LEMMA WithLotsTwice ==
  ASSUME NEW i \in Items, NEW n \in Nat, NEW f \in Nat, NEW m \in Nat, NEW g \in Nat
  PROVE  WithLots(WithLots(i, n, f), m, g) = WithLots(i, m, g)
BY DEF WithLots, Items

LEMMA WithLotsSame ==
  ASSUME NEW i \in Items PROVE WithLots(i, i.postion, i.frozen) = i
BY DEF WithLots, Items

\* The positions p with other volumes in one item.
SetLots(p, c, k, d, n, f) == Put(p, c, k, d, WithLots(p[c][k][d], n, f))

LEMMA SetLotsIs ==
  ASSUME NEW p \in Positions, NEW c \in Codes, NEW k \in Buckets, NEW d \in Dirs,
         NEW n \in Nat, NEW f \in Nat
  PROVE  /\ SetLots(p, c, k, d, n, f) \in Positions
         /\ SetLots(p, c, k, d, n, f)[c][k][d] = WithLots(p[c][k][d], n, f)
         /\ SetLots(p, c, k, d, p[c][k][d].postion, p[c][k][d].frozen) = p
<1> DEFINE i == p[c][k][d]
<1>1. i \in Items
  BY DEF Positions
<1>2. WithLots(i, n, f) \in Items /\ WithLots(i, i.postion, i.frozen) = i
  <2>1. i.postion \in Nat /\ i.frozen \in Nat
    BY <1>1 DEF Items
  <2> HIDE DEF i
  <2> QED
    BY <1>1, <2>1, WithLotsIs, WithLotsSame
<1>3. Put(p, c, k, d, WithLots(i, n, f)) \in Positions
  BY <1>2, PutTyped
<1>4. Put(p, c, k, d, WithLots(i, n, f))[c][k][d] = WithLots(i, n, f)
  BY PutAt
<1>5. Put(p, c, k, d, i) = p
  BY PutSame
<1> QED
  BY <1>2, <1>3, <1>4, <1>5 DEF SetLots

LEMMA SetLotsAt ==
  ASSUME NEW p \in Positions, NEW c \in Codes, NEW k \in Buckets, NEW d \in Dirs,
         NEW n \in Nat, NEW f \in Nat
  PROVE  LET q == SetLots(p, c, k, d, n, f)
         IN /\ q[c][k][d].postion = n /\ q[c][k][d].frozen = f
            /\ q[c][k][d].price = p[c][k][d].price
            /\ \A c2 \in Codes, k2 \in Buckets, d2 \in Dirs :
                 c2 # c \/ k2 # k \/ d2 # d => q[c2][k2][d2] = p[c2][k2][d2]
<1> DEFINE i == p[c][k][d]
           q == SetLots(p, c, k, d, n, f)
<1>1. i \in Items
  BY DEF Positions
<1>2. q[c][k][d] = WithLots(i, n, f)
  BY SetLotsIs
<1>3. \A c2 \in Codes, k2 \in Buckets, d2 \in Dirs :
        c2 # c \/ k2 # k \/ d2 # d => q[c2][k2][d2] = p[c2][k2][d2]
  BY PutAt DEF SetLots
<1> HIDE DEF i
<1>4. /\ WithLots(i, n, f).postion = n /\ WithLots(i, n, f).frozen = f
      /\ WithLots(i, n, f).price = i.price
  BY <1>1, WithLotsIs
<1> HIDE DEF q
<1>5. q[c][k][d].postion = n /\ q[c][k][d].frozen = f /\ q[c][k][d].price = i.price
  BY <1>2, <1>4
<1> QED
  BY <1>3, <1>5 DEF i, q

LEMMA SetLotsElse ==
  ASSUME NEW p \in Positions, NEW c \in Codes, NEW k \in Buckets, NEW d \in Dirs,
         NEW n \in Nat, NEW f \in Nat,
         NEW c2 \in Codes, NEW k2 \in Buckets, NEW d2 \in Dirs,
         c2 # c \/ k2 # k \/ d2 # d
  PROVE  SetLots(p, c, k, d, n, f)[c2][k2][d2] = p[c2][k2][d2]
BY SetLotsAt

LEMMA SetLotsTwice ==
  ASSUME NEW p \in Positions, NEW c \in Codes, NEW k \in Buckets, NEW d \in Dirs,
         NEW n \in Nat, NEW f \in Nat, NEW m \in Nat, NEW g \in Nat
  PROVE  SetLots(SetLots(p, c, k, d, n, f), c, k, d, m, g) = SetLots(p, c, k, d, m, g)
<1> DEFINE i == p[c][k][d]
           q == SetLots(p, c, k, d, n, f)
<1>1. i \in Items
  BY DEF Positions
<1>2. q[c][k][d] = WithLots(i, n, f)
  BY SetLotsIs
<1>3. q = Put(p, c, k, d, WithLots(i, n, f))
  BY DEF SetLots
<1> HIDE DEF i, q
<1>4. /\ WithLots(i, n, f) \in Items /\ WithLots(i, m, g) \in Items
      /\ WithLots(WithLots(i, n, f), m, g) = WithLots(i, m, g)
  BY <1>1, WithLotsIs, WithLotsTwice
<1>5. Put(q, c, k, d, WithLots(i, m, g)) = Put(p, c, k, d, WithLots(i, m, g))
  BY <1>3, <1>4, PutTwice
<1>6. SetLots(q, c, k, d, m, g) = Put(p, c, k, d, WithLots(i, m, g))
  BY <1>2, <1>4, <1>5 DEF SetLots
<1> QED
  BY <1>6 DEF SetLots, q, i

LEMMA FreezeClose ==
  ASSUME NEW b \in Books, NEW r \in Orders, r.offset # "open"
  PROVE  LET item == b.position[r.code][BucketOf(r)][r.direction]
         IN /\ Freeze(b, r).position
                 = SetLots(b.position, r.code, BucketOf(r), r.direction,
                           item.postion, item.frozen + r.last)
            /\ Freeze(b, r).account = b.account
<1> DEFINE item == b.position[r.code][BucketOf(r)][r.direction]
           i == [item EXCEPT !.frozen = item.frozen + r.last]
<1>1. item \in Items /\ r.last \in Nat
  BY ItemTyped, OrderKeys
<1>2. i = WithLots(item, item.postion, item.frozen + r.last)
  BY <1>1 DEF Items, WithLots
<1>3. Freeze(b, r) = [b EXCEPT !.position =
                        [b.position EXCEPT ![r.code][BucketOf(r)][r.direction] = i]]
  BY DEF Freeze
<1> HIDE DEF i, item
<1>4. /\ Freeze(b, r).position = Put(b.position, r.code, BucketOf(r), r.direction, i)
      /\ Freeze(b, r).account = b.account
  BY <1>3 DEF Books, Put
<1> QED
  BY <1>2, <1>4 DEF item, SetLots

LEMMA UnfreezeClose ==
  ASSUME NEW b \in Books, NEW r \in Orders, r.offset # "open"
  PROVE  LET item == b.position[r.code][BucketOf(r)][r.direction]
         IN /\ Unfreeze(b, r).position
                 = SetLots(b.position, r.code, BucketOf(r), r.direction,
                           item.postion,
                           item.frozen - Least(r.last, item.frozen))
            /\ Unfreeze(b, r).account = b.account
<1> DEFINE item == b.position[r.code][BucketOf(r)][r.direction]
           i == [item EXCEPT !.frozen = item.frozen - Least(r.last, item.frozen)]
<1>1. item \in Items /\ r.last \in Nat
  BY ItemTyped, OrderKeys
<1>2. i = WithLots(item, item.postion, item.frozen - Least(r.last, item.frozen))
  BY <1>1 DEF Items, WithLots
<1>3. Unfreeze(b, r) = [b EXCEPT !.position =
                          [b.position EXCEPT ![r.code][BucketOf(r)][r.direction] = i]]
  BY DEF Unfreeze
<1> HIDE DEF i, item
<1>4. /\ Unfreeze(b, r).position = Put(b.position, r.code, BucketOf(r), r.direction, i)
      /\ Unfreeze(b, r).account = b.account
  BY <1>3 DEF Books, Put
<1> QED
  BY <1>2, <1>4 DEF item, SetLots

LEMMA CloseLots ==
  ASSUME NEW b \in Books, NEW r \in Orders, NEW v \in Nat
  PROVE  LET item == b.position[r.code][BucketOf(r)][r.direction]
         IN /\ Close(b, r, v).position
                 = SetLots(b.position, r.code, BucketOf(r), r.direction,
                           item.postion - Least(v, item.postion),
                           item.frozen - Least(v, item.frozen))
            /\ Close(b, r, v).account.frozen = b.account.frozen - Margin(v, item.price)
<1> DEFINE item == b.position[r.code][BucketOf(r)][r.direction]
           i == WithLots(item, item.postion - Least(v, item.postion),
                         item.frozen - Least(v, item.frozen))
           money == b.account.money + Profit(r, v, item.price) - v * Fee[r.offset]
           froze == b.account.frozen - Margin(v, item.price)
<1>1. Close(b, r, v) = [b EXCEPT !.position[r.code][BucketOf(r)][r.direction] = i,
                                 !.account.money = money, !.account.frozen = froze]
  BY DEF Close, WithLots
<1> HIDE DEF i, money, froze
<1>2. Close(b, r, v).position = Put(b.position, r.code, BucketOf(r), r.direction, i)
  BY <1>1 DEF Books, Put
<1>3. Close(b, r, v).account.frozen = froze
  BY <1>1 DEF Books, Accounts
<1> QED
  BY <1>2, <1>3 DEF i, froze, SetLots

\* An item with v lots bought at price p: the average is rounded down.
Bought(i, p, v) ==
  [i EXCEPT !.price = (i.postion * i.price + p * v) \div (i.postion + v),
            !.postion = i.postion + v]

LEMMA BoughtIs ==
  ASSUME NEW i \in Items, NEW p \in Nat, NEW v \in Nat \ {0}
  PROVE  /\ Bought(i, p, v) \in Items
         /\ Bought(i, p, v).postion = i.postion + v
         /\ Bought(i, p, v).frozen = i.frozen
         /\ Bought(i, p, v).price = (i.postion * i.price + p * v) \div (i.postion + v)
<1>1. /\ i.postion * i.price \in Nat /\ p * v \in Nat /\ i.postion + v \in Nat \ {0}
  BY MulNat DEF Items
<1>2. (i.postion * i.price + p * v) \div (i.postion + v) \in Nat
  BY <1>1, DivNat
<1> QED
  BY <1>1, <1>2 DEF Bought, Items

LEMMA OpenLots ==
  ASSUME NEW b \in Books, NEW r \in Orders, NEW v \in Nat \ {0}
  PROVE  LET item == b.position[r.code]["today"][r.direction]
         IN /\ Open(b, r, v).position =
                 IF b.account.money >= v * Fee[r.offset]
                 THEN Put(b.position, r.code, "today", r.direction, Bought(item, r.price, v))
                 ELSE b.position
            /\ Open(b, r, v).account.frozen = b.account.frozen
<1> DEFINE item == b.position[r.code]["today"][r.direction]
           i == Bought(item, r.price, v)
           money == b.account.money - v * Fee[r.offset]
           paid == [b EXCEPT !.position[r.code]["today"][r.direction] = i,
                             !.account.money = money, !.held = @ \cup {r.code}]
           kept == [b EXCEPT !.held = @ \cup {r.code}]
<1>1. Open(b, r, v) = IF b.account.money >= v * Fee[r.offset] THEN paid ELSE kept
  BY DEF Open, Bought
<1> HIDE DEF i, money
<1>2. /\ paid.position = Put(b.position, r.code, "today", r.direction, i)
      /\ paid.account.frozen = b.account.frozen
  BY DEF Books, Put, Accounts
<1>3. kept.position = b.position /\ kept.account.frozen = b.account.frozen
  BY DEF Books
<1> HIDE DEF paid, kept
<1> QED
  BY <1>1, <1>2, <1>3 DEF i

\* What a match that deals v lots of r makes of a book: r may enter the match
\* with it, and what is left of it may be killed.
Matched(b, r, new, v, kill) ==
  LET dealt == Dealt(IF new THEN Freeze(b, r) ELSE b, r, v)
      rest  == [r EXCEPT !.last = r.last - v]
  IN IF kill THEN Unfreeze(dealt, rest) ELSE dealt

\* An opening order only freezes and thaws money, and takes what it can pay.
LEMMA MatchedOpen ==
  ASSUME NEW b \in Books, NEW r \in Orders, r.offset = "open",
         NEW new \in BOOLEAN, NEW kill \in BOOLEAN, NEW v \in 0..r.last
  PROVE  LET x     == Matched(b, r, new, v, kill)
             item  == b.position[r.code]["today"][r.direction]
             froze == b.account.frozen + (IF new THEN Margin(r.last, r.price) ELSE 0)
         IN /\ x.position =
                 IF v > 0 /\ b.account.money >= v * Fee["open"]
                 THEN Put(b.position, r.code, "today", r.direction, Bought(item, r.price, v))
                 ELSE b.position
            /\ x.account.frozen =
                 IF kill THEN froze - Least(Margin(r.last - v, r.price), froze) ELSE froze
<1> DEFINE begin == IF new THEN Freeze(b, r) ELSE b
           dealt == Dealt(begin, r, v)
           rest  == [r EXCEPT !.last = r.last - v]
           froze == b.account.frozen + (IF new THEN Margin(r.last, r.price) ELSE 0)
           x     == IF kill THEN Unfreeze(dealt, rest) ELSE dealt
           item  == b.position[r.code]["today"][r.direction]
           taken == Put(b.position, r.code, "today", r.direction, Bought(item, r.price, v))
<1>1. r.last \in Nat /\ v \in Nat
  BY OrderKeys
<1>2. begin \in Books
  BY FreezeTyped
<1>3. /\ begin.position = b.position /\ begin.account.money = b.account.money
      /\ begin.account.frozen = froze
  BY FreezeOpen DEF Books, Accounts
<1> HIDE DEF begin
<1>4. dealt \in Books
  BY <1>1, <1>2, DealtTyped
<1>5. /\ dealt.position = IF v > 0 /\ b.account.money >= v * Fee["open"]
                          THEN taken ELSE b.position
      /\ dealt.account.frozen = froze
  <2>1. CASE v = 0
    BY <1>3, <2>1 DEF Dealt
  <2>2. CASE v # 0
    <3>1. v \in Nat \ {0} /\ dealt = Open(begin, r, v)
      BY <1>1, <2>2 DEF Dealt
    <3> QED
      BY <1>2, <1>3, <2>2, <3>1, OpenLots
  <2> QED
    BY <2>1, <2>2
<1>6. /\ rest \in Orders /\ rest.offset = "open"
      /\ rest.last = r.last - v /\ rest.price = r.price
  BY <1>1 DEF Orders
<1> HIDE DEF dealt, rest
<1>7. /\ Unfreeze(dealt, rest).position = dealt.position
      /\ Unfreeze(dealt, rest).account.frozen
           = dealt.account.frozen - Least(Margin(rest.last, rest.price), dealt.account.frozen)
  BY <1>4, <1>6, UnfreezeOpen
<1> HIDE DEF froze, taken
<1>8. /\ x.position = IF v > 0 /\ b.account.money >= v * Fee["open"]
                      THEN taken ELSE b.position
      /\ x.account.frozen =
           IF kill THEN froze - Least(Margin(r.last - v, r.price), froze) ELSE froze
  BY <1>5, <1>6, <1>7
<1>9. x = Matched(b, r, new, v, kill)
  BY DEF Matched, dealt, begin, rest
<1> QED
  BY <1>8, <1>9 DEF froze, taken

\* A closing order whose lots are frozen, in a position that has them, gives
\* up the dealt ones, and with what is left of it the others.
LEMMA MatchedClose ==
  ASSUME NEW b \in Books, NEW r \in Orders, r.offset # "open",
         NEW new \in BOOLEAN, NEW kill \in BOOLEAN, NEW v \in 0..r.last,
         LET item == b.position[r.code][BucketOf(r)][r.direction]
         IN /\ r.last <= item.frozen + (IF new THEN r.last ELSE 0)
            /\ r.last <= item.postion
  PROVE  LET x     == Matched(b, r, new, v, kill)
             item  == b.position[r.code][BucketOf(r)][r.direction]
             froze == item.frozen + (IF new THEN r.last ELSE 0)
         IN /\ x.position =
                 SetLots(b.position, r.code, BucketOf(r), r.direction,
                           item.postion - v,
                           IF kill THEN froze - r.last ELSE froze - v)
            /\ x.account.frozen = b.account.frozen - Margin(v, item.price)
<1> DEFINE begin == IF new THEN Freeze(b, r) ELSE b
           dealt == Dealt(begin, r, v)
           rest  == [r EXCEPT !.last = r.last - v]
           x     == IF kill THEN Unfreeze(dealt, rest) ELSE dealt
           c == r.code
           k == BucketOf(r)
           d == r.direction
           item  == b.position[c][k][d]
           froze == item.frozen + (IF new THEN r.last ELSE 0)
           set(n, f) == SetLots(b.position, c, k, d, n, f)
<1>1. /\ r.last \in Nat /\ v \in Nat /\ c \in Codes /\ k \in Buckets /\ d \in Dirs
      /\ item \in Items /\ b.position \in Positions
  BY OrderKeys, ItemTyped DEF Books
<1>2. item.postion \in Nat /\ item.frozen \in Nat /\ item.price \in Nat
  BY <1>1 DEF Items
<1>3. froze \in Nat /\ r.last <= froze /\ r.last <= item.postion
  BY <1>1, <1>2
<1>4. begin \in Books
  BY FreezeTyped
<1>5. begin.position = set(item.postion, froze) /\ begin.account = b.account
  <2>1. CASE new
    BY <2>1, FreezeClose
  <2>2. CASE ~new
    <3>1. froze = item.frozen /\ begin = b
      BY <1>2, <2>2
    <3>2. set(item.postion, item.frozen) = b.position
      BY <1>1, <1>2, SetLotsIs
    <3> QED
      BY <3>1, <3>2
  <2> QED
    BY <2>1, <2>2
<1>6. ASSUME NEW n \in Nat, NEW f \in Nat
      PROVE  /\ set(n, f)[c][k][d].postion = n /\ set(n, f)[c][k][d].frozen = f
             /\ set(n, f)[c][k][d].price = item.price
             /\ \A m \in Nat, g \in Nat : SetLots(set(n, f), c, k, d, m, g) = set(m, g)
  <2>1. set(n, f)[c][k][d] = WithLots(item, n, f)
    BY <1>1, SetLotsIs
  <2>2. \A m \in Nat, g \in Nat : SetLots(set(n, f), c, k, d, m, g) = set(m, g)
    BY <1>1, SetLotsTwice
  <2> HIDE DEF set, item, froze, c, k, d
  <2>3. /\ WithLots(item, n, f).postion = n /\ WithLots(item, n, f).frozen = f
        /\ WithLots(item, n, f).price = item.price
    <3>1. item \in Items
      BY <1>1
    <3> QED
      BY <3>1, WithLotsIs
  <2> QED
    BY <2>1, <2>2, <2>3
<1>7. dealt \in Books
  BY <1>1, <1>4, DealtTyped
<1>8. v # 0 =>
        LET i == begin.position[c][k][d]
        IN /\ dealt.position = SetLots(begin.position, c, k, d, i.postion - Least(v, i.postion),
                                       i.frozen - Least(v, i.frozen))
           /\ dealt.account.frozen = begin.account.frozen - Margin(v, i.price)
  <2> SUFFICES ASSUME v # 0
               PROVE  LET i == begin.position[c][k][d]
                      IN /\ dealt.position = SetLots(begin.position, c, k, d,
                                                     i.postion - Least(v, i.postion),
                                                     i.frozen - Least(v, i.frozen))
                         /\ dealt.account.frozen = begin.account.frozen - Margin(v, i.price)
    OBVIOUS
  <2> HIDE DEF begin
  <2>1. dealt = Close(begin, r, v)
    BY <1>1 DEF Dealt
  <2> QED
    BY <1>1, <1>4, <2>1, CloseLots
<1>9. /\ rest \in Orders /\ rest.offset # "open" /\ rest.last = r.last - v
      /\ rest.code = c /\ BucketOf(rest) = k /\ rest.direction = d
  BY <1>1 DEF Orders, BucketOf
<1> HIDE DEF begin, rest
<1>10. v = 0 => dealt = begin
  BY DEF Dealt
<1> HIDE DEF dealt
<1>11. LET i == dealt.position[c][k][d]
       IN /\ Unfreeze(dealt, rest).position
               = SetLots(dealt.position, c, k, d, i.postion, i.frozen - Least(rest.last, i.frozen))
          /\ Unfreeze(dealt, rest).account = dealt.account
  <2> HIDE DEF c, k, d
  <2> QED
    BY <1>7, <1>9, UnfreezeClose
<1> HIDE DEF set, item, froze, c, k, d
<1>12. /\ dealt.position = set(item.postion - v, froze - v)
       /\ dealt.account.frozen = b.account.frozen - Margin(v, item.price)
  <2>1. CASE v = 0
    <3>1. Margin(0, item.price) = 0 /\ b.account.frozen \in Int
      BY <1>2, MoneyAssumption DEF Margin, Books, Accounts
    <3>2. item.postion - 0 = item.postion /\ froze - 0 = froze
      BY <1>2, <1>3
    <3> QED
      BY <1>5, <1>10, <2>1, <3>1, <3>2
  <2>2. CASE v # 0
    <3>1. Least(v, item.postion) = v /\ Least(v, froze) = v
      BY <1>1, <1>2, <1>3 DEF Least
    <3>2. item.postion - v \in Nat /\ froze - v \in Nat
      BY <1>1, <1>2, <1>3
    <3> QED
      BY <1>2, <1>3, <1>5, <1>6, <1>8, <2>2, <3>1, <3>2
  <2> QED
    BY <2>1, <2>2
<1>13. /\ Unfreeze(dealt, rest).position = set(item.postion - v, froze - r.last)
       /\ Unfreeze(dealt, rest).account = dealt.account
  <2>1. item.postion - v \in Nat /\ froze - v \in Nat /\ froze - r.last \in Nat
    BY <1>1, <1>2, <1>3
  <2>2. (froze - v) - Least(rest.last, froze - v) = froze - r.last
    BY <1>1, <1>3, <1>9 DEF Least
  <2> QED
    BY <1>6, <1>11, <1>12, <2>1, <2>2
<1>14. /\ x.position = set(item.postion - v, IF kill THEN froze - r.last ELSE froze - v)
       /\ x.account.frozen = b.account.frozen - Margin(v, item.price)
  BY <1>12, <1>13
<1>15. x = Matched(b, r, new, v, kill)
  BY DEF Matched, dealt, begin, rest
<1> QED
  BY <1>14, <1>15 DEF set, item, froze, c, k, d

-----------------------------------------------------------------------------
(* Frozen lots *)

\* The lots of today's position in c that each order keeps frozen.
Promised(c, d) ==
  [o \in Ids |-> IF /\ Resting(o) /\ order[o].offset = "clstd"
                    /\ order[o].code = c /\ order[o].direction = d
                 THEN order[o].last ELSE 0]

\* Nothing is ever held from yesterday: what is bought is today's, and crossday
\* only moves lots the other way.  So no order that closes yesterday's lots
\* enters the match, and the others' lots are those that are frozen.
NoneFromYestoday ==
  \A c \in Codes, d \in Dirs : /\ position[c]["yestoday"][d].postion = 0
                               /\ position[c]["yestoday"][d].frozen = 0

ClosesToday == \A o \in Ids : Resting(o) => order[o].offset \in {"open", "clstd"}

FrozenIsPromised ==
  \A c \in Codes, d \in Dirs :
    /\ position[c]["today"][d].frozen = SumFunctionOnSet(Promised(c, d), Ids)
    /\ position[c]["today"][d].frozen <= position[c]["today"][d].postion

BookInv == NoneFromYestoday /\ ClosesToday /\ FrozenIsPromised

LEMMA PositionTyped ==
  ASSUME IInv
  PROVE  /\ position \in Positions
         /\ \A c \in Codes, k \in Buckets, d \in Dirs :
              /\ position[c][k][d] \in Items
              /\ position[c][k][d].postion \in Nat /\ position[c][k][d].frozen \in Nat
              /\ position[c][k][d].price \in Nat
BY DEF IInv, TypeOK, Positions, Items

LEMMA PromisedNat ==
  ASSUME IInv, NEW c, NEW d PROVE \A o \in Ids : Promised(c, d)[o] \in Nat
BY DEF IInv, TypeOK, OrderInfos, Promised

\* A step that changes no resting order and freezes nothing, and may add to
\* today's positions, keeps the invariant.
LEMMA BookKept ==
  ASSUME IInv, BookInv,
         \A c \in Codes, d \in Dirs :
           /\ position'[c]["yestoday"][d].postion = position[c]["yestoday"][d].postion
           /\ position'[c]["yestoday"][d].frozen = position[c]["yestoday"][d].frozen
           /\ position'[c]["today"][d].frozen = position[c]["today"][d].frozen
           /\ position'[c]["today"][d].postion \in Nat
           /\ position'[c]["today"][d].postion >= position[c]["today"][d].postion,
         \A o \in Ids : Resting(o)' => order'[o].offset \in {"open", "clstd"},
         \A c \in Codes, d \in Dirs, o \in Ids : Promised(c, d)'[o] = Promised(c, d)[o]
  PROVE  BookInv'
<1>1. ASSUME NEW c \in Codes, NEW d \in Dirs
      PROVE  /\ position'[c]["today"][d].frozen = SumFunctionOnSet(Promised(c, d)', Ids)
             /\ position'[c]["today"][d].frozen <= position'[c]["today"][d].postion
  <2> DEFINE F == Promised(c, d)
             G == Promised(c, d)'
  <2>1. \A o \in Ids : F[o] = G[o]
    OBVIOUS
  <2>2. position[c]["today"][d].frozen = SumFunctionOnSet(F, Ids)
    BY DEF BookInv, FrozenIsPromised
  <2> HIDE DEF F, G
  <2>3. SumFunctionOnSet(F, Ids) = SumFunctionOnSet(G, Ids)
    BY <2>1, SumSame, FiniteAssumption
  <2>4. position[c]["today"][d].frozen <= position[c]["today"][d].postion
    BY DEF BookInv, FrozenIsPromised
  <2>5. position[c]["today"][d].frozen \in Nat /\ position[c]["today"][d].postion \in Nat
    BY PositionTyped DEF Buckets
  <2>6. position'[c]["today"][d].frozen = SumFunctionOnSet(G, Ids)
    BY <2>2, <2>3
  <2> QED
    BY <2>4, <2>5, <2>6 DEF G
<1>2. FrozenIsPromised'
  BY <1>1 DEF FrozenIsPromised
<1>3. NoneFromYestoday'
  BY DEF BookInv, NoneFromYestoday
<1>4. ClosesToday'
  BY DEF ClosesToday
<1> QED
  BY <1>2, <1>3, <1>4 DEF BookInv

\* A closing order changes, and the frozen lots of its position with it.
LEMMA BookChanged ==
  ASSUME IInv, BookInv, NEW o \in Ids,
         NEW c \in Codes, NEW d \in Dirs,
         order[o].code = c, order[o].direction = d, order[o].offset = "clstd",
         order'[o].code = c, order'[o].direction = d, order'[o].offset = "clstd",
         order'[o].last \in Nat,
         \A p \in Ids \ {o} : order'[p] = order[p] /\ state'[p] = state[p],
         position'[c]["today"][d].frozen <= position'[c]["today"][d].postion,
         position'[c]["today"][d].frozen
           = position[c]["today"][d].frozen - Promised(c, d)[o] + Promised(c, d)'[o],
         \A c2 \in Codes, d2 \in Dirs : c2 # c \/ d2 # d =>
           position'[c2]["today"][d2] = position[c2]["today"][d2],
         \A c2 \in Codes, d2 \in Dirs :
           position'[c2]["yestoday"][d2] = position[c2]["yestoday"][d2]
  PROVE  BookInv'
<1>6. \A c2 \in Codes, d2 \in Dirs, p \in Ids :
        p # o \/ c2 # c \/ d2 # d => Promised(c2, d2)'[p] = Promised(c2, d2)[p]
  BY DEF Promised, Resting
<1>8. position'[c]["today"][d].frozen = SumFunctionOnSet(Promised(c, d)', Ids)
  <2> DEFINE F == Promised(c, d)
             G == Promised(c, d)'
  <2>1. \A p \in Ids : F[p] \in Int
    BY PromisedNat
  <2>2. \A p \in Ids \ {o} : G[p] = F[p]
    BY <1>6
  <2>3. G[o] \in Int
    BY DEF Promised
  <2>4. position[c]["today"][d].frozen = SumFunctionOnSet(F, Ids)
    BY DEF BookInv, FrozenIsPromised
  <2>5. position'[c]["today"][d].frozen = position[c]["today"][d].frozen - F[o] + G[o]
    OBVIOUS
  <2> HIDE DEF F, G
  <2>6. SumFunctionOnSet(G, Ids) = SumFunctionOnSet(F, Ids) - F[o] + G[o]
    BY <2>1, <2>2, <2>3, SumChange, FiniteAssumption
  <2>7. position'[c]["today"][d].frozen = SumFunctionOnSet(G, Ids)
    BY <2>4, <2>5, <2>6
  <2> QED
    BY <2>7 DEF G
<1>9. ASSUME NEW c2 \in Codes, NEW d2 \in Dirs, c2 # c \/ d2 # d
      PROVE  SumFunctionOnSet(Promised(c2, d2)', Ids) = SumFunctionOnSet(Promised(c2, d2), Ids)
  <2> DEFINE F == Promised(c2, d2)
             G == Promised(c2, d2)'
  <2>1. \A p \in Ids : F[p] = G[p]
    BY <1>6, <1>9
  <2> HIDE DEF F, G
  <2>2. SumFunctionOnSet(F, Ids) = SumFunctionOnSet(G, Ids)
    BY <2>1, SumSame, FiniteAssumption
  <2> QED
    BY <2>2 DEF F, G
<1>10. ASSUME NEW c2 \in Codes, NEW d2 \in Dirs
       PROVE  /\ position'[c2]["today"][d2].frozen = SumFunctionOnSet(Promised(c2, d2)', Ids)
              /\ position'[c2]["today"][d2].frozen <= position'[c2]["today"][d2].postion
  <2>1. CASE c2 = c /\ d2 = d
    BY <1>8, <2>1
  <2>2. CASE c2 # c \/ d2 # d
    <3>1. position'[c2]["today"][d2] = position[c2]["today"][d2]
      BY <2>2
    <3>2. SumFunctionOnSet(Promised(c2, d2)', Ids) = SumFunctionOnSet(Promised(c2, d2), Ids)
      BY <1>9, <2>2
    <3>3. /\ position[c2]["today"][d2].frozen = SumFunctionOnSet(Promised(c2, d2), Ids)
          /\ position[c2]["today"][d2].frozen <= position[c2]["today"][d2].postion
      BY DEF BookInv, FrozenIsPromised
    <3> QED
      BY <3>1, <3>2, <3>3
  <2> QED
    BY <2>1, <2>2
<1>11. FrozenIsPromised'
  BY <1>10 DEF FrozenIsPromised
<1>12. NoneFromYestoday'
  BY DEF BookInv, NoneFromYestoday
<1>13. ClosesToday'
  <2> SUFFICES ASSUME NEW p \in Ids, Resting(p)'
               PROVE  order'[p].offset \in {"open", "clstd"}
    BY DEF ClosesToday
  <2>1. CASE p = o
    BY <2>1
  <2>2. CASE p # o
    <3>1. Resting(p) /\ order'[p] = order[p]
      BY <2>2 DEF Resting
    <3> QED
      BY <3>1 DEF BookInv, ClosesToday
  <2> QED
    BY <2>1, <2>2
<1> QED
  BY <1>11, <1>12, <1>13 DEF BookInv

\* What the match of an order leaves of the order and of the book.
New(o) == state[o] = "INVALID"

LEMMA MatchOne ==
  ASSUME IInv, LInv, NEW o \in loop.todo, state[o] \in {"INVALID", "IN_MATCH"},
         MatchOrder(o)
  PROVE  /\ o \in Ids /\ order[o] \in Orders
         /\ order[o].last \in Nat \ {0} /\ Decided(o).deal \in 0..order[o].last
         /\ Killed(o) \in BOOLEAN /\ Killed(o) => Rest(o) > 0
         /\ Rest(o) = order[o].last - Decided(o).deal /\ Rest(o) \in Nat
         /\ order'[o] = [order[o] EXCEPT !.last = Rest(o)]
         /\ state'[o] = IF Rest(o) = 0 \/ Killed(o) THEN "DELETE" ELSE "IN_MATCH"
         /\ told'[o] = [status |-> EndOf(o), left |-> Rest(o)]
         /\ told[o].left = order[o].last /\ told[o].status \in {"placed", "entrusted"}
         /\ \A p \in Ids \ {o} : /\ order'[p] = order[p] /\ state'[p] = state[p]
                                 /\ told'[p] = told[p]
<1>1. o \in Ids /\ order[o] \in Orders /\ seat[o] \in Nat
  BY VisitedTyped
<1>2. Decided(o) \in Matches(order[o])
  BY VisitedTyped, QueueAheadNat, MatchTyped DEF Decided
<1>3. /\ Decided(o).deal \in 0..order[o].last /\ Decided(o).kill \in BOOLEAN
      /\ order[o].last \in Nat \ {0}
  BY <1>1, <1>2 DEF Matches, Orders, LInv
<1>4. /\ Rest(o) = order[o].last - Decided(o).deal /\ Rest(o) \in Nat
      /\ Killed(o) \in BOOLEAN /\ Killed(o) => Rest(o) > 0
  BY <1>3 DEF Rest, Killed
<1> DEFINE end  == EndOf(o)
           next == IF end = "entrusted" THEN "IN_MATCH" ELSE "DELETE"
           rest == [order[o] EXCEPT !.last = Rest(o)]
           life == [status |-> end, left |-> Rest(o)]
<1>5. /\ told[o].left = order[o].last /\ told[o].status \in {"placed", "entrusted"}
      /\ order' = [order EXCEPT ![o] = rest]
      /\ state' = [state EXCEPT ![o] = next]
      /\ told' = [told EXCEPT ![o] = life]
  BY MatchTells
<1>6. next = IF Rest(o) = 0 \/ Killed(o) THEN "DELETE" ELSE "IN_MATCH"
  BY DEF EndOf
<1> HIDE DEF next, rest, life
<1>7. /\ order'[o] = rest /\ state'[o] = next /\ told'[o] = life
      /\ \A p \in Ids \ {o} : /\ order'[p] = order[p] /\ state'[p] = state[p]
                              /\ told'[p] = told[p]
  BY <1>1, <1>5 DEF IInv, TypeOK
<1> QED
  BY <1>1, <1>3, <1>4, <1>5, <1>6, <1>7 DEF rest, life

LEMMA MatchBook ==
  ASSUME IInv, LInv, NEW o \in loop.todo, state[o] \in {"INVALID", "IN_MATCH"},
         MatchOrder(o)
  PROVE  LET x == Matched(Book, order[o], New(o), Decided(o).deal, Killed(o))
         IN account' = x.account /\ position' = x.position
<1> DEFINE r     == order[o]
           m     == Decided(o)
           rest  == [r EXCEPT !.last = r.last - m.deal]
           dealt == Dealt(IF New(o) THEN Freeze(Book, r) ELSE Book, r, m.deal)
           kill  == m.kill /\ rest.last > 0
           book  == IF kill THEN Unfreeze(dealt, rest) ELSE dealt
<1>1. account' = book.account /\ position' = book.position
  BY DEF MatchOrder, Leave, Decided, New
<1>2. rest.last = Rest(o)
  BY VisitedTyped DEF Rest, Orders
<1>3. kill = Killed(o)
  BY <1>2 DEF Killed
<1> HIDE DEF dealt, rest, m, kill
<1>4. book = Matched(Book, r, New(o), m.deal, Killed(o))
  BY <1>3 DEF Matched, dealt, rest, m
<1> QED
  BY SMTT(30), <1>1, <1>4 DEF m

\* A closing order that is visited closes today's lots, and has its own frozen
\* in a position that has them.
LEMMA CloseCovered ==
  ASSUME IInv, LInv, BookInv, NEW o \in loop.todo, HandleMatch(o),
         order[o].offset # "open"
  PROVE  LET item == position[order[o].code]["today"][order[o].direction]
         IN /\ order[o].offset = "clstd"
            /\ order[o].last <= item.frozen + (IF New(o) THEN order[o].last ELSE 0)
            /\ order[o].last + (IF New(o) THEN item.frozen ELSE 0) <= item.postion
<1> DEFINE r == order[o]
           c == r.code
           d == r.direction
           item == position[c]["today"][d]
<1>1. /\ o \in Ids /\ r \in Orders /\ r.last \in Nat /\ c \in Codes /\ d \in Dirs
  BY VisitedTyped, OrderKeys
<1>2. r.last > 0 /\ state[o] \in {"INVALID", "IN_MATCH"}
  BY <1>1 DEF LInv, HandleMatch
<1>3. /\ item.postion \in Nat /\ item.frozen \in Nat
      /\ position[c]["yestoday"][d].postion \in Nat
  BY <1>1, PositionTyped DEF Buckets
<1>4. CASE New(o)
  <2>1. FreezeError(r) = "Success"
    BY <1>4 DEF HandleMatch, New
  <2>2. Usable(position[c][BucketOf(r)][d]) >= r.last
    <3>1. Usable(position[c][BucketOf(r)][d]) \in Int
      BY <1>1, PositionTyped, WrapNat, OrderKeys DEF Usable
    <3> QED
      BY <1>1, <2>1, <3>1 DEF FreezeError
  <2>3. r.offset = "clstd"
    <3>1. SUFFICES ASSUME r.offset # "clstd" PROVE FALSE
      OBVIOUS
    <3>2. Usable(position[c]["yestoday"][d]) = Wrap(0)
      BY <1>1 DEF Usable, BookInv, NoneFromYestoday
    <3>3. Wrap(0) = 0
      BY ModulusAssumption DEF Wrap
    <3> QED
      BY <1>1, <1>2, <2>2, <3>1, <3>2, <3>3 DEF BucketOf
  <2>4. item.frozen <= item.postion
    BY <1>1 DEF BookInv, FrozenIsPromised
  <2>5. item.postion - item.frozen \in Nat
    BY <1>3, <2>4
  <2>6. Wrap(item.postion - item.frozen) \in 0..(item.postion - item.frozen)
    BY <2>5, ModSmall, ModulusAssumption DEF Wrap
  <2>7. Wrap(item.postion - item.frozen) >= r.last
    BY <2>2, <2>3 DEF Usable, BucketOf
  <2>8. r.last + item.frozen <= item.postion
    <3> HIDE DEF item, r
    <3> QED
      BY <1>1, <1>3, <2>6, <2>7
  <2> HIDE DEF item, r
  <2> QED
    BY <1>1, <1>3, <1>4, <2>3, <2>8 DEF r, item
<1>5. CASE ~New(o)
  <2>1. state[o] = "IN_MATCH"
    BY <1>2, <1>5 DEF New
  <2>2. r.offset = "clstd"
    BY <1>1, <2>1 DEF BookInv, ClosesToday, Resting
  <2> DEFINE F == Promised(c, d)
  <2>3. F[o] = r.last
    BY <1>1, <2>1, <2>2 DEF Promised, Resting
  <2>4. \A p \in Ids : F[p] \in Nat
    BY PromisedNat
  <2>5. item.frozen = SumFunctionOnSet(F, Ids) /\ item.frozen <= item.postion
    BY <1>1 DEF BookInv, FrozenIsPromised
  <2> HIDE DEF F
  <2>6. F[o] <= SumFunctionOnSet(F, Ids)
    BY <1>1, <2>4, SumBounds, FiniteAssumption
  <2>7. r.last <= item.frozen
    BY <2>3, <2>5, <2>6
  <2> HIDE DEF item, r
  <2> QED
    BY <1>1, <1>3, <1>5, <2>2, <2>5, <2>7 DEF r, item
<1> QED
  BY <1>4, <1>5

\* A step that leaves the books alone, and of the orders at most whether they
\* are cancelled.
LEMMA BookStays ==
  ASSUME IInv, BookInv, position' = position, order' = order,
         \A o \in Ids : Resting(o)' <=> Resting(o)
  PROVE  BookInv'
<1>1. \A c \in Codes, d \in Dirs :
        /\ position'[c]["yestoday"][d].postion = position[c]["yestoday"][d].postion
        /\ position'[c]["yestoday"][d].frozen = position[c]["yestoday"][d].frozen
        /\ position'[c]["today"][d].frozen = position[c]["today"][d].frozen
        /\ position'[c]["today"][d].postion \in Nat
        /\ position'[c]["today"][d].postion >= position[c]["today"][d].postion
  BY PositionTyped DEF Buckets
<1>2. \A o \in Ids : Resting(o)' => order'[o].offset \in {"open", "clstd"}
  BY DEF BookInv, ClosesToday
<1>3. \A c \in Codes, d \in Dirs, o \in Ids : Promised(c, d)'[o] = Promised(c, d)[o]
  BY DEF Promised
<1> QED
  BY <1>1, <1>2, <1>3, BookKept

\* Whether the opening order o deals and can pay for it.
Pays(o) ==
  Decided(o).deal > 0 /\ account.money >= Decided(o).deal * Fee["open"]

LEMMA MatchOpenLeaves ==
  ASSUME IInv, LInv, NEW o \in loop.todo, HandleMatch(o), order[o].offset = "open"
  PROVE  LET r == order[o]
             v == Decided(o).deal
             item  == position[r.code]["today"][r.direction]
             froze == account.frozen + (IF New(o) THEN Margin(r.last, r.price) ELSE 0)
         IN /\ position' = IF Pays(o)
                           THEN Put(position, r.code, "today", r.direction,
                                    Bought(item, r.price, v))
                           ELSE position
            /\ account'.frozen = IF Killed(o)
                                 THEN froze - Least(Margin(r.last - v, r.price), froze)
                                 ELSE froze
<1> DEFINE r == order[o]
           v == Decided(o).deal
           x == Matched(Book, r, New(o), v, Killed(o))
<1>0. state[o] \in {"INVALID", "IN_MATCH"} /\ MatchOrder(o)
  BY DEF HandleMatch
<1>1. o \in Ids /\ r \in Orders /\ v \in 0..r.last
  BY <1>0, MatchOne
<1>2. position' = x.position /\ account' = x.account
  BY <1>0, MatchBook
<1>3. Book \in Books /\ Book.position = position /\ Book.account = account
  BY BookTyped DEF Book
<1>4. New(o) \in BOOLEAN /\ Killed(o) \in BOOLEAN
  BY DEF New, Killed
<1> QED
  BY <1>1, <1>2, <1>3, <1>4, MatchedOpen DEF Pays

LEMMA MatchOpenBook ==
  ASSUME IInv, LInv, BookInv, NEW o \in loop.todo, HandleMatch(o),
         order[o].offset = "open"
  PROVE  BookInv'
<1> DEFINE r == order[o]
           v == Decided(o).deal
           item == position[r.code]["today"][r.direction]
           bought == Bought(item, r.price, v)
<1>0. state[o] \in {"INVALID", "IN_MATCH"} /\ MatchOrder(o)
  BY DEF HandleMatch
<1>1. /\ o \in Ids /\ r \in Orders /\ v \in 0..r.last
      /\ \A p \in Ids \ {o} : order'[p] = order[p] /\ state'[p] = state[p]
  BY <1>0, MatchOne
<1>2. order'[o] = [r EXCEPT !.last = Rest(o)]
  BY <1>0, MatchOne
<1>5. position' = IF Pays(o) THEN Put(position, r.code, "today", r.direction, bought)
                  ELSE position
  BY MatchOpenLeaves
<1>6. r.code \in Codes /\ r.direction \in Dirs /\ r.price \in Nat /\ r.last \in Nat
  BY <1>1, OrderKeys
<1>7. item \in Items /\ position \in Positions /\ "today" \in Buckets
  BY <1>6, PositionTyped DEF Buckets
<1>8. ASSUME Pays(o)
      PROVE  /\ bought.postion = item.postion + v /\ bought.frozen = item.frozen
             /\ v \in Nat /\ item.postion \in Nat
  <2>1. v \in Nat \ {0}
    BY <1>1, <1>6, <1>8 DEF Pays
  <2> HIDE DEF r, v, item
  <2> QED
    BY <1>6, <1>7, <2>1, BoughtIs DEF Items
<1>9. ASSUME NEW c \in Codes, NEW d \in Dirs
      PROVE  /\ position'[c]["yestoday"][d].postion = position[c]["yestoday"][d].postion
             /\ position'[c]["yestoday"][d].frozen = position[c]["yestoday"][d].frozen
             /\ position'[c]["today"][d].frozen = position[c]["today"][d].frozen
             /\ position'[c]["today"][d].postion \in Nat
             /\ position'[c]["today"][d].postion >= position[c]["today"][d].postion
  <2>1. position[c]["today"][d].postion \in Nat
    BY PositionTyped DEF Buckets
  <2>2. CASE ~Pays(o)
    BY <1>5, <2>1, <2>2
  <2>3. CASE Pays(o)
    <3> HIDE DEF bought, r, item
    <3>1. \A k \in Buckets : position'[c][k][d]
             = IF c = r.code /\ k = "today" /\ d = r.direction THEN bought
               ELSE position[c][k][d]
      BY <1>5, <1>6, <1>7, <2>3, PutAt
    <3>2. position'[c]["yestoday"][d] = position[c]["yestoday"][d]
      BY <3>1 DEF Buckets
    <3>3. CASE c = r.code /\ d = r.direction
      <4>1. position'[c]["today"][d] = bought
        BY <1>7, <3>1, <3>3
      <4>2. position[c]["today"][d] = item
        BY <3>3 DEF item
      <4> QED
        BY <1>8, <2>1, <2>3, <3>2, <4>1, <4>2
    <3>4. CASE ~(c = r.code /\ d = r.direction)
      BY <1>7, <2>1, <3>1, <3>2, <3>4
    <3> QED
      BY <3>3, <3>4
  <2> QED
    BY <2>2, <2>3
<1>10. order'[o].offset = "open"
  BY <1>1, <1>2 DEF Orders
<1>11. \A p \in Ids : Resting(p)' => order'[p].offset \in {"open", "clstd"}
  BY <1>1, <1>10 DEF BookInv, ClosesToday, Resting
<1>12. \A c \in Codes, d \in Dirs, p \in Ids : Promised(c, d)'[p] = Promised(c, d)[p]
  BY SMTT(30), <1>1, <1>10 DEF Promised, Resting
<1> QED
  BY <1>9, <1>11, <1>12, BookKept

LEMMA MatchCloseLeaves ==
  ASSUME IInv, LInv, BookInv, NEW o \in loop.todo, HandleMatch(o),
         order[o].offset # "open"
  PROVE  LET r == order[o]
             v == Decided(o).deal
             item  == position[r.code]["today"][r.direction]
             froze == item.frozen + (IF New(o) THEN r.last ELSE 0)
             left  == IF Killed(o) THEN froze - r.last ELSE froze - v
             now   == position'[r.code]["today"][r.direction]
         IN /\ now.postion = item.postion - v /\ now.frozen = left /\ now.price = item.price
            /\ left \in Nat /\ item.postion - v \in Nat /\ left <= item.postion - v
            /\ \A c \in Codes, k \in Buckets, d \in Dirs :
                 c # r.code \/ k # "today" \/ d # r.direction =>
                   position'[c][k][d] = position[c][k][d]
            /\ account'.frozen = account.frozen - Margin(v, item.price)
<1> DEFINE r == order[o]
           v == Decided(o).deal
           item  == position[r.code]["today"][r.direction]
           froze == item.frozen + (IF New(o) THEN r.last ELSE 0)
           left  == IF Killed(o) THEN froze - r.last ELSE froze - v
           x == Matched(Book, r, New(o), v, Killed(o))
<1>0. state[o] \in {"INVALID", "IN_MATCH"} /\ MatchOrder(o)
  BY DEF HandleMatch
<1>1. /\ o \in Ids /\ r \in Orders /\ v \in 0..r.last
      /\ Rest(o) = r.last - v /\ Rest(o) \in Nat
      /\ state'[o] = IF Rest(o) = 0 \/ Killed(o) THEN "DELETE" ELSE "IN_MATCH"
      /\ \A p \in Ids \ {o} : order'[p] = order[p] /\ state'[p] = state[p]
  BY <1>0, MatchOne
<1>2. order'[o] = [r EXCEPT !.last = Rest(o)]
  BY <1>0, MatchOne
<1>3. position' = x.position /\ account' = x.account
  BY <1>0, MatchBook
<1>4. Killed(o) \in BOOLEAN /\ New(o) \in BOOLEAN
  BY DEF Killed, New
<1>5. Book \in Books /\ Book.position = position /\ Book.account = account
  BY BookTyped DEF Book
<1>6. /\ r.offset = "clstd"
      /\ r.last <= item.frozen + (IF New(o) THEN r.last ELSE 0)
      /\ r.last + (IF New(o) THEN item.frozen ELSE 0) <= item.postion
  BY CloseCovered
<1>7. /\ r.code \in Codes /\ r.direction \in Dirs /\ r.last \in Nat /\ v \in Nat
      /\ BucketOf(r) = "today" /\ "today" \in Buckets
  BY <1>1, <1>6, OrderKeys DEF BucketOf, Buckets
<1>8. /\ item.postion \in Nat /\ item.frozen \in Nat /\ item.frozen <= item.postion
      /\ position \in Positions
  BY <1>7, PositionTyped DEF BookInv, FrozenIsPromised
<1>9. r.last <= item.postion
  BY SMTT(30), <1>6, <1>7, <1>8
<1>10. /\ position' = SetLots(position, r.code, "today", r.direction, item.postion - v, left)
       /\ account'.frozen = account.frozen - Margin(v, item.price)
  <2>1. /\ r.last <= Book.position[r.code][BucketOf(r)][r.direction].frozen
                      + (IF New(o) THEN r.last ELSE 0)
        /\ r.last <= Book.position[r.code][BucketOf(r)][r.direction].postion
        /\ Book.position[r.code][BucketOf(r)][r.direction] = item
        /\ r.offset # "open"
    BY SMTT(30), <1>5, <1>6, <1>7, <1>9
  <2> DEFINE in == Book.position[r.code][BucketOf(r)][r.direction]
             on == in.frozen + (IF New(o) THEN r.last ELSE 0)
  <2>2. /\ x.position = SetLots(Book.position, r.code, BucketOf(r), r.direction,
                                in.postion - v,
                                IF Killed(o) THEN on - r.last ELSE on - v)
        /\ x.account.frozen = Book.account.frozen - Margin(v, in.price)
    <3> HIDE DEF r, v
    <3> QED
      BY <1>1, <1>4, <1>5, <2>1, MatchedClose
  <2> HIDE DEF x
  <2> QED
    BY <1>3, <1>5, <1>7, <2>1, <2>2
<1>11. left \in Nat /\ item.postion - v \in Nat /\ left <= item.postion - v
  <2> HIDE DEF r, v, item
  <2> QED
    BY SMTT(30), <1>1, <1>4, <1>6, <1>7, <1>8, <1>9
<1> DEFINE q == SetLots(position, r.code, "today", r.direction, item.postion - v, left)
<1>12. /\ position'[r.code]["today"][r.direction].postion = item.postion - v
       /\ position'[r.code]["today"][r.direction].frozen = left
       /\ position'[r.code]["today"][r.direction].price = item.price
       /\ \A c \in Codes, k \in Buckets, d \in Dirs :
            c # r.code \/ k # "today" \/ d # r.direction => position'[c][k][d] = position[c][k][d]
  <2>1. /\ q[r.code]["today"][r.direction].postion = item.postion - v
        /\ q[r.code]["today"][r.direction].frozen = left
        /\ q[r.code]["today"][r.direction].price = item.price
        /\ \A c \in Codes, k \in Buckets, d \in Dirs :
             c # r.code \/ k # "today" \/ d # r.direction => q[c][k][d] = position[c][k][d]
    <3> DEFINE lots == item.postion - v
    <3>0. /\ lots \in Nat /\ left \in Nat /\ position \in Positions
          /\ r.code \in Codes /\ "today" \in Buckets /\ r.direction \in Dirs
      <4> HIDE DEF r, v, item, left
      <4> QED
        BY <1>7, <1>8, <1>11
    <3> DEFINE q0 == SetLots(position, r.code, "today", r.direction, lots, left)
    <3>1. /\ q0[r.code]["today"][r.direction].postion = lots
          /\ q0[r.code]["today"][r.direction].frozen = left
          /\ q0[r.code]["today"][r.direction].price
               = position[r.code]["today"][r.direction].price
      <4> HIDE DEF r, v, item, left, lots
      <4> QED
        BY <3>0, SetLotsAt
    <3>2. ASSUME NEW c \in Codes, NEW k \in Buckets, NEW d \in Dirs,
                 c # r.code \/ k # "today" \/ d # r.direction
          PROVE  q0[c][k][d] = position[c][k][d]
      <4> HIDE DEF r, v, item, left, lots
      <4> QED
        BY <3>0, <3>2, SetLotsElse
    <3>3. q0 = q
      <4> HIDE DEF r, v, item, left
      <4> QED
        OBVIOUS
    <3> HIDE DEF q0, q, r, v, left
    <3> QED
      BY <3>1, <3>2, <3>3
  <2>2. position' = q
    <3> HIDE DEF left, item, v, r
    <3> QED
      BY <1>10
  <2> HIDE DEF q, left, item, v, r
  <2> QED
    BY <2>1, <2>2
<1> HIDE DEF r, v, item, left
<1> QED
  BY <1>10, <1>11, <1>12 DEF r, v, item, left

LEMMA MatchCloseBook ==
  ASSUME IInv, LInv, BookInv, NEW o \in loop.todo, HandleMatch(o),
         order[o].offset # "open"
  PROVE  BookInv'
<1> DEFINE r == order[o]
           v == Decided(o).deal
           item  == position[r.code]["today"][r.direction]
           froze == item.frozen + (IF New(o) THEN r.last ELSE 0)
           left  == IF Killed(o) THEN froze - r.last ELSE froze - v
<1>0. state[o] \in {"INVALID", "IN_MATCH"} /\ MatchOrder(o)
  BY DEF HandleMatch
<1>1. /\ o \in Ids /\ r \in Orders /\ v \in 0..r.last
      /\ Rest(o) = r.last - v /\ Rest(o) \in Nat
      /\ state'[o] = IF Rest(o) = 0 \/ Killed(o) THEN "DELETE" ELSE "IN_MATCH"
      /\ \A p \in Ids \ {o} : order'[p] = order[p] /\ state'[p] = state[p]
  BY <1>0, MatchOne
<1>2. order'[o] = [r EXCEPT !.last = Rest(o)]
  BY <1>0, MatchOne
<1>4. Killed(o) \in BOOLEAN /\ New(o) \in BOOLEAN
  BY DEF Killed, New
<1>6. r.offset = "clstd"
  BY CloseCovered
<1>7. r.code \in Codes /\ r.direction \in Dirs /\ r.last \in Nat /\ v \in Nat
  BY <1>1, OrderKeys
<1>8. item.postion \in Nat /\ item.frozen \in Nat
  BY <1>7, PositionTyped DEF Buckets
<1>11. left \in Nat /\ item.postion - v \in Nat /\ left <= item.postion - v
  BY MatchCloseLeaves
<1>12. /\ position'[r.code]["today"][r.direction].postion = item.postion - v
       /\ position'[r.code]["today"][r.direction].frozen = left
       /\ \A c \in Codes, k \in Buckets, d \in Dirs :
            c # r.code \/ k # "today" \/ d # r.direction => position'[c][k][d] = position[c][k][d]
  BY MatchCloseLeaves
<1>13. /\ order'[o].code = r.code /\ order'[o].direction = r.direction
       /\ order'[o].offset = "clstd" /\ order'[o].last = Rest(o)
  BY <1>1, <1>2, <1>6 DEF Orders
<1>14. Promised(r.code, r.direction)[o] = IF New(o) THEN 0 ELSE r.last
  BY <1>0, <1>1, <1>6 DEF Promised, Resting, New
<1>15. ASSUME NEW c, NEW d, c = r.code, d = r.direction
       PROVE  Promised(c, d)'[o] = IF Killed(o) THEN 0 ELSE Rest(o)
  BY <1>1, <1>13, <1>15 DEF Promised, Resting
<1>16. ASSUME NEW c \in Codes, NEW d \in Dirs, c = r.code, d = r.direction
       PROVE  BookInv'
  <2>1. left = item.frozen - Promised(c, d)[o] + Promised(c, d)'[o]
    <3>1. Promised(c, d)[o] = IF New(o) THEN 0 ELSE r.last
      BY <1>14, <1>16
    <3>2. Promised(c, d)'[o] = IF Killed(o) THEN 0 ELSE Rest(o)
      BY <1>15, <1>16
    <3> HIDE DEF r, v, item
    <3> QED
      BY <1>1, <1>4, <1>7, <1>8, <3>1, <3>2
  <2>2. /\ position'[c]["today"][d].frozen = left
        /\ position'[c]["today"][d].postion = item.postion - v
        /\ position[c]["today"][d].frozen = item.frozen
    BY <1>12, <1>16
  <2>3. /\ position'[c]["today"][d].frozen <= position'[c]["today"][d].postion
        /\ position'[c]["today"][d].frozen
             = position[c]["today"][d].frozen - Promised(c, d)[o] + Promised(c, d)'[o]
    <3> HIDE DEF left, item, v
    <3> QED
      BY <1>11, <2>1, <2>2
  <2>4. /\ \A c2 \in Codes, d2 \in Dirs : c2 # c \/ d2 # d =>
             position'[c2]["today"][d2] = position[c2]["today"][d2]
        /\ \A c2 \in Codes, d2 \in Dirs :
             position'[c2]["yestoday"][d2] = position[c2]["yestoday"][d2]
    <3> HIDE DEF r, left, item, v
    <3> QED
      BY <1>12, <1>16 DEF Buckets
  <2>5. /\ order[o].code = c /\ order[o].direction = d /\ order[o].offset = "clstd"
        /\ order'[o].code = c /\ order'[o].direction = d /\ order'[o].offset = "clstd"
        /\ order'[o].last \in Nat
    BY <1>1, <1>6, <1>13, <1>16
  <2> HIDE DEF r, v, item, left
  <2> QED
    BY <1>1, <2>3, <2>4, <2>5, BookChanged
<1> QED
  BY <1>7, <1>16

\* Whether a cancelled order gets its deduction back.
Thaws(o) == order[o].last > 0 /\ CanUnfreeze(Book, order[o])

LEMMA CanceledLeaves ==
  ASSUME IInv, NEW o \in loop.todo, HandleCanceled(o)
  PROVE  /\ o \in Ids /\ order[o] \in Orders /\ state[o] = "CANELED"
         /\ order' = order
         /\ state'[o] = IF Thaws(o) THEN "DELETE" ELSE "CANELED"
         /\ \A p \in Ids \ {o} : state'[p] = state[p]
         /\ position' = IF Thaws(o) THEN Unfreeze(Book, order[o]).position ELSE position
         /\ account' = IF Thaws(o) THEN Unfreeze(Book, order[o]).account ELSE account
<1>1. o \in Ids /\ order[o] \in Orders /\ state[o] = "CANELED"
  BY VisitedTyped DEF HandleCanceled
<1>2. /\ position' = IF Thaws(o) THEN Unfreeze(Book, order[o]).position ELSE position
      /\ account' = IF Thaws(o) THEN Unfreeze(Book, order[o]).account ELSE account
      /\ order' = [order EXCEPT ![o] = order[o]]
      /\ state' = [state EXCEPT ![o] = IF Thaws(o) THEN "DELETE" ELSE "CANELED"]
  BY DEF HandleCanceled, Leave, Book, Thaws
<1>3. /\ order' = order
      /\ state'[o] = IF Thaws(o) THEN "DELETE" ELSE "CANELED"
      /\ \A p \in Ids \ {o} : state'[p] = state[p]
  BY SMTT(30), <1>1, <1>2 DEF IInv, TypeOK
<1> QED
  BY <1>1, <1>2, <1>3

LEMMA CanceledCloseLeaves ==
  ASSUME IInv, BookInv, NEW o \in loop.todo, HandleCanceled(o), Thaws(o),
         order[o].offset # "open"
  PROVE  LET r == order[o]
             item  == position[r.code]["today"][r.direction]
             now   == position'[r.code]["today"][r.direction]
         IN /\ r.offset = "clstd" /\ r.last <= item.frozen
            /\ now.postion = item.postion /\ now.price = item.price
            /\ now.frozen = item.frozen - r.last
            /\ \A c \in Codes, k \in Buckets, d \in Dirs :
                 c # r.code \/ k # "today" \/ d # r.direction =>
                   position'[c][k][d] = position[c][k][d]
            /\ account' = account
<1> DEFINE r == order[o]
           u == Unfreeze(Book, r)
           item == position[r.code]["today"][r.direction]
           left == item.frozen - Least(r.last, item.frozen)
           q == SetLots(position, r.code, "today", r.direction, item.postion, left)
<1>1. /\ o \in Ids /\ r \in Orders /\ state[o] = "CANELED"
      /\ position' = u.position /\ account' = u.account
  BY CanceledLeaves
<1>2. Book \in Books /\ Book.position = position /\ Book.account = account
  BY BookTyped DEF Book
<1>3. r.code \in Codes /\ r.direction \in Dirs /\ r.last \in Nat
  BY <1>1, OrderKeys
<1>4. r.offset = "clstd" /\ BucketOf(r) = "today" /\ "today" \in Buckets
  BY <1>1 DEF BookInv, ClosesToday, Resting, BucketOf, Buckets
<1>5. item.postion \in Nat /\ item.frozen \in Nat /\ position \in Positions
  BY <1>3, <1>4, PositionTyped
<1>6. position' = q /\ account' = account
  BY <1>1, <1>2, <1>4, UnfreezeClose
<1>7. Promised(r.code, r.direction)[o] = r.last
  BY <1>1, <1>4 DEF Promised, Resting
<1>8. r.last <= item.frozen
  <2> DEFINE F == Promised(r.code, r.direction)
  <2>1. \A p \in Ids : F[p] \in Nat
    BY PromisedNat
  <2>2. item.frozen = SumFunctionOnSet(F, Ids)
    BY <1>3 DEF BookInv, FrozenIsPromised
  <2> HIDE DEF F
  <2>3. F[o] <= SumFunctionOnSet(F, Ids)
    BY <1>1, <2>1, SumBounds, FiniteAssumption
  <2> QED
    BY <1>7, <2>2, <2>3 DEF F
<1>9. left = item.frozen - r.last /\ left \in Nat
  <2> HIDE DEF item, r
  <2> QED
    BY <1>3, <1>5, <1>8 DEF Least
<1>10. /\ q[r.code]["today"][r.direction].postion = item.postion
       /\ q[r.code]["today"][r.direction].frozen = left
       /\ q[r.code]["today"][r.direction].price
            = position[r.code]["today"][r.direction].price
  <2> HIDE DEF r, item, left
  <2> QED
    BY SMTT(30), <1>3, <1>4, <1>5, <1>9, SetLotsAt
<1>11. \A c \in Codes, k \in Buckets, d \in Dirs :
         c # r.code \/ k # "today" \/ d # r.direction => q[c][k][d] = position[c][k][d]
  <2> HIDE DEF r, item, left
  <2> QED
    BY <1>3, <1>4, <1>5, <1>9, SetLotsElse
<1> HIDE DEF q, left
<1> QED
  BY <1>4, <1>6, <1>8, <1>9, <1>10, <1>11

LEMMA CanceledBook ==
  ASSUME IInv, LInv, BookInv, NEW o \in loop.todo, HandleCanceled(o) PROVE BookInv'
<1> DEFINE r == order[o]
           item == position[r.code]["today"][r.direction]
<1>1. o \in Ids /\ r \in Orders /\ state[o] = "CANELED"
  BY CanceledLeaves
<1>2. /\ order' = order
      /\ state'[o] = IF Thaws(o) THEN "DELETE" ELSE "CANELED"
      /\ \A p \in Ids \ {o} : state'[p] = state[p]
  BY CanceledLeaves
<1>3. Book \in Books /\ Book.position = position
  BY BookTyped DEF Book
<1>4. CASE ~Thaws(o)
  <2>1. position' = position
    BY <1>4, CanceledLeaves
  <2>2. \A p \in Ids : Resting(p)' <=> Resting(p)
    BY <1>1, <1>2, <1>4 DEF Resting
  <2> QED
    BY <1>2, <2>1, <2>2, BookStays
<1>5. CASE Thaws(o) /\ r.offset = "open"
  <2>1. position' = position
    BY <1>1, <1>3, <1>5, CanceledLeaves, UnfreezeOpen
  <2>2. \A c \in Codes, d \in Dirs : position[c]["today"][d].postion \in Nat
    BY PositionTyped DEF Buckets
  <2>3. \A c \in Codes, d \in Dirs, p \in Ids : Promised(c, d)'[p] = Promised(c, d)[p]
    BY <1>1, <1>2, <1>5 DEF Promised, Resting
  <2>4. \A p \in Ids : Resting(p)' => order'[p].offset \in {"open", "clstd"}
    BY <1>1, <1>2, <1>5 DEF BookInv, ClosesToday, Resting
  <2>5. \A c \in Codes, d \in Dirs :
          /\ position'[c]["yestoday"][d].postion = position[c]["yestoday"][d].postion
          /\ position'[c]["yestoday"][d].frozen = position[c]["yestoday"][d].frozen
          /\ position'[c]["today"][d].frozen = position[c]["today"][d].frozen
          /\ position'[c]["today"][d].postion \in Nat
          /\ position'[c]["today"][d].postion >= position[c]["today"][d].postion
    BY <2>1, <2>2
  <2> QED
    BY <2>3, <2>4, <2>5, BookKept
<1>6. CASE Thaws(o) /\ r.offset # "open"
  <2>1. /\ r.offset = "clstd" /\ r.last <= item.frozen
        /\ position'[r.code]["today"][r.direction].postion = item.postion
        /\ position'[r.code]["today"][r.direction].frozen = item.frozen - r.last
        /\ \A c \in Codes, k \in Buckets, d \in Dirs :
             c # r.code \/ k # "today" \/ d # r.direction => position'[c][k][d] = position[c][k][d]
    BY <1>6, CanceledCloseLeaves
  <2>2. r.code \in Codes /\ r.direction \in Dirs /\ r.last \in Nat
    BY <1>1, OrderKeys
  <2>3. /\ item.postion \in Nat /\ item.frozen \in Nat /\ item.frozen <= item.postion
    BY <2>2, PositionTyped DEF BookInv, FrozenIsPromised, Buckets
  <2>4. ASSUME NEW c \in Codes, NEW d \in Dirs, c = r.code, d = r.direction
        PROVE  BookInv'
    <3>1. Promised(c, d)[o] = r.last /\ Promised(c, d)'[o] = 0
      BY <1>1, <1>2, <1>6, <2>1, <2>4 DEF Promised, Resting
    <3>2. /\ position'[c]["today"][d].frozen = item.frozen - r.last
          /\ position'[c]["today"][d].postion = item.postion
          /\ position[c]["today"][d].frozen = item.frozen
      BY <2>1, <2>4
    <3>3. /\ position'[c]["today"][d].frozen <= position'[c]["today"][d].postion
          /\ position'[c]["today"][d].frozen
               = position[c]["today"][d].frozen - Promised(c, d)[o] + Promised(c, d)'[o]
      <4> HIDE DEF item, r
      <4> QED
        BY <2>2, <2>3, <3>1, <3>2
    <3>4. /\ \A c2 \in Codes, d2 \in Dirs : c2 # c \/ d2 # d =>
               position'[c2]["today"][d2] = position[c2]["today"][d2]
          /\ \A c2 \in Codes, d2 \in Dirs :
               position'[c2]["yestoday"][d2] = position[c2]["yestoday"][d2]
      <4> HIDE DEF r, item
      <4> QED
        BY <2>1, <2>4 DEF Buckets
    <3>5. /\ order[o].code = c /\ order[o].direction = d /\ order[o].offset = "clstd"
          /\ order'[o].code = c /\ order'[o].direction = d /\ order'[o].offset = "clstd"
          /\ order'[o].last \in Nat
      BY <1>2, <2>1, <2>2, <2>4
    <3>6. \A p \in Ids \ {o} : order'[p] = order[p] /\ state'[p] = state[p]
      BY <1>2
    <3> HIDE DEF r, item
    <3> QED
      BY <1>1, <3>3, <3>4, <3>5, <3>6, BookChanged
  <2> QED
    BY <2>2, <2>4
<1> QED
  BY <1>4, <1>5, <1>6

LEMMA RefusedBook ==
  ASSUME IInv, LInv, BookInv, NEW o \in loop.todo, HandleRefused(o) PROVE BookInv'
<1>1. o \in Ids /\ state[o] = "INVALID"
  BY VisitedTyped DEF HandleRefused
<1>2. /\ position' = position /\ order' = [order EXCEPT ![o] = order[o]]
      /\ state' = [state EXCEPT ![o] = "DELETE"]
  BY DEF HandleRefused, Leave, Book
<1>3. /\ order' = order /\ state'[o] = "DELETE"
      /\ \A p \in Ids \ {o} : state'[p] = state[p]
  BY <1>1, <1>2 DEF IInv, TypeOK
<1>4. \A p \in Ids : Resting(p)' <=> Resting(p)
  BY <1>1, <1>3 DEF Resting
<1> QED
  BY <1>2, <1>3, <1>4, BookStays

LEMMA PlaceBook ==
  ASSUME IInv, BookInv, NEW o \in Ids, PlaceOrder(o) PROVE BookInv'
<1>1. state[o] = "erased"
  BY DEF PlaceOrder, IInv
<1>2. PICK r : order' = [order EXCEPT ![o] = r]
  BY DEF PlaceOrder
<1>3. state' = [state EXCEPT ![o] = "INVALID"] /\ position' = position
  BY DEF PlaceOrder, bookVars
<1>4. /\ state'[o] = "INVALID"
      /\ \A p \in Ids \ {o} : state'[p] = state[p] /\ order'[p] = order[p]
  BY <1>2, <1>3 DEF IInv, TypeOK
<1>5. \A c \in Codes, d \in Dirs :
        /\ position'[c]["yestoday"][d].postion = position[c]["yestoday"][d].postion
        /\ position'[c]["yestoday"][d].frozen = position[c]["yestoday"][d].frozen
        /\ position'[c]["today"][d].frozen = position[c]["today"][d].frozen
        /\ position'[c]["today"][d].postion \in Nat
        /\ position'[c]["today"][d].postion >= position[c]["today"][d].postion
  BY <1>3, PositionTyped DEF Buckets
<1>6. \A p \in Ids : Resting(p)' => order'[p].offset \in {"open", "clstd"}
  BY <1>4 DEF BookInv, ClosesToday, Resting
<1>7. \A c \in Codes, d \in Dirs, p \in Ids : Promised(c, d)'[p] = Promised(c, d)[p]
  BY <1>1, <1>4 DEF Promised, Resting
<1> QED
  BY <1>5, <1>6, <1>7, BookKept

\* What crossday leaves: nothing was held from yesterday, so today's positions
\* stay what they were, and every order in the match is cancelled.
LEMMA CrossdayLeaves ==
  ASSUME IInv, LInv, BookInv, Crossday
  PROVE  /\ \A c \in Codes, d \in Dirs :
              /\ position'[c]["today"][d] = position[c]["today"][d]
              /\ position'[c]["yestoday"][d].postion = 0
              /\ position'[c]["yestoday"][d].frozen = 0
         /\ \A o \in Ids : Resting(o)' <=> Resting(o)
         /\ order' = order /\ account' = account /\ told' = told
<1>1. ASSUME NEW c \in Codes, NEW d \in Dirs
      PROVE  /\ position'[c]["today"][d] = position[c]["today"][d]
             /\ position'[c]["yestoday"][d].postion = 0
             /\ position'[c]["yestoday"][d].frozen = 0
  <2>1. /\ position[c]["yestoday"][d].postion = 0
        /\ position[c]["yestoday"][d].frozen = 0
    BY DEF BookInv, NoneFromYestoday
  <2>2. CASE c \notin Distinct \cap held
    BY <2>1, <2>2 DEF Crossday
  <2>3. CASE c \in Distinct \cap held
    <3>1. \A b \in Buckets : position'[c][b][d] =
            IF b = "today"
            THEN Merged(position[c]["today"][d], position[c]["yestoday"][d])
            ELSE [position[c]["yestoday"][d] EXCEPT !.postion = 0, !.frozen = 0]
      BY <2>3 DEF Crossday
    <3>2. position'[c]["today"][d] = Merged(position[c]["today"][d], position[c]["yestoday"][d])
      BY <3>1 DEF Buckets
    <3>3. position'[c]["yestoday"][d] =
            [position[c]["yestoday"][d] EXCEPT !.postion = 0, !.frozen = 0]
      BY <3>1 DEF Buckets
    <3>4. position[c]["yestoday"][d] \in Items
      BY PositionTyped DEF Buckets
    <3>5. position'[c]["yestoday"][d].postion = 0 /\ position'[c]["yestoday"][d].frozen = 0
      BY <3>3, <3>4 DEF Items
    <3>6. position'[c]["today"][d] = position[c]["today"][d]
      BY <2>1, <3>2 DEF Merged
    <3> QED
      BY <3>5, <3>6
  <2> QED
    BY <2>2, <2>3
<1>2. state' = [o \in Ids |-> IF Cancelable(o) THEN "CANELED" ELSE state[o]]
  BY DEF Crossday
<1>3. \A o \in Ids : state[o] # "DELETE" /\ state[o] \in States
  BY DEF LInv, IInv, TypeOK, Crossday, Quiet, Idle
<1>4. \A o \in Ids : Resting(o)' <=> Resting(o)
  BY <1>2, <1>3 DEF Resting, Cancelable, States
<1> QED
  BY <1>1, <1>4 DEF Crossday

LEMMA CrossdayBook == ASSUME IInv, LInv, BookInv, Crossday PROVE BookInv'
<1>1. \A c \in Codes, d \in Dirs :
        /\ position'[c]["yestoday"][d].postion = position[c]["yestoday"][d].postion
        /\ position'[c]["yestoday"][d].frozen = position[c]["yestoday"][d].frozen
        /\ position'[c]["today"][d].frozen = position[c]["today"][d].frozen
        /\ position'[c]["today"][d].postion \in Nat
        /\ position'[c]["today"][d].postion >= position[c]["today"][d].postion
  BY CrossdayLeaves, PositionTyped DEF Buckets, BookInv, NoneFromYestoday
<1>2. \A o \in Ids : Resting(o)' => order'[o].offset \in {"open", "clstd"}
  BY CrossdayLeaves DEF BookInv, ClosesToday
<1>3. \A c \in Codes, d \in Dirs, o \in Ids : Promised(c, d)'[o] = Promised(c, d)[o]
  BY CrossdayLeaves DEF Promised
<1> QED
  BY <1>1, <1>2, <1>3, BookKept

LEMMA BookStep ==
  ASSUME IInv, LInv, BookInv, ~CancelsEnded, [Next]_vars PROVE BookInv'
<1>1. CASE \E c \in Codes : PushTick(c)
  <2>1. UNCHANGED <<order, state, position>>
    BY <1>1 DEF PushTick, orderVars, bookVars
  <2> QED
    BY <2>1, BookStays DEF Resting
<1>2. CASE \E o \in Ids : PlaceOrder(o)
  BY <1>2, PlaceBook
<1>3. CASE \E o \in Ids : CancelOrder(o)
  <2>1. PICK o \in Ids : CancelOrder(o)
    BY <1>3
  <2>2. /\ told[o].status = "entrusted" /\ state[o] \notin {"erased", "INVALID"}
        /\ state' = [state EXCEPT ![o] = "CANELED"] /\ UNCHANGED <<order, position>>
    BY <2>1 DEF CancelOrder, Cancelable, bookVars
  <2>3. state[o] \in {"IN_MATCH", "CANELED"}
    BY <2>2 DEF IInv, TypeOK, States, LInv, Lifecycle!Ended
  <2>4. \A p \in Ids : Resting(p)' <=> Resting(p)
    BY <2>2, <2>3 DEF Resting, IInv, TypeOK
  <2> QED
    BY <2>2, <2>4, BookStays
<1>4. CASE Crossday
  BY <1>4, CrossdayBook
<1>5. CASE BeginUpdate \/ MatchEntrust
  <2>1. UNCHANGED <<order, state, position>>
    BY <1>5 DEF BeginUpdate, MatchEntrust, orderVars, bookVars
  <2> QED
    BY <2>1, BookStays DEF Resting
<1>6. CASE HandleEntrust
  <2>1. PICK o \in loop.todo : HandleCanceled(o) \/ HandleRefused(o) \/ HandleMatch(o)
    BY <1>6 DEF HandleEntrust
  <2> QED
    BY <2>1, CanceledBook, RefusedBook, MatchOpenBook, MatchCloseBook
<1>7. CASE Sweep
  <2>1. /\ state' = [o \in Ids |-> IF state[o] = "DELETE" THEN "erased" ELSE state[o]]
        /\ UNCHANGED <<order, position>>
    BY <1>7 DEF Sweep, bookVars
  <2>2. \A o \in Ids : Resting(o)' <=> Resting(o)
    BY <2>1 DEF Resting
  <2> QED
    BY <2>1, <2>2, BookStays
<1>8. CASE UNCHANGED vars
  <2>1. UNCHANGED <<order, state, position>>
    BY <1>8 DEF vars, orderVars, bookVars
  <2> QED
    BY <2>1, BookStays DEF Resting
<1> QED
  BY <1>1, <1>2, <1>3, <1>4, <1>5, <1>6, <1>7, <1>8 DEF Next, Update

LEMMA InitBook == Init => BookInv
<1> SUFFICES ASSUME Init PROVE BookInv
  OBVIOUS
<1>1. \A c \in Codes, k \in Buckets, d \in Dirs :
        position[c][k][d].postion = 0 /\ position[c][k][d].frozen = 0
  BY DEF Init, NoItem
<1>2. \A o \in Ids : ~Resting(o)
  BY DEF Init, Resting
<1>3. ASSUME NEW c \in Codes, NEW d \in Dirs
      PROVE  SumFunctionOnSet(Promised(c, d), Ids) = 0
  <2>1. \A o \in Ids : Promised(c, d)[o] = 0
    BY <1>2 DEF Promised
  <2> QED
    BY <2>1, SumZero, FiniteAssumption
<1> QED
  BY <1>1, <1>2, <1>3 DEF BookInv, NoneFromYestoday, ClosesToday, FrozenIsPromised, Buckets

LEMMA BookAlways == ASSUME ~CancelsEnded PROVE Spec => [](IInv /\ LInv /\ BookInv)
<1>1. Init => LInv /\ BookInv
  BY InitLInv, InitBook
<1>2. IInv /\ LInv /\ BookInv /\ [Next]_vars => LInv' /\ BookInv'
  BY NextStep, BookStep
<1> QED
  BY <1>1, <1>2, IInvAlways, PTL DEF Spec

LEMMA FrozenBacks == IInv /\ BookInv => FrozenBacksCloses
<1> SUFFICES ASSUME IInv, BookInv, NEW c \in Codes, NEW b \in Buckets, NEW d \in Dirs
             PROVE  /\ position[c][b][d].frozen =
                         SumFunctionOnSet([o \in Ids |-> order[o].last], CloseOrders(c, b, d))
                    /\ position[c][b][d].frozen <= position[c][b][d].postion
  BY DEF FrozenBacksCloses
<1> DEFINE f == [o \in Ids |-> order[o].last]
           R == CloseOrders(c, b, d)
           g == [o \in Ids |-> IF o \in R THEN f[o] ELSE 0]
<1>1. \A o \in Ids : f[o] \in Int
  BY DEF IInv, TypeOK, OrderInfos
<1>2. CASE b = "today"
  <2>1. R \subseteq Ids
    BY DEF CloseOrders
  <2>2. ASSUME NEW o \in Ids PROVE g[o] = Promised(c, d)[o]
    <3>1. o \in R <=> /\ Resting(o) /\ order[o].offset = "clstd"
                      /\ order[o].code = c /\ order[o].direction = d
      BY <1>2 DEF CloseOrders, BucketOf
    <3> QED
      BY <3>1 DEF Promised
  <2> DEFINE p == Promised(c, d)
  <2>3. \A o \in Ids : g[o] = p[o]
    BY <2>2
  <2>4. /\ position[c][b][d].frozen = SumFunctionOnSet(p, Ids)
        /\ position[c][b][d].frozen <= position[c][b][d].postion
    BY <1>2 DEF BookInv, FrozenIsPromised
  <2>5. SumFunctionOnSet(f, R) = SumFunctionOnSet(g, Ids)
    <3> HIDE DEF f, R
    <3> QED
      BY <1>1, <2>1, SumWithin, FiniteAssumption
  <2> HIDE DEF f, R, g, p
  <2>6. SumFunctionOnSet(g, Ids) = SumFunctionOnSet(p, Ids)
    BY <2>3, SumSame, FiniteAssumption
  <2>7. position[c][b][d].frozen = SumFunctionOnSet(f, R)
    BY <2>4, <2>5, <2>6
  <2> QED
    BY <2>4, <2>7 DEF f, R
<1>3. CASE b = "yestoday"
  <2>1. R = {}
    BY <1>3 DEF BookInv, ClosesToday, CloseOrders, BucketOf
  <2>2. position[c][b][d].postion = 0 /\ position[c][b][d].frozen = 0
    BY <1>3 DEF BookInv, NoneFromYestoday
  <2> HIDE DEF f, R
  <2>3. SumFunctionOnSet(f, R) = 0
    BY <2>1, SumEmpty
  <2>4. position[c][b][d].frozen = SumFunctionOnSet(f, R)
    BY <2>2, <2>3
  <2> QED
    BY <2>2, <2>4 DEF f, R
<1> QED
  BY <1>2, <1>3 DEF Buckets

\* The lots that are frozen in a position are, at every moment, the lots that
\* the closing orders in the match still wait for, and the position has them:
\* no lot is promised twice, whatever is matched, killed, cancelled or carried
\* over a day.
THEOREM FrozenLotsBackCloses == ASSUME ~CancelsEnded PROVE Spec => []FrozenBacksCloses
BY FrozenBacks, BookAlways, PTL

-----------------------------------------------------------------------------
(* Margin: arithmetic *)

LEMMA Distributes ==
  ASSUME NEW a \in Int, NEW b \in Int, NEW n \in Int
  PROVE  (a + b) * n = a * n + b * n
OBVIOUS

LEMMA Monotone ==
  ASSUME NEW a \in Int, NEW b \in Int, NEW n \in Nat, a <= b
  PROVE  a * n <= b * n
OBVIOUS

\* The margin of so much value: of lots times price.
OnValue(s) == s * Multiple * MarginNum

LEMMA OnValueSum ==
  ASSUME NEW a \in Nat, NEW b \in Nat
  PROVE  /\ OnValue(a) \in Nat
         /\ OnValue(a + b) = OnValue(a) + OnValue(b)
         /\ a <= b => OnValue(a) <= OnValue(b)
<1>1. Multiple \in Nat /\ MarginNum \in Nat
  BY MoneyAssumption
<1>2. a * Multiple \in Nat /\ b * Multiple \in Nat
  BY <1>1, MulNat
<1>3. OnValue(a) \in Nat
  BY <1>1, <1>2, MulNat DEF OnValue
<1>4. OnValue(a + b) = OnValue(a) + OnValue(b)
  <2>1. (a + b) * Multiple = a * Multiple + b * Multiple
    BY <1>1, Distributes
  <2>2. (a * Multiple + b * Multiple) * MarginNum
          = a * Multiple * MarginNum + b * Multiple * MarginNum
    BY <1>1, <1>2, Distributes
  <2> QED
    BY <2>1, <2>2 DEF OnValue
<1>5. ASSUME a <= b PROVE OnValue(a) <= OnValue(b)
  <2>1. a * Multiple <= b * Multiple
    BY <1>1, <1>5, Monotone
  <2> QED
    BY <1>1, <1>2, <2>1, Monotone DEF OnValue
<1> QED
  BY <1>3, <1>4, <1>5

LEMMA MarginOnValue ==
  ASSUME NEW v \in Nat, NEW p \in Nat
  PROVE  v * p \in Nat /\ Margin(v, p) = OnValue(v * p)
BY MulNat DEF Margin, OnValue

LEMMA MarginSplits ==
  ASSUME NEW v \in Nat, NEW w \in Nat, NEW p \in Nat
  PROVE  Margin(v + w, p) = Margin(v, p) + Margin(w, p)
<1>1. (v + w) * p = v * p + w * p
  BY Distributes
<1>2. v * p \in Nat /\ w * p \in Nat /\ v + w \in Nat
  BY MulNat
<1>3. /\ Margin(v + w, p) = OnValue((v + w) * p)
      /\ Margin(v, p) = OnValue(v * p) /\ Margin(w, p) = OnValue(w * p)
  BY <1>2, MarginOnValue
<1>4. OnValue(v * p + w * p) = OnValue(v * p) + OnValue(w * p)
  BY <1>2, OnValueSum
<1> QED
  BY <1>1, <1>3, <1>4

\* The lots of an item and the v lots it buys have at least the margin of the
\* item they become, and no other when the average price is not rounded.
LEMMA MarginOfBought ==
  ASSUME NEW i \in Items, NEW p \in Nat, NEW v \in Nat \ {0}
  PROVE  LET j == Bought(i, p, v)
         IN /\ Margin(j.postion, j.price) <= Margin(i.postion, i.price) + Margin(v, p)
            /\ j.postion * j.price = i.postion * i.price + v * p =>
                 Margin(j.postion, j.price) = Margin(i.postion, i.price) + Margin(v, p)
<1> DEFINE n == i.postion + v
           s == i.postion * i.price + p * v
           avg == s \div n
<1>1. i.postion \in Nat /\ i.price \in Nat /\ n \in Nat \ {0}
  BY DEF Items
<1>2. i.postion * i.price \in Nat /\ p * v \in Nat /\ v * p = p * v
  BY <1>1, MulNat
<1>3. s \in Nat
  BY <1>2
<1>4. avg \in Nat /\ n * avg <= s
  <2> HIDE DEF s, n
  <2> QED
    BY <1>1, <1>3
<1>5. Bought(i, p, v).postion = n /\ Bought(i, p, v).price = avg
  BY BoughtIs
<1>6. n * avg \in Nat
  <2> HIDE DEF avg, n
  <2> QED
    BY <1>1, <1>4, MulNat
<1> HIDE DEF avg
<1>7. Margin(n, avg) = OnValue(n * avg)
  <2> HIDE DEF n
  <2> QED
    BY <1>1, <1>4, MarginOnValue
<1>8. /\ Margin(i.postion, i.price) = OnValue(i.postion * i.price)
      /\ Margin(v, p) = OnValue(v * p)
  BY <1>1, MarginOnValue
<1>9. OnValue(s) = OnValue(i.postion * i.price) + OnValue(v * p)
  BY <1>2, OnValueSum
<1>10. OnValue(n * avg) <= OnValue(s)
  <2> HIDE DEF n, s
  <2> QED
    BY <1>3, <1>4, <1>6, OnValueSum
<1>11. i.postion * i.price + v * p = s
  BY <1>2
<1>12. /\ Margin(n, avg) <= Margin(i.postion, i.price) + Margin(v, p)
       /\ n * avg = i.postion * i.price + v * p =>
            Margin(n, avg) = Margin(i.postion, i.price) + Margin(v, p)
  <2> HIDE DEF n, s
  <2> QED
    BY <1>7, <1>8, <1>9, <1>10, <1>11
<1> HIDE DEF n
<1> QED
  BY <1>5, <1>12

-----------------------------------------------------------------------------
(* Margin: what is frozen beyond the margin of the orders and positions *)

Cells == Codes \X Buckets \X Dirs

OrderMargins ==
  [o \in Ids |-> IF Resting(o) /\ order[o].offset = "open"
                 THEN Margin(order[o].last, order[o].price) ELSE 0]

CellMargins ==
  [cell \in Cells |-> LET item == position[cell[1]][cell[2]][cell[3]]
                      IN Margin(item.postion, item.price)]

Slack == account.frozen - SumFunctionOnSet(OrderMargins, Ids)
                        - SumFunctionOnSet(CellMargins, Cells)

LEMMA CellsFinite == IsFiniteSet(Cells)
<1> DEFINE P == (Codes \X Buckets) \X Dirs
           f == [p \in P |-> <<p[1][1], p[1][2], p[2]>>]
<1>1. IsFiniteSet(Buckets) /\ IsFiniteSet(Dirs)
  <2>1. /\ Buckets = {"today"} \cup {"yestoday"}
        /\ Dirs = {"long"} \cup {"short"}
    BY DEF Buckets, Dirs
  <2> QED
    BY <2>1, FS_Singleton, FS_AddElement
<1>2. IsFiniteSet(Codes \X Buckets)
  BY <1>1, FS_Product, FiniteAssumption
<1>3. IsFiniteSet(P)
  BY <1>1, <1>2, FS_Product
<1>4. f \in Surjection(P, Cells)
  <2>1. f \in [P -> Cells]
    BY DEF Cells
  <2>2. ASSUME NEW x \in Cells PROVE \E p \in P : f[p] = x
    <3>1. PICK c \in Codes, k \in Buckets, d \in Dirs : x = <<c, k, d>>
      BY DEF Cells
    <3>2. <<<<c, k>>, d>> \in P /\ f[<<<<c, k>>, d>>] = <<c, k, d>>
      OBVIOUS
    <3> QED
      BY <3>1, <3>2
  <2> QED
    BY <2>1, <2>2 DEF Surjection
<1> QED
  BY <1>3, <1>4, FS_Surjection

LEMMA CellAt ==
  ASSUME NEW c \in Codes, NEW k \in Buckets, NEW d \in Dirs
  PROVE  /\ <<c, k, d>> \in Cells
         /\ CellMargins[<<c, k, d>>] = Margin(position[c][k][d].postion, position[c][k][d].price)
         /\ CellMargins'[<<c, k, d>>]
              = Margin(position'[c][k][d].postion, position'[c][k][d].price)
<1> DEFINE x == <<c, k, d>>
<1>1. x \in Cells /\ x[1] = c /\ x[2] = k /\ x[3] = d
  BY DEF Cells
<1> HIDE DEF x
<1>2. CellMargins[x] = Margin(position[x[1]][x[2]][x[3]].postion, position[x[1]][x[2]][x[3]].price)
  BY <1>1 DEF CellMargins
<1>3. CellMargins'[x]
        = Margin(position'[x[1]][x[2]][x[3]].postion, position'[x[1]][x[2]][x[3]].price)
  BY <1>1 DEF CellMargins, Cells
<1>4. /\ CellMargins[x] = Margin(position[c][k][d].postion, position[c][k][d].price)
      /\ CellMargins'[x] = Margin(position'[c][k][d].postion, position'[c][k][d].price)
  BY <1>1, <1>2, <1>3
<1> QED
  BY <1>1, <1>4 DEF x

LEMMA MarginsNat ==
  ASSUME IInv
  PROVE  /\ \A o \in Ids : OrderMargins[o] \in Nat
         /\ \A x \in Cells : CellMargins[x] \in Nat
         /\ SumFunctionOnSet(OrderMargins, Ids) \in Nat
         /\ SumFunctionOnSet(CellMargins, Cells) \in Nat
         /\ account.frozen \in Int
<1>1. ASSUME NEW o \in Ids PROVE OrderMargins[o] \in Nat
  <2>1. order[o].last \in Nat /\ order[o].price \in Nat
    BY DEF IInv, TypeOK, OrderInfos
  <2>2. Margin(order[o].last, order[o].price) \in Nat
    BY <2>1, MarginNat
  <2> QED
    BY <2>2 DEF OrderMargins
<1>2. ASSUME NEW x \in Cells PROVE CellMargins[x] \in Nat
  <2>1. PICK c \in Codes, k \in Buckets, d \in Dirs : x = <<c, k, d>>
    BY DEF Cells
  <2>2. position[c][k][d].postion \in Nat /\ position[c][k][d].price \in Nat
    BY PositionTyped
  <2>3. Margin(position[c][k][d].postion, position[c][k][d].price) \in Nat
    BY <2>2, MarginNat
  <2> QED
    BY <2>1, <2>3, CellAt
<1>3. SumFunctionOnSet(OrderMargins, Ids) \in Nat
  <2> DEFINE F == OrderMargins
  <2>1. \A o \in Ids : F[o] \in Nat
    BY <1>1
  <2> HIDE DEF F
  <2>2. SumFunctionOnSet(F, Ids) \in Nat
    BY <2>1, SumNat, FiniteAssumption
  <2> QED
    BY <2>2 DEF F
<1>4. SumFunctionOnSet(CellMargins, Cells) \in Nat
  <2> DEFINE F == CellMargins
  <2>1. \A x \in Cells : F[x] \in Nat
    BY <1>2
  <2> HIDE DEF F
  <2>2. SumFunctionOnSet(F, Cells) \in Nat
    BY <2>1, SumNat, CellsFinite
  <2> QED
    BY <2>2 DEF F
<1>5. account.frozen \in Int
  BY DEF IInv, TypeOK
<1> QED
  BY <1>1, <1>2, <1>3, <1>4, <1>5

\* What is frozen covers every single order that waits.
LEMMA SlackCovers ==
  ASSUME IInv, Slack >= 0
  PROVE  account.frozen \in Nat /\ \A o \in Ids : OrderMargins[o] <= account.frozen
<1> DEFINE F == OrderMargins
           S == SumFunctionOnSet(F, Ids)
           T == SumFunctionOnSet(CellMargins, Cells)
<1>1. /\ S \in Nat /\ T \in Nat /\ account.frozen \in Int
      /\ account.frozen - S - T >= 0
      /\ \A o \in Ids : F[o] \in Nat
  BY MarginsNat DEF Slack
<1> HIDE DEF T, F
<1>2. \A o \in Ids : F[o] <= S
  BY <1>1, SumBounds, FiniteAssumption
<1> HIDE DEF S
<1>3. account.frozen \in Nat /\ \A o \in Ids : F[o] <= account.frozen
  BY <1>1, <1>2
<1> QED
  BY <1>3 DEF F

\* One order and one item change: the slack moves with them.
LEMMA SlackMoves ==
  ASSUME IInv, NEW o \in Ids, NEW x \in Cells,
         NEW m \in Int, OrderMargins'[o] = m,
         NEW n \in Int, CellMargins'[x] = n,
         NEW f \in Int, account'.frozen = f,
         \A p \in Ids \ {o} : OrderMargins'[p] = OrderMargins[p],
         \A y \in Cells \ {x} : CellMargins'[y] = CellMargins[y]
  PROVE  Slack' = Slack + (f - account.frozen) - (m - OrderMargins[o]) - (n - CellMargins[x])
<1> DEFINE F == OrderMargins
           G == OrderMargins'
           H == CellMargins
           K == CellMargins'
<1>1. /\ \A p \in Ids : F[p] \in Int
      /\ \A y \in Cells : H[y] \in Int
      /\ \A p \in Ids \ {o} : G[p] = F[p]
      /\ \A y \in Cells \ {x} : K[y] = H[y]
      /\ G[o] = m /\ K[x] = n
  BY MarginsNat
<1>2. /\ SumFunctionOnSet(F, Ids) \in Nat /\ SumFunctionOnSet(H, Cells) \in Nat
      /\ account.frozen \in Int
  BY MarginsNat
<1>3. /\ Slack = account.frozen - SumFunctionOnSet(F, Ids) - SumFunctionOnSet(H, Cells)
      /\ Slack' = f - SumFunctionOnSet(G, Ids) - SumFunctionOnSet(K, Cells)
  BY DEF Slack, Cells
<1> HIDE DEF F, G, H, K
<1>4. SumFunctionOnSet(G, Ids) = SumFunctionOnSet(F, Ids) - F[o] + G[o]
  BY <1>1, SumChange, FiniteAssumption
<1>5. SumFunctionOnSet(K, Cells) = SumFunctionOnSet(H, Cells) - H[x] + K[x]
  BY <1>1, SumChange, CellsFinite
<1>6. F[o] \in Int /\ H[x] \in Int
  BY <1>1
<1>7. Slack' = Slack + (f - account.frozen) - (m - F[o]) - (n - H[x])
  BY <1>1, <1>2, <1>3, <1>4, <1>5, <1>6
<1> QED
  BY <1>7 DEF F, H

\* A step that moves no margin keeps the slack.
LEMMA SlackStays ==
  ASSUME IInv, account'.frozen = account.frozen,
         \A o \in Ids : OrderMargins'[o] = OrderMargins[o],
         \A y \in Cells : CellMargins'[y] = CellMargins[y]
  PROVE  Slack' = Slack
<1> DEFINE F == OrderMargins
           G == OrderMargins'
           H == CellMargins
           K == CellMargins'
<1>1. /\ \A p \in Ids : F[p] = G[p]
      /\ \A y \in Cells : H[y] = K[y]
  OBVIOUS
<1>2. /\ Slack = account.frozen - SumFunctionOnSet(F, Ids) - SumFunctionOnSet(H, Cells)
      /\ Slack' = account.frozen - SumFunctionOnSet(G, Ids) - SumFunctionOnSet(K, Cells)
  BY DEF Slack, Cells
<1> HIDE DEF F, G, H, K
<1>3. SumFunctionOnSet(F, Ids) = SumFunctionOnSet(G, Ids)
  BY <1>1, SumSame, FiniteAssumption
<1>4. SumFunctionOnSet(H, Cells) = SumFunctionOnSet(K, Cells)
  BY <1>1, SumSame, CellsFinite
<1> QED
  BY <1>2, <1>3, <1>4

-----------------------------------------------------------------------------
(* Margin: the steps *)

\* The account can pay the charge of any order.
ChargesPaid == account.money >= MaxVolume * Fee["open"]

\* A step that deals an opening order gives an average price that is not
\* rounded.  (The code averages with floating point numbers.)
WholeAverages ==
  \A o \in Ids :
    LET r    == order[o]
        item == position[r.code]["today"][r.direction]
        v    == r.last - order'[o].last
        sum  == item.postion * item.price + v * r.price
    IN r.offset = "open" /\ v > 0 =>
         (item.postion + v) * (sum \div (item.postion + v)) = sum

LEMMA Affords ==
  ASSUME IInv, LInv, NEW o \in loop.todo, HandleMatch(o), ChargesPaid
  PROVE  account.money >= Decided(o).deal * Fee["open"]
<1>1. state[o] \in {"INVALID", "IN_MATCH"} /\ MatchOrder(o)
  BY DEF HandleMatch
<1>2. /\ o \in Ids /\ order[o].last \in Nat /\ Decided(o).deal \in 0..order[o].last
      /\ told[o].left = order[o].last
  BY <1>1, MatchOne
<1>3. told[o].left \in 0..MaxVolume
  BY <1>2 DEF LInv
<1> DEFINE v == Decided(o).deal
<1>4. v \in Nat /\ v <= MaxVolume
  BY <1>2, <1>3, OrderAssumption
<1>5. Fee["open"] \in Nat /\ account.money \in Int
  BY MoneyAssumption DEF IInv, TypeOK
<1> HIDE DEF v
<1>6. v * Fee["open"] <= MaxVolume * Fee["open"]
  BY <1>4, <1>5, Monotone, OrderAssumption
<1>7. v * Fee["open"] \in Int /\ MaxVolume * Fee["open"] \in Int
  BY <1>4, <1>5, MulInt, OrderAssumption
<1>8. account.money >= v * Fee["open"]
  BY <1>5, <1>6, <1>7 DEF ChargesPaid
<1> QED
  BY <1>8 DEF v

\* Of an opening order's margin a match thaws what it kills, leaves frozen what
\* still waits, and turns the rest into the position's.
LEMMA OrderMarginMoves ==
  ASSUME IInv, LInv, Slack >= 0,
         NEW o \in loop.todo, HandleMatch(o), order[o].offset = "open"
  PROVE  LET r == order[o]
         IN /\ account'.frozen \in Int /\ OrderMargins'[o] \in Int
            /\ (account'.frozen - account.frozen) - (OrderMargins'[o] - OrderMargins[o])
                 = Margin(Decided(o).deal, r.price)
            /\ \A p \in Ids \ {o} : OrderMargins'[p] = OrderMargins[p]
<1> DEFINE r == order[o]
           v == Decided(o).deal
           M == Margin(r.last, r.price)
           R == Margin(Rest(o), r.price)
           V == Margin(v, r.price)
           froze == account.frozen + (IF New(o) THEN M ELSE 0)
<1>0. state[o] \in {"INVALID", "IN_MATCH"} /\ MatchOrder(o)
  BY DEF HandleMatch
<1>1. /\ o \in Ids /\ r \in Orders /\ v \in 0..r.last /\ r.last \in Nat
      /\ Rest(o) = r.last - v /\ Rest(o) \in Nat
      /\ state'[o] = IF Rest(o) = 0 \/ Killed(o) THEN "DELETE" ELSE "IN_MATCH"
      /\ \A p \in Ids \ {o} : order'[p] = order[p] /\ state'[p] = state[p]
  BY <1>0, MatchOne
<1>2. order'[o] = [r EXCEPT !.last = Rest(o)]
  BY <1>0, MatchOne
<1>3. order'[o].offset = "open" /\ order'[o].last = Rest(o) /\ order'[o].price = r.price
  BY <1>1, <1>2 DEF Orders
<1>4. r.price \in Nat /\ v \in Nat
  BY <1>1, OrderKeys
<1>5. M = V + R /\ M \in Nat /\ V \in Nat /\ R \in Nat
  <2>1. r.last = v + Rest(o)
    BY <1>1
  <2>2. Margin(v + Rest(o), r.price) = V + R
    BY <1>1, <1>4, MarginSplits
  <2> QED
    BY <1>1, <1>4, <2>1, <2>2, MarginNat
<1>6. OrderMargins[o] = IF New(o) THEN 0 ELSE M
  BY <1>0, <1>1 DEF OrderMargins, Resting, New
<1>7. OrderMargins'[o] = IF Killed(o) THEN 0 ELSE R
  <2>1. Rest(o) = 0 => R = 0
    BY <1>4, MoneyAssumption DEF Margin
  <2> HIDE DEF R
  <2> QED
    BY <1>1, <1>3, <2>1 DEF OrderMargins, Resting, R
<1>8. \A p \in Ids \ {o} : OrderMargins'[p] = OrderMargins[p]
  BY <1>1 DEF OrderMargins, Resting
<1>9. account'.frozen = IF Killed(o) THEN froze - Least(R, froze) ELSE froze
  BY <1>1, MatchOpenLeaves
<1>10. account.frozen \in Nat /\ OrderMargins[o] <= account.frozen
  BY <1>1, SlackCovers
<1> HIDE DEF M, R, V, v, r
<1>11. account'.frozen = IF Killed(o) THEN froze - R ELSE froze
  BY <1>5, <1>6, <1>9, <1>10 DEF Least
<1>12. /\ account'.frozen \in Int /\ OrderMargins'[o] \in Int
       /\ (account'.frozen - account.frozen) - (OrderMargins'[o] - OrderMargins[o]) = V
  BY <1>5, <1>6, <1>7, <1>10, <1>11
<1> QED
  BY <1>8, <1>12 DEF V, v, r

\* What a match adds to the margin of the position it opens is at most the
\* margin of what was dealt.
LEMMA CellMarginMoves ==
  ASSUME IInv, LInv, NEW o \in loop.todo, HandleMatch(o), order[o].offset = "open",
         NEW x, x = <<order[o].code, "today", order[o].direction>>
  PROVE  LET V == Margin(Decided(o).deal, order[o].price)
         IN /\ x \in Cells /\ CellMargins'[x] \in Int
            /\ CellMargins'[x] - CellMargins[x] <= V
            /\ ChargesPaid /\ WholeAverages => CellMargins'[x] - CellMargins[x] = V
            /\ \A y \in Cells \ {x} : CellMargins'[y] = CellMargins[y]
<1> DEFINE r == order[o]
           c == r.code
           d == r.direction
           v == Decided(o).deal
           V == Margin(v, r.price)
           item == position[c]["today"][d]
           bought == Bought(item, r.price, v)
<1>0. state[o] \in {"INVALID", "IN_MATCH"} /\ MatchOrder(o)
  BY DEF HandleMatch
<1>1. /\ o \in Ids /\ r \in Orders /\ v \in 0..r.last /\ r.last \in Nat
      /\ Rest(o) = r.last - v
  BY <1>0, MatchOne
<1>2. order'[o] = [r EXCEPT !.last = Rest(o)]
  BY <1>0, MatchOne
<1>3. c \in Codes /\ d \in Dirs /\ "today" \in Buckets /\ r.price \in Nat /\ v \in Nat
  BY <1>1, OrderKeys DEF Buckets
<1>4. item \in Items /\ position \in Positions
  BY <1>3, PositionTyped
<1>5. position' = IF Pays(o) THEN Put(position, c, "today", d, bought) ELSE position
  BY MatchOpenLeaves
<1>6. x \in Cells /\ CellMargins[x] = Margin(item.postion, item.price)
  BY <1>3, CellAt
<1>7. CellMargins[x] \in Nat /\ V \in Nat
  BY <1>3, <1>6, MarginsNat, MarginNat
<1>8. CASE ~Pays(o)
  <2>1. \A y \in Cells : CellMargins'[y] = CellMargins[y]
    BY <1>5, <1>8 DEF CellMargins, Cells
  <2>2. ChargesPaid => v = 0
    BY <1>3, <1>8, Affords DEF Pays
  <2>3. v = 0 => V = 0
    BY <1>3, MoneyAssumption DEF Margin
  <2> HIDE DEF V
  <2>4. /\ CellMargins'[x] \in Int /\ CellMargins'[x] - CellMargins[x] <= V
        /\ ChargesPaid => CellMargins'[x] - CellMargins[x] = V
    BY <1>6, <1>7, <2>1, <2>2, <2>3
  <2> QED
    BY <1>6, <2>1, <2>4 DEF V
<1>9. CASE Pays(o)
  <2>1. v \in Nat \ {0}
    BY <1>3, <1>9 DEF Pays
  <2>2. ASSUME NEW c2 \in Codes, NEW k2 \in Buckets, NEW d2 \in Dirs
        PROVE  position'[c2][k2][d2]
                 = IF c2 = c /\ k2 = "today" /\ d2 = d THEN bought ELSE position[c2][k2][d2]
    <3> HIDE DEF bought, c, d
    <3> QED
      BY <1>3, <1>4, <1>5, <1>9, PutAt
  <2>3. position'[c]["today"][d] = bought
    BY <1>3, <2>2
  <2>4. CellMargins'[x] = Margin(bought.postion, bought.price)
    <3> HIDE DEF bought
    <3> QED
      BY <1>3, <2>3, CellAt
  <2>5. \A y \in Cells \ {x} : CellMargins'[y] = CellMargins[y]
    <3> SUFFICES ASSUME NEW y \in Cells, y # x PROVE CellMargins'[y] = CellMargins[y]
      OBVIOUS
    <3>1. PICK c2 \in Codes, k2 \in Buckets, d2 \in Dirs : y = <<c2, k2, d2>>
      BY DEF Cells
    <3>2. ~(c2 = c /\ k2 = "today" /\ d2 = d)
      BY <3>1
    <3>3. position'[c2][k2][d2] = position[c2][k2][d2]
      BY <2>2, <3>2
    <3> QED
      BY <3>1, <3>3, CellAt
  <2>6. bought \in Items
    <3> HIDE DEF item, r, v
    <3> QED
      BY <1>3, <1>4, <2>1, BoughtIs
  <2>7. /\ Margin(bought.postion, bought.price) <= Margin(item.postion, item.price) + V
        /\ bought.postion * bought.price = item.postion * item.price + v * r.price =>
             Margin(bought.postion, bought.price) = Margin(item.postion, item.price) + V
    <3> HIDE DEF item, r, v
    <3> QED
      BY <1>3, <1>4, <2>1, MarginOfBought
  <2>8. WholeAverages =>
          bought.postion * bought.price = item.postion * item.price + v * r.price
    <3>1. v = r.last - order'[o].last
      BY SMTT(30), <1>1, <1>2, <1>3 DEF Orders
    <3> DEFINE sum == item.postion * item.price + v * r.price
    <3>2. WholeAverages => (item.postion + v) * (sum \div (item.postion + v)) = sum
      BY <1>1, <2>1, <3>1 DEF WholeAverages
    <3>3. bought.postion = item.postion + v /\ bought.price = sum \div (item.postion + v)
      <4>1. v * r.price = r.price * v
        BY <1>3
      <4>2. /\ bought.postion = item.postion + v
            /\ bought.price = (item.postion * item.price + r.price * v) \div (item.postion + v)
        <5> HIDE DEF item, r, v
        <5> QED
          BY <1>3, <1>4, <2>1, BoughtIs
      <4> QED
        BY <4>1, <4>2
    <3> HIDE DEF bought
    <3> QED
      BY <3>2, <3>3
  <2>9. Margin(bought.postion, bought.price) \in Nat
    <3> HIDE DEF bought
    <3> QED
      BY <2>6, MarginNat DEF Items
  <2> HIDE DEF V, bought, item
  <2>10. /\ CellMargins'[x] \in Int /\ CellMargins'[x] - CellMargins[x] <= V
         /\ WholeAverages => CellMargins'[x] - CellMargins[x] = V
    BY <1>6, <1>7, <2>4, <2>7, <2>8, <2>9
  <2> QED
    BY <1>6, <2>5, <2>10 DEF V
<1> QED
  BY <1>8, <1>9

LEMMA MatchOpenSlack ==
  ASSUME IInv, LInv, Slack >= 0,
         NEW o \in loop.todo, HandleMatch(o), order[o].offset = "open"
  PROVE  Slack' >= Slack /\ (ChargesPaid /\ WholeAverages => Slack' = Slack)
<1> DEFINE x == <<order[o].code, "today", order[o].direction>>
           V == Margin(Decided(o).deal, order[o].price)
<1>1. /\ account'.frozen \in Int /\ OrderMargins'[o] \in Int
      /\ (account'.frozen - account.frozen) - (OrderMargins'[o] - OrderMargins[o]) = V
      /\ \A p \in Ids \ {o} : OrderMargins'[p] = OrderMargins[p]
  BY OrderMarginMoves
<1>2. /\ x \in Cells /\ CellMargins'[x] \in Int
      /\ CellMargins'[x] - CellMargins[x] <= V
      /\ ChargesPaid /\ WholeAverages => CellMargins'[x] - CellMargins[x] = V
      /\ \A y \in Cells \ {x} : CellMargins'[y] = CellMargins[y]
  BY CellMarginMoves
<1>3. o \in Ids
  BY VisitedTyped
<1> HIDE DEF x, V
<1>4. Slack' = Slack + (account'.frozen - account.frozen)
               - (OrderMargins'[o] - OrderMargins[o]) - (CellMargins'[x] - CellMargins[x])
  BY <1>1, <1>2, <1>3, SlackMoves
<1>5. /\ account.frozen \in Int /\ OrderMargins[o] \in Int /\ CellMargins[x] \in Int
      /\ Slack \in Int
  BY <1>2, <1>3, MarginsNat DEF Slack
<1>6. Slack' = Slack + V - (CellMargins'[x] - CellMargins[x])
  BY <1>1, <1>2, <1>4, <1>5
<1>7. V \in Int
  BY <1>1, <1>5
<1>8. Slack' >= Slack
  BY <1>2, <1>5, <1>6, <1>7
<1>9. ASSUME ChargesPaid, WholeAverages PROVE Slack' = Slack
  <2>1. CellMargins'[x] - CellMargins[x] = V
    BY <1>2, <1>9
  <2> QED
    BY <1>2, <1>5, <1>6, <1>7, <2>1
<1> QED
  BY <1>8, <1>9

\* A closing order gives back the margin of exactly the lots it closes.
LEMMA MatchCloseSlack ==
  ASSUME IInv, LInv, BookInv, NEW o \in loop.todo, HandleMatch(o),
         order[o].offset # "open"
  PROVE  Slack' = Slack
<1> DEFINE r == order[o]
           c == r.code
           d == r.direction
           v == Decided(o).deal
           x == <<c, "today", d>>
           item == position[c]["today"][d]
           now  == position'[c]["today"][d]
<1>0. state[o] \in {"INVALID", "IN_MATCH"} /\ MatchOrder(o)
  BY DEF HandleMatch
<1>1. /\ o \in Ids /\ r \in Orders /\ v \in 0..r.last /\ r.last \in Nat
      /\ \A p \in Ids \ {o} : order'[p] = order[p] /\ state'[p] = state[p]
  BY <1>0, MatchOne
<1>2. order'[o] = [r EXCEPT !.last = Rest(o)]
  BY <1>0, MatchOne
<1>3. c \in Codes /\ d \in Dirs /\ "today" \in Buckets /\ v \in Nat
  BY <1>1, OrderKeys DEF Buckets
<1>4. item.postion \in Nat /\ item.price \in Nat
  BY <1>3, PositionTyped
<1>5. /\ now.postion = item.postion - v /\ now.price = item.price
      /\ item.postion - v \in Nat
      /\ \A c2 \in Codes, k2 \in Buckets, d2 \in Dirs :
           c2 # c \/ k2 # "today" \/ d2 # d => position'[c2][k2][d2] = position[c2][k2][d2]
      /\ account'.frozen = account.frozen - Margin(v, item.price)
  BY MatchCloseLeaves
<1>6. /\ x \in Cells /\ CellMargins[x] = Margin(item.postion, item.price)
      /\ CellMargins'[x] = Margin(now.postion, now.price)
  BY <1>3, CellAt
<1>7. \A y \in Cells \ {x} : CellMargins'[y] = CellMargins[y]
  <2> SUFFICES ASSUME NEW y \in Cells, y # x PROVE CellMargins'[y] = CellMargins[y]
    OBVIOUS
  <2>1. PICK c2 \in Codes, k2 \in Buckets, d2 \in Dirs : y = <<c2, k2, d2>>
    BY DEF Cells
  <2>2. c2 # c \/ k2 # "today" \/ d2 # d
    BY <2>1
  <2> HIDE DEF c, d
  <2>3. position'[c2][k2][d2] = position[c2][k2][d2]
    BY <1>5, <2>2
  <2> QED
    BY <2>1, <2>3, CellAt
<1>8. order'[o].offset = r.offset
  BY <1>1, <1>2 DEF Orders
<1>9. /\ OrderMargins[o] = 0 /\ OrderMargins'[o] = 0
      /\ \A p \in Ids \ {o} : OrderMargins'[p] = OrderMargins[p]
  BY <1>1, <1>8 DEF OrderMargins, Resting
<1> HIDE DEF item, now, x, c, d, v, r
<1>10. Margin((item.postion - v) + v, item.price)
         = Margin(item.postion - v, item.price) + Margin(v, item.price)
  BY <1>3, <1>4, <1>5, MarginSplits
<1>11. (item.postion - v) + v = item.postion
  BY <1>3, <1>4
<1>12. /\ Margin(v, item.price) \in Nat /\ Margin(item.postion - v, item.price) \in Nat
       /\ CellMargins[x] = Margin(item.postion - v, item.price) + Margin(v, item.price)
       /\ CellMargins'[x] = Margin(item.postion - v, item.price)
  BY <1>3, <1>4, <1>5, <1>6, <1>10, <1>11, MarginNat
<1>13. account.frozen \in Int /\ Slack \in Int
  BY MarginsNat DEF Slack
<1>14. account'.frozen \in Int
  BY <1>5, <1>12, <1>13
<1>15. Slack' = Slack + (account'.frozen - account.frozen)
                - (0 - OrderMargins[o]) - (CellMargins'[x] - CellMargins[x])
  BY <1>1, <1>6, <1>7, <1>9, <1>12, <1>14, SlackMoves
<1> QED
  BY <1>5, <1>9, <1>12, <1>13, <1>15

\* A step that changes no item's volume or price, no money that is frozen and
\* no resting order keeps the slack.
LEMMA SlackKept ==
  ASSUME IInv, account'.frozen = account.frozen,
         \A c \in Codes, k \in Buckets, d \in Dirs :
           /\ position'[c][k][d].postion = position[c][k][d].postion
           /\ position'[c][k][d].price = position[c][k][d].price,
         \A o \in Ids : Resting(o)' <=> Resting(o),
         \A o \in Ids : Resting(o) => order'[o] = order[o]
  PROVE  Slack' = Slack
<1>1. \A o \in Ids : OrderMargins'[o] = OrderMargins[o]
  BY DEF OrderMargins
<1>2. ASSUME NEW y \in Cells PROVE CellMargins'[y] = CellMargins[y]
  <2>1. PICK c \in Codes, k \in Buckets, d \in Dirs : y = <<c, k, d>>
    BY DEF Cells
  <2> QED
    BY <2>1, CellAt
<1> QED
  BY <1>1, <1>2, SlackStays

LEMMA CanceledSlack ==
  ASSUME IInv, LInv, BookInv, Slack >= 0, NEW o \in loop.todo, HandleCanceled(o)
  PROVE  Slack' = Slack
<1> DEFINE r == order[o]
           M == Margin(r.last, r.price)
<1>1. /\ o \in Ids /\ r \in Orders /\ state[o] = "CANELED"
      /\ order' = order
      /\ state'[o] = IF Thaws(o) THEN "DELETE" ELSE "CANELED"
      /\ \A p \in Ids \ {o} : state'[p] = state[p]
  BY CanceledLeaves
<1>2. CASE ~Thaws(o)
  <2>1. position' = position /\ account' = account
    BY <1>2, CanceledLeaves
  <2>2. \A p \in Ids : Resting(p)' <=> Resting(p)
    BY <1>1, <1>2 DEF Resting
  <2> QED
    BY <1>1, <2>1, <2>2, SlackKept
<1>3. CASE Thaws(o) /\ r.offset = "open"
  <2>1. Book \in Books /\ Book.position = position /\ Book.account = account
    BY BookTyped DEF Book
  <2>2. /\ position' = position
        /\ account'.frozen = account.frozen - Least(M, account.frozen)
    BY <1>1, <1>3, <2>1, CanceledLeaves, UnfreezeOpen
  <2>3. OrderMargins[o] = M /\ OrderMargins'[o] = 0
    BY <1>1, <1>3 DEF OrderMargins, Resting
  <2>4. \A p \in Ids \ {o} : OrderMargins'[p] = OrderMargins[p]
    BY <1>1 DEF OrderMargins, Resting
  <2>5. M \in Nat /\ account.frozen \in Nat /\ M <= account.frozen
    <3>1. OrderMargins[o] <= account.frozen /\ account.frozen \in Nat
      BY <1>1, SlackCovers
    <3>2. OrderMargins[o] \in Nat
      BY <1>1, MarginsNat
    <3> HIDE DEF M
    <3> QED
      BY <2>3, <3>1, <3>2
  <2> DEFINE x == <<r.code, "today", r.direction>>
  <2>6. x \in Cells
    BY <1>1, OrderKeys, CellAt DEF Buckets
  <2>7. \A y \in Cells : CellMargins'[y] = CellMargins[y]
    BY <2>2 DEF CellMargins, Cells
  <2> HIDE DEF M, x, r
  <2>8. account'.frozen = account.frozen - M
    BY <2>2, <2>5 DEF Least
  <2>9. CellMargins'[x] \in Int /\ CellMargins[x] \in Int /\ Slack \in Int
        /\ account'.frozen \in Int
    BY <2>5, <2>6, <2>7, <2>8, MarginsNat DEF Slack
  <2>10. Slack' = Slack + (account'.frozen - account.frozen)
                  - (0 - OrderMargins[o]) - (CellMargins'[x] - CellMargins[x])
    BY <1>1, <2>3, <2>4, <2>6, <2>7, <2>9, SlackMoves
  <2> QED
    BY <2>3, <2>5, <2>6, <2>7, <2>8, <2>9, <2>10
<1>4. CASE Thaws(o) /\ r.offset # "open"
  <2>1. /\ position'[r.code]["today"][r.direction].postion
             = position[r.code]["today"][r.direction].postion
        /\ position'[r.code]["today"][r.direction].price
             = position[r.code]["today"][r.direction].price
        /\ \A c \in Codes, k \in Buckets, d \in Dirs :
             c # r.code \/ k # "today" \/ d # r.direction => position'[c][k][d] = position[c][k][d]
        /\ account' = account
    BY <1>4, CanceledCloseLeaves
  <2>2. \A c \in Codes, k \in Buckets, d \in Dirs :
          /\ position'[c][k][d].postion = position[c][k][d].postion
          /\ position'[c][k][d].price = position[c][k][d].price
    <3> HIDE DEF r
    <3> QED
      BY <2>1
  <2>3. \A p \in Ids : OrderMargins'[p] = OrderMargins[p]
    BY <1>1, <1>4 DEF OrderMargins, Resting
  <2>4. ASSUME NEW y \in Cells PROVE CellMargins'[y] = CellMargins[y]
    <3>1. PICK c \in Codes, k \in Buckets, d \in Dirs : y = <<c, k, d>>
      BY DEF Cells
    <3> QED
      BY <2>2, <3>1, CellAt
  <2> QED
    BY <2>1, <2>3, <2>4, SlackStays
<1> QED
  BY <1>2, <1>3, <1>4

LEMMA CrossdaySlack == ASSUME IInv, LInv, BookInv, Crossday PROVE Slack' = Slack
<1>1. ASSUME NEW y \in Cells PROVE CellMargins'[y] = CellMargins[y]
  <2>1. PICK c \in Codes, k \in Buckets, d \in Dirs : y = <<c, k, d>>
    BY DEF Cells
  <2>2. CASE k = "today"
    <3>1. position'[c][k][d] = position[c][k][d]
      BY <2>2, CrossdayLeaves
    <3> QED
      BY <2>1, <3>1, CellAt
  <2>3. CASE k = "yestoday"
    <3>1. position[c][k][d].postion = 0 /\ position'[c][k][d].postion = 0
      BY <2>3, CrossdayLeaves DEF BookInv, NoneFromYestoday
    <3>2. position[c][k][d].price \in Nat /\ position'[c][k][d].price \in Nat
      BY CrossdayIInv, PositionTyped DEF IInv, TypeOK
    <3>3. ASSUME NEW p \in Nat PROVE Margin(0, p) = 0
      BY MoneyAssumption DEF Margin
    <3> QED
      BY <2>1, <3>1, <3>2, <3>3, CellAt
  <2> QED
    BY <2>2, <2>3 DEF Buckets
<1>2. \A o \in Ids : OrderMargins'[o] = OrderMargins[o]
  BY CrossdayLeaves DEF OrderMargins
<1>3. account'.frozen = account.frozen
  BY CrossdayLeaves
<1> QED
  BY <1>1, <1>2, <1>3, SlackStays

\* No step takes from the slack, and one that charges and averages exactly
\* leaves it.
LEMMA SlackStep ==
  ASSUME IInv, LInv, BookInv, Slack >= 0, ~CancelsEnded, [Next]_vars
  PROVE  Slack' >= Slack /\ (ChargesPaid /\ [WholeAverages]_vars => Slack' = Slack)
<1>0. Slack \in Int
  BY MarginsNat DEF Slack
<1>1. CASE \E c \in Codes : PushTick(c)
  <2>1. UNCHANGED <<order, state, position, account>>
    BY <1>1 DEF PushTick, orderVars, bookVars
  <2>2. Slack' = Slack
    BY <2>1, SlackKept DEF Resting
  <2> QED
    BY <1>0, <2>2
<1>2. CASE \E o \in Ids : PlaceOrder(o)
  <2>1. PICK o \in Ids : PlaceOrder(o)
    BY <1>2
  <2>2. state[o] = "erased"
    BY <2>1 DEF PlaceOrder, IInv
  <2>3. PICK r : order' = [order EXCEPT ![o] = r]
    BY <2>1 DEF PlaceOrder
  <2>4. /\ state' = [state EXCEPT ![o] = "INVALID"]
        /\ position' = position /\ account' = account
    BY <2>1 DEF PlaceOrder, bookVars
  <2>5. /\ \A p \in Ids : Resting(p)' <=> Resting(p)
        /\ \A p \in Ids : Resting(p) => order'[p] = order[p]
    BY <2>2, <2>3, <2>4 DEF Resting, IInv, TypeOK
  <2>6. Slack' = Slack
    BY <2>4, <2>5, SlackKept
  <2> QED
    BY <1>0, <2>6
<1>3. CASE \E o \in Ids : CancelOrder(o)
  <2>1. PICK o \in Ids : CancelOrder(o)
    BY <1>3
  <2>2. /\ told[o].status = "entrusted" /\ state[o] \notin {"erased", "INVALID"}
        /\ state' = [state EXCEPT ![o] = "CANELED"] /\ UNCHANGED <<order, position, account>>
    BY <2>1 DEF CancelOrder, Cancelable, bookVars
  <2>3. state[o] \in {"IN_MATCH", "CANELED"}
    BY <2>2 DEF IInv, TypeOK, States, LInv, Lifecycle!Ended
  <2>4. \A p \in Ids : Resting(p)' <=> Resting(p)
    BY <2>2, <2>3 DEF Resting, IInv, TypeOK
  <2>5. Slack' = Slack
    BY <2>2, <2>4, SlackKept
  <2> QED
    BY <1>0, <2>5
<1>4. CASE Crossday
  BY <1>0, <1>4, CrossdaySlack
<1>5. CASE BeginUpdate \/ MatchEntrust
  <2>1. UNCHANGED <<order, state, position, account>>
    BY <1>5 DEF BeginUpdate, MatchEntrust, orderVars, bookVars
  <2>2. Slack' = Slack
    BY <2>1, SlackKept DEF Resting
  <2> QED
    BY <1>0, <2>2
<1>6. CASE HandleEntrust
  <2>1. PICK o \in loop.todo : HandleCanceled(o) \/ HandleRefused(o) \/ HandleMatch(o)
    BY <1>6 DEF HandleEntrust
  <2>2. CASE HandleCanceled(o)
    BY <1>0, <2>2, CanceledSlack
  <2>3. CASE HandleRefused(o)
    <3>1. o \in Ids /\ state[o] = "INVALID"
      BY <2>3, VisitedTyped DEF HandleRefused
    <3>2. /\ position' = position /\ account' = account
          /\ order' = [order EXCEPT ![o] = order[o]]
          /\ state' = [state EXCEPT ![o] = "DELETE"]
      BY <2>3 DEF HandleRefused, Leave, Book
    <3>3. /\ order' = order
          /\ \A p \in Ids : Resting(p)' <=> Resting(p)
      BY <3>1, <3>2 DEF Resting, IInv, TypeOK
    <3>4. Slack' = Slack
      BY <3>2, <3>3, SlackKept
    <3> QED
      BY <1>0, <3>4
  <2>4. CASE HandleMatch(o) /\ order[o].offset = "open"
    <3>1. Slack' >= Slack /\ (ChargesPaid /\ WholeAverages => Slack' = Slack)
      BY <2>4, MatchOpenSlack
    <3>2. vars' = vars => Slack' = Slack
      <4>1. ASSUME vars' = vars PROVE UNCHANGED <<order, state, position, account>>
        BY <4>1 DEF vars, orderVars, bookVars
      <4> QED
        BY <4>1, SlackKept DEF Resting
    <3> QED
      BY <3>1, <3>2
  <2>5. CASE HandleMatch(o) /\ order[o].offset # "open"
    BY <1>0, <2>5, MatchCloseSlack
  <2> QED
    BY <2>1, <2>2, <2>3, <2>4, <2>5
<1>7. CASE Sweep
  <2>1. /\ state' = [o \in Ids |-> IF state[o] = "DELETE" THEN "erased" ELSE state[o]]
        /\ UNCHANGED <<order, position, account>>
    BY <1>7 DEF Sweep, bookVars
  <2>2. \A o \in Ids : Resting(o)' <=> Resting(o)
    BY <2>1 DEF Resting
  <2>3. Slack' = Slack
    BY <2>1, <2>2, SlackKept
  <2> QED
    BY <1>0, <2>3
<1>8. CASE UNCHANGED vars
  <2>1. UNCHANGED <<order, state, position, account>>
    BY <1>8 DEF vars, orderVars, bookVars
  <2>2. Slack' = Slack
    BY <2>1, SlackKept DEF Resting
  <2> QED
    BY <1>0, <2>2
<1> QED
  BY <1>1, <1>2, <1>3, <1>4, <1>5, <1>6, <1>7, <1>8 DEF Next, Update

LEMMA InitSlack == Init => Slack = 0
<1> SUFFICES ASSUME Init PROVE Slack = 0
  OBVIOUS
<1>1. \A o \in Ids : OrderMargins[o] = 0
  BY DEF Init, OrderMargins, Resting
<1>2. ASSUME NEW y \in Cells PROVE CellMargins[y] = 0
  <2>1. PICK c \in Codes, k \in Buckets, d \in Dirs : y = <<c, k, d>>
    BY DEF Cells
  <2>2. position[c][k][d].postion = 0 /\ position[c][k][d].price = 0
    BY DEF Init, NoItem
  <2>3. Margin(0, 0) = 0
    BY MoneyAssumption DEF Margin
  <2> QED
    BY <2>1, <2>2, <2>3, CellAt
<1>3. account.frozen = 0
  BY DEF Init
<1>4. SumFunctionOnSet(OrderMargins, Ids) = 0
  BY <1>1, SumZero, FiniteAssumption
<1>5. SumFunctionOnSet(CellMargins, Cells) = 0
  BY <1>2, SumZero, CellsFinite
<1> QED
  BY <1>3, <1>4, <1>5 DEF Slack

\* The sums of MarginBacked are those of Slack.
LEMMA SlackIs ==
  ASSUME IInv
  PROVE  /\ SumFunctionOnSet([o \in Ids |-> Margin(order[o].last, order[o].price)],
                             {o \in Ids : Resting(o) /\ order[o].offset = "open"})
              = SumFunctionOnSet(OrderMargins, Ids)
         /\ SumFunction([cell \in Codes \X Buckets \X Dirs |->
                           LET item == position[cell[1]][cell[2]][cell[3]]
                           IN Margin(item.postion, item.price)])
              = SumFunctionOnSet(CellMargins, Cells)
<1> DEFINE f == [o \in Ids |-> Margin(order[o].last, order[o].price)]
           R == {o \in Ids : Resting(o) /\ order[o].offset = "open"}
           g == [o \in Ids |-> IF o \in R THEN f[o] ELSE 0]
<1>1. \A o \in Ids : f[o] \in Int
  <2>1. \A o \in Ids : order[o].last \in Nat /\ order[o].price \in Nat
    BY DEF IInv, TypeOK, OrderInfos
  <2> QED
    BY <2>1, MarginNat
<1>2. R \subseteq Ids
  OBVIOUS
<1>3. g = OrderMargins
  BY DEF OrderMargins
<1>4. SumFunctionOnSet(f, R) = SumFunctionOnSet(g, Ids)
  <2> HIDE DEF f, R
  <2> QED
    BY <1>1, <1>2, SumWithin, FiniteAssumption
<1>5. SumFunctionOnSet(f, R) = SumFunctionOnSet(OrderMargins, Ids)
  BY <1>3, <1>4
<1>6. SumFunction([cell \in Codes \X Buckets \X Dirs |->
                     LET item == position[cell[1]][cell[2]][cell[3]]
                     IN Margin(item.postion, item.price)])
        = SumFunctionOnSet(CellMargins, Cells)
  BY DEF SumFunction, CellMargins, Cells
<1> QED
  BY <1>5, <1>6

\* The frozen money covers the margin of the opening orders in the match and
\* of the positions.
MarginCovered ==
  account.frozen >=
      SumFunctionOnSet([o \in Ids |-> Margin(order[o].last, order[o].price)],
                       {o \in Ids : Resting(o) /\ order[o].offset = "open"})
    + SumFunction([cell \in Codes \X Buckets \X Dirs |->
                     LET item == position[cell[1]][cell[2]][cell[3]]
                     IN Margin(item.postion, item.price)])

LEMMA SlackAlways == ASSUME ~CancelsEnded PROVE Spec => [](Slack >= 0)
<1>1. Init => Slack >= 0
  BY InitSlack
<1>2. IInv => Slack \in Int
  BY MarginsNat DEF Slack
<1>3. IInv /\ LInv /\ BookInv /\ Slack \in Int /\ Slack >= 0 /\ [Next]_vars
        /\ (Slack \in Int)' => (Slack >= 0)'
  BY SlackStep
<1> QED
  BY <1>1, <1>2, <1>3, BookAlways, PTL DEF Spec

\* Whatever is matched, killed, cancelled or carried over a day, the money that
\* is frozen is never less than the margin it stands for: a price average that
\* is rounded down or a charge that cannot be paid only leaves more of it.
THEOREM MarginStaysCovered == ASSUME ~CancelsEnded PROVE Spec => []MarginCovered
<1>1. IInv /\ Slack >= 0 => MarginCovered
  BY SlackIs, MarginsNat DEF Slack, MarginCovered
<1> QED
  BY <1>1, BookAlways, SlackAlways, PTL

\* And where every average is whole and every charge can be paid it is exactly
\* that margin.
THEOREM MarginStaysBacked ==
  ASSUME ~CancelsEnded
  PROVE  Spec /\ []ChargesPaid /\ [][WholeAverages]_vars => []MarginBacked
<1>1. Init => Slack = 0
  BY InitSlack
<1>2. IInv /\ LInv /\ BookInv /\ Slack >= 0 /\ ChargesPaid /\ Slack = 0
        /\ [Next]_vars /\ [WholeAverages]_vars => (Slack = 0)'
  BY SlackStep
<1>3. IInv /\ Slack = 0 => MarginBacked
  BY SlackIs, MarginsNat DEF Slack, MarginBacked
<1> QED
  BY <1>1, <1>2, <1>3, BookAlways, SlackAlways, PTL DEF Spec

-----------------------------------------------------------------------------
(* What was told was dealt, and what is held *)

Mine(o, c, d) ==
  told[o].status # "none" /\ order[o].code = c /\ order[o].direction = d

Opened(c, d) ==
  [o \in Ids |-> IF Mine(o, c, d) /\ order[o].offset = "open"
                 THEN order[o].total - told[o].left ELSE 0]

Closed(c, d) ==
  [o \in Ids |-> IF Mine(o, c, d) /\ order[o].offset # "open"
                 THEN order[o].total - told[o].left ELSE 0]

\* What was told of c and is not in the position.
Gap(c, d) ==
  SumFunctionOnSet(Opened(c, d), Ids) - SumFunctionOnSet(Closed(c, d), Ids)
    - position[c]["today"][d].postion

LEMMA DealtInt ==
  ASSUME IInv, LInv, NEW c, NEW d, NEW o \in Ids
  PROVE  Opened(c, d)[o] \in Int /\ Closed(c, d)[o] \in Int
<1>1. order[o].total \in Nat
  BY DEF IInv, TypeOK, OrderInfos
<1>2. told[o].left \in Nat
  BY OrderAssumption DEF LInv
<1> QED
  BY <1>1, <1>2 DEF Opened, Closed

LEMMA GapInt ==
  ASSUME IInv, LInv, NEW c \in Codes, NEW d \in Dirs PROVE Gap(c, d) \in Int
<1>1. SumFunctionOnSet(Opened(c, d), Ids) \in Int
  BY DealtInt, SumInt, FiniteAssumption
<1>2. SumFunctionOnSet(Closed(c, d), Ids) \in Int
  BY DealtInt, SumInt, FiniteAssumption
<1>3. position[c]["today"][d].postion \in Nat
  BY PositionTyped DEF Buckets
<1> QED
  BY <1>1, <1>2, <1>3 DEF Gap

LEMMA GapMoves ==
  ASSUME IInv, LInv, NEW c \in Codes, NEW d \in Dirs, NEW o \in Ids,
         Opened(c, d)'[o] \in Int, Closed(c, d)'[o] \in Int,
         \A p \in Ids \ {o} : /\ Opened(c, d)'[p] = Opened(c, d)[p]
                              /\ Closed(c, d)'[p] = Closed(c, d)[p],
         position'[c]["today"][d].postion \in Int
  PROVE  Gap(c, d)' = Gap(c, d) + (Opened(c, d)'[o] - Opened(c, d)[o])
                        - (Closed(c, d)'[o] - Closed(c, d)[o])
                        - (position'[c]["today"][d].postion - position[c]["today"][d].postion)
<1> DEFINE F == Opened(c, d)
           G == Opened(c, d)'
           H == Closed(c, d)
           K == Closed(c, d)'
           pos == position[c]["today"][d].postion
           now == position'[c]["today"][d].postion
<1>1. /\ \A p \in Ids : F[p] \in Int /\ H[p] \in Int
      /\ \A p \in Ids \ {o} : G[p] = F[p] /\ K[p] = H[p]
      /\ G[o] \in Int /\ K[o] \in Int
  BY DealtInt
<1>2. /\ Gap(c, d) = SumFunctionOnSet(F, Ids) - SumFunctionOnSet(H, Ids) - pos
      /\ Gap(c, d)' = SumFunctionOnSet(G, Ids) - SumFunctionOnSet(K, Ids) - now
  BY DEF Gap
<1>3. pos \in Int /\ now \in Int
  BY PositionTyped DEF Buckets
<1> HIDE DEF F, G, H, K, pos, now
<1>4. SumFunctionOnSet(G, Ids) = SumFunctionOnSet(F, Ids) - F[o] + G[o]
  BY <1>1, SumChange, FiniteAssumption
<1>5. SumFunctionOnSet(K, Ids) = SumFunctionOnSet(H, Ids) - H[o] + K[o]
  BY <1>1, SumChange, FiniteAssumption
<1>6. SumFunctionOnSet(F, Ids) \in Int /\ SumFunctionOnSet(H, Ids) \in Int
  BY <1>1, SumInt, FiniteAssumption
<1>7. F[o] \in Int /\ H[o] \in Int
  BY <1>1
<1>8. Gap(c, d)' = Gap(c, d) + (G[o] - F[o]) - (K[o] - H[o]) - (now - pos)
  BY <1>1, <1>2, <1>3, <1>4, <1>5, <1>6, <1>7
<1> QED
  BY <1>8 DEF F, G, H, K, pos, now

LEMMA GapStays ==
  ASSUME NEW c \in Codes, NEW d \in Dirs,
         \A p \in Ids : /\ Opened(c, d)'[p] = Opened(c, d)[p]
                        /\ Closed(c, d)'[p] = Closed(c, d)[p],
         position'[c]["today"][d].postion = position[c]["today"][d].postion
  PROVE  Gap(c, d)' = Gap(c, d)
<1> DEFINE F == Opened(c, d)
           G == Opened(c, d)'
           H == Closed(c, d)
           K == Closed(c, d)'
<1>1. \A p \in Ids : F[p] = G[p] /\ H[p] = K[p]
  OBVIOUS
<1>2. /\ Gap(c, d) = SumFunctionOnSet(F, Ids) - SumFunctionOnSet(H, Ids)
                      - position[c]["today"][d].postion
      /\ Gap(c, d)' = SumFunctionOnSet(G, Ids) - SumFunctionOnSet(K, Ids)
                      - position'[c]["today"][d].postion
  BY DEF Gap
<1> HIDE DEF F, G, H, K
<1>3. SumFunctionOnSet(F, Ids) = SumFunctionOnSet(G, Ids)
  BY <1>1, SumSame, FiniteAssumption
<1>4. SumFunctionOnSet(H, Ids) = SumFunctionOnSet(K, Ids)
  BY <1>1, SumSame, FiniteAssumption
<1> QED
  BY <1>2, <1>3, <1>4

\* A step that tells no deal and takes no position: what it tells leaves the
\* volume of every order it was told of.
LEMMA GapKept ==
  ASSUME NEW c \in Codes, NEW d \in Dirs,
         order' = order,
         \A p \in Ids : /\ told'[p].left = told[p].left
                        /\ told'[p].status = "none" <=> told[p].status = "none",
         position'[c]["today"][d].postion = position[c]["today"][d].postion
  PROVE  Gap(c, d)' = Gap(c, d)
<1>1. \A p \in Ids : /\ Opened(c, d)'[p] = Opened(c, d)[p]
                     /\ Closed(c, d)'[p] = Closed(c, d)[p]
  BY DEF Opened, Closed, Mine
<1> QED
  BY <1>1, GapStays

LEMMA PlaceGap ==
  ASSUME IInv, LInv, NEW o \in Ids, PlaceOrder(o), NEW c \in Codes, NEW d \in Dirs
  PROVE  Gap(c, d)' = Gap(c, d)
<1>0. PICK v \in Volumes :
        \E r : /\ order' = [order EXCEPT ![o] = r]
               /\ told' = [told EXCEPT ![o] = [status |-> "placed", left |-> v]]
               /\ r.total = v
  <2>1. PICK code \in Codes, off \in Offsets, dir \in Directions, f \in Flags,
             v \in Volumes, p \in Prices :
          /\ order' = [order EXCEPT ![o] =
               [code |-> code, offset |-> off, direction |-> dir, flag |-> f,
                total |-> v, last |-> v,
                price |-> IF p = 0 THEN tick[code].price ELSE p]]
          /\ told' = [told EXCEPT ![o] = [status |-> "placed", left |-> v]]
    BY DEF PlaceOrder
  <2> DEFINE r == [code |-> code, offset |-> off, direction |-> dir, flag |-> f,
                   total |-> v, last |-> v,
                   price |-> IF p = 0 THEN tick[code].price ELSE p]
  <2>2. order' = [order EXCEPT ![o] = r]
    BY <2>1
  <2>3. r.total = v
    OBVIOUS
  <2> HIDE DEF r
  <2> QED
    BY <2>1, <2>2, <2>3
<1>1. PICK r : /\ order' = [order EXCEPT ![o] = r]
               /\ told' = [told EXCEPT ![o] = [status |-> "placed", left |-> v]]
               /\ r.total = v
  BY <1>0
<1>2. /\ order'[o] = r /\ told'[o] = [status |-> "placed", left |-> v]
      /\ \A p \in Ids \ {o} : order'[p] = order[p] /\ told'[p] = told[p]
  BY <1>1 DEF IInv, TypeOK
<1>3. v - v = 0
  BY OrderAssumption
<1>4. told[o].status = "none" /\ position' = position
  BY DEF PlaceOrder, bookVars
<1>5. ASSUME NEW p \in Ids
      PROVE  Opened(c, d)'[p] = Opened(c, d)[p] /\ Closed(c, d)'[p] = Closed(c, d)[p]
  <2>1. CASE p = o
    <3>1. order'[o].total - told'[o].left = 0
      BY <1>1, <1>2, <1>3
    <3>2. Opened(c, d)'[o] = 0 /\ Closed(c, d)'[o] = 0
      BY <3>1 DEF Opened, Closed
    <3>3. Opened(c, d)[o] = 0 /\ Closed(c, d)[o] = 0
      BY <1>4 DEF Opened, Closed, Mine
    <3> QED
      BY <2>1, <3>2, <3>3
  <2>2. CASE p # o
    BY <1>2, <2>2 DEF Opened, Closed, Mine
  <2> QED
    BY <2>1, <2>2
<1> QED
  BY <1>4, <1>5, GapStays

LEMMA RefusedGap ==
  ASSUME IInv, LInv, NEW o \in loop.todo, HandleRefused(o), NEW c \in Codes, NEW d \in Dirs
  PROVE  Gap(c, d)' = Gap(c, d)
<1> DEFINE e == Event("OrderError", o, 0)
<1>1. /\ o \in Ids /\ IsLife(told[o]) /\ told[o].status = "placed"
  BY VisitedTyped DEF IInv, LInv, HandleRefused
<1>2. Leave(o, Book, order[o], "DELETE", seat[o], <<e>>)
  BY DEF HandleRefused
<1>3. HearAll(told[o], <<e>>) = Hear(told[o], e)
  BY Hear1
<1>4. Hear(told[o], e) = [status |-> "refused", left |-> told[o].left]
  BY <1>1 DEF Hear, Event, IsLife
<1>5. /\ told' = [told EXCEPT ![o] = [status |-> "refused", left |-> told[o].left]]
      /\ order' = [order EXCEPT ![o] = order[o]] /\ position' = position
  BY <1>2, <1>3, <1>4 DEF Leave, Book
<1>6. order' = order
  BY <1>5 DEF IInv, TypeOK
<1>7. \A p \in Ids : /\ told'[p].left = told[p].left
                     /\ told'[p].status = "none" <=> told[p].status = "none"
  BY <1>1, <1>5 DEF IInv
<1> QED
  BY <1>5, <1>6, <1>7, GapKept

LEMMA CanceledTells ==
  ASSUME IInv, LInv, NEW o \in loop.todo, HandleCanceled(o)
  PROVE  \A p \in Ids : /\ told'[p].left = told[p].left
                        /\ told'[p].status = "none" <=> told[p].status = "none"
<1> DEFINE e == Event("OrderCancel", o, order[o].last)
           ok == order[o].last > 0 /\ CanUnfreeze(Book, order[o])
<1>1. /\ o \in Ids /\ IsLife(told[o]) /\ told[o].status = "entrusted"
      /\ told[o].left = order[o].last
  BY VisitedTyped DEF IInv, LInv, HandleCanceled
<1>2. told' = [told EXCEPT ![o] = HearAll(@, IF ok THEN <<e>> ELSE <<>>)]
  BY DEF HandleCanceled, Leave
<1>3. Hear(told[o], e) = [status |-> "canceled", left |-> told[o].left]
  BY <1>1 DEF Hear, Event, IsLife
<1> HIDE DEF e, ok
<1>4. HearAll(told[o], <<e>>) = [status |-> "canceled", left |-> told[o].left]
  BY <1>3, Hear1
<1>5. HearAll(told[o], <<>>) = told[o]
  BY Hear0
<1>6. /\ told'[o] \in {[status |-> "canceled", left |-> told[o].left], told[o]}
      /\ \A p \in Ids \ {o} : told'[p] = told[p]
  BY <1>1, <1>2, <1>4, <1>5 DEF IInv
<1> QED
  BY <1>1, <1>6

LEMMA CanceledGap ==
  ASSUME IInv, LInv, BookInv, NEW o \in loop.todo, HandleCanceled(o),
         NEW c \in Codes, NEW d \in Dirs
  PROVE  Gap(c, d)' = Gap(c, d)
<1> DEFINE r == order[o]
<1>1. o \in Ids /\ r \in Orders /\ order' = order
  BY CanceledLeaves
<1>2. Book \in Books /\ Book.position = position
  BY BookTyped DEF Book
<1>3. position'[c]["today"][d].postion = position[c]["today"][d].postion
  <2>1. CASE ~Thaws(o)
    BY <2>1, CanceledLeaves
  <2>2. CASE Thaws(o) /\ r.offset = "open"
    BY <1>1, <1>2, <2>2, CanceledLeaves, UnfreezeOpen
  <2>3. CASE Thaws(o) /\ r.offset # "open"
    <3>1. /\ position'[r.code]["today"][r.direction].postion
               = position[r.code]["today"][r.direction].postion
          /\ \A c2 \in Codes, k \in Buckets, d2 \in Dirs :
               c2 # r.code \/ k # "today" \/ d2 # r.direction =>
                 position'[c2][k][d2] = position[c2][k][d2]
      BY <2>3, CanceledCloseLeaves
    <3> HIDE DEF r
    <3> QED
      BY <3>1 DEF Buckets
  <2> QED
    BY <2>1, <2>2, <2>3
<1> QED
  BY <1>1, <1>3, CanceledTells, GapKept

\* A match of an opening order tells v lots, and takes them if it can pay.
LEMMA MatchOpenGap ==
  ASSUME IInv, LInv, BookInv, IInv', NEW o \in loop.todo, HandleMatch(o),
         order[o].offset = "open", NEW c \in Codes, NEW d \in Dirs
  PROVE  /\ Gap(c, d)' >= Gap(c, d)
         /\ ChargesPaid => Gap(c, d)' = Gap(c, d)
<1> DEFINE r == order[o]
           v == Decided(o).deal
           item == position[r.code]["today"][r.direction]
           bought == Bought(item, r.price, v)
<1>0. state[o] \in {"INVALID", "IN_MATCH"} /\ MatchOrder(o)
  BY DEF HandleMatch
<1>1. /\ o \in Ids /\ r \in Orders /\ r.last \in Nat /\ v \in 0..r.last
      /\ Rest(o) = r.last - v
      /\ told[o].left = r.last /\ told[o].status \in {"placed", "entrusted"}
      /\ told'[o] = [status |-> EndOf(o), left |-> Rest(o)]
      /\ \A p \in Ids \ {o} : order'[p] = order[p] /\ told'[p] = told[p]
  BY <1>0, MatchOne
<1>2. order'[o] = [r EXCEPT !.last = Rest(o)]
  BY <1>0, MatchOne
<1>3. /\ order'[o].code = r.code /\ order'[o].direction = r.direction
      /\ order'[o].offset = "open" /\ order'[o].total = r.total
      /\ r.total \in Nat
  BY <1>1, <1>2 DEF Orders
<1>4. EndOf(o) # "none" /\ told'[o].status # "none" /\ told[o].status # "none"
      /\ told'[o].left = r.last - v
  BY <1>1 DEF EndOf
<1>5. /\ \A p \in Ids \ {o} : /\ Opened(c, d)'[p] = Opened(c, d)[p]
                              /\ Closed(c, d)'[p] = Closed(c, d)[p]
      /\ Closed(c, d)'[o] = Closed(c, d)[o]
  BY <1>1, <1>3 DEF Opened, Closed, Mine
<1>6. position' = IF Pays(o) THEN Put(position, r.code, "today", r.direction, bought)
                  ELSE position
  BY MatchOpenLeaves
<1>7. r.code \in Codes /\ r.direction \in Dirs /\ r.price \in Nat
  BY <1>1, OrderKeys
<1>8. item \in Items /\ position \in Positions /\ "today" \in Buckets
  BY <1>7, PositionTyped DEF Buckets
<1>9. ChargesPaid /\ v # 0 => Pays(o)
  BY <1>1, Affords DEF Pays
<1>10. position'[c]["today"][d].postion \in Nat /\ position[c]["today"][d].postion \in Nat
  BY PositionTyped DEF IInv, TypeOK, Buckets
<1>11. Gap(c, d) \in Int /\ Opened(c, d)[o] \in Int /\ Closed(c, d)[o] \in Int
  BY <1>1, GapInt, DealtInt
<1>12. CASE c = r.code /\ d = r.direction
  <2>1. Opened(c, d)[o] = r.total - r.last /\ Opened(c, d)'[o] = r.total - (r.last - v)
    BY <1>1, <1>3, <1>4, <1>12 DEF Opened, Mine
  <2>2. CASE Pays(o)
    <3>1. v \in Nat \ {0}
      BY <1>1, <2>2 DEF Pays
    <3>2. bought.postion = item.postion + v /\ item.postion \in Nat
      <4> HIDE DEF r, v, item
      <4>1. item.postion \in Nat
        BY <1>8 DEF Items
      <4>2. bought.postion = item.postion + v
        BY <1>7, <1>8, <3>1, BoughtIs
      <4> QED
        BY <4>1, <4>2
    <3>3. position'[c]["today"][d] = bought
      <4> HIDE DEF bought, r, item
      <4>1. position' = Put(position, r.code, "today", r.direction, bought)
        BY <1>6, <2>2
      <4>2. Put(position, r.code, "today", r.direction, bought)[r.code]["today"][r.direction]
              = bought
        BY <1>7, <1>8, PutAt
      <4> QED
        BY <1>12, <4>1, <4>2
    <3>4. position[c]["today"][d] = item
      BY <1>12
    <3>5. Opened(c, d)'[o] - Opened(c, d)[o] = v
      <4> HIDE DEF r, v
      <4> QED
        BY <1>1, <1>3, <2>1, <3>1
    <3>6. position'[c]["today"][d].postion - position[c]["today"][d].postion = v
      <4> HIDE DEF v, item, bought
      <4> QED
        BY <3>1, <3>2, <3>3, <3>4
    <3>7. Opened(c, d)'[o] \in Int /\ Closed(c, d)'[o] \in Int
      BY <1>1, <1>3, <1>5, <1>11, <2>1
    <3>8. Gap(c, d)' = Gap(c, d) + (Opened(c, d)'[o] - Opened(c, d)[o])
                         - (Closed(c, d)'[o] - Closed(c, d)[o])
                         - (position'[c]["today"][d].postion - position[c]["today"][d].postion)
      BY <1>1, <1>5, <1>10, <3>7, GapMoves
    <3> HIDE DEF v
    <3>9. Gap(c, d)' = Gap(c, d)
      BY <1>5, <1>11, <3>1, <3>5, <3>6, <3>8
    <3> QED
      BY <1>11, <3>9
  <2>3. CASE ~Pays(o)
    <3>1. position'[c]["today"][d].postion = position[c]["today"][d].postion
      BY <1>6, <2>3
    <3>2. Opened(c, d)'[o] - Opened(c, d)[o] = v /\ v \in Nat
      <4>1. v \in Nat
        BY <1>1
      <4> HIDE DEF r, v
      <4> QED
        BY <1>1, <1>3, <2>1, <4>1
    <3>3. Opened(c, d)'[o] \in Int /\ Closed(c, d)'[o] \in Int
      BY <1>1, <1>3, <1>5, <1>11, <2>1
    <3>4. Gap(c, d)' = Gap(c, d) + (Opened(c, d)'[o] - Opened(c, d)[o])
                         - (Closed(c, d)'[o] - Closed(c, d)[o])
                         - (position'[c]["today"][d].postion - position[c]["today"][d].postion)
      BY <1>1, <1>5, <1>10, <3>3, GapMoves
    <3>5. ChargesPaid => v = 0
      BY <1>9, <2>3
    <3> HIDE DEF v
    <3>6. Gap(c, d)' = Gap(c, d) + v
      BY <1>5, <1>10, <1>11, <3>1, <3>2, <3>4
    <3> QED
      BY <1>11, <3>2, <3>5, <3>6
  <2> QED
    BY <2>2, <2>3
<1>13. CASE ~(c = r.code /\ d = r.direction)
  <2>1. Opened(c, d)'[o] = Opened(c, d)[o]
    BY <1>1, <1>3, <1>13 DEF Opened, Mine
  <2>2. position'[c]["today"][d] = position[c]["today"][d]
    <3> HIDE DEF bought, r, item
    <3> QED
      BY <1>6, <1>7, <1>8, <1>13, PutAt
  <2>3. Gap(c, d)' = Gap(c, d)
    BY <1>5, <2>1, <2>2, GapStays
  <2> QED
    BY <1>11, <2>3
<1> QED
  BY <1>12, <1>13

\* A match of a closing order tells v lots, and gives them back.
LEMMA MatchCloseGap ==
  ASSUME IInv, LInv, BookInv, IInv', NEW o \in loop.todo, HandleMatch(o),
         order[o].offset # "open", NEW c \in Codes, NEW d \in Dirs
  PROVE  Gap(c, d)' = Gap(c, d)
<1> DEFINE r == order[o]
           v == Decided(o).deal
           item == position[r.code]["today"][r.direction]
<1>0. state[o] \in {"INVALID", "IN_MATCH"} /\ MatchOrder(o)
  BY DEF HandleMatch
<1>1. /\ o \in Ids /\ r \in Orders /\ r.last \in Nat /\ v \in 0..r.last
      /\ Rest(o) = r.last - v
      /\ told[o].left = r.last /\ told[o].status \in {"placed", "entrusted"}
      /\ told'[o] = [status |-> EndOf(o), left |-> Rest(o)]
      /\ \A p \in Ids \ {o} : order'[p] = order[p] /\ told'[p] = told[p]
  BY <1>0, MatchOne
<1>2. order'[o] = [r EXCEPT !.last = Rest(o)]
  BY <1>0, MatchOne
<1>3. /\ order'[o].code = r.code /\ order'[o].direction = r.direction
      /\ order'[o].offset # "open" /\ order'[o].total = r.total
      /\ r.total \in Nat
  BY <1>1, <1>2 DEF Orders
<1>4. EndOf(o) # "none" /\ told'[o].status # "none" /\ told[o].status # "none"
      /\ told'[o].left = r.last - v
  BY <1>1 DEF EndOf
<1>5. /\ \A p \in Ids \ {o} : /\ Opened(c, d)'[p] = Opened(c, d)[p]
                              /\ Closed(c, d)'[p] = Closed(c, d)[p]
      /\ Opened(c, d)'[o] = Opened(c, d)[o]
  BY <1>1, <1>3 DEF Opened, Closed, Mine
<1>6. /\ position'[r.code]["today"][r.direction].postion = item.postion - v
      /\ \A c2 \in Codes, k \in Buckets, d2 \in Dirs :
           c2 # r.code \/ k # "today" \/ d2 # r.direction =>
             position'[c2][k][d2] = position[c2][k][d2]
  BY MatchCloseLeaves
<1>7. position'[c]["today"][d].postion \in Nat /\ position[c]["today"][d].postion \in Nat
  BY PositionTyped DEF IInv, TypeOK, Buckets
<1>8. Gap(c, d) \in Int /\ Opened(c, d)[o] \in Int /\ Closed(c, d)[o] \in Int
  BY <1>1, GapInt, DealtInt
<1>9. CASE c = r.code /\ d = r.direction
  <2>1. Closed(c, d)[o] = r.total - r.last /\ Closed(c, d)'[o] = r.total - (r.last - v)
    BY <1>1, <1>3, <1>4, <1>9 DEF Closed, Mine
  <2>2. Closed(c, d)'[o] - Closed(c, d)[o] = v /\ v \in Nat
    <3>1. v \in Nat
      BY <1>1
    <3> HIDE DEF r, v
    <3> QED
      BY <1>1, <1>3, <2>1, <3>1
  <2>3. position'[c]["today"][d].postion = position[c]["today"][d].postion - v
    BY <1>6, <1>9
  <2>4. Opened(c, d)'[o] \in Int /\ Closed(c, d)'[o] \in Int
    BY <1>1, <1>3, <1>5, <1>8, <2>1
  <2>5. Gap(c, d)' = Gap(c, d) + (Opened(c, d)'[o] - Opened(c, d)[o])
                       - (Closed(c, d)'[o] - Closed(c, d)[o])
                       - (position'[c]["today"][d].postion - position[c]["today"][d].postion)
    BY <1>1, <1>5, <1>7, <2>4, GapMoves
  <2> HIDE DEF v
  <2> QED
    BY <1>5, <1>7, <1>8, <2>2, <2>3, <2>5
<1>10. CASE ~(c = r.code /\ d = r.direction)
  <2>1. Closed(c, d)'[o] = Closed(c, d)[o]
    BY <1>1, <1>3, <1>10 DEF Closed, Mine
  <2>2. position'[c]["today"][d] = position[c]["today"][d]
    <3> HIDE DEF r, item
    <3> QED
      BY <1>6, <1>10 DEF Buckets
  <2> QED
    BY <1>5, <2>1, <2>2, GapStays
<1> QED
  BY <1>9, <1>10

\* No step makes more of a position than it tells, and one that can pay for
\* what it deals makes as much.
LEMMA GapStep ==
  ASSUME IInv, LInv, BookInv, ~CancelsEnded, [Next]_vars, NEW c \in Codes, NEW d \in Dirs
  PROVE  Gap(c, d)' >= Gap(c, d) /\ (ChargesPaid => Gap(c, d)' = Gap(c, d))
<1>0. Gap(c, d) \in Int /\ IInv'
  BY GapInt, NextIInv
<1>1. ASSUME UNCHANGED <<order, told, position>> PROVE Gap(c, d)' = Gap(c, d)
  BY <1>1, GapKept
<1>2. CASE \E x \in Codes : PushTick(x)
  BY <1>0, <1>1, <1>2 DEF PushTick, orderVars, bookVars
<1>3. CASE \E o \in Ids : PlaceOrder(o)
  BY <1>0, <1>3, PlaceGap
<1>4. CASE \E o \in Ids : CancelOrder(o)
  BY <1>0, <1>1, <1>4 DEF CancelOrder, bookVars
<1>5. CASE Crossday
  <2>1. /\ position'[c]["today"][d] = position[c]["today"][d]
        /\ order' = order /\ told' = told
    BY <1>5, CrossdayLeaves
  <2>2. Gap(c, d)' = Gap(c, d)
    BY <2>1, GapKept
  <2> QED
    BY <1>0, <2>2
<1>6. CASE BeginUpdate \/ MatchEntrust
  <2>1. UNCHANGED <<order, told, position>>
    BY <1>6 DEF BeginUpdate, MatchEntrust, orderVars, bookVars
  <2> QED
    BY <1>0, <1>1, <2>1
<1>7. CASE HandleEntrust
  <2>1. PICK o \in loop.todo : HandleCanceled(o) \/ HandleRefused(o) \/ HandleMatch(o)
    BY <1>7 DEF HandleEntrust
  <2> QED
    BY <1>0, <2>1, CanceledGap, RefusedGap, MatchOpenGap, MatchCloseGap
<1>8. CASE Sweep
  BY <1>0, <1>1, <1>8 DEF Sweep, bookVars
<1>9. CASE UNCHANGED vars
  BY <1>0, <1>1, <1>9 DEF vars, orderVars, bookVars
<1> QED
  BY <1>2, <1>3, <1>4, <1>5, <1>6, <1>7, <1>8, <1>9 DEF Next, Update

LEMMA InitGap == ASSUME Init, NEW c \in Codes, NEW d \in Dirs PROVE Gap(c, d) = 0
<1>1. \A o \in Ids : Opened(c, d)[o] = 0 /\ Closed(c, d)[o] = 0
  BY DEF Init, Opened, Closed, Mine
<1>2. SumFunctionOnSet(Opened(c, d), Ids) = 0 /\ SumFunctionOnSet(Closed(c, d), Ids) = 0
  BY <1>1, SumZero, FiniteAssumption
<1>3. position[c]["today"][d].postion = 0
  BY DEF Init, NoItem, Buckets
<1> QED
  BY <1>2, <1>3 DEF Gap

\* The sums of PositionReconciles are those of Gap.
LEMMA GapIs ==
  ASSUME IInv, LInv, BookInv, NEW c \in Codes, NEW d \in Dirs
  PROVE  LET dealt == [o \in Ids |-> order[o].total - told[o].left]
             mine == {o \in Ids : /\ told[o].status # "none"
                                  /\ order[o].code = c /\ order[o].direction = d}
             sum == SumFunctionOnSet(dealt, {o \in mine : order[o].offset = "open"})
                    - SumFunctionOnSet(dealt, {o \in mine : order[o].offset # "open"})
         IN /\ sum = Gap(c, d)
                     + (position[c]["today"][d].postion + position[c]["yestoday"][d].postion)
            /\ sum \in Int
<1> DEFINE dealt == [o \in Ids |-> order[o].total - told[o].left]
           mine == {o \in Ids : /\ told[o].status # "none"
                                /\ order[o].code = c /\ order[o].direction = d}
           R == {o \in mine : order[o].offset = "open"}
           S == {o \in mine : order[o].offset # "open"}
           f == [o \in Ids |-> IF o \in R THEN dealt[o] ELSE 0]
           g == [o \in Ids |-> IF o \in S THEN dealt[o] ELSE 0]
<1>1. ASSUME NEW o \in Ids PROVE dealt[o] \in Int
  <2>1. order[o].total \in Nat
    BY DEF IInv, TypeOK, OrderInfos
  <2>2. told[o].left \in Nat
    BY OrderAssumption DEF LInv
  <2> QED
    BY <2>1, <2>2
<1>2. R \subseteq Ids /\ S \subseteq Ids
  OBVIOUS
<1>3. f = Opened(c, d)
  BY DEF Opened, Mine
<1>4. g = Closed(c, d)
  BY DEF Closed, Mine
<1>5. SumFunctionOnSet(dealt, R) = SumFunctionOnSet(f, Ids)
  <2> HIDE DEF dealt, R
  <2> QED
    BY <1>1, <1>2, SumWithin, FiniteAssumption
<1>6. SumFunctionOnSet(dealt, S) = SumFunctionOnSet(g, Ids)
  <2> HIDE DEF dealt, S
  <2> QED
    BY <1>1, <1>2, SumWithin, FiniteAssumption
<1>7. /\ SumFunctionOnSet(f, Ids) \in Int
      /\ SumFunctionOnSet(g, Ids) \in Int
  BY <1>3, <1>4, DealtInt, SumInt, FiniteAssumption
<1>8. /\ position[c]["yestoday"][d].postion = 0
      /\ position[c]["today"][d].postion \in Int
  BY PositionTyped DEF BookInv, NoneFromYestoday, Buckets
<1>9. Gap(c, d) = SumFunctionOnSet(f, Ids) - SumFunctionOnSet(g, Ids)
                    - position[c]["today"][d].postion
  BY <1>3, <1>4 DEF Gap
<1> HIDE DEF dealt, R, S, f, g
<1>10. /\ SumFunctionOnSet(dealt, R) - SumFunctionOnSet(dealt, S)
            = Gap(c, d) + (position[c]["today"][d].postion + position[c]["yestoday"][d].postion)
       /\ SumFunctionOnSet(dealt, R) - SumFunctionOnSet(dealt, S) \in Int
  BY <1>5, <1>6, <1>7, <1>8, <1>9
<1> QED
  BY <1>10 DEF dealt, R, S

\* The exchange holds no lot that it did not tell.
NoLotUntold ==
  \A c \in Codes, d \in Dirs :
    LET dealt == [o \in Ids |-> order[o].total - told[o].left]
        mine == {o \in Ids : /\ told[o].status # "none"
                             /\ order[o].code = c /\ order[o].direction = d}
    IN position[c]["today"][d].postion + position[c]["yestoday"][d].postion
       <= SumFunctionOnSet(dealt, {o \in mine : order[o].offset = "open"})
          - SumFunctionOnSet(dealt, {o \in mine : order[o].offset # "open"})

GapPositive == \A c \in Codes, d \in Dirs : Gap(c, d) >= 0

GapClosed == \A c \in Codes, d \in Dirs : Gap(c, d) = 0

LEMMA LotsNat ==
  ASSUME IInv, NEW c \in Codes, NEW d \in Dirs
  PROVE  position[c]["today"][d].postion + position[c]["yestoday"][d].postion \in Nat
BY PositionTyped DEF Buckets

GapTyped == \A c \in Codes, d \in Dirs : Gap(c, d) \in Int

LEMMA GapHasType == IInv /\ LInv => GapTyped
BY GapInt DEF GapTyped

\* Whatever is dealt, refused, cancelled or carried over a day, the position
\* the exchange holds is never more than what a listener was told: a deal that
\* cannot be paid for is told and not taken, and nothing is taken untold.
THEOREM LotsAreTold == ASSUME ~CancelsEnded PROVE Spec => []NoLotUntold
<1>1. Init => GapPositive
  BY InitGap DEF GapPositive
<1>2. IInv /\ LInv /\ BookInv /\ GapPositive /\ GapTyped /\ GapTyped' /\ [Next]_vars
        => GapPositive'
  <2> SUFFICES ASSUME IInv, LInv, BookInv, GapPositive, GapTyped, GapTyped', [Next]_vars,
                      NEW c \in Codes, NEW d \in Dirs
               PROVE  Gap(c, d)' >= 0
    BY DEF GapPositive
  <2>1. Gap(c, d)' >= Gap(c, d)
    BY GapStep
  <2>2. Gap(c, d) >= 0 /\ Gap(c, d) \in Int /\ Gap(c, d)' \in Int
    BY DEF GapPositive, GapTyped
  <2> QED
    BY <2>1, <2>2
<1>3. IInv /\ LInv /\ BookInv /\ GapPositive => NoLotUntold
  <2> SUFFICES ASSUME IInv, LInv, BookInv, GapPositive PROVE NoLotUntold
    OBVIOUS
  <2>1. \A c \in Codes, d \in Dirs : Gap(c, d) >= 0 /\ Gap(c, d) \in Int
    BY GapInt DEF GapPositive
  <2> QED
    BY <2>1, GapIs, LotsNat DEF NoLotUntold
<1> QED
  BY <1>1, <1>2, <1>3, GapHasType, BookAlways, PTL DEF Spec

\* And while every charge can be paid it is exactly that.
THEOREM PositionsReconcile ==
  ASSUME ~CancelsEnded PROVE Spec /\ []ChargesPaid => []PositionReconciles
<1>1. Init => GapClosed
  BY InitGap DEF GapClosed
<1>2. IInv /\ LInv /\ BookInv /\ ChargesPaid /\ GapClosed /\ [Next]_vars => GapClosed'
  BY GapStep DEF GapClosed
<1>3. IInv /\ LInv /\ BookInv /\ GapClosed => PositionReconciles
  <2> SUFFICES ASSUME IInv, LInv, BookInv, GapClosed PROVE PositionReconciles
    OBVIOUS
  <2>1. \A c \in Codes, d \in Dirs : Gap(c, d) = 0
    BY DEF GapClosed
  <2> QED
    BY <2>1, GapIs, LotsNat DEF PositionReconciles
<1> QED
  BY <1>1, <1>2, <1>3, BookAlways, PTL DEF Spec

-----------------------------------------------------------------------------
(* How large a position gets *)

\* A handler leaves the other orders alone.
LEMMA LeavesOne ==
  ASSUME IInv, NEW o \in Ids, NEW b, NEW r, NEW s, NEW q, NEW events,
         Leave(o, b, r, s, q, events)
  PROVE  /\ \A p \in Ids \ {o} : /\ state'[p] = state[p] /\ told'[p] = told[p]
                                 /\ order'[p] = order[p]
         /\ state'[o] = s /\ order'[o] = r /\ told'[o] = HearAll(told[o], events)
BY DEF Leave, IInv, TypeOK

LEMMA HandlerLeaves ==
  ASSUME IInv, NEW o \in loop.todo,
         HandleCanceled(o) \/ HandleRefused(o) \/ HandleMatch(o)
  PROVE  /\ \A p \in Ids \ {o} : /\ state'[p] = state[p] /\ told'[p] = told[p]
                                 /\ order'[p] = order[p]
         /\ state'[o] # "erased"
<1>1. o \in Ids
  BY VisitedTyped
<1>2. CASE HandleCanceled(o)
  BY <1>1, <1>2, LeavesOne DEF HandleCanceled
<1>3. CASE HandleRefused(o)
  BY <1>1, <1>3, LeavesOne DEF HandleRefused
<1>4. CASE HandleMatch(o)
  BY <1>1, <1>4, LeavesOne DEF HandleMatch, MatchOrder
<1> QED
  BY <1>2, <1>3, <1>4


\* No order is larger than MaxVolume, and none was told to have more left than
\* it asked for.
SizesOf(o) == order[o].total <= MaxVolume /\ told[o].left <= order[o].total

Sizes == \A o \in Ids : SizesOf(o)

LEMMA InitSizes == Init => Sizes
BY OrderAssumption DEF Init, NoOrder, Sizes, SizesOf

LEMMA SizesStep == ASSUME IInv, LInv, Sizes, [Next]_vars PROVE Sizes'
<1>1. CASE UNCHANGED <<order, told>>
  BY <1>1 DEF Sizes, SizesOf
<1>2. CASE \E o \in Ids : PlaceOrder(o)
  <2>1. PICK o \in Ids : PlaceOrder(o)
    BY <1>2
  <2>2. PICK c \in Codes, off \in Offsets, d \in Directions, f \in Flags,
             v \in Volumes, pr \in Prices :
          /\ order' = [order EXCEPT ![o] =
               [code |-> c, offset |-> off, direction |-> d, flag |-> f,
                total |-> v, last |-> v,
                price |-> IF pr = 0 THEN tick[c].price ELSE pr]]
          /\ told' = [told EXCEPT ![o] = [status |-> "placed", left |-> v]]
    BY <2>1 DEF PlaceOrder
  <2>3. v <= MaxVolume /\ v \in Nat
    BY OrderAssumption
  <2>4. /\ order'[o].total = v /\ told'[o].left = v
        /\ \A p \in Ids \ {o} : order'[p] = order[p] /\ told'[p] = told[p]
    BY <2>2 DEF IInv, TypeOK
  <2> QED
    BY <2>3, <2>4 DEF Sizes, SizesOf
<1>3. CASE HandleEntrust
  <2>1. PICK o \in loop.todo : HandleCanceled(o) \/ HandleRefused(o) \/ HandleMatch(o)
    BY <1>3 DEF HandleEntrust
  <2>2. /\ o \in Ids /\ order[o] \in Orders
        /\ \A p \in Ids \ {o} : told'[p] = told[p] /\ order'[p] = order[p]
    BY <2>1, VisitedTyped, HandlerLeaves
  <2>3. /\ order[o].total \in Nat /\ order[o].total <= MaxVolume
        /\ told[o].left \in Nat /\ told[o].left <= order[o].total
    BY <2>2, OrderAssumption DEF Sizes, SizesOf, Orders, LInv
  <2>4. CASE HandleCanceled(o)
    <3>1. order' = order /\ told'[o].left = told[o].left
      BY <2>2, <2>4, CanceledLeaves, CanceledTells
    <3> QED
      BY <2>2, <2>3, <3>1 DEF Sizes, SizesOf
  <2>5. CASE HandleRefused(o)
    <3>1. order'[o] = order[o] /\ told'[o].left = told[o].left
      <4> DEFINE e == Event("OrderError", o, 0)
      <4>1. told[o].status = "placed" /\ IsLife(told[o])
        BY <2>2, <2>5 DEF IInv, LInv, HandleRefused
      <4>2. HearAll(told[o], <<e>>) = Hear(told[o], e)
        BY Hear1
      <4>3. Hear(told[o], e).left = told[o].left
        BY <4>1 DEF Hear, Event, IsLife
      <4>4. told'[o] = HearAll(told[o], <<e>>) /\ order'[o] = order[o]
        BY <2>2, <2>5, LeavesOne DEF HandleRefused
      <4> QED
        BY <4>2, <4>3, <4>4
    <3> QED
      BY <2>2, <2>3, <3>1 DEF Sizes, SizesOf
  <2>6. CASE HandleMatch(o)
    <3>1. /\ told[o].left = order[o].last /\ Rest(o) \in 0..order[o].last
          /\ order' = [order EXCEPT ![o] = [order[o] EXCEPT !.last = Rest(o)]]
          /\ told' = [told EXCEPT ![o] = [status |-> EndOf(o), left |-> Rest(o)]]
      BY <2>6, MatchTells DEF HandleMatch
    <3>2. order'[o].total = order[o].total /\ told'[o].left = Rest(o)
      BY <2>2, <3>1 DEF IInv, TypeOK, Orders
    <3> QED
      BY <2>2, <2>3, <3>1, <3>2 DEF Sizes, SizesOf
  <2> QED
    BY <2>1, <2>4, <2>5, <2>6
<1>4. UNCHANGED <<order, told>> \/ (\E o \in Ids : PlaceOrder(o)) \/ HandleEntrust
  <2>1. CASE \E c \in Codes : PushTick(c)
    BY <2>1 DEF PushTick, orderVars
  <2>2. CASE \E o \in Ids : CancelOrder(o)
    BY <2>2 DEF CancelOrder
  <2>3. CASE Crossday
    BY <2>3 DEF Crossday
  <2>4. CASE BeginUpdate \/ MatchEntrust \/ Sweep
    BY <2>4 DEF BeginUpdate, MatchEntrust, Sweep, orderVars
  <2>5. CASE UNCHANGED vars
    BY <2>5 DEF vars, orderVars
  <2> QED
    BY <2>1, <2>2, <2>3, <2>4, <2>5 DEF Next, Update
<1> QED
  BY <1>1, <1>2, <1>3, <1>4

\* All that was ever ordered bounds every position.
AllLots == MaxVolume * Cardinality(Ids)

LEMMA PositionFits ==
  ASSUME IInv, LInv, BookInv, GapPositive, Sizes,
         NEW c \in Codes, NEW k \in Buckets, NEW d \in Dirs
  PROVE  position[c][k][d].postion \in 0..AllLots /\ AllLots \in Nat
<1>1. ASSUME NEW o \in Ids
      PROVE  /\ Opened(c, d)[o] \in Int /\ Opened(c, d)[o] <= MaxVolume
             /\ Closed(c, d)[o] \in Nat
  <2>1. order[o].total \in Nat /\ told[o].left \in Nat
    BY OrderAssumption DEF IInv, TypeOK, OrderInfos, LInv
  <2>2. order[o].total <= MaxVolume /\ told[o].left <= order[o].total
    BY DEF Sizes, SizesOf
  <2> QED
    BY <2>1, <2>2, OrderAssumption DEF Opened, Closed
<1> DEFINE F == Opened(c, d)
           H == Closed(c, d)
<1>2. Gap(c, d) = SumFunctionOnSet(F, Ids) - SumFunctionOnSet(H, Ids)
                    - position[c]["today"][d].postion
  BY DEF Gap
<1>3. Gap(c, d) >= 0
  BY DEF GapPositive
<1> HIDE DEF F, H
<1>4. SumFunctionOnSet(F, Ids) <= AllLots /\ SumFunctionOnSet(F, Ids) \in Int
  BY <1>1, SumAtMost, SumInt, FiniteAssumption, OrderAssumption DEF AllLots, F
<1>5. SumFunctionOnSet(H, Ids) \in Nat
  BY <1>1, SumNat, FiniteAssumption DEF H
<1>6. /\ position[c]["today"][d].postion \in Nat
      /\ position[c]["yestoday"][d].postion = 0
  BY PositionTyped DEF Buckets, BookInv, NoneFromYestoday
<1>7. AllLots \in Nat
  <2>1. Cardinality(Ids) \in Nat
    BY FS_CardinalityType, FiniteAssumption
  <2> QED
    BY <2>1, OrderAssumption DEF AllLots
<1> QED
  BY <1>2, <1>3, <1>4, <1>5, <1>6, <1>7 DEF Buckets

\* The invariants of the books together, and a step of them.
BooksInv == BookInv /\ GapPositive /\ Sizes

LEMMA InitBooks == Init => BooksInv
BY InitBook, InitGap, InitSizes DEF BooksInv, GapPositive

LEMMA BooksStep ==
  ASSUME IInv, LInv, BooksInv, GapTyped, GapTyped', ~CancelsEnded, [Next]_vars
  PROVE  BooksInv'
<1>1. BookInv' /\ Sizes'
  BY BookStep, SizesStep DEF BooksInv
<1>2. ASSUME NEW c \in Codes, NEW d \in Dirs PROVE Gap(c, d)' >= 0
  <2>1. Gap(c, d)' >= Gap(c, d)
    BY GapStep DEF BooksInv
  <2>2. Gap(c, d) >= 0 /\ Gap(c, d) \in Int /\ Gap(c, d)' \in Int
    BY DEF BooksInv, GapPositive, GapTyped
  <2> QED
    BY <2>1, <2>2
<1>3. GapPositive'
  BY <1>2 DEF GapPositive
<1> QED
  BY <1>1, <1>3 DEF BooksInv
=============================================================================
