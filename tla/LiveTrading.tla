----------------------------- MODULE LiveTrading -----------------------------
(***************************************************************************)
(* Live trading: the context (ContextLedger) behind an actual trader       *)
(* driver (TraderAdapter), the broker's API thread on one side of the      *)
(* event queue and the real-time thread on the other, an exchange that is  *)
(* shared with other sessions of the account, and a process that may die   *)
(* at any time and start again (asyn_actual_trader, runtime_engine).       *)
(*                                                                         *)
(* wire holds the API's callbacks in the order the broker sends them.  The *)
(* API thread runs one (Deliver): it changes the driver's maps and then    *)
(* fires its events one by one, spinning while the queue is full (Fire).   *)
(* The real-time thread takes them out in trading hours (Handle) and runs  *)
(* the strategies and the cancel conditions.                               *)
(*                                                                         *)
(* Three things make the context's books differ from the exchange's for as *)
(* long as the process runs; gaps remembers which of them has happened:    *)
(*   "window"  something was returned between the login and the load, so   *)
(*             that it is counted in both the load and the events, or was  *)
(*             dealt between the load's two queries;                       *)
(*   "partial" an order was loaded that had dealt in part;                 *)
(*   "merged"  the first return of an order tells more than its entrust.   *)
(* TAP's driver misreads two errors, and misread holds the orders of which *)
(* it did: a refusal it only logs, so that nobody hears it, and a refused  *)
(* cancel that it tells as the refusal of an order that is still alive.    *)
(***************************************************************************)
EXTENDS Integers, Sequences, FiniteSets, FiniteSetsExt, SequencesExt

CONSTANTS
  Apis,         \* the drivers: a subset of {"ctp", "tap"}
  Codes,        \* instruments
  Distinct,     \* those whose exchange tells today's lots apart
  Ids,          \* estids, in the order they are handed out
  Requests,     \* [code, offset, direction, total]: what may be asked for
  Holding,      \* what the account holds at first: Codes -> Buckets -> Dirs -> Nat
  MaxVolume,    \* no request asks for more
  Size,         \* capacity of the event queue
  Merges,       \* may a return tell of several changes at once?
  MaxForeign,   \* bound: orders of other sessions
  MaxWire,      \* bound: callbacks the broker has sent and the API not run
  MaxRestarts,  \* bound: deaths of the process
  MaxMisread,   \* bound: errors the TAP driver misreads, and deaths before them
  Modulus       \* unsigned integers are those below it

ASSUME LiveAssumption ==
  /\ Apis \subseteq {"ctp", "tap"} /\ Distinct \subseteq Codes /\ IsFiniteSet(Ids)
  /\ MaxVolume \in Nat /\ Modulus \in Nat /\ Modulus > MaxVolume
  /\ Requests \subseteq [code : Codes, offset : {"open", "close", "clstd"},
                         direction : {"long", "short"}, total : 1..MaxVolume]
  /\ Holding \in [Codes -> [{"today", "yestoday"} -> [{"long", "short"} -> Nat]]]
  /\ Size \in Nat \ {0} /\ Merges \in BOOLEAN

VARIABLES
  api,       \* the driver in use
  asked,     \* Ids -> what was asked for
  exch,      \* Ids -> [status, left]: the order at the exchange, and the lots
             \* it waits for
  holding,   \* Codes -> Buckets -> Dirs -> the account's lots
  cancels,   \* the ids whose cancel is on its way to the exchange
  wire,      \* callbacks the API has still to run
  adapter,   \* the driver's maps: see TraderAdapter
  firing,    \* the events the running callback has still to fire
  queue,     \* queue_event_source's buffer
  session,   \* "down", "ready" after the login, "queried" half way through
             \* the load, "running"
  seen,      \* the holding the load's position query returned, until it is used
  trading,   \* context::is_in_trading
  ctx,       \* the context's books: see ContextLedger
  mine,      \* the ids this process placed
  told,      \* Ids -> what its listener was told of an order
  misread,   \* the orders of which the TAP driver misread an error
  gaps,      \* see above
  restarts   \* how often the process died

exchangeVars == <<asked, exch, holding, cancels>>
threadVars   == <<wire, adapter, firing, queue>>
processVars  == <<session, seen, trading, ctx, mine, told>>
histVars     == <<misread, gaps, restarts>>
vars == <<api, exchangeVars, threadVars, processVars, histVars>>

Ctx == INSTANCE ContextLedger
Drv == INSTANCE TraderAdapter

Dirs    == {"long", "short"}
Buckets == {"today", "yestoday"}

NothingTold == [o \in Ids |-> [status |-> "none", left |-> 0]]

NoRequest == [code |-> 0, offset |-> "open", direction |-> "long", total |-> 0]

Init ==
  /\ api \in Apis
  /\ asked = [o \in Ids |-> NoRequest]
  /\ exch = [o \in Ids |-> [status |-> "none", left |-> 0]]
  /\ holding = Holding /\ seen = Holding
  /\ cancels = {} /\ wire = <<>> /\ firing = <<>> /\ queue = <<>>
  /\ adapter = Drv!NoOrders
  /\ session = "down" /\ trading = FALSE
  /\ ctx = Ctx!Empty
  /\ mine = {} /\ misread = {} /\ gaps = {} /\ restarts = 0
  /\ told = NothingTold

-----------------------------------------------------------------------------
(* The exchange *)

At(status) == {o \in Ids : exch[o].status = status}

\* The bucket an order takes its lots from, or adds them to.
BucketOf(r) ==
  IF r.offset = "close" /\ r.code \in Distinct THEN "yestoday" ELSE "today"

\* Lots the working closing orders wait to sell.
Locked(c, b, d) ==
  MapThenSumSet(LAMBDA o : exch[o].left,
    {o \in At("working") : /\ asked[o].code = c /\ asked[o].direction = d
                           /\ asked[o].offset # "open" /\ BucketOf(asked[o]) = b})

Acceptable(r) ==
  \/ r.offset = "open"
  \/ LET b == BucketOf(r)
     IN holding[r.code][b][r.direction] - Locked(r.code, b, r.direction) >= r.total

DealAtExchange(r, n) ==
  [holding EXCEPT ![r.code][BucketOf(r)][r.direction] =
     IF r.offset = "open" THEN @ + n ELSE @ - n]

\* A session that is logged in is called back.
Send(m) ==
  /\ Len(wire) < MaxWire
  /\ wire' = IF session = "down" THEN wire ELSE Append(wire, m)

Return(o, s, n) ==
  [kind |-> "order", id |-> o, status |-> s, left |-> n, total |-> asked[o].total]

\* An order is taken, dealt or ended, and its new state returned.  A first
\* return that tells more than that the order was taken is a merged one.
Report(o) ==
  /\ \/ exch[o].status = "sent" /\ Acceptable(asked[o])
     \/ exch[o].status = "working"
  /\ \E n \in 0..exch[o].left, s \in {"working", "traded", "canceled"} :
       LET first   == exch[o].status = "sent"
           dealt   == exch[o].left - n
           changes == (IF first THEN 1 ELSE 0) + (IF dealt > 0 THEN 1 ELSE 0)
                        + (IF s = "canceled" THEN 1 ELSE 0)
       IN /\ s = "traded" <=> n = 0
          /\ changes > 0 /\ (changes = 1 \/ Merges)
          /\ exch' = [exch EXCEPT ![o] = [status |-> s,
                                          left |-> IF s = "canceled" THEN 0 ELSE n]]
          /\ holding' = DealAtExchange(asked[o], dealt)
          /\ Send(Return(o, s, n))
          /\ gaps' = IF /\ first /\ session # "down"
                        /\ s # "working" \/ (dealt > 0 /\ api = "ctp")
                     THEN gaps \cup {"merged"} ELSE gaps
  /\ UNCHANGED <<api, asked, cancels, adapter, firing, queue, processVars, misread, restarts>>

Misread(o) ==
  /\ Cardinality(misread \cup {o}) + restarts <= MaxMisread
  /\ misread' = misread \cup {o}

\* Only the session that sent an order is told that it was refused, and by TAP
\* perhaps with a notice that its driver only logs.
Refuse(o) ==
  /\ exch[o].status = "sent"
  /\ exch' = [exch EXCEPT ![o] = [status |-> "refused", left |-> 0]]
  /\ \/ /\ o \in mine
        /\ Send([kind |-> "refused", id |-> o])
        /\ UNCHANGED misread
     \/ /\ o \in mine /\ api = "tap"
        /\ Send([kind |-> "unheard", id |-> o])
        /\ Misread(o)
     \/ o \notin mine /\ UNCHANGED <<wire, misread>>
  /\ UNCHANGED <<api, asked, holding, cancels, adapter, firing, queue, processVars,
                 gaps, restarts>>

\* The answer to a cancel: what is left of the order ends, or a refusal, which
\* TAP's driver takes for that of the order or only logs.
AnswerCancel(o) ==
  /\ o \in cancels
  /\ cancels' = cancels \ {o}
  /\ \/ /\ exch[o].status = "working"
        /\ exch' = [exch EXCEPT ![o] = [status |-> "canceled", left |-> 0]]
        /\ Send(Return(o, "canceled", exch[o].left))
        /\ UNCHANGED misread
     \/ /\ Send([kind |-> "cancelrefused", id |-> o])
        /\ IF api = "tap" /\ session # "down" /\ exch[o].status \in {"sent", "working"}
           THEN Misread(o) ELSE UNCHANGED misread
        /\ UNCHANGED exch
     \/ /\ api = "tap"
        /\ Send([kind |-> "unheard", id |-> o])
        /\ UNCHANGED <<exch, misread>>
  /\ UNCHANGED <<api, asked, holding, adapter, firing, queue, processVars, gaps, restarts>>

NextId(o) == exch[o].status = "none" /\ \A p \in Ids : p < o => exch[p].status # "none"

Enter(o, r) ==
  /\ NextId(o)
  /\ asked' = [asked EXCEPT ![o] = r]
  /\ exch' = [exch EXCEPT ![o] = [status |-> "sent", left |-> r.total]]

\* Another session of the account places an order.
ForeignPlace(o) ==
  /\ Cardinality({p \in Ids \ mine : exch[p].status # "none"}) < MaxForeign
  /\ \E r \in Requests : Enter(o, r)
  /\ UNCHANGED <<api, holding, cancels, threadVars, processVars, histVars>>

-----------------------------------------------------------------------------
(* The API thread *)

Deliver ==
  /\ wire # <<>> /\ firing = <<>>
  /\ wire' = Tail(wire)
  /\ LET k == Drv!Callback(api, adapter, Head(wire))
     IN adapter' = k.adapter /\ firing' = k.events
  /\ UNCHANGED <<api, exchangeVars, queue, processVars, histVars>>

\* queue_event_source::fire_event, which spins while the queue is full.
\* (Slip: it does not.)
FireAnyway ==
  /\ firing # <<>>
  /\ queue' = Append(queue, Head(firing))
  /\ firing' = Tail(firing)
  /\ UNCHANGED <<api, exchangeVars, wire, adapter, processVars, histVars>>

Fire ==
  /\ firing # <<>> /\ Len(queue) < Size
  /\ queue' = Append(queue, Head(firing))
  /\ firing' = Tail(firing)
  /\ UNCHANGED <<api, exchangeVars, wire, adapter, processVars, histVars>>

-----------------------------------------------------------------------------
(* The real-time thread *)

\* An order as the driver hands it to the context.
OrderInfo(o, left) ==
  LET r == asked[o]
  IN [code |-> r.code, direction |-> r.direction, total |-> r.total, last |-> left,
      offset |-> Drv!WrappedOffset(api, r.code \in Distinct, r.offset)]

\* The context's handler for event e: a refused cancel changes no map.
Heard(x, e) ==
  LET r == OrderInfo(e.id, e.left)
  IN CASE e.type = "OrderPlace"  -> Ctx!Entrust(x, e.id, r, e.left)
       [] e.type = "CancelError" -> x
       [] OTHER                  -> Ctx!Handle(x, e, r)

Told(t, e) ==
  CASE e.type = "OrderPlace"  -> [status |-> "entrusted", left |-> e.left]
    [] e.type = "OrderDeal"   -> [t EXCEPT !.left = e.left]
    [] e.type = "OrderTrade"  -> [t EXCEPT !.status = "traded"]
    [] e.type = "OrderCancel" -> [t EXCEPT !.status = "canceled"]
    [] e.type = "OrderError"  -> [t EXCEPT !.status = "refused"]
    [] e.type = "CancelError" -> t

OnDuty == session = "running" /\ trading

\* asyn_actual_trader::update, one event of it.
Handle ==
  /\ OnDuty /\ queue # <<>>
  /\ queue' = Tail(queue)
  /\ LET e == Head(queue)
     IN /\ ctx' = Heard(ctx, e)
        /\ told' = IF e.id \in ctx.listener THEN [told EXCEPT ![e.id] = Told(@, e)] ELSE told
  /\ UNCHANGED <<api, exchangeVars, wire, adapter, firing, session, seen, trading, mine,
                 histVars>>

\* What a strategy closes it has in its books.
Plausible(r) ==
  r.offset # "open" =>
    ctx.position[r.code].postion[IF r.offset = "close" THEN "yestoday" ELSE "today"]
      [r.direction] > 0

\* context::place_order.
Place(o) ==
  /\ OnDuty
  /\ \E r \in Requests :
       /\ Plausible(r)
       /\ Enter(o, r)
       /\ told' = [told EXCEPT ![o] = [status |-> "placed", left |-> r.total]]
  /\ mine' = mine \cup {o}
  /\ ctx' = [ctx EXCEPT !.listener = @ \cup {o}]
  /\ UNCHANGED <<api, holding, cancels, threadVars, session, seen, trading, histVars>>

\* strategy::cancel_order: a cancel the driver cannot send becomes a condition
\* if the context knows the order.
Cancel(o) ==
  /\ OnDuty /\ told[o].status \in {"placed", "entrusted"}
  /\ IF Drv!CanCancel(api, adapter, o)
     THEN /\ cancels' = cancels \cup {o}
          /\ ctx' = [ctx EXCEPT !.condition[o] = "none"]
     ELSE /\ Ctx!Knows(ctx, o)
          /\ ctx' = [ctx EXCEPT !.condition[o] = "always"]
          /\ UNCHANGED cancels
  /\ UNCHANGED <<api, asked, exch, holding, threadVars, session, seen, trading, mine, told,
                 histVars>>

\* context::check_condition, for the condition of one order.
CheckCondition(o) ==
  /\ OnDuty /\ ctx.condition[o] = "always"
  /\ LET sent == Ctx!Knows(ctx, o) /\ Drv!CanCancel(api, adapter, o)
     IN /\ cancels' = IF sent THEN cancels \cup {o} ELSE cancels
        /\ ctx' = IF sent \/ ~Ctx!Knows(ctx, o)
                  THEN [ctx EXCEPT !.condition[o] = "none"] ELSE ctx
  /\ UNCHANGED <<api, asked, exch, holding, threadVars, session, seen, trading, mine, told,
                 histVars>>

\* The clock of the ticks enters or leaves the trading hours.
Clock ==
  /\ session = "running"
  /\ trading' = ~trading
  /\ UNCHANGED <<api, exchangeVars, threadVars, session, seen, ctx, mine, told, histVars>>

-----------------------------------------------------------------------------
(* The process: runtime_engine::start_trading *)

Login ==
  /\ session = "down"
  /\ session' = "ready"
  /\ UNCHANGED <<api, exchangeVars, threadVars, seen, trading, ctx, mine, told, histVars>>

\* get_trader_data asks for the positions and then for the orders.
QueryPositions ==
  /\ session = "ready"
  /\ session' = "queried" /\ seen' = holding
  /\ UNCHANGED <<api, exchangeVars, threadVars, trading, ctx, mine, told, histVars>>

\* The orders, load_data, and the handlers bound.
QueryOrders ==
  /\ session = "queried"
  /\ session' = "running"
  /\ adapter' = Drv!QueriedOrders(api, adapter, At("working"), [o \in Ids |-> exch[o].left])
  /\ ctx' = Ctx!LoadData(ctx,
       {o \in Ids : Drv!Seen(adapter', o)},
       [o \in Ids |-> OrderInfo(o, exch[o].left)],
       [c \in Codes |-> [b \in Buckets |-> [d \in Dirs |-> [postion |-> seen[c][b][d]]]]],
       {c \in Codes : \E b \in Buckets, d \in Dirs : seen[c][b][d] > 0})
  /\ gaps' = gaps
       \cup (IF seen # holding \/ wire # <<>> \/ firing # <<>> \/ queue # <<>>
             THEN {"window"} ELSE {})
       \cup (IF \E o \in At("working") : exch[o].left < asked[o].total
             THEN {"partial"} ELSE {})
  /\ seen' = Holding
  /\ UNCHANGED <<api, exchangeVars, wire, firing, queue, trading, mine, told, misread, restarts>>

\* The process dies, and everything it kept in memory with it.  The session's
\* topics are subscribed with QUICK: what is returned meanwhile is not repeated.
Crash ==
  /\ session # "down" /\ restarts < MaxRestarts
  /\ restarts' = restarts + 1
  /\ session' = "down" /\ trading' = FALSE
  /\ wire' = <<>> /\ firing' = <<>> /\ queue' = <<>>
  /\ adapter' = Drv!NoOrders
  /\ ctx' = Ctx!Empty
  /\ mine' = {} /\ misread' = {} /\ gaps' = {} /\ seen' = Holding /\ told' = NothingTold
  /\ UNCHANGED <<api, exchangeVars>>

Next ==
  \/ \E o \in Ids : \/ Report(o) \/ Refuse(o) \/ AnswerCancel(o) \/ ForeignPlace(o)
                    \/ Place(o) \/ Cancel(o) \/ CheckCondition(o)
  \/ Deliver \/ Fire \/ Handle \/ Clock
  \/ Login \/ QueryPositions \/ QueryOrders \/ Crash

\* The API thread goes on while it can, and so does the real-time thread in
\* trading hours.  Nothing makes the exchange, the clock or the user move.
Spec ==
  /\ Init /\ [][Next]_vars
  /\ WF_threadVars(Deliver \/ Fire) /\ WF_threadVars(Handle)

-----------------------------------------------------------------------------
(* Properties *)

TypeOK ==
  /\ api \in Apis
  /\ exch \in [Ids -> [status : {"none", "sent", "working", "traded", "canceled", "refused"},
                       left : 0..MaxVolume]]
  /\ holding \in [Codes -> [Buckets -> [Dirs -> Nat]]]
  /\ cancels \subseteq Ids /\ mine \subseteq Ids /\ misread \subseteq Ids
  /\ adapter.order \in [Ids -> -1..MaxVolume] /\ adapter.index \subseteq Ids
  /\ Len(queue) <= Size
  /\ session \in {"down", "ready", "queried", "running"} /\ trading \in BOOLEAN
  /\ gaps \subseteq {"window", "partial", "merged"}
  /\ ctx.order \in [Ids -> -1..MaxVolume]
  /\ \A c \in Codes : \A d \in Dirs : ctx.position[c].pending[d] \in 0..Modulus - 1

\* The driver, with the events it has fired, runs callback m.
Drive(x, m) ==
  LET k == Drv!Callback(api, x.adapter, m)
  IN Drv!Keeps(k.adapter, x.events \o k.events)

\* The context once it has heard everything that is on its way to it.
Drained ==
  LET driven == FoldLeft(Drive, Drv!Keeps(adapter, queue \o firing), wire)
  IN FoldLeft(Heard, ctx, driven.events)

Waiting(c, d, S(_)) ==
  MapThenSumSet(LAMBDA o : exch[o].left,
    {o \in At("working") : /\ asked[o].code = c /\ asked[o].direction = d /\ S(asked[o])})

\* The context's books are late, never wrong: with what is on its way to them
\* they come out as the exchange has it, its own orders and those of other
\* sessions, through cancels, refusals and restarts.
BooksSettle ==
  session = "running" /\ gaps = {} /\ misread = {} =>
    LET x == Drained
    IN /\ x.order = [o \in Ids |-> IF o \in At("working") THEN exch[o].left ELSE -1]
       /\ \A c \in Codes, d \in Dirs :
            /\ \A b \in Buckets :
                 /\ x.position[c].postion[b][d] = holding[c][b][d]
                 /\ x.position[c].frozen[b][d] =
                      Waiting(c, d, LAMBDA r : r.offset # "open" /\ BucketOf(r) = b)
            /\ x.position[c].pending[d] = Waiting(c, d, LAMBDA r : r.offset = "open")

\* An order's listener stays until the notice of its end: the strategy that
\* placed it hears of every end that is not merged with its entrust, load
\* window or not.  The orders of which TAP's driver misread an error are the only
\* exception.
EndsReach ==
  session = "running" /\ "merged" \notin gaps =>
    Drained.listener \ misread = (mine \cap (At("sent") \cup At("working"))) \ misread

\* What a process's listeners are told of an order is a life the trader interface
\* promises, whatever the gaps.  An order of which TAP's driver misread an error
\* may be told as refused while it deals, but nothing after its end.  A deal of
\* the last lot and the trade are two events.
Lifecycle == INSTANCE OrderLifecycle WITH
  status <- [o \in Ids |-> IF told[o] = [status |-> "entrusted", left |-> 0]
                           THEN "traded" ELSE told[o].status],
  left   <- [o \in Ids |-> told[o].left]

Misheard(o) ==
  /\ told[o].status \in {"placed", "entrusted"}
  /\ told' = [told EXCEPT ![o] = told'[o]]

KeepsLifecycle ==
  /\ Lifecycle!Init
  /\ [][restarts' = restarts =>
          [Lifecycle!Next \/ \E o \in misread : Misheard(o)]_(Lifecycle!vars)]_vars

\* In trading hours every end reaches its listener, although the API thread may
\* have to wait for room in the queue: no order that has ended keeps its
\* listener for ever, but one of which TAP's driver misread an error.
EndsHeard ==
  []<>(OnDuty /\ "merged" \notin gaps =>
         \A o \in ctx.listener \ misread :
           exch[o].status \notin {"traded", "canceled", "refused"})
=============================================================================
