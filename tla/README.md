# Lightning Futures: models, checks and proofs

TLA+ models of the trading framework in `src/` (the C++ under `src/src/`), the TLC runs that
check them on small instances, and TLAPS proofs of what matters most.  Paths below are relative
to the repository; line numbers are in `PROJECT.json`, which maps every definition to its source.

## 1. The system

Strategies trade futures through a `context` that hides whether the exchange is real (CTP, TAP)
or simulated.  One real-time thread repeats `context::update`: publish ticks, let the trader
deliver its notices, update the strategies, check the cancel conditions.

| component | state | operations | talks to |
|---|---|---|---|
| `trader_simulator` | orders, match states and queue seats, account, positions, current ticks, last frame volumes | `place_order`, `cancel_order`, `push_tick`, `crossday`, `update` | fires the five trader events synchronously into the context |
| `market_simulator` | the ticks of the day and where it is in them | `play`, `subscribe`, `update` | `push_tick` of the trader, then tick events to the context |
| `context` | its own copies of live orders and positions, order listeners, cancel conditions, last tick time | `start_service`, `stop_service`, `update`, `place_order`, `cancel_order`, the event handlers | trader, market, strategies |
| `engine`, `evaluate_engine`, `runtime_engine` | the strategies, tick/tape/bar receivers and reference counts | `on_init`, `on_update`, `on_destroy`, `back_test`, `start_trading` | drives context, simulators and drivers over the days |
| `strategy` | whether it may open and close | orders, cancels, cancel conditions | context |
| `queue_event_source` / `Ringbuffer` | two indices and the slots | `fire_event`, `process` | API thread to real-time thread |
| `ctp_api_trader`, `tap_api_trader` | live orders, positions, query flags, a process signal | login and query handshakes, orders, cancels, returns | the broker's API threads; events through the queue |
| logger (`mpsc_queue`, `nanolog`) | a linked queue and a writer thread | `push`, `pop`, shutdown | every thread |
| `bar_generator`, `trading_section`, `price_step`, parsers, recorder | tables and accumulators | pure functions over them | engine and context |

What is hard here, and what correctness means for it:

* **Re-entrancy.** Every trader event runs strategy callbacks inside the matching loop, and these
  cancel and place orders in the containers the loop walks over.  A cancel that was accepted must
  be final, an order must live one consistent life.
* **Two sets of books.** Trader and context each count positions, frozen and pending lots, from
  the same notices.  They must agree after any sequence of partial deals, cancels and days, and
  with a real exchange that other sessions of the account trade on as well.
* **Money and lots that are reserved and released in pieces**, in unsigned arithmetic.
* **Days.** Orders, frozen lots, listeners and frame volumes live across `crossday`.
* **Threads.** The lock-free buffer between the API's thread and the real-time thread, the
  handshakes of the CTP and TAP drivers over one condition variable, the logger's linked queue,
  `play` against the subscriptions of the real-time thread.
* **Crashes and lost messages.** A process that dies forgets everything; a connection that is lost
  takes answers with it.

`PROJECT.json` lists every hazard at its line, and the properties that watch it.

## 2. The modules

| module | what it is |
|---|---|
| `OrderLifecycle` | abstract: what a `trader_api` promises to tell of one order |
| `TraderSimulator` | the simulated exchange, whole |
| `TraderSimulatorProofs` | its inductive invariant, type correctness, "no deal after a cancel", "queues only shorten", the volumes frames are matched with; that it implements `OrderLifecycle` and so keeps its two promises, that FOK orders are all or nothing; and its books: frozen lots, frozen money, positions |
| `SumProofs` | what a sum over a finite set is, and how it changes with one of its terms |
| `ContextLedger` | the context's books as operators: handlers and `load_data` |
| `Backtest` | simulator + context + strategies + the phases of `context::update`, over days |
| `BacktestProofs` | proof that a back test takes only the simulator's steps, and of what the context knows: its books, its orders, its listeners and conditions |
| `MarketData` | a day's ticks from the files to tapes and bars, and the two threads that begin and end the day |
| `MarketDataProofs` | its inductive invariant: the engine is fed the due ticks, tapes tell trades and bars are made of their ticks, proved |
| `TraderAdapter` | the CTP and TAP drivers' callbacks as operators: returns to events |
| `LiveTrading` | exchange + driver + event queue + context + strategies, with crashes |
| `LiveTradingProofs` | its inductive invariants: types, the settling of the books, "every end reaches its listener" and the refinement of `OrderLifecycle` through broker, driver, queue and context, proved |
| `TraderSession` | login, settlement and queries of both drivers, step by step |
| `TraderSessionProofs` | its inductive invariants, "no call goes on before its own answer" and "the data is complete", proved |
| `EventQueue` | abstract: a FIFO between threads, bounded or not |
| `RingBuffer` | the lock-free buffer, one step per shared access |
| `RingBufferProofs` | its inductive invariant, "no overlapping copies" and the refinement of `EventQueue`, proved |
| `Logger` | the logger's linked queue and its thread, one step per shared access |
| `LoggerProofs` | its inductive invariant, no use after free, the refinement of `EventQueue` and the clean end, proved |
| `MC*` | small markets, accounts and files for TLC |

A definition whose comment says *Slip* is a plausible mistake in the code it stands next to: the
runs of section 3 were seen to fail with it.

**TraderSimulator.** One step is one `handle_entrust`: freezing or refusing a new order, matching
it, its events.  The callbacks these events run are steps of their own (`PlaceOrder`,
`CancelOrder` while `InCallback`) that may come before the loop moves on: what they change is
nothing the rest of the handler reads, except the state of the order being handled, for which the
guard of `CancelOrder` says which writes survive.  `BeginUpdate`, `MatchEntrust`, `HandleEntrust`
and `Sweep` are `update`, `match_entrust` up to its loop, one turn of the loop, and what follows
it.  `order_match` vectors are represented by the set of ids that are not `"erased"`, visited in
order, which is the vector's order because it only grows at its end.  `told` is what the events
have told a listener.  Prices are integers and money is counted in `1/MarginDen`, so margins are
exact where the code uses `double`.  `std::vector` growing under an iterator (a `place_order` in a
callback, line 200) is undefined behaviour; the model takes the outcome in which the vector does
not move.

**Backtest** extends it with `ctx` (a `ContextLedger` context), `session` (before, in, out of
trading hours, stopped), `phase` (what `update` does next) and `todo` (the conditions still to
visit).  A strategy is anything that uses the interface: it may place, cancel and set conditions
in any callback the code gives it, on orders that are placed and not entrusted yet as well.  Every
step of the trader delivers its events to the context in the same step, as `direct_event_source`
does.

**MarketData.** `main` is the thread of `back_test`, `rt` the thread `start_service` starts.  The
race is real: `play` sets the flags of the market while `on_init` subscribes on the other thread.
`data` is what `handle_tick` and the engine's callback keep and tell.  Files, strategies and trading
hours are chosen anew each day.

**TraderAdapter** is a library of operators: the maps and the events a callback of the API leaves,
for both drivers.  They differ in more than their API: a first return that tells of a deal fires
what is left in CTP and what was dealt in TAP, offsets come back changed from TAP, and so do errors.
TAP's API tells every result with `OnRtnOrder` (`TapTradeAPI.h:156`: `OnRspOrderAction` is not used),
and its driver tells any error code in an order's particulars as the refusal of the order
(`tap_api_trader.cpp:265`), that of a cancel included, while a notice that has the error code itself is
only logged (`:254`).  CTP has a callback of its own for a refused cancel.  The operators change the
maps before the events are fired; the code erases an order that ended after its last event
(`ctp_api_trader.cpp:500`, `tap_api_trader.cpp:303`).  While that event waits for room the order can
still be cancelled in the code; the exchange refuses it, as it does in the model a cancel that was sent
while the return of the end was on its way.

**LiveTrading** runs them between an exchange it models as external (orders
are taken, dealt, refused, cancelled; another session of the account trades too) and the context.
One step of the API thread is one callback (`Deliver`), then one `fire_event` at a time (`Fire`),
which waits while the queue is full.  `Crash` forgets what the process knew; `Login`,
`QueryPositions` and `QueryOrders` start it again over the orders of the dead one.  Three things make
the books wrong for as long as a process runs, and `gaps` remembers whether they have happened:

| gap | where | what |
|---|---|---|
| `window` | `ctp_api_trader.cpp:774`, `context.cpp:145` | a return between login and load, or a deal between the load's two queries, is counted twice or in one of them |
| `partial` | `context.cpp:100` | a loaded order that had dealt in part is pending with its total volume |
| `merged` | `ctp_api_trader.cpp:480`, `:522`, and TAP's like | the first return of an order is its end, or (CTP) tells a deal |

`misread` holds the orders of which TAP's driver misread an error: a refusal in a notice that it only
logs (`unheard`), after which the order's listener waits for ever, and the refusal of a cancel that it
tells as the order's own (`TapError`), after which the listener is gone while the order lives.
`EndsReach` and `EndsHeard` hold of all other orders, `BooksSettle` until it happens; what
`KeepsLifecycle` says of such an order is that it may be told as refused while it is alive, and that
nothing is told of it after its end.

**TraderSession.** Every request, flag and wait of the main thread is a step, every callback of the
API thread too: both share one condition variable that is waited on without a predicate, and a mutex
that only the waiting thread takes.  `gaps` remembers a login repeated before the first was through
(`relogin`), TAP's row before the query's flag (`early`), TAP's index that `logout` keeps (`index`),
an error for an answer (`error`) and a wait that ended by itself before its answer was through
(`spurious`).  C++ lets a `wait` without a predicate return at any time, and none of the seven looks
again (`ctp_api_trader.cpp:104`, `:210`, `:241`, `:821`, `tap_api_trader.cpp:131`, `:186`, `:216`):
`SpuriousWakeup` may happen in every wait, and the call then goes on with whatever part of its rows is
in.  `lost` remembers that no notification can come any more: it was given before the wait began, its
answer was dropped with the connection or refused, or the settlement's request was refused and is
waited for all the same (`ctp_api_trader.cpp:816`).  No step depends on `gaps` or `lost`.

**RingBuffer.** `producer` and `consumer` are the threads' program counters.  At `"write"` and
`"read"` a thread is inside the copy of an event.  A load that returns an old index is the same
behaviour as a load that happened earlier, so interleaving covers acquire/release.

**Logger.** A push is two steps, the exchange of `head` and the store of `next`: between them the
lines behind it are hidden.  `chain` is a history variable, the list in the order of the exchanges.
The model is sequentially consistent: `head` and `next` are accessed with `acq_rel`, `release` and
`acquire`, and `is_empty` reads indices that are only compared.

## 3. The runs

Passing runs (all exhaustive):

| run | asks |
|---|---|
| `simulator_orders` | two orders, every flag, open and close, two days: types, frozen lots, positions, FOK, cancels, the life of each order |
| `simulator_margin_queue` | three orders of both sides on an account too small for them, over moving prices: is the frozen money exactly the margin of what is pending and held, is a frame matched with what was traded since the last, and does the queue only shorten? |
| `simulator_answers` | two instruments in one update, one without a contract: are accepted cancels and new orders answered (liveness)? |
| `backtest_day` | three orders on one day: do the context's pending and frozen lots and orders follow the exchange's? |
| `backtest_days` | orders carried over to a second day: do positions agree, is no listener or condition lost or left over, are refused cancels retried? |
| `market_data` | two days of ticks before, in, between and after two sessions: is the engine fed each due tick once and in order, do tapes and bars add up to them, does the day end? |
| `live` | both drivers, own and foreign orders, cancels that cross deals, refusals that are told and misread, breaks, a full queue, a crash: do the books come out as the exchange has them once everything on its way is heard, does each end reach its listener, does each order live one life? |
| `session` | both drivers, refused requests, errors, lost connections, two sessions: is the data complete, is a wait ended by its own answer, and ended at all, although any wait may end by itself? |
| `ring` | two threads over one buffer: refinement, no overlapping copies, the spin ends, events are handled |
| `logger` | three producers and the log's thread at the end of the program: refinement, no use after free, no line hidden for ever or left |

Runs that end in a violation each show where the code does not do what a comment of the
repository says; `PROJECT.json` "findings" quotes it:

| run | shows |
|---|---|
| `simulator_fak` | a FAK order of exactly twice the frame's volume is not cancelled and is matched again |
| `backtest_pending` | an order half dealt on the first day is pending in full on the second |

More can be seen with the same modules and other constants, or with an exception taken out of a
property:

* `FrameVolumeIsTraded` fails with `MaxDays = 2`: the first frame of a day is matched with a volume
  counted from yesterday's close (`trader_simulator.cpp:317`).
* `PositionReconciles` follows the buckets as `crossday` moves them, which is the wrong way: what was
  opened yesterday counts as opened today, and what was left of the day before is yesterday's again
  (`trader_simulator.cpp:80`).
* `ConditionsCancel` excepts an order the context does not know yet: a condition that is true for it
  is dropped without a cancel (`context.cpp:900`).
* `MarginBacked` fails when an opening deal cannot pay its charge (`order_deal` tells the deal and
  keeps the margin, but takes no position), and with `CancelsEnded` TRUE (cancelling an order that
  ended earlier in the same frame revives it, and its margin is thawed twice).
* `BooksSettle`, `EndsReach`, `DataComplete` and `WokenByOwnAnswer` fail in the gaps of section 2, the
  first two and `EndsHeard` with a misread error as well; `WaitsEnd` fails without `lost`.
* `BooksSettle` fails with an order to "close" through CTP of an instrument whose exchange does not tell
  today's lots apart: the context freezes yesterday's lots for it and takes the deal from them, while
  the exchange sells from one position (`context.cpp:773`; TAP's driver hands on such an order as
  `clstd`, `tap_api_trader.h:172`, and there it holds).
* `DayEnds` fails for a day without any tick (`market_simulator.cpp:137`: nothing finishes it and
  `back_test` waits for ever), and a day's first tape counts from yesterday's volume
  (`engine.cpp:206`), which `TapesTellTrades` leaves out.

**Bounds.** `Ids` bounds the orders ever placed (2 or 3: one to act on, one whose callback acts,
one to compete for margin; in `live` one of each session or two of one), `Volumes` 1 and 2 (a partial
deal needs 2), `MaxDayVolume` and `MaxDays` what the market trades, `Quotes` the shapes of a book
that tell the branches of `handle_buy` and `handle_sell` apart: crossing, touching, away from the
price, an empty side.  `Modulus` stands for 2^32; 16 (64 for the market) is past every sum the bounds
allow, so that a wrap in a run is a wrap the code would make.  The ring has four slots and indices
that hold twice that, the least `ringbuffer.hpp` asserts.  In `live` the event queue holds one event,
so that a callback with two of them waits in the middle; the broker sends one callback ahead; one
crash is enough because a process keeps nothing from the one before, and `MaxMisread` allows one
misread error, in the first process: each concerns one order, and the next process forgets it.  `session` lets two connections
drop and the process log in twice (what `logout` keeps shows in the second); two rows of each kind
tell a first, a last and an only row apart.  `market_data` has two days (what a day leaves to the
next), two instruments with equal times, and sessions that begin after the first bar's time.
`logger` has one push more than producers, so that a node is left, deleted and pointed to.
The passing simulator runs that check money and positions keep accounts solvent, `CancelsEnded`
FALSE and, for frame volumes, one day: outside that the code breaks the property, as told above.

**Fairness.** Weak fairness of the update loop (`WF_vars(Update)`; in `Backtest` of the trader and
condition steps): the real-time thread runs `update` again and again until it is stopped.  In
`RingBuffer`, of each thread.  In `LiveTrading`, of the API thread (`Deliver \/ Fire`) and of
`Handle`, which is enabled in trading hours only, because `context::update` skips
`_trader->update()` otherwise; the exchange, the clock and the user owe nothing, and `EndsHeard`
says what holds again and again however long trading pauses.  In `TraderSession`, of both threads, not of logins or lost
connections.  In `Logger`, that a push that has begun is finished and that the log's thread goes on;
nobody has to log.  In `MarketData`, of both threads once a day has begun.

## 4. The proofs

For every set of instruments, orders, quotes and volumes, and every integer width:

* `TypeCorrect`: `Spec => []TypeOK`.  The point is that no seat, volume or frozen amount leaves its
  range.  The inductive invariant `IInv` adds to `TypeOK` that an order's rest is at most its total,
  that an order to be visited is a live one of the loop's instrument, and the facts about frames and
  ids the steps need.
* `CancelStopsDeals`: `Spec => NoDealAfterCancel`.  A step that changes a rest is
  `HandleMatch`, whose guard excludes `CANELED`; the invariant gives the types the EXCEPTs need.
* `SeatsShrink`: if no frame's volume reaches half the integer range (`SmallFrame`), `Spec =>
  SeatOnlyShrinks`.  `handle_buy` and `handle_sell` take the frame's volume from the seat in unsigned
  arithmetic and read the result as signed: `NewSeatShrinks` shows that under the assumption neither
  the wrap nor the sign makes it longer.  Past it a frame would lengthen the queue.
* `TellsLives`: if strategies do not cancel ended orders (`~CancelsEnded`), `Spec` implements
  `OrderLifecycle!Spec`.  `LInv` ties `told` to `state`: what was told is what the match state says,
  and `left` is the order's rest.  One lemma per shape of event sequence computes what a listener
  hears of it.  The assumption is needed: an order revived after its end is told of again.
* `FokIsAllOrNothing`: under the same assumption `Spec => []FokAllOrNothing`.  The property is about
  what was told; `FInv` adds why it stays so: a FOK order that was handled once waits for the sweep, so
  that no later frame matches it.  A cancel by a callback cannot bring it back, because `LInv` says
  that an order waiting for the sweep was told of its end.
* `BacktestProofs`: `IsSimulator`, `BacktestSpec => Init /\ [][Next]_vars` under the same assumption,
  and with it `TellsLivesInBacktest`, `CancelStopsDealsInBacktest` and `FokInBacktest`: what is proved
  of the simulator alone holds between the context, its conditions and the strategies.  Most of
  `Backtest` conjoins the simulator's actions; the exception is `check_condition`, which writes the
  match state itself.  `CheckCancels` shows that it does what `cancel_order` would: the conditions are
  checked between two updates only (`BInv`), when no order waits for the sweep (`LInv`), so what can
  be cancelled was told as entrusted.  The fairness of `Spec` is not implied and not claimed.
* `TradesAreComplete`, `EndsStay`: `OrderLifecycle` promises that a trade is
  told exactly when nothing is left (`EndsTell`), and nothing after an end (`EndsLast`); both follow from
  the abstract specification alone, and with `TellsLives` they hold of the simulator.
* `FramesAreTraded`: on one day, and while the exchange's count of the day does not wrap, `Spec =>
  []FrameVolumeIsTraded`.  `FrameInv` says that an instrument's last frame and what was traded since
  make up the day's volume, and that a tick carries it.
* The simulator's books, all for `~CancelsEnded`.  Three sums tie the books to the orders, and the proofs are
  about how one step changes one term of each (`SumChange`):
  * `FrozenLotsBackCloses`, `Spec => []FrozenBacksCloses`.  The invariant `BookInv` adds that nothing
    is ever held from yesterday (`crossday` moves lots the other way), so that no order closing
    yesterday's lots rests: whatever freezes lots, deals in part, kills or thaws then moves the sum and
    the frozen lots of today's position alike.
  * `MarginStaysCovered`, `Spec => []MarginCovered`: the frozen money is never less than the margin of
    what is pending and held.  `Slack` is the difference; every handler leaves it or lets it grow, and
    the lemmas say where: a price average that is rounded down, a charge that cannot be paid.
    `MarginStaysBacked`: where averages are whole (`WholeAverages`; the code's are doubles) and every
    charge can be paid (`ChargesPaid`) it stays zero, which is `[]MarginBacked`.
  * `LotsAreTold`, `Spec => []NoLotUntold`: what is held was told to a listener.  `Gap` is what was told
    and is not held; it grows only by a deal whose charge cannot be paid.  `PositionsReconcile`: while
    charges can be paid it stays zero, `[]PositionReconciles`.
* `BacktestProofs`, the two sets of books, for `~CancelsEnded`:
  * `NothingOutlives`, `BacktestSpec => []NothingOutlivesOrders`, and `ConditionsStay`, `BacktestSpec =>
    ConditionsCancel`, over any days.  `EarsInv` ties the context to the match states: what rests is
    known, what is known is alive, there is a listener exactly for what is alive and a condition for no
    other.  One lemma per handler says what the notices of its step do to one order
    (`HandledIs`: it goes on, ends, or waits), whatever the volumes.
  * `OrdersStayMirrored`: on a single day `[]OrdersMirrored`.  `WholeInv` is what the first notice needs:
    an order that waits for the match is whole.
  * `PositionsStayAgreed` (`[]PositionsAgree`) and `BacktestStaysTyped` (`[]BacktestTypeOK`), over any
    days, if the lots that all orders together can ask for fit into an unsigned integer
    (`AllLots < Modulus`), the first also while charges can be paid.  `FitsLots` bounds every position
    by the orders, through the sums over the simulator's books: without it an addition of the context's could wrap.
  * `LotsStayUndealt`: on a single day, under the same conditions, `[]LotsAreUndealt`: pending and frozen
    lots are what the entrusted orders still wait for.  The invariant `Undealts` says that of pending
    lots as a sum over the orders (`PendingIsAwaited`), of frozen ones that they are the exchange's
    (`FrozenAgrees`, which `BookInv` turns into a sum), and that a code without an entry has nothing to
    give back (`Backed`): `frozen_deduction` and `unfreeze_deduction` return without an entry, and
    `calculate_position` erases an empty one.
    `MatchWaitsFor` and `MatchFreezes` follow the notices of one match through the context: what an
    entrust reserves, a deal takes and a kill gives back.
* `SumProofs`: the library's induction takes operators as parameters, which the provers here cannot
  instantiate.  What is true of every finite set is proved by a smallest counterexample instead (strict
  inclusion is well founded on the subsets of a finite set), first that the recursive function inside
  `SumFunctionOnSet` exists and what its equation is, then how a sum changes with one term, that it is
  bounded by its terms, and that a sum over a part is one over the whole with zeros.
* `RingBufferProofs`: `CopiesApart` (`Spec => []NoOverlap`) and `Implements` (`Spec =>
  ImplementsQueue`), for every buffer size that divides the width of an index.  The lemmas reduce the
  wrapping indices to differences without remainders (`Difference`, `IncIs`) and show that a wrap
  changes no slot (`SlotWraps`) and that fewer than `Size` indices in a row have slots of their own
  (`SlotsDiffer`).  The invariant says that a producer past its check finds room and a consumer past
  its own an event, whatever the other does meanwhile, and that the slots from `tail` on hold events.
  `Publish` is then `Fire` of the queue, `Release` its `Take`, `Trigger` its `Handled`.
* `LoggerProofs`: `TypeCorrect`, `NeverFreed` (`Spec => []NoUseAfterFree`), `Implements` (`Spec =>
  ImplementsQueue`) and `NothingLeft` (`Spec => LeavesEmpty`), for any threads and nodes.  Neither
  property is inductive: a producer holds a pointer to a node it does not own, and what keeps the
  consumer from deleting that node is that its `next` is still null.  The invariant therefore follows
  the list from `tail` to `head`: its nodes are distinct and alive (`Distinct`, `Alive`), each is
  linked to the one behind it or to none (`LinkedInOrder`), and every pending push stands before its
  own node in the list, at a node not linked yet (`Pushing`).  `Take` needs a link, so it never leaves
  a node that a push still needs; `head = tail` means a list of one node, so nothing waits.

* `TraderSessionProofs`: `TypeCorrect`, `WokenByOwn` (`Spec => []WokenByOwnAnswer`) and `FetchesAll`
  (`Spec => []DataComplete`), for both drivers, any finite account and any number of lost connections
  and sessions.  `Ordered` says that, until a login is repeated too early or a wait ends by itself, a session is `Closed`,
  `Opening` or `Working`, and that the wire of a working one carries only messages of connecting again
  and the rest of the one answer the main thread is owed (`Remains`, `Owed`): so whatever notifies it is
  that answer.  `Whole` says of an answer that it was dropped with the connection, that no row of it
  was told and the flag that clears the map is still set (or TAP has not marked the query yet), or that
  what is in the map and what is on the wire make up the rows (`Dropped`, `Untold`, `Telling`); and that
  TAP's index holds no order still to be told.  The lemmas say what taking, appending and joining
  messages leaves of `Remains` and of the rows to come (`RowsOf`).

* `LiveTradingProofs`, for both drivers, any orders, foreign sessions, queue size and restarts:
  `TypeCorrect` (`Spec => []TypeOK`), `ReachesEnds` (`Spec => []EndsReach`), `TellsLives` (`Spec =>
  KeepsLifecycle`) and `SettlesBooks` (`LotsFit /\ CloseMeans => (Spec => []BooksSettle)`).  The point of
  the first is the account: lots that closing orders still wait for are never more than it holds
  (`NotOversold`), through deals, refusals and foreign orders.  The others
  are about what is on its way: callbacks not delivered yet, events not fired, not taken from the queue
  yet.  The invariant therefore looks ahead.  `Driven` is the driver after everything on the wire was
  delivered to it, with the events it will have fired by then, and `OwnInv` says of every order of the
  process, but those of which an error was misread, that these events go on with the life its listener
  was told so far (`Tells`), and end in what the exchange has: sent, working with its rest, or over.
  `HearInv` says that a listener is left, once these events are heard, exactly for what is at the
  exchange, unless an end was merged with its entrust (`merged`) or an error misread.  Of a misread
  order `ListenInv` is what remains: it has a listener just until it was told of an end, so that nothing
  is heard after one.  Looking ahead makes most steps trivial: `Deliver`, `Fire` and `Handle` move what is on its way and leave `Driven` with `told` as they are; a step of the exchange
  appends one callback, and a lemma per callback (`WorkingReturned`, `EntrustsTold`, `RefusalTold` and
  their like) says which lawful life its events tell, for CTP and for TAP.  `Crash` and `Login` begin a
  process without orders of its own, of which both say nothing.  Reading a sequence
  is `FoldLeft` in the model; `Folds` gives the equation of the function inside it, `FoldsExists` proves
  by a smallest counterexample that it has a solution, and `ReadMore`, `ReadFirst` and `ReadBoth` what
  reading one more element, the first one, or two sequences one after the other comes to.

  `SettlesBooks` looks ahead in the same way.  Its invariant `SInv` says, while the process runs and no
  gap has opened, that `Driven` shows the orders the exchange works with their rests, and that `Final`,
  the context once it has heard everything on its way, has the exchange's account: `Books(w, x, h, g, f)`
  relates the context's books `x` to the lots `h` that are held, the rests `g` that are shown and the
  lots `f` each order waits for.  `h` and `f` are parameters because one return may tell of two events,
  and between them the books agree with an account that was never the exchange's.  `EntrustBooks`,
  `DealBooks` and `EndBooks` say how `Books` goes on with one event, in positions, frozen and pending
  lots, and the lemmas for each callback put one or two of them together.  The rest of `SInv` is what
  they need: `PlainInv`, that an order means the same bucket to the context and to the exchange; `BoundInv`, that
  what is held and what the orders may still add to it never exceeds what `LotsFit` allows, so that no
  unsigned volume wraps; and `FreshInv`, that a driver which has not told anything has seen no order,
  so that `load_data` finds in the exchange's account exactly what is not on its way.  `LotsFit` bounds
  the account by the range of the context's integers; `CloseMeans` excludes the order of section 3 that
  the context and the exchange take from different lots.

* `MarketDataProofs`, for any files, receivers, trading hours and bar periods and any number of days:
  `FeedsTheDay` (`Spec => []DayIsFed`), `TapesAreTrades` (`Spec => []TapesTellTrades`) and `BarsAreMade`
  (`Spec => []BarsAreTheirTicks`).  The market publishes the ticks of all instruments in one order,
  while what an instrument's data should be depends on its own file alone.  So `Fits` says what the
  first `n` ticks of a file must have made of what the engine was fed, of tapes and of bars (`FedFit`,
  `TapesFit`, `BarsFit`), and `Taken` that every listed instrument has such an `n`, namely that of its
  ticks among the pending ones already published (`Reached`).  `SortedInOrder` shows that `Sorted` has
  each tick once and in order (a tick stands where as many are before it, and these ranks are all
  taken, by counting), so the next pending tick of an instrument is the next of its file
  (`NextOfItsFile`) and `HandleTick` takes `Fits` from `n` to `n + 1` (`FitsMore`).  For bars that is
  `BarsStep`: a tick either ends the bar, whose ticks stay those of its time (`MadeStays`), or goes on
  with it, and then prices, sums and the price of most volume follow (`AddMade`, which needs
  `Profiled`: the profile has the volume at each price).  `Inv` adds what the two threads' order leaves
  open: until a tick is published nothing is told and the clock stands at 0, whichever of `Play` and
  `OnInit` was first; from `OnInit` on every instrument of a strategy is listed (`Counted` is above 0);
  and `finished` means that the day's ticks are all taken.  The handling of several ticks of one time
  is `FoldLeft` in the model; `FoldSteps` gives the values between.  `MarketAssumption` is about the
  data: a file's ticks differ in time (`csv_tick_loader.cpp:69` sets every repeated tick of a second to
  .500, so that a third one would have its time, and `:110` sorts with `std::sort`, which is not stable)
  and their volumes do not fall, prices are positive (the bar generator takes an opening price of 0 for a bar not begun), volumes and times fit into an unsigned
  integer, and no trading hours begin in the day's first bar (its minute 0 is the generator's mark for
  no bar, `bar_generator.cpp:33`).

The assumptions are the named ASSUMEs of the modules: sets of naturals, finitely many instruments and
orders, positive bounds, the geometry of the buffer, a null pointer that is no node, finite accounts.
TLC evaluates them in the runs.  What a theorem assumes beyond them is in its statement, and each such
condition is one the code needs, as section 3 shows: `CloseMeans` (the lots of a "close" through CTP),
`~CancelsEnded` (a cancel of an ended order revives it), `MaxDays = 1` (the first frame of a later day is matched with a wrong volume, and a later day's
`load_data` tells the context of orders that wait before they are entrusted), `[]ChargesPaid` (a deal whose
charge cannot be paid is told and not taken), volumes that fit into an integer.  A run with accounts,
volumes and days of that kind checks each of these properties.

**Only model-checked**: everything under fairness (`CancelsComplete`, `OrdersAnswered`,
`RefusedCancelsRetried`, `SpinEnds`, `EventsHandled`, `EndsHeard`, `WaitsEnd`, `LinesWritten`,
`DayEnds`), which is beyond the prover; and the two properties the code violates, of which the runs
show a counterexample.  Every invariant and every other action property of a passing run is stated by a
theorem, some under the conditions above.

## 5. Not modelled

`PROJECT.json` "components" says of every part whether it is modelled and why not.  In short:

* the market adapters: a login without queries, and a conversion of ticks into the ring;
* `change_strategy`, the statistics, the trading filter: they only gate or count what strategies do;
* data races on containers and plain numbers between threads (`_order_info` in `cancel_order`, the
  statistics `evaluate_engine` reads before the real-time thread has ended): undefined, so that no
  property could survive them; the models take each access as one step;
* the pools and buffers of the log's lines, formatting, time conversions, configuration, library
  loading; the parsing of files (where `csv_tick_loader.cpp:69` compares with `"ZEC"`, which is not
  the code `define.h:58` has for that exchange, so that the rule meant for one exchange applies to all);
* the headers of the vendored SDKs under `src/api` and `rapidcsv.h`, which are declarations.
