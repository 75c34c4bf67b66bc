----------------------------- MODULE MarketData -----------------------------
(***************************************************************************)
(* The way of a day's ticks in a back test: evaluate_engine plays the day  *)
(* on market_simulator, which loads the ticks of the subscribed            *)
(* instruments and publishes those of one time together;                   *)
(* context::handle_tick takes them in and hands those in trading hours to  *)
(* the engine, which makes tapes and bars of them for the strategies'      *)
(* receivers.                                                              *)
(*                                                                         *)
(* main is the thread of back_test, rt the real-time thread of the         *)
(* context, which start_service starts and stop_service joins.  What the   *)
(* trader makes of the same ticks is in Backtest.                          *)
(*                                                                         *)
(* A tick is [code, time, volume, price, bid, ask]; volume is what was     *)
(* traded of the instrument since its day began.  A receiver is            *)
(* [strategy, feed, code], feed being "tick", "tape" or "bar"; bars have   *)
(* one period.                                                             *)
(***************************************************************************)
EXTENDS Integers, Sequences, FiniteSets, FiniteSetsExt, SequencesExt

CONSTANTS
  Codes,      \* the instruments, in their order
  Files,      \* what a day's files may be: Codes -> sequences of ticks
  Strategies, \* sets of receivers: what a day's strategies may register
  Sections,   \* trading_section: the pairs <<begin, end>> of the trading hours
  Minute,     \* units of time in a minute
  Period,     \* minutes of a bar
  Modulus,    \* of unsigned integers: 2^32
  MaxDays     \* bound: days

\* A price of 0 is what a bar is told by that has not begun.
Ticks == [code : Codes, time : 0..Modulus - 1, volume : 0..Modulus - 1,
          price : Nat \ {0}, bid : Nat, ask : Nat]

\* Instruments are traded in at least one bar's time from the beginning of the
\* day on, and a file's ticks differ in time.  The latter is about the data: the
\* csv loader sets every repeated tick of a second to .500, so that the third one
\* of a second has the time of the second.
ASSUME MarketAssumption ==
  /\ Codes \subseteq Nat /\ IsFiniteSet(Codes)
  /\ Minute \in Nat \ {0} /\ Period \in Nat \ {0} /\ Modulus \in Nat \ {0}
  /\ Sections \subseteq Nat \X Nat /\ \A s \in Sections : s[1] >= Period * Minute
  /\ \A S \in Strategies : IsFiniteSet(S) /\ \A r \in S : r.code \in Codes
  /\ Files \subseteq [Codes -> Seq(Ticks)]
  /\ \A f \in Files : \A c \in Codes : \A i \in 1..Len(f[c]) :
       /\ f[c][i].code = c
       /\ \A j \in 1..Len(f[c]) :
            i < j => f[c][i].time < f[c][j].time /\ f[c][i].volume <= f[c][j].volume

VARIABLES
  main,       \* "idle", "started", "waiting" or "joining"
  rt,         \* "off", "init" or "running"
  day,
  files,      \* Codes -> today's file
  wants,      \* the receivers of today's strategies
  state,      \* market_simulator::_state: "idle", "loading" or "publish"
  finished,   \* _is_finished
  listed,     \* _instrument_id_list
  pending,    \* _pending_tick_info
  index,      \* _current_index
  receivers,  \* _tick_receiver, _tape_receiver and the receivers of _bar_generator
  count,      \* _tick_reference_count
  data,       \* what handle_tick and the engine keep and tell: see NewDay
  knew        \* the instruments of which a tick was known when the day began

threadVars == <<main, rt>>
dayVars    == <<day, files, wants, knew>>
marketVars == <<state, finished, listed, pending, index>>
engineVars == <<receivers, count>>
vars == <<threadVars, dayVars, marketVars, engineVars, data>>

NoFiles == [c \in Codes |-> <<>>]
NoTick == [time |-> -1]
NoBar  == [open |-> 0]
NoGenerator == [minute |-> 0, volume |-> 0, bar |-> NoBar]

Init ==
  /\ main = "idle" /\ rt = "off"
  /\ day = 0 /\ files = [c \in Codes |-> <<>>] /\ wants = {} /\ knew = {}
  /\ state = "idle" /\ finished = FALSE /\ listed = {} /\ pending = <<>> /\ index = 0
  /\ receivers = {} /\ count = [c \in Codes |-> 0]
  /\ data = [clock |-> 0,                           \* _last_tick_time
             prev  |-> [c \in Codes |-> NoTick],    \* _previous_tick
             gen   |-> [c \in Codes |-> NoGenerator],
             fed   |-> NoFiles,     \* ticks handed to the engine today
             tapes |-> NoFiles,     \* told today
             bars  |-> NoFiles]     \* told today

-----------------------------------------------------------------------------
(* Subscriptions: subscriber and unsubscriber *)

\* Each regist_*_receiver counts, whether its receiver is new or not.
Counted(n, c, S) == n + Cardinality({r \in S : r.code = c})

\* A tape or bar receiver never takes a count below 1.
Uncounted(n, r) ==
  LET least == IF r.feed = "tick" THEN 0 ELSE 1
  IN [n EXCEPT ![r.code] = IF @ > least THEN @ - 1 ELSE @]

Receives(feed, c) == \E r \in receivers : r.feed = feed /\ r.code = c

-----------------------------------------------------------------------------
(* bar_generator::insert_tick *)

MinuteOf(t) == t.time \div Minute

\* A bar begins with a tick.
OpenBar(t, minute, lots) ==
  [open |-> t.price, close |-> t.price, high |-> t.price, low |-> t.price,
   time |-> minute, volume |-> lots, poc |-> t.price,
   profile |-> [p \in {t.price} |-> lots]]

Lots(profile, p) == IF p \in DOMAIN profile THEN profile[p] ELSE 0

\* It goes on with another.
AddToBar(b, t, lots) ==
  LET profile == [p \in DOMAIN b.profile \cup {t.price} |->
                    Lots(b.profile, p) + IF p = t.price THEN lots ELSE 0]
  IN [b EXCEPT !.high = IF t.price > @ THEN t.price ELSE @,
               !.low = IF t.price < @ THEN t.price ELSE @,
               !.close = t.price,
               !.volume = @ + lots,
               !.profile = profile,
               !.poc = IF profile[t.price] > Lots(profile, @) THEN t.price ELSE @]

\* In unsigned minutes.  (Slip: a bar ends a minute late.)
EndsBarLate(g, t) == (MinuteOf(t) - g.minute) % Modulus > Period

EndsBar(g, t) == (MinuteOf(t) - g.minute) % Modulus >= Period

InsertTick(g, t) ==
  LET ends == EndsBar(g, t)
      minute == IF ends THEN MinuteOf(t) ELSE g.minute
      lots == (t.volume - g.volume) % Modulus
  IN [minute |-> minute,
      volume |-> t.volume,
      bar |-> IF ends \/ g.bar.open = 0 THEN OpenBar(t, minute, lots)
                                        ELSE AddToBar(g.bar, t, lots)]

\* The bar that a tick ends, unless it is the first.
EndedBar(g, t) == IF EndsBar(g, t) /\ g.minute > 0 THEN <<g.bar>> ELSE <<>>

-----------------------------------------------------------------------------
(* engine's callback for a tick *)

\* get_deal_direction: the price against the order books of both ticks.
Direction(prev, t) ==
  CASE t.price >= prev.ask \/ t.price >= t.ask -> "up"
    [] t.price <= prev.bid \/ t.price <= t.bid -> "down"
    [] OTHER -> "flat"

Tape(prev, t) ==
  [time |-> t.time, lots |-> (t.volume - prev.volume) % Modulus,
   direction |-> Direction(prev, t)]

\* Tick receivers, tape receivers and bar generators are told in this order.
Tell(x, prev, t) ==
  LET c == t.code
  IN [x EXCEPT
        !.fed[c] = Append(@, t),
        !.tapes[c] = IF Receives("tape", c) THEN Append(@, Tape(prev, t)) ELSE @,
        !.bars[c] = IF Receives("bar", c) THEN @ \o EndedBar(x.gen[c], t) ELSE @,
        !.gen[c] = IF Receives("bar", c) THEN InsertTick(@, t) ELSE @]

-----------------------------------------------------------------------------
(* context::handle_tick *)

\* trading_section::is_in_trading.
IsInTrading(time) == \E s \in Sections : s[1] <= time /\ time < s[2]

\* (Slip: ticks are kept in trading hours only.)
HandleTickInTrading(x, t) ==
  LET clock == IF t.time > x.clock THEN t.time ELSE x.clock
      y == [x EXCEPT !.clock = clock]
  IN IF x.prev[t.code] = NoTick THEN [y EXCEPT !.prev[t.code] = t]
     ELSE IF IsInTrading(clock) THEN [Tell(y, x.prev[t.code], t) EXCEPT !.prev[t.code] = t]
     ELSE y

\* The first tick of an instrument that the context sees is only kept.
HandleTick(x, t) ==
  LET clock == IF t.time > x.clock THEN t.time ELSE x.clock
      y == [x EXCEPT !.clock = clock, !.prev[t.code] = t]
  IN IF x.prev[t.code] # NoTick /\ IsInTrading(clock) THEN Tell(y, x.prev[t.code], t) ELSE y

-----------------------------------------------------------------------------
(* The main thread: evaluate_engine::back_test *)

\* A day's strategies, and start_service, whose thread runs from now on.
Start ==
  /\ main = "idle" /\ day < MaxDays
  /\ day' = day + 1
  /\ files' \in Files
  /\ wants' \in Strategies
  /\ knew' = {c \in Codes : data.prev[c] # NoTick}
  /\ main' = "started" /\ rt' = "init"
  /\ UNCHANGED <<marketVars, engineVars, data>>

\* market_simulator::play.  (Slip: yesterday's end is still this day's.)
PlayStillFinished ==
  /\ main = "started"
  /\ state' = "loading"
  /\ main' = "waiting"
  /\ UNCHANGED <<rt, dayVars, finished, listed, pending, index, engineVars, data>>

Play ==
  /\ main = "started"
  /\ finished' = FALSE /\ state' = "loading"
  /\ main' = "waiting"
  /\ UNCHANGED <<rt, dayVars, listed, pending, index, engineVars, data>>

\* is_finished, and stop_service's _is_runing = false.
StopService ==
  /\ main = "waiting" /\ finished
  /\ main' = "joining"
  /\ UNCHANGED <<rt, dayVars, marketVars, engineVars, data>>

\* The thread has ended: clear_strategy.
Joined ==
  /\ main = "joining" /\ rt = "off"
  /\ main' = "idle"
  /\ wants' = {} /\ files' = NoFiles
  /\ UNCHANGED <<rt, day, knew, marketVars, engineVars, data>>

-----------------------------------------------------------------------------
(* The real-time thread *)

\* check_crossday, which sets the clock back, and engine::on_init.
OnInit ==
  /\ rt = "init"
  /\ rt' = "running"
  /\ receivers' = wants
  /\ count' = [c \in Codes |-> Counted(count[c], c, wants)]
  /\ listed' = listed \cup {c \in Codes : count'[c] > 0}
  /\ data' = [data EXCEPT !.clock = 0]
  /\ UNCHANGED <<main, dayVars, state, finished, pending, index>>

\* The files of the listed instruments, sorted by time and instrument: with times
\* that differ in a file this is all std::sort can do, which is not stable.
Before(t, ticks) ==
  {u \in ticks : u.time < t.time \/ (u.time = t.time /\ u.code < t.code)}

Sorted(ticks) ==
  [i \in 1..Cardinality(ticks) |-> CHOOSE t \in ticks : Cardinality(Before(t, ticks)) = i - 1]

\* load_data.
LoadData ==
  /\ rt = "running" /\ main # "joining" /\ state = "loading"
  /\ pending' = Sorted(UNION {ToSet(files[c]) : c \in listed})
  /\ state' = "publish"
  /\ UNCHANGED <<threadVars, dayVars, finished, listed, index, engineVars, data>>

\* finish_publish, when the tick number last was the last.  (Slip: the index
\* stays where it is.)
FinishPublishStays(last) ==
  IF last < Len(pending) THEN index' = last /\ UNCHANGED <<pending, listed, finished, state>>
  ELSE /\ index' = last /\ pending' = <<>> /\ listed' = {}
       /\ finished' = TRUE /\ state' = "idle"

FinishPublish(last) ==
  IF last < Len(pending) THEN index' = last /\ UNCHANGED <<pending, listed, finished, state>>
  ELSE /\ index' = 0 /\ pending' = <<>> /\ listed' = {}
       /\ finished' = TRUE /\ state' = "idle"

\* publish_tick: the ticks of the next time, and no more.
PublishTick ==
  /\ rt = "running" /\ main # "joining" /\ state = "publish" /\ index < Len(pending)
  /\ LET now  == pending[index + 1].time
         last == Max({i \in index + 1..Len(pending) : pending[i].time = now})
     IN /\ data' = FoldLeft(HandleTick, data, SubSeq(pending, index + 1, last))
        /\ FinishPublish(last)
  /\ UNCHANGED <<threadVars, dayVars, engineVars>>

\* engine::on_destroy: every strategy unregisters what it registered, in any
\* order, and instruments that nobody counts for are unsubscribed.
OnDestroy ==
  /\ rt = "running" /\ main = "joining"
  /\ rt' = "off"
  /\ \E order \in SetToSeqs(receivers) : count' = FoldLeft(Uncounted, count, order)
  /\ receivers' = {}
  /\ listed' = listed \ {c \in Codes : count'[c] = 0}
  /\ data' = [data EXCEPT !.gen = [c \in Codes |-> NoGenerator],
                          !.fed = NoFiles, !.tapes = NoFiles, !.bars = NoFiles]
  /\ UNCHANGED <<main, dayVars, state, finished, pending, index>>

-----------------------------------------------------------------------------
Main == Start \/ Play \/ StopService \/ Joined

RealTime == OnInit \/ LoadData \/ PublishTick \/ OnDestroy

Next == Main \/ RealTime

\* Both threads run; a day need not be begun.
Spec == Init /\ [][Next]_vars /\ WF_vars(Play \/ StopService \/ Joined) /\ WF_vars(RealTime)

-----------------------------------------------------------------------------
(* Properties *)

\* The ticks of c that are due to the engine: those in trading hours, without
\* the first one that the context ever saw.
Due(c) ==
  {files[c][i] : i \in {i \in 1..Len(files[c]) :
                          (i > 1 \/ c \in knew) /\ IsInTrading(files[c][i].time)}}

Registered == {r.code : r \in wants}

\* The strategies' instruments are fed with the day's ticks in trading hours,
\* each when the clock comes to it, in their order and none of them twice;
\* when the day is declared finished none is missing, whichever thread was
\* first at its start.
DayIsFed ==
  rt = "running" =>
    \A c \in Registered :
      LET fed == data.fed[c]
      IN /\ \A i, j \in 1..Len(fed) : i < j => fed[i].time < fed[j].time
         /\ ToSet(fed) = {t \in Due(c) : t.time <= data.clock}
         /\ main = "joining" => ToSet(fed) = Due(c)

\* A tape tells what was traded since the instrument's tick before, in trading
\* hours or not, but for a day's first tick.
TapesTellTrades ==
  \A c \in Registered : Receives("tape", c) =>
    /\ Len(data.tapes[c]) = Len(data.fed[c])
    /\ \A i \in 1..Len(data.tapes[c]) :
         LET k == CHOOSE k \in 1..Len(files[c]) : files[c][k].time = data.tapes[c][i].time
         IN k > 1 => data.tapes[c][i].lots = files[c][k].volume - files[c][k - 1].volume

\* Bars, the unfinished one included.
AllBars(c) ==
  IF data.gen[c].bar = NoBar THEN data.bars[c] ELSE Append(data.bars[c], data.gen[c].bar)

\* What was traded with each tick; before the first, with the first.
LotsOf(fed) ==
  [i \in 1..Len(fed) |-> fed[i].volume - IF i = 1 THEN 0 ELSE fed[i - 1].volume]

\* The ticks in a bar's time, by their numbers.
In(fed, b) ==
  {i \in 1..Len(fed) : MinuteOf(fed[i]) >= b.time /\ MinuteOf(fed[i]) < b.time + Period}

\* A bar is what the ticks in its time make of it: prices, volume and the price
\* of most volume.
IsMadeOf(b, fed) ==
  LET S == In(fed, b)
      prices == {fed[i].price : i \in S}
      at(p) == SumFunctionOnSet(LotsOf(fed), {i \in S : fed[i].price = p})
  IN /\ S # {}
     /\ b.open = fed[Min(S)].price /\ b.close = fed[Max(S)].price
     /\ b.high = Max(prices) /\ b.low = Min(prices)
     /\ b.volume = SumFunctionOnSet(LotsOf(fed), S)
     /\ b.poc \in prices /\ \A p \in prices : at(p) <= at(b.poc)

\* The bars of a day do not overlap, every tick is in one of them, and each is
\* made of the ticks in its time.
BarsAreTheirTicks ==
  \A c \in Registered : Receives("bar", c) =>
    LET bars == AllBars(c)
        fed  == data.fed[c]
    IN /\ \A i \in 1..Len(bars) - 1 : bars[i].time + Period <= bars[i + 1].time
       /\ UNION {In(fed, bars[i]) : i \in 1..Len(bars)} = 1..Len(fed)
       /\ \A i \in 1..Len(bars) : IsMadeOf(bars[i], fed)

\* A day whose strategies have ticks to hear comes to its end.
DayEnds ==
  (main = "waiting" /\ \E c \in Registered : files[c] # <<>>) ~> (main = "idle")
=============================================================================
