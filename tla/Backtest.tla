------------------------------ MODULE Backtest ------------------------------
(***************************************************************************)
(* A back test: evaluate_engine drives the simulated exchange              *)
(* (TraderSimulator) and the context (ContextLedger) with its strategies   *)
(* through one trading day after another.                                  *)
(*                                                                         *)
(* The real-time thread repeats context::update: the market publishes the  *)
(* ticks of one time and its callbacks run, then, in trading hours, the    *)
(* trader matches and tells the context of it, the strategies update, and  *)
(* the cancel conditions are checked.  phase says which of these comes     *)
(* next.  A strategy acts in any of its callbacks: those of a tick, of an  *)
(* order, of on_update, and, before the market opens, on_init.             *)
(***************************************************************************)
EXTENDS TraderSimulator

VARIABLES
  ctx,      \* the context's books: see ContextLedger
  session,  \* "init" until the first tick in trading hours, "open" or "break"
            \* from then on (is_in_trading), "stopped" after stop_service
  phase,    \* "market", "trader", "strategy" or "check"
  todo      \* the conditions check_condition has still to visit

engineVars == <<ctx, session, phase, todo>>
allVars    == <<vars, engineVars>>

Ctx == INSTANCE ContextLedger

BacktestInit ==
  /\ Init
  /\ ctx = Ctx!Empty
  /\ session = "init" /\ phase = "market" /\ todo = {}

-----------------------------------------------------------------------------
(* The market *)

\* market_simulator::publish_tick and context::handle_tick: the trader has the
\* tick before the context, whose clock says whether this is in trading hours.
\* Ticks of the same time are published together.
PublishTick(c) ==
  /\ session # "stopped" /\ phase \in {"market", "trader"}
  /\ PushTick(c)
  /\ session' \in CASE phase = "trader"   -> {session}
                   [] session = "init"    -> {"init", "open"}
                   [] OTHER               -> {"open", "break"}
  /\ phase' = IF session' = "open" THEN "trader" ELSE "market"
  /\ UNCHANGED <<ctx, todo>>

-----------------------------------------------------------------------------
(* The strategies *)

CanAct == phase \in {"trader", "strategy"}

\* strategy::buy_open and its like, over context::place_order.
StrategyPlace(o) ==
  /\ CanAct
  /\ PlaceOrder(o)
  /\ ctx' = [ctx EXCEPT !.listener = @ \cup {o}]
  /\ UNCHANGED <<session, phase, todo>>

\* strategy::cancel_order, when the trader takes it.
StrategyCancel(o) ==
  /\ CanAct
  /\ CancelOrder(o)
  /\ ctx' = [ctx EXCEPT !.condition[o] = "none"]
  /\ UNCHANGED <<session, phase, todo>>

\* strategy::cancel_order, when it is refused: in on_init the market is closed,
\* an order carried over from the last day is not in the match yet, and neither
\* is one in the callback of its own on_entrust.
StrategyCancelRefused(o) ==
  /\ \/ session = "init" /\ Quiet
     \/ /\ CanAct /\ ~Cancelable(o)
        /\ Quiet \/ (InCallback /\ o # loop.cur)
     \/ /\ CanAct /\ InCallback /\ o = loop.cur
        /\ \E i \in 1..Len(fired) : fired[i].type = "OrderPlace"
  /\ Ctx!Knows(ctx, o)
  /\ ctx' = [ctx EXCEPT !.condition[o] = "always"]
  /\ UNCHANGED <<vars, session, phase, todo>>

\* strategy::set_cancel_condition with a callback of the strategy's own, once
\* for an order.
SetCancelCondition(o) ==
  /\ CanAct
  /\ Quiet \/ InCallback
  /\ told[o].status \in {"placed", "entrusted"}
  /\ ctx.condition[o] = "none"
  /\ ctx' = [ctx EXCEPT !.condition[o] = "user"]
  /\ UNCHANGED <<vars, session, phase, todo>>

-----------------------------------------------------------------------------
(* The trader: trader_simulator::update, telling the context *)

Trader ==
  /\ session = "open"
  /\ \/ /\ phase \in {"market", "trader"} /\ BeginUpdate
        /\ phase' = "trader"
        /\ UNCHANGED <<ctx, session, todo>>
     \/ MatchEntrust /\ UNCHANGED engineVars
     \/ /\ HandleEntrust
        /\ ctx' = Ctx!HandleAll(ctx, fired', order'[loop'.cur])
        /\ UNCHANGED <<session, phase, todo>>
     \/ /\ Sweep
        /\ phase' = IF loop' = Idle THEN "strategy" ELSE phase
        /\ UNCHANGED <<ctx, session, todo>>

-----------------------------------------------------------------------------
(* context::check_condition *)

Conditions == {o \in Ids : ctx.condition[o] # "none"}

BeginCheck ==
  /\ Quiet /\ phase = "strategy"
  /\ todo' = Conditions
  /\ phase' = IF Conditions = {} THEN "market" ELSE "check"
  /\ UNCHANGED <<vars, ctx, session>>

\* One condition, which may come out either way if it is a strategy's own.
CheckedOrder(o, cancel, forget) ==
  /\ state' = IF cancel THEN [state EXCEPT ![o] = "CANELED"] ELSE state
  /\ ctx' = IF forget THEN [ctx EXCEPT !.condition[o] = "none"] ELSE ctx
  /\ UNCHANGED <<order, seat, bookVars, tickVars, loop, fired, told, envVars>>

Fires(o) == IF ctx.condition[o] = "always" THEN {TRUE} ELSE BOOLEAN

\* (Slip: a true condition goes whatever the trader says to the cancel.)
CheckOneLoses(o) ==
  \E fires \in Fires(o) : CheckedOrder(o, FALSE, fires)

\* (Slip: && for ||.)
CheckOneBoth(o) ==
  \E fires \in Fires(o) :
    LET both == fires /\ ~Ctx!Knows(ctx, o) /\ Cancelable(o)
    IN CheckedOrder(o, both, both)

\* When it is true, it goes if the context has no such order or the trader
\* takes the cancel.
CheckOne(o) ==
  \E fires \in Fires(o) :
    LET known == Ctx!Knows(ctx, o)
    IN CheckedOrder(o, fires /\ known /\ Cancelable(o),
                       fires /\ (~known \/ Cancelable(o)))

CheckCondition ==
  /\ phase = "check"
  /\ \E o \in todo :
       /\ IsFirst(o, todo)
       /\ CheckOne(o)
       /\ todo' = todo \ {o}
       /\ phase' = IF todo = {o} THEN "market" ELSE "check"
  /\ UNCHANGED session

-----------------------------------------------------------------------------
(* The days: stop_service and clear_strategy, crossday and start_service *)

Stop ==
  /\ session # "stopped" /\ Quiet /\ phase = "market"
  /\ session' = "stopped"
  /\ ctx' = [ctx EXCEPT !.condition = [o \in Ids |-> "none"]]
  /\ UNCHANGED <<vars, phase, todo>>

NextDay ==
  /\ session = "stopped"
  /\ Crossday
  /\ session' = "init"
  /\ ctx' = Ctx!LoadData(ctx, Live, order, position', held)
  /\ UNCHANGED <<phase, todo>>

-----------------------------------------------------------------------------
BacktestNext ==
  \/ \E c \in Codes : PublishTick(c)
  \/ \E o \in Ids : \/ StrategyPlace(o)
                    \/ StrategyCancel(o)
                    \/ StrategyCancelRefused(o)
                    \/ SetCancelCondition(o)
  \/ Trader
  \/ BeginCheck \/ CheckCondition
  \/ Stop \/ NextDay

\* The real-time thread runs until it is stopped.
BacktestSpec ==
  /\ BacktestInit /\ [][BacktestNext]_allVars
  /\ WF_allVars(Trader \/ BeginCheck \/ CheckCondition)

-----------------------------------------------------------------------------
(* Properties *)

\* The context's books have the types of position_info and order_info.
BacktestTypeOK ==
  /\ ctx.position \in [Codes -> [postion : [Buckets -> [Dirs -> 0..Modulus - 1]],
                                 frozen  : [Buckets -> [Dirs -> 0..Modulus - 1]],
                                 pending : [Dirs -> 0..Modulus - 1]]]
  /\ ctx.order \in [Ids -> Nat \cup {Ctx!Unknown}]
  /\ ctx.entries \subseteq Codes /\ ctx.listener \subseteq Ids
  /\ ctx.condition \in [Ids -> {"none", "always", "user"}]
  /\ session \in {"init", "open", "break", "stopped"}
  /\ phase \in {"market", "trader", "strategy", "check"}
  /\ todo \subseteq Ids

\* What the context's notices make of the positions is what the exchange holds.
PositionsAgree ==
  session # "stopped" =>
    \A c \in Codes, b \in Buckets, d \in Dirs :
      ctx.position[c].postion[b][d] = position[c][b][d].postion

Undealt(c, d, S(_)) ==
  SumFunctionOnSet([o \in Ids |-> order[o].last],
    {o \in Ids : /\ told[o].status = "entrusted" /\ S(order[o])
                 /\ order[o].code = c /\ order[o].direction = d})

\* A position's pending lots are those of the opening orders that are entrusted
\* and not dealt yet, its frozen lots those of the closing ones
\* (define_types.hpp on long_pending and on frozen): usable never underflows.
LotsAreUndealt ==
  \A c \in Codes, d \in Dirs :
    /\ ctx.position[c].pending[d] = Undealt(c, d, LAMBDA r : r.offset = "open")
    /\ \A b \in Buckets :
         /\ ctx.position[c].frozen[b][d] =
              Undealt(c, d, LAMBDA r : r.offset # "open" /\ BucketOf(r) = b)
         /\ ctx.position[c].frozen[b][d] <= ctx.position[c].postion[b][d]

\* Whatever the day, it never counts as pending more than its orders still
\* wait for.
PendingNotDealt ==
  session # "stopped" =>
    \A c \in Codes, d \in Dirs :
      ctx.position[c].pending[d] <=
        SumFunctionOnSet([o \in Ids |-> order[o].last],
          {o \in Ids : /\ told[o].status \in {"placed", "entrusted"}
                       /\ order[o].offset = "open"
                       /\ order[o].code = c /\ order[o].direction = d})

\* The context knows an order, with what is left of it, from its entrust to
\* its end: get_order tells a strategy what the exchange would.
OrdersMirrored ==
  \A o \in Ids :
    ctx.order[o] = IF told[o].status = "entrusted" THEN order[o].last ELSE Ctx!Unknown

\* An order has a listener from the call that placed it until its end, and no
\* cancel condition outlives it: none of its notices is lost, and nothing of an
\* ended order leads to a strategy or cancels on its behalf.
NothingOutlivesOrders ==
  LET live == {o \in Ids : told[o].status \in {"placed", "entrusted"}}
  IN ctx.listener = live /\ {o \in Ids : ctx.condition[o] # "none"} \subseteq live

\* A condition goes with the order's cancel, its end or the day's, and never
\* otherwise (strategy.h on set_cancel_condition: cancel when it is true), but
\* for one that is true before the context knows its order.
ConditionsCancel ==
  [][\A o \in Ids :
       ctx.condition[o] # "none" /\ ctx'.condition[o] = "none" =>
         \/ state'[o] \in {"CANELED", "erased", "DELETE"}
         \/ ~Ctx!Knows(ctx, o)
         \/ session' = "stopped"]_allVars

\* A cancel the exchange refused is tried again until the order has ended, or
\* trading has.
RefusedCancelsRetried ==
  \A o \in Ids :
    (ctx.condition[o] = "always") ~>
      (told[o].status \notin {"placed", "entrusted"} \/ session # "open")
=============================================================================
