--------------------------- MODULE BacktestProofs ---------------------------
(***************************************************************************)
(* In a backtest, whatever the context and the strategies do to it, the    *)
(* simulator takes no step of its own making: Backtest implements          *)
(* TraderSimulator's next-state relation, so what is proved of the         *)
(* simulator alone holds between the context and the strategies too.  And  *)
(* the context's own books follow the simulator's: its orders, listeners   *)
(* and conditions, its positions, and the lots that are pending or frozen. *)
(***************************************************************************)
EXTENDS Backtest, TraderSimulatorProofs

\* The conditions are checked between two updates of the trader, and they are
\* orders'.
BInv == /\ phase = "check" => Quiet
        /\ todo \subseteq Ids

\* A cancel of check_condition is one of cancel_order: between two updates an
\* order that can be cancelled was entrusted and has not ended.
LEMMA CheckCancels ==
  ASSUME IInv, LInv, Quiet, NEW o \in Ids, CheckOne(o)
  PROVE  CancelOrder(o) \/ UNCHANGED vars
<1>1. PICK fires \in BOOLEAN, forget \in BOOLEAN :
        LET cancel == fires /\ Ctx!Knows(ctx, o) /\ Cancelable(o)
        IN CheckedOrder(o, cancel, forget)
  BY DEF CheckOne, Fires
<1> DEFINE cancel == fires /\ Ctx!Knows(ctx, o) /\ Cancelable(o)
<1>2. /\ state' = IF cancel THEN [state EXCEPT ![o] = "CANELED"] ELSE state
      /\ UNCHANGED <<order, seat, bookVars, tickVars, loop, fired, told, envVars>>
  BY <1>1 DEF CheckedOrder
<1>3. cancel => Cancelable(o)
  OBVIOUS
<1> HIDE DEF cancel
<1>4. CASE cancel
  <2>a. state[o] # "DELETE"
    BY DEF LInv, Quiet, Idle
  <2>b. state[o] \in States /\ state[o] \notin {"erased", "INVALID"}
    BY <1>3, <1>4 DEF Cancelable, IInv, TypeOK
  <2>1. state[o] \in {"IN_MATCH", "CANELED"}
    BY <2>a, <2>b DEF States
  <2>2. told[o].status = "entrusted"
    BY <2>1 DEF LInv
  <2> QED
    BY <1>2, <1>3, <1>4, <2>2 DEF CancelOrder
<1>5. CASE ~cancel
  BY <1>2, <1>5 DEF vars, orderVars
<1> QED
  BY <1>4, <1>5

\* None of the trader's steps is taken between two updates of it but the first.
LEMMA NotQuiet == loop.codes # {} \/ loop.code # 0 => ~Quiet
BY DEF Quiet, Idle

LEMMA TraderSteps ==
  ASSUME BInv, Trader PROVE Update /\ BInv'
<1>1. CASE /\ phase \in {"market", "trader"} /\ BeginUpdate /\ phase' = "trader"
           /\ UNCHANGED <<ctx, session, todo>>
  BY <1>1 DEF Update, BInv
<1>2. CASE MatchEntrust /\ UNCHANGED engineVars
  <2>1. ~Quiet
    BY <1>2, NotQuiet DEF MatchEntrust
  <2>2. phase' = phase /\ todo' = todo /\ phase # "check"
    BY <1>2, <2>1 DEF BInv, engineVars
  <2> QED
    BY <1>2, <2>2 DEF Update, BInv
<1>3. CASE HandleEntrust /\ UNCHANGED <<session, phase, todo>>
  <2>1. ~Quiet
    BY <1>3, NotQuiet DEF HandleEntrust
  <2>2. phase # "check"
    BY <2>1 DEF BInv
  <2> QED
    BY <1>3, <2>2 DEF Update, BInv
<1>4. CASE /\ Sweep /\ phase' = IF loop' = Idle THEN "strategy" ELSE phase
           /\ UNCHANGED <<ctx, session, todo>>
  <2>1. ~Quiet
    BY <1>4, NotQuiet DEF Sweep
  <2>2. phase # "check" /\ phase' \in {"strategy", phase}
    BY <1>4, <2>1 DEF BInv
  <2> QED
    BY <1>4, <2>2 DEF Update, BInv
<1> QED
  BY <1>1, <1>2, <1>3, <1>4 DEF Trader

LEMMA BacktestStep ==
  ASSUME IInv, LInv, BInv, [BacktestNext]_allVars PROVE [Next]_vars /\ BInv'
<1>1. CASE \E c \in Codes : PublishTick(c)
  BY <1>1 DEF PublishTick, Next, BInv
<1>2. CASE \E o \in Ids : StrategyPlace(o)
  BY <1>2 DEF StrategyPlace, CanAct, Next, BInv
<1>3. CASE \E o \in Ids : StrategyCancel(o)
  BY <1>3 DEF StrategyCancel, CanAct, Next, BInv
<1>4. CASE \E o \in Ids : StrategyCancelRefused(o) \/ SetCancelCondition(o)
  BY <1>4 DEF StrategyCancelRefused, SetCancelCondition, vars, BInv, Quiet
<1>5. CASE Trader
  BY <1>5, TraderSteps DEF Next
<1>6. CASE BeginCheck
  BY <1>6 DEF BeginCheck, Conditions, vars, BInv, Quiet
<1>7. CASE CheckCondition
  <2>1. phase = "check" /\ Quiet
    BY <1>7 DEF CheckCondition, BInv
  <2>2. PICK o \in todo : CheckOne(o) /\ todo' = todo \ {o}
    BY <1>7 DEF CheckCondition
  <2>3. o \in Ids /\ todo' \subseteq Ids
    BY <2>2 DEF BInv
  <2>4. CancelOrder(o) \/ UNCHANGED vars
    BY <2>1, <2>2, <2>3, CheckCancels
  <2>5. loop' = loop
    BY <2>4 DEF CancelOrder, vars
  <2>6. Quiet'
    BY <2>1, <2>5 DEF Quiet
  <2> QED
    BY <2>3, <2>4, <2>6 DEF Next, BInv
<1>8. CASE Stop
  BY <1>8 DEF Stop, vars, BInv
<1>9. CASE NextDay
  <2>1. Crossday /\ phase' = phase /\ todo' = todo
    BY <1>9 DEF NextDay
  <2>2. loop' = loop
    BY <2>1 DEF Crossday
  <2>3. phase' = "check" => Quiet'
    BY <2>1, <2>2 DEF BInv, Quiet
  <2> QED
    BY <2>1, <2>3 DEF Next, BInv
<1>10. CASE UNCHANGED allVars
  BY <1>10 DEF allVars, engineVars, vars, BInv, Quiet
<1> QED
  BY <1>1, <1>2, <1>3, <1>4, <1>5, <1>6, <1>7, <1>8, <1>9, <1>10 DEF BacktestNext

-----------------------------------------------------------------------------
\* An inductive invariant of a step of a back test is one of the back test.
BacktestInv == IInv /\ LInv /\ BInv

LEMMA BacktestStarts == BacktestInit => Init /\ BacktestInv
BY InitIInv, InitLInv DEF BacktestInit, BacktestInv, BInv

LEMMA BacktestKeeps ==
  ASSUME BacktestInv, ~CancelsEnded, [BacktestNext]_allVars
  PROVE  [Next]_vars /\ Step /\ BacktestInv'
<1>1. [Next]_vars /\ BInv'
  BY BacktestStep DEF BacktestInv
<1>2. IInv' /\ LInv' /\ Step
  BY <1>1, NextIInv, NextStep DEF BacktestInv
<1> QED
  BY <1>1, <1>2 DEF BacktestInv

LEMMA BacktestInvAlways == ASSUME ~CancelsEnded PROVE BacktestSpec => []BacktestInv
<1>1. BacktestInit => BacktestInv
  BY BacktestStarts
<1>2. BacktestInv /\ [BacktestNext]_allVars => BacktestInv'
  BY BacktestKeeps
<1> QED
  BY <1>1, <1>2, PTL DEF BacktestSpec

\* Whatever the context, its conditions and the strategies do, the simulator of
\* a back test does what TraderSimulator does alone, as long as strategies do
\* not cancel what has ended: check_condition's cancels are cancel_order's.
THEOREM IsSimulator == ASSUME ~CancelsEnded
                       PROVE  BacktestSpec => Init /\ [][Next]_vars
<1>1. BacktestInit => Init
  BY DEF BacktestInit
<1>2. BacktestInv /\ [BacktestNext]_allVars => [Next]_vars
  BY BacktestStep DEF BacktestInv
<1> QED
  BY <1>1, <1>2, BacktestInvAlways, PTL DEF BacktestSpec

\* In a back test too the events tell lives the trader interface promises: an
\* order that a cancel condition cancels ends once, like any other.
THEOREM TellsLivesInBacktest == ASSUME ~CancelsEnded
                                PROVE  BacktestSpec => KeepsLifecycle
<1>1. BacktestInit => Lifecycle!Init
  BY InitLInv DEF BacktestInit
<1>2. BacktestInv /\ [BacktestNext]_allVars => [Lifecycle!Next]_(Lifecycle!vars)
  BY BacktestKeeps DEF Step, Mapped
<1> QED
  BY <1>1, <1>2, BacktestInvAlways, PTL
     DEF BacktestSpec, KeepsLifecycle, Lifecycle!Spec

\* An order that check_condition or a strategy cancelled deals no more, however
\* its callbacks and the next updates interleave.
THEOREM CancelStopsDealsInBacktest == ASSUME ~CancelsEnded
                                      PROVE  BacktestSpec => NoDealAfterCancel
<1>1. BacktestInv /\ [BacktestNext]_allVars =>
        [\A o \in Ids : state[o] = "CANELED" => order'[o].last = order[o].last]_vars
  BY BacktestStep, StepKeepsCanceled DEF BacktestInv
<1> QED
  BY <1>1, BacktestInvAlways, PTL DEF BacktestSpec, NoDealAfterCancel

\* A FOK order is dealt in full or killed at its first update, with the
\* conditions and the strategies acting on it as well.
THEOREM FokInBacktest == ASSUME ~CancelsEnded
                         PROVE  BacktestSpec => []FokAllOrNothing
<1>1. BacktestInit => FInv
  BY DEF BacktestInit, Init, NoOrder, FInv
<1>2. BacktestInv /\ FInv /\ [BacktestNext]_allVars => FInv'
  BY BacktestStep, FokStep DEF BacktestInv
<1>3. BacktestInv /\ FInv => FokAllOrNothing
  <2> SUFFICES ASSUME LInv, FInv, NEW o \in Ids, order[o].flag = "FOK"
               PROVE  /\ Quiet => state[o] \in {"erased", "INVALID"}
                      /\ told[o].left \in {0, order[o].total}
    BY DEF FokAllOrNothing, BacktestInv
  <2>1. Quiet => state[o] # "DELETE"
    BY DEF LInv, Quiet, Idle
  <2> QED
    BY <2>1 DEF FInv
<1> QED
  BY <1>1, <1>2, <1>3, BacktestInvAlways, PTL DEF BacktestSpec

-----------------------------------------------------------------------------
(* The context's books.  Its volumes are in a set L: the naturals, or those
   that an unsigned integer holds. *)

Lots == 0..Modulus - 1

Volumetric(L) == Lots \subseteq L /\ L \subseteq Nat
                 /\ \A n \in L, m \in Nat : m <= n => m \in L

Ledgers(L) == [postion : [Buckets -> [Dirs -> L]],
               frozen  : [Buckets -> [Dirs -> L]],
               pending : [Dirs -> L]]

Wishes == {"none", "always", "user"}

Ctxs(L) == [position : [Codes -> Ledgers(L)], entries : SUBSET Codes,
            order : [Ids -> Nat \cup {Ctx!Unknown}], listener : SUBSET Ids,
            condition : [Ids -> Wishes]]

LEMMA AnyLots == Volumetric(Nat) /\ Volumetric(Lots)
BY ModulusAssumption DEF Volumetric, Lots

LEMMA SameSets == Ctx!Dirs = Dirs /\ Ctx!Buckets = Buckets
BY DEF Ctx!Dirs, Dirs, Ctx!Buckets, Buckets

LEMMA SameBucket == \A r : Ctx!BucketOf(r) = BucketOf(r)
BY DEF Ctx!BucketOf, BucketOf

LEMMA SameSum == \A f, S : Ctx!SumFunctionOnSet(f, S) = SumFunctionOnSet(f, S)
BY DEF Ctx!SumFunctionOnSet, Ctx!FoldFunctionOnSet, Ctx!MapThenFoldSet,
       SumFunctionOnSet, FoldFunctionOnSet, MapThenFoldSet

LEMMA LotsWrap ==
  ASSUME NEW a \in Int, NEW b \in Int
  PROVE  Ctx!Plus(a, b) \in Lots /\ Ctx!Minus(a, b) \in Lots
BY ModulusAssumption DEF Ctx!Plus, Ctx!Minus, Lots

LEMMA WrapIn ==
  ASSUME NEW L, Volumetric(L), NEW a \in Int, NEW b \in Int
  PROVE  Ctx!Plus(a, b) \in L /\ Ctx!Minus(a, b) \in L
<1>1. Lots \subseteq L
  BY DEF Volumetric
<1> QED
  BY <1>1, LotsWrap

LEMMA InNat == ASSUME NEW L, Volumetric(L) PROVE L \subseteq Nat
BY DEF Volumetric

LEMMA ZeroLots == 0 \in Lots
BY ModulusAssumption DEF Lots

LEMMA ZeroIs ==
  ASSUME NEW L, Volumetric(L)
  PROVE  /\ \A b \in Buckets, d \in Dirs : Ctx!Zero[b][d] = 0
         /\ Ctx!Zero \in [Buckets -> [Dirs -> L]]
         /\ Ctx!NoPosition \in Ledgers(L)
         /\ \A d \in Dirs : Ctx!NoPosition.pending[d] = 0
         /\ Ctx!NoPosition.postion = Ctx!Zero /\ Ctx!NoPosition.frozen = Ctx!Zero
<1>0. 0 \in L
  BY ZeroLots DEF Volumetric
<1>1. /\ \A b \in Buckets, d \in Dirs : Ctx!Zero[b][d] = 0
      /\ Ctx!Zero \in [Buckets -> [Dirs -> L]]
  BY <1>0, SameSets DEF Ctx!Zero
<1>2. Ctx!NoPosition = [postion |-> Ctx!Zero, frozen |-> Ctx!Zero,
                        pending |-> [d \in Dirs |-> 0]]
  BY SameSets DEF Ctx!NoPosition
<1>3. [d \in Dirs |-> 0] \in [Dirs -> L]
  BY <1>0
<1> QED
  BY <1>1, <1>2, <1>3 DEF Ledgers

LEMMA LotInt ==
  ASSUME NEW L, Volumetric(L), NEW x \in Ctxs(L)
  PROVE  /\ \A c \in Codes, b \in Buckets, d \in Dirs :
              /\ x.position[c].postion[b][d] \in L /\ x.position[c].postion[b][d] \in Nat
              /\ x.position[c].frozen[b][d] \in L /\ x.position[c].frozen[b][d] \in Nat
         /\ \A c \in Codes, d \in Dirs :
              x.position[c].pending[d] \in L /\ x.position[c].pending[d] \in Nat
<1>1. \A c \in Codes : x.position[c] \in Ledgers(L)
  BY DEF Ctxs
<1>2. L \subseteq Nat
  BY DEF Volumetric
<1>3. ASSUME NEW c \in Codes, NEW b \in Buckets, NEW d \in Dirs
      PROVE  /\ x.position[c].postion[b][d] \in L /\ x.position[c].frozen[b][d] \in L
             /\ x.position[c].pending[d] \in L
  <2>1. x.position[c] \in Ledgers(L)
    BY <1>1
  <2> QED
    BY <2>1 DEF Ledgers
<1>4. "today" \in Buckets
  BY DEF Buckets
<1> QED
  BY <1>2, <1>3, <1>4

\* A context with another number of pending or of frozen lots.
SetPending(x, c, d, n) == [x EXCEPT !.position[c].pending[d] = n]

SetFrozenLots(x, c, b, d, n) == [x EXCEPT !.position[c].frozen[b][d] = n]

\* What a handler leaves alone, and the one volume it changes.
SameNotices(x, y) ==
  y.order = x.order /\ y.listener = x.listener /\ y.condition = x.condition

SamePending(x, y) ==
  \A c \in Codes, d \in Dirs : y.position[c].pending[d] = x.position[c].pending[d]

SameFrozen(x, y) ==
  \A c \in Codes, b \in Buckets, d \in Dirs :
    y.position[c].frozen[b][d] = x.position[c].frozen[b][d]

SamePostion(x, y) ==
  \A c \in Codes, b \in Buckets, d \in Dirs :
    y.position[c].postion[b][d] = x.position[c].postion[b][d]

PendingGoes(x, y, c, d, n) ==
  \A c2 \in Codes, d2 \in Dirs :
    y.position[c2].pending[d2] = IF c2 = c /\ d2 = d THEN n
                                 ELSE x.position[c2].pending[d2]

FrozenGoes(x, y, c, b, d, n) ==
  \A c2 \in Codes, b2 \in Buckets, d2 \in Dirs :
    y.position[c2].frozen[b2][d2] = IF c2 = c /\ b2 = b /\ d2 = d THEN n
                                    ELSE x.position[c2].frozen[b2][d2]

PostionGoes(x, y, c, b, d, n) ==
  \A c2 \in Codes, b2 \in Buckets, d2 \in Dirs :
    y.position[c2].postion[b2][d2] = IF c2 = c /\ b2 = b /\ d2 = d THEN n
                                     ELSE x.position[c2].postion[b2][d2]

LEMMA PendingSet ==
  ASSUME NEW L, Volumetric(L), NEW x \in Ctxs(L),
         NEW c \in Codes, NEW d \in Dirs, NEW n \in L
  PROVE  LET y == SetPending(x, c, d, n)
         IN /\ y \in Ctxs(L) /\ y.entries = x.entries /\ SameNotices(x, y)
            /\ SamePostion(x, y) /\ SameFrozen(x, y) /\ PendingGoes(x, y, c, d, n)
<1> DEFINE y == SetPending(x, c, d, n)
           p == x.position[c]
           q == [p EXCEPT !.pending = [p.pending EXCEPT ![d] = n]]
           P == [x.position EXCEPT ![c] = q]
<1>1. y = [x EXCEPT !.position = P]
  BY DEF SetPending
<1>2. p \in Ledgers(L) /\ x.position \in [Codes -> Ledgers(L)]
  BY DEF Ctxs
<1>3. /\ q \in Ledgers(L) /\ q.postion = p.postion /\ q.frozen = p.frozen
      /\ \A d2 \in Dirs : q.pending[d2] = IF d2 = d THEN n ELSE p.pending[d2]
  BY <1>2 DEF Ledgers
<1> HIDE DEF q
<1>4. /\ P \in [Codes -> Ledgers(L)]
      /\ \A c2 \in Codes : P[c2] = IF c2 = c THEN q ELSE x.position[c2]
  BY <1>2, <1>3
<1> HIDE DEF P
<1>5. /\ y.position = P
      /\ y.entries = x.entries /\ y.order = x.order
      /\ y.listener = x.listener /\ y.condition = x.condition
  BY <1>1 DEF Ctxs
<1>6. y \in Ctxs(L)
  BY <1>1, <1>4 DEF Ctxs
<1>7. ASSUME NEW c2 \in Codes
      PROVE  /\ y.position[c2].postion = x.position[c2].postion
             /\ y.position[c2].frozen = x.position[c2].frozen
             /\ \A d2 \in Dirs : y.position[c2].pending[d2] =
                  IF c2 = c /\ d2 = d THEN n ELSE x.position[c2].pending[d2]
  <2>1. CASE c2 = c
    <3>1. y.position[c2] = q /\ x.position[c2] = p
      BY <1>4, <1>5, <2>1
    <3> QED
      BY <1>3, <2>1, <3>1
  <2>2. CASE c2 # c
    BY <1>4, <1>5, <2>2
  <2> QED
    BY <2>1, <2>2
<1> HIDE DEF y
<1> QED
  BY <1>5, <1>6, <1>7 DEF y, SameNotices, SamePostion, SameFrozen, PendingGoes

LEMMA FrozenSet ==
  ASSUME NEW L, Volumetric(L), NEW x \in Ctxs(L),
         NEW c \in Codes, NEW b \in Buckets, NEW d \in Dirs,
         NEW n \in L
  PROVE  LET y == SetFrozenLots(x, c, b, d, n)
         IN /\ y \in Ctxs(L) /\ y.entries = x.entries /\ SameNotices(x, y)
            /\ SamePostion(x, y) /\ SamePending(x, y) /\ FrozenGoes(x, y, c, b, d, n)
<1> DEFINE y == SetFrozenLots(x, c, b, d, n)
           p == x.position[c]
           f == [p.frozen EXCEPT ![b] = [p.frozen[b] EXCEPT ![d] = n]]
           q == [p EXCEPT !.frozen = f]
           P == [x.position EXCEPT ![c] = q]
<1>1. y = [x EXCEPT !.position = P]
  BY DEF SetFrozenLots
<1>2. p \in Ledgers(L) /\ x.position \in [Codes -> Ledgers(L)]
      /\ p.frozen \in [Buckets -> [Dirs -> L]]
  BY DEF Ctxs, Ledgers
<1>a. /\ f \in [Buckets -> [Dirs -> L]]
      /\ \A b2 \in Buckets, d2 \in Dirs :
           f[b2][d2] = IF b2 = b /\ d2 = d THEN n ELSE p.frozen[b2][d2]
  BY <1>2
<1> HIDE DEF f
<1>3. /\ q \in Ledgers(L) /\ q.postion = p.postion /\ q.pending = p.pending
      /\ q.frozen = f
  BY <1>2, <1>a DEF Ledgers
<1> HIDE DEF q
<1>4. /\ P \in [Codes -> Ledgers(L)]
      /\ \A c2 \in Codes : P[c2] = IF c2 = c THEN q ELSE x.position[c2]
  BY <1>2, <1>3
<1> HIDE DEF P
<1>5. /\ y.position = P
      /\ y.entries = x.entries /\ y.order = x.order
      /\ y.listener = x.listener /\ y.condition = x.condition
  BY <1>1 DEF Ctxs
<1>6. y \in Ctxs(L)
  BY <1>1, <1>4 DEF Ctxs
<1>7. ASSUME NEW c2 \in Codes
      PROVE  /\ y.position[c2].postion = x.position[c2].postion
             /\ y.position[c2].pending = x.position[c2].pending
             /\ \A b2 \in Buckets, d2 \in Dirs : y.position[c2].frozen[b2][d2] =
                  IF c2 = c /\ b2 = b /\ d2 = d THEN n ELSE x.position[c2].frozen[b2][d2]
  <2>1. CASE c2 = c
    <3>1. y.position[c2] = q /\ x.position[c2] = p
      BY <1>4, <1>5, <2>1
    <3> QED
      BY <1>a, <1>3, <2>1, <3>1
  <2>2. CASE c2 # c
    BY <1>4, <1>5, <2>2
  <2> QED
    BY <2>1, <2>2
<1> HIDE DEF y
<1> QED
  BY <1>5, <1>6, <1>7 DEF y, SameNotices, SamePostion, SamePending, FrozenGoes

\* What reserving v lots for r makes of a context: of an opening order's
\* pending lots, or of a closing one's frozen lots where there is an entry.
LEMMA ReserveOpen ==
  ASSUME NEW L, Volumetric(L), NEW x \in Ctxs(L),
         NEW r \in Orders, NEW v \in Nat, r.offset = "open"
  PROVE  LET y == Ctx!Reserve(x, r, v)
         IN /\ y \in Ctxs(L) /\ SameNotices(x, y)
            /\ y.entries = x.entries \cup {r.code}
            /\ SamePostion(x, y) /\ SameFrozen(x, y)
            /\ PendingGoes(x, y, r.code, r.direction,
                           Ctx!Plus(x.position[r.code].pending[r.direction], v))
<1> DEFINE y == Ctx!Reserve(x, r, v)
           n == Ctx!Plus(x.position[r.code].pending[r.direction], v)
           z == SetPending(x, r.code, r.direction, n)
<1>1. r.code \in Codes /\ r.direction \in Dirs /\ "today" \in Buckets
  BY OrderKeys DEF Buckets
<1>2. n \in L
  <2>1. x.position[r.code].pending[r.direction] \in Int
    BY <1>1, LotInt
  <2> QED
    BY <2>1, WrapIn
<1>3. y = [z EXCEPT !.entries = z.entries \cup {r.code}]
  BY DEF Ctx!Reserve, Ctxs, SetPending
<1> HIDE DEF n, y
<1>4. /\ z \in Ctxs(L) /\ z.entries = x.entries /\ SameNotices(x, z)
      /\ SamePostion(x, z) /\ SameFrozen(x, z)
      /\ PendingGoes(x, z, r.code, r.direction, n)
  BY <1>1, <1>2, PendingSet
<1> HIDE DEF z
<1>5. /\ y \in Ctxs(L) /\ y.entries = z.entries \cup {r.code} /\ y.position = z.position
      /\ y.order = z.order /\ y.listener = z.listener /\ y.condition = z.condition
  BY <1>1, <1>3, <1>4 DEF Ctxs
<1>6. SameNotices(x, y)
  BY <1>4, <1>5 DEF SameNotices
<1>7. SamePostion(x, y) /\ SameFrozen(x, y) /\ PendingGoes(x, y, r.code, r.direction, n)
  BY <1>4, <1>5 DEF SamePostion, SameFrozen, PendingGoes
<1> QED
  BY <1>4, <1>5, <1>6, <1>7 DEF n, y

LEMMA ReserveClose ==
  ASSUME NEW L, Volumetric(L), NEW x \in Ctxs(L),
         NEW r \in Orders, NEW v \in Nat, r.offset # "open"
  PROVE  LET y == Ctx!Reserve(x, r, v)
         IN /\ y \in Ctxs(L) /\ SameNotices(x, y) /\ y.entries = x.entries
            /\ SamePostion(x, y) /\ SamePending(x, y)
            /\ r.code \notin x.entries => y = x
            /\ r.code \in x.entries =>
                 FrozenGoes(x, y, r.code, BucketOf(r), r.direction,
                   Ctx!Plus(x.position[r.code].frozen[BucketOf(r)][r.direction], v))
<1> DEFINE y == Ctx!Reserve(x, r, v)
           n == Ctx!Plus(x.position[r.code].frozen[BucketOf(r)][r.direction], v)
           z == SetFrozenLots(x, r.code, BucketOf(r), r.direction, n)
<1>1. r.code \in Codes /\ r.direction \in Dirs /\ BucketOf(r) \in Buckets
  BY OrderKeys
<1>2. n \in L
  <2>1. x.position[r.code].frozen[BucketOf(r)][r.direction] \in Int
    BY <1>1, LotInt
  <2> QED
    BY <2>1, WrapIn
<1>3. y = IF r.code \notin x.entries THEN x ELSE z
  BY SameBucket DEF Ctx!Reserve, SetFrozenLots
<1> HIDE DEF n, y
<1>4. /\ z \in Ctxs(L) /\ z.entries = x.entries /\ SameNotices(x, z)
      /\ SamePostion(x, z) /\ SamePending(x, z)
      /\ FrozenGoes(x, z, r.code, BucketOf(r), r.direction, n)
  BY <1>1, <1>2, FrozenSet
<1> HIDE DEF z
<1>5. SameNotices(x, x) /\ SamePostion(x, x) /\ SamePending(x, x)
  BY DEF SameNotices, SamePostion, SamePending
<1> QED
  BY <1>3, <1>4, <1>5 DEF n, y

\* What giving v lots back makes of it.
LEMMA ReleaseOpen ==
  ASSUME NEW L, Volumetric(L), NEW x \in Ctxs(L),
         NEW r \in Orders, NEW v \in Nat, r.offset = "open"
  PROVE  LET y == Ctx!Release(x, r, v)
         IN /\ y \in Ctxs(L) /\ SameNotices(x, y) /\ y.entries = x.entries
            /\ SamePostion(x, y) /\ SameFrozen(x, y)
            /\ r.code \notin x.entries => y = x
            /\ r.code \in x.entries =>
                 PendingGoes(x, y, r.code, r.direction,
                             Ctx!Minus(x.position[r.code].pending[r.direction], v))
<1> DEFINE y == Ctx!Release(x, r, v)
           n == Ctx!Minus(x.position[r.code].pending[r.direction], v)
           z == SetPending(x, r.code, r.direction, n)
<1>1. r.code \in Codes /\ r.direction \in Dirs /\ "today" \in Buckets
  BY OrderKeys DEF Buckets
<1>2. n \in L
  <2>1. x.position[r.code].pending[r.direction] \in Int
    BY <1>1, LotInt
  <2> QED
    BY <2>1, WrapIn
<1>3. y = IF r.code \notin x.entries THEN x ELSE z
  BY DEF Ctx!Release, SetPending
<1> HIDE DEF n, y
<1>4. /\ z \in Ctxs(L) /\ z.entries = x.entries /\ SameNotices(x, z)
      /\ SamePostion(x, z) /\ SameFrozen(x, z)
      /\ PendingGoes(x, z, r.code, r.direction, n)
  BY <1>1, <1>2, PendingSet
<1> HIDE DEF z
<1>5. SameNotices(x, x) /\ SamePostion(x, x) /\ SameFrozen(x, x)
  BY DEF SameNotices, SamePostion, SameFrozen
<1> QED
  BY <1>3, <1>4, <1>5 DEF n, y

LEMMA ReleaseClose ==
  ASSUME NEW L, Volumetric(L), NEW x \in Ctxs(L),
         NEW r \in Orders, NEW v \in Nat, r.offset # "open"
  PROVE  LET y == Ctx!Release(x, r, v)
             f == x.position[r.code].frozen[BucketOf(r)][r.direction]
         IN /\ y \in Ctxs(L) /\ SameNotices(x, y) /\ y.entries = x.entries
            /\ SamePostion(x, y) /\ SamePending(x, y)
            /\ r.code \notin x.entries => y = x
            /\ r.code \in x.entries =>
                 FrozenGoes(x, y, r.code, BucketOf(r), r.direction,
                            IF f > v THEN f - v ELSE 0)
<1> DEFINE y == Ctx!Release(x, r, v)
           f == x.position[r.code].frozen[BucketOf(r)][r.direction]
           n == IF f > v THEN f - v ELSE 0
           z == SetFrozenLots(x, r.code, BucketOf(r), r.direction, n)
<1>1. r.code \in Codes /\ r.direction \in Dirs /\ BucketOf(r) \in Buckets
  BY OrderKeys
<1>a. f \in L /\ f \in Nat
  BY <1>1, LotInt
<1>3. y = IF r.code \notin x.entries THEN x ELSE z
  BY SameBucket DEF Ctx!Release, SetFrozenLots
<1> HIDE DEF f
<1>2. n \in L
  <2>1. n \in Nat /\ n <= f
    BY <1>a
  <2> HIDE DEF n
  <2>2. \A k \in L, m \in Nat : m <= k => m \in L
    BY DEF Volumetric
  <2> QED
    BY <1>a, <2>1, <2>2
<1> HIDE DEF n, y
<1>4. /\ z \in Ctxs(L) /\ z.entries = x.entries /\ SameNotices(x, z)
      /\ SamePostion(x, z) /\ SamePending(x, z)
      /\ FrozenGoes(x, z, r.code, BucketOf(r), r.direction, n)
  BY <1>1, <1>2, FrozenSet
<1> HIDE DEF z
<1>5. SameNotices(x, x) /\ SamePostion(x, x) /\ SamePending(x, x)
  BY DEF SameNotices, SamePostion, SamePending
<1> QED
  BY <1>3, <1>4, <1>5 DEF f, n, y

\* The lots a deal of r moves, in the order's bucket or, for an opening one,
\* today's.
DealBucket(r) == IF r.offset = "open" THEN "today" ELSE BucketOf(r)

DealtLots(q, r, v) ==
  LET n == q.postion[DealBucket(r)][r.direction]
  IN IF r.offset = "open" THEN Ctx!Plus(n, v) ELSE Ctx!Minus(n, v)

LEMMA DealtOpen ==
  ASSUME NEW L, Volumetric(L), NEW q \in Ledgers(L),
         NEW r \in Orders, NEW v \in Nat, r.offset = "open"
  PROVE  LET p == Ctx!DealtPosition(q, r, v)
         IN /\ p \in Ledgers(L)
            /\ p.frozen = q.frozen
            /\ \A b \in Buckets, d \in Dirs :
                 p.postion[b][d] = IF b = DealBucket(r) /\ d = r.direction
                                   THEN DealtLots(q, r, v) ELSE q.postion[b][d]
            /\ \A d \in Dirs :
                 p.pending[d] = IF d = r.direction THEN Ctx!Minus(q.pending[d], v)
                                ELSE q.pending[d]
<1> DEFINE p == Ctx!DealtPosition(q, r, v)
           d0 == r.direction
           n == Ctx!Plus(q.postion["today"][d0], v)
           m == Ctx!Minus(q.pending[d0], v)
           N == [q.postion EXCEPT !["today"] = [q.postion["today"] EXCEPT ![d0] = n]]
           M == [q.pending EXCEPT ![d0] = m]
<1>1. d0 \in Dirs /\ "today" \in Buckets
  BY OrderKeys DEF Buckets
<1>2. p = [q EXCEPT !.postion = N, !.pending = M]
  BY DEF Ctx!DealtPosition
<1>3. /\ q.postion \in [Buckets -> [Dirs -> L]] /\ q.pending \in [Dirs -> L]
      /\ q.postion["today"][d0] \in L /\ q.pending[d0] \in L
  BY <1>1 DEF Ledgers
<1>4. q.postion["today"][d0] \in Int /\ q.pending[d0] \in Int
  BY <1>3, InNat
<1>5. n \in L /\ m \in L
  BY <1>4, WrapIn
<1>6. DealtLots(q, r, v) = n /\ DealBucket(r) = "today"
  BY DEF DealtLots, DealBucket
<1> HIDE DEF n, m
<1>7. /\ N \in [Buckets -> [Dirs -> L]]
      /\ \A b \in Buckets, d \in Dirs :
           N[b][d] = IF b = "today" /\ d = d0 THEN n ELSE q.postion[b][d]
  BY <1>1, <1>3, <1>5
<1>8. M \in [Dirs -> L] /\ \A d \in Dirs : M[d] = IF d = d0 THEN m ELSE q.pending[d]
  BY <1>1, <1>3, <1>5
<1> HIDE DEF N, M, p
<1>9. p \in Ledgers(L) /\ p.postion = N /\ p.pending = M /\ p.frozen = q.frozen
  BY <1>2, <1>7, <1>8 DEF Ledgers
<1>10. \A b \in Buckets, d \in Dirs :
         p.postion[b][d] = IF b = DealBucket(r) /\ d = r.direction
                           THEN DealtLots(q, r, v) ELSE q.postion[b][d]
  BY <1>6, <1>7, <1>9
<1>11. \A d \in Dirs : p.pending[d] = IF d = r.direction THEN Ctx!Minus(q.pending[d], v)
                                       ELSE q.pending[d]
  BY <1>8, <1>9 DEF m
<1> QED
  BY <1>9, <1>10, <1>11 DEF p

LEMMA DealtClose ==
  ASSUME NEW L, Volumetric(L), NEW q \in Ledgers(L),
         NEW r \in Orders, NEW v \in Nat, r.offset # "open"
  PROVE  LET p == Ctx!DealtPosition(q, r, v)
         IN /\ p \in Ledgers(L)
            /\ p.pending = q.pending
            /\ \A b \in Buckets, d \in Dirs :
                 p.postion[b][d] = IF b = DealBucket(r) /\ d = r.direction
                                   THEN DealtLots(q, r, v) ELSE q.postion[b][d]
            /\ \A b \in Buckets, d \in Dirs :
                 p.frozen[b][d] = IF b = BucketOf(r) /\ d = r.direction
                                  THEN Ctx!Minus(q.frozen[b][d], v) ELSE q.frozen[b][d]
<1> DEFINE p == Ctx!DealtPosition(q, r, v)
           d0 == r.direction
           b0 == BucketOf(r)
           n == Ctx!Minus(q.postion[b0][d0], v)
           m == Ctx!Minus(q.frozen[b0][d0], v)
           N == [q.postion EXCEPT ![b0] = [q.postion[b0] EXCEPT ![d0] = n]]
           M == [q.frozen EXCEPT ![b0] = [q.frozen[b0] EXCEPT ![d0] = m]]
<1>1. d0 \in Dirs /\ b0 \in Buckets
  BY OrderKeys
<1>2. p = [q EXCEPT !.postion = N, !.frozen = M]
  BY SameBucket DEF Ctx!DealtPosition
<1> HIDE DEF b0
<1>3. /\ q.postion \in [Buckets -> [Dirs -> L]] /\ q.frozen \in [Buckets -> [Dirs -> L]]
      /\ q.postion[b0][d0] \in L /\ q.frozen[b0][d0] \in L
  BY <1>1 DEF Ledgers
<1>4. q.postion[b0][d0] \in Int /\ q.frozen[b0][d0] \in Int
  BY <1>3, InNat
<1>5. n \in L /\ m \in L
  BY <1>4, WrapIn
<1>6. DealtLots(q, r, v) = n /\ DealBucket(r) = b0
  BY DEF DealtLots, DealBucket, b0
<1> HIDE DEF n, m
<1>7. /\ N \in [Buckets -> [Dirs -> L]]
      /\ \A b \in Buckets, d \in Dirs :
           N[b][d] = IF b = b0 /\ d = d0 THEN n ELSE q.postion[b][d]
  BY <1>1, <1>3, <1>5
<1>8. /\ M \in [Buckets -> [Dirs -> L]]
      /\ \A b \in Buckets, d \in Dirs :
           M[b][d] = IF b = b0 /\ d = d0 THEN m ELSE q.frozen[b][d]
  BY <1>1, <1>3, <1>5
<1> HIDE DEF N, M, p
<1>9. p \in Ledgers(L) /\ p.postion = N /\ p.frozen = M /\ p.pending = q.pending
  BY <1>2, <1>7, <1>8 DEF Ledgers
<1>10. \A b \in Buckets, d \in Dirs :
         p.postion[b][d] = IF b = DealBucket(r) /\ d = r.direction
                           THEN DealtLots(q, r, v) ELSE q.postion[b][d]
  BY <1>6, <1>7, <1>9
<1>11. \A b \in Buckets, d \in Dirs :
         p.frozen[b][d] = IF b = b0 /\ d = r.direction
                          THEN Ctx!Minus(q.frozen[b][d], v) ELSE q.frozen[b][d]
  BY <1>8, <1>9 DEF m
<1> QED
  BY <1>9, <1>10, <1>11 DEF p, b0

\* What a deal makes of the books: when nothing is left in an entry it goes,
\* and what it had frozen with it.
LEMMA Calculated ==
  ASSUME NEW L, Volumetric(L), NEW x \in Ctxs(L), NEW r \in Orders, NEW v \in Nat
  PROVE  LET y == Ctx!CalculatePosition(x, r, v)
             q == x.position[r.code]
         IN /\ y \in Ctxs(L) /\ SameNotices(x, y)
            /\ y.entries \in {x.entries \ {r.code}, x.entries \cup {r.code}}
            /\ r.code \notin y.entries => y.position[r.code] = Ctx!NoPosition
            /\ \A c \in Codes \ {r.code} : y.position[c] = x.position[c]
            /\ PostionGoes(x, y, r.code, DealBucket(r), r.direction, DealtLots(q, r, v))
            /\ r.offset = "open" =>
                 /\ PendingGoes(x, y, r.code, r.direction,
                                Ctx!Minus(q.pending[r.direction], v))
                 /\ r.code \in y.entries => SameFrozen(x, y)
            /\ r.offset # "open" =>
                 /\ SamePending(x, y)
                 /\ r.code \in y.entries =>
                      FrozenGoes(x, y, r.code, BucketOf(r), r.direction,
                                 Ctx!Minus(q.frozen[BucketOf(r)][r.direction], v))
<1> DEFINE y == Ctx!CalculatePosition(x, r, v)
           q == x.position[r.code]
           p == Ctx!DealtPosition(q, r, v)
           e == Ctx!IsEmpty(p)
           z == IF e THEN Ctx!NoPosition ELSE p
           Z == [x.position EXCEPT ![r.code] = z]
           E == IF e THEN x.entries \ {r.code} ELSE x.entries \cup {r.code}
<1>1. r.code \in Codes /\ r.direction \in Dirs /\ BucketOf(r) \in Buckets
  BY OrderKeys
<1>2. q \in Ledgers(L)
  BY <1>1 DEF Ctxs
<1>3. y = [x EXCEPT !.position = Z, !.entries = E]
  BY DEF Ctx!CalculatePosition
<1>4. e => /\ p.postion = Ctx!NoPosition.postion
           /\ p.pending = Ctx!NoPosition.pending
  <2>1. /\ Ctx!NoPosition.postion = Ctx!Zero
        /\ Ctx!NoPosition.pending = [d \in Ctx!Dirs |-> 0]
    BY DEF Ctx!NoPosition
  <2> QED
    BY <2>1 DEF Ctx!IsEmpty
<1>5. p \in Ledgers(L)
  BY <1>2, DealtOpen, DealtClose
<1> HIDE DEF p, e
<1>6. z \in Ledgers(L) /\ z.postion = p.postion /\ z.pending = p.pending
  BY <1>4, <1>5, ZeroIs
<1>7. (e => z = Ctx!NoPosition) /\ (~e => z = p)
  OBVIOUS
<1> HIDE DEF z
<1>8. /\ Z \in [Codes -> Ledgers(L)] /\ Z[r.code] = z
      /\ \A c \in Codes \ {r.code} : Z[c] = x.position[c]
  BY <1>1, <1>6 DEF Ctxs
<1>9. (r.code \in E <=> ~e) /\ E \in {x.entries \ {r.code}, x.entries \cup {r.code}}
  OBVIOUS
<1>10. E \subseteq Codes
  BY <1>1, <1>9 DEF Ctxs
<1> HIDE DEF Z, E, y
<1>11. /\ y \in Ctxs(L) /\ y.position = Z /\ y.entries = E
       /\ y.order = x.order /\ y.listener = x.listener /\ y.condition = x.condition
  BY <1>3, <1>8, <1>10 DEF Ctxs
<1>12. SameNotices(x, y)
  BY <1>11 DEF SameNotices
<1>13. PostionGoes(x, y, r.code, DealBucket(r), r.direction, DealtLots(q, r, v))
  <2> SUFFICES ASSUME NEW c \in Codes, NEW b \in Buckets, NEW d \in Dirs
               PROVE  y.position[c].postion[b][d] =
                        IF c = r.code /\ b = DealBucket(r) /\ d = r.direction
                        THEN DealtLots(q, r, v) ELSE x.position[c].postion[b][d]
    BY DEF PostionGoes
  <2>1. p.postion[b][d] = IF b = DealBucket(r) /\ d = r.direction
                          THEN DealtLots(q, r, v) ELSE q.postion[b][d]
    <3> HIDE DEF q
    <3>1. CASE r.offset = "open"
      BY <1>2, <3>1, DealtOpen DEF p
    <3>2. CASE r.offset # "open"
      BY <1>2, <3>2, DealtClose DEF p
    <3> QED
      BY <3>1, <3>2
  <2>2. CASE c = r.code
    BY <1>6, <1>8, <1>11, <2>1, <2>2
  <2>3. CASE c # r.code
    BY <1>8, <1>11, <2>3
  <2> QED
    BY <2>2, <2>3
<1>14. r.offset = "open" =>
         /\ PendingGoes(x, y, r.code, r.direction, Ctx!Minus(q.pending[r.direction], v))
         /\ r.code \in y.entries => SameFrozen(x, y)
  <2> SUFFICES ASSUME r.offset = "open", NEW c \in Codes
               PROVE  /\ \A d \in Dirs : y.position[c].pending[d] =
                           IF c = r.code /\ d = r.direction
                           THEN Ctx!Minus(q.pending[r.direction], v)
                           ELSE x.position[c].pending[d]
                      /\ r.code \in y.entries =>
                           \A b \in Buckets, d \in Dirs :
                             y.position[c].frozen[b][d] = x.position[c].frozen[b][d]
    BY DEF PendingGoes, SameFrozen
  <2>1. /\ p.frozen = q.frozen
        /\ \A d \in Dirs : p.pending[d] = IF d = r.direction
                                          THEN Ctx!Minus(q.pending[d], v)
                                          ELSE q.pending[d]
    <3> HIDE DEF q
    <3> QED
      BY <1>2, DealtOpen DEF p
  <2>2. CASE c = r.code
    BY <1>6, <1>7, <1>8, <1>9, <1>11, <2>1, <2>2
  <2>3. CASE c # r.code
    BY <1>8, <1>11, <2>3
  <2> QED
    BY <2>2, <2>3
<1>15. r.offset # "open" =>
         /\ SamePending(x, y)
         /\ r.code \in y.entries =>
              FrozenGoes(x, y, r.code, BucketOf(r), r.direction,
                         Ctx!Minus(q.frozen[BucketOf(r)][r.direction], v))
  <2> SUFFICES ASSUME r.offset # "open", NEW c \in Codes
               PROVE  /\ \A d \in Dirs : y.position[c].pending[d] = x.position[c].pending[d]
                      /\ r.code \in y.entries =>
                           \A b \in Buckets, d \in Dirs :
                             y.position[c].frozen[b][d] =
                               IF c = r.code /\ b = BucketOf(r) /\ d = r.direction
                               THEN Ctx!Minus(q.frozen[BucketOf(r)][r.direction], v)
                               ELSE x.position[c].frozen[b][d]
    BY DEF SamePending, FrozenGoes
  <2>1. /\ p.pending = q.pending
        /\ \A b \in Buckets, d \in Dirs :
             p.frozen[b][d] = IF b = BucketOf(r) /\ d = r.direction
                              THEN Ctx!Minus(q.frozen[b][d], v) ELSE q.frozen[b][d]
    <3> HIDE DEF q
    <3> QED
      BY <1>2, DealtClose DEF p
  <2>2. CASE c = r.code
    BY <1>6, <1>7, <1>8, <1>9, <1>11, <2>1, <2>2
  <2>3. CASE c # r.code
    BY <1>8, <1>11, <2>3
  <2> QED
    BY <2>2, <2>3
<1>16. r.code \notin y.entries => y.position[r.code] = Ctx!NoPosition
  BY <1>7, <1>8, <1>9, <1>11
<1>17. \A c \in Codes \ {r.code} : y.position[c] = x.position[c]
  BY <1>8, <1>11
<1> QED
  BY <1>9, <1>11, <1>12, <1>13, <1>14, <1>15, <1>16, <1>17 DEF y

-----------------------------------------------------------------------------
(* The handlers *)

SameBooks(x, y) == y.position = x.position /\ y.entries = x.entries

OrderGoes(x, y, o, n) == y.order = [x.order EXCEPT ![o] = n]

SameEars(x, y) == y.listener = x.listener /\ y.condition = x.condition

\* The context's order o becomes n, Unknown when it forgets the order.
SetOrder(x, o, n) == [x EXCEPT !.order[o] = n]

LEMMA OrderSet ==
  ASSUME NEW L, NEW x \in Ctxs(L), NEW o \in Ids, NEW n \in Nat \cup {Ctx!Unknown}
  PROVE  LET y == SetOrder(x, o, n)
         IN /\ y \in Ctxs(L) /\ SameBooks(x, y) /\ SameEars(x, y)
            /\ OrderGoes(x, y, o, n)
<1> DEFINE y == SetOrder(x, o, n)
           O == [x.order EXCEPT ![o] = n]
<1>1. y = [x EXCEPT !.order = O]
  BY DEF SetOrder
<1>2. O \in [Ids -> Nat \cup {Ctx!Unknown}]
  BY DEF Ctxs
<1> HIDE DEF O, y
<1>3. /\ y \in Ctxs(L) /\ y.order = O /\ y.position = x.position
      /\ y.entries = x.entries /\ y.listener = x.listener /\ y.condition = x.condition
  BY <1>1, <1>2 DEF Ctxs
<1> QED
  BY <1>3 DEF SameBooks, SameEars, OrderGoes, O, y

LEMMA ForgetIs ==
  ASSUME NEW L, NEW x \in Ctxs(L), NEW o \in Ids
  PROVE  LET y == Ctx!Forget(x, o)
         IN /\ y \in Ctxs(L) /\ SameBooks(x, y) /\ y.order = x.order
            /\ y.listener = x.listener \ {o}
            /\ y.condition = [x.condition EXCEPT ![o] = "none"]
<1> DEFINE y == Ctx!Forget(x, o)
           l == x.listener \ {o}
           w == [x.condition EXCEPT ![o] = "none"]
<1>1. y = [x EXCEPT !.listener = l, !.condition = w]
  BY DEF Ctx!Forget
<1>2. l \subseteq Ids /\ w \in [Ids -> Wishes]
  BY DEF Ctxs, Wishes
<1> HIDE DEF l, w, y
<1>3. /\ y \in Ctxs(L) /\ y.order = x.order /\ y.position = x.position
      /\ y.entries = x.entries /\ y.listener = l /\ y.condition = w
  BY <1>1, <1>2 DEF Ctxs
<1> QED
  BY <1>3 DEF SameBooks, l, w, y

\* An order that ended: the context knows it no more.
Ended(x, y, o) ==
  /\ y.order = [x.order EXCEPT ![o] = Ctx!Unknown]
  /\ y.listener = x.listener \ {o}
  /\ y.condition = [x.condition EXCEPT ![o] = "none"]

\* An order that goes on, with n lots left.
GoesOn(x, y, o, n) ==
  y.order = [x.order EXCEPT ![o] = n] /\ SameEars(x, y)

LEMMA TradeIs ==
  ASSUME NEW L, NEW x \in Ctxs(L), NEW o \in Ids, NEW e, e.id = o
  PROVE  LET y == Ctx!HandleTrade(x, e)
         IN y \in Ctxs(L) /\ SameBooks(x, y) /\ Ended(x, y, o)
<1> DEFINE z == SetOrder(x, o, Ctx!Unknown)
           y == Ctx!Forget(z, o)
<1>0. Ctx!Unknown \in Nat \cup {Ctx!Unknown}
  OBVIOUS
<1>1. Ctx!HandleTrade(x, e) = y
  BY DEF Ctx!HandleTrade, SetOrder
<1> HIDE DEF y
<1>2. /\ z \in Ctxs(L) /\ SameBooks(x, z) /\ SameEars(x, z)
      /\ OrderGoes(x, z, o, Ctx!Unknown)
  BY <1>0, OrderSet
<1> HIDE DEF z
<1> USE DEF y
<1>3. /\ y \in Ctxs(L) /\ SameBooks(z, y) /\ y.order = z.order
      /\ y.listener = z.listener \ {o}
      /\ y.condition = [z.condition EXCEPT ![o] = "none"]
  BY <1>2, ForgetIs
<1> HIDE DEF y
<1> QED
  BY <1>1, <1>2, <1>3 DEF SameBooks, SameEars, OrderGoes, Ended

LEMMA ErrorIs ==
  ASSUME NEW L, NEW x \in Ctxs(L), NEW o \in Ids, NEW e, e.id = o
  PROVE  LET y == Ctx!HandleError(x, e)
         IN y \in Ctxs(L) /\ SameBooks(x, y) /\ Ended(x, y, o)
<1>1. Ctx!HandleError(x, e) = Ctx!HandleTrade(x, e)
  BY DEF Ctx!HandleTrade, Ctx!HandleError
<1> QED
  BY <1>1, TradeIs

\* The books after an entrust, a deal and a cancel are those of the
\* bookkeeping above.
LEMMA EntrustIs ==
  ASSUME NEW L, Volumetric(L), NEW x \in Ctxs(L), NEW o \in Ids,
         NEW r \in Orders, NEW e, e.id = o
  PROVE  \E z \in Ctxs(L) :
           LET y == Ctx!HandleEntrust(x, e, r)
           IN /\ SameBooks(x, z) /\ y = Ctx!Reserve(z, r, r.total)
              /\ y \in Ctxs(L) /\ GoesOn(x, y, o, r.total)
<1> DEFINE z == SetOrder(x, o, r.total)
           y == Ctx!Reserve(z, r, r.total)
<1>0. r.total \in Nat
  BY DEF Orders
<1>1. Ctx!HandleEntrust(x, e, r) = y
  BY DEF Ctx!HandleEntrust, Ctx!Entrust, SetOrder
<1>2. /\ z \in Ctxs(L) /\ SameBooks(x, z) /\ SameEars(x, z)
      /\ OrderGoes(x, z, o, r.total)
  BY <1>0, OrderSet
<1> HIDE DEF z
<1>3. y \in Ctxs(L) /\ SameNotices(z, y)
  BY <1>0, <1>2, ReserveOpen, ReserveClose
<1>4. GoesOn(x, y, o, r.total)
  <2> HIDE DEF y
  <2> QED
    BY <1>2, <1>3 DEF SameNotices, SameEars, OrderGoes, GoesOn
<1> QED
  BY <1>1, <1>2, <1>3, <1>4

LEMMA DealIs ==
  ASSUME NEW L, Volumetric(L), NEW x \in Ctxs(L), NEW o \in Ids,
         NEW r \in Orders, NEW v \in Nat, NEW e, e.id = o, e.volume = v, Ctx!Knows(x, o)
  PROVE  \E z \in Ctxs(L) :
           LET y == Ctx!HandleDeal(x, e, r)
           IN /\ SameBooks(x, z) /\ y = Ctx!CalculatePosition(z, r, v)
              /\ y \in Ctxs(L) /\ GoesOn(x, y, o, r.last)
<1> DEFINE z == SetOrder(x, o, r.last)
           y == Ctx!CalculatePosition(z, r, v)
<1>0. r.last \in Nat
  BY DEF Orders
<1>1. Ctx!HandleDeal(x, e, r) = y
  BY DEF Ctx!HandleDeal, SetOrder
<1>2. /\ z \in Ctxs(L) /\ SameBooks(x, z) /\ SameEars(x, z)
      /\ OrderGoes(x, z, o, r.last)
  BY <1>0, OrderSet
<1> HIDE DEF z
<1>3. y \in Ctxs(L) /\ SameNotices(z, y)
  BY <1>0, <1>2, Calculated
<1>4. GoesOn(x, y, o, r.last)
  <2> HIDE DEF y
  <2> QED
    BY <1>2, <1>3 DEF SameNotices, SameEars, OrderGoes, GoesOn
<1> QED
  BY <1>1, <1>2, <1>3, <1>4

LEMMA CancelIs ==
  ASSUME NEW L, Volumetric(L), NEW x \in Ctxs(L), NEW o \in Ids,
         NEW r \in Orders, NEW v \in Nat, NEW e, e.id = o, e.volume = v, Ctx!Knows(x, o)
  PROVE  LET y == Ctx!HandleCancel(x, e, r)
         IN y \in Ctxs(L) /\ SameBooks(Ctx!Release(x, r, v), y) /\ Ended(x, y, o)
<1> DEFINE w == Ctx!Release(x, r, v)
           z == SetOrder(w, o, Ctx!Unknown)
           y == Ctx!Forget(z, o)
<1>1. Ctx!HandleCancel(x, e, r) = y
  BY DEF Ctx!HandleCancel, SetOrder
<1>2. w \in Ctxs(L) /\ SameNotices(x, w)
  BY ReleaseOpen, ReleaseClose
<1> HIDE DEF w
<1>3. /\ z \in Ctxs(L) /\ SameBooks(w, z) /\ SameEars(w, z)
      /\ OrderGoes(w, z, o, Ctx!Unknown)
  BY <1>2, OrderSet
<1> HIDE DEF z
<1>4. /\ y \in Ctxs(L) /\ SameBooks(z, y) /\ y.order = z.order
      /\ y.listener = z.listener \ {o}
      /\ y.condition = [z.condition EXCEPT ![o] = "none"]
  BY <1>3, ForgetIs
<1> HIDE DEF y
<1>5. SameBooks(w, y) /\ Ended(x, y, o)
  BY <1>2, <1>3, <1>4 DEF SameNotices, SameBooks, SameEars, OrderGoes, Ended
<1> QED
  BY <1>1, <1>4, <1>5 DEF w

-----------------------------------------------------------------------------
(* All the events of one handler of the trader *)

LEMMA Handle0 == ASSUME NEW x, NEW r PROVE Ctx!HandleAll(x, <<>>, r) = x
BY DEF Ctx!HandleAll

LEMMA Handle1 ==
  ASSUME NEW x, NEW r, NEW a PROVE Ctx!HandleAll(x, <<a>>, r) = Ctx!Handle(x, a, r)
BY DEF Ctx!HandleAll

LEMMA Handle2 ==
  ASSUME NEW x, NEW r, NEW a, NEW b
  PROVE  Ctx!HandleAll(x, <<a, b>>, r) = Ctx!Handle(Ctx!Handle(x, a, r), b, r)
BY DEF Ctx!HandleAll

LEMMA Handle3 ==
  ASSUME NEW x, NEW r, NEW a, NEW b, NEW c
  PROVE  Ctx!HandleAll(x, <<a, b, c>>, r)
           = Ctx!Handle(Ctx!Handle(Ctx!Handle(x, a, r), b, r), c, r)
BY DEF Ctx!HandleAll

LEMMA HandlesEvent ==
  ASSUME NEW x, NEW r, NEW o, NEW v
  PROVE  LET event(type) == Event(type, o, v)
         IN /\ \A type : event(type).id = o /\ event(type).volume = v
            /\ Ctx!Handle(x, event("OrderPlace"), r)
                 = Ctx!HandleEntrust(x, event("OrderPlace"), r)
            /\ Ctx!Handle(x, event("OrderDeal"), r)
                 = Ctx!HandleDeal(x, event("OrderDeal"), r)
            /\ Ctx!Handle(x, event("OrderTrade"), r)
                 = Ctx!HandleTrade(x, event("OrderTrade"))
            /\ Ctx!Handle(x, event("OrderCancel"), r)
                 = Ctx!HandleCancel(x, event("OrderCancel"), r)
            /\ Ctx!Handle(x, event("OrderError"), r)
                 = Ctx!HandleError(x, event("OrderError"))
BY DEF Event, Ctx!Handle

\* Matching delivers in this order what there is of a place, a deal, a trade
\* and a cancel; of the last two there is at most one.
AfterPlace(x, o, r, new) ==
  IF new THEN Ctx!HandleEntrust(x, Event("OrderPlace", o, r.total), r) ELSE x

AfterDeal(x, o, r, d) ==
  IF d > 0 THEN Ctx!HandleDeal(x, Event("OrderDeal", o, d), r) ELSE x

AfterEnd(x, o, r, traded0, kill) ==
  IF traded0 THEN Ctx!HandleTrade(x, Event("OrderTrade", o, r.total))
  ELSE IF kill THEN Ctx!HandleCancel(x, Event("OrderCancel", o, r.last), r) ELSE x

LEMMA HandleMatched ==
  ASSUME NEW new \in BOOLEAN, NEW kill \in BOOLEAN, NEW full \in BOOLEAN,
         NEW o, NEW r, NEW x, NEW d \in Nat, full => d > 0, ~(full /\ kill)
  PROVE  Ctx!HandleAll(x, (IF new THEN <<Event("OrderPlace", o, r.total)>> ELSE <<>>)
                          \o (IF d > 0 THEN <<Event("OrderDeal", o, d)>> ELSE <<>>)
                          \o (IF full THEN <<Event("OrderTrade", o, r.total)>> ELSE <<>>)
                          \o (IF kill THEN <<Event("OrderCancel", o, r.last)>> ELSE <<>>),
                       r)
         = AfterEnd(AfterDeal(AfterPlace(x, o, r, new), o, r, d), o, r, full, kill)
<1> DEFINE p == Event("OrderPlace", o, r.total)
           e == Event("OrderDeal", o, d)
           t == Event("OrderTrade", o, r.total)
           c == Event("OrderCancel", o, r.last)
           events == (IF new THEN <<p>> ELSE <<>>) \o (IF d > 0 THEN <<e>> ELSE <<>>)
                     \o (IF full THEN <<t>> ELSE <<>>) \o (IF kill THEN <<c>> ELSE <<>>)
           x1 == AfterPlace(x, o, r, new)
           x2 == AfterDeal(x1, o, r, d)
           x3 == AfterEnd(x2, o, r, full, kill)
<1>1. new => x1 = Ctx!Handle(x, p, r)
  BY HandlesEvent DEF AfterPlace
<1>2. ~new => x1 = x
  BY DEF AfterPlace
<1>3. d > 0 => x2 = Ctx!Handle(x1, e, r)
  BY HandlesEvent DEF AfterDeal
<1>4. ~(d > 0) => x2 = x1
  BY DEF AfterDeal
<1>5. full => x3 = Ctx!Handle(x2, t, r)
  BY HandlesEvent DEF AfterEnd
<1>6. kill => x3 = Ctx!Handle(x2, c, r)
  BY HandlesEvent DEF AfterEnd
<1>7. ~full /\ ~kill => x3 = x2
  BY DEF AfterEnd
<1> SUFFICES Ctx!HandleAll(x, events, r) = x3
  OBVIOUS
<1> HIDE DEF p, e, t, c, x1, x2, x3
<1>8. CASE ~(d > 0) /\ ~kill
  <2>1. CASE new
    <3>1. events = <<p>> \o <<>> \o <<>> \o <<>>
      BY <1>8, <2>1
    <3>2. events = <<p>>
      BY <3>1, Join1
    <3> HIDE DEF events
    <3> QED
      BY <3>2, <1>8, <2>1, Handle1, <1>1, <1>4, <1>7
  <2>2. CASE ~new
    <3>1. events = <<>> \o <<>> \o <<>> \o <<>>
      BY <1>8, <2>2
    <3>2. events = <<>>
      BY <3>1, Join0
    <3> HIDE DEF events
    <3> QED
      BY <3>2, <1>8, <2>2, Handle0, <1>2, <1>4, <1>7
  <2> QED
    BY <2>1, <2>2
<1>9. CASE ~(d > 0) /\ kill
  <2>1. CASE new
    <3>1. events = <<p>> \o <<>> \o <<>> \o <<c>>
      BY <1>9, <2>1
    <3>2. events = <<p, c>>
      BY <3>1, Join2
    <3> HIDE DEF events
    <3> QED
      BY <3>2, <1>9, <2>1, Handle2, <1>1, <1>4, <1>6
  <2>2. CASE ~new
    <3>1. events = <<>> \o <<>> \o <<>> \o <<c>>
      BY <1>9, <2>2
    <3>2. events = <<c>>
      BY <3>1, Join1
    <3> HIDE DEF events
    <3> QED
      BY <3>2, <1>9, <2>2, Handle1, <1>2, <1>4, <1>6
  <2> QED
    BY <2>1, <2>2
<1>10. CASE d > 0 /\ full
  <2>1. CASE new
    <3>1. events = <<p>> \o <<e>> \o <<t>> \o <<>>
      BY <1>10, <2>1
    <3>2. events = <<p, e, t>>
      BY <3>1, Join3
    <3> HIDE DEF events
    <3> QED
      BY <3>2, <1>10, <2>1, Handle3, <1>1, <1>3, <1>5
  <2>2. CASE ~new
    <3>1. events = <<>> \o <<e>> \o <<t>> \o <<>>
      BY <1>10, <2>2
    <3>2. events = <<e, t>>
      BY <3>1, Join2
    <3> HIDE DEF events
    <3> QED
      BY <3>2, <1>10, <2>2, Handle2, <1>2, <1>3, <1>5
  <2> QED
    BY <2>1, <2>2
<1>11. CASE d > 0 /\ ~full /\ kill
  <2>1. CASE new
    <3>1. events = <<p>> \o <<e>> \o <<>> \o <<c>>
      BY <1>11, <2>1
    <3>2. events = <<p, e, c>>
      BY <3>1, Join3
    <3> HIDE DEF events
    <3> QED
      BY <3>2, <1>11, <2>1, Handle3, <1>1, <1>3, <1>6
  <2>2. CASE ~new
    <3>1. events = <<>> \o <<e>> \o <<>> \o <<c>>
      BY <1>11, <2>2
    <3>2. events = <<e, c>>
      BY <3>1, Join2
    <3> HIDE DEF events
    <3> QED
      BY <3>2, <1>11, <2>2, Handle2, <1>2, <1>3, <1>6
  <2> QED
    BY <2>1, <2>2
<1>12. CASE d > 0 /\ ~full /\ ~kill
  <2>1. CASE new
    <3>1. events = <<p>> \o <<e>> \o <<>> \o <<>>
      BY <1>12, <2>1
    <3>2. events = <<p, e>>
      BY <3>1, Join2
    <3> HIDE DEF events
    <3> QED
      BY <3>2, <1>12, <2>1, Handle2, <1>1, <1>3, <1>7
  <2>2. CASE ~new
    <3>1. events = <<>> \o <<e>> \o <<>> \o <<>>
      BY <1>12, <2>2
    <3>2. events = <<e>>
      BY <3>1, Join1
    <3> HIDE DEF events
    <3> QED
      BY <3>2, <1>12, <2>2, Handle1, <1>2, <1>3, <1>7
  <2> QED
    BY <2>1, <2>2
<1> QED
  BY <1>8, <1>9, <1>10, <1>11, <1>12

LEMMA GoesOnTwice ==
  ASSUME NEW L, NEW x \in Ctxs(L), NEW y, NEW z, NEW o \in Ids, NEW n, NEW m,
         GoesOn(x, y, o, n)
  PROVE  /\ GoesOn(y, z, o, m) => GoesOn(x, z, o, m)
         /\ Ended(y, z, o) => Ended(x, z, o)
BY DEF GoesOn, SameEars, Ended, Ctxs

LEMMA KnowsOn ==
  ASSUME NEW L, NEW x \in Ctxs(L), NEW y, NEW o \in Ids, NEW n \in Nat,
         GoesOn(x, y, o, n)
  PROVE  Ctx!Knows(y, o) /\ y.order[o] = n
BY DEF GoesOn, Ctxs, Ctx!Knows, Ctx!Unknown

LEMMA KnownNat ==
  ASSUME NEW L, NEW x \in Ctxs(L), NEW o \in Ids, Ctx!Knows(x, o)
  PROVE  x.order[o] \in Nat /\ GoesOn(x, x, o, x.order[o])
<1>1. x.order \in [Ids -> Nat \cup {Ctx!Unknown}] /\ x.order[o] # Ctx!Unknown
  BY DEF Ctxs, Ctx!Knows
<1> QED
  BY <1>1 DEF GoesOn, SameEars

LEMMA AfterPlaceIs ==
  ASSUME NEW L, Volumetric(L), NEW x \in Ctxs(L), NEW o \in Ids, NEW r \in Orders,
         NEW new \in BOOLEAN, new \/ Ctx!Knows(x, o)
  PROVE  LET y == AfterPlace(x, o, r, new)
             n == IF new THEN r.total ELSE x.order[o]
         IN y \in Ctxs(L) /\ n \in Nat /\ GoesOn(x, y, o, n)
<1>1. CASE new
  <2>1. r.total \in Nat
    BY DEF Orders
  <2> DEFINE e == Event("OrderPlace", o, r.total)
  <2>2. e.id = o
    BY DEF Event
  <2> HIDE DEF e
  <2>3. Ctx!HandleEntrust(x, e, r) \in Ctxs(L)
        /\ GoesOn(x, Ctx!HandleEntrust(x, e, r), o, r.total)
    BY <2>2, EntrustIs
  <2> QED
    BY <1>1, <2>1, <2>3 DEF AfterPlace, e
<1>2. CASE ~new
  BY <1>2, KnownNat DEF AfterPlace
<1> QED
  BY <1>1, <1>2

LEMMA AfterDealIs ==
  ASSUME NEW L, Volumetric(L), NEW x \in Ctxs(L), NEW o \in Ids, NEW r \in Orders,
         NEW d \in Nat, Ctx!Knows(x, o)
  PROVE  LET y == AfterDeal(x, o, r, d)
             n == IF d > 0 THEN r.last ELSE x.order[o]
         IN y \in Ctxs(L) /\ n \in Nat /\ GoesOn(x, y, o, n)
<1>1. CASE d > 0
  <2>1. r.last \in Nat
    BY DEF Orders
  <2> DEFINE e == Event("OrderDeal", o, d)
  <2>2. e.id = o /\ e.volume = d
    BY DEF Event
  <2> HIDE DEF e
  <2>3. Ctx!HandleDeal(x, e, r) \in Ctxs(L)
        /\ GoesOn(x, Ctx!HandleDeal(x, e, r), o, r.last)
    BY <2>2, DealIs
  <2> QED
    BY <1>1, <2>1, <2>3 DEF AfterDeal, e
<1>2. CASE ~(d > 0)
  BY <1>2, KnownNat DEF AfterDeal
<1> QED
  BY <1>1, <1>2

LEMMA AfterEndIs ==
  ASSUME NEW L, Volumetric(L), NEW x \in Ctxs(L), NEW o \in Ids, NEW r \in Orders,
         NEW full \in BOOLEAN, NEW kill \in BOOLEAN, Ctx!Knows(x, o)
  PROVE  LET y == AfterEnd(x, o, r, full, kill)
         IN /\ y \in Ctxs(L)
            /\ full \/ kill => Ended(x, y, o)
            /\ ~full /\ ~kill => y = x
            /\ full \/ ~kill => SameBooks(x, y)
            /\ ~full /\ kill => SameBooks(Ctx!Release(x, r, r.last), y)
<1>1. CASE full
  <2> DEFINE e == Event("OrderTrade", o, r.total)
  <2>2. e.id = o
    BY DEF Event
  <2> HIDE DEF e
  <2>3. Ctx!HandleTrade(x, e) \in Ctxs(L) /\ SameBooks(x, Ctx!HandleTrade(x, e))
        /\ Ended(x, Ctx!HandleTrade(x, e), o)
    BY <2>2, TradeIs
  <2> QED
    BY <1>1, <2>3 DEF AfterEnd, e
<1>2. CASE ~full /\ kill
  <2>1. r.last \in Nat
    BY DEF Orders
  <2> DEFINE e == Event("OrderCancel", o, r.last)
  <2>2. e.id = o /\ e.volume = r.last
    BY DEF Event
  <2> HIDE DEF e
  <2>3. Ctx!HandleCancel(x, e, r) \in Ctxs(L)
        /\ SameBooks(Ctx!Release(x, r, r.last), Ctx!HandleCancel(x, e, r))
        /\ Ended(x, Ctx!HandleCancel(x, e, r), o)
    BY <2>1, <2>2, CancelIs
  <2> QED
    BY <1>2, <2>3 DEF AfterEnd, e
<1>3. CASE ~full /\ ~kill
  BY <1>3 DEF AfterEnd, SameBooks
<1> QED
  BY <1>1, <1>2, <1>3

\* What the context makes of the events of a match of o.
Remainder(o) == [order[o] EXCEPT !.last = Rest(o)]

Placed(o) == AfterPlace(ctx, o, Remainder(o), New(o))
Dealing(o) == AfterDeal(Placed(o), o, Remainder(o), Decided(o).deal)
Matched0(o) == AfterEnd(Dealing(o), o, Remainder(o), Rest(o) = 0, Killed(o))

LEMMA MatchHandled ==
  ASSUME IInv, LInv, NEW o \in loop.todo, state[o] \in {"INVALID", "IN_MATCH"},
         MatchOrder(o)
  PROVE  /\ o \in Ids /\ Remainder(o) \in Orders /\ Remainder(o).last = Rest(o)
         /\ Decided(o).deal \in Nat /\ Rest(o) \in Nat
         /\ Decided(o).deal = order[o].last - Rest(o)
         /\ Killed(o) \in BOOLEAN /\ (Killed(o) => Rest(o) # 0)
         /\ order'[o] = Remainder(o)
         /\ Ctx!HandleAll(ctx, fired', Remainder(o)) = Matched0(o)
<1> DEFINE r     == order[o]
           t     == tick[loop.code]
           new   == state[o] = "INVALID"
           begin == IF new THEN Freeze(Book, r) ELSE Book
           queue == IF new THEN QueueAhead(r, t) ELSE seat[o]
           m     == Match(r, t, loop.volume, queue)
           rest  == [r EXCEPT !.last = @ - m.deal]
           dealt == Dealt(begin, r, m.deal)
           full  == m.deal > 0 /\ rest.last = 0
           kill  == m.kill /\ rest.last > 0
           book  == IF kill THEN Unfreeze(dealt, rest) ELSE dealt
           next  == IF full \/ kill THEN "DELETE" ELSE "IN_MATCH"
           events ==
             (IF new THEN <<Event("OrderPlace", o, r.total)>> ELSE <<>>)
             \o (IF m.deal > 0 THEN <<Event("OrderDeal", o, m.deal)>> ELSE <<>>)
             \o (IF full THEN <<Event("OrderTrade", o, r.total)>> ELSE <<>>)
             \o (IF kill THEN <<Event("OrderCancel", o, rest.last)>> ELSE <<>>)
<1>1. o \in Ids /\ r \in Orders
  BY VisitedTyped
<1>2. r.last > 0
  BY <1>1 DEF LInv
<1>3. m \in Matches(r)
  BY VisitedTyped, QueueAheadNat, MatchTyped
<1>4. m.deal \in 0..r.last /\ m.kill \in BOOLEAN /\ r.last \in Nat
  BY <1>1, <1>3 DEF Matches, Orders
<1>5. Decided(o) = m
  BY DEF Decided
<1> HIDE DEF m
<1>6. /\ Rest(o) = r.last - m.deal /\ Rest(o) \in Nat
      /\ rest = Remainder(o) /\ rest.last = Rest(o) /\ rest.total = r.total
      /\ rest \in Orders
  BY <1>1, <1>4, <1>5 DEF Orders, Rest, Remainder
<1>7. new \in BOOLEAN /\ kill \in BOOLEAN /\ kill = Killed(o) /\ new = New(o)
  BY <1>4, <1>5, <1>6 DEF Killed, New
<1> DEFINE done == Rest(o) = 0
<1>8. (full <=> done) /\ (Killed(o) => ~done) /\ (done => m.deal > 0) /\ done \in BOOLEAN
  <2>1. done => m.deal > 0
    BY <1>2, <1>4, <1>6
  <2>2. Killed(o) => ~done
    BY DEF Killed
  <2>3. rest.last = Rest(o)
    BY <1>6
  <2> HIDE DEF rest
  <2> QED
    BY <2>1, <2>2, <2>3
<1>9. Leave(o, book, rest, next, m.seat, events)
  BY DEF MatchOrder, m
<1> HIDE DEF book, next, rest, new, kill, full, done
<1>10. fired' = (IF New(o) THEN <<Event("OrderPlace", o, Remainder(o).total)>> ELSE <<>>)
                \o (IF Decided(o).deal > 0
                    THEN <<Event("OrderDeal", o, Decided(o).deal)>> ELSE <<>>)
                \o (IF done
                    THEN <<Event("OrderTrade", o, Remainder(o).total)>> ELSE <<>>)
                \o (IF Killed(o)
                    THEN <<Event("OrderCancel", o, Remainder(o).last)>> ELSE <<>>)
  BY <1>5, <1>6, <1>7, <1>8, <1>9 DEF Leave
<1>11. New(o) \in BOOLEAN /\ Killed(o) \in BOOLEAN /\ done \in BOOLEAN
       /\ Decided(o).deal \in Nat /\ (done => Decided(o).deal > 0)
       /\ ~(done /\ Killed(o))
  BY <1>4, <1>5, <1>7, <1>8
<1>12. Ctx!HandleAll(ctx, fired', Remainder(o))
         = AfterEnd(Dealing(o), o, Remainder(o), done, Killed(o))
  BY <1>10, <1>11, HandleMatched DEF Dealing, Placed
<1>a. Ctx!HandleAll(ctx, fired', Remainder(o)) = Matched0(o)
  BY <1>12 DEF Matched0, done
<1>13. order'[o] = Remainder(o)
  BY <1>1, <1>6, <1>9 DEF Leave, IInv, TypeOK
<1>b. Killed(o) => Rest(o) # 0
  BY <1>8 DEF done
<1> QED
  BY <1>1, <1>4, <1>5, <1>6, <1>11, <1>13, <1>a, <1>b

\* The lots left that the context knows of after a match that o survives.
KnownLeft(o) ==
  IF Decided(o).deal > 0 THEN Rest(o) ELSE IF New(o) THEN order[o].total ELSE ctx.order[o]

LEMMA MatchNotices ==
  ASSUME NEW L, Volumetric(L), ctx \in Ctxs(L), IInv, LInv, NEW o \in loop.todo,
         state[o] \in {"INVALID", "IN_MATCH"}, MatchOrder(o), New(o) \/ Ctx!Knows(ctx, o)
  PROVE  /\ Placed(o) \in Ctxs(L) /\ Ctx!Knows(Placed(o), o)
         /\ Dealing(o) \in Ctxs(L) /\ Ctx!Knows(Dealing(o), o)
         /\ Matched0(o) \in Ctxs(L)
         /\ EndOf(o) = "entrusted" => /\ KnownLeft(o) \in Nat
                                      /\ GoesOn(ctx, Matched0(o), o, KnownLeft(o))
         /\ EndOf(o) # "entrusted" => Ended(ctx, Matched0(o), o)
<1> DEFINE r == Remainder(o)
           n1 == IF New(o) THEN r.total ELSE ctx.order[o]
           n2 == IF Decided(o).deal > 0 THEN r.last ELSE Placed(o).order[o]
<1>1. /\ o \in Ids /\ r \in Orders /\ r.last = Rest(o) /\ Rest(o) \in Nat
      /\ Decided(o).deal \in Nat /\ Killed(o) \in BOOLEAN
  BY MatchHandled
<1>a. order[o] \in Orders
  BY VisitedTyped
<1>2. r.total = order[o].total
  BY <1>a DEF Remainder, Orders
<1>3. New(o) \in BOOLEAN /\ (Rest(o) = 0) \in BOOLEAN
  BY DEF New
<1> HIDE DEF r
<1>4. Placed(o) \in Ctxs(L) /\ n1 \in Nat /\ GoesOn(ctx, Placed(o), o, n1)
  BY <1>1, <1>3, AfterPlaceIs DEF Placed, r
<1>5. Ctx!Knows(Placed(o), o) /\ Placed(o).order[o] = n1
  <2> HIDE DEF n1
  <2> QED
    BY <1>1, <1>4, KnowsOn
<1>6. Dealing(o) \in Ctxs(L) /\ n2 \in Nat /\ GoesOn(Placed(o), Dealing(o), o, n2)
  BY <1>1, <1>4, <1>5, AfterDealIs DEF Dealing, r
<1>7. Ctx!Knows(Dealing(o), o)
  <2> HIDE DEF n2
  <2> QED
    BY <1>1, <1>4, <1>6, KnowsOn
<1>8. n2 = KnownLeft(o)
  BY <1>1, <1>2, <1>5 DEF KnownLeft
<1>9. GoesOn(ctx, Dealing(o), o, n2)
  <2> HIDE DEF n1, n2
  <2> QED
    BY <1>1, <1>4, <1>6, GoesOnTwice
<1> HIDE DEF n1, n2
<1>10. /\ Matched0(o) \in Ctxs(L)
       /\ (Rest(o) = 0 \/ Killed(o)) => Ended(Dealing(o), Matched0(o), o)
       /\ ~(Rest(o) = 0 \/ Killed(o)) => Matched0(o) = Dealing(o)
  BY <1>1, <1>3, <1>6, <1>7, AfterEndIs DEF Matched0, r
<1>11. EndOf(o) = "entrusted" <=> ~(Rest(o) = 0 \/ Killed(o))
  BY DEF EndOf
<1>12. EndOf(o) # "entrusted" => Ended(ctx, Matched0(o), o)
  BY <1>1, <1>9, <1>10, <1>11, GoesOnTwice
<1> QED
  BY <1>4, <1>5, <1>6, <1>7, <1>8, <1>9, <1>10, <1>11, <1>12

\* What the context makes of the cancel or the refusal of o.
LEMMA CanceledHandled ==
  ASSUME NEW L, Volumetric(L), ctx \in Ctxs(L), IInv, LInv, NEW o \in loop.todo,
         HandleCanceled(o), Ctx!Knows(ctx, o)
  PROVE  LET y == Ctx!HandleAll(ctx, fired', order'[o])
         IN /\ y \in Ctxs(L)
            /\ Thaws(o) => /\ Ended(ctx, y, o)
                           /\ SameBooks(Ctx!Release(ctx, order[o], order[o].last), y)
            /\ ~Thaws(o) => y = ctx
<1> DEFINE e == Event("OrderCancel", o, order[o].last)
           y == Ctx!HandleAll(ctx, fired', order'[o])
<1>1. o \in Ids /\ order[o] \in Orders /\ order' = order
  BY CanceledLeaves
<1>2. fired' = IF Thaws(o) THEN <<e>> ELSE <<>>
  BY DEF HandleCanceled, Leave, Thaws
<1>3. e.id = o /\ e.volume = order[o].last /\ order[o].last \in Nat
  BY <1>1 DEF Event, Orders
<1>4. CASE Thaws(o)
  <2>1. y = Ctx!HandleCancel(ctx, e, order[o])
    <3>1. y = Ctx!HandleAll(ctx, <<e>>, order[o])
      BY <1>1, <1>2, <1>4
    <3>2. Ctx!HandleAll(ctx, <<e>>, order[o]) = Ctx!Handle(ctx, e, order[o])
      BY Handle1
    <3> QED
      BY <3>1, <3>2, HandlesEvent
  <2> HIDE DEF e, y
  <2>2. y \in Ctxs(L) /\ SameBooks(Ctx!Release(ctx, order[o], order[o].last), y)
        /\ Ended(ctx, y, o)
    BY <1>1, <1>3, <2>1, CancelIs
  <2> QED
    BY <1>4, <2>2 DEF y
<1>5. CASE ~Thaws(o)
  BY <1>2, <1>5, Handle0
<1> QED
  BY <1>4, <1>5

LEMMA RefusedHandled ==
  ASSUME NEW L, Volumetric(L), ctx \in Ctxs(L), IInv, NEW o \in loop.todo, HandleRefused(o)
  PROVE  LET y == Ctx!HandleAll(ctx, fired', order'[o])
         IN /\ y \in Ctxs(L) /\ SameBooks(ctx, y) /\ Ended(ctx, y, o)
            /\ o \in Ids /\ order' = order /\ position' = position
            /\ state[o] = "INVALID" /\ state' = [state EXCEPT ![o] = "DELETE"]
<1> DEFINE e == Event("OrderError", o, 0)
           y == Ctx!HandleAll(ctx, fired', order'[o])
<1>1. o \in Ids /\ state[o] = "INVALID"
  BY VisitedTyped DEF HandleRefused
<1>2. /\ position' = position /\ order' = [order EXCEPT ![o] = order[o]]
      /\ state' = [state EXCEPT ![o] = "DELETE"] /\ fired' = <<e>>
  BY DEF HandleRefused, Leave, Book
<1>3. order' = order /\ e.id = o
  BY <1>2 DEF IInv, TypeOK, Event
<1>4. y = Ctx!HandleError(ctx, e)
  <2>1. y = Ctx!HandleAll(ctx, <<e>>, order'[o])
    BY <1>2
  <2>2. Ctx!HandleAll(ctx, <<e>>, order'[o]) = Ctx!Handle(ctx, e, order'[o])
    BY Handle1
  <2> QED
    BY <2>1, <2>2, HandlesEvent
<1>5. y \in Ctxs(L) /\ SameBooks(ctx, y) /\ Ended(ctx, y, o)
  <2> HIDE DEF e, y
  <2> QED
    BY <1>1, <1>3, <1>4, ErrorIs
<1> QED
  BY <1>1, <1>2, <1>3, <1>5

-----------------------------------------------------------------------------
(* Who is told of an order, and what waits to cancel it *)

Alive == {"INVALID", "IN_MATCH", "CANELED"}

\* What is erased was told to have ended.
ErasedTold ==
  \A o \in Ids : state[o] = "erased" => told[o].status \notin {"placed", "entrusted"}

LEMMA ErasedToldStep ==
  ASSUME IInv, LInv, ErasedTold, [Next]_vars PROVE ErasedTold'
<1>1. CASE \E o \in Ids : PlaceOrder(o)
  <2>1. PICK o \in Ids : PlaceOrder(o)
    BY <1>1
  <2>2. /\ state' = [state EXCEPT ![o] = "INVALID"]
        /\ \E life : told' = [told EXCEPT ![o] = life]
    BY <2>1 DEF PlaceOrder
  <2>3. state'[o] = "INVALID" /\ \A p \in Ids \ {o} : state'[p] = state[p] /\ told'[p] = told[p]
    BY <2>2 DEF IInv, TypeOK
  <2> QED
    BY <2>3 DEF ErasedTold
<1>2. CASE \E o \in Ids : CancelOrder(o)
  <2>1. PICK o \in Ids : CancelOrder(o)
    BY <1>2
  <2>2. state' = [state EXCEPT ![o] = "CANELED"] /\ told' = told
    BY <2>1 DEF CancelOrder
  <2>3. state'[o] = "CANELED" /\ \A p \in Ids \ {o} : state'[p] = state[p]
    BY <2>2 DEF IInv, TypeOK
  <2> QED
    BY <2>2, <2>3 DEF ErasedTold
<1>3. CASE Crossday
  <2>1. /\ state' = [o \in Ids |-> IF Cancelable(o) THEN "CANELED" ELSE state[o]]
        /\ told' = told
    BY <1>3 DEF Crossday
  <2> QED
    BY <2>1 DEF ErasedTold
<1>4. CASE Sweep
  <2>1. /\ state' = [o \in Ids |-> IF state[o] = "DELETE" THEN "erased" ELSE state[o]]
        /\ told' = told
    BY <1>4 DEF Sweep
  <2> QED
    BY <2>1 DEF ErasedTold, LInv, Lifecycle!Ended
<1>5. CASE HandleEntrust
  <2>1. PICK o \in loop.todo : HandleCanceled(o) \/ HandleRefused(o) \/ HandleMatch(o)
    BY <1>5 DEF HandleEntrust
  <2> QED
    BY <2>1, HandlerLeaves DEF ErasedTold
<1>6. CASE \/ \E c \in Codes : PushTick(c)
           \/ BeginUpdate \/ MatchEntrust \/ UNCHANGED vars
  <2>1. UNCHANGED <<state, told>>
    BY <1>6 DEF PushTick, BeginUpdate, MatchEntrust, vars, orderVars
  <2> QED
    BY <2>1 DEF ErasedTold
<1> QED
  BY <1>1, <1>2, <1>3, <1>4, <1>5, <1>6 DEF Next, Update

\* The context knows the orders in the match and none that has ended; those
\* that have not ended have a listener, and no other has one or a condition.
EarsOf(o) ==
  /\ Resting(o) => Ctx!Knows(ctx, o)
  /\ Ctx!Knows(ctx, o) => state[o] \in Alive
  /\ o \in ctx.listener <=> state[o] \in Alive
  /\ ctx.condition[o] # "none" => state[o] \in Alive

EarsInv == /\ ctx \in Ctxs(Nat)
           /\ ErasedTold
           /\ \A o \in Ids : EarsOf(o)

\* The orders told of as not ended are those alive in the simulator.
LEMMA AliveTold ==
  ASSUME LInv, IInv, ErasedTold, NEW o \in Ids
  PROVE  told[o].status \in {"placed", "entrusted"} <=> state[o] \in Alive
<1>1. state[o] \in {"erased", "INVALID", "IN_MATCH", "CANELED", "DELETE"}
  BY DEF IInv, TypeOK, States
<1> QED
  BY <1>1 DEF LInv, ErasedTold, Alive, Lifecycle!Ended

LEMMA EarsStay ==
  ASSUME NEW o \in Ids, EarsOf(o),
         state'[o] = state[o], ctx'.order[o] = ctx.order[o],
         o \in ctx'.listener <=> o \in ctx.listener,
         ctx'.condition[o] \in {"none", ctx.condition[o]}
  PROVE  EarsOf(o)'
BY DEF EarsOf, Resting, Ctx!Knows

\* ... and after a handler for o that it survives, or that ends it.
LEMMA EarsOthers ==
  ASSUME EarsInv, NEW o \in Ids,
         \A p \in Ids \ {o} : state'[p] = state[p],
         \/ \E n \in Nat : GoesOn(ctx, ctx', o, n) /\ state'[o] \in Alive /\ state[o] \in Alive
         \/ Ended(ctx, ctx', o) /\ state'[o] = "DELETE"
  PROVE  \A p \in Ids : EarsOf(p)'
<1>1. ctx.order \in [Ids -> Nat \cup {Ctx!Unknown}] /\ ctx.condition \in [Ids -> Wishes]
  BY DEF EarsInv, Ctxs
<1>2. ASSUME NEW p \in Ids, p # o PROVE EarsOf(p)'
  <2>1. /\ ctx'.order[p] = ctx.order[p] /\ (p \in ctx'.listener <=> p \in ctx.listener)
        /\ ctx'.condition[p] = ctx.condition[p]
    BY <1>1, <1>2 DEF GoesOn, Ended, SameEars
  <2> QED
    BY <1>2, <2>1, EarsStay DEF EarsInv
<1>3. EarsOf(o)'
  <2>1. CASE Ended(ctx, ctx', o) /\ state'[o] = "DELETE"
    <3>1. /\ ctx'.order[o] = Ctx!Unknown /\ o \notin ctx'.listener
          /\ ctx'.condition[o] = "none"
      BY <1>1, <2>1 DEF Ended
    <3>2. ~Resting(o)' /\ ~Ctx!Knows(ctx, o)' /\ state'[o] \notin Alive
      BY <2>1, <3>1 DEF Resting, Ctx!Knows, Alive
    <3> QED
      BY <3>1, <3>2 DEF EarsOf
  <2>2. CASE \E n \in Nat : GoesOn(ctx, ctx', o, n) /\ state'[o] \in Alive /\ state[o] \in Alive
    <3>1. /\ ctx'.order[o] \in Nat /\ ctx'.listener = ctx.listener
          /\ ctx'.condition = ctx.condition
      BY <1>1, <2>2 DEF GoesOn, SameEars
    <3>2. ctx'.order[o] # Ctx!Unknown
      BY <3>1 DEF Ctx!Unknown
    <3>3. EarsOf(o)
      BY DEF EarsInv
    <3> QED
      BY <2>2, <3>1, <3>2, <3>3 DEF EarsOf, Ctx!Knows
  <2> QED
    BY <2>1, <2>2
<1> QED
  BY <1>2, <1>3

\* What load_data makes of a context.
LEMMA LoadIs ==
  ASSUME NEW L, Volumetric(L), ctx \in Ctxs(L), IInv, NEW p,
         \A c \in Codes, b \in Buckets, d \in Dirs : p[c][b][d].postion \in L
  PROVE  LET y == Ctx!LoadData(ctx, Live, order, p, held)
         IN /\ y \in Ctxs(L) /\ SameEars(ctx, y)
            /\ y.order = [o \in Ids |-> IF o \in Live THEN order[o].last ELSE Ctx!Unknown]
            /\ \A c \in Codes, b \in Buckets, d \in Dirs :
                 y.position[c].postion[b][d] = p[c][b][d].postion
<1> DEFINE y == Ctx!LoadData(ctx, Live, order, p, held)
           O == [o \in Ids |-> IF o \in Live THEN order[o].last ELSE Ctx!Unknown]
           E == {order[o].code : o \in Live} \cup held
           mine(c, d) == {o \in Live : order[o].code = c /\ order[o].direction = d}
           placed(os) == SumFunctionOnSet([o \in Ids |-> order[o].total], os) % Modulus
           post(c) == [b \in Buckets |-> [d \in Dirs |-> p[c][b][d].postion]]
           froz(c) == [b \in Buckets |-> [d \in Dirs |->
                         placed({o \in mine(c, d) : order[o].offset # "open"
                                                    /\ BucketOf(order[o]) = b})]]
           pend(c) == [d \in Dirs |->
                         placed({o \in mine(c, d) : order[o].offset = "open"})]
           P == [c \in Codes |-> [postion |-> post(c), frozen |-> froz(c),
                                  pending |-> pend(c)]]
<1>1. y = [ctx EXCEPT !.order = O, !.entries = E, !.position = P]
  BY SameSum DEF Ctx!LoadData, Ctx!Dirs, Dirs, Ctx!Buckets, Buckets, Ctx!BucketOf, BucketOf
<1>2. Live \subseteq Ids /\ \A o \in Live : order[o] \in Orders
  BY DEF Live, IInv
<1>3. O \in [Ids -> Nat \cup {Ctx!Unknown}] /\ E \subseteq Codes
  BY <1>2 DEF Orders, IInv, TypeOK
<1>4. ASSUME NEW os \in SUBSET Live PROVE placed(os) \in L
  <2> DEFINE f == [o \in Ids |-> order[o].total]
  <2>1. IsFiniteSet(os) /\ \A o \in os : f[o] \in Int
    BY <1>2, FS_Subset, FiniteAssumption DEF Orders
  <2> HIDE DEF f
  <2>2. SumFunctionOnSet(f, os) \in Int
    BY <2>1, SumInt
  <2>3. SumFunctionOnSet(f, os) % Modulus \in Lots
    BY <2>2, ModulusAssumption DEF Lots
  <2>4. Lots \subseteq L
    BY DEF Volumetric
  <2> QED
    BY <2>3, <2>4 DEF f
<1> HIDE DEF placed
<1>5. ASSUME NEW c \in Codes
      PROVE  /\ post(c) \in [Buckets -> [Dirs -> L]] /\ froz(c) \in [Buckets -> [Dirs -> L]]
             /\ pend(c) \in [Dirs -> L]
  <2>1. ASSUME NEW b \in Buckets, NEW d \in Dirs
        PROVE  placed({o \in mine(c, d) : order[o].offset # "open"
                                          /\ BucketOf(order[o]) = b}) \in L
    BY <1>4
  <2>2. ASSUME NEW d \in Dirs
        PROVE  placed({o \in mine(c, d) : order[o].offset = "open"}) \in L
    BY <1>4
  <2> QED
    BY <2>1, <2>2
<1>6. \A c \in Codes, b \in Buckets, d \in Dirs : post(c)[b][d] = p[c][b][d].postion
  OBVIOUS
<1> HIDE DEF post, froz, pend, O, E
<1>7. P \in [Codes -> Ledgers(L)] /\ \A c \in Codes : P[c].postion = post(c)
  BY <1>5 DEF Ledgers
<1> HIDE DEF P, y
<1>8. /\ y \in Ctxs(L) /\ y.order = O /\ y.position = P
      /\ y.listener = ctx.listener /\ y.condition = ctx.condition
  BY <1>1, <1>3, <1>7 DEF Ctxs
<1>9. SameEars(ctx, y)
  BY <1>8 DEF SameEars
<1> QED
  BY <1>6, <1>7, <1>8, <1>9 DEF y, O

\* The handlers of the trader keep both.
LEMMA HandleEars ==
  ASSUME IInv, LInv, EarsInv, NEW o \in loop.todo,
         HandleCanceled(o) \/ HandleRefused(o) \/ HandleMatch(o),
         ctx' = Ctx!HandleAll(ctx, fired', order'[o])
  PROVE  ctx' \in Ctxs(Nat) /\ \A p \in Ids : EarsOf(p)'
<1>1. ctx \in Ctxs(Nat) /\ Volumetric(Nat)
  BY AnyLots DEF EarsInv
<1>2. CASE HandleCanceled(o)
  <2>1. /\ o \in Ids /\ state[o] = "CANELED"
        /\ state'[o] = IF Thaws(o) THEN "DELETE" ELSE "CANELED"
        /\ \A p \in Ids \ {o} : state'[p] = state[p]
    BY <1>2, CanceledLeaves
  <2>2. EarsOf(o) /\ Resting(o)
    BY <2>1 DEF EarsInv, Resting
  <2>3. Ctx!Knows(ctx, o)
    BY <2>2 DEF EarsOf
  <2>4. /\ ctx' \in Ctxs(Nat)
        /\ Thaws(o) => Ended(ctx, ctx', o)
        /\ ~Thaws(o) => ctx' = ctx
    BY <1>1, <1>2, <2>3, CanceledHandled
  <2>5. CASE Thaws(o)
    BY <2>1, <2>4, <2>5, EarsOthers
  <2>6. CASE ~Thaws(o)
    <3>1. \A p \in Ids : state'[p] = state[p]
      BY <2>1, <2>6
    <3>2. \A p \in Ids : EarsOf(p)'
      BY <2>4, <2>6, <3>1, EarsStay DEF EarsInv
    <3> QED
      BY <2>4, <3>2
  <2> QED
    BY <2>5, <2>6
<1>3. CASE HandleRefused(o)
  <2>1. /\ ctx' \in Ctxs(Nat) /\ Ended(ctx, ctx', o)
        /\ o \in Ids /\ state' = [state EXCEPT ![o] = "DELETE"]
    BY <1>1, <1>3, RefusedHandled
  <2>2. state'[o] = "DELETE" /\ \A p \in Ids \ {o} : state'[p] = state[p]
    BY <2>1 DEF IInv, TypeOK
  <2> QED
    BY <2>1, <2>2, EarsOthers
<1>4. CASE HandleMatch(o)
  <2>1. state[o] \in {"INVALID", "IN_MATCH"} /\ MatchOrder(o)
    BY <1>4 DEF HandleMatch
  <2>2. o \in Ids /\ ctx' = Matched0(o)
    BY <2>1, MatchHandled
  <2>3. New(o) \/ Ctx!Knows(ctx, o)
    BY <2>1, <2>2 DEF New, EarsInv, EarsOf, Resting
  <2>4. /\ ctx' \in Ctxs(Nat)
        /\ EndOf(o) = "entrusted" => /\ KnownLeft(o) \in Nat
                                     /\ GoesOn(ctx, ctx', o, KnownLeft(o))
        /\ EndOf(o) # "entrusted" => Ended(ctx, ctx', o)
    BY <1>1, <2>1, <2>2, <2>3, MatchNotices
  <2>5. state' = [state EXCEPT ![o] = IF EndOf(o) = "entrusted" THEN "IN_MATCH" ELSE "DELETE"]
    BY <2>1, MatchTells
  <2>6. /\ state'[o] = IF EndOf(o) = "entrusted" THEN "IN_MATCH" ELSE "DELETE"
        /\ \A p \in Ids \ {o} : state'[p] = state[p]
    BY <2>2, <2>5 DEF IInv, TypeOK
  <2>7. state[o] \in Alive /\ (EndOf(o) = "entrusted" => state'[o] \in Alive)
    BY <2>1, <2>6 DEF Alive
  <2>8. CASE EndOf(o) = "entrusted"
    BY <2>2, <2>4, <2>6, <2>7, <2>8, EarsOthers
  <2>9. CASE EndOf(o) # "entrusted"
    BY <2>2, <2>4, <2>6, <2>9, EarsOthers
  <2> QED
    BY <2>4, <2>8, <2>9
<1> QED
  BY <1>2, <1>3, <1>4

-----------------------------------------------------------------------------
(* The other steps, which touch neither the books nor what is left of an order. *)

Talks(x, y) == SameBooks(x, y) /\ y.order = x.order

Listens(x, o) == [x EXCEPT !.listener = @ \cup {o}]

Wishing(x, o, w) == [x EXCEPT !.condition[o] = w]

LEMMA ListensIs ==
  ASSUME NEW L, NEW x \in Ctxs(L), NEW o \in Ids
  PROVE  LET y == Listens(x, o)
         IN /\ y \in Ctxs(L) /\ Talks(x, y)
            /\ y.listener = x.listener \cup {o} /\ y.condition = x.condition
<1> DEFINE y == Listens(x, o)
           l == x.listener \cup {o}
<1>1. y = [x EXCEPT !.listener = l] /\ l \subseteq Ids
  BY DEF Listens, Ctxs
<1> HIDE DEF l, y
<1>2. /\ y \in Ctxs(L) /\ y.order = x.order /\ y.position = x.position
      /\ y.entries = x.entries /\ y.listener = l /\ y.condition = x.condition
  BY <1>1 DEF Ctxs
<1> QED
  BY <1>2 DEF Talks, SameBooks, l, y

LEMMA WishingIs ==
  ASSUME NEW L, NEW x \in Ctxs(L), NEW o \in Ids, NEW w \in Wishes
  PROVE  LET y == Wishing(x, o, w)
         IN /\ y \in Ctxs(L) /\ Talks(x, y) /\ y.listener = x.listener
            /\ y.condition[o] = w
            /\ \A p \in Ids \ {o} : y.condition[p] = x.condition[p]
<1> DEFINE y == Wishing(x, o, w)
           W == [x.condition EXCEPT ![o] = w]
<1>1. y = [x EXCEPT !.condition = W]
  BY DEF Wishing
<1>2. /\ W \in [Ids -> Wishes] /\ W[o] = w
      /\ \A p \in Ids \ {o} : W[p] = x.condition[p]
  BY DEF Ctxs
<1> HIDE DEF W, y
<1>3. /\ y \in Ctxs(L) /\ y.order = x.order /\ y.position = x.position
      /\ y.entries = x.entries /\ y.listener = x.listener /\ y.condition = W
  BY <1>1, <1>2 DEF Ctxs
<1> QED
  BY <1>2, <1>3 DEF Talks, SameBooks, y

LEMMA EmptyIs ==
  ASSUME NEW L, Volumetric(L)
  PROVE  LET y == Ctx!Empty
         IN /\ y \in Ctxs(L) /\ y.entries = {} /\ y.listener = {}
            /\ \A o \in Ids : y.order[o] = Ctx!Unknown /\ y.condition[o] = "none"
            /\ \A c \in Codes : y.position[c] = Ctx!NoPosition
<1>1. Ctx!NoPosition \in Ledgers(L)
  BY ZeroIs
<1>2. Ctx!Empty = [position |-> [c \in Codes |-> Ctx!NoPosition], entries |-> {},
                   order |-> [o \in Ids |-> Ctx!Unknown], listener |-> {},
                   condition |-> [o \in Ids |-> "none"]]
  BY DEF Ctx!Empty
<1> QED
  BY <1>1, <1>2 DEF Ctxs, Wishes

\* A listener of its own: an order starts or ends to wait in one step of it.
LEMMA OneEars ==
  ASSUME EarsInv, NEW o \in Ids, ctx'.order = ctx.order,
         ctx'.condition[o] \in Wishes,
         \A p \in Ids \ {o} : /\ state'[p] = state[p]
                              /\ p \in ctx'.listener <=> p \in ctx.listener
                              /\ ctx'.condition[p] = ctx.condition[p],
         EarsOf(o)'
  PROVE  \A p \in Ids : EarsOf(p)'
<1>1. ASSUME NEW p \in Ids, p # o PROVE EarsOf(p)'
  BY <1>1, EarsStay DEF EarsInv
<1> QED
  BY <1>1

LEMMA PlaceEars ==
  ASSUME IInv, LInv, EarsInv, NEW o \in Ids, StrategyPlace(o)
  PROVE  ctx' \in Ctxs(Nat) /\ Talks(ctx, ctx') /\ \A p \in Ids : EarsOf(p)'
<1>1. /\ told[o].status = "none" /\ state' = [state EXCEPT ![o] = "INVALID"]
      /\ ctx' = Listens(ctx, o)
  BY DEF StrategyPlace, PlaceOrder, Listens
<1>2. /\ ctx' \in Ctxs(Nat) /\ Talks(ctx, ctx')
      /\ ctx'.listener = ctx.listener \cup {o} /\ ctx'.condition = ctx.condition
  BY <1>1, ListensIs DEF EarsInv
<1>3. state'[o] = "INVALID" /\ \A p \in Ids \ {o} : state'[p] = state[p]
  BY <1>1 DEF IInv, TypeOK
<1>4. state[o] \notin Alive /\ EarsOf(o)
  BY <1>1, AliveTold DEF EarsInv
<1>5. ctx'.order = ctx.order
  BY <1>2 DEF Talks
<1>6. EarsOf(o)'
  BY <1>2, <1>3, <1>4, <1>5 DEF EarsOf, Resting, Alive, Ctx!Knows
<1>7. ctx'.condition[o] \in Wishes
  BY <1>2 DEF Ctxs
<1> QED
  BY <1>2, <1>3, <1>5, <1>6, <1>7, OneEars

\* A cancel condition that is set or met, the order alive before and after.
LEMMA WishEars ==
  ASSUME IInv, LInv, EarsInv, NEW o \in Ids, NEW w \in Wishes,
         state[o] \in Alive \/ w = "none", ctx' = Wishing(ctx, o, w),
         \/ state' = state
         \/ /\ state' = [state EXCEPT ![o] = "CANELED"]
            /\ Resting(o)
  PROVE  ctx' \in Ctxs(Nat) /\ Talks(ctx, ctx') /\ \A p \in Ids : EarsOf(p)'
<1>1. /\ ctx' \in Ctxs(Nat) /\ Talks(ctx, ctx') /\ ctx'.listener = ctx.listener
      /\ ctx'.condition[o] = w
      /\ \A p \in Ids \ {o} : ctx'.condition[p] = ctx.condition[p]
  BY WishingIs DEF EarsInv
<1>2. \A p \in Ids \ {o} : state'[p] = state[p]
  BY DEF IInv, TypeOK
<1>3. /\ Resting(o)' => Resting(o)
      /\ state'[o] \in Alive <=> state[o] \in Alive
  BY DEF IInv, TypeOK, Resting, Alive
<1>4. ctx'.order = ctx.order
  BY <1>1 DEF Talks
<1>5. EarsOf(o)'
  <2>1. EarsOf(o)
    BY DEF EarsInv
  <2>2. state[o] \in Alive \/ ctx'.condition[o] = "none"
    BY <1>1
  <2> QED
    BY <1>1, <1>3, <1>4, <2>1, <2>2 DEF EarsOf, Ctx!Knows
<1> QED
  BY <1>1, <1>2, <1>4, <1>5, OneEars

LEMMA CheckEars ==
  ASSUME IInv, LInv, EarsInv, Quiet, NEW o \in Ids, CheckOne(o)
  PROVE  ctx' \in Ctxs(Nat) /\ Talks(ctx, ctx') /\ \A p \in Ids : EarsOf(p)'
<1>1. PICK fires \in BOOLEAN :
        CheckedOrder(o, fires /\ Ctx!Knows(ctx, o) /\ Cancelable(o),
                        fires /\ (~Ctx!Knows(ctx, o) \/ Cancelable(o)))
  BY DEF CheckOne, Fires
<1> DEFINE cancel == fires /\ Ctx!Knows(ctx, o) /\ Cancelable(o)
           forget == fires /\ (~Ctx!Knows(ctx, o) \/ Cancelable(o))
<1>2. /\ state' = IF cancel THEN [state EXCEPT ![o] = "CANELED"] ELSE state
      /\ ctx' = IF forget THEN [ctx EXCEPT !.condition[o] = "none"] ELSE ctx
  BY <1>1 DEF CheckedOrder
<1>3. (cancel => Cancelable(o)) /\ (cancel => forget)
  OBVIOUS
<1> HIDE DEF cancel, forget
<1>4. cancel => Resting(o)
  <2>1. state[o] # "DELETE" /\ state[o] \in States
    BY DEF LInv, Quiet, Idle, IInv, TypeOK
  <2> QED
    BY <1>3, <2>1 DEF Cancelable, Resting, States
<1>5. CASE forget
  <2>1. ctx' = Wishing(ctx, o, "none") /\ "none" \in Wishes
    BY <1>2, <1>5 DEF Wishing, Wishes
  <2>2. \/ state' = state
        \/ state' = [state EXCEPT ![o] = "CANELED"] /\ Resting(o)
    BY <1>2, <1>4
  <2> QED
    BY <2>1, <2>2, WishEars
<1>6. CASE ~forget
  <2>1. ctx' = ctx /\ state' = state
    BY <1>2, <1>3, <1>6
  <2>2. \A p \in Ids : EarsOf(p)'
    BY <2>1, EarsStay DEF EarsInv
  <2> QED
    BY <2>1, <2>2 DEF Talks, SameBooks, EarsInv
<1> QED
  BY <1>5, <1>6

LEMMA StopEars ==
  ASSUME EarsInv, Stop
  PROVE  ctx' \in Ctxs(Nat) /\ Talks(ctx, ctx') /\ \A p \in Ids : EarsOf(p)'
<1> DEFINE W == [o \in Ids |-> "none"]
<1>1. ctx' = [ctx EXCEPT !.condition = W] /\ state' = state
  BY DEF Stop, vars, orderVars
<1>2. W \in [Ids -> Wishes] /\ \A o \in Ids : W[o] = "none"
  BY DEF Wishes
<1> HIDE DEF W
<1>3. /\ ctx' \in Ctxs(Nat) /\ ctx'.order = ctx.order /\ ctx'.position = ctx.position
      /\ ctx'.entries = ctx.entries /\ ctx'.listener = ctx.listener
      /\ ctx'.condition = W
  BY <1>1, <1>2 DEF Ctxs, EarsInv
<1>4. \A p \in Ids : EarsOf(p)'
  BY <1>1, <1>2, <1>3, EarsStay DEF EarsInv
<1> QED
  BY <1>3, <1>4 DEF Talks, SameBooks

\* The trader's steps that handle no order.
LEMMA IdleEars ==
  ASSUME IInv, LInv, EarsInv, UNCHANGED ctx,
         \/ state' = state
         \/ state' = [o \in Ids |-> IF state[o] = "DELETE" THEN "erased" ELSE state[o]]
  PROVE  ctx' \in Ctxs(Nat) /\ Talks(ctx, ctx') /\ \A p \in Ids : EarsOf(p)'
<1>1. ASSUME NEW p \in Ids PROVE EarsOf(p)'
  <2>1. EarsOf(p)
    BY DEF EarsInv
  <2>2. (Resting(p)' <=> Resting(p)) /\ (state'[p] \in Alive <=> state[p] \in Alive)
    BY DEF Resting, Alive
  <2> QED
    BY <2>1, <2>2 DEF EarsOf, Ctx!Knows
<1>2. Talks(ctx, ctx')
  BY DEF Talks, SameBooks
<1> QED
  BY <1>1, <1>2 DEF EarsInv

LEMMA NextDayEars ==
  ASSUME IInv, LInv, EarsInv, NextDay, TypeOK'
  PROVE  ctx' \in Ctxs(Nat) /\ \A p \in Ids : EarsOf(p)'
<1>1. /\ Quiet
      /\ state' = [o \in Ids |-> IF Cancelable(o) THEN "CANELED" ELSE state[o]]
      /\ ctx' = Ctx!LoadData(ctx, Live, order, position', held)
  BY DEF NextDay, Crossday
<1>2. \A c \in Codes, b \in Buckets, d \in Dirs : position'[c][b][d].postion \in Nat
  BY DEF TypeOK
<1>3. Volumetric(Nat) /\ ctx \in Ctxs(Nat)
  BY AnyLots DEF EarsInv
<1>4. /\ ctx' \in Ctxs(Nat) /\ SameEars(ctx, ctx')
      /\ ctx'.order = [o \in Ids |-> IF o \in Live THEN order[o].last ELSE Ctx!Unknown]
  BY <1>1, <1>2, <1>3, LoadIs
<1>5. ASSUME NEW o \in Ids PROVE EarsOf(o)'
  <2>1. state[o] # "DELETE" /\ state[o] \in States
    BY <1>1 DEF LInv, Quiet, Idle, IInv, TypeOK
  <2>2. o \in Live <=> state[o] \in Alive
    BY <2>1 DEF Live, Alive, States
  <2>3. state'[o] \in Alive <=> state[o] \in Alive
    BY <1>1, <2>1 DEF Alive, States, Cancelable
  <2>4. o \in Live => order[o].last \in Nat
    BY DEF IInv, Live, Orders
  <2>5. Ctx!Knows(ctx, o)' <=> o \in Live
    BY <1>4, <2>4 DEF Ctx!Knows, Ctx!Unknown
  <2>6. Resting(o)' => state'[o] \in Alive
    BY DEF Resting, Alive
  <2>7. EarsOf(o)
    BY DEF EarsInv
  <2> QED
    BY <1>4, <2>2, <2>3, <2>5, <2>6, <2>7 DEF EarsOf, SameEars
<1> QED
  BY <1>4, <1>5

\* What a step of a back test does: a handler of an order, the next day, or
\* what leaves the books alone on both sides.
Handling(o) ==
  /\ HandleCanceled(o) \/ HandleRefused(o) \/ HandleMatch(o)
  /\ loop.code # 0
  /\ ctx' = Ctx!HandleAll(ctx, fired', order'[o])

Resume ==
  /\ Talks(ctx, ctx') /\ position' = position
  /\ \A p \in Ids : \/ told'[p] = told[p] /\ order'[p] = order[p]
                    \/ /\ told[p].status = "none" /\ told'[p].status = "placed"
                       /\ order'[p].last = order'[p].total

LEMMA HandledEars ==
  ASSUME IInv, Trader
  PROVE  \/ \E o \in loop.todo : Handling(o)
         \/ /\ UNCHANGED <<ctx, order, told, position>>
            /\ \/ state' = state
               \/ state' = [o \in Ids |-> IF state[o] = "DELETE" THEN "erased" ELSE state[o]]
<1>1. CASE BeginUpdate /\ UNCHANGED ctx
  BY <1>1 DEF BeginUpdate, orderVars, bookVars
<1>2. CASE MatchEntrust /\ UNCHANGED engineVars
  BY <1>2 DEF MatchEntrust, engineVars, orderVars, bookVars
<1>3. CASE HandleEntrust /\ ctx' = Ctx!HandleAll(ctx, fired', order'[loop'.cur])
  <2>1. PICK o \in loop.todo :
          /\ HandleCanceled(o) \/ HandleRefused(o) \/ HandleMatch(o)
          /\ loop' = [loop EXCEPT !.todo = @ \ {o}, !.cur = o]
    BY <1>3 DEF HandleEntrust
  <2>2. loop'.cur = o /\ loop.code # 0
    BY <1>3, <2>1 DEF HandleEntrust, IInv, TypeOK
  <2> QED
    BY <1>3, <2>1, <2>2 DEF Handling
<1>4. CASE Sweep /\ UNCHANGED ctx
  BY <1>4 DEF Sweep, bookVars
<1> QED
  BY <1>1, <1>2, <1>3, <1>4 DEF Trader

LEMMA EarsStep ==
  ASSUME BacktestInv, ~CancelsEnded, EarsInv, [BacktestNext]_allVars
  PROVE  EarsInv' /\ (Resume \/ (\E o \in loop.todo : Handling(o)) \/ NextDay)
<1> DEFINE Sound == /\ ctx' \in Ctxs(Nat) /\ \A p \in Ids : EarsOf(p)'
                    /\ Resume \/ (\E o \in loop.todo : Handling(o)) \/ NextDay
<1>0. IInv /\ LInv /\ BInv /\ TypeOK' /\ ErasedTold'
  BY BacktestKeeps, ErasedToldStep DEF BacktestInv, EarsInv, IInv
<1> SUFFICES Sound
  BY <1>0 DEF EarsInv
<1>1. CASE \E c \in Codes : PublishTick(c)
  <2>1. UNCHANGED <<ctx, state, position, told, order>>
    BY <1>1 DEF PublishTick, PushTick, orderVars, bookVars
  <2> QED
    BY <1>0, <2>1, IdleEars DEF Resume
<1>2. CASE \E o \in Ids : StrategyPlace(o)
  <2>1. PICK o \in Ids : StrategyPlace(o)
    BY <1>2
  <2>2. ctx' \in Ctxs(Nat) /\ Talks(ctx, ctx') /\ \A p \in Ids : EarsOf(p)'
    BY <1>0, <2>1, PlaceEars
  <2>3. PICK c \in Codes, off \in Offsets, d \in Directions, f \in Flags,
             v \in Volumes, pr \in Prices :
          /\ order' = [order EXCEPT ![o] =
               [code |-> c, offset |-> off, direction |-> d, flag |-> f,
                total |-> v, last |-> v,
                price |-> IF pr = 0 THEN tick[c].price ELSE pr]]
          /\ told' = [told EXCEPT ![o] = [status |-> "placed", left |-> v]]
    BY <2>1 DEF StrategyPlace, PlaceOrder
  <2>4. \A p \in Ids \ {o} : told'[p] = told[p] /\ order'[p] = order[p]
    BY <1>0, <2>3 DEF IInv, TypeOK
  <2>5. /\ told[o].status = "none" /\ told'[o].status = "placed"
        /\ order'[o].last = order'[o].total /\ position' = position
    BY <1>0, <2>1, <2>3 DEF IInv, TypeOK, StrategyPlace, PlaceOrder, bookVars
  <2> QED
    BY <2>2, <2>4, <2>5 DEF Resume
<1>3. CASE \E o \in Ids : StrategyCancel(o)
  <2>1. PICK o \in Ids : StrategyCancel(o)
    BY <1>3
  <2>2. /\ CancelOrder(o) /\ ctx' = Wishing(ctx, o, "none") /\ "none" \in Wishes
        /\ state' = [state EXCEPT ![o] = "CANELED"]
        /\ UNCHANGED <<position, told, order>>
    BY <2>1 DEF StrategyCancel, CancelOrder, Wishing, Wishes, bookVars
  <2>3. Resting(o)
    <3>1. told[o].status = "entrusted" /\ Cancelable(o) /\ state[o] \in States
      BY <1>0, <2>2 DEF CancelOrder, IInv, TypeOK
    <3>2. told[o].status \notin Lifecycle!Ended
      BY <3>1 DEF Lifecycle!Ended
    <3> QED
      BY <1>0, <3>1, <3>2 DEF LInv, Cancelable, States, Resting
  <2>4. ctx' \in Ctxs(Nat) /\ Talks(ctx, ctx') /\ \A p \in Ids : EarsOf(p)'
    BY <1>0, <2>2, <2>3, WishEars
  <2> QED
    BY <2>2, <2>4 DEF Resume
<1>4. CASE \E o \in Ids : StrategyCancelRefused(o) \/ SetCancelCondition(o)
  <2>1. PICK o \in Ids, w \in Wishes :
          /\ ctx' = Wishing(ctx, o, w) /\ UNCHANGED vars
          /\ Ctx!Knows(ctx, o) \/ told[o].status \in {"placed", "entrusted"}
    BY <1>4 DEF StrategyCancelRefused, SetCancelCondition, Wishing, Wishes
  <2>2. state[o] \in Alive
    BY <1>0, <2>1, AliveTold DEF EarsInv, EarsOf
  <2>3. UNCHANGED <<state, position, told, order>>
    BY <2>1 DEF vars, orderVars, bookVars
  <2>4. ctx' \in Ctxs(Nat) /\ Talks(ctx, ctx') /\ \A p \in Ids : EarsOf(p)'
    BY <1>0, <2>1, <2>2, <2>3, WishEars
  <2> QED
    BY <2>3, <2>4 DEF Resume
<1>5. CASE Trader
  <2>1. CASE \E o \in loop.todo : Handling(o)
    <3>1. ctx' \in Ctxs(Nat) /\ \A p \in Ids : EarsOf(p)'
      BY <1>0, <2>1, HandleEars DEF Handling
    <3> QED
      BY <2>1, <3>1
  <2>2. CASE /\ UNCHANGED <<ctx, order, told, position>>
             /\ \/ state' = state
                \/ state' = [o \in Ids |-> IF state[o] = "DELETE" THEN "erased"
                                           ELSE state[o]]
    BY <1>0, <2>2, IdleEars DEF Resume
  <2> QED
    BY <1>0, <1>5, <2>1, <2>2, HandledEars
<1>6. CASE BeginCheck
  <2>1. UNCHANGED <<ctx, state, position, told, order>>
    BY <1>6 DEF BeginCheck, vars, orderVars, bookVars
  <2> QED
    BY <1>0, <2>1, IdleEars DEF Resume
<1>7. CASE CheckCondition
  <2>1. PICK o \in todo : CheckOne(o)
    BY <1>7 DEF CheckCondition
  <2>2. Quiet /\ o \in Ids
    BY <1>0, <1>7, <2>1 DEF BInv, CheckCondition
  <2>3. UNCHANGED <<position, told, order>>
    BY <2>1 DEF CheckOne, CheckedOrder, bookVars
  <2>4. ctx' \in Ctxs(Nat) /\ Talks(ctx, ctx') /\ \A p \in Ids : EarsOf(p)'
    BY <1>0, <2>1, <2>2, CheckEars
  <2> QED
    BY <2>3, <2>4 DEF Resume
<1>8. CASE Stop
  <2>1. UNCHANGED <<position, told, order>>
    BY <1>8 DEF Stop, vars, orderVars, bookVars
  <2>2. ctx' \in Ctxs(Nat) /\ Talks(ctx, ctx') /\ \A p \in Ids : EarsOf(p)'
    BY <1>8, StopEars
  <2> QED
    BY <2>1, <2>2 DEF Resume
<1>9. CASE NextDay
  BY <1>0, <1>9, NextDayEars
<1>10. CASE UNCHANGED allVars
  <2>1. UNCHANGED <<ctx, state, position, told, order>>
    BY <1>10 DEF allVars, engineVars, vars, orderVars, bookVars
  <2> QED
    BY <1>0, <2>1, IdleEars DEF Resume
<1> QED
  BY <1>0, <1>1, <1>2, <1>3, <1>4, <1>5, <1>6, <1>7, <1>8, <1>9, <1>10
     DEF BacktestNext

-----------------------------------------------------------------------------
(* What a handler leaves of its order. *)

Survives(o) ==
  /\ state[o] \in {"INVALID", "IN_MATCH"} /\ MatchOrder(o)
  /\ GoesOn(ctx, ctx', o, KnownLeft(o)) /\ KnownLeft(o) \in Nat
  /\ state'[o] = "IN_MATCH" /\ told'[o].status = "entrusted" /\ order'[o].last = Rest(o)

Expires(o) == Ended(ctx, ctx', o) /\ state'[o] = "DELETE"

Waits(o) ==
  /\ ctx' = ctx /\ position' = position
  /\ state'[o] = state[o] /\ told'[o] = told[o] /\ order'[o] = order[o]

LEMMA HandledIs ==
  ASSUME NEW L, Volumetric(L), ctx \in Ctxs(L), IInv, LInv, EarsInv,
         NEW o \in loop.todo, Handling(o)
  PROVE  /\ o \in Ids /\ ctx' \in Ctxs(L)
         /\ \A p \in Ids \ {o} : /\ state'[p] = state[p] /\ told'[p] = told[p]
                                 /\ order'[p] = order[p]
         /\ Survives(o) \/ Expires(o) \/ Waits(o)
<1>1. ctx' = Ctx!HandleAll(ctx, fired', order'[o])
  BY DEF Handling
<1>2. CASE HandleCanceled(o)
  <2>1. /\ o \in Ids /\ state[o] = "CANELED" /\ order' = order
        /\ state'[o] = IF Thaws(o) THEN "DELETE" ELSE "CANELED"
        /\ position' = IF Thaws(o) THEN Unfreeze(Book, order[o]).position ELSE position
    BY <1>2, CanceledLeaves
  <2>2. Ctx!Knows(ctx, o)
    BY <2>1 DEF EarsInv, EarsOf, Resting
  <2>3. /\ ctx' \in Ctxs(L)
        /\ Thaws(o) => Ended(ctx, ctx', o)
        /\ ~Thaws(o) => ctx' = ctx
    BY <1>1, <1>2, <2>2, CanceledHandled
  <2>4. ~Thaws(o) => told'[o] = told[o]
    <3>1. ~Thaws(o) => told'[o] = HearAll(told[o], <<>>)
      BY <1>2, <2>1 DEF HandleCanceled, Leave, IInv, Thaws
    <3> QED
      BY <3>1, Hear0
  <2>5. Expires(o) \/ Waits(o)
    BY <2>1, <2>3, <2>4 DEF Expires, Waits
  <2> QED
    BY <1>2, <2>1, <2>3, <2>5, HandlerLeaves
<1>3. CASE HandleRefused(o)
  <2>1. /\ ctx' \in Ctxs(L) /\ Ended(ctx, ctx', o)
        /\ o \in Ids /\ state' = [state EXCEPT ![o] = "DELETE"]
    BY <1>1, <1>3, RefusedHandled
  <2>2. state'[o] = "DELETE"
    BY <2>1 DEF IInv, TypeOK
  <2> QED
    BY <1>3, <2>1, <2>2, HandlerLeaves DEF Expires
<1>4. CASE HandleMatch(o)
  <2>1. state[o] \in {"INVALID", "IN_MATCH"} /\ MatchOrder(o)
    BY <1>4 DEF HandleMatch
  <2>2. /\ o \in Ids /\ ctx' = Matched0(o) /\ order'[o] = Remainder(o)
        /\ Remainder(o).last = Rest(o)
    BY <1>1, <2>1, MatchHandled
  <2>3. New(o) \/ Ctx!Knows(ctx, o)
    BY <2>1, <2>2 DEF New, EarsInv, EarsOf, Resting
  <2>4. /\ ctx' \in Ctxs(L)
        /\ EndOf(o) = "entrusted" => /\ KnownLeft(o) \in Nat
                                     /\ GoesOn(ctx, ctx', o, KnownLeft(o))
        /\ EndOf(o) # "entrusted" => Ended(ctx, ctx', o)
    BY <2>1, <2>2, <2>3, MatchNotices
  <2>5. /\ state' = [state EXCEPT ![o] = IF EndOf(o) = "entrusted" THEN "IN_MATCH"
                                                                   ELSE "DELETE"]
        /\ told' = [told EXCEPT ![o] = [status |-> EndOf(o), left |-> Rest(o)]]
    BY <2>1, MatchTells
  <2>6. /\ state'[o] = IF EndOf(o) = "entrusted" THEN "IN_MATCH" ELSE "DELETE"
        /\ told'[o].status = EndOf(o)
    BY <2>2, <2>5 DEF IInv, TypeOK
  <2>7. Survives(o) \/ Expires(o)
    BY <2>1, <2>2, <2>4, <2>6 DEF Survives, Expires
  <2> QED
    BY <1>4, <2>2, <2>4, <2>7, HandlerLeaves
<1> QED
  BY <1>2, <1>3, <1>4 DEF Handling

-----------------------------------------------------------------------------
(* Listeners, conditions and the orders the context knows *)

LEMMA EarsStart == BacktestInit => EarsInv
<1> SUFFICES ASSUME BacktestInit PROVE EarsInv
  OBVIOUS
<1>1. Init /\ ctx = Ctx!Empty
  BY DEF BacktestInit
<1>2. /\ ctx \in Ctxs(Nat) /\ ctx.listener = {}
      /\ \A o \in Ids : ctx.order[o] = Ctx!Unknown /\ ctx.condition[o] = "none"
  BY <1>1, AnyLots, EmptyIs
<1>3. \A o \in Ids : state[o] = "erased" /\ told[o].status = "none"
  BY <1>1 DEF Init
<1>4. \A o \in Ids : EarsOf(o)
  BY <1>2, <1>3 DEF EarsOf, Resting, Ctx!Knows, Alive
<1>5. ErasedTold
  BY <1>3 DEF ErasedTold
<1> QED
  BY <1>2, <1>4, <1>5 DEF EarsInv

LEMMA EarsAlways == ASSUME ~CancelsEnded PROVE BacktestSpec => [](BacktestInv /\ EarsInv)
<1>1. BacktestInv /\ EarsInv /\ [BacktestNext]_allVars => EarsInv'
  BY EarsStep
<1> QED
  BY <1>1, EarsStart, BacktestInvAlways, PTL DEF BacktestSpec

\* In a back test of any number of days the context keeps a listener for the
\* orders that were told of as placed or entrusted and for no other, and no
\* cancel condition of an order that has ended: nothing of an ended order leads
\* to a strategy, and none of a live one's notices is lost.
THEOREM NothingOutlives == ASSUME ~CancelsEnded
                           PROVE  BacktestSpec => []NothingOutlivesOrders
<1>1. BacktestInv /\ EarsInv => NothingOutlivesOrders
  <2> SUFFICES ASSUME BacktestInv, EarsInv
               PROVE  /\ ctx.listener =
                           {o \in Ids : told[o].status \in {"placed", "entrusted"}}
                      /\ {o \in Ids : ctx.condition[o] # "none"} \subseteq
                           {o \in Ids : told[o].status \in {"placed", "entrusted"}}
    BY DEF NothingOutlivesOrders
  <2>1. ctx.listener \subseteq Ids
    BY DEF EarsInv, Ctxs
  <2>2. ASSUME NEW o \in Ids
        PROVE  told[o].status \in {"placed", "entrusted"} <=> state[o] \in Alive
    BY AliveTold DEF BacktestInv, EarsInv
  <2>3. ASSUME NEW o \in Ids PROVE EarsOf(o)
    BY DEF EarsInv
  <2> QED
    BY <2>1, <2>2, <2>3 DEF EarsOf
<1> QED
  BY <1>1, EarsAlways, PTL

\* No step but those that answer a cancel condition, end its order or stop the
\* trading takes the condition away.
CancelsFor(o) ==
  ctx.condition[o] # "none" /\ ctx'.condition[o] = "none" =>
    \/ state'[o] \in {"CANELED", "erased", "DELETE"}
    \/ ~Ctx!Knows(ctx, o)
    \/ session' = "stopped"

LEMMA HandledCancels ==
  ASSUME IInv, LInv, EarsInv, NEW o \in loop.todo, Handling(o), NEW p \in Ids
  PROVE  CancelsFor(p)
<1>1. /\ o \in Ids
      /\ Survives(o) \/ Expires(o) \/ Waits(o)
      /\ ctx.condition \in [Ids -> Wishes]
  BY AnyLots, HandledIs DEF EarsInv, Ctxs
<1>2. CASE Survives(o)
  BY <1>2 DEF Survives, GoesOn, SameEars, CancelsFor
<1>3. CASE Expires(o)
  BY <1>1, <1>3 DEF Expires, Ended, CancelsFor
<1>4. CASE Waits(o)
  BY <1>4 DEF Waits, CancelsFor
<1> QED
  BY <1>1, <1>2, <1>3, <1>4

LEMMA CheckCancelsFor ==
  ASSUME IInv, EarsInv, NEW o \in Ids, CheckOne(o), NEW p \in Ids
  PROVE  CancelsFor(p)
<1>1. PICK fires \in BOOLEAN :
        CheckedOrder(o, fires /\ Ctx!Knows(ctx, o) /\ Cancelable(o),
                        fires /\ (~Ctx!Knows(ctx, o) \/ Cancelable(o)))
  BY DEF CheckOne, Fires
<1> DEFINE cancel == fires /\ Ctx!Knows(ctx, o) /\ Cancelable(o)
           forget == fires /\ (~Ctx!Knows(ctx, o) \/ Cancelable(o))
<1>2. /\ state' = IF cancel THEN [state EXCEPT ![o] = "CANELED"] ELSE state
      /\ ctx' = IF forget THEN [ctx EXCEPT !.condition[o] = "none"] ELSE ctx
  BY <1>1 DEF CheckedOrder
<1>3. forget => cancel \/ ~Ctx!Knows(ctx, o)
  OBVIOUS
<1> HIDE DEF cancel, forget
<1>4. CASE ~forget
  BY <1>2, <1>4 DEF CancelsFor
<1>5. CASE forget
  <2>1. ctx' = Wishing(ctx, o, "none") /\ "none" \in Wishes
    BY <1>2, <1>5 DEF Wishing, Wishes
  <2>2. \A q \in Ids \ {o} : ctx'.condition[q] = ctx.condition[q]
    BY <2>1, WishingIs DEF EarsInv
  <2>3. p = o => state'[o] = "CANELED" \/ ~Ctx!Knows(ctx, o)
    BY <1>2, <1>3, <1>5 DEF IInv, TypeOK
  <2> QED
    BY <2>2, <2>3 DEF CancelsFor
<1> QED
  BY <1>4, <1>5

LEMMA WishCancelsFor ==
  ASSUME EarsInv, NEW o \in Ids, NEW w \in Wishes, ctx' = Wishing(ctx, o, w), NEW p \in Ids,
         p = o /\ w = "none" => state'[o] = "CANELED"
  PROVE  CancelsFor(p)
<1>1. /\ ctx'.condition[o] = w
      /\ \A q \in Ids \ {o} : ctx'.condition[q] = ctx.condition[q]
  BY WishingIs DEF EarsInv
<1> QED
  BY <1>1 DEF CancelsFor

LEMMA CancelsForStep ==
  ASSUME BacktestInv, ~CancelsEnded, EarsInv, [BacktestNext]_allVars, NEW p \in Ids
  PROVE  CancelsFor(p)
<1>0. IInv /\ LInv /\ BInv
  BY DEF BacktestInv
<1>1. CASE ctx' = ctx
  BY <1>1 DEF CancelsFor
<1>2. CASE \E o \in Ids : StrategyPlace(o)
  <2>1. PICK o \in Ids : ctx' = Listens(ctx, o)
    BY <1>2 DEF StrategyPlace, Listens
  <2>2. ctx'.condition = ctx.condition
    BY <2>1, ListensIs DEF EarsInv
  <2> QED
    BY <2>2 DEF CancelsFor
<1>3. CASE \E o \in Ids : StrategyCancel(o)
  <2>1. PICK o \in Ids : StrategyCancel(o)
    BY <1>3
  <2>2. /\ ctx' = Wishing(ctx, o, "none") /\ "none" \in Wishes
        /\ state'[o] = "CANELED"
    BY <1>0, <2>1 DEF StrategyCancel, CancelOrder, Wishing, Wishes, IInv, TypeOK
  <2> QED
    BY <2>2, WishCancelsFor
<1>4. CASE \E o \in Ids : StrategyCancelRefused(o) \/ SetCancelCondition(o)
  <2>1. PICK o \in Ids, w \in Wishes : ctx' = Wishing(ctx, o, w) /\ w # "none"
    BY <1>4 DEF StrategyCancelRefused, SetCancelCondition, Wishing, Wishes
  <2> QED
    BY <2>1, WishCancelsFor
<1>5. CASE \E o \in loop.todo : Handling(o)
  BY <1>0, <1>5, HandledCancels
<1>6. CASE CheckCondition
  <2>1. \E o \in Ids : CheckOne(o)
    BY <1>0, <1>6 DEF CheckCondition, BInv
  <2> QED
    BY <1>0, <2>1, CheckCancelsFor
<1>7. CASE Stop
  BY <1>7 DEF Stop, CancelsFor
<1>8. CASE NextDay
  <2>1. /\ ctx' = Ctx!LoadData(ctx, Live, order, position', held) /\ TypeOK'
    BY <1>8, BacktestKeeps DEF NextDay, BacktestInv, IInv
  <2>2. \A c \in Codes, b \in Buckets, d \in Dirs : position'[c][b][d].postion \in Nat
    BY <2>1 DEF TypeOK
  <2>3. SameEars(ctx, ctx')
    BY <1>0, <2>1, <2>2, AnyLots, LoadIs DEF EarsInv
  <2> QED
    BY <2>3 DEF SameEars, CancelsFor
<1>9. \/ ctx' = ctx
      \/ \E o \in Ids : \/ StrategyPlace(o) \/ StrategyCancel(o)
                        \/ StrategyCancelRefused(o) \/ SetCancelCondition(o)
      \/ \E o \in loop.todo : Handling(o)
      \/ CheckCondition \/ Stop \/ NextDay
  <2>1. CASE \E c \in Codes : PublishTick(c)
    BY <2>1 DEF PublishTick
  <2>2. CASE Trader
    BY <1>0, <2>2, HandledEars
  <2>3. CASE BeginCheck
    BY <2>3 DEF BeginCheck
  <2>4. CASE UNCHANGED allVars
    BY <2>4 DEF allVars, engineVars
  <2> QED
    BY <2>1, <2>2, <2>3, <2>4 DEF BacktestNext
<1> QED
  BY <1>1, <1>2, <1>3, <1>4, <1>5, <1>6, <1>7, <1>8, <1>9

\* A cancel condition that a strategy set or a refused cancel left goes with
\* the order's cancel, its end or the day's, whoever acts in between.
THEOREM ConditionsStay == ASSUME ~CancelsEnded PROVE BacktestSpec => ConditionsCancel
<1>1. BacktestInv /\ EarsInv /\ [BacktestNext]_allVars =>
        [\A o \in Ids :
           ctx.condition[o] # "none" /\ ctx'.condition[o] = "none" =>
             \/ state'[o] \in {"CANELED", "erased", "DELETE"}
             \/ ~Ctx!Knows(ctx, o)
             \/ session' = "stopped"]_allVars
  BY CancelsForStep DEF CancelsFor
<1> QED
  BY <1>1, EarsAlways, PTL DEF BacktestSpec, ConditionsCancel

-----------------------------------------------------------------------------
(* What is left of an order *)

\* An order that waits to enter the match is whole.
Whole(o) == told[o].status = "placed" => order[o].last = order[o].total

WholeInv == \A o \in Ids : Whole(o)

LEMMA HandledWhole ==
  ASSUME IInv, LInv, LInv', EarsInv, NEW o \in loop.todo, Handling(o), WholeInv
  PROVE  WholeInv'
<1>1. /\ o \in Ids
      /\ Survives(o) \/ Expires(o) \/ Waits(o)
      /\ \A p \in Ids \ {o} : told'[p] = told[p] /\ order'[p] = order[p]
  BY AnyLots, HandledIs DEF EarsInv
<1>2. \A p \in Ids \ {o} : Whole(p)'
  BY <1>1 DEF WholeInv, Whole
<1>3. Whole(o)'
  <2>1. CASE Survives(o)
    BY <2>1 DEF Survives, Whole
  <2>2. CASE Expires(o)
    <3>1. told'[o].status \in Lifecycle!Ended
      BY <1>1, <2>2 DEF Expires, LInv
    <3> QED
      BY <3>1 DEF Whole, Lifecycle!Ended
  <2>3. CASE Waits(o)
    BY <1>1, <2>3 DEF Waits, WholeInv, Whole
  <2> QED
    BY <1>1, <2>1, <2>2, <2>3
<1> QED
  BY <1>2, <1>3 DEF WholeInv

LEMMA WholeStep ==
  ASSUME BacktestInv, ~CancelsEnded, EarsInv, WholeInv, [BacktestNext]_allVars
  PROVE  WholeInv'
<1>1. IInv /\ LInv /\ LInv' /\ (Resume \/ (\E o \in loop.todo : Handling(o)) \/ NextDay)
  BY BacktestKeeps, EarsStep DEF BacktestInv
<1>2. CASE Resume
  BY <1>2 DEF Resume, WholeInv, Whole
<1>3. CASE \E o \in loop.todo : Handling(o)
  BY <1>1, <1>3, HandledWhole
<1>4. CASE NextDay
  <2>1. UNCHANGED <<order, told>>
    BY <1>4 DEF NextDay, Crossday
  <2> QED
    BY <2>1 DEF WholeInv, Whole
<1> QED
  BY <1>1, <1>2, <1>3, <1>4

LEMMA WholeAlways == ASSUME ~CancelsEnded
                     PROVE  BacktestSpec => [](BacktestInv /\ EarsInv /\ WholeInv)
<1>1. BacktestInit => WholeInv
  <2>1. BacktestInit => \A o \in Ids : told[o].status = "none"
    BY DEF BacktestInit, Init
  <2> QED
    BY <2>1 DEF WholeInv, Whole
<1>2. BacktestInv /\ EarsInv /\ WholeInv /\ [BacktestNext]_allVars => WholeInv'
  BY WholeStep
<1> QED
  BY <1>1, <1>2, EarsAlways, PTL DEF BacktestSpec

\* On a single day the context knows an order from its entrust to its end.
Mirrored(o) ==
  ctx.order[o] = IF told[o].status = "entrusted" THEN order[o].last ELSE Ctx!Unknown

LEMMA HandledMirrored ==
  ASSUME IInv, LInv, LInv', EarsInv, WholeInv, NEW o \in loop.todo, Handling(o),
         OrdersMirrored
  PROVE  OrdersMirrored'
<1>1. /\ o \in Ids
      /\ Survives(o) \/ Expires(o) \/ Waits(o)
      /\ \A p \in Ids \ {o} : told'[p] = told[p] /\ order'[p] = order[p]
      /\ ctx.order \in [Ids -> Nat \cup {Ctx!Unknown}]
  BY AnyLots, HandledIs DEF EarsInv, Ctxs
<1>2. \A p \in Ids : Mirrored(p)
  BY DEF OrdersMirrored, Mirrored
<1>3. \A p \in Ids \ {o} : ctx'.order[p] = ctx.order[p]
  BY <1>1 DEF Survives, GoesOn, Expires, Ended, Waits
<1>4. \A p \in Ids \ {o} : Mirrored(p)'
  BY <1>1, <1>2, <1>3 DEF Mirrored
<1>5. Mirrored(o)'
  <2>1. CASE Survives(o)
    <3>1. ctx'.order[o] = KnownLeft(o)
      BY <1>1, <2>1 DEF Survives, GoesOn
    <3>2. KnownLeft(o) = Rest(o)
      <4>1. state[o] \in {"INVALID", "IN_MATCH"} /\ MatchOrder(o)
        BY <2>1 DEF Survives
      <4>2. /\ Decided(o).deal = order[o].last - Rest(o) /\ Decided(o).deal \in Nat
            /\ Rest(o) \in Nat
        BY <4>1, MatchHandled
      <4>3. order[o].last \in Nat
        BY VisitedTyped DEF Orders
      <4>4. New(o) => order[o].last = order[o].total
        BY <1>1 DEF New, LInv, WholeInv, Whole
      <4>5. ~New(o) => ctx.order[o] = order[o].last
        BY <1>1, <1>2, <4>1 DEF New, LInv, Mirrored
      <4> QED
        BY <4>2, <4>3, <4>4, <4>5 DEF KnownLeft
    <3> QED
      BY <2>1, <3>1, <3>2 DEF Survives, Mirrored
  <2>2. CASE Expires(o)
    <3>1. told'[o].status \in Lifecycle!Ended
      BY <1>1, <2>2 DEF Expires, LInv
    <3>2. ctx'.order[o] = Ctx!Unknown
      BY <1>1, <2>2 DEF Expires, Ended
    <3> QED
      BY <3>1, <3>2 DEF Mirrored, Lifecycle!Ended
  <2>3. CASE Waits(o)
    BY <1>1, <1>2, <2>3 DEF Waits, Mirrored
  <2> QED
    BY <1>1, <2>1, <2>2, <2>3
<1>6. \A p \in Ids : Mirrored(p)'
  BY <1>4, <1>5
<1> QED
  BY <1>6 DEF OrdersMirrored, Mirrored

LEMMA MirroredStep ==
  ASSUME BacktestInv, ~CancelsEnded, MaxDays = 1, EarsInv, WholeInv, OrdersMirrored,
         [BacktestNext]_allVars
  PROVE  OrdersMirrored'
<1>1. IInv /\ LInv /\ LInv' /\ (Resume \/ (\E o \in loop.todo : Handling(o)) \/ NextDay)
  BY BacktestKeeps, EarsStep DEF BacktestInv
<1>2. CASE Resume
  BY <1>2 DEF Resume, Talks, OrdersMirrored
<1>3. CASE \E o \in loop.todo : Handling(o)
  BY <1>1, <1>3, HandledMirrored
<1>4. ~NextDay
  <2>1. day \in 1..(1 + MaxDays)
    BY <1>1 DEF IInv, TypeOK
  <2>2. Crossday => day < MaxDays
    BY Zenon DEF Crossday
  <2> QED
    BY <2>1, <2>2 DEF NextDay
<1> QED
  BY <1>1, <1>2, <1>3, <1>4

\* On a day the context is told of from its start, get_order tells a strategy
\* what the exchange would: an order is known, with what is left of it, from
\* its entrust to its end.  (A later day begins with the orders that wait.)
THEOREM OrdersStayMirrored == ASSUME ~CancelsEnded, MaxDays = 1
                              PROVE  BacktestSpec => []OrdersMirrored
<1>1. BacktestInit => OrdersMirrored
  <2>1. BacktestInit => \A o \in Ids : told[o].status = "none"
    BY DEF BacktestInit, Init
  <2>2. BacktestInit => \A o \in Ids : ctx.order[o] = Ctx!Unknown
    BY AnyLots, EmptyIs DEF BacktestInit
  <2> QED
    BY <2>1, <2>2 DEF OrdersMirrored
<1>2. BacktestInv /\ EarsInv /\ WholeInv /\ OrdersMirrored /\ [BacktestNext]_allVars
        => OrdersMirrored'
  BY MirroredStep
<1> QED
  BY <1>1, <1>2, WholeAlways, PTL DEF BacktestSpec

-----------------------------------------------------------------------------
(* What a match makes of the context's books *)

LEMMA RemainderIs ==
  ASSUME NEW o, order[o] \in Orders
  PROVE  /\ Remainder(o).code = order[o].code /\ Remainder(o).offset = order[o].offset
         /\ Remainder(o).direction = order[o].direction
         /\ Remainder(o).total = order[o].total
         /\ BucketOf(Remainder(o)) = BucketOf(order[o])
BY DEF Remainder, Orders, BucketOf

LEMMA MatchBooks ==
  ASSUME NEW L, Volumetric(L), ctx \in Ctxs(L), IInv, LInv, NEW o \in loop.todo,
         state[o] \in {"INVALID", "IN_MATCH"}, MatchOrder(o), New(o) \/ Ctx!Knows(ctx, o)
  PROVE  LET r == Remainder(o)
             v == Decided(o).deal
         IN /\ New(o) => \E z \in Ctxs(L) : /\ SameBooks(ctx, z)
                                            /\ Placed(o) = Ctx!Reserve(z, r, r.total)
            /\ ~New(o) => Placed(o) = ctx
            /\ v > 0 => \E z \in Ctxs(L) : /\ SameBooks(Placed(o), z)
                                           /\ Dealing(o) = Ctx!CalculatePosition(z, r, v)
            /\ ~(v > 0) => Dealing(o) = Placed(o)
            /\ ~Killed(o) => SameBooks(Dealing(o), Matched0(o))
            /\ Killed(o) => SameBooks(Ctx!Release(Dealing(o), r, r.last), Matched0(o))
<1> DEFINE r == Remainder(o)
           v == Decided(o).deal
<1>1. /\ o \in Ids /\ r \in Orders /\ v \in Nat
      /\ Killed(o) \in BOOLEAN /\ (Killed(o) => Rest(o) # 0)
  BY MatchHandled
<1>2. /\ Placed(o) \in Ctxs(L) /\ Ctx!Knows(Placed(o), o)
      /\ Dealing(o) \in Ctxs(L) /\ Ctx!Knows(Dealing(o), o)
  BY MatchNotices
<1> HIDE DEF r, v
<1>3. New(o) => \E z \in Ctxs(L) : /\ SameBooks(ctx, z)
                                   /\ Placed(o) = Ctx!Reserve(z, r, r.total)
  <2> DEFINE e == Event("OrderPlace", o, r.total)
  <2>1. e.id = o
    BY DEF Event
  <2>2. New(o) => Placed(o) = Ctx!HandleEntrust(ctx, e, r)
    BY DEF Placed, AfterPlace, r
  <2> HIDE DEF e
  <2> QED
    BY <1>1, <2>1, <2>2, EntrustIs
<1>4. ~New(o) => Placed(o) = ctx
  BY DEF Placed, AfterPlace
<1>5. v > 0 => \E z \in Ctxs(L) : /\ SameBooks(Placed(o), z)
                                  /\ Dealing(o) = Ctx!CalculatePosition(z, r, v)
  <2> DEFINE e == Event("OrderDeal", o, v)
  <2>1. e.id = o /\ e.volume = v
    BY DEF Event
  <2>2. v > 0 => Dealing(o) = Ctx!HandleDeal(Placed(o), e, r)
    BY DEF Dealing, AfterDeal, r, v
  <2> HIDE DEF e
  <2> QED
    BY <1>1, <1>2, <2>1, <2>2, DealIs
<1>6. ~(v > 0) => Dealing(o) = Placed(o)
  BY DEF Dealing, AfterDeal, v
<1>7. (Rest(o) = 0) \in BOOLEAN
  OBVIOUS
<1>8. /\ ~Killed(o) => SameBooks(Dealing(o), Matched0(o))
      /\ Killed(o) => SameBooks(Ctx!Release(Dealing(o), r, r.last), Matched0(o))
  BY <1>1, <1>2, <1>7, AfterEndIs DEF Matched0, r
<1> QED
  BY <1>3, <1>4, <1>5, <1>6, <1>8 DEF r, v

\* The positions alone.
LEMMA ReserveKeeps ==
  ASSUME NEW L, Volumetric(L), NEW x \in Ctxs(L), NEW r \in Orders, NEW v \in Nat
  PROVE  SamePostion(x, Ctx!Reserve(x, r, v)) /\ SamePostion(x, Ctx!Release(x, r, v))
BY ReserveOpen, ReserveClose, ReleaseOpen, ReleaseClose

LEMMA SameBooksPostion ==
  ASSUME NEW x, NEW y, SameBooks(x, y) PROVE SamePostion(x, y)
BY DEF SameBooks, SamePostion

LEMMA SamePostionOn ==
  ASSUME NEW x, NEW y, NEW z, SamePostion(x, y)
  PROVE  /\ SamePostion(y, z) => SamePostion(x, z)
         /\ \A n : \A c \in Codes, b \in Buckets, d \in Dirs :
              /\ PostionGoes(y, z, c, b, d, n) => PostionGoes(x, z, c, b, d, n)
              /\ PostionGoes(z, x, c, b, d, n) => PostionGoes(z, y, c, b, d, n)
BY DEF SamePostion, PostionGoes

LEMMA MatchPostion ==
  ASSUME NEW L, Volumetric(L), ctx \in Ctxs(L), IInv, LInv, NEW o \in loop.todo,
         state[o] \in {"INVALID", "IN_MATCH"}, MatchOrder(o), New(o) \/ Ctx!Knows(ctx, o)
  PROVE  LET r == Remainder(o)
             v == Decided(o).deal
         IN /\ ~(v > 0) => SamePostion(ctx, Matched0(o))
            /\ v > 0 => PostionGoes(ctx, Matched0(o), r.code, DealBucket(r), r.direction,
                                    DealtLots(ctx.position[r.code], r, v))
<1> DEFINE r == Remainder(o)
           v == Decided(o).deal
           q == ctx.position[r.code]
<1>1. o \in Ids /\ r \in Orders /\ v \in Nat /\ r.total \in Nat /\ r.last \in Nat
  BY MatchHandled DEF Orders
<1>2. Placed(o) \in Ctxs(L) /\ Dealing(o) \in Ctxs(L) /\ Matched0(o) \in Ctxs(L)
  BY MatchNotices
<1>3. /\ New(o) => \E z \in Ctxs(L) : /\ SameBooks(ctx, z)
                                      /\ Placed(o) = Ctx!Reserve(z, r, r.total)
      /\ ~New(o) => Placed(o) = ctx
      /\ v > 0 => \E z \in Ctxs(L) : /\ SameBooks(Placed(o), z)
                                     /\ Dealing(o) = Ctx!CalculatePosition(z, r, v)
      /\ ~(v > 0) => Dealing(o) = Placed(o)
      /\ ~Killed(o) => SameBooks(Dealing(o), Matched0(o))
      /\ Killed(o) => SameBooks(Ctx!Release(Dealing(o), r, r.last), Matched0(o))
  BY MatchBooks
<1>4. r.code \in Codes /\ r.direction \in Dirs /\ BucketOf(r) \in Buckets
  BY <1>1, OrderKeys
<1>a. DealBucket(r) \in Buckets
  BY <1>4 DEF DealBucket, Buckets
<1> HIDE DEF r, v
<1>5. SamePostion(ctx, Placed(o))
  <2>1. CASE New(o)
    <3>1. PICK z \in Ctxs(L) : SameBooks(ctx, z) /\ Placed(o) = Ctx!Reserve(z, r, r.total)
      BY <1>3, <2>1
    <3>2. SamePostion(ctx, z) /\ SamePostion(z, Placed(o))
      BY <1>1, <3>1, SameBooksPostion, ReserveKeeps
    <3> QED
      BY <3>2, SamePostionOn
  <2>2. CASE ~New(o)
    BY <1>3, <2>2 DEF SamePostion
  <2> QED
    BY <2>1, <2>2
<1>6. SamePostion(Dealing(o), Matched0(o))
  <2>1. CASE Killed(o)
    <3>1. SamePostion(Dealing(o), Ctx!Release(Dealing(o), r, r.last))
      BY <1>1, <1>2, ReserveKeeps
    <3>2. SamePostion(Ctx!Release(Dealing(o), r, r.last), Matched0(o))
      BY <1>3, <2>1, SameBooksPostion
    <3> QED
      BY <3>1, <3>2, SamePostionOn
  <2>2. CASE ~Killed(o)
    BY <1>3, <2>2, SameBooksPostion
  <2> QED
    BY <2>1, <2>2
<1>7. CASE ~(v > 0)
  BY <1>3, <1>5, <1>6, <1>7, SamePostionOn DEF r, v
<1>8. CASE v > 0
  <2> DEFINE n == DealtLots(q, r, v)
  <2>1. PICK z \in Ctxs(L) : /\ SameBooks(Placed(o), z)
                             /\ Dealing(o) = Ctx!CalculatePosition(z, r, v)
    BY <1>3, <1>8
  <2>2. SamePostion(ctx, z)
    BY <1>5, <2>1, SameBooksPostion, SamePostionOn
  <2>3. DealtLots(z.position[r.code], r, v) = n
    <3>1. z.position[r.code].postion[DealBucket(r)][r.direction]
            = q.postion[DealBucket(r)][r.direction]
      BY <1>4, <1>a, <2>2 DEF SamePostion
    <3> QED
      BY <3>1 DEF DealtLots
  <2>4. PostionGoes(z, Dealing(o), r.code, DealBucket(r), r.direction,
                    DealtLots(z.position[r.code], r, v))
    BY <1>1, <2>1, Calculated
  <2> HIDE DEF n
  <2>5. PostionGoes(z, Dealing(o), r.code, DealBucket(r), r.direction, n)
    BY <2>3, <2>4
  <2>6. PostionGoes(ctx, Dealing(o), r.code, DealBucket(r), r.direction, n)
    BY <1>4, <1>a, <2>2, <2>5, SamePostionOn
  <2>7. PostionGoes(ctx, Matched0(o), r.code, DealBucket(r), r.direction, n)
    BY <1>4, <1>a, <1>6, <2>6, SamePostionOn
  <2> QED
    BY <1>8, <2>7 DEF r, v, n
<1> QED
  BY <1>7, <1>8

-----------------------------------------------------------------------------
(* The context's positions and the exchange's *)

\* How a handler moves the exchange's positions when every charge can be paid.
LEMMA MatchMoves ==
  ASSUME IInv, LInv, BookInv, ChargesPaid, NEW o \in loop.todo, HandleMatch(o)
  PROVE  LET r == order[o]
             v == Decided(o).deal
             n == position[r.code]["today"][r.direction].postion
         IN /\ r.offset \in {"open", "clstd"}
            /\ \A c \in Codes, b \in Buckets, d \in Dirs :
                 position'[c][b][d].postion =
                   IF c = r.code /\ b = "today" /\ d = r.direction
                   THEN IF r.offset = "open" THEN n + v ELSE n - v
                   ELSE position[c][b][d].postion
<1> DEFINE r == order[o]
           v == Decided(o).deal
           item == position[r.code]["today"][r.direction]
<1>1. o \in Ids /\ r \in Orders /\ v \in 0..r.last /\ r.last \in Nat
  BY MatchOne DEF HandleMatch
<1>2. r.code \in Codes /\ r.direction \in Dirs /\ "today" \in Buckets
  BY <1>1, OrderKeys DEF Buckets
<1>3. position \in Positions /\ item \in Items /\ item.postion \in Nat
  BY <1>2, PositionTyped
<1>4. CASE r.offset = "open"
  <2>1. /\ Pays(o) <=> v > 0
        /\ Pays(o) => position' = Put(position, r.code, "today", r.direction,
                                      Bought(item, r.price, v))
        /\ ~Pays(o) => position' = position
    BY <1>4, Affords, MatchOpenLeaves DEF Pays
  <2>2. CASE v > 0
    <3>1. v \in Nat \ {0} /\ r.price \in Nat
      BY <1>1, <2>2 DEF Orders
    <3>2. Bought(item, r.price, v).postion = item.postion + v
      BY <1>3, <3>1, BoughtIs
    <3> HIDE DEF item, v
    <3>3. \A c \in Codes, b \in Buckets, d \in Dirs :
            position'[c][b][d] = IF c = r.code /\ b = "today" /\ d = r.direction
                                 THEN Bought(item, r.price, v) ELSE position[c][b][d]
      BY <1>2, <1>3, <2>1, <2>2, PutAt
    <3>4. \A c \in Codes, b \in Buckets, d \in Dirs :
            position'[c][b][d].postion = IF c = r.code /\ b = "today" /\ d = r.direction
                                         THEN item.postion + v
                                         ELSE position[c][b][d].postion
      BY <3>2, <3>3
    <3> QED
      BY <1>4, <3>4 DEF item, v
  <2>3. CASE ~(v > 0)
    BY <1>1, <1>3, <1>4, <2>1, <2>3
  <2> QED
    BY <2>2, <2>3
<1>5. CASE r.offset # "open"
  <2>1. r.offset = "clstd"
    BY <1>5, CloseCovered
  <2>2. /\ position'[r.code]["today"][r.direction].postion = item.postion - v
        /\ \A c \in Codes, k \in Buckets, d \in Dirs :
             c # r.code \/ k # "today" \/ d # r.direction =>
               position'[c][k][d] = position[c][k][d]
    BY <1>5, MatchCloseLeaves
  <2> QED
    BY <1>2, <1>5, <2>1, <2>2
<1> QED
  BY <1>4, <1>5

LEMMA CanceledMoves ==
  ASSUME IInv, LInv, BookInv, NEW o \in loop.todo, HandleCanceled(o)
  PROVE  \A c \in Codes, b \in Buckets, d \in Dirs :
           position'[c][b][d].postion = position[c][b][d].postion
<1> DEFINE r == order[o]
<1>1. o \in Ids /\ r \in Orders
  BY CanceledLeaves
<1>2. Book \in Books /\ Book.position = position
  BY BookTyped DEF Book
<1>3. CASE ~Thaws(o)
  BY <1>3, CanceledLeaves
<1>4. CASE Thaws(o) /\ r.offset = "open"
  BY <1>1, <1>2, <1>4, CanceledLeaves, UnfreezeOpen
<1>5. CASE Thaws(o) /\ r.offset # "open"
  <2>1. /\ position'[r.code]["today"][r.direction].postion
             = position[r.code]["today"][r.direction].postion
        /\ \A c2 \in Codes, k \in Buckets, d2 \in Dirs :
             c2 # r.code \/ k # "today" \/ d2 # r.direction =>
               position'[c2][k][d2] = position[c2][k][d2]
    BY <1>5, CanceledCloseLeaves
  <2> HIDE DEF r
  <2> QED
    BY <2>1
<1> QED
  BY <1>3, <1>4, <1>5

\* No position is too large for an unsigned integer.
Fits == \A c \in Codes, b \in Buckets, d \in Dirs : position[c][b][d].postion \in Lots

LEMMA FitsLots ==
  AllLots < Modulus => (IInv /\ LInv /\ BooksInv => Fits)
<1> SUFFICES ASSUME AllLots < Modulus, IInv, LInv, BooksInv PROVE Fits
  OBVIOUS
<1>1. ASSUME NEW c \in Codes, NEW b \in Buckets, NEW d \in Dirs
      PROVE  position[c][b][d].postion \in 0..AllLots /\ AllLots \in Nat
  BY PositionFits DEF BooksInv
<1> QED
  BY <1>1, ModulusAssumption DEF Fits, Lots

Agree ==
  \A c \in Codes, b \in Buckets, d \in Dirs :
    ctx.position[c].postion[b][d] = position[c][b][d].postion

LEMMA WrapSmall ==
  ASSUME NEW a \in Int, NEW b \in Int
  PROVE  /\ a + b \in Lots => Ctx!Plus(a, b) = a + b
         /\ a - b \in Lots => Ctx!Minus(a, b) = a - b
BY ModulusAssumption DEF Ctx!Plus, Ctx!Minus, Lots

LEMMA AgreeMatched ==
  ASSUME IInv, LInv, BookInv, EarsInv, Agree, Fits', ChargesPaid,
         NEW o \in loop.todo, Handling(o), HandleMatch(o)
  PROVE  Agree'
<1> DEFINE r == Remainder(o)
           v == Decided(o).deal
           n == position[r.code]["today"][r.direction].postion
           m == IF r.offset = "open" THEN n + v ELSE n - v
<1>1. state[o] \in {"INVALID", "IN_MATCH"} /\ MatchOrder(o)
  BY DEF HandleMatch
<1>2. /\ o \in Ids /\ ctx' = Matched0(o) /\ r \in Orders /\ v \in Nat
  BY <1>1, MatchHandled DEF Handling
<1>3. New(o) \/ Ctx!Knows(ctx, o)
  BY <1>1, <1>2 DEF New, EarsInv, EarsOf, Resting
<1>4. /\ ~(v > 0) => SamePostion(ctx, ctx')
      /\ v > 0 => PostionGoes(ctx, ctx', r.code, DealBucket(r), r.direction,
                              DealtLots(ctx.position[r.code], r, v))
  BY <1>1, <1>2, <1>3, AnyLots, MatchPostion DEF EarsInv
<1>5. /\ r.offset \in {"open", "clstd"}
      /\ \A c \in Codes, b \in Buckets, d \in Dirs :
           position'[c][b][d].postion = IF c = r.code /\ b = "today" /\ d = r.direction
                                        THEN m ELSE position[c][b][d].postion
  BY MatchMoves, VisitedTyped, RemainderIs
<1>6. r.code \in Codes /\ r.direction \in Dirs /\ "today" \in Buckets
  BY <1>2, OrderKeys DEF Buckets
<1>7. n \in Nat /\ ctx.position[r.code].postion["today"][r.direction] = n
  BY <1>6, PositionTyped DEF Agree
<1>8. DealBucket(r) = "today"
  BY <1>5 DEF DealBucket, BucketOf
<1> HIDE DEF r, v, n
<1>9. CASE v > 0
  <2>1. m \in Lots
    BY <1>5, <1>6 DEF Fits
  <2>2. DealtLots(ctx.position[r.code], r, v) = m
    BY <1>2, <1>7, <1>8, <2>1, WrapSmall DEF DealtLots
  <2> HIDE DEF m
  <2>3. PostionGoes(ctx, ctx', r.code, "today", r.direction, m)
    BY <1>4, <1>8, <1>9, <2>2
  <2> QED
    BY <1>5, <2>3 DEF PostionGoes, Agree
<1>10. CASE ~(v > 0)
  <2>1. m = n
    BY <1>2, <1>7, <1>10
  <2> HIDE DEF m
  <2>2. \A c \in Codes, b \in Buckets, d \in Dirs :
          position'[c][b][d].postion = position[c][b][d].postion
    BY <1>5, <2>1 DEF n
  <2> QED
    BY <1>4, <1>10, <2>2 DEF SamePostion, Agree
<1> QED
  BY <1>9, <1>10

LEMMA AgreeCanceled ==
  ASSUME IInv, LInv, BookInv, EarsInv, Agree,
         NEW o \in loop.todo, Handling(o), HandleCanceled(o)
  PROVE  Agree'
<1>1. /\ o \in Ids /\ state[o] = "CANELED" /\ order[o] \in Orders /\ order[o].last \in Nat
  BY CanceledLeaves DEF Orders
<1>2. Ctx!Knows(ctx, o)
  BY <1>1 DEF EarsInv, EarsOf, Resting
<1>3. ctx \in Ctxs(Nat) /\ Volumetric(Nat)
  BY AnyLots DEF EarsInv
<1>4. /\ Thaws(o) => SameBooks(Ctx!Release(ctx, order[o], order[o].last), ctx')
      /\ ~Thaws(o) => ctx' = ctx
  BY <1>2, <1>3, CanceledHandled DEF Handling
<1>5. SamePostion(ctx, ctx')
  <2>1. SamePostion(ctx, Ctx!Release(ctx, order[o], order[o].last))
    BY <1>1, <1>3, ReserveKeeps
  <2>2. Thaws(o) => SamePostion(Ctx!Release(ctx, order[o], order[o].last), ctx')
    BY <1>4, SameBooksPostion
  <2>3. ~Thaws(o) => SamePostion(ctx, ctx')
    BY <1>4 DEF SamePostion
  <2> QED
    BY <2>1, <2>2, <2>3, SamePostionOn
<1>6. \A c \in Codes, b \in Buckets, d \in Dirs :
        position'[c][b][d].postion = position[c][b][d].postion
  BY CanceledMoves
<1> QED
  BY <1>5, <1>6 DEF SamePostion, Agree

LEMMA LoadPostion ==
  ASSUME NEW L, Volumetric(L), ctx \in Ctxs(L), IInv, NEW p,
         \A c \in Codes, b \in Buckets, d \in Dirs : p[c][b][d].postion \in L,
         NEW y, y = Ctx!LoadData(ctx, Live, order, p, held)
  PROVE  /\ y \in Ctxs(L)
         /\ \A c \in Codes, b \in Buckets, d \in Dirs :
              y.position[c].postion[b][d] = p[c][b][d].postion
<1> DEFINE z == Ctx!LoadData(ctx, Live, order, p, held)
<1>1. /\ z \in Ctxs(L) /\ SameEars(ctx, z)
      /\ z.order = [o \in Ids |-> IF o \in Live THEN order[o].last ELSE Ctx!Unknown]
      /\ \A c \in Codes, b \in Buckets, d \in Dirs :
           z.position[c].postion[b][d] = p[c][b][d].postion
  BY LoadIs
<1> HIDE DEF z
<1>2. /\ z \in Ctxs(L)
      /\ \A c \in Codes, b \in Buckets, d \in Dirs :
           z.position[c].postion[b][d] = p[c][b][d].postion
  BY <1>1
<1> QED
  BY <1>2 DEF z

LEMMA AgreeStep ==
  ASSUME BacktestInv, ~CancelsEnded, EarsInv, BookInv, Agree, Fits', ChargesPaid,
         [BacktestNext]_allVars
  PROVE  Agree'
<1>1. /\ IInv /\ LInv /\ IInv'
      /\ Resume \/ (\E o \in loop.todo : Handling(o)) \/ NextDay
  BY BacktestKeeps, EarsStep DEF BacktestInv
<1>2. CASE Resume
  BY <1>2 DEF Resume, Talks, SameBooks, Agree
<1>3. CASE \E o \in loop.todo : Handling(o)
  <2>1. PICK o \in loop.todo : Handling(o)
    BY <1>3
  <2>2. CASE HandleCanceled(o)
    BY <1>1, <2>1, <2>2, AgreeCanceled
  <2>3. CASE HandleRefused(o)
    <3>1. SameBooks(ctx, ctx') /\ position' = position
      BY <1>1, <2>1, <2>3, AnyLots, RefusedHandled DEF Handling, EarsInv
    <3> QED
      BY <3>1 DEF SameBooks, Agree
  <2>4. CASE HandleMatch(o)
    BY <1>1, <2>1, <2>4, AgreeMatched
  <2> QED
    BY <2>1, <2>2, <2>3, <2>4 DEF Handling
<1>4. CASE NextDay
  <2>1. ctx' = Ctx!LoadData(ctx, Live, order, position', held)
    BY <1>4 DEF NextDay
  <2>2. \A c \in Codes, b \in Buckets, d \in Dirs : position'[c][b][d].postion \in Nat
    BY <1>1 DEF IInv, TypeOK
  <2>3. \A c \in Codes, b \in Buckets, d \in Dirs :
          ctx'.position[c].postion[b][d] = position'[c][b][d].postion
    BY <1>1, <2>1, <2>2, AnyLots, LoadPostion DEF EarsInv
  <2> QED
    BY <2>3 DEF Agree
<1> QED
  BY <1>1, <1>2, <1>3, <1>4

LEMMA BooksAlways == ASSUME ~CancelsEnded
                     PROVE  BacktestSpec => [](BacktestInv /\ EarsInv /\ BooksInv)
<1>1. BacktestInit => BooksInv
  BY InitBooks DEF BacktestInit
<1>2. BacktestInv => GapTyped
  BY GapHasType DEF BacktestInv
<1>3. BacktestInv /\ BooksInv /\ GapTyped /\ GapTyped' /\ [BacktestNext]_allVars => BooksInv'
  BY BacktestKeeps, BooksStep DEF BacktestInv
<1> QED
  BY <1>1, <1>2, <1>3, EarsAlways, PTL DEF BacktestSpec

LEMMA AgreeStarts == BacktestInit => Agree
<1> SUFFICES ASSUME BacktestInit PROVE Agree
  OBVIOUS
<1>1. \A c \in Codes : ctx.position[c] = Ctx!NoPosition
  BY AnyLots, EmptyIs DEF BacktestInit
<1>2. \A b \in Buckets, d \in Dirs : Ctx!NoPosition.postion[b][d] = 0
  BY AnyLots, ZeroIs
<1>3. \A c \in Codes, b \in Buckets, d \in Dirs : position[c][b][d].postion = 0
  BY DEF BacktestInit, Init, NoItem
<1> QED
  BY <1>1, <1>2, <1>3 DEF Agree

\* As long as every charge can be paid, what the context's notices make of the
\* positions is what the exchange holds, through every interleaving of deals,
\* cancels, callbacks and days; if the lots the orders can ask for fit into an
\* unsigned integer.
THEOREM PositionsStayAgreed ==
  ASSUME ~CancelsEnded, AllLots < Modulus
  PROVE  BacktestSpec /\ []ChargesPaid => []PositionsAgree
<1>1. BacktestInit => Agree
  BY AgreeStarts
<1>2. BacktestInv /\ BooksInv => Fits
  BY FitsLots DEF BacktestInv
<1>3. BacktestInv /\ EarsInv /\ BooksInv /\ Agree /\ Fits' /\ ChargesPaid
        /\ [BacktestNext]_allVars => Agree'
  BY AgreeStep DEF BooksInv
<1>4. Agree => PositionsAgree
  BY DEF Agree, PositionsAgree
<1> QED
  BY <1>1, <1>2, <1>3, <1>4, BooksAlways, PTL DEF BacktestSpec

-----------------------------------------------------------------------------
(* The types of the back test *)

EngineTypes ==
  /\ session \in {"init", "open", "break", "stopped"}
  /\ phase \in {"market", "trader", "strategy", "check"}
  /\ todo \subseteq Ids

LEMMA EngineStep ==
  ASSUME EngineTypes, [BacktestNext]_allVars
  PROVE  EngineTypes'
<1>1. CASE \E c \in Codes : PublishTick(c)
  <2>1. /\ session' \in {session, "init", "open", "break"}
        /\ phase' \in {"trader", "market"} /\ todo' = todo
    BY <1>1 DEF PublishTick
  <2> QED
    BY <2>1 DEF EngineTypes
<1>2. CASE \E o \in Ids : \/ StrategyPlace(o) \/ StrategyCancel(o)
                          \/ StrategyCancelRefused(o) \/ SetCancelCondition(o)
  <2>1. UNCHANGED <<session, phase, todo>>
    BY <1>2 DEF StrategyPlace, StrategyCancel, StrategyCancelRefused, SetCancelCondition
  <2> QED
    BY <2>1 DEF EngineTypes
<1>3. CASE Trader
  <2>1. session' = session /\ todo' = todo /\ phase' \in {phase, "trader", "strategy"}
    BY <1>3 DEF Trader, engineVars
  <2> QED
    BY <2>1 DEF EngineTypes
<1>4. CASE BeginCheck
  <2>1. session' = session /\ todo' \subseteq Ids /\ phase' \in {"market", "check"}
    BY <1>4 DEF BeginCheck, Conditions
  <2> QED
    BY <2>1 DEF EngineTypes
<1>5. CASE CheckCondition
  <2>1. session' = session /\ todo' \subseteq todo /\ phase' \in {"market", "check"}
    BY <1>5 DEF CheckCondition
  <2> QED
    BY <2>1 DEF EngineTypes
<1>6. CASE Stop
  BY <1>6 DEF Stop, EngineTypes
<1>7. CASE NextDay
  BY <1>7 DEF NextDay, EngineTypes
<1>8. CASE UNCHANGED allVars
  BY <1>8 DEF allVars, engineVars, EngineTypes
<1> QED
  BY <1>1, <1>2, <1>3, <1>4, <1>5, <1>6, <1>7, <1>8 DEF BacktestNext

\* What touches neither the books nor the orders keeps the volumes.
LEMMA TalksIn ==
  ASSUME NEW L, NEW x \in Ctxs(L), NEW y \in Ctxs(Nat), Talks(x, y)
  PROVE  y \in Ctxs(L)
<1>1. y.position = x.position /\ x.position \in [Codes -> Ledgers(L)]
  BY DEF Talks, SameBooks, Ctxs
<1> QED
  BY <1>1 DEF Ctxs

VolumesFit == ctx \in Ctxs(Lots)

LEMMA VolumesStep ==
  ASSUME BacktestInv, ~CancelsEnded, EarsInv, VolumesFit, Fits',
         [BacktestNext]_allVars
  PROVE  VolumesFit'
<1> USE DEF VolumesFit
<1>1. /\ IInv /\ LInv /\ ctx' \in Ctxs(Nat)
      /\ Resume \/ (\E o \in loop.todo : Handling(o)) \/ NextDay
  <2>1. IInv /\ LInv /\ EarsInv' /\ (Resume \/ (\E o \in loop.todo : Handling(o)) \/ NextDay)
    BY BacktestKeeps, EarsStep DEF BacktestInv
  <2> QED
    BY <2>1 DEF EarsInv
<1>2. CASE Resume
  <2>1. Talks(ctx, ctx')
    BY <1>2 DEF Resume
  <2> QED
    BY <1>1, <2>1, TalksIn
<1>3. CASE \E o \in loop.todo : Handling(o)
  BY <1>1, <1>3, AnyLots, HandledIs
<1>4. CASE NextDay
  <2>1. ctx' = Ctx!LoadData(ctx, Live, order, position', held)
    BY <1>4 DEF NextDay
  <2>2. \A c \in Codes, b \in Buckets, d \in Dirs : position'[c][b][d].postion \in Lots
    BY DEF Fits
  <2> QED
    BY <1>1, <2>1, <2>2, AnyLots, LoadPostion
<1> QED
  BY <1>1, <1>2, <1>3, <1>4

\* Every volume the context keeps is an unsigned integer's, and its orders,
\* listeners and conditions are of the orders there are, whatever is counted
\* down below zero on the way; if the lots the orders can ask for fit into one.
THEOREM BacktestStaysTyped ==
  ASSUME ~CancelsEnded, AllLots < Modulus
  PROVE  BacktestSpec => []BacktestTypeOK
<1>1. BacktestInit => EngineTypes /\ VolumesFit
  BY AnyLots, EmptyIs DEF VolumesFit, BacktestInit, EngineTypes
<1>2. BacktestInv /\ BooksInv => Fits
  BY FitsLots DEF BacktestInv
<1>3. EngineTypes /\ [BacktestNext]_allVars => EngineTypes'
  BY EngineStep
<1>4. BacktestInv /\ EarsInv /\ VolumesFit /\ Fits' /\ [BacktestNext]_allVars
        => VolumesFit'
  BY VolumesStep
<1>5. EngineTypes /\ VolumesFit => BacktestTypeOK
  <2> SUFFICES ASSUME EngineTypes, VolumesFit PROVE BacktestTypeOK
    OBVIOUS
  <2>1. /\ ctx.position \in [Codes -> Ledgers(Lots)]
        /\ ctx.order \in [Ids -> Nat \cup {Ctx!Unknown}]
        /\ ctx.entries \subseteq Codes /\ ctx.listener \subseteq Ids
        /\ ctx.condition \in [Ids -> {"none", "always", "user"}]
    BY DEF VolumesFit, Ctxs, Wishes
  <2>2. Ledgers(Lots) = [postion : [Buckets -> [Dirs -> 0..Modulus - 1]],
                         frozen  : [Buckets -> [Dirs -> 0..Modulus - 1]],
                         pending : [Dirs -> 0..Modulus - 1]]
    BY Zenon DEF Ledgers, Lots
  <2> QED
    BY <2>1, <2>2 DEF EngineTypes, BacktestTypeOK
<1> QED
  BY <1>1, <1>2, <1>3, <1>4, <1>5, BooksAlways, PTL DEF BacktestSpec

-----------------------------------------------------------------------------
(* What is left of the orders in the match, in the context's books *)

\* A code that has no entry has nothing to give back, and what is frozen of a
\* position is held.
Backed(x) ==
  \A c \in Codes, b \in Buckets, d \in Dirs :
    /\ x.position[c].frozen[b][d] <= x.position[c].postion[b][d]
    /\ c \notin x.entries => /\ x.position[c].postion[b][d] = 0
                             /\ x.position[c].pending[d] = 0

Pending(x, r) == x.position[r.code].pending[r.direction]
Frozen(x, r) == x.position[r.code].frozen[BucketOf(r)][r.direction]
Postion(x, r) == x.position[r.code].postion[DealBucket(r)][r.direction]

\* The lots of r in a context go to n, those it reserves as well as those it has.
WaitsFor(x, y, r, n) ==
  /\ PendingGoes(x, y, r.code, r.direction, n)
  /\ SameFrozen(x, y)

Freezes(x, y, r, n) ==
  /\ FrozenGoes(x, y, r.code, BucketOf(r), r.direction, n)
  /\ SamePending(x, y)

LEMMA GoesTwice ==
  ASSUME NEW x, NEW y, NEW z, NEW r, NEW n, NEW m
  PROVE  /\ WaitsFor(x, y, r, n) /\ WaitsFor(y, z, r, m) => WaitsFor(x, z, r, m)
         /\ Freezes(x, y, r, n) /\ Freezes(y, z, r, m) => Freezes(x, z, r, m)
BY DEF WaitsFor, Freezes, PendingGoes, FrozenGoes, SamePending, SameFrozen

\* A step that leaves everything as it was leaves a position where it was.
LEMMA GoesNowhere ==
  ASSUME NEW x, NEW y, SameBooks(x, y), NEW r \in Orders
  PROVE  /\ WaitsFor(x, y, r, Pending(x, r)) /\ Freezes(x, y, r, Frozen(x, r))
         /\ Pending(y, r) = Pending(x, r) /\ Frozen(y, r) = Frozen(x, r)
         /\ Postion(y, r) = Postion(x, r)
         /\ Backed(x) => Backed(y)
BY DEF SameBooks, WaitsFor, Freezes, Pending, Frozen, Postion, PendingGoes, FrozenGoes,
       SamePending, SameFrozen, Backed

LEMMA KeyLots ==
  ASSUME NEW x \in Ctxs(Lots), NEW r \in Orders
  PROVE  /\ r.code \in Codes /\ r.direction \in Dirs /\ BucketOf(r) \in Buckets
         /\ DealBucket(r) \in Buckets
         /\ Pending(x, r) \in Lots /\ Pending(x, r) \in Nat
         /\ Frozen(x, r) \in Lots /\ Frozen(x, r) \in Nat
         /\ Postion(x, r) \in Lots /\ Postion(x, r) \in Nat
<1>1. r.code \in Codes /\ r.direction \in Dirs /\ BucketOf(r) \in Buckets
  BY OrderKeys
<1>2. DealBucket(r) \in Buckets
  BY <1>1 DEF DealBucket, Buckets
<1>3. /\ Pending(x, r) \in Lots /\ Frozen(x, r) \in Lots /\ Postion(x, r) \in Lots
  BY <1>1, <1>2, AnyLots, LotInt DEF Pending, Frozen, Postion
<1> QED
  BY <1>1, <1>2, <1>3, AnyLots, InNat

LEMMA ReservedOpen ==
  ASSUME NEW x \in Ctxs(Lots), Backed(x), NEW r \in Orders, NEW v \in Nat,
         r.offset = "open", Pending(x, r) + v \in Lots
  PROVE  LET y == Ctx!Reserve(x, r, v)
         IN /\ y \in Ctxs(Lots) /\ Backed(y) /\ SamePostion(x, y)
            /\ WaitsFor(x, y, r, Pending(x, r) + v)
<1> DEFINE y == Ctx!Reserve(x, r, v)
           n == Pending(x, r) + v
<1>1. Pending(x, r) \in Int
  BY KeyLots
<1>2. Ctx!Plus(x.position[r.code].pending[r.direction], v) = n
  BY <1>1, WrapSmall DEF Pending
<1>3. /\ y \in Ctxs(Lots) /\ y.entries = x.entries \cup {r.code}
      /\ SamePostion(x, y) /\ SameFrozen(x, y)
      /\ PendingGoes(x, y, r.code, r.direction,
                     Ctx!Plus(x.position[r.code].pending[r.direction], v))
  BY AnyLots, ReserveOpen
<1> HIDE DEF y, n
<1>4. PendingGoes(x, y, r.code, r.direction, n)
  BY <1>2, <1>3
<1>5. Backed(y)
  BY <1>3, <1>4 DEF Backed, SamePostion, SameFrozen, PendingGoes
<1> QED
  BY <1>3, <1>4, <1>5 DEF WaitsFor, y, n

LEMMA ReservedClose ==
  ASSUME NEW x \in Ctxs(Lots), Backed(x), NEW r \in Orders, NEW v \in Nat \ {0},
         r.offset # "open", Frozen(x, r) + v <= Postion(x, r)
  PROVE  LET y == Ctx!Reserve(x, r, v)
         IN /\ y \in Ctxs(Lots) /\ Backed(y) /\ SamePostion(x, y)
            /\ Freezes(x, y, r, Frozen(x, r) + v)
<1> DEFINE y == Ctx!Reserve(x, r, v)
           n == Frozen(x, r) + v
<1>1. /\ Frozen(x, r) \in Nat /\ Postion(x, r) \in Lots /\ Postion(x, r) \in Nat
      /\ r.code \in Codes /\ r.direction \in Dirs /\ DealBucket(r) = BucketOf(r)
      /\ BucketOf(r) \in Buckets
  BY KeyLots DEF DealBucket
<1>2. n \in Lots /\ n \in Nat /\ Postion(x, r) # 0
  BY <1>1, ModulusAssumption DEF Lots
<1>3. Ctx!Plus(x.position[r.code].frozen[BucketOf(r)][r.direction], v) = n
  BY <1>1, <1>2, WrapSmall DEF Frozen
<1>4. r.code \in x.entries
  BY <1>1, <1>2 DEF Backed, Postion
<1>5. /\ y \in Ctxs(Lots) /\ y.entries = x.entries
      /\ SamePostion(x, y) /\ SamePending(x, y)
      /\ FrozenGoes(x, y, r.code, BucketOf(r), r.direction,
                    Ctx!Plus(x.position[r.code].frozen[BucketOf(r)][r.direction], v))
  BY <1>4, AnyLots, ReserveClose
<1>6. n <= x.position[r.code].postion[BucketOf(r)][r.direction]
  BY <1>1 DEF Postion
<1> HIDE DEF y, n
<1>7. FrozenGoes(x, y, r.code, BucketOf(r), r.direction, n)
  BY <1>3, <1>5
<1>8. Backed(y)
  BY <1>5, <1>6, <1>7 DEF Backed, SamePostion, SamePending, FrozenGoes
<1> QED
  BY <1>5, <1>7, <1>8 DEF Freezes, y, n

\* A deal takes what it moves from what waits.
LEMMA CalculatedOpen ==
  ASSUME NEW x \in Ctxs(Lots), Backed(x), NEW r \in Orders, NEW v \in Nat \ {0},
         r.offset = "open", v <= Pending(x, r), Postion(x, r) + v \in Lots
  PROVE  LET y == Ctx!CalculatePosition(x, r, v)
         IN /\ y \in Ctxs(Lots) /\ Backed(y)
            /\ WaitsFor(x, y, r, Pending(x, r) - v)
<1> DEFINE y == Ctx!CalculatePosition(x, r, v)
           q == x.position[r.code]
           n == Pending(x, r) - v
           m == Postion(x, r) + v
<1>1. /\ Pending(x, r) \in Nat /\ Pending(x, r) \in Lots /\ Postion(x, r) \in Nat
      /\ r.code \in Codes /\ r.direction \in Dirs /\ DealBucket(r) \in Buckets
  BY KeyLots
<1>2. n \in Lots /\ m \in Lots /\ m # 0
  BY <1>1, ModulusAssumption DEF Lots
<1>3. Ctx!Minus(q.pending[r.direction], v) = n /\ DealtLots(q, r, v) = m
  BY <1>1, <1>2, WrapSmall DEF Pending, Postion, DealtLots
<1>4. /\ y \in Ctxs(Lots)
      /\ y.entries \in {x.entries \ {r.code}, x.entries \cup {r.code}}
      /\ r.code \notin y.entries => y.position[r.code] = Ctx!NoPosition
      /\ PostionGoes(x, y, r.code, DealBucket(r), r.direction, DealtLots(q, r, v))
      /\ PendingGoes(x, y, r.code, r.direction, Ctx!Minus(q.pending[r.direction], v))
      /\ r.code \in y.entries => SameFrozen(x, y)
  BY AnyLots, Calculated
<1> HIDE DEF y, q, n
<1>5. /\ PostionGoes(x, y, r.code, DealBucket(r), r.direction, m)
      /\ PendingGoes(x, y, r.code, r.direction, n)
  BY <1>3, <1>4
<1>6. r.code \in y.entries
  <2>1. y.position[r.code].postion[DealBucket(r)][r.direction] = m
    BY <1>1, <1>5 DEF PostionGoes
  <2>2. Ctx!NoPosition.postion[DealBucket(r)][r.direction] = 0
    BY <1>1, AnyLots, ZeroIs
  <2> QED
    BY <1>2, <1>4, <2>1, <2>2
<1>7. m >= Postion(x, r)
  BY <1>1
<1> HIDE DEF m
<1>8. Backed(y)
  <2> SUFFICES ASSUME NEW c \in Codes, NEW b \in Buckets, NEW d \in Dirs
               PROVE  /\ y.position[c].frozen[b][d] <= y.position[c].postion[b][d]
                      /\ c \notin y.entries => /\ y.position[c].postion[b][d] = 0
                                               /\ y.position[c].pending[d] = 0
    BY DEF Backed
  <2>1. /\ x.position[c].frozen[b][d] <= x.position[c].postion[b][d]
        /\ x.position[c].frozen[b][d] \in Nat /\ x.position[c].postion[b][d] \in Nat
        /\ c \notin x.entries => /\ x.position[c].postion[b][d] = 0
                                 /\ x.position[c].pending[d] = 0
    BY AnyLots, LotInt DEF Backed
  <2>2. y.position[c].frozen[b][d] = x.position[c].frozen[b][d]
    BY <1>4, <1>6 DEF SameFrozen
  <2>3. CASE c = r.code /\ b = DealBucket(r) /\ d = r.direction
    <3>1. y.position[c].postion[b][d] = m /\ x.position[c].postion[b][d] = Postion(x, r)
      BY <1>5, <2>3 DEF PostionGoes, Postion
    <3>2. m \in Nat
      BY <1>2, AnyLots, InNat
    <3> QED
      BY <1>6, <1>7, <2>1, <2>2, <2>3, <3>1, <3>2
  <2>4. CASE ~(c = r.code /\ b = DealBucket(r) /\ d = r.direction)
    <3>1. y.position[c].postion[b][d] = x.position[c].postion[b][d]
      BY <1>5, <2>4 DEF PostionGoes
    <3>2. c \notin y.entries =>
            c \notin x.entries /\ y.position[c].pending[d] = x.position[c].pending[d]
      BY <1>4, <1>5, <1>6 DEF PendingGoes
    <3> QED
      BY <2>1, <2>2, <3>1, <3>2
  <2> QED
    BY <2>3, <2>4
<1> QED
  BY <1>4, <1>5, <1>6, <1>8 DEF WaitsFor, y, n

LEMMA CalculatedClose ==
  ASSUME NEW x \in Ctxs(Lots), Backed(x), NEW r \in Orders, NEW v \in Nat \ {0},
         r.offset # "open", v <= Frozen(x, r)
  PROVE  LET y == Ctx!CalculatePosition(x, r, v)
         IN /\ y \in Ctxs(Lots) /\ Backed(y)
            /\ Freezes(x, y, r, Frozen(x, r) - v)
<1> DEFINE y == Ctx!CalculatePosition(x, r, v)
           q == x.position[r.code]
           n == Frozen(x, r) - v
           m == Postion(x, r) - v
<1>1. /\ Frozen(x, r) \in Nat /\ Frozen(x, r) \in Lots /\ Postion(x, r) \in Nat
      /\ Postion(x, r) \in Lots /\ r.code \in Codes /\ r.direction \in Dirs
      /\ BucketOf(r) \in Buckets /\ DealBucket(r) = BucketOf(r)
  BY KeyLots DEF DealBucket
<1>2. Frozen(x, r) <= Postion(x, r)
  BY <1>1 DEF Backed, Frozen, Postion
<1>3. n \in Lots /\ m \in Lots /\ n <= m /\ n \in Nat /\ m \in Nat
  BY <1>1, <1>2, ModulusAssumption DEF Lots
<1>4. /\ Ctx!Minus(q.frozen[BucketOf(r)][r.direction], v) = n
      /\ DealtLots(q, r, v) = m
  BY <1>1, <1>3, WrapSmall DEF Frozen, Postion, DealtLots
<1>5. /\ y \in Ctxs(Lots)
      /\ y.entries \in {x.entries \ {r.code}, x.entries \cup {r.code}}
      /\ r.code \notin y.entries => y.position[r.code] = Ctx!NoPosition
      /\ \A c \in Codes \ {r.code} : y.position[c] = x.position[c]
      /\ PostionGoes(x, y, r.code, DealBucket(r), r.direction, DealtLots(q, r, v))
      /\ SamePending(x, y)
      /\ r.code \in y.entries =>
           FrozenGoes(x, y, r.code, BucketOf(r), r.direction,
                      Ctx!Minus(q.frozen[BucketOf(r)][r.direction], v))
  BY AnyLots, Calculated
<1> HIDE DEF y, q, n, m
<1>6. /\ PostionGoes(x, y, r.code, BucketOf(r), r.direction, m)
      /\ r.code \in y.entries => FrozenGoes(x, y, r.code, BucketOf(r), r.direction, n)
  BY <1>1, <1>4, <1>5
<1>7. ASSUME r.code \notin y.entries, NEW b \in Buckets, NEW d \in Dirs
      PROVE  /\ y.position[r.code].frozen[b][d] = 0 /\ y.position[r.code].postion[b][d] = 0
             /\ y.position[r.code].pending[d] = 0
             /\ b = BucketOf(r) /\ d = r.direction => n = 0
             /\ ~(b = BucketOf(r) /\ d = r.direction) => x.position[r.code].frozen[b][d] = 0
  <2>1. y.position[r.code] = Ctx!NoPosition
    BY <1>5, <1>7
  <2>2. /\ y.position[r.code].frozen[b][d] = 0 /\ y.position[r.code].postion[b][d] = 0
        /\ y.position[r.code].pending[d] = 0
    BY <2>1, AnyLots, ZeroIs
  <2>3. b = BucketOf(r) /\ d = r.direction => n = 0
    <3>1. b = BucketOf(r) /\ d = r.direction => m = 0
      BY <1>1, <1>6, <2>2 DEF PostionGoes
    <3> QED
      BY <1>3, <3>1
  <2>4. ~(b = BucketOf(r) /\ d = r.direction) => x.position[r.code].frozen[b][d] = 0
    <3>1. ~(b = BucketOf(r) /\ d = r.direction) => x.position[r.code].postion[b][d] = 0
      BY <1>1, <1>6, <2>2 DEF PostionGoes
    <3>2. /\ x.position[r.code].frozen[b][d] <= x.position[r.code].postion[b][d]
          /\ x.position[r.code].frozen[b][d] \in Nat
      BY <1>1, AnyLots, LotInt DEF Backed
    <3> QED
      BY <3>1, <3>2
  <2> QED
    BY <2>2, <2>3, <2>4
<1>8. FrozenGoes(x, y, r.code, BucketOf(r), r.direction, n)
  <2>1. CASE r.code \in y.entries
    BY <1>6, <2>1
  <2>2. CASE r.code \notin y.entries
    BY <1>5, <1>7, <2>2 DEF FrozenGoes
  <2> QED
    BY <2>1, <2>2
<1>9. Backed(y)
  <2> SUFFICES ASSUME NEW c \in Codes, NEW b \in Buckets, NEW d \in Dirs
               PROVE  /\ y.position[c].frozen[b][d] <= y.position[c].postion[b][d]
                      /\ c \notin y.entries => /\ y.position[c].postion[b][d] = 0
                                               /\ y.position[c].pending[d] = 0
    BY DEF Backed
  <2>1. /\ x.position[c].frozen[b][d] <= x.position[c].postion[b][d]
        /\ c \notin x.entries => /\ x.position[c].postion[b][d] = 0
                                 /\ x.position[c].pending[d] = 0
    BY DEF Backed
  <2>2. CASE c # r.code
    BY <1>5, <2>1, <2>2
  <2>3. CASE c = r.code
    <3>1. y.position[c].frozen[b][d] <= y.position[c].postion[b][d]
      BY <1>1, <1>3, <1>6, <1>8, <2>1, <2>3 DEF FrozenGoes, PostionGoes
    <3> QED
      BY <1>7, <2>3, <3>1
  <2> QED
    BY <2>2, <2>3
<1> QED
  BY <1>5, <1>8, <1>9 DEF Freezes, y, n

\* What a cancel gives back.
LEMMA ReleasedOpen ==
  ASSUME NEW x \in Ctxs(Lots), Backed(x), NEW r \in Orders, NEW v \in Nat \ {0},
         r.offset = "open", v <= Pending(x, r)
  PROVE  LET y == Ctx!Release(x, r, v)
         IN /\ y \in Ctxs(Lots) /\ Backed(y)
            /\ WaitsFor(x, y, r, Pending(x, r) - v)
<1> DEFINE y == Ctx!Release(x, r, v)
           n == Pending(x, r) - v
<1>1. /\ Pending(x, r) \in Nat /\ Pending(x, r) \in Lots
      /\ r.code \in Codes /\ r.direction \in Dirs /\ DealBucket(r) \in Buckets
  BY KeyLots
<1>2. n \in Lots /\ Pending(x, r) # 0
  BY <1>1, ModulusAssumption DEF Lots
<1>3. Ctx!Minus(x.position[r.code].pending[r.direction], v) = n
  BY <1>1, <1>2, WrapSmall DEF Pending
<1>4. r.code \in x.entries
  BY <1>1, <1>2 DEF Backed, Pending
<1>5. /\ y \in Ctxs(Lots) /\ y.entries = x.entries
      /\ SamePostion(x, y) /\ SameFrozen(x, y)
      /\ PendingGoes(x, y, r.code, r.direction,
                     Ctx!Minus(x.position[r.code].pending[r.direction], v))
  BY <1>4, AnyLots, ReleaseOpen
<1> HIDE DEF y, n
<1>6. PendingGoes(x, y, r.code, r.direction, n)
  BY <1>3, <1>5
<1>7. Backed(y)
  BY <1>4, <1>5, <1>6 DEF Backed, SamePostion, SameFrozen, PendingGoes
<1> QED
  BY <1>5, <1>6, <1>7 DEF WaitsFor, y, n

LEMMA ReleasedClose ==
  ASSUME NEW x \in Ctxs(Lots), Backed(x), NEW r \in Orders, NEW v \in Nat \ {0},
         r.offset # "open", v <= Frozen(x, r)
  PROVE  LET y == Ctx!Release(x, r, v)
         IN /\ y \in Ctxs(Lots) /\ Backed(y)
            /\ Freezes(x, y, r, Frozen(x, r) - v)
<1> DEFINE y == Ctx!Release(x, r, v)
           f == x.position[r.code].frozen[BucketOf(r)][r.direction]
           n == Frozen(x, r) - v
<1>1. /\ Frozen(x, r) \in Nat /\ Postion(x, r) \in Nat
      /\ r.code \in Codes /\ r.direction \in Dirs /\ DealBucket(r) = BucketOf(r)
      /\ BucketOf(r) \in Buckets
  BY KeyLots DEF DealBucket
<1>2. n \in Nat /\ n <= Frozen(x, r) /\ Frozen(x, r) # 0
  BY <1>1
<1>a. Frozen(x, r) <= Postion(x, r)
  BY <1>1 DEF Backed, Frozen, Postion
<1>3. (IF f > v THEN f - v ELSE 0) = n
  BY <1>1 DEF Frozen
<1>4. r.code \in x.entries
  <2>1. Postion(x, r) # 0
    BY <1>1, <1>2, <1>a
  <2> QED
    BY <1>1, <2>1 DEF Backed, Postion
<1>5. /\ y \in Ctxs(Lots) /\ y.entries = x.entries
      /\ SamePostion(x, y) /\ SamePending(x, y)
      /\ FrozenGoes(x, y, r.code, BucketOf(r), r.direction, IF f > v THEN f - v ELSE 0)
  BY <1>4, AnyLots, ReleaseClose
<1>b. n <= x.position[r.code].postion[BucketOf(r)][r.direction]
  BY <1>1, <1>2, <1>a DEF Postion
<1> HIDE DEF y, n, f
<1>6. FrozenGoes(x, y, r.code, BucketOf(r), r.direction, n)
  BY <1>3, <1>5
<1>7. Backed(y)
  BY <1>5, <1>6, <1>b DEF Backed, SamePostion, SamePending, FrozenGoes
<1> QED
  BY <1>5, <1>6, <1>7 DEF Freezes, y, n

LEMMA GoesTo ==
  ASSUME NEW x, NEW y, NEW r \in Orders, NEW n
  PROVE  /\ WaitsFor(x, y, r, n) => Pending(y, r) = n
         /\ Freezes(x, y, r, n) => Frozen(y, r) = n
         /\ SamePostion(x, y) => Postion(y, r) = Postion(x, r)
<1>1. /\ r.code \in Codes /\ r.direction \in Dirs /\ BucketOf(r) \in Buckets
      /\ DealBucket(r) \in Buckets
  BY OrderKeys DEF DealBucket, Buckets
<1> QED
  BY <1>1 DEF WaitsFor, Freezes, PendingGoes, FrozenGoes, SamePostion, Pending, Frozen, Postion

\* What entering the match, the deal and the end of an opening order make of
\* its pending lots, all in all.
LEMMA MatchWaitsFor ==
  ASSUME ctx \in Ctxs(Lots), Backed(ctx), IInv, LInv, NEW o \in loop.todo,
         state[o] \in {"INVALID", "IN_MATCH"}, MatchOrder(o), New(o) \/ Ctx!Knows(ctx, o),
         order[o].offset = "open", NEW k \in Nat,
         k = IF New(o) THEN order[o].total ELSE 0,
         NEW end \in Nat, end = IF Killed(o) THEN Rest(o) ELSE 0,
         Pending(ctx, Remainder(o)) + k \in Lots,
         order[o].last <= Pending(ctx, Remainder(o)) + k,
         Postion(ctx, Remainder(o)) + Decided(o).deal \in Lots
  PROVE  /\ Matched0(o) \in Ctxs(Lots) /\ Backed(Matched0(o))
         /\ WaitsFor(ctx, Matched0(o), Remainder(o),
                Pending(ctx, Remainder(o)) + k - Decided(o).deal - end)
<1> DEFINE r == Remainder(o)
           v == Decided(o).deal
           n == Pending(ctx, r) + k
<1>1. /\ o \in Ids /\ r \in Orders /\ v \in Nat /\ r.last = Rest(o) /\ Rest(o) \in Nat
      /\ v = order[o].last - Rest(o) /\ (Killed(o) => Rest(o) # 0) /\ Killed(o) \in BOOLEAN
  BY MatchHandled
<1>2. r.offset = "open" /\ r.total = order[o].total /\ order[o].last \in Nat
  BY VisitedTyped, RemainderIs DEF Orders
<1>3. /\ New(o) => \E z \in Ctxs(Lots) : /\ SameBooks(ctx, z)
                                         /\ Placed(o) = Ctx!Reserve(z, r, r.total)
      /\ ~New(o) => Placed(o) = ctx
      /\ v > 0 => \E z \in Ctxs(Lots) : /\ SameBooks(Placed(o), z)
                                        /\ Dealing(o) = Ctx!CalculatePosition(z, r, v)
      /\ ~(v > 0) => Dealing(o) = Placed(o)
      /\ ~Killed(o) => SameBooks(Dealing(o), Matched0(o))
      /\ Killed(o) => SameBooks(Ctx!Release(Dealing(o), r, r.last), Matched0(o))
  BY AnyLots, MatchBooks
<1>4. /\ Placed(o) \in Ctxs(Lots) /\ Dealing(o) \in Ctxs(Lots) /\ Matched0(o) \in Ctxs(Lots)
  BY AnyLots, MatchNotices
<1>5. /\ Pending(ctx, r) \in Nat /\ n \in Lots /\ order[o].last <= n
      /\ Postion(ctx, r) + v \in Lots
  BY <1>1, KeyLots
<1> HIDE DEF r, v
<1>6. /\ Backed(Placed(o)) /\ WaitsFor(ctx, Placed(o), r, n)
      /\ Postion(Placed(o), r) = Postion(ctx, r)
  <2>1. CASE New(o)
    <3>1. PICK z \in Ctxs(Lots) : SameBooks(ctx, z) /\ Placed(o) = Ctx!Reserve(z, r, r.total)
      BY <1>3, <2>1
    <3>2. /\ WaitsFor(ctx, z, r, Pending(ctx, r)) /\ Pending(z, r) = Pending(ctx, r)
          /\ Postion(z, r) = Postion(ctx, r) /\ Backed(z)
      BY <1>1, <3>1, GoesNowhere
    <3>3. r.total = k
      BY <1>2, <2>1
    <3>4. Pending(z, r) + r.total = n /\ r.total \in Nat
      BY <3>2, <3>3
    <3> HIDE DEF n
    <3>5. /\ Backed(Placed(o)) /\ SamePostion(z, Placed(o))
          /\ WaitsFor(z, Placed(o), r, Pending(z, r) + r.total)
      BY <1>1, <1>2, <1>5, <3>1, <3>2, <3>4, ReservedOpen
    <3>6. WaitsFor(z, Placed(o), r, n)
      BY <3>4, <3>5
    <3> QED
      BY <1>1, <3>2, <3>5, <3>6, GoesTwice, GoesTo
  <2>2. CASE ~New(o)
    <3>1. Placed(o) = ctx /\ n = Pending(ctx, r)
      BY <1>3, <1>5, <2>2
    <3> HIDE DEF n
    <3>2. SameBooks(ctx, ctx)
      BY DEF SameBooks
    <3> QED
      BY <1>1, <3>1, <3>2, GoesNowhere
  <2> QED
    BY <2>1, <2>2
<1> DEFINE m == n - v
<1>7. m \in Nat /\ Rest(o) <= m /\ n \in Nat
  BY <1>1, <1>2, <1>5
<1>8. v <= n
  BY <1>1, <1>2, <1>5
<1> HIDE DEF n
<1>9. Pending(Placed(o), r) = n
  BY <1>1, <1>6, GoesTo
<1>10. Backed(Dealing(o)) /\ WaitsFor(ctx, Dealing(o), r, m)
  <2>1. CASE v > 0
    <3>1. PICK z \in Ctxs(Lots) : /\ SameBooks(Placed(o), z)
                                  /\ Dealing(o) = Ctx!CalculatePosition(z, r, v)
      BY <1>3, <2>1
    <3>2. /\ WaitsFor(Placed(o), z, r, n) /\ Pending(z, r) = n
          /\ Postion(z, r) = Postion(ctx, r) /\ Backed(z)
      BY <1>1, <1>6, <1>9, <3>1, GoesNowhere
    <3>3. v \in Nat \ {0}
      BY <1>1, <2>1
    <3>4. Backed(Dealing(o)) /\ WaitsFor(z, Dealing(o), r, Pending(z, r) - v)
      BY <1>1, <1>2, <1>5, <1>8, <3>1, <3>2, <3>3, CalculatedOpen
    <3>5. WaitsFor(z, Dealing(o), r, m)
      BY <3>2, <3>4
    <3> HIDE DEF m
    <3> QED
      BY <1>6, <3>2, <3>4, <3>5, GoesTwice
  <2>2. CASE ~(v > 0)
    <3>1. Dealing(o) = Placed(o) /\ m = n
      BY <1>1, <1>3, <1>7, <2>2
    <3> HIDE DEF m
    <3> QED
      BY <1>6, <3>1
  <2> QED
    BY <2>1, <2>2
<1> DEFINE e == m - end
<1> HIDE DEF m
<1>11. Pending(Dealing(o), r) = m
  BY <1>1, <1>10, GoesTo
<1>12. Backed(Matched0(o)) /\ WaitsFor(ctx, Matched0(o), r, e)
  <2>1. CASE Killed(o)
    <3> DEFINE z == Ctx!Release(Dealing(o), r, r.last)
    <3>1. r.last \in Nat \ {0} /\ r.last <= m /\ m - r.last = e
      BY <1>1, <1>7, <2>1
    <3>2. /\ z \in Ctxs(Lots) /\ Backed(z)
          /\ WaitsFor(Dealing(o), z, r, Pending(Dealing(o), r) - r.last)
      BY <1>1, <1>2, <1>4, <1>10, <1>11, <3>1, ReleasedOpen
    <3>3. SameBooks(z, Matched0(o))
      BY <1>3, <2>1
    <3> HIDE DEF z
    <3>4. WaitsFor(Dealing(o), z, r, e)
      BY <1>11, <3>1, <3>2
    <3> HIDE DEF e
    <3>5. Pending(z, r) = e
      BY <1>1, <3>4, GoesTo
    <3>6. WaitsFor(z, Matched0(o), r, e) /\ Backed(Matched0(o))
      BY <1>1, <3>2, <3>3, <3>5, GoesNowhere
    <3> QED
      BY <1>10, <3>4, <3>6, GoesTwice
  <2>2. CASE ~Killed(o)
    <3>1. e = m /\ SameBooks(Dealing(o), Matched0(o))
      BY <1>3, <1>7, <2>2
    <3> HIDE DEF e
    <3>2. WaitsFor(Dealing(o), Matched0(o), r, m) /\ Backed(Matched0(o))
      BY <1>1, <1>10, <1>11, <3>1, GoesNowhere
    <3> QED
      BY <1>10, <3>1, <3>2, GoesTwice
  <2> QED
    BY <1>1, <2>1, <2>2
<1>13. Pending(ctx, Remainder(o)) + k - Decided(o).deal - end = e
  BY <1>1, <1>5 DEF e, m, n, v, r
<1>14. r = Remainder(o)
  BY DEF r
<1> HIDE DEF e
<1>15. WaitsFor(ctx, Matched0(o), Remainder(o), e)
  BY <1>12, <1>14
<1> QED
  BY <1>4, <1>12, <1>13, <1>15

\* ... and of a closing order's frozen lots.
LEMMA MatchFreezes ==
  ASSUME ctx \in Ctxs(Lots), Backed(ctx), IInv, LInv, NEW o \in loop.todo,
         state[o] \in {"INVALID", "IN_MATCH"}, MatchOrder(o), New(o) \/ Ctx!Knows(ctx, o),
         order[o].offset # "open", NEW k \in Nat,
         k = IF New(o) THEN order[o].total ELSE 0,
         NEW end \in Nat, end = IF Killed(o) THEN Rest(o) ELSE 0,
         Frozen(ctx, Remainder(o)) + k <= Postion(ctx, Remainder(o)),
         order[o].last <= Frozen(ctx, Remainder(o)) + k,
         order[o].total > 0
  PROVE  /\ Matched0(o) \in Ctxs(Lots) /\ Backed(Matched0(o))
         /\ Freezes(ctx, Matched0(o), Remainder(o),
                Frozen(ctx, Remainder(o)) + k - Decided(o).deal - end)
<1> DEFINE r == Remainder(o)
           v == Decided(o).deal
           n == Frozen(ctx, r) + k
<1>1. /\ o \in Ids /\ r \in Orders /\ v \in Nat /\ r.last = Rest(o) /\ Rest(o) \in Nat
      /\ v = order[o].last - Rest(o) /\ (Killed(o) => Rest(o) # 0) /\ Killed(o) \in BOOLEAN
  BY MatchHandled
<1>2. r.offset # "open" /\ r.total = order[o].total /\ order[o].last \in Nat
  BY VisitedTyped, RemainderIs DEF Orders
<1>3. /\ New(o) => \E z \in Ctxs(Lots) : /\ SameBooks(ctx, z)
                                         /\ Placed(o) = Ctx!Reserve(z, r, r.total)
      /\ ~New(o) => Placed(o) = ctx
      /\ v > 0 => \E z \in Ctxs(Lots) : /\ SameBooks(Placed(o), z)
                                        /\ Dealing(o) = Ctx!CalculatePosition(z, r, v)
      /\ ~(v > 0) => Dealing(o) = Placed(o)
      /\ ~Killed(o) => SameBooks(Dealing(o), Matched0(o))
      /\ Killed(o) => SameBooks(Ctx!Release(Dealing(o), r, r.last), Matched0(o))
  BY AnyLots, MatchBooks
<1>4. /\ Placed(o) \in Ctxs(Lots) /\ Dealing(o) \in Ctxs(Lots) /\ Matched0(o) \in Ctxs(Lots)
  BY AnyLots, MatchNotices
<1>5. /\ Frozen(ctx, r) \in Nat /\ n \in Nat /\ order[o].last <= n
      /\ n <= Postion(ctx, r)
  BY <1>1, KeyLots
<1> HIDE DEF r, v
<1>6. /\ Backed(Placed(o)) /\ Freezes(ctx, Placed(o), r, n)
      /\ Postion(Placed(o), r) = Postion(ctx, r)
  <2>1. CASE New(o)
    <3>1. PICK z \in Ctxs(Lots) : SameBooks(ctx, z) /\ Placed(o) = Ctx!Reserve(z, r, r.total)
      BY <1>3, <2>1
    <3>2. /\ Freezes(ctx, z, r, Frozen(ctx, r)) /\ Frozen(z, r) = Frozen(ctx, r)
          /\ Postion(z, r) = Postion(ctx, r) /\ Backed(z)
      BY <1>1, <3>1, GoesNowhere
    <3>3. r.total = k /\ k # 0
      BY <1>2, <2>1
    <3>4. Frozen(z, r) + r.total = n /\ r.total \in Nat \ {0}
      BY <3>2, <3>3
    <3> HIDE DEF n
    <3>5. /\ Backed(Placed(o)) /\ SamePostion(z, Placed(o))
          /\ Freezes(z, Placed(o), r, Frozen(z, r) + r.total)
      BY <1>1, <1>2, <1>5, <3>1, <3>2, <3>4, ReservedClose
    <3>6. Freezes(z, Placed(o), r, n)
      BY <3>4, <3>5
    <3> QED
      BY <1>1, <3>2, <3>5, <3>6, GoesTwice, GoesTo
  <2>2. CASE ~New(o)
    <3>1. Placed(o) = ctx /\ n = Frozen(ctx, r)
      BY <1>3, <1>5, <2>2
    <3> HIDE DEF n
    <3>2. SameBooks(ctx, ctx)
      BY DEF SameBooks
    <3> QED
      BY <1>1, <3>1, <3>2, GoesNowhere
  <2> QED
    BY <2>1, <2>2
<1> DEFINE m == n - v
<1>7. m \in Nat /\ Rest(o) <= m /\ n \in Nat
  BY <1>1, <1>2, <1>5
<1>8. v <= n
  BY <1>1, <1>2, <1>5
<1> HIDE DEF n
<1>9. Frozen(Placed(o), r) = n
  BY <1>1, <1>6, GoesTo
<1>10. Backed(Dealing(o)) /\ Freezes(ctx, Dealing(o), r, m)
  <2>1. CASE v > 0
    <3>1. PICK z \in Ctxs(Lots) : /\ SameBooks(Placed(o), z)
                                  /\ Dealing(o) = Ctx!CalculatePosition(z, r, v)
      BY <1>3, <2>1
    <3>2. /\ Freezes(Placed(o), z, r, n) /\ Frozen(z, r) = n
          /\ Postion(z, r) = Postion(ctx, r) /\ Backed(z)
      BY <1>1, <1>6, <1>9, <3>1, GoesNowhere
    <3>3. v \in Nat \ {0}
      BY <1>1, <2>1
    <3>4. Backed(Dealing(o)) /\ Freezes(z, Dealing(o), r, Frozen(z, r) - v)
      BY <1>1, <1>2, <1>5, <1>8, <3>1, <3>2, <3>3, CalculatedClose
    <3>5. Freezes(z, Dealing(o), r, m)
      BY <3>2, <3>4
    <3> HIDE DEF m
    <3> QED
      BY <1>6, <3>2, <3>4, <3>5, GoesTwice
  <2>2. CASE ~(v > 0)
    <3>1. Dealing(o) = Placed(o) /\ m = n
      BY <1>1, <1>3, <1>7, <2>2
    <3> HIDE DEF m
    <3> QED
      BY <1>6, <3>1
  <2> QED
    BY <2>1, <2>2
<1> DEFINE e == m - end
<1> HIDE DEF m
<1>11. Frozen(Dealing(o), r) = m
  BY <1>1, <1>10, GoesTo
<1>12. Backed(Matched0(o)) /\ Freezes(ctx, Matched0(o), r, e)
  <2>1. CASE Killed(o)
    <3> DEFINE z == Ctx!Release(Dealing(o), r, r.last)
    <3>1. r.last \in Nat \ {0} /\ r.last <= m /\ m - r.last = e
      BY <1>1, <1>7, <2>1
    <3>2. /\ z \in Ctxs(Lots) /\ Backed(z)
          /\ Freezes(Dealing(o), z, r, Frozen(Dealing(o), r) - r.last)
      BY <1>1, <1>2, <1>4, <1>10, <1>11, <3>1, ReleasedClose
    <3>3. SameBooks(z, Matched0(o))
      BY <1>3, <2>1
    <3> HIDE DEF z
    <3>4. Freezes(Dealing(o), z, r, e)
      BY <1>11, <3>1, <3>2
    <3> HIDE DEF e
    <3>5. Frozen(z, r) = e
      BY <1>1, <3>4, GoesTo
    <3>6. Freezes(z, Matched0(o), r, e) /\ Backed(Matched0(o))
      BY <1>1, <3>2, <3>3, <3>5, GoesNowhere
    <3> QED
      BY <1>10, <3>4, <3>6, GoesTwice
  <2>2. CASE ~Killed(o)
    <3>1. e = m /\ SameBooks(Dealing(o), Matched0(o))
      BY <1>3, <1>7, <2>2
    <3> HIDE DEF e
    <3>2. Freezes(Dealing(o), Matched0(o), r, m) /\ Backed(Matched0(o))
      BY <1>1, <1>10, <1>11, <3>1, GoesNowhere
    <3> QED
      BY <1>10, <3>1, <3>2, GoesTwice
  <2> QED
    BY <1>1, <2>1, <2>2
<1>13. Frozen(ctx, Remainder(o)) + k - Decided(o).deal - end = e
  BY <1>1, <1>5 DEF e, m, n, v, r
<1>14. r = Remainder(o)
  BY DEF r
<1> HIDE DEF e
<1>15. Freezes(ctx, Matched0(o), Remainder(o), e)
  BY <1>12, <1>14
<1> QED
  BY <1>4, <1>12, <1>13, <1>15

-----------------------------------------------------------------------------
(* What the context counts as waiting and what the orders wait for *)

\* How a handler moves the lots the exchange keeps frozen.
LEMMA MatchThaws ==
  ASSUME IInv, LInv, BookInv, NEW o \in loop.todo, HandleMatch(o),
         NEW k \in Nat, k = IF New(o) THEN order[o].last ELSE 0,
         NEW end \in Nat, end = IF Killed(o) THEN Rest(o) ELSE 0
  PROVE  LET r == order[o]
             f == position[r.code]["today"][r.direction].frozen
         IN \A c \in Codes, b \in Buckets, d \in Dirs :
              position'[c][b][d].frozen =
                IF r.offset # "open" /\ c = r.code /\ b = "today" /\ d = r.direction
                THEN f + k - Decided(o).deal - end ELSE position[c][b][d].frozen
<1> DEFINE r == order[o]
           v == Decided(o).deal
           item == position[r.code]["today"][r.direction]
<1>1. /\ o \in Ids /\ r \in Orders /\ v \in 0..r.last /\ r.last \in Nat
      /\ Rest(o) = r.last - v
  BY MatchOne DEF HandleMatch
<1>2. r.code \in Codes /\ r.direction \in Dirs /\ "today" \in Buckets
  BY <1>1, OrderKeys DEF Buckets
<1>3. position \in Positions /\ item \in Items /\ item.frozen \in Nat
  BY <1>2, PositionTyped
<1>4. CASE r.offset = "open"
  <2>1. position' = IF Pays(o) THEN Put(position, r.code, "today", r.direction,
                                        Bought(item, r.price, v))
                    ELSE position
    BY <1>4, MatchOpenLeaves
  <2>2. CASE Pays(o)
    <3>1. v \in Nat \ {0} /\ r.price \in Nat
      BY <1>1, <2>2 DEF Orders, Pays
    <3>2. Bought(item, r.price, v).frozen = item.frozen
      BY <1>3, <3>1, BoughtIs
    <3> HIDE DEF item, v
    <3>3. \A c \in Codes, b \in Buckets, d \in Dirs :
            position'[c][b][d] = IF c = r.code /\ b = "today" /\ d = r.direction
                                 THEN Bought(item, r.price, v) ELSE position[c][b][d]
      BY <1>2, <1>3, <2>1, <2>2, PutAt
    <3>4. \A c \in Codes, b \in Buckets, d \in Dirs :
            position'[c][b][d].frozen = position[c][b][d].frozen
      BY <3>2, <3>3 DEF item
    <3> QED
      BY <1>4, <3>4
  <2>3. CASE ~Pays(o)
    BY <1>4, <2>1, <2>3
  <2> QED
    BY <2>2, <2>3
<1>5. CASE r.offset # "open"
  <2> DEFINE froze == item.frozen + (IF New(o) THEN r.last ELSE 0)
             left == IF Killed(o) THEN froze - r.last ELSE froze - v
             n == item.frozen + k - v - end
  <2>1. /\ position'[r.code]["today"][r.direction].frozen = left
        /\ \A c \in Codes, b \in Buckets, d \in Dirs :
             c # r.code \/ b # "today" \/ d # r.direction =>
               position'[c][b][d] = position[c][b][d]
    BY <1>5, MatchCloseLeaves
  <2>2. left = n
    <3> HIDE DEF item, v
    <3>1. CASE New(o) /\ Killed(o)
      BY <1>1, <1>3, <3>1
    <3>2. CASE New(o) /\ ~Killed(o)
      BY <1>1, <1>3, <3>2
    <3>3. CASE ~New(o) /\ Killed(o)
      BY <1>1, <1>3, <3>3
    <3>4. CASE ~New(o) /\ ~Killed(o)
      BY <1>1, <1>3, <3>4
    <3> QED
      BY <3>1, <3>2, <3>3, <3>4
  <2> HIDE DEF left, n
  <2>3. \A c \in Codes, b \in Buckets, d \in Dirs :
          position'[c][b][d].frozen =
            IF c = r.code /\ b = "today" /\ d = r.direction
            THEN n ELSE position[c][b][d].frozen
    BY <1>2, <2>1, <2>2
  <2> QED
    BY <1>5, <2>3 DEF n
<1> QED
  BY <1>4, <1>5

LEMMA CanceledThaws ==
  ASSUME IInv, LInv, BookInv, NEW o \in loop.todo, HandleCanceled(o), Thaws(o)
  PROVE  LET r == order[o]
             f == position[r.code]["today"][r.direction].frozen
         IN \A c \in Codes, b \in Buckets, d \in Dirs :
              position'[c][b][d].frozen =
                IF r.offset # "open" /\ c = r.code /\ b = "today" /\ d = r.direction
                THEN f - r.last ELSE position[c][b][d].frozen
<1> DEFINE r == order[o]
           n == position[r.code]["today"][r.direction].frozen - r.last
<1>1. o \in Ids /\ r \in Orders
  BY CanceledLeaves
<1>2. Book \in Books /\ Book.position = position
  BY BookTyped DEF Book
<1>3. CASE r.offset = "open"
  BY <1>1, <1>2, <1>3, CanceledLeaves, UnfreezeOpen
<1>4. CASE r.offset # "open"
  <2>1. /\ position'[r.code]["today"][r.direction].frozen = n
        /\ \A c \in Codes, b \in Buckets, d \in Dirs :
             c # r.code \/ b # "today" \/ d # r.direction =>
               position'[c][b][d] = position[c][b][d]
    BY <1>4, CanceledCloseLeaves
  <2> HIDE DEF n
  <2>2. \A c \in Codes, b \in Buckets, d \in Dirs :
          position'[c][b][d].frozen =
            IF c = r.code /\ b = "today" /\ d = r.direction
            THEN n ELSE position[c][b][d].frozen
    BY <1>1, <2>1, OrderKeys DEF Buckets
  <2> QED
    BY <1>4, <2>2 DEF n
<1> QED
  BY <1>3, <1>4

\* The lots an opening order in the match waits for, and those of a position.
Awaits(o) ==
  IF told[o].status = "entrusted" /\ order[o].offset = "open" THEN order[o].last ELSE 0

Awaited(c, d) ==
  [o \in Ids |-> IF order[o].code = c /\ order[o].direction = d THEN Awaits(o) ELSE 0]

AwaitedLots(c, d) == SumFunctionOnSet(Awaited(c, d), Ids)

PendingIsAwaited ==
  \A c \in Codes, d \in Dirs : ctx.position[c].pending[d] = AwaitedLots(c, d)

FrozenAgrees ==
  \A c \in Codes, b \in Buckets, d \in Dirs :
    ctx.position[c].frozen[b][d] = position[c][b][d].frozen

LEMMA AwaitedNat ==
  ASSUME IInv, NEW c, NEW d
  PROVE  /\ \A o \in Ids : Awaited(c, d)[o] \in Nat /\ order[o].last \in Nat
                           /\ Awaits(o) \in Nat
         /\ AwaitedLots(c, d) \in Nat
<1>1. \A o \in Ids : order[o].last \in Nat /\ Awaits(o) \in Nat
  BY DEF IInv, TypeOK, OrderInfos, Awaits
<1>2. \A o \in Ids : Awaited(c, d)[o] \in Nat
  BY <1>1 DEF Awaited
<1> DEFINE F == Awaited(c, d)
<1> HIDE DEF F
<1>3. SumFunctionOnSet(F, Ids) \in Nat
  BY <1>2, SumNat, FiniteAssumption DEF F
<1> QED
  BY <1>1, <1>2, <1>3 DEF F, AwaitedLots

\* An order is among those its position waits for, whatever it adds.
LEMMA AwaitedFits ==
  ASSUME IInv, LInv, ErasedTold, Sizes, NEW o \in Ids, order[o].last <= MaxVolume
  PROVE  LET w == AwaitedLots(order[o].code, order[o].direction)
         IN Awaits(o) <= w /\ w - Awaits(o) + order[o].last <= AllLots
<1> DEFINE F == Awaited(order[o].code, order[o].direction)
           G == [p \in Ids |-> IF p = o THEN order[o].last ELSE F[p]]
<1>1. \A p \in Ids : F[p] \in Nat /\ order[p].last \in Nat
  BY AwaitedNat
<1>2. F[o] = Awaits(o)
  BY DEF Awaited
<1>3. \A p \in Ids : F[p] <= MaxVolume
  <2> SUFFICES ASSUME NEW p \in Ids, told[p].status = "entrusted"
               PROVE  order[p].last <= MaxVolume
    BY OrderAssumption DEF Awaited, Awaits
  <2>1. state[p] \in {"IN_MATCH", "CANELED"}
    BY AliveTold DEF LInv, Alive
  <2>2. told[p].left = order[p].last
    BY <2>1 DEF LInv
  <2>3. told[p].left <= order[p].total /\ order[p].total <= MaxVolume
    BY DEF Sizes, SizesOf
  <2>4. order[p].total \in Nat
    BY DEF IInv, TypeOK, OrderInfos
  <2> QED
    BY <1>1, <2>2, <2>3, <2>4, OrderAssumption
<1> HIDE DEF F
<1>4. /\ G[o] = order[o].last /\ \A p \in Ids \ {o} : G[p] = F[p]
      /\ \A p \in Ids : G[p] \in Int /\ G[p] <= MaxVolume
  BY <1>1, <1>3
<1> HIDE DEF G
<1>5. SumFunctionOnSet(G, Ids) = SumFunctionOnSet(F, Ids) - F[o] + G[o]
  BY <1>1, <1>4, SumChange, FiniteAssumption
<1>6. SumFunctionOnSet(G, Ids) <= AllLots
  BY <1>4, SumAtMost, FiniteAssumption, OrderAssumption DEF AllLots
<1>7. F[o] <= SumFunctionOnSet(F, Ids)
  BY <1>1, SumBounds, FiniteAssumption
<1> QED
  BY <1>2, <1>4, <1>5, <1>6, <1>7 DEF AwaitedLots, F

\* A step of one order moves what its position waits for by what it does.
LEMMA PendingAfter ==
  ASSUME IInv, IInv', PendingIsAwaited, NEW o \in Ids,
         \A p \in Ids \ {o} : told'[p] = told[p] /\ order'[p] = order[p],
         order'[o].code = order[o].code, order'[o].direction = order[o].direction,
         NEW n, n = AwaitedLots(order[o].code, order[o].direction) - Awaits(o) + Awaits(o)',
         PendingGoes(ctx, ctx', order[o].code, order[o].direction, n)
  PROVE  PendingIsAwaited'
<1> SUFFICES ASSUME NEW c \in Codes, NEW d \in Dirs
             PROVE  ctx'.position[c].pending[d] = AwaitedLots(c, d)'
  BY DEF PendingIsAwaited
<1> DEFINE F == Awaited(c, d)
           G == Awaited(c, d)'
<1>1. \A p \in Ids : F[p] \in Nat /\ Awaits(p) \in Nat
  BY AwaitedNat
<1>2. \A p \in Ids \ {o} : G[p] = F[p]
  BY DEF Awaited, Awaits
<1>3. /\ F[o] = IF order[o].code = c /\ order[o].direction = d THEN Awaits(o) ELSE 0
      /\ G[o] = IF order[o].code = c /\ order[o].direction = d THEN Awaits(o)' ELSE 0
  BY DEF Awaited
<1>4. Awaits(o)' \in Nat
  BY DEF Awaits, IInv, TypeOK, OrderInfos
<1>5. ctx.position[c].pending[d] = AwaitedLots(c, d) /\ AwaitedLots(c, d) \in Nat
  BY AwaitedNat DEF PendingIsAwaited
<1>6. AwaitedLots(c, d) = SumFunctionOnSet(F, Ids) /\ AwaitedLots(c, d)' = SumFunctionOnSet(G, Ids)
  BY DEF AwaitedLots
<1> HIDE DEF F, G
<1>7. SumFunctionOnSet(G, Ids) = SumFunctionOnSet(F, Ids) - F[o] + G[o]
  BY <1>1, <1>2, <1>3, <1>4, SumChange, FiniteAssumption
<1>8. CASE order[o].code = c /\ order[o].direction = d
  BY <1>3, <1>6, <1>7, <1>8 DEF PendingGoes
<1>9. CASE ~(order[o].code = c /\ order[o].direction = d)
  BY <1>3, <1>5, <1>6, <1>7, <1>9 DEF PendingGoes
<1> QED
  BY <1>8, <1>9

Undealts == Backed(ctx) /\ PendingIsAwaited /\ FrozenAgrees

LEMMA UndealtMatched ==
  ASSUME IInv, LInv, IInv', BooksInv, EarsInv, WholeInv, Agree, Fits', ChargesPaid,
         AllLots < Modulus, VolumesFit, Undealts,
         NEW o \in loop.todo, Handling(o), HandleMatch(o)
  PROVE  Undealts'
<1> DEFINE r == Remainder(o)
           r0 == order[o]
           v == Decided(o).deal
<1>1. state[o] \in {"INVALID", "IN_MATCH"} /\ MatchOrder(o) /\ BookInv /\ Sizes
  BY DEF HandleMatch, BooksInv
<1>2. /\ o \in Ids /\ ctx' = Matched0(o) /\ r \in Orders /\ r0 \in Orders
      /\ order'[o] = r
  BY <1>1, MatchHandled, VisitedTyped DEF Handling
<1>3. /\ v \in Nat /\ Rest(o) \in Nat /\ Rest(o) = r0.last - v
      /\ r0.last \in Nat \ {0} /\ Killed(o) \in BOOLEAN
      /\ told'[o] = [status |-> EndOf(o), left |-> Rest(o)] /\ r.last = Rest(o)
      /\ \A p \in Ids \ {o} : told'[p] = told[p] /\ order'[p] = order[p]
  BY <1>1, MatchOne, MatchHandled
<1>4. /\ r.code = r0.code /\ r.direction = r0.direction /\ r.offset = r0.offset
      /\ BucketOf(r) = BucketOf(r0) /\ r.total = r0.total
      /\ r0.offset \in {"open", "clstd"}
  BY <1>1, <1>2, RemainderIs, MatchMoves
<1>5. New(o) \/ Ctx!Knows(ctx, o)
  BY <1>1, <1>2 DEF New, EarsInv, EarsOf, Resting
<1>6. /\ New(o) => r0.total = r0.last
      /\ told[o].status = IF New(o) THEN "placed" ELSE "entrusted"
      /\ told[o].left = r0.last
  BY <1>1, <1>2 DEF New, LInv, WholeInv, Whole
<1>7. PICK k \in Nat : k = IF New(o) THEN r0.last ELSE 0
  BY <1>3
<1>8. PICK end \in Nat : end = IF Killed(o) THEN Rest(o) ELSE 0
  BY <1>3
<1>9. Awaits(o)' = IF r0.offset = "open" THEN Rest(o) - end ELSE 0
  <2>1. /\ Awaits(o)' = IF told'[o].status = "entrusted" /\ order'[o].offset = "open"
                        THEN order'[o].last ELSE 0
        /\ told'[o].status = EndOf(o)
    BY <1>3 DEF Awaits
  <2>2. EndOf(o) = "entrusted" <=> ~(Rest(o) = 0 \/ Killed(o))
    BY DEF EndOf
  <2> QED
    BY <1>2, <1>3, <1>4, <1>8, <2>1, <2>2
<1>10. Awaits(o) = IF r0.offset = "open" THEN r0.last - k ELSE 0
  BY <1>3, <1>6, <1>7 DEF Awaits
<1>11. /\ ctx \in Ctxs(Lots) /\ Backed(ctx)
       /\ k = IF New(o) THEN order[o].total ELSE 0
  BY <1>6, <1>7 DEF VolumesFit, Undealts
<1>12. r.code \in Codes /\ r.direction \in Dirs /\ "today" \in Buckets
  BY <1>2, OrderKeys DEF Buckets
<1> DEFINE f == position[r0.code]["today"][r0.direction].frozen
           g == f + k - v - end
<1>13. \A c \in Codes, b \in Buckets, d \in Dirs :
         position'[c][b][d].frozen =
           IF r0.offset # "open" /\ c = r0.code /\ b = "today" /\ d = r0.direction
           THEN g ELSE position[c][b][d].frozen
  BY <1>1, <1>7, <1>8, MatchThaws
<1> HIDE DEF g, r, r0, v
<1>14. CASE r0.offset = "open"
  <2> DEFINE w == Pending(ctx, r)
             n == w + k - v - end
  <2>1. w = AwaitedLots(r0.code, r0.direction) /\ w \in Nat
    BY <1>2, <1>4, <1>11, <1>12, KeyLots DEF Pending, Undealts, PendingIsAwaited
  <2>2. Awaits(o) <= w /\ w - Awaits(o) + r0.last <= AllLots
    <3>1. order[o].last <= MaxVolume
      <4>1. told[o].left <= r0.total /\ r0.total <= MaxVolume /\ r0.total \in Nat
        BY <1>1, <1>2 DEF Sizes, SizesOf, Orders, r0
      <4> QED
        BY <1>3, <1>6, <4>1, OrderAssumption DEF r0
    <3> QED
      BY <1>1, <1>2, <2>1, <3>1, AwaitedFits DEF r0, EarsInv
  <2>3. w + k \in Lots /\ r0.last <= w + k
    <3>1. AllLots \in Nat
      BY OrderAssumption, FiniteAssumption, FS_CardinalityType DEF AllLots
    <3>2. CASE New(o)
      BY <1>3, <1>7, <1>10, <1>14, <2>1, <2>2, <3>1, <3>2, ModulusAssumption DEF Lots
    <3>3. CASE ~New(o)
      BY <1>3, <1>7, <1>10, <1>14, <2>1, <2>2, <3>1, <3>3, ModulusAssumption DEF Lots
    <3> QED
      BY <3>2, <3>3
  <2>4. Postion(ctx, r) + v \in Lots
    <3> DEFINE m == position[r0.code]["today"][r0.direction].postion + v
    <3>1. Postion(ctx, r) + v = m
      BY <1>4, <1>12, <1>14 DEF Postion, DealBucket, Agree
    <3>2. position'[r0.code]["today"][r0.direction].postion = m
      BY <1>1, <1>4, <1>12, <1>14, MatchMoves DEF r0, v
    <3> HIDE DEF m
    <3> QED
      BY <1>4, <1>12, <3>1, <3>2 DEF Fits
  <2>5. /\ Backed(ctx')
        /\ WaitsFor(ctx, ctx', r, n)
    <3>1. order[o].offset = "open"
      BY <1>14 DEF r0
    <3> QED
      BY <1>1, <1>2, <1>5, <1>8, <1>11, <2>3, <2>4, <3>1, MatchWaitsFor DEF r, r0, v
  <2>6. n = w - Awaits(o) + Awaits(o)'
    BY <1>3, <1>7, <1>8, <1>9, <1>10, <1>14, <2>1
  <2> HIDE DEF n, w
  <2>7. PendingGoes(ctx, ctx', r0.code, r0.direction, n) /\ SameFrozen(ctx, ctx')
    BY <1>4, <2>5 DEF WaitsFor
  <2>8. PendingIsAwaited'
    BY <1>2, <1>3, <1>4, <2>1, <2>6, <2>7, PendingAfter DEF r0, Undealts
  <2>9. FrozenAgrees'
    BY <1>13, <1>14, <2>7 DEF SameFrozen, Undealts, FrozenAgrees
  <2> QED
    BY <2>5, <2>8, <2>9 DEF Undealts
<1>15. CASE r0.offset # "open"
  <2>1. BucketOf(r) = "today" /\ DealBucket(r) = "today"
    BY <1>4, <1>15 DEF BucketOf, DealBucket
  <2>2. Frozen(ctx, r) = f /\ f \in Nat
    BY <1>4, <1>12, <2>1, PositionTyped DEF Frozen, Undealts, FrozenAgrees
  <2> DEFINE m == position[r0.code]["today"][r0.direction].postion
  <2>3. Postion(ctx, r) = m /\ m \in Nat
    BY <1>4, <1>12, <2>1, PositionTyped DEF Postion, Agree
  <2>4. f <= m
    BY <1>4, <1>12, <2>1 DEF BooksInv, BookInv, FrozenIsPromised
  <2>5. /\ r0.last <= f + (IF New(o) THEN r0.last ELSE 0)
        /\ r0.last + (IF New(o) THEN f ELSE 0) <= m
    BY <1>1, <1>15, CloseCovered DEF r0
  <2>6. Frozen(ctx, r) + k <= Postion(ctx, r) /\ r0.last <= Frozen(ctx, r) + k
    BY <1>3, <1>7, <2>2, <2>3, <2>4, <2>5
  <2>7. r0.total > 0
    BY <1>1, <1>2, <1>3, <1>6 DEF r0, Sizes, SizesOf, Orders
  <2> DEFINE n == Frozen(ctx, r) + k - v - end
  <2>8. Backed(ctx') /\ Freezes(ctx, ctx', r, n)
    <3>1. order[o].offset # "open" /\ order[o].total > 0
      BY <1>15, <2>7 DEF r0
    <3> QED
      BY <1>1, <1>2, <1>5, <1>8, <1>11, <2>6, <3>1, MatchFreezes DEF r, r0, v
  <2>9. n = g
    BY <2>2 DEF g
  <2> HIDE DEF n
  <2>10. /\ FrozenGoes(ctx, ctx', r0.code, "today", r0.direction, g)
         /\ SamePending(ctx, ctx')
    BY <1>4, <2>1, <2>8, <2>9 DEF Freezes
  <2>11. FrozenAgrees'
    BY <1>13, <1>15, <2>10 DEF FrozenGoes, Undealts, FrozenAgrees
  <2>12. PendingIsAwaited'
    <3> DEFINE w == AwaitedLots(r0.code, r0.direction)
    <3>1. w \in Nat /\ Awaits(o) = 0 /\ Awaits(o)' = 0
      BY <1>9, <1>10, <1>15, AwaitedNat
    <3>2. w = w - Awaits(o) + Awaits(o)'
      BY <3>1
    <3>3. ctx.position[r0.code].pending[r0.direction] = w
      BY <1>4, <1>12 DEF Undealts, PendingIsAwaited
    <3>4. PendingGoes(ctx, ctx', r0.code, r0.direction, w)
      BY <2>10, <3>3 DEF SamePending, PendingGoes
    <3> HIDE DEF w
    <3>5. w = AwaitedLots(r0.code, r0.direction) - Awaits(o) + Awaits(o)'
      BY <3>2 DEF w
    <3> QED
      BY <1>2, <1>3, <1>4, <3>4, <3>5, PendingAfter DEF r0, Undealts
  <2> QED
    BY <2>8, <2>11, <2>12 DEF Undealts
<1> QED
  BY <1>14, <1>15

LEMMA UndealtCanceled ==
  ASSUME IInv, LInv, IInv', LInv', BooksInv, EarsInv, VolumesFit, Undealts,
         NEW o \in loop.todo, Handling(o), HandleCanceled(o)
  PROVE  Undealts'
<1> DEFINE r == order[o]
<1>1. /\ o \in Ids /\ state[o] = "CANELED" /\ r \in Orders /\ order' = order
      /\ BookInv
  BY CanceledLeaves DEF BooksInv
<1>2. /\ r.last \in Nat \ {0} /\ told[o].status = "entrusted"
      /\ Ctx!Knows(ctx, o)
  BY <1>1 DEF LInv, Orders, EarsInv, EarsOf, Resting
<1>3. /\ \A p \in Ids \ {o} : told'[p] = told[p] /\ order'[p] = order[p]
      /\ ~Thaws(o) => Waits(o)
  <2>1. /\ \A p \in Ids \ {o} : told'[p] = told[p] /\ order'[p] = order[p]
        /\ Survives(o) \/ Expires(o) \/ Waits(o)
    BY AnyLots, HandledIs DEF EarsInv
  <2>2. ~Thaws(o) => state'[o] = "CANELED"
    BY CanceledLeaves
  <2> QED
    BY <1>1, <2>1, <2>2 DEF Survives, Expires
<1>4. ctx \in Ctxs(Lots) /\ Backed(ctx)
  BY DEF VolumesFit, Undealts
<1>5. CASE ~Thaws(o)
  <2>1. ctx' = ctx /\ position' = position
    BY <1>3, <1>5 DEF Waits
  <2>2. \A p \in Ids : Awaits(p)' = Awaits(p)
    BY <1>1, <1>3, <1>5 DEF Waits, Awaits
  <2>3. PendingIsAwaited'
    BY <1>1, <2>1, <2>2 DEF PendingIsAwaited, AwaitedLots, Awaited, Undealts
  <2> QED
    BY <2>1, <2>3 DEF Undealts, FrozenAgrees
<1>6. CASE Thaws(o)
  <2> DEFINE z == Ctx!Release(ctx, r, r.last)
  <2>1. SameBooks(z, ctx')
    BY <1>2, <1>4, <1>6, AnyLots, CanceledHandled DEF Handling
  <2>2. Awaits(o)' = 0
    <3>1. state'[o] = "DELETE"
      BY <1>6, CanceledLeaves
    <3>2. told'[o].status \in Lifecycle!Ended
      BY <1>1, <3>1 DEF LInv
    <3> QED
      BY <3>2 DEF Awaits, Lifecycle!Ended
  <2>3. \A c \in Codes, b \in Buckets, d \in Dirs :
          position'[c][b][d].frozen =
            IF r.offset # "open" /\ c = r.code /\ b = "today" /\ d = r.direction
            THEN position[r.code]["today"][r.direction].frozen - r.last
            ELSE position[c][b][d].frozen
    BY <1>1, <1>6, CanceledThaws
  <2>4. r.code \in Codes /\ r.direction \in Dirs /\ "today" \in Buckets
    BY <1>1, OrderKeys DEF Buckets
  <2> HIDE DEF r, z
  <2>5. CASE r.offset = "open"
    <3> DEFINE w == Pending(ctx, r)
               n == w - r.last
    <3>1. w = AwaitedLots(r.code, r.direction) /\ w \in Nat
      BY <1>1, <1>4, <2>4, KeyLots DEF Pending, Undealts, PendingIsAwaited
    <3>2. Awaits(o) = r.last
      BY <1>2, <2>5 DEF Awaits, r
    <3>3. Awaits(o) <= w
      <4>1. told[o].left = r.last /\ told[o].left <= MaxVolume
        BY <1>1, <1>2, OrderAssumption DEF LInv, r
      <4>2. order[o].last <= MaxVolume
        BY <4>1 DEF r
      <4>3. ErasedTold /\ Sizes
        BY DEF EarsInv, BooksInv
      <4> QED
        BY <1>1, <3>1, <4>2, <4>3, AwaitedFits DEF r
    <3>4. Backed(z) /\ WaitsFor(ctx, z, r, n)
      BY <1>1, <1>2, <1>4, <2>5, <3>2, <3>3, ReleasedOpen DEF z
    <3>5. Backed(ctx') /\ PendingGoes(ctx, ctx', r.code, r.direction, n)
          /\ SameFrozen(ctx, ctx')
      BY <2>1, <3>4 DEF SameBooks, WaitsFor, PendingGoes, SameFrozen, Backed
    <3>6. n = w - Awaits(o) + Awaits(o)'
      BY <1>2, <2>2, <3>1, <3>2
    <3> HIDE DEF n, w
    <3>7. PendingIsAwaited'
      BY <1>1, <1>3, <3>1, <3>5, <3>6, PendingAfter DEF r, Undealts
    <3>8. FrozenAgrees'
      BY <2>3, <2>5, <3>5 DEF SameFrozen, Undealts, FrozenAgrees
    <3> QED
      BY <3>5, <3>7, <3>8 DEF Undealts
  <2>6. CASE r.offset # "open"
    <3> DEFINE f == position[r.code]["today"][r.direction].frozen
               n == Frozen(ctx, r) - r.last
    <3>1. r.offset = "clstd" /\ r.last <= f
      BY <1>1, <1>6, <2>6, CanceledCloseLeaves DEF r
    <3>2. BucketOf(r) = "today"
      BY <3>1 DEF BucketOf
    <3>3. Frozen(ctx, r) = f
      BY <2>4, <3>2 DEF Frozen, Undealts, FrozenAgrees
    <3>4. Backed(z) /\ Freezes(ctx, z, r, n)
      BY <1>1, <1>2, <1>4, <2>6, <3>1, <3>3, ReleasedClose DEF z
    <3>5. Backed(ctx') /\ FrozenGoes(ctx, ctx', r.code, "today", r.direction, n)
          /\ SamePending(ctx, ctx')
      BY <2>1, <3>2, <3>4 DEF SameBooks, Freezes, FrozenGoes, SamePending, Backed
    <3> DEFINE g == f - r.last
    <3>6. n = g
      BY <3>3
    <3>7. \A c \in Codes, b \in Buckets, d \in Dirs :
            position'[c][b][d].frozen =
              IF c = r.code /\ b = "today" /\ d = r.direction
              THEN g ELSE position[c][b][d].frozen
      BY <2>3, <2>6
    <3> HIDE DEF n, g
    <3>8. FrozenAgrees'
      BY <3>5, <3>6, <3>7 DEF FrozenGoes, Undealts, FrozenAgrees
    <3>9. PendingIsAwaited'
      <4> DEFINE w == AwaitedLots(r.code, r.direction)
      <4>1. w \in Nat /\ Awaits(o) = 0 /\ order[o].offset # "open"
        BY <2>6, AwaitedNat DEF Awaits, r
      <4>2. w = w - Awaits(o) + Awaits(o)'
        BY <2>2, <4>1
      <4>3. ctx.position[r.code].pending[r.direction] = w
        BY <2>4 DEF Undealts, PendingIsAwaited
      <4>4. PendingGoes(ctx, ctx', r.code, r.direction, w)
        BY <3>5, <4>3 DEF SamePending, PendingGoes
      <4> HIDE DEF w
      <4>5. w = AwaitedLots(r.code, r.direction) - Awaits(o) + Awaits(o)'
        BY <4>2 DEF w
      <4> QED
        BY <1>1, <1>3, <4>4, <4>5, PendingAfter DEF r, Undealts
    <3> QED
      BY <3>5, <3>8, <3>9 DEF Undealts
  <2> QED
    BY <2>5, <2>6
<1> QED
  BY <1>5, <1>6

\* An order that none waits for adds to no position, whatever its code.
LEMMA AwaitedStays ==
  ASSUME PendingIsAwaited,
         \A c \in Codes, d \in Dirs : ctx'.position[c].pending[d] = ctx.position[c].pending[d],
         \A p \in Ids : \/ told'[p] = told[p] /\ order'[p] = order[p]
                        \/ /\ told[p].status # "entrusted"
                           /\ told'[p].status # "entrusted"
  PROVE  PendingIsAwaited'
<1> SUFFICES ASSUME NEW c \in Codes, NEW d \in Dirs
             PROVE  ctx'.position[c].pending[d] = AwaitedLots(c, d)'
  BY DEF PendingIsAwaited
<1>1. ASSUME NEW p \in Ids
      PROVE  (IF order'[p].code = c /\ order'[p].direction = d THEN Awaits(p)' ELSE 0)
               = IF order[p].code = c /\ order[p].direction = d THEN Awaits(p) ELSE 0
  BY DEF Awaits
<1>2. Awaited(c, d)' = Awaited(c, d)
  BY <1>1, Zenon DEF Awaited
<1>3. AwaitedLots(c, d)' = AwaitedLots(c, d)
  BY <1>2 DEF AwaitedLots
<1> QED
  BY <1>3 DEF PendingIsAwaited

LEMMA UndealtStep ==
  ASSUME BacktestInv, BacktestInv', ~CancelsEnded, MaxDays = 1, AllLots < Modulus,
         EarsInv, BooksInv, WholeInv, Agree, Fits', ChargesPaid, VolumesFit, Undealts,
         [BacktestNext]_allVars
  PROVE  Undealts'
<1>1. /\ IInv /\ LInv /\ IInv' /\ LInv'
      /\ Resume \/ (\E o \in loop.todo : Handling(o)) \/ NextDay
  BY EarsStep DEF BacktestInv
<1>2. CASE Resume
  <2>1. SameBooks(ctx, ctx') /\ position' = position
    BY <1>2 DEF Resume, Talks
  <2>2. \A p \in Ids : \/ told'[p] = told[p] /\ order'[p] = order[p]
                       \/ told[p].status # "entrusted" /\ told'[p].status # "entrusted"
    BY <1>2 DEF Resume
  <2>3. PendingIsAwaited'
    BY <2>1, <2>2, AwaitedStays DEF SameBooks, Undealts
  <2> QED
    BY <2>1, <2>3 DEF SameBooks, Undealts, Backed, FrozenAgrees
<1>3. ASSUME NEW o \in loop.todo, Handling(o) PROVE Undealts'
  <2>1. CASE HandleCanceled(o)
    BY <1>1, <1>3, <2>1, UndealtCanceled
  <2>2. CASE HandleRefused(o)
    <3>1. SameBooks(ctx, ctx') /\ position' = position /\ o \in Ids /\ order' = order
          /\ state[o] = "INVALID" /\ state' = [state EXCEPT ![o] = "DELETE"]
      BY <1>1, <1>3, <2>2, AnyLots, RefusedHandled DEF Handling, EarsInv
    <3>2. state'[o] = "DELETE"
      BY <1>1, <3>1 DEF IInv, TypeOK
    <3>3. told[o].status # "entrusted" /\ told'[o].status # "entrusted"
      BY <1>1, <3>1, <3>2 DEF LInv, Lifecycle!Ended
    <3>4. \A p \in Ids \ {o} : told'[p] = told[p] /\ order'[p] = order[p]
      BY <1>1, <1>3, AnyLots, HandledIs DEF EarsInv
    <3>5. PendingIsAwaited'
      BY <3>1, <3>3, <3>4, AwaitedStays DEF SameBooks, Undealts
    <3> QED
      BY <3>1, <3>5 DEF SameBooks, Undealts, Backed, FrozenAgrees
  <2>3. CASE HandleMatch(o)
    BY <1>1, <1>3, <2>3, UndealtMatched
  <2> QED
    BY <1>3, <2>1, <2>2, <2>3 DEF Handling
<1>4. ~NextDay
  <2>1. day \in 1..(1 + MaxDays)
    BY <1>1 DEF IInv, TypeOK
  <2>2. Crossday => day < MaxDays
    BY Zenon DEF Crossday
  <2> QED
    BY <2>1, <2>2 DEF NextDay
<1> QED
  BY <1>1, <1>2, <1>3, <1>4

\* The orders the context is told of as entrusted are those in the match.
LEMMA EntrustedRests ==
  ASSUME IInv, LInv, EarsInv, NEW o \in Ids
  PROVE  told[o].status = "entrusted" <=> Resting(o)
<1>1. told[o].status = "entrusted" => state[o] \in Alive
  BY AliveTold DEF EarsInv
<1> QED
  BY <1>1 DEF LInv, Alive, Resting

LEMMA UndealtOpen ==
  ASSUME IInv, NEW c \in Codes, NEW d \in Dirs
  PROVE  AwaitedLots(c, d) = Undealt(c, d, LAMBDA r : r.offset = "open")
<1> DEFINE f == [o \in Ids |-> order[o].last]
           R == {o \in Ids : /\ told[o].status = "entrusted" /\ order[o].offset = "open"
                             /\ order[o].code = c /\ order[o].direction = d}
           g == [o \in Ids |-> IF o \in R THEN f[o] ELSE 0]
           F == Awaited(c, d)
<1>1. \A o \in Ids : f[o] \in Int
  BY AwaitedNat
<1>2. R \subseteq Ids
  OBVIOUS
<1>3. \A o \in Ids : F[o] = g[o]
  BY DEF Awaited, Awaits
<1>4. Undealt(c, d, LAMBDA r : r.offset = "open") = SumFunctionOnSet(f, R)
  BY DEF Undealt
<1> HIDE DEF f, R
<1>5. SumFunctionOnSet(f, R) = SumFunctionOnSet(g, Ids)
  BY <1>1, <1>2, SumWithin, FiniteAssumption
<1> HIDE DEF g, F
<1>6. SumFunctionOnSet(F, Ids) = SumFunctionOnSet(g, Ids)
  BY <1>3, SumSame, FiniteAssumption
<1> QED
  BY <1>4, <1>5, <1>6 DEF AwaitedLots, F

LEMMA UndealtClose ==
  ASSUME IInv, LInv, EarsInv, BookInv, NEW c \in Codes, NEW b \in Buckets, NEW d \in Dirs
  PROVE  position[c][b][d].frozen =
           Undealt(c, d, LAMBDA r : r.offset # "open" /\ BucketOf(r) = b)
<1> DEFINE f == [o \in Ids |-> order[o].last]
           R == {o \in Ids : /\ told[o].status = "entrusted"
                             /\ order[o].offset # "open" /\ BucketOf(order[o]) = b
                             /\ order[o].code = c /\ order[o].direction = d}
<1>1. R = CloseOrders(c, b, d)
  <2>1. \A o \in Ids : told[o].status = "entrusted" <=> Resting(o)
    BY EntrustedRests
  <2> QED
    BY <2>1 DEF CloseOrders
<1>2. position[c][b][d].frozen = SumFunctionOnSet(f, CloseOrders(c, b, d))
  BY FrozenBacks DEF FrozenBacksCloses
<1>3. Undealt(c, d, LAMBDA r : r.offset # "open" /\ BucketOf(r) = b)
        = SumFunctionOnSet(f, R)
  BY DEF Undealt
<1> QED
  BY <1>1, <1>2, <1>3

LEMMA UndealtIs ==
  ASSUME IInv, LInv, EarsInv, BookInv, Undealts PROVE LotsAreUndealt
<1>1. ASSUME NEW c \in Codes, NEW d \in Dirs
      PROVE  ctx.position[c].pending[d] = Undealt(c, d, LAMBDA r : r.offset = "open")
  <2>1. ctx.position[c].pending[d] = AwaitedLots(c, d)
    BY DEF Undealts, PendingIsAwaited
  <2>2. AwaitedLots(c, d) = Undealt(c, d, LAMBDA r : r.offset = "open")
    BY UndealtOpen
  <2> QED
    BY <2>1, <2>2
<1>2. ASSUME NEW c \in Codes, NEW d \in Dirs, NEW b \in Buckets
      PROVE  /\ ctx.position[c].frozen[b][d] =
                  Undealt(c, d, LAMBDA r : r.offset # "open" /\ BucketOf(r) = b)
             /\ ctx.position[c].frozen[b][d] <= ctx.position[c].postion[b][d]
  <2>1. /\ ctx.position[c].frozen[b][d] = position[c][b][d].frozen
        /\ ctx.position[c].frozen[b][d] <= ctx.position[c].postion[b][d]
    BY DEF Undealts, FrozenAgrees, Backed
  <2>2. position[c][b][d].frozen =
          Undealt(c, d, LAMBDA r : r.offset # "open" /\ BucketOf(r) = b)
    BY UndealtClose
  <2> QED
    BY <2>1, <2>2
<1> QED
  BY <1>1, <1>2 DEF LotsAreUndealt

LEMMA UndealtStarts == BacktestInit => Undealts
<1> SUFFICES ASSUME BacktestInit PROVE Undealts
  OBVIOUS
<1>1. \A c \in Codes : ctx.position[c] = Ctx!NoPosition
  BY AnyLots, EmptyIs DEF BacktestInit
<1>2. \A b \in Buckets, d \in Dirs : /\ Ctx!NoPosition.postion[b][d] = 0
                                     /\ Ctx!NoPosition.frozen[b][d] = 0
                                     /\ Ctx!NoPosition.pending[d] = 0
  BY AnyLots, ZeroIs
<1>3. Backed(ctx)
  BY <1>1, <1>2 DEF Backed
<1>4. FrozenAgrees
  <2>1. \A c \in Codes, b \in Buckets, d \in Dirs : position[c][b][d].frozen = 0
    BY DEF BacktestInit, Init, NoItem
  <2> QED
    BY <1>1, <1>2, <2>1 DEF FrozenAgrees
<1>5. PendingIsAwaited
  <2> SUFFICES ASSUME NEW c \in Codes, NEW d \in Dirs PROVE AwaitedLots(c, d) = 0
    <3>1. "today" \in Buckets
      BY DEF Buckets
    <3> QED
      BY <1>1, <1>2, <3>1 DEF PendingIsAwaited
  <2>1. \A o \in Ids : told[o].status = "none"
    BY DEF BacktestInit, Init
  <2>2. \A o \in Ids : Awaited(c, d)[o] = 0
    BY <2>1 DEF Awaited, Awaits
  <2> DEFINE F == Awaited(c, d)
  <2> HIDE DEF F
  <2>3. SumFunctionOnSet(F, Ids) = 0
    BY <2>2, SumZero, FiniteAssumption DEF F
  <2> QED
    BY <2>3 DEF F, AwaitedLots
<1> QED
  BY <1>3, <1>4, <1>5 DEF Undealts

\* On a day the context is told of from its start, and as long as every charge
\* can be paid, its pending lots are what the entrusted opening orders still
\* wait for, its frozen lots what the closing ones do, and it never promises
\* more than it holds: what usable subtracts never wraps around zero, whatever
\* is dealt in parts, killed or cancelled between two notices.
THEOREM LotsStayUndealt ==
  ASSUME ~CancelsEnded, MaxDays = 1, AllLots < Modulus
  PROVE  BacktestSpec /\ []ChargesPaid => []LotsAreUndealt
<1>1. BacktestInit => VolumesFit
  BY AnyLots, EmptyIs DEF VolumesFit, BacktestInit
<1>2. BacktestInit => Agree /\ Undealts
  BY AgreeStarts, UndealtStarts
<1>3. BacktestInv /\ BooksInv => Fits
  BY FitsLots DEF BacktestInv
<1>4. BacktestInv /\ EarsInv /\ BooksInv /\ Agree /\ Fits' /\ ChargesPaid
        /\ [BacktestNext]_allVars => Agree'
  BY AgreeStep DEF BooksInv
<1>5. BacktestInv /\ EarsInv /\ VolumesFit /\ Fits' /\ [BacktestNext]_allVars
        => VolumesFit'
  BY VolumesStep
<1>6. BacktestInv /\ BacktestInv' /\ EarsInv /\ BooksInv /\ WholeInv /\ Agree /\ Fits'
        /\ ChargesPaid /\ VolumesFit /\ Undealts /\ [BacktestNext]_allVars => Undealts'
  BY UndealtStep
<1>7. BacktestInv /\ EarsInv /\ BooksInv /\ Undealts => LotsAreUndealt
  BY UndealtIs DEF BacktestInv, BooksInv
<1> QED
  BY <1>1, <1>2, <1>3, <1>4, <1>5, <1>6, <1>7, BooksAlways, WholeAlways, PTL
     DEF BacktestSpec
=============================================================================
