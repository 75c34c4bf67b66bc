------------------------- MODULE LiveTradingProofs -------------------------
(***************************************************************************)
(* Proofs about LiveTrading, for every value of its constants.             *)
(*                                                                         *)
(* What is on its way to the context is read three times: by the driver,   *)
(* which makes events of callbacks, by the context, which keeps its books  *)
(* by events, and by the listeners, which are told of them.  A callback    *)
(* run, an event fired and an event handled leave the result of such a     *)
(* reading as it is; a step of the exchange adds one callback to its end.  *)
(* So the invariants speak of what is read at the end, and only the steps  *)
(* of the exchange and of the strategies are to be looked at.              *)
(***************************************************************************)
EXTENDS LiveTrading, SumProofs, SequenceTheorems

-----------------------------------------------------------------------------
(* The readers *)

\* Heard with its state as parameters.
OrderInfoBy(w, o, left) ==
  LET r == w.asked[o]
  IN [code |-> r.code, direction |-> r.direction, total |-> r.total, last |-> left,
      offset |-> Drv!WrappedOffset(w.api, r.code \in Distinct, r.offset)]

HeardBy(w, x, e) ==
  LET r == OrderInfoBy(w, e.id, e.left)
  IN CASE e.type = "OrderPlace"  -> Ctx!Entrust(x, e.id, r, e.left)
       [] e.type = "CancelError" -> x
       [] OTHER                  -> Ctx!Handle(x, e, r)

\* What a driver makes of callback m, after the events it has fired.
DrivenBy(w, x, m) ==
  LET k == Drv!Callback(w.api, x.adapter, m)
  IN Drv!Keeps(k.adapter, x.events \o k.events)

\* A life as Lifecycle sees it.
Life(t) ==
  [status |-> IF t = [status |-> "entrusted", left |-> 0] THEN "traded" ELSE t.status,
   left   |-> t.left]

\* Lifecycle allows a step from t to u.
Lawful(t, u) ==
  \/ Life(u) = Life(t)
  \/ t.status = "placed" /\ Life(u) = [status |-> "refused", left |-> t.left]
  \/ /\ Life(t).status \in {"placed", "entrusted"}
     /\ \E n \in 0..t.left, s \in {"entrusted", "traded", "canceled"} :
          (s = "traded" <=> n = 0) /\ Life(u) = [status |-> s, left |-> n]

\* A listener hears of its order until the order's end.
Deaf(t) == t.status \notin {"placed", "entrusted"}

\* The listener of order o hears e; x is what it was told, and whether that is
\* lawful.
ToldBy(o, x, e) ==
  IF ~x.lawful \/ e.id # o \/ Deaf(x.told) THEN x
  ELSE [told |-> Told(x.told, e), lawful |-> Lawful(x.told, Told(x.told, e))]

Reads(reader, w, x, e) ==
  CASE reader = "driver"  -> DrivenBy(w, x, e)
    [] reader = "context" -> HeardBy(w, x, e)
    [] OTHER              -> ToldBy(w, x, e)

-----------------------------------------------------------------------------
(* Reading a sequence from its first element on: FoldLeft, for a reader. *)

\* The equation of the recursive function that FoldLeft is defined by.
Folds(reader, w, b, s, g) ==
  g = [t \in SUBSET DOMAIN s |->
         IF t = {} THEN b ELSE Reads(reader, w, g[t \ {LastOf(t)}], s[LastOf(t)])]

Read(reader, w, b, s) == (CHOOSE g : Folds(reader, w, b, s, g))[DOMAIN s]

FoldsUpTo(n, reader, w, b, s, g) ==
  /\ g = [t \in SUBSET DOMAIN s |-> g[t]]
  /\ \A t \in SUBSET DOMAIN s :
       Cardinality(t) <= n =>
         g[t] = IF t = {} THEN b ELSE Reads(reader, w, g[t \ {LastOf(t)}], s[LastOf(t)])

LEMMA FoldsUpToExists ==
  ASSUME NEW reader, NEW w, NEW b, NEW s, NEW d \in Nat, DOMAIN s = 1..d, NEW n \in Nat
  PROVE  \E g : FoldsUpTo(n, reader, w, b, s, g)
<1> DEFINE Bad == {m \in Nat : ~\E g : FoldsUpTo(m, reader, w, b, s, g)}
<1> SUFFICES ASSUME Bad # {} PROVE FALSE
  OBVIOUS
<1>1. PICK m \in Bad : \A k \in Bad : ~(k < m)
  <2>1. Bad \subseteq Nat
    OBVIOUS
  <2> HIDE DEF Bad
  <2> QED
    BY <2>1, LeastNat
<1>2. CASE m = 0
  <2> DEFINE g == [t \in SUBSET DOMAIN s |-> b]
  <2>1. \A t \in SUBSET DOMAIN s : Cardinality(t) <= 0 => t = {}
    <3>1. IsFiniteSet(1..d)
      BY FS_Interval
    <3> QED
      BY <3>1, FS_EmptySet, FS_Subset, FS_CardinalityType
  <2>2. FoldsUpTo(0, reader, w, b, s, g)
    BY <2>1 DEF FoldsUpTo
  <2> QED
    BY <1>2, <2>2
<1>3. CASE m # 0
  <2>1. m - 1 \in Nat /\ m - 1 \notin Bad
    BY <1>1, <1>3
  <2>2. PICK h : FoldsUpTo(m - 1, reader, w, b, s, h)
    BY <2>1
  <2> DEFINE val(t) == IF t = {} THEN b
                       ELSE Reads(reader, w, h[t \ {LastOf(t)}], s[LastOf(t)])
             g == [t \in SUBSET DOMAIN s |-> val(t)]
  <2>3. \A t \in SUBSET DOMAIN s : Cardinality(t) <= m - 1 => h[t] = val(t)
    BY <2>2 DEF FoldsUpTo
  <2>4. ASSUME NEW t \in SUBSET DOMAIN s, Cardinality(t) <= m, t # {}
        PROVE  g[t] = Reads(reader, w, g[t \ {LastOf(t)}], s[LastOf(t)])
    <3>1. t \ {LastOf(t)} \in SUBSET DOMAIN s /\ Cardinality(t \ {LastOf(t)}) <= m - 1
      <4>1. PICK u : u = t \ {LastOf(t)}
        OBVIOUS
      <4>2. t \in SUBSET (1..d) /\ t # {}
        BY <2>4
      <4>3. u \in SUBSET (1..d) /\ Cardinality(t) \in Nat /\ Cardinality(u) = Cardinality(t) - 1
        BY <4>1, <4>2, WithoutLast
      <4>4. m \in Nat /\ Cardinality(t) <= m
        BY <2>4
      <4>5. Cardinality(u) <= m - 1
        BY <4>3, <4>4
      <4> QED
        BY <4>1, <4>3, <4>5
    <3>2. h[t \ {LastOf(t)}] = val(t \ {LastOf(t)})
      BY <2>3, <3>1
    <3> QED
      BY <2>4, <3>1, <3>2
  <2>5. g = [t \in SUBSET DOMAIN s |-> g[t]] /\ g[{}] = b
    OBVIOUS
  <2> HIDE DEF g
  <2>6. FoldsUpTo(m, reader, w, b, s, g)
    BY <2>4, <2>5 DEF FoldsUpTo
  <2> QED
    BY <2>6
<1> QED
  BY <1>2, <1>3

LEMMA FoldsExists ==
  ASSUME NEW reader, NEW w, NEW b, NEW s, NEW d \in Nat, DOMAIN s = 1..d
  PROVE  \E g : Folds(reader, w, b, s, g)
<1> DEFINE n == Cardinality(1..d)
<1>1. n \in Nat /\ \A t \in SUBSET DOMAIN s : Cardinality(t) <= n
  <2>1. IsFiniteSet(1..d)
    BY FS_Interval
  <2> QED
    BY <2>1, FS_CardinalityType, FS_Subset
<1>2. PICK g : FoldsUpTo(n, reader, w, b, s, g)
  BY <1>1, FoldsUpToExists
<1>3. Folds(reader, w, b, s, g)
  BY <1>1, <1>2 DEF FoldsUpTo, Folds
<1> QED
  BY <1>3

\* Up to c, w reads of s what v reads of r.
Alike(reader, w, s, v, r, c) ==
  \A i \in 1..c : \A x : Reads(reader, w, x, s[i]) = Reads(reader, v, x, r[i])

\* Two of them agree where both are defined and read the same.
LEMMA FoldsAgree ==
  ASSUME NEW reader, NEW w, NEW v, NEW b,
         NEW s, NEW d \in Nat, DOMAIN s = 1..d, NEW r, NEW c \in Nat, DOMAIN r = 1..c, c <= d,
         Alike(reader, w, s, v, r, c),
         NEW g, Folds(reader, w, b, s, g), NEW h, Folds(reader, v, b, r, h)
  PROVE  g[1..c] = h[1..c]
<1> DEFINE Bad == {t \in SUBSET (1..c) : g[t] # h[t]}
<1>0. IsFiniteSet(1..c) /\ Bad \subseteq SUBSET (1..c)
  <2>1. c \in Int /\ 1 \in Int
    OBVIOUS
  <2>2. IsFiniteSet(1..c)
    BY <2>1, FS_Interval
  <2>3. Bad \subseteq SUBSET (1..c)
    OBVIOUS
  <2> QED
    BY <2>2, <2>3
<1>1. Bad = {}
  <2> SUFFICES ASSUME Bad # {} PROVE FALSE
    OBVIOUS
  <2>1. PICK t \in Bad : \A x \in t : t \ {x} \notin Bad
    <3> HIDE DEF Bad
    <3> QED
      BY <1>0, Smallest
  <2>2. t \in SUBSET DOMAIN r /\ t \in SUBSET DOMAIN s
    OBVIOUS
  <2>3. /\ g[t] = IF t = {} THEN b ELSE Reads(reader, w, g[t \ {LastOf(t)}], s[LastOf(t)])
        /\ h[t] = IF t = {} THEN b ELSE Reads(reader, v, h[t \ {LastOf(t)}], r[LastOf(t)])
    BY <2>2 DEF Folds
  <2>4. t # {} => LastOf(t) \in t /\ g[t \ {LastOf(t)}] = h[t \ {LastOf(t)}]
    BY <2>1, <2>2, LastIn
  <2>5. t # {} => \A x : Reads(reader, w, x, s[LastOf(t)]) = Reads(reader, v, x, r[LastOf(t)])
    BY <2>4, <2>2 DEF Alike
  <2> QED
    BY <2>3, <2>4, <2>5
<1> QED
  BY <1>1

LEMMA ReadFolds ==
  ASSUME NEW reader, NEW w, NEW b, NEW s, NEW d \in Nat, DOMAIN s = 1..d
  PROVE  \E g : Folds(reader, w, b, s, g) /\ Read(reader, w, b, s) = g[1..d]
BY FoldsExists DEF Read

-----------------------------------------------------------------------------
(* What is read of a sequence with one more element, at either end. *)

LEMMA ReadNothing ==
  ASSUME NEW reader, NEW w, NEW b PROVE Read(reader, w, b, <<>>) = b
<1>1. DOMAIN <<>> = 1..0 /\ 1..0 = {}
  OBVIOUS
<1>2. PICK g : Folds(reader, w, b, <<>>, g) /\ Read(reader, w, b, <<>>) = g[1..0]
  BY <1>1, ReadFolds
<1>3. g[{}] = b
  BY <1>1, <1>2 DEF Folds
<1> QED
  BY <1>1, <1>2, <1>3

LEMMA ReadMore ==
  ASSUME NEW S, NEW s \in Seq(S), NEW e \in S, NEW reader, NEW w, NEW b
  PROVE  Read(reader, w, b, Append(s, e)) = Reads(reader, w, Read(reader, w, b, s), e)
<1> DEFINE d == Len(s)
           r == Append(s, e)
<1>1. /\ d \in Nat /\ d + 1 \in Nat /\ DOMAIN s = 1..d /\ DOMAIN r = 1..(d + 1)
      /\ r[d + 1] = e /\ \A i \in 1..d : r[i] = s[i]
  BY AppendProperties
<1> HIDE DEF d, r
<1>2. PICK g : Folds(reader, w, b, r, g) /\ Read(reader, w, b, r) = g[1..(d + 1)]
  BY <1>1, ReadFolds
<1>3. PICK h : Folds(reader, w, b, s, h) /\ Read(reader, w, b, s) = h[1..d]
  BY <1>1, ReadFolds
<1>4. g[1..d] = h[1..d]
  <2>1. d <= d + 1 /\ Alike(reader, w, r, w, s, d)
    BY <1>1 DEF Alike
  <2> QED
    BY <1>1, <1>2, <1>3, <2>1, FoldsAgree
<1>5. LastOf(1..(d + 1)) = d + 1
  <2>1. d + 1 \in 1..(d + 1) /\ 1..(d + 1) \in SUBSET (1..(d + 1))
    BY <1>1
  <2>2. LastOf(1..(d + 1)) \in 1..(d + 1) /\ LastOf(1..(d + 1)) >= d + 1
    BY <1>1, <2>1, LastIn
  <2> QED
    BY <1>1, <2>2
<1>6. (1..(d + 1)) \ {d + 1} = 1..d /\ 1..(d + 1) # {}
  <2>1. ASSUME NEW k \in Nat PROVE (1..(k + 1)) \ {k + 1} = 1..k /\ k + 1 \in 1..(k + 1)
    OBVIOUS
  <2>2. d \in Nat
    BY <1>1
  <2> QED
    BY <2>1, <2>2
<1>7. g[1..(d + 1)] = Reads(reader, w, g[1..d], e)
  <2>1. \A u \in SUBSET DOMAIN r :
          u # {} => g[u] = Reads(reader, w, g[u \ {LastOf(u)}], r[LastOf(u)])
    BY <1>2 DEF Folds
  <2>2. PICK u : u = 1..(d + 1)
    OBVIOUS
  <2>3. u \in SUBSET DOMAIN r /\ u # {}
    BY <1>1, <1>6, <2>2
  <2>4. g[u] = Reads(reader, w, g[u \ {LastOf(u)}], r[LastOf(u)])
    BY <2>1, <2>3
  <2>5. LastOf(u) = d + 1 /\ u \ {d + 1} = 1..d
    BY <1>5, <1>6, <2>2
  <2> QED
    BY <1>1, <2>2, <2>4, <2>5
<1> QED
  BY <1>2, <1>3, <1>4, <1>7 DEF r

\* A property of sequences that holds of the empty one and of a sequence with
\* one more element holds of all: the smallest of a set of sequences for which
\* it does not.
LEMMA Shortest ==
  ASSUME NEW S, NEW Bad, Bad \subseteq Seq(S), Bad # {}, <<>> \notin Bad
  PROVE  \E s \in Seq(S), e \in S : Append(s, e) \in Bad /\ s \notin Bad
<1> DEFINE Lens == {Len(s) : s \in Bad}
<1>1. Lens \subseteq Nat /\ Lens # {}
  OBVIOUS
<1>2. PICK n \in Lens : \A m \in Lens : ~(m < n)
  <2> HIDE DEF Lens
  <2> QED
    BY <1>1, LeastNat
<1>3. PICK t \in Bad : Len(t) = n
  BY <1>2
<1>4. PICK s \in Seq(S), e \in S : t = Append(s, e)
  BY <1>3, SequenceEmptyOrAppend
<1>5. Len(s) < n
  BY <1>3, <1>4, AppendProperties
<1>6. s \notin Bad
  <2>1. Len(s) \in Lens => ~(Len(s) < n)
    BY <1>2
  <2>2. s \in Bad => Len(s) \in Lens
    OBVIOUS
  <2> HIDE DEF Lens
  <2> QED
    BY <1>5, <2>1, <2>2
<1> QED
  BY <1>3, <1>4, <1>6

\* What is read of the first element and then of the rest is read of all.
LEMMA ReadFirst ==
  ASSUME NEW S, NEW s \in Seq(S), s # <<>>, NEW reader, NEW w, NEW b
  PROVE  Read(reader, w, b, s) = Read(reader, w, Reads(reader, w, b, Head(s)), Tail(s))
<1> DEFINE rest(t) == Read(reader, w, Reads(reader, w, b, Head(t)), Tail(t))
           Bad == {t \in Seq(S) : t # <<>> /\ Read(reader, w, b, t) # rest(t)}
<1> SUFFICES ASSUME Bad # {} PROVE FALSE
  OBVIOUS
<1>1. PICK t \in Seq(S), e \in S : Append(t, e) \in Bad /\ t \notin Bad
  <2>1. Bad \subseteq Seq(S) /\ <<>> \notin Bad
    OBVIOUS
  <2> HIDE DEF Bad
  <2> QED
    BY <2>1, Shortest
<1>2. Read(reader, w, b, Append(t, e)) = Reads(reader, w, Read(reader, w, b, t), e)
  BY ReadMore
<1>3. CASE t = <<>>
  <2>1. Head(Append(t, e)) = e /\ Tail(Append(t, e)) = <<>>
    BY <1>3, HeadTailAppend
  <2>2. Read(reader, w, b, t) = b
    BY <1>3, ReadNothing
  <2>3. rest(Append(t, e)) = Reads(reader, w, b, e)
    BY <2>1, ReadNothing
  <2> QED
    BY <1>1, <1>2, <2>2, <2>3
<1>4. CASE t # <<>>
  <2>1. Head(Append(t, e)) = Head(t) /\ Tail(Append(t, e)) = Append(Tail(t), e)
    BY <1>4, HeadTailAppend
  <2>2. Tail(t) \in Seq(S)
    BY <1>4, HeadTailProperties
  <2>3. rest(Append(t, e)) = Reads(reader, w, rest(t), e)
    <3>1. PICK u, c : u = Tail(t) /\ c = Reads(reader, w, b, Head(t))
      OBVIOUS
    <3>2. Read(reader, w, c, Append(u, e)) = Reads(reader, w, Read(reader, w, c, u), e)
      BY <2>2, <3>1, ReadMore
    <3> QED
      BY <2>1, <3>1, <3>2
  <2>4. Read(reader, w, b, t) = rest(t)
    BY <1>1, <1>4
  <2> QED
    BY <1>1, <1>2, <2>3, <2>4
<1> QED
  BY <1>3, <1>4

LEMMA ConcatMore ==
  ASSUME NEW S, NEW s \in Seq(S), NEW t \in Seq(S), NEW e \in S
  PROVE  s \o Append(t, e) = Append(s \o t, e)
OBVIOUS

\* What is read of one sequence and then of another is read of both.
LEMMA ReadBoth ==
  ASSUME NEW S, NEW s \in Seq(S), NEW t \in Seq(S), NEW reader, NEW w, NEW b
  PROVE  Read(reader, w, b, s \o t) = Read(reader, w, Read(reader, w, b, s), t)
<1> DEFINE after(r) == Read(reader, w, Read(reader, w, b, s), r)
           Bad == {r \in Seq(S) : Read(reader, w, b, s \o r) # after(r)}
<1> SUFFICES ASSUME Bad # {} PROVE FALSE
  OBVIOUS
<1>1. s \o <<>> = s
  OBVIOUS
<1>2. PICK r \in Seq(S), e \in S : Append(r, e) \in Bad /\ r \notin Bad
  <2>1. after(<<>>) = Read(reader, w, b, s \o <<>>)
    BY <1>1, ReadNothing
  <2>2. Bad \subseteq Seq(S) /\ <<>> \notin Bad
    BY <2>1
  <2> HIDE DEF Bad
  <2> QED
    BY <2>2, Shortest
<1>3. s \o r \in Seq(S) /\ s \o Append(r, e) = Append(s \o r, e)
  BY ConcatMore
<1>4. Read(reader, w, b, Append(s \o r, e)) = Reads(reader, w, Read(reader, w, b, s \o r), e)
  BY <1>3, ReadMore
<1>5. after(Append(r, e)) = Reads(reader, w, after(r), e)
  BY ReadMore
<1> QED
  BY <1>2, <1>3, <1>4, <1>5

\* Two readers who make the same of every element read the same.
LEMMA ReadSame ==
  ASSUME NEW S, NEW s \in Seq(S), NEW reader, NEW w, NEW v, NEW b,
         \A e \in S : \A x : Reads(reader, w, x, e) = Reads(reader, v, x, e)
  PROVE  Read(reader, w, b, s) = Read(reader, v, b, s)
<1>1. Len(s) \in Nat /\ DOMAIN s = 1..Len(s) /\ \A i \in 1..Len(s) : s[i] \in S
  OBVIOUS
<1>2. PICK g : Folds(reader, w, b, s, g) /\ Read(reader, w, b, s) = g[1..Len(s)]
  BY <1>1, ReadFolds
<1>3. PICK h : Folds(reader, v, b, s, h) /\ Read(reader, v, b, s) = h[1..Len(s)]
  BY <1>1, ReadFolds
<1>4. Alike(reader, w, s, v, s, Len(s))
  BY <1>1 DEF Alike
<1>5. g[1..Len(s)] = h[1..Len(s)]
  BY <1>1, <1>2, <1>3, <1>4, FoldsAgree
<1> QED
  BY <1>2, <1>3, <1>5

\* What is read stays in a set that every element leaves it in.
LEMMA ReadWithin ==
  ASSUME NEW S, NEW s \in Seq(S), NEW reader, NEW w, NEW Within, NEW b \in Within,
         \A x \in Within : \A e \in S : Reads(reader, w, x, e) \in Within
  PROVE  Read(reader, w, b, s) \in Within
<1> DEFINE Bad == {r \in Seq(S) : Read(reader, w, b, r) \notin Within}
<1> SUFFICES ASSUME Bad # {} PROVE FALSE
  OBVIOUS
<1>1. PICK r \in Seq(S), e \in S : Append(r, e) \in Bad /\ r \notin Bad
  <2>1. Bad \subseteq Seq(S) /\ <<>> \notin Bad
    BY ReadNothing
  <2> HIDE DEF Bad
  <2> QED
    BY <2>1, Shortest
<1>2. Read(reader, w, b, Append(r, e)) = Reads(reader, w, Read(reader, w, b, r), e)
  BY ReadMore
<1> QED
  BY <1>1, <1>2

-----------------------------------------------------------------------------
(* Drained, as what the driver and then the context read. *)

Statuses == {"none", "sent", "working", "traded", "canceled", "refused"}

\* The orders the exchange has seen.
Active == {o \in Ids : exch[o].status # "none"}

\* Callbacks and events that are about one of the orders in S.
MessagesOf(S) ==
  [kind : {"order"}, id : S, status : {"working", "traded", "canceled"},
   left : 0..MaxVolume, total : 1..MaxVolume]
  \cup [kind : {"refused", "cancelrefused", "unheard"}, id : S]

EventsOf(S) ==
  [type : {"OrderPlace", "OrderDeal", "OrderTrade", "OrderCancel", "OrderError", "CancelError"},
   id : S, volume : Nat, left : 0..MaxVolume]

World == [api |-> api, asked |-> asked]

\* The driver's maps and the events on their way, once the driver has run all
\* the callbacks.
Driven == Read("driver", World, Drv!Keeps(adapter, queue \o firing), wire)

Flowing == wire \in Seq(MessagesOf(Active)) /\ Driven.events \in Seq(EventsOf(Active))

HeardFolds(b, s, g) ==
  g = [t \in SUBSET DOMAIN s |->
         IF t = {} THEN b ELSE Heard(g[t \ {LastOf(t)}], s[LastOf(t)])]

DriveFolds(b, s, g) ==
  g = [t \in SUBSET DOMAIN s |->
         IF t = {} THEN b ELSE Drive(g[t \ {LastOf(t)}], s[LastOf(t)])]

LEMMA DrainedFolds ==
  LET driven == (CHOOSE g : DriveFolds(Drv!Keeps(adapter, queue \o firing), wire, g))[DOMAIN wire]
  IN Drained = (CHOOSE g : HeardFolds(ctx, driven.events, g))[DOMAIN driven.events]
<1> DEFINE b == Drv!Keeps(adapter, queue \o firing)
           driven == (CHOOSE g : DriveFolds(b, wire, g))[DOMAIN wire]
<1>1. FoldLeft(Drive, b, wire) = driven
  BY DEF FoldLeft, MapThenFoldSet, Max, LastOf, DriveFolds
<1>2. Drained = FoldLeft(Heard, ctx, FoldLeft(Drive, b, wire).events)
  BY DEF Drained
<1>3. FoldLeft(Heard, ctx, driven.events)
        = (CHOOSE g : HeardFolds(ctx, driven.events, g))[DOMAIN driven.events]
  BY DEF FoldLeft, MapThenFoldSet, Max, LastOf, HeardFolds
<1> HIDE DEF b, driven
<1>4. FoldLeft(Heard, ctx, FoldLeft(Drive, b, wire).events) = FoldLeft(Heard, ctx, driven.events)
  BY <1>1
<1> QED
  BY <1>2, <1>3, <1>4 DEF driven, b

LEMMA HeardReads == \A x, e : Heard(x, e) = Reads("context", World, x, e)
BY DEF Heard, OrderInfo, Reads, HeardBy, OrderInfoBy, World

LEMMA HeardFoldsRead ==
  \A b, s, g : HeardFolds(b, s, g) <=> Folds("context", World, b, s, g)
BY HeardReads DEF HeardFolds, Folds

LEMMA DriveReads == \A x, m : Drive(x, m) = Reads("driver", World, x, m)
BY DEF Drive, Reads, DrivenBy, World

LEMMA DriveFoldsRead ==
  \A b, s, g : DriveFolds(b, s, g) <=> Folds("driver", World, b, s, g)
BY DriveReads DEF DriveFolds, Folds

LEMMA FoldsUnique ==
  ASSUME NEW reader, NEW w, NEW b, NEW s, NEW d \in Nat, DOMAIN s = 1..d,
         NEW g, Folds(reader, w, b, s, g)
  PROVE  g[DOMAIN s] = Read(reader, w, b, s)
<1>1. PICK h : Folds(reader, w, b, s, h) /\ Read(reader, w, b, s) = h[1..d]
  BY ReadFolds
<1>2. Alike(reader, w, s, w, s, d)
  BY DEF Alike
<1>3. g[1..d] = h[1..d]
  <2>1. d <= d
    OBVIOUS
  <2> QED
    BY <1>1, <1>2, <2>1, FoldsAgree
<1> QED
  BY <1>1, <1>3

LEMMA DrivenIs ==
  ASSUME NEW d \in Nat, DOMAIN wire = 1..d
  PROVE  (CHOOSE g : DriveFolds(Drv!Keeps(adapter, queue \o firing), wire, g))[DOMAIN wire] = Driven
<1> DEFINE b == Drv!Keeps(adapter, queue \o firing)
<1>1. \E g : DriveFolds(b, wire, g)
  BY FoldsExists, DriveFoldsRead
<1>2. Folds("driver", World, b, wire, CHOOSE g : DriveFolds(b, wire, g))
  BY <1>1, DriveFoldsRead
<1> QED
  BY <1>2, FoldsUnique DEF Driven

LEMMA DrainedIs == Flowing => Drained = Read("context", World, ctx, Driven.events)
<1> SUFFICES ASSUME Flowing PROVE Drained = Read("context", World, ctx, Driven.events)
  OBVIOUS
<1> DEFINE s == Driven.events
<1>1. Len(wire) \in Nat /\ DOMAIN wire = 1..Len(wire) /\ Len(s) \in Nat /\ DOMAIN s = 1..Len(s)
  <2>1. \A S : \A r \in Seq(S) : Len(r) \in Nat /\ DOMAIN r = 1..Len(r)
    OBVIOUS
  <2>2. wire \in Seq(MessagesOf(Active)) /\ s \in Seq(EventsOf(Active))
    BY DEF Flowing
  <2> HIDE DEF s
  <2> QED
    BY <2>1, <2>2
<1>2. Drained = (CHOOSE g : HeardFolds(ctx, s, g))[DOMAIN s]
  BY <1>1, DrainedFolds, DrivenIs
<1>3. \E g : HeardFolds(ctx, s, g)
  BY <1>1, FoldsExists, HeardFoldsRead
<1>4. Folds("context", World, ctx, s, CHOOSE g : HeardFolds(ctx, s, g))
  BY <1>3, HeardFoldsRead
<1> QED
  BY <1>1, <1>2, <1>4, FoldsUnique

LEMMA DrainedIsNext == (Flowing => Drained = Read("context", World, ctx, Driven.events))'
BY DrainedIs, PTL

-----------------------------------------------------------------------------
(* Types *)

Ends == {"OrderTrade", "OrderCancel", "OrderError"}

\* The driver's maps, when it has seen only orders in S.
Adapters(S) ==
  {a \in [order : [Ids -> -1..MaxVolume], index : SUBSET S] :
     \A o \in Ids \ S : a.order[o] = Drv!Unknown}

Kept(S) == [adapter : Adapters(S), events : Seq(EventsOf(S))]

LEMMA ConstantsTyped ==
  /\ MaxVolume \in Nat /\ Modulus \in Nat /\ Modulus > MaxVolume /\ IsFiniteSet(Ids)
  /\ Apis \subseteq {"ctp", "tap"} /\ Size \in Nat /\ Size > 0
  /\ \A r \in Requests : /\ r.code \in Codes /\ r.offset \in {"open", "close", "clstd"}
                         /\ r.direction \in Dirs /\ r.total \in 1..MaxVolume
BY LiveAssumption DEF Dirs

\* The deal that a return tells of, and the events of its end.
LEMMA DealtTyped ==
  ASSUME NEW S, NEW m \in MessagesOf(S), m.kind = "order", NEW v \in Nat
  PROVE  /\ Drv!Dealt(m, v) \in Seq(EventsOf(S))
         /\ Drv!Placed(m) \in Seq(EventsOf(S)) /\ Drv!Over(m) \in Seq(EventsOf(S))
<1>1. m.id \in S /\ m.left \in 0..MaxVolume /\ m.total \in 1..MaxVolume
  BY DEF MessagesOf
<1>2. ASSUME NEW e \in EventsOf(S) PROVE <<e>> \in Seq(EventsOf(S))
  OBVIOUS
<1>3. m.left \in Nat /\ m.total \in Nat /\ 0 \in 0..MaxVolume
  BY <1>1, ConstantsTyped
<1>4. /\ Drv!Fired("OrderDeal", m.id, v, m.left) \in EventsOf(S)
      /\ Drv!Fired("OrderPlace", m.id, m.total, m.left) \in EventsOf(S)
      /\ Drv!Fired("OrderTrade", m.id, m.total, 0) \in EventsOf(S)
      /\ Drv!Fired("OrderCancel", m.id, m.left, m.left) \in EventsOf(S)
  BY <1>1, <1>3 DEF Drv!Fired, EventsOf
<1> QED
  BY <1>2, <1>4 DEF Drv!Dealt, Drv!Placed, Drv!Over

LEMMA RefusedTyped ==
  ASSUME NEW S, NEW o \in S
  PROVE  Drv!PlaceRefused(o) \in EventsOf(S) /\ Drv!CancelRefused(o) \in EventsOf(S)
<1>1. 0 \in 0..MaxVolume /\ 0 \in Nat
  BY ConstantsTyped
<1> QED
  BY <1>1 DEF Drv!PlaceRefused, Drv!CancelRefused, Drv!Fired, EventsOf

LEMMA ConcatTyped ==
  ASSUME NEW S, NEW s \in Seq(S), NEW t \in Seq(S)
  PROVE  s \o t \in Seq(S) /\ <<>> \in Seq(S)
OBVIOUS

\* What a return makes of the driver's maps: the whole of it, in the terms of
\* both drivers.
LEMMA AdapterSet ==
  ASSUME NEW S \in SUBSET Ids, NEW a \in Adapters(S), NEW o \in S, NEW l \in -1..MaxVolume,
         NEW i \in SUBSET S
  PROVE  /\ [a EXCEPT !.order[o] = l] \in Adapters(S)
         /\ [a EXCEPT !.index = i] \in Adapters(S)
         /\ [order |-> [a.order EXCEPT ![o] = l], index |-> i] \in Adapters(S)
         /\ [a EXCEPT !.order[o] = l].order = [a.order EXCEPT ![o] = l]
         /\ a.order \in [Ids -> -1..MaxVolume] /\ a.index \in SUBSET S
<1>1. a \in [order : [Ids -> -1..MaxVolume], index : SUBSET S]
  BY DEF Adapters
<1>2. [a EXCEPT !.order[o] = l] = [order |-> [a.order EXCEPT ![o] = l], index |-> a.index]
  BY <1>1
<1>3. [a EXCEPT !.index = i] = [order |-> a.order, index |-> i]
  BY <1>1
<1>4. ASSUME NEW j \in SUBSET S
      PROVE  [order |-> [a.order EXCEPT ![o] = l], index |-> j] \in Adapters(S)
  BY <1>1 DEF Adapters
<1>5. [order |-> a.order, index |-> i] \in Adapters(S)
  BY <1>1 DEF Adapters
<1>6. a.index \in SUBSET S
  BY <1>1
<1> QED
  BY <1>1, <1>2, <1>3, <1>4, <1>5, <1>6

LEMMA OrderSetIn ==
  ASSUME NEW S \in SUBSET Ids, NEW a \in Adapters(S), NEW o \in S, NEW l \in -1..MaxVolume
  PROVE  [a EXCEPT !.order[o] = l] \in Adapters(S)
<1>1. {} \in SUBSET S
  OBVIOUS
<1> QED
  BY <1>1, AdapterSet

LEMMA IndexSetIn ==
  ASSUME NEW S \in SUBSET Ids, NEW a \in Adapters(S), NEW o \in S, NEW i \in SUBSET S
  PROVE  [a EXCEPT !.index = i] \in Adapters(S)
<1>1. -1 \in -1..MaxVolume
  BY ConstantsTyped
<1> QED
  BY <1>1, AdapterSet

LEMMA BothSetIn ==
  ASSUME NEW S \in SUBSET Ids, NEW a \in Adapters(S), NEW o \in S, NEW l \in -1..MaxVolume,
         NEW i \in SUBSET S
  PROVE  [order |-> [a.order EXCEPT ![o] = l], index |-> i] \in Adapters(S)
BY AdapterSet

LEMMA DealAbout ==
  ASSUME NEW S, NEW m \in MessagesOf(S), m.kind = "order", NEW a, a.order[m.id] \in Int
  PROVE  Drv!CtpDeal(a, m) \in Seq(EventsOf(S)) /\ Drv!TapDeal(a, m) \in Seq(EventsOf(S))
<1>1. a.order[m.id] \in Int /\ m.left \in Int
  BY ConstantsTyped DEF MessagesOf
<1>2. a.order[m.id] > m.left => a.order[m.id] - m.left \in Nat
  BY <1>1
<1>3. (a.order[m.id] - m.left) % Modulus \in Nat
  BY <1>1, ConstantsTyped
<1>4. <<>> \in Seq(EventsOf(S))
  OBVIOUS
<1>5. \A v \in Nat : Drv!Dealt(m, v) \in Seq(EventsOf(S))
  BY DealtTyped
<1>6. Drv!CtpDeal(a, m) \in Seq(EventsOf(S))
  BY <1>2, <1>4, <1>5 DEF Drv!CtpDeal
<1>7. Drv!TapDeal(a, m) \in Seq(EventsOf(S))
  <2>1. PICK v : v = (a.order[m.id] - m.left) % Modulus
    OBVIOUS
  <2>2. Drv!TapDeal(a, m) = IF v > 0 THEN Drv!Dealt(m, v) ELSE <<>>
    BY <2>1 DEF Drv!TapDeal
  <2>3. v \in Nat /\ Drv!Dealt(m, v) \in Seq(EventsOf(S))
    BY <1>3, <1>5, <2>1
  <2> QED
    BY <1>4, <2>2, <2>3
<1> QED
  BY <1>6, <1>7

LEMMA DealTyped ==
  ASSUME NEW S \in SUBSET Ids, NEW a \in Adapters(S), NEW m \in MessagesOf(S), m.kind = "order"
  PROVE  Drv!CtpDeal(a, m) \in Seq(EventsOf(S)) /\ Drv!TapDeal(a, m) \in Seq(EventsOf(S))
<1>1. m.id \in S
  BY DEF MessagesOf
<1>2. a.order \in [Ids -> -1..MaxVolume]
  BY DEF Adapters
<1>3. a.order[m.id] \in -1..MaxVolume
  BY <1>1, <1>2
<1>4. a.order[m.id] \in Int
  BY <1>3, ConstantsTyped
<1> QED
  BY <1>4, DealAbout

LEMMA PlacedTyped ==
  ASSUME NEW S, NEW m \in MessagesOf(S), m.kind = "order"
  PROVE  /\ m.left < m.total =>
              /\ Drv!Placed(m) \o Drv!Dealt(m, m.left) \in Seq(EventsOf(S))
              /\ Drv!Placed(m) \o Drv!Dealt(m, m.total - m.left) \in Seq(EventsOf(S))
         /\ Drv!Placed(m) \o <<>> \in Seq(EventsOf(S))
<1>1. m.left \in Nat /\ m.total \in Nat
  BY ConstantsTyped DEF MessagesOf
<1>2. m.left < m.total => m.total - m.left \in Nat
  BY <1>1
<1> QED
  BY <1>1, <1>2, DealtTyped, ConcatTyped

KeepsIn(S, k) == k.adapter \in Adapters(S) /\ k.events \in Seq(EventsOf(S))

LEMMA KeepsFields ==
  ASSUME NEW a, NEW s PROVE Drv!Keeps(a, s).adapter = a /\ Drv!Keeps(a, s).events = s
BY DEF Drv!Keeps

LEMMA KeepsKept ==
  ASSUME NEW S, NEW a \in Adapters(S), NEW events \in Seq(EventsOf(S))
  PROVE  KeepsIn(S, Drv!Keeps(a, events))
BY DEF KeepsIn, Drv!Keeps

LEMMA ReturnTyped ==
  ASSUME NEW S \in SUBSET Ids, NEW a \in Adapters(S), NEW m \in MessagesOf(S), m.kind = "order"
  PROVE  KeepsIn(S, Drv!CtpRtnOrder(a, m)) /\ KeepsIn(S, Drv!TapRtnOrder(a, m))
<1>1. /\ m.id \in S /\ m.left \in -1..MaxVolume /\ Drv!Unknown \in -1..MaxVolume
      /\ a.index \ {m.id} \in SUBSET S /\ a.index \cup {m.id} \in SUBSET S
  BY ConstantsTyped DEF MessagesOf, Drv!Unknown, Adapters
<1>2. <<>> \in Seq(EventsOf(S))
  OBVIOUS
<1>3. /\ Drv!CtpDeal(a, m) \o Drv!Over(m) \in Seq(EventsOf(S))
      /\ Drv!TapDeal(a, m) \o Drv!Over(m) \in Seq(EventsOf(S))
  BY DealTyped, DealtTyped, ConcatTyped, 0 \in Nat
<1> DEFINE aged == IF a.order[m.id] > m.left THEN m.left ELSE a.order[m.id]
<1>4. aged \in -1..MaxVolume /\ [a EXCEPT !.order[m.id] = IF @ > m.left THEN m.left ELSE @]
                                   = [a EXCEPT !.order[m.id] = aged]
  BY <1>1 DEF Adapters
<1> HIDE DEF aged
<1>5. /\ [a EXCEPT !.order[m.id] = Drv!Unknown] \in Adapters(S)
      /\ [a EXCEPT !.order[m.id] = m.left] \in Adapters(S)
      /\ [a EXCEPT !.order[m.id] = aged] \in Adapters(S)
      /\ [a EXCEPT !.index = a.index \ {m.id}] \in Adapters(S)
  BY <1>1, <1>4, OrderSetIn, IndexSetIn
<1>6. /\ [order |-> [a.order EXCEPT ![m.id] = Drv!Unknown], index |-> a.index \ {m.id}]
           \in Adapters(S)
      /\ [order |-> [a.order EXCEPT ![m.id] = m.left], index |-> a.index \cup {m.id}]
           \in Adapters(S)
  BY <1>1, BothSetIn
<1>7. KeepsIn(S, Drv!CtpRtnOrder(a, m))
  <2>1. CASE Drv!IsOver(m) /\ Drv!Seen(a, m.id)
    <3>1. Drv!CtpRtnOrder(a, m) = Drv!Keeps([a EXCEPT !.order[m.id] = Drv!Unknown],
                                            Drv!CtpDeal(a, m) \o Drv!Over(m))
      BY <2>1 DEF Drv!CtpRtnOrder
    <3> QED
      BY <1>3, <1>5, <3>1, KeepsKept
  <2>2. CASE Drv!IsOver(m) /\ ~Drv!Seen(a, m.id)
    BY <1>2, <2>2, KeepsKept DEF Drv!CtpRtnOrder
  <2>3. CASE ~Drv!IsOver(m) /\ ~Drv!Seen(a, m.id)
    <3> DEFINE events == Drv!Placed(m) \o IF m.left < m.total THEN Drv!Dealt(m, m.left) ELSE <<>>
    <3>1. Drv!CtpRtnOrder(a, m) = Drv!Keeps([a EXCEPT !.order[m.id] = m.left], events)
      BY <2>3 DEF Drv!CtpRtnOrder
    <3>2. events \in Seq(EventsOf(S))
      BY PlacedTyped
    <3> QED
      BY <1>5, <3>1, <3>2, KeepsKept
  <2>4. CASE ~Drv!IsOver(m) /\ Drv!Seen(a, m.id)
    <3>1. Drv!CtpRtnOrder(a, m) = Drv!Keeps([a EXCEPT !.order[m.id] = aged], Drv!CtpDeal(a, m))
      BY <1>4, <2>4 DEF Drv!CtpRtnOrder
    <3> QED
      BY <1>5, <3>1, DealTyped, KeepsKept
  <2> QED
    BY <2>1, <2>2, <2>3, <2>4
<1>8. KeepsIn(S, Drv!TapRtnOrder(a, m))
  <2>1. CASE Drv!IsOver(m) /\ Drv!Seen(a, m.id)
    <3>1. Drv!TapRtnOrder(a, m) =
            Drv!Keeps([order |-> [a.order EXCEPT ![m.id] = Drv!Unknown], index |-> a.index \ {m.id}],
                      Drv!TapDeal(a, m) \o Drv!Over(m))
      BY <2>1 DEF Drv!TapRtnOrder
    <3> QED
      BY <1>3, <1>6, <3>1, KeepsKept
  <2>2. CASE Drv!IsOver(m) /\ ~Drv!Seen(a, m.id)
    <3>1. Drv!TapRtnOrder(a, m) = Drv!Keeps([a EXCEPT !.index = a.index \ {m.id}], <<>>)
      BY <2>2 DEF Drv!TapRtnOrder
    <3> QED
      BY <1>2, <1>5, <3>1, KeepsKept
  <2>3. CASE ~Drv!IsOver(m) /\ ~Drv!Seen(a, m.id)
    <3> DEFINE events == Drv!Placed(m) \o
                           IF m.left < m.total THEN Drv!Dealt(m, m.total - m.left) ELSE <<>>
    <3>1. Drv!TapRtnOrder(a, m) =
            Drv!Keeps([order |-> [a.order EXCEPT ![m.id] = m.left], index |-> a.index \cup {m.id}],
                      events)
      BY <2>3 DEF Drv!TapRtnOrder
    <3>2. events \in Seq(EventsOf(S))
      BY PlacedTyped
    <3> QED
      BY <1>6, <3>1, <3>2, KeepsKept
  <2>4. CASE ~Drv!IsOver(m) /\ Drv!Seen(a, m.id)
    <3>1. Drv!TapRtnOrder(a, m) =
            Drv!Keeps([order |-> [a.order EXCEPT ![m.id] = m.left], index |-> a.index \cup {m.id}],
                      Drv!TapDeal(a, m))
      BY <2>4 DEF Drv!TapRtnOrder
    <3> QED
      BY <1>6, <3>1, DealTyped, KeepsKept
  <2> QED
    BY <2>1, <2>2, <2>3, <2>4
<1> QED
  BY <1>7, <1>8

LEMMA CallbackTyped ==
  ASSUME NEW S \in SUBSET Ids, NEW a \in Adapters(S), NEW m \in MessagesOf(S), NEW p
  PROVE  KeepsIn(S, Drv!Callback(p, a, m))
<1>1. m.id \in S /\ m.kind \in {"order", "refused", "cancelrefused", "unheard"}
  BY DEF MessagesOf
<1>0. KeepsIn(S, Drv!TapError(a, m)) /\ KeepsIn(S, Drv!TapErrorLogged(a))
  <2>1. <<Drv!PlaceRefused(m.id)>> \in Seq(EventsOf(S)) /\ <<>> \in Seq(EventsOf(S))
    BY <1>1, RefusedTyped
  <2> QED
    BY <2>1, KeepsKept DEF Drv!TapError, Drv!TapErrorLogged
<1>2. CASE m.kind = "order"
  BY <1>2, ReturnTyped DEF Drv!Callback
<1>3. CASE m.kind = "refused"
  <2>1. Drv!Unknown \in -1..MaxVolume
    BY ConstantsTyped DEF Drv!Unknown
  <2>2. <<Drv!PlaceRefused(m.id), Drv!PlaceRefused(m.id)>> \in Seq(EventsOf(S))
    BY <1>1, RefusedTyped
  <2>3. KeepsIn(S, Drv!CtpRefused(a, m))
    <3>1. [a EXCEPT !.order[m.id] = Drv!Unknown] \in Adapters(S)
      BY <1>1, <2>1, OrderSetIn
    <3> QED
      BY <2>2, <3>1, KeepsKept DEF Drv!CtpRefused
  <2> QED
    BY <1>0, <1>3, <2>3 DEF Drv!Callback
<1>4. CASE m.kind = "cancelrefused"
  <2>1. <<Drv!CancelRefused(m.id)>> \in Seq(EventsOf(S))
    BY <1>1, RefusedTyped
  <2>2. KeepsIn(S, Drv!CtpCancelRefused(a, m))
    BY <2>1, KeepsKept DEF Drv!CtpCancelRefused
  <2> QED
    BY <1>0, <1>4, <2>2 DEF Drv!Callback
<1>5. CASE m.kind = "unheard"
  BY <1>0, <1>5 DEF Drv!Callback
<1> QED
  BY <1>1, <1>2, <1>3, <1>4, <1>5

LEMMA DrivenByTyped ==
  ASSUME NEW S \in SUBSET Ids, NEW x \in Kept(S), NEW m \in MessagesOf(S), NEW w
  PROVE  Reads("driver", w, x, m) \in Kept(S)
<1>1. x.adapter \in Adapters(S) /\ x.events \in Seq(EventsOf(S))
  BY DEF Kept
<1>2. KeepsIn(S, Drv!Callback(w.api, x.adapter, m))
  BY <1>1, CallbackTyped
<1>3. x.events \o Drv!Callback(w.api, x.adapter, m).events \in Seq(EventsOf(S))
  BY <1>1, <1>2, ConcatTyped DEF KeepsIn
<1> QED
  BY <1>2, <1>3 DEF Reads, DrivenBy, Drv!Keeps, Kept, KeepsIn

LEMMA DriverTyped ==
  ASSUME NEW S \in SUBSET Ids, NEW b \in Kept(S), NEW s \in Seq(MessagesOf(S)), NEW w
  PROVE  Read("driver", w, b, s) \in Kept(S)
<1>1. \A x \in Kept(S) : \A m \in MessagesOf(S) : Reads("driver", w, x, m) \in Kept(S)
  BY DrivenByTyped
<1> QED
  BY <1>1, ReadWithin

-----------------------------------------------------------------------------
(* The context's books.  Pending lots are those an unsigned integer holds, and
   so is what a deal leaves; what is loaded is what the account holds. *)

Wraps == 0..Modulus - 1

IsOrder(r) ==
  /\ r.code \in Codes /\ r.offset \in {"open", "close", "clstd"} /\ r.direction \in Dirs
  /\ r.total \in 1..MaxVolume /\ r.last \in 0..MaxVolume

Ledgers == [postion : [Buckets -> [Dirs -> Nat]],
            frozen  : [Buckets -> [Dirs -> Nat]],
            pending : [Dirs -> Wraps]]

Wishes == {"none", "always"}

Ctxs == [position : [Codes -> Ledgers], entries : SUBSET Codes,
         order : [Ids -> -1..MaxVolume], listener : SUBSET Ids,
         condition : [Ids -> Wishes]]

LEMMA SameSets == Ctx!Dirs = Dirs /\ Ctx!Buckets = Buckets
BY DEF Ctx!Dirs, Dirs, Ctx!Buckets, Buckets

LEMMA OrderFields ==
  ASSUME NEW r, IsOrder(r)
  PROVE  /\ r.code \in Codes /\ r.direction \in Dirs /\ Ctx!BucketOf(r) \in Buckets
         /\ r.total \in Nat /\ r.last \in Nat
         /\ r.total \in -1..MaxVolume /\ r.last \in -1..MaxVolume
BY ConstantsTyped DEF IsOrder, Ctx!BucketOf, Buckets

LEMMA PlusIn ==
  ASSUME NEW a \in Nat, NEW b \in Nat PROVE Ctx!Plus(a, b) \in Wraps /\ Ctx!Plus(a, b) \in Nat
BY ConstantsTyped DEF Ctx!Plus, Wraps

LEMMA MinusIn ==
  ASSUME NEW a \in Nat, NEW b \in Nat PROVE Ctx!Minus(a, b) \in Wraps /\ Ctx!Minus(a, b) \in Nat
BY ConstantsTyped DEF Ctx!Minus, Wraps

LEMMA InNat == Wraps \subseteq Nat /\ 0 \in Wraps
BY ConstantsTyped DEF Wraps

LEMMA ZeroIs ==
  /\ \A b \in Buckets, d \in Dirs : Ctx!Zero[b][d] = 0
  /\ Ctx!Zero \in [Buckets -> [Dirs -> Nat]]
  /\ Ctx!NoPosition \in Ledgers
  /\ \A d \in Dirs : Ctx!NoPosition.pending[d] = 0
  /\ Ctx!NoPosition.postion = Ctx!Zero /\ Ctx!NoPosition.frozen = Ctx!Zero
<1>1. /\ \A b \in Buckets, d \in Dirs : Ctx!Zero[b][d] = 0
      /\ Ctx!Zero \in [Buckets -> [Dirs -> Nat]]
  BY SameSets DEF Ctx!Zero
<1>2. Ctx!NoPosition = [postion |-> Ctx!Zero, frozen |-> Ctx!Zero,
                        pending |-> [d \in Dirs |-> 0]]
  BY SameSets DEF Ctx!NoPosition
<1>3. [d \in Dirs |-> 0] \in [Dirs -> Wraps]
  BY InNat
<1> QED
  BY <1>1, <1>2, <1>3 DEF Ledgers

LEMMA LotInt ==
  ASSUME NEW x \in Ctxs
  PROVE  /\ \A c \in Codes, b \in Buckets, d \in Dirs :
              x.position[c].postion[b][d] \in Nat /\ x.position[c].frozen[b][d] \in Nat
         /\ \A c \in Codes, d \in Dirs :
              x.position[c].pending[d] \in Wraps /\ x.position[c].pending[d] \in Nat
<1>1. \A c \in Codes : x.position[c] \in Ledgers
  BY DEF Ctxs
<1>2. ASSUME NEW c \in Codes
      PROVE  /\ \A b \in Buckets, d \in Dirs : /\ x.position[c].postion[b][d] \in Nat
                                                /\ x.position[c].frozen[b][d] \in Nat
             /\ \A d \in Dirs : x.position[c].pending[d] \in Wraps
  BY <1>1 DEF Ledgers
<1> QED
  BY <1>2, InNat

\* A context with another number of pending or of frozen lots.
SetPending(x, c, d, n) == [x EXCEPT !.position[c].pending[d] = n]

SetFrozenLots(x, c, b, d, n) == [x EXCEPT !.position[c].frozen[b][d] = n]

\* What a handler leaves alone, and the one volume it changes.
SameNotices(x, y) ==
  y.order = x.order /\ y.listener = x.listener /\ y.condition = x.condition

SamePending(x, y) ==
  \A c \in Codes, d \in Dirs : y.position[c].pending[d] = x.position[c].pending[d]

SameFrozen(x, y) ==
  \A c \in Codes, b \in Buckets, d \in Dirs :
    y.position[c].frozen[b][d] = x.position[c].frozen[b][d]

SamePostion(x, y) ==
  \A c \in Codes, b \in Buckets, d \in Dirs :
    y.position[c].postion[b][d] = x.position[c].postion[b][d]

PendingGoes(x, y, c, d, n) ==
  \A c2 \in Codes, d2 \in Dirs :
    y.position[c2].pending[d2] = IF c2 = c /\ d2 = d THEN n
                                 ELSE x.position[c2].pending[d2]

FrozenGoes(x, y, c, b, d, n) ==
  \A c2 \in Codes, b2 \in Buckets, d2 \in Dirs :
    y.position[c2].frozen[b2][d2] = IF c2 = c /\ b2 = b /\ d2 = d THEN n
                                    ELSE x.position[c2].frozen[b2][d2]

PostionGoes(x, y, c, b, d, n) ==
  \A c2 \in Codes, b2 \in Buckets, d2 \in Dirs :
    y.position[c2].postion[b2][d2] = IF c2 = c /\ b2 = b /\ d2 = d THEN n
                                     ELSE x.position[c2].postion[b2][d2]

LEMMA PendingSet ==
  ASSUME NEW x \in Ctxs,
         NEW c \in Codes, NEW d \in Dirs, NEW n \in Wraps
  PROVE  LET y == SetPending(x, c, d, n)
         IN /\ y \in Ctxs /\ y.entries = x.entries /\ SameNotices(x, y)
            /\ SamePostion(x, y) /\ SameFrozen(x, y) /\ PendingGoes(x, y, c, d, n)
<1> DEFINE y == SetPending(x, c, d, n)
           p == x.position[c]
           q == [p EXCEPT !.pending = [p.pending EXCEPT ![d] = n]]
           P == [x.position EXCEPT ![c] = q]
<1>1. y = [x EXCEPT !.position = P]
  BY DEF SetPending
<1>2. p \in Ledgers /\ x.position \in [Codes -> Ledgers]
  BY DEF Ctxs
<1>3. /\ q \in Ledgers /\ q.postion = p.postion /\ q.frozen = p.frozen
      /\ \A d2 \in Dirs : q.pending[d2] = IF d2 = d THEN n ELSE p.pending[d2]
  BY <1>2 DEF Ledgers
<1> HIDE DEF q
<1>4. /\ P \in [Codes -> Ledgers]
      /\ \A c2 \in Codes : P[c2] = IF c2 = c THEN q ELSE x.position[c2]
  BY <1>2, <1>3
<1> HIDE DEF P
<1>5. /\ y.position = P
      /\ y.entries = x.entries /\ y.order = x.order
      /\ y.listener = x.listener /\ y.condition = x.condition
  BY <1>1 DEF Ctxs
<1>6. y \in Ctxs
  BY <1>1, <1>4 DEF Ctxs
<1>7. ASSUME NEW c2 \in Codes
      PROVE  /\ y.position[c2].postion = x.position[c2].postion
             /\ y.position[c2].frozen = x.position[c2].frozen
             /\ \A d2 \in Dirs : y.position[c2].pending[d2] =
                  IF c2 = c /\ d2 = d THEN n ELSE x.position[c2].pending[d2]
  <2>1. CASE c2 = c
    <3>1. y.position[c2] = q /\ x.position[c2] = p
      BY <1>4, <1>5, <2>1
    <3> QED
      BY <1>3, <2>1, <3>1
  <2>2. CASE c2 # c
    BY <1>4, <1>5, <2>2
  <2> QED
    BY <2>1, <2>2
<1> HIDE DEF y
<1> QED
  BY <1>5, <1>6, <1>7 DEF y, SameNotices, SamePostion, SameFrozen, PendingGoes

LEMMA FrozenSet ==
  ASSUME NEW x \in Ctxs,
         NEW c \in Codes, NEW b \in Buckets, NEW d \in Dirs,
         NEW n \in Nat
  PROVE  LET y == SetFrozenLots(x, c, b, d, n)
         IN /\ y \in Ctxs /\ y.entries = x.entries /\ SameNotices(x, y)
            /\ SamePostion(x, y) /\ SamePending(x, y) /\ FrozenGoes(x, y, c, b, d, n)
<1> DEFINE y == SetFrozenLots(x, c, b, d, n)
           p == x.position[c]
           f == [p.frozen EXCEPT ![b] = [p.frozen[b] EXCEPT ![d] = n]]
           q == [p EXCEPT !.frozen = f]
           P == [x.position EXCEPT ![c] = q]
<1>1. y = [x EXCEPT !.position = P]
  BY DEF SetFrozenLots
<1>2. p \in Ledgers /\ x.position \in [Codes -> Ledgers]
      /\ p.frozen \in [Buckets -> [Dirs -> Nat]]
  BY DEF Ctxs, Ledgers
<1>a. /\ f \in [Buckets -> [Dirs -> Nat]]
      /\ \A b2 \in Buckets, d2 \in Dirs :
           f[b2][d2] = IF b2 = b /\ d2 = d THEN n ELSE p.frozen[b2][d2]
  BY <1>2
<1> HIDE DEF f
<1>3. /\ q \in Ledgers /\ q.postion = p.postion /\ q.pending = p.pending
      /\ q.frozen = f
  BY <1>2, <1>a DEF Ledgers
<1> HIDE DEF q
<1>4. /\ P \in [Codes -> Ledgers]
      /\ \A c2 \in Codes : P[c2] = IF c2 = c THEN q ELSE x.position[c2]
  BY <1>2, <1>3
<1> HIDE DEF P
<1>5. /\ y.position = P
      /\ y.entries = x.entries /\ y.order = x.order
      /\ y.listener = x.listener /\ y.condition = x.condition
  BY <1>1 DEF Ctxs
<1>6. y \in Ctxs
  BY <1>1, <1>4 DEF Ctxs
<1>7. ASSUME NEW c2 \in Codes
      PROVE  /\ y.position[c2].postion = x.position[c2].postion
             /\ y.position[c2].pending = x.position[c2].pending
             /\ \A b2 \in Buckets, d2 \in Dirs : y.position[c2].frozen[b2][d2] =
                  IF c2 = c /\ b2 = b /\ d2 = d THEN n ELSE x.position[c2].frozen[b2][d2]
  <2>1. CASE c2 = c
    <3>1. y.position[c2] = q /\ x.position[c2] = p
      BY <1>4, <1>5, <2>1
    <3> QED
      BY <1>a, <1>3, <2>1, <3>1
  <2>2. CASE c2 # c
    BY <1>4, <1>5, <2>2
  <2> QED
    BY <2>1, <2>2
<1> HIDE DEF y
<1> QED
  BY <1>5, <1>6, <1>7 DEF y, SameNotices, SamePostion, SamePending, FrozenGoes

\* What reserving v lots for r makes of a context: of an opening order's
\* pending lots, or of a closing one's frozen lots where there is an entry.
LEMMA ReserveOpen ==
  ASSUME NEW x \in Ctxs,
         NEW r, IsOrder(r), NEW v \in Nat, r.offset = "open"
  PROVE  LET y == Ctx!Reserve(x, r, v)
         IN /\ y \in Ctxs /\ SameNotices(x, y)
            /\ y.entries = x.entries \cup {r.code}
            /\ SamePostion(x, y) /\ SameFrozen(x, y)
            /\ PendingGoes(x, y, r.code, r.direction,
                           Ctx!Plus(x.position[r.code].pending[r.direction], v))
<1> DEFINE y == Ctx!Reserve(x, r, v)
           n == Ctx!Plus(x.position[r.code].pending[r.direction], v)
           z == SetPending(x, r.code, r.direction, n)
<1>1. r.code \in Codes /\ r.direction \in Dirs /\ "today" \in Buckets
  BY OrderFields DEF Buckets
<1>2. n \in Wraps
  <2>1. x.position[r.code].pending[r.direction] \in Nat
    BY <1>1, LotInt
  <2> QED
    BY <2>1, PlusIn
<1>3. y = [z EXCEPT !.entries = z.entries \cup {r.code}]
  BY DEF Ctx!Reserve, Ctxs, SetPending
<1> HIDE DEF n, y
<1>4. /\ z \in Ctxs /\ z.entries = x.entries /\ SameNotices(x, z)
      /\ SamePostion(x, z) /\ SameFrozen(x, z)
      /\ PendingGoes(x, z, r.code, r.direction, n)
  BY <1>1, <1>2, PendingSet
<1> HIDE DEF z
<1>5. /\ y \in Ctxs /\ y.entries = z.entries \cup {r.code} /\ y.position = z.position
      /\ y.order = z.order /\ y.listener = z.listener /\ y.condition = z.condition
  BY <1>1, <1>3, <1>4 DEF Ctxs
<1>6. SameNotices(x, y)
  BY <1>4, <1>5 DEF SameNotices
<1>7. SamePostion(x, y) /\ SameFrozen(x, y) /\ PendingGoes(x, y, r.code, r.direction, n)
  BY <1>4, <1>5 DEF SamePostion, SameFrozen, PendingGoes
<1> QED
  BY <1>4, <1>5, <1>6, <1>7 DEF n, y

LEMMA ReserveClose ==
  ASSUME NEW x \in Ctxs,
         NEW r, IsOrder(r), NEW v \in Nat, r.offset # "open"
  PROVE  LET y == Ctx!Reserve(x, r, v)
         IN /\ y \in Ctxs /\ SameNotices(x, y) /\ y.entries = x.entries
            /\ SamePostion(x, y) /\ SamePending(x, y)
            /\ r.code \notin x.entries => y = x
            /\ r.code \in x.entries =>
                 FrozenGoes(x, y, r.code, Ctx!BucketOf(r), r.direction,
                   Ctx!Plus(x.position[r.code].frozen[Ctx!BucketOf(r)][r.direction], v))
<1> DEFINE y == Ctx!Reserve(x, r, v)
           n == Ctx!Plus(x.position[r.code].frozen[Ctx!BucketOf(r)][r.direction], v)
           z == SetFrozenLots(x, r.code, Ctx!BucketOf(r), r.direction, n)
<1>1. r.code \in Codes /\ r.direction \in Dirs /\ Ctx!BucketOf(r) \in Buckets
  BY OrderFields
<1>2. n \in Nat
  <2>1. x.position[r.code].frozen[Ctx!BucketOf(r)][r.direction] \in Nat
    BY <1>1, LotInt
  <2> QED
    BY <2>1, PlusIn
<1>3. y = IF r.code \notin x.entries THEN x ELSE z
  BY DEF Ctx!Reserve, SetFrozenLots
<1> HIDE DEF n, y
<1>4. /\ z \in Ctxs /\ z.entries = x.entries /\ SameNotices(x, z)
      /\ SamePostion(x, z) /\ SamePending(x, z)
      /\ FrozenGoes(x, z, r.code, Ctx!BucketOf(r), r.direction, n)
  BY <1>1, <1>2, FrozenSet
<1> HIDE DEF z
<1>5. SameNotices(x, x) /\ SamePostion(x, x) /\ SamePending(x, x)
  BY DEF SameNotices, SamePostion, SamePending
<1> QED
  BY <1>3, <1>4, <1>5 DEF n, y

\* What giving v lots back makes of it.
LEMMA ReleaseOpen ==
  ASSUME NEW x \in Ctxs,
         NEW r, IsOrder(r), NEW v \in Nat, r.offset = "open"
  PROVE  LET y == Ctx!Release(x, r, v)
         IN /\ y \in Ctxs /\ SameNotices(x, y) /\ y.entries = x.entries
            /\ SamePostion(x, y) /\ SameFrozen(x, y)
            /\ r.code \notin x.entries => y = x
            /\ r.code \in x.entries =>
                 PendingGoes(x, y, r.code, r.direction,
                             Ctx!Minus(x.position[r.code].pending[r.direction], v))
<1> DEFINE y == Ctx!Release(x, r, v)
           n == Ctx!Minus(x.position[r.code].pending[r.direction], v)
           z == SetPending(x, r.code, r.direction, n)
<1>1. r.code \in Codes /\ r.direction \in Dirs /\ "today" \in Buckets
  BY OrderFields DEF Buckets
<1>2. n \in Wraps
  <2>1. x.position[r.code].pending[r.direction] \in Nat
    BY <1>1, LotInt
  <2> QED
    BY <2>1, MinusIn
<1>3. y = IF r.code \notin x.entries THEN x ELSE z
  BY DEF Ctx!Release, SetPending
<1> HIDE DEF n, y
<1>4. /\ z \in Ctxs /\ z.entries = x.entries /\ SameNotices(x, z)
      /\ SamePostion(x, z) /\ SameFrozen(x, z)
      /\ PendingGoes(x, z, r.code, r.direction, n)
  BY <1>1, <1>2, PendingSet
<1> HIDE DEF z
<1>5. SameNotices(x, x) /\ SamePostion(x, x) /\ SameFrozen(x, x)
  BY DEF SameNotices, SamePostion, SameFrozen
<1> QED
  BY <1>3, <1>4, <1>5 DEF n, y

LEMMA ReleaseClose ==
  ASSUME NEW x \in Ctxs,
         NEW r, IsOrder(r), NEW v \in Nat, r.offset # "open"
  PROVE  LET y == Ctx!Release(x, r, v)
             f == x.position[r.code].frozen[Ctx!BucketOf(r)][r.direction]
         IN /\ y \in Ctxs /\ SameNotices(x, y) /\ y.entries = x.entries
            /\ SamePostion(x, y) /\ SamePending(x, y)
            /\ r.code \notin x.entries => y = x
            /\ r.code \in x.entries =>
                 FrozenGoes(x, y, r.code, Ctx!BucketOf(r), r.direction,
                            IF f > v THEN f - v ELSE 0)
<1> DEFINE y == Ctx!Release(x, r, v)
           f == x.position[r.code].frozen[Ctx!BucketOf(r)][r.direction]
           n == IF f > v THEN f - v ELSE 0
           z == SetFrozenLots(x, r.code, Ctx!BucketOf(r), r.direction, n)
<1>1. r.code \in Codes /\ r.direction \in Dirs /\ Ctx!BucketOf(r) \in Buckets
  BY OrderFields
<1>a. f \in Nat
  BY <1>1, LotInt
<1>3. y = IF r.code \notin x.entries THEN x ELSE z
  BY DEF Ctx!Release, SetFrozenLots
<1> HIDE DEF f
<1>2. n \in Nat
  BY <1>a
<1> HIDE DEF n, y
<1>4. /\ z \in Ctxs /\ z.entries = x.entries /\ SameNotices(x, z)
      /\ SamePostion(x, z) /\ SamePending(x, z)
      /\ FrozenGoes(x, z, r.code, Ctx!BucketOf(r), r.direction, n)
  BY <1>1, <1>2, FrozenSet
<1> HIDE DEF z
<1>5. SameNotices(x, x) /\ SamePostion(x, x) /\ SamePending(x, x)
  BY DEF SameNotices, SamePostion, SamePending
<1> QED
  BY <1>3, <1>4, <1>5 DEF f, n, y

\* The lots a deal of r moves, in the order's bucket or, for an opening one,
\* today's.
DealBucket(r) == IF r.offset = "open" THEN "today" ELSE Ctx!BucketOf(r)

DealtLots(q, r, v) ==
  LET n == q.postion[DealBucket(r)][r.direction]
  IN IF r.offset = "open" THEN Ctx!Plus(n, v) ELSE Ctx!Minus(n, v)

LEMMA DealtOpen ==
  ASSUME NEW q \in Ledgers,
         NEW r, IsOrder(r), NEW v \in Nat, r.offset = "open"
  PROVE  LET p == Ctx!DealtPosition(q, r, v)
         IN /\ p \in Ledgers
            /\ p.frozen = q.frozen
            /\ \A b \in Buckets, d \in Dirs :
                 p.postion[b][d] = IF b = DealBucket(r) /\ d = r.direction
                                   THEN DealtLots(q, r, v) ELSE q.postion[b][d]
            /\ \A d \in Dirs :
                 p.pending[d] = IF d = r.direction THEN Ctx!Minus(q.pending[d], v)
                                ELSE q.pending[d]
<1> DEFINE p == Ctx!DealtPosition(q, r, v)
           d0 == r.direction
           n == Ctx!Plus(q.postion["today"][d0], v)
           m == Ctx!Minus(q.pending[d0], v)
           N == [q.postion EXCEPT !["today"] = [q.postion["today"] EXCEPT ![d0] = n]]
           M == [q.pending EXCEPT ![d0] = m]
<1>1. d0 \in Dirs /\ "today" \in Buckets
  BY OrderFields DEF Buckets
<1>2. p = [q EXCEPT !.postion = N, !.pending = M]
  BY DEF Ctx!DealtPosition
<1>3. /\ q.postion \in [Buckets -> [Dirs -> Nat]] /\ q.pending \in [Dirs -> Wraps]
      /\ q.postion["today"][d0] \in Nat /\ q.pending[d0] \in Wraps
  <2>1. q.postion \in [Buckets -> [Dirs -> Nat]] /\ q.pending \in [Dirs -> Wraps]
    BY DEF Ledgers
  <2> QED
    BY <1>1, <2>1
<1>4. q.postion["today"][d0] \in Nat /\ q.pending[d0] \in Nat
  BY <1>3, InNat
<1>5. n \in Nat /\ m \in Wraps
  BY <1>4, PlusIn, MinusIn
<1>6. DealtLots(q, r, v) = n /\ DealBucket(r) = "today"
  BY DEF DealtLots, DealBucket
<1> HIDE DEF n, m
<1>7. /\ N \in [Buckets -> [Dirs -> Nat]]
      /\ \A b \in Buckets, d \in Dirs :
           N[b][d] = IF b = "today" /\ d = d0 THEN n ELSE q.postion[b][d]
  BY <1>1, <1>3, <1>5
<1>8. M \in [Dirs -> Wraps] /\ \A d \in Dirs : M[d] = IF d = d0 THEN m ELSE q.pending[d]
  BY <1>1, <1>3, <1>5
<1> HIDE DEF N, M, p
<1>9. p \in Ledgers /\ p.postion = N /\ p.pending = M /\ p.frozen = q.frozen
  BY <1>2, <1>7, <1>8 DEF Ledgers
<1>10. \A b \in Buckets, d \in Dirs :
         p.postion[b][d] = IF b = DealBucket(r) /\ d = r.direction
                           THEN DealtLots(q, r, v) ELSE q.postion[b][d]
  BY <1>6, <1>7, <1>9
<1>11. \A d \in Dirs : p.pending[d] = IF d = r.direction THEN Ctx!Minus(q.pending[d], v)
                                       ELSE q.pending[d]
  BY <1>8, <1>9 DEF m
<1> QED
  BY <1>9, <1>10, <1>11 DEF p

LEMMA DealtClose ==
  ASSUME NEW q \in Ledgers,
         NEW r, IsOrder(r), NEW v \in Nat, r.offset # "open"
  PROVE  LET p == Ctx!DealtPosition(q, r, v)
         IN /\ p \in Ledgers
            /\ p.pending = q.pending
            /\ \A b \in Buckets, d \in Dirs :
                 p.postion[b][d] = IF b = DealBucket(r) /\ d = r.direction
                                   THEN DealtLots(q, r, v) ELSE q.postion[b][d]
            /\ \A b \in Buckets, d \in Dirs :
                 p.frozen[b][d] = IF b = Ctx!BucketOf(r) /\ d = r.direction
                                  THEN Ctx!Minus(q.frozen[b][d], v) ELSE q.frozen[b][d]
<1> DEFINE p == Ctx!DealtPosition(q, r, v)
           d0 == r.direction
           b0 == Ctx!BucketOf(r)
           n == Ctx!Minus(q.postion[b0][d0], v)
           m == Ctx!Minus(q.frozen[b0][d0], v)
           N == [q.postion EXCEPT ![b0] = [q.postion[b0] EXCEPT ![d0] = n]]
           M == [q.frozen EXCEPT ![b0] = [q.frozen[b0] EXCEPT ![d0] = m]]
<1>1. d0 \in Dirs /\ b0 \in Buckets
  BY OrderFields
<1>2. p = [q EXCEPT !.postion = N, !.frozen = M]
  BY DEF Ctx!DealtPosition
<1> HIDE DEF b0
<1>3. /\ q.postion \in [Buckets -> [Dirs -> Nat]] /\ q.frozen \in [Buckets -> [Dirs -> Nat]]
      /\ q.postion[b0][d0] \in Nat /\ q.frozen[b0][d0] \in Nat
  BY <1>1 DEF Ledgers
<1>4. q.postion[b0][d0] \in Nat /\ q.frozen[b0][d0] \in Nat
  BY <1>3, InNat
<1>5. n \in Nat /\ m \in Nat
  BY <1>4, MinusIn
<1>6. DealtLots(q, r, v) = n /\ DealBucket(r) = b0
  BY DEF DealtLots, DealBucket, b0
<1> HIDE DEF n, m
<1>7. /\ N \in [Buckets -> [Dirs -> Nat]]
      /\ \A b \in Buckets, d \in Dirs :
           N[b][d] = IF b = b0 /\ d = d0 THEN n ELSE q.postion[b][d]
  BY <1>1, <1>3, <1>5
<1>8. /\ M \in [Buckets -> [Dirs -> Nat]]
      /\ \A b \in Buckets, d \in Dirs :
           M[b][d] = IF b = b0 /\ d = d0 THEN m ELSE q.frozen[b][d]
  BY <1>1, <1>3, <1>5
<1> HIDE DEF N, M, p
<1>9. p \in Ledgers /\ p.postion = N /\ p.frozen = M /\ p.pending = q.pending
  BY <1>2, <1>7, <1>8 DEF Ledgers
<1>10. \A b \in Buckets, d \in Dirs :
         p.postion[b][d] = IF b = DealBucket(r) /\ d = r.direction
                           THEN DealtLots(q, r, v) ELSE q.postion[b][d]
  BY <1>6, <1>7, <1>9
<1>11. \A b \in Buckets, d \in Dirs :
         p.frozen[b][d] = IF b = b0 /\ d = r.direction
                          THEN Ctx!Minus(q.frozen[b][d], v) ELSE q.frozen[b][d]
  BY <1>8, <1>9 DEF m
<1> QED
  BY <1>9, <1>10, <1>11 DEF p, b0

\* What a deal makes of the books: when nothing is left in an entry it goes,
\* and what it had frozen with it.
Deals(x, y, r, v) ==
  LET q == x.position[r.code]
  IN /\ y.entries \in {x.entries \ {r.code}, x.entries \cup {r.code}}
     /\ r.code \notin y.entries => y.position[r.code] = Ctx!NoPosition
     /\ \A c \in Codes \ {r.code} : y.position[c] = x.position[c]
     /\ PostionGoes(x, y, r.code, DealBucket(r), r.direction, DealtLots(q, r, v))
     /\ r.offset = "open" =>
          /\ PendingGoes(x, y, r.code, r.direction, Ctx!Minus(q.pending[r.direction], v))
          /\ r.code \in y.entries => SameFrozen(x, y)
     /\ r.offset # "open" =>
          /\ SamePending(x, y)
          /\ r.code \in y.entries =>
               FrozenGoes(x, y, r.code, Ctx!BucketOf(r), r.direction,
                          Ctx!Minus(q.frozen[Ctx!BucketOf(r)][r.direction], v))

LEMMA Calculated ==
  ASSUME NEW x \in Ctxs, NEW r, IsOrder(r), NEW v \in Nat
  PROVE  LET y == Ctx!CalculatePosition(x, r, v)
         IN y \in Ctxs /\ SameNotices(x, y) /\ Deals(x, y, r, v)
<1> DEFINE y == Ctx!CalculatePosition(x, r, v)
           q == x.position[r.code]
           p == Ctx!DealtPosition(q, r, v)
           e == Ctx!IsEmpty(p)
           z == IF e THEN Ctx!NoPosition ELSE p
           Z == [x.position EXCEPT ![r.code] = z]
           E == IF e THEN x.entries \ {r.code} ELSE x.entries \cup {r.code}
<1>1. r.code \in Codes /\ r.direction \in Dirs /\ Ctx!BucketOf(r) \in Buckets
  BY OrderFields
<1>2. q \in Ledgers
  BY <1>1 DEF Ctxs
<1>3. y = [x EXCEPT !.position = Z, !.entries = E]
  BY DEF Ctx!CalculatePosition
<1>4. e => /\ p.postion = Ctx!NoPosition.postion
           /\ p.pending = Ctx!NoPosition.pending
  <2>1. /\ Ctx!NoPosition.postion = Ctx!Zero
        /\ Ctx!NoPosition.pending = [d \in Ctx!Dirs |-> 0]
    BY DEF Ctx!NoPosition
  <2> QED
    BY <2>1 DEF Ctx!IsEmpty
<1>5. p \in Ledgers
  BY <1>2, DealtOpen, DealtClose
<1> HIDE DEF p, e
<1>6. z \in Ledgers /\ z.postion = p.postion /\ z.pending = p.pending
  BY <1>4, <1>5, ZeroIs
<1>7. (e => z = Ctx!NoPosition) /\ (~e => z = p)
  OBVIOUS
<1> HIDE DEF z
<1>8. /\ Z \in [Codes -> Ledgers] /\ Z[r.code] = z
      /\ \A c \in Codes \ {r.code} : Z[c] = x.position[c]
  BY <1>1, <1>6 DEF Ctxs
<1>9. (r.code \in E <=> ~e) /\ E \in {x.entries \ {r.code}, x.entries \cup {r.code}}
  OBVIOUS
<1>10. E \subseteq Codes
  BY <1>1, <1>9 DEF Ctxs
<1> HIDE DEF Z, E, y
<1>11. /\ y \in Ctxs /\ y.position = Z /\ y.entries = E
       /\ y.order = x.order /\ y.listener = x.listener /\ y.condition = x.condition
  BY <1>3, <1>8, <1>10 DEF Ctxs
<1>12. SameNotices(x, y)
  BY <1>11 DEF SameNotices
<1>13. PostionGoes(x, y, r.code, DealBucket(r), r.direction, DealtLots(q, r, v))
  <2> SUFFICES ASSUME NEW c \in Codes, NEW b \in Buckets, NEW d \in Dirs
               PROVE  y.position[c].postion[b][d] =
                        IF c = r.code /\ b = DealBucket(r) /\ d = r.direction
                        THEN DealtLots(q, r, v) ELSE x.position[c].postion[b][d]
    BY DEF PostionGoes
  <2>1. p.postion[b][d] = IF b = DealBucket(r) /\ d = r.direction
                          THEN DealtLots(q, r, v) ELSE q.postion[b][d]
    <3> HIDE DEF q
    <3>1. CASE r.offset = "open"
      BY <1>2, <3>1, DealtOpen DEF p
    <3>2. CASE r.offset # "open"
      BY <1>2, <3>2, DealtClose DEF p
    <3> QED
      BY <3>1, <3>2
  <2>2. CASE c = r.code
    BY <1>6, <1>8, <1>11, <2>1, <2>2
  <2>3. CASE c # r.code
    BY <1>8, <1>11, <2>3
  <2> QED
    BY <2>2, <2>3
<1>14. r.offset = "open" =>
         /\ PendingGoes(x, y, r.code, r.direction, Ctx!Minus(q.pending[r.direction], v))
         /\ r.code \in y.entries => SameFrozen(x, y)
  <2> SUFFICES ASSUME r.offset = "open", NEW c \in Codes
               PROVE  /\ \A d \in Dirs : y.position[c].pending[d] =
                           IF c = r.code /\ d = r.direction
                           THEN Ctx!Minus(q.pending[r.direction], v)
                           ELSE x.position[c].pending[d]
                      /\ r.code \in y.entries =>
                           \A b \in Buckets, d \in Dirs :
                             y.position[c].frozen[b][d] = x.position[c].frozen[b][d]
    BY DEF PendingGoes, SameFrozen
  <2>1. /\ p.frozen = q.frozen
        /\ \A d \in Dirs : p.pending[d] = IF d = r.direction
                                          THEN Ctx!Minus(q.pending[d], v)
                                          ELSE q.pending[d]
    <3> HIDE DEF q
    <3> QED
      BY <1>2, DealtOpen DEF p
  <2>2. CASE c = r.code
    BY <1>6, <1>7, <1>8, <1>9, <1>11, <2>1, <2>2
  <2>3. CASE c # r.code
    BY <1>8, <1>11, <2>3
  <2> QED
    BY <2>2, <2>3
<1>15. r.offset # "open" =>
         /\ SamePending(x, y)
         /\ r.code \in y.entries =>
              FrozenGoes(x, y, r.code, Ctx!BucketOf(r), r.direction,
                         Ctx!Minus(q.frozen[Ctx!BucketOf(r)][r.direction], v))
  <2> SUFFICES ASSUME r.offset # "open", NEW c \in Codes
               PROVE  /\ \A d \in Dirs : y.position[c].pending[d] = x.position[c].pending[d]
                      /\ r.code \in y.entries =>
                           \A b \in Buckets, d \in Dirs :
                             y.position[c].frozen[b][d] =
                               IF c = r.code /\ b = Ctx!BucketOf(r) /\ d = r.direction
                               THEN Ctx!Minus(q.frozen[Ctx!BucketOf(r)][r.direction], v)
                               ELSE x.position[c].frozen[b][d]
    BY DEF SamePending, FrozenGoes
  <2>1. /\ p.pending = q.pending
        /\ \A b \in Buckets, d \in Dirs :
             p.frozen[b][d] = IF b = Ctx!BucketOf(r) /\ d = r.direction
                              THEN Ctx!Minus(q.frozen[b][d], v) ELSE q.frozen[b][d]
    <3> HIDE DEF q
    <3> QED
      BY <1>2, DealtClose DEF p
  <2>2. CASE c = r.code
    BY <1>6, <1>7, <1>8, <1>9, <1>11, <2>1, <2>2
  <2>3. CASE c # r.code
    BY <1>8, <1>11, <2>3
  <2> QED
    BY <2>2, <2>3
<1>16. r.code \notin y.entries => y.position[r.code] = Ctx!NoPosition
  BY <1>7, <1>8, <1>9, <1>11
<1>17. \A c \in Codes \ {r.code} : y.position[c] = x.position[c]
  BY <1>8, <1>11
<1> QED
  BY <1>9, <1>11, <1>12, <1>13, <1>14, <1>15, <1>16, <1>17 DEF y, q, Deals

-----------------------------------------------------------------------------
(* The handlers *)

SameBooks(x, y) == y.position = x.position /\ y.entries = x.entries

OrderGoes(x, y, o, n) == y.order = [x.order EXCEPT ![o] = n]

SameEars(x, y) == y.listener = x.listener /\ y.condition = x.condition

\* The context's order o becomes n, Unknown when it forgets the order.
SetOrder(x, o, n) == [x EXCEPT !.order[o] = n]

LEMMA OrderSet ==
  ASSUME NEW x \in Ctxs, NEW o \in Ids, NEW n \in -1..MaxVolume
  PROVE  LET y == SetOrder(x, o, n)
         IN /\ y \in Ctxs /\ SameBooks(x, y) /\ SameEars(x, y)
            /\ OrderGoes(x, y, o, n)
<1> DEFINE y == SetOrder(x, o, n)
           O == [x.order EXCEPT ![o] = n]
<1>1. y = [x EXCEPT !.order = O]
  BY DEF SetOrder
<1>2. O \in [Ids -> -1..MaxVolume]
  BY DEF Ctxs
<1> HIDE DEF O, y
<1>3. /\ y \in Ctxs /\ y.order = O /\ y.position = x.position
      /\ y.entries = x.entries /\ y.listener = x.listener /\ y.condition = x.condition
  BY <1>1, <1>2 DEF Ctxs
<1> QED
  BY <1>3 DEF SameBooks, SameEars, OrderGoes, O, y

LEMMA ForgetIs ==
  ASSUME NEW x \in Ctxs, NEW o \in Ids
  PROVE  LET y == Ctx!Forget(x, o)
         IN /\ y \in Ctxs /\ SameBooks(x, y) /\ y.order = x.order
            /\ y.listener = x.listener \ {o}
            /\ y.condition = [x.condition EXCEPT ![o] = "none"]
<1> DEFINE y == Ctx!Forget(x, o)
           l == x.listener \ {o}
           w == [x.condition EXCEPT ![o] = "none"]
<1>1. y = [x EXCEPT !.listener = l, !.condition = w]
  BY DEF Ctx!Forget
<1>2. l \subseteq Ids /\ w \in [Ids -> Wishes]
  BY DEF Ctxs, Wishes
<1> HIDE DEF l, w, y
<1>3. /\ y \in Ctxs /\ y.order = x.order /\ y.position = x.position
      /\ y.entries = x.entries /\ y.listener = l /\ y.condition = w
  BY <1>1, <1>2 DEF Ctxs
<1> QED
  BY <1>3 DEF SameBooks, l, w, y

\* An order that ended: the context knows it no more.
Ended(x, y, o) ==
  /\ y.order = [x.order EXCEPT ![o] = Ctx!Unknown]
  /\ y.listener = x.listener \ {o}
  /\ y.condition = [x.condition EXCEPT ![o] = "none"]

\* An order that goes on, with n lots left.
GoesOn(x, y, o, n) ==
  y.order = [x.order EXCEPT ![o] = n] /\ SameEars(x, y)

LEMMA TradeIs ==
  ASSUME NEW x \in Ctxs, NEW o \in Ids, NEW e, e.id = o
  PROVE  LET y == Ctx!HandleTrade(x, e)
         IN y \in Ctxs /\ SameBooks(x, y) /\ Ended(x, y, o)
<1> DEFINE z == SetOrder(x, o, Ctx!Unknown)
           y == Ctx!Forget(z, o)
<1>0. Ctx!Unknown \in -1..MaxVolume
  BY ConstantsTyped DEF Ctx!Unknown
<1>1. Ctx!HandleTrade(x, e) = y
  BY DEF Ctx!HandleTrade, SetOrder
<1> HIDE DEF y
<1>2. /\ z \in Ctxs /\ SameBooks(x, z) /\ SameEars(x, z)
      /\ OrderGoes(x, z, o, Ctx!Unknown)
  BY <1>0, OrderSet
<1> HIDE DEF z
<1> USE DEF y
<1>3. /\ y \in Ctxs /\ SameBooks(z, y) /\ y.order = z.order
      /\ y.listener = z.listener \ {o}
      /\ y.condition = [z.condition EXCEPT ![o] = "none"]
  BY <1>2, ForgetIs
<1> HIDE DEF y
<1> QED
  BY <1>1, <1>2, <1>3 DEF SameBooks, SameEars, OrderGoes, Ended

LEMMA ErrorIs ==
  ASSUME NEW x \in Ctxs, NEW o \in Ids, NEW e, e.id = o
  PROVE  LET y == Ctx!HandleError(x, e)
         IN y \in Ctxs /\ SameBooks(x, y) /\ Ended(x, y, o)
<1>1. Ctx!HandleError(x, e) = Ctx!HandleTrade(x, e)
  BY DEF Ctx!HandleTrade, Ctx!HandleError
<1> QED
  BY <1>1, TradeIs

\* The books after an entrust, a deal and a cancel are those of the
\* bookkeeping above.
LEMMA EntrustIs ==
  ASSUME NEW x \in Ctxs, NEW o \in Ids, NEW r, IsOrder(r), NEW n \in -1..MaxVolume
  PROVE  \E z \in Ctxs :
           LET y == Ctx!Entrust(x, o, r, n)
           IN /\ SameBooks(x, z) /\ y = Ctx!Reserve(z, r, r.total)
              /\ y \in Ctxs /\ GoesOn(x, y, o, n)
<1> DEFINE z == SetOrder(x, o, n)
           y == Ctx!Reserve(z, r, r.total)
<1>0. r.total \in Nat
  BY OrderFields
<1>1. Ctx!Entrust(x, o, r, n) = y
  BY DEF Ctx!Entrust, SetOrder
<1>2. /\ z \in Ctxs /\ SameBooks(x, z) /\ SameEars(x, z) /\ OrderGoes(x, z, o, n)
  BY <1>0, OrderSet
<1> HIDE DEF z
<1>3. y \in Ctxs /\ SameNotices(z, y)
  BY <1>0, <1>2, ReserveOpen, ReserveClose
<1>4. GoesOn(x, y, o, n)
  <2> HIDE DEF y
  <2> QED
    BY <1>2, <1>3 DEF SameNotices, SameEars, OrderGoes, GoesOn
<1> QED
  BY <1>1, <1>2, <1>3, <1>4

LEMMA DealIs ==
  ASSUME NEW x \in Ctxs, NEW o \in Ids,
         NEW r, IsOrder(r), NEW v \in Nat, NEW e, e.id = o, e.volume = v, Ctx!Knows(x, o)
  PROVE  \E z \in Ctxs :
           LET y == Ctx!HandleDeal(x, e, r)
           IN /\ SameBooks(x, z) /\ y = Ctx!CalculatePosition(z, r, v)
              /\ y \in Ctxs /\ GoesOn(x, y, o, r.last)
<1> DEFINE z == SetOrder(x, o, r.last)
           y == Ctx!CalculatePosition(z, r, v)
<1>0. r.last \in -1..MaxVolume
  BY OrderFields
<1>1. Ctx!HandleDeal(x, e, r) = y
  BY DEF Ctx!HandleDeal, SetOrder
<1>2. /\ z \in Ctxs /\ SameBooks(x, z) /\ SameEars(x, z)
      /\ OrderGoes(x, z, o, r.last)
  BY <1>0, OrderSet
<1> HIDE DEF z
<1>3. y \in Ctxs /\ SameNotices(z, y)
  BY <1>0, <1>2, Calculated
<1>4. GoesOn(x, y, o, r.last)
  <2> HIDE DEF y
  <2> QED
    BY <1>2, <1>3 DEF SameNotices, SameEars, OrderGoes, GoesOn
<1> QED
  BY <1>1, <1>2, <1>3, <1>4

LEMMA CancelIs ==
  ASSUME NEW x \in Ctxs, NEW o \in Ids,
         NEW r, IsOrder(r), NEW v \in Nat, NEW e, e.id = o, e.volume = v, Ctx!Knows(x, o)
  PROVE  LET y == Ctx!HandleCancel(x, e, r)
         IN y \in Ctxs /\ SameBooks(Ctx!Release(x, r, v), y) /\ Ended(x, y, o)
<1> DEFINE w == Ctx!Release(x, r, v)
           z == SetOrder(w, o, Ctx!Unknown)
           y == Ctx!Forget(z, o)
<1>0. Ctx!Unknown \in -1..MaxVolume
  BY ConstantsTyped DEF Ctx!Unknown
<1>1. Ctx!HandleCancel(x, e, r) = y
  BY DEF Ctx!HandleCancel, SetOrder
<1>2. w \in Ctxs /\ SameNotices(x, w)
  BY ReleaseOpen, ReleaseClose
<1> HIDE DEF w
<1>3. /\ z \in Ctxs /\ SameBooks(w, z) /\ SameEars(w, z)
      /\ OrderGoes(w, z, o, Ctx!Unknown)
  BY <1>0, <1>2, OrderSet
<1> HIDE DEF z
<1>4. /\ y \in Ctxs /\ SameBooks(z, y) /\ y.order = z.order
      /\ y.listener = z.listener \ {o}
      /\ y.condition = [z.condition EXCEPT ![o] = "none"]
  BY <1>3, ForgetIs
<1> HIDE DEF y
<1>5. SameBooks(w, y) /\ Ended(x, y, o)
  BY <1>2, <1>3, <1>4 DEF SameNotices, SameBooks, SameEars, OrderGoes, Ended
<1> QED
  BY <1>1, <1>4, <1>5 DEF w


-----------------------------------------------------------------------------
(* The order as the driver hands it on, and what the context makes of events *)

\* What may be asked for.
Asked == [code : Codes, offset : {"open", "close", "clstd"}, direction : Dirs,
          total : 1..MaxVolume]

LEMMA InfoFields ==
  ASSUME NEW w, NEW o, NEW n
  PROVE  LET r == OrderInfoBy(w, o, n)
         IN /\ r.code = w.asked[o].code /\ r.direction = w.asked[o].direction
            /\ r.total = w.asked[o].total /\ r.last = n
            /\ r.offset = Drv!WrappedOffset(w.api, w.asked[o].code \in Distinct, w.asked[o].offset)
BY DEF OrderInfoBy

LEMMA InfoIsOrder ==
  ASSUME NEW w, NEW o, w.asked[o] \in Asked, NEW n \in 0..MaxVolume
  PROVE  IsOrder(OrderInfoBy(w, o, n))
<1>1. Drv!WrappedOffset(w.api, w.asked[o].code \in Distinct, w.asked[o].offset)
        \in {"open", "close", "clstd"}
  BY DEF Drv!WrappedOffset, Asked
<1> QED
  BY <1>1, InfoFields DEF IsOrder, Asked

LEMMA EventFields ==
  ASSUME NEW S, NEW e \in EventsOf(S)
  PROVE  /\ e.id \in S /\ e.volume \in Nat /\ e.left \in 0..MaxVolume
         /\ e.left \in Nat /\ e.left \in -1..MaxVolume
         /\ e.type \in {"OrderPlace", "OrderDeal", "OrderTrade", "OrderCancel", "OrderError",
                        "CancelError"}
BY ConstantsTyped DEF EventsOf

\* What the context makes of each type of event.
LEMMA HeardCases ==
  ASSUME NEW w, NEW x, NEW e
  PROVE  LET r == OrderInfoBy(w, e.id, e.left)
         IN /\ e.type = "OrderPlace" => HeardBy(w, x, e) = Ctx!Entrust(x, e.id, r, e.left)
            /\ e.type = "CancelError" => HeardBy(w, x, e) = x
            /\ e.type = "OrderDeal" => HeardBy(w, x, e) = Ctx!HandleDeal(x, e, r)
            /\ e.type = "OrderTrade" => HeardBy(w, x, e) = Ctx!HandleTrade(x, e)
            /\ e.type = "OrderCancel" => HeardBy(w, x, e) = Ctx!HandleCancel(x, e, r)
            /\ e.type = "OrderError" => HeardBy(w, x, e) = Ctx!HandleError(x, e)
BY DEF HeardBy, Ctx!Handle

LEMMA HeardIs ==
  ASSUME NEW w, NEW x \in Ctxs, NEW e \in EventsOf(Ids), w.asked[e.id] \in Asked
  PROVE  LET y == HeardBy(w, x, e)
         IN /\ y \in Ctxs
            /\ y.listener = IF e.type \in Ends THEN x.listener \ {e.id} ELSE x.listener
            /\ \A o \in Ids \ {e.id} : y.order[o] = x.order[o]
<1> DEFINE o == e.id
           r == OrderInfoBy(w, o, e.left)
           v == e.volume
           y == HeardBy(w, x, e)
<1>1. o \in Ids /\ IsOrder(r) /\ v \in Nat /\ e.left \in -1..MaxVolume
  BY EventFields, InfoIsOrder
<1>2. \A p \in Ids : x.order[p] \in -1..MaxVolume /\ DOMAIN x.order = Ids
  BY DEF Ctxs
<1>3. CASE e.type = "OrderPlace"
  <2>1. y = Ctx!Entrust(x, o, r, e.left)
    BY <1>3, HeardCases
  <2> HIDE DEF r, y
  <2>2. y \in Ctxs /\ GoesOn(x, y, o, e.left)
    BY <1>1, <2>1, EntrustIs
  <2> QED
    BY <1>1, <1>2, <1>3, <2>2 DEF GoesOn, SameEars, Ends, y
<1>4. CASE e.type = "CancelError"
  BY <1>4, HeardCases DEF Ends
<1>5. CASE e.type = "OrderDeal"
  <2>1. y = Ctx!HandleDeal(x, e, r)
    BY <1>5, HeardCases
  <2>2. CASE Ctx!Knows(x, o)
    <3> HIDE DEF r, y
    <3>1. y \in Ctxs /\ GoesOn(x, y, o, r.last)
      BY <1>1, <2>1, <2>2, DealIs
    <3> QED
      BY <1>1, <1>2, <1>5, <3>1 DEF GoesOn, SameEars, Ends, y
  <2>3. CASE ~Ctx!Knows(x, o)
    BY <1>5, <2>1, <2>3 DEF Ctx!HandleDeal, Ends
  <2> QED
    BY <2>2, <2>3
<1>6. CASE e.type \in {"OrderTrade", "OrderError"}
  <2>1. y = Ctx!HandleTrade(x, e) \/ y = Ctx!HandleError(x, e)
    BY <1>6, HeardCases
  <2>2. y \in Ctxs /\ Ended(x, y, o)
    <3> HIDE DEF y
    <3> QED
      BY <1>1, <2>1, TradeIs, ErrorIs
  <2> HIDE DEF y
  <2> QED
    BY <1>1, <1>2, <1>6, <2>2 DEF Ended, Ends, y
<1>7. CASE e.type = "OrderCancel"
  <2>1. y = Ctx!HandleCancel(x, e, r)
    BY <1>7, HeardCases
  <2>2. CASE Ctx!Knows(x, o)
    <3> HIDE DEF r, y
    <3>1. y \in Ctxs /\ Ended(x, y, o)
      BY <1>1, <2>1, <2>2, CancelIs
    <3> QED
      BY <1>1, <1>2, <1>7, <3>1 DEF Ended, Ends, y
  <2>3. CASE ~Ctx!Knows(x, o)
    <3>1. y = Ctx!Forget(x, o)
      BY <2>1, <2>3 DEF Ctx!HandleCancel
    <3> HIDE DEF y
    <3>2. y \in Ctxs /\ y.order = x.order /\ y.listener = x.listener \ {o}
      BY <1>1, <3>1, ForgetIs
    <3> QED
      BY <1>7, <3>2 DEF Ends, y
  <2> QED
    BY <2>2, <2>3
<1> QED
  BY <1>3, <1>4, <1>5, <1>6, <1>7, EventFields

\* The orders that an event among those in s tells the end of.
EndedIn(s) == {s[i].id : i \in {j \in DOMAIN s : s[j].type \in Ends}}

LEMMA EndedInMore ==
  ASSUME NEW S, NEW s \in Seq(EventsOf(S)), NEW e \in EventsOf(S)
  PROVE  EndedIn(Append(s, e)) = IF e.type \in Ends THEN EndedIn(s) \cup {e.id} ELSE EndedIn(s)
<1> DEFINE t == Append(s, e)
<1>1. /\ Len(s) \in Nat /\ DOMAIN s = 1..Len(s) /\ DOMAIN t = 1..(Len(s) + 1)
      /\ t[Len(s) + 1] = e /\ \A i \in 1..Len(s) : t[i] = s[i]
  OBVIOUS
<1>2. ASSUME NEW k \in Nat PROVE 1..(k + 1) = (1..k) \cup {k + 1}
  OBVIOUS
<1>3. DOMAIN t = DOMAIN s \cup {Len(s) + 1}
  BY <1>1, <1>2
<1> HIDE DEF t
<1>4. \A i \in DOMAIN s : t[i] = s[i]
  BY <1>1
<1>5. t[Len(s) + 1] = e
  BY <1>1
<1> QED
  BY <1>3, <1>4, <1>5 DEF EndedIn, t

LEMMA EndedInNothing == EndedIn(<<>>) = {}
BY DEF EndedIn

LEMMA EndedInBoth ==
  ASSUME NEW S, NEW s \in Seq(EventsOf(S)), NEW t \in Seq(EventsOf(S))
  PROVE  EndedIn(s \o t) = EndedIn(s) \cup EndedIn(t) /\ EndedIn(t) \subseteq S
<1> DEFINE u == s \o t
<1>1. /\ Len(s) \in Nat /\ Len(t) \in Nat /\ DOMAIN s = 1..Len(s) /\ DOMAIN t = 1..Len(t)
      /\ DOMAIN u = 1..(Len(s) + Len(t))
      /\ \A i \in 1..Len(s) : u[i] = s[i]
      /\ \A i \in 1..Len(t) : u[Len(s) + i] = t[i]
  OBVIOUS
<1>2. EndedIn(s) \subseteq EndedIn(u)
  <2>1. \A i \in DOMAIN s : i \in DOMAIN u /\ u[i] = s[i]
    BY <1>1
  <2> HIDE DEF u
  <2> QED
    BY <2>1 DEF EndedIn
<1>3. EndedIn(t) \subseteq EndedIn(u)
  <2>1. \A i \in DOMAIN t : Len(s) + i \in DOMAIN u /\ u[Len(s) + i] = t[i]
    BY <1>1
  <2> HIDE DEF u
  <2> QED
    BY <2>1 DEF EndedIn
<1>4. EndedIn(u) \subseteq EndedIn(s) \cup EndedIn(t)
  <2>1. ASSUME NEW i \in DOMAIN u
        PROVE  \/ i \in DOMAIN s /\ u[i] = s[i]
               \/ i - Len(s) \in DOMAIN t /\ u[i] = t[i - Len(s)]
    BY <1>1
  <2> HIDE DEF u
  <2> QED
    BY <2>1 DEF EndedIn
<1>5. EndedIn(t) \subseteq S
  <2>1. \A i \in DOMAIN t : t[i] \in EventsOf(S)
    OBVIOUS
  <2> QED
    BY <2>1, EventFields DEF EndedIn
<1> QED
  BY <1>2, <1>3, <1>4, <1>5

\* What the context has read is typed, and tells which listeners are left.
Leaves(x, y, ended) == y \in Ctxs /\ y.listener = x.listener \ ended

LEMMA HeardLeaves ==
  ASSUME NEW w, NEW x, NEW y, NEW S \in SUBSET Ids, NEW s \in Seq(EventsOf(S)),
         NEW e \in EventsOf(S), w.asked[e.id] \in Asked, Leaves(x, y, EndedIn(s))
  PROVE  Leaves(x, HeardBy(w, y, e), EndedIn(Append(s, e)))
<1>1. e \in EventsOf(Ids)
  BY DEF EventsOf
<1>2. y \in Ctxs /\ y.listener = x.listener \ EndedIn(s)
  BY DEF Leaves
<1>3. /\ HeardBy(w, y, e) \in Ctxs
      /\ HeardBy(w, y, e).listener = IF e.type \in Ends THEN y.listener \ {e.id} ELSE y.listener
  <2>1. \A x2 \in Ctxs :
          /\ HeardBy(w, x2, e) \in Ctxs
          /\ HeardBy(w, x2, e).listener =
               IF e.type \in Ends THEN x2.listener \ {e.id} ELSE x2.listener
    BY <1>1, HeardIs
  <2> QED
    BY <1>2, <2>1, Zenon
<1>4. EndedIn(Append(s, e)) = IF e.type \in Ends THEN EndedIn(s) \cup {e.id} ELSE EndedIn(s)
  BY EndedInMore
<1> QED
  BY <1>2, <1>3, <1>4 DEF Leaves

LEMMA ContextReads ==
  ASSUME NEW S \in SUBSET Ids, NEW w, \A o \in S : w.asked[o] \in Asked,
         NEW x \in Ctxs, NEW s \in Seq(EventsOf(S))
  PROVE  LET y == Read("context", w, x, s)
         IN y \in Ctxs /\ y.listener = x.listener \ EndedIn(s)
<1> DEFINE X(r) == Read("context", w, x, r)
           Bad == {r \in Seq(EventsOf(S)) : ~Leaves(x, X(r), EndedIn(r))}
<1>1. Leaves(x, X(<<>>), EndedIn(<<>>))
  BY ReadNothing, EndedInNothing DEF Leaves
<1>2. ASSUME NEW r \in Seq(EventsOf(S)), NEW e \in EventsOf(S)
      PROVE  X(Append(r, e)) = HeardBy(w, X(r), e)
  BY ReadMore DEF Reads
<1> HIDE DEF X
<1>3. Bad = {}
  <2> SUFFICES ASSUME Bad # {} PROVE FALSE
    OBVIOUS
  <2>1. PICK r \in Seq(EventsOf(S)), e \in EventsOf(S) : Append(r, e) \in Bad /\ r \notin Bad
    <3>1. Bad \subseteq Seq(EventsOf(S)) /\ <<>> \notin Bad
      BY <1>1
    <3> HIDE DEF Bad
    <3> QED
      BY <3>1, Shortest
  <2>2. w.asked[e.id] \in Asked /\ Leaves(x, X(r), EndedIn(r))
    BY <2>1, EventFields
  <2>3. Leaves(x, HeardBy(w, X(r), e), EndedIn(Append(r, e)))
    BY <2>2, HeardLeaves
  <2> QED
    BY <1>2, <2>1, <2>3
<1> QED
  BY <1>3 DEF X, Leaves

\* What was fired before does not change what the driver does.
Behind(f, x, y) == x.adapter = y.adapter /\ x.events = f \o y.events

LEMMA DriveBehind ==
  ASSUME NEW S \in SUBSET Ids, NEW f \in Seq(EventsOf(S)), NEW x, NEW y \in Kept(S),
         Behind(f, x, y), NEW m \in MessagesOf(S), NEW w
  PROVE  Behind(f, DrivenBy(w, x, m), DrivenBy(w, y, m))
<1> DEFINE k == Drv!Callback(w.api, y.adapter, m)
           ys == y.events
           ks == k.events
<1>0. x.events = f \o ys /\ x.adapter = y.adapter
  BY DEF Behind
<1>1. DrivenBy(w, x, m) = Drv!Keeps(k.adapter, x.events \o ks)
  BY <1>0 DEF DrivenBy
<1>2. DrivenBy(w, y, m) = Drv!Keeps(k.adapter, ys \o ks)
  BY DEF DrivenBy
<1>3. ys \in Seq(EventsOf(S)) /\ ks \in Seq(EventsOf(S))
  BY CallbackTyped DEF Kept, KeepsIn
<1> HIDE DEF ys, ks, k
<1>5. (f \o ys) \o ks = f \o (ys \o ks)
  <2>1. \A p, q \in Seq(EventsOf(S)) : (f \o p) \o q = f \o (p \o q)
    BY ConcatAssociative
  <2> QED
    BY <1>3, <2>1, Zenon
<1>6. /\ DrivenBy(w, x, m).adapter = k.adapter /\ DrivenBy(w, x, m).events = x.events \o ks
      /\ DrivenBy(w, y, m).adapter = k.adapter /\ DrivenBy(w, y, m).events = ys \o ks
  BY <1>1, <1>2 DEF Drv!Keeps
<1>7. x.events \o ks = f \o (ys \o ks)
  BY <1>0, <1>5
<1> QED
  BY <1>6, <1>7 DEF Behind

LEMMA DriverSplit ==
  ASSUME NEW S \in SUBSET Ids, NEW a \in Adapters(S), NEW w, NEW s \in Seq(MessagesOf(S)),
         NEW f \in Seq(EventsOf(S))
  PROVE  LET x == Read("driver", w, Drv!Keeps(a, f), s)
             y == Read("driver", w, Drv!Keeps(a, <<>>), s)
         IN x.adapter = y.adapter /\ x.events = f \o y.events /\ y \in Kept(S)
<1> DEFINE X(r) == Read("driver", w, Drv!Keeps(a, f), r)
           Y(r) == Read("driver", w, Drv!Keeps(a, <<>>), r)
           Bad == {r \in Seq(MessagesOf(S)) : ~Behind(f, X(r), Y(r))}
<1>0. Drv!Keeps(a, <<>>) \in Kept(S)
  BY DEF Drv!Keeps, Kept
<1>1. Behind(f, X(<<>>), Y(<<>>))
  <2>1. X(<<>>) = Drv!Keeps(a, f) /\ Y(<<>>) = Drv!Keeps(a, <<>>)
    BY ReadNothing
  <2>2. f \o <<>> = f
    OBVIOUS
  <2> QED
    BY <2>1, <2>2, KeepsFields DEF Behind
<1>2. \A r \in Seq(MessagesOf(S)) : Y(r) \in Kept(S)
  BY <1>0, DriverTyped
<1>3. ASSUME NEW r \in Seq(MessagesOf(S)), NEW m \in MessagesOf(S)
      PROVE  /\ X(Append(r, m)) = DrivenBy(w, X(r), m)
             /\ Y(Append(r, m)) = DrivenBy(w, Y(r), m)
  BY ReadMore DEF Reads
<1> HIDE DEF X, Y
<1>4. Bad = {}
  <2> SUFFICES ASSUME Bad # {} PROVE FALSE
    OBVIOUS
  <2>1. PICK r \in Seq(MessagesOf(S)), m \in MessagesOf(S) : Append(r, m) \in Bad /\ r \notin Bad
    <3>1. Bad \subseteq Seq(MessagesOf(S)) /\ <<>> \notin Bad
      BY <1>1
    <3> HIDE DEF Bad
    <3> QED
      BY <3>1, Shortest
  <2>2. Behind(f, X(r), Y(r)) /\ Y(r) \in Kept(S)
    BY <1>2, <2>1
  <2>3. Behind(f, DrivenBy(w, X(r), m), DrivenBy(w, Y(r), m))
    BY <2>2, DriveBehind
  <2> QED
    BY <1>3, <2>1, <2>3
<1> QED
  BY <1>2, <1>4 DEF X, Y, Behind

LEMMA ReadOne ==
  ASSUME NEW reader, NEW w, NEW b, NEW e
  PROVE  Read(reader, w, b, <<e>>) = Reads(reader, w, b, e)
<1>1. <<>> \in Seq({e}) /\ e \in {e} /\ Append(<<>>, e) = <<e>>
  OBVIOUS
<1>2. Read(reader, w, b, Append(<<>>, e)) = Reads(reader, w, Read(reader, w, b, <<>>), e)
  BY <1>1, ReadMore
<1> QED
  BY <1>1, <1>2, ReadNothing

LEMMA EndedInOne ==
  ASSUME NEW e PROVE EndedIn(<<e>>) = IF e.type \in Ends THEN {e.id} ELSE {}
<1>1. DOMAIN <<e>> = {1} /\ <<e>>[1] = e
  OBVIOUS
<1> QED
  BY <1>1 DEF EndedIn

-----------------------------------------------------------------------------
(* What a driver makes of a callback it expects *)

Drivers == {"ctp", "tap"}

\* The deal and the end in a return of m for an order of which l were left.
Notices(m, l) ==
  (IF m.left < l THEN Drv!Dealt(m, l - m.left) ELSE <<>>)
    \o (IF Drv!IsOver(m) THEN Drv!Over(m) ELSE <<>>)

\* The entrust, and the deal if there was one already, in the first return.
Entrusts(p, m) ==
  Drv!Placed(m) \o
    IF m.left < m.total
    THEN Drv!Dealt(m, IF p = "ctp" THEN m.left ELSE m.total - m.left) ELSE <<>>

LEMMA UnsignedDifference ==
  ASSUME NEW l \in 0..MaxVolume, NEW n \in 0..MaxVolume, n <= l
  PROVE  (l - n) % Modulus = l - n
<1>1. l - n \in 0..Modulus - 1
  BY ConstantsTyped
<1> QED
  BY <1>1, ConstantsTyped

LEMMA ConcatNothing ==
  ASSUME NEW S, NEW s \in Seq(S) PROVE s \o <<>> = s /\ <<>> \o s = s
OBVIOUS

LEMMA DealIsDifference ==
  ASSUME NEW p \in Drivers, NEW S \in SUBSET Ids, NEW a \in Adapters(S),
         NEW m \in MessagesOf(S), m.kind = "order",
         NEW l \in 0..MaxVolume, a.order[m.id] = l, m.left <= l
  PROVE  LET deal == IF m.left < l THEN Drv!Dealt(m, l - m.left) ELSE <<>>
         IN Drv!CtpDeal(a, m) = deal /\ Drv!TapDeal(a, m) = deal
<1>1. m.left \in 0..MaxVolume /\ m.left \in Int /\ l \in Int
  BY ConstantsTyped DEF MessagesOf
<1>2. l > m.left <=> m.left < l
  BY <1>1
<1>3. (l - m.left) % Modulus = l - m.left
  BY <1>1, UnsignedDifference
<1>4. l - m.left > 0 <=> m.left < l
  BY <1>1
<1> QED
  BY <1>2, <1>3, <1>4 DEF Drv!CtpDeal, Drv!TapDeal

\* The return of an order the driver knows.
LEMMA ReturnSeen ==
  ASSUME NEW p \in Drivers, NEW S \in SUBSET Ids, NEW a \in Adapters(S),
         NEW m \in MessagesOf(S), m.kind = "order",
         NEW l \in 0..MaxVolume, a.order[m.id] = l, m.left <= l
  PROVE  LET k == Drv!Callback(p, a, m)
         IN /\ k.adapter.order =
                 [a.order EXCEPT ![m.id] = IF Drv!IsOver(m) THEN Drv!Unknown ELSE m.left]
            /\ k.events = Notices(m, l)
<1> DEFINE deal == IF m.left < l THEN Drv!Dealt(m, l - m.left) ELSE <<>>
           k == Drv!Callback(p, a, m)
<1>1. Drv!CtpDeal(a, m) = deal /\ Drv!TapDeal(a, m) = deal
  BY DealIsDifference
<1>2. Drv!Seen(a, m.id) /\ m.id \in S
  BY ConstantsTyped DEF Drv!Seen, Drv!Unknown, MessagesOf
<1>3. deal \in Seq(EventsOf(S))
  BY <1>1, DealTyped
<1> HIDE DEF deal
<1>4. deal \o <<>> = deal
  BY <1>3, ConcatNothing
<1>5. /\ a \in [order : [Ids -> -1..MaxVolume], index : SUBSET S]
      /\ m.left \in Int /\ a.order[m.id] \in Int
  BY <1>2, ConstantsTyped DEF Adapters, MessagesOf
<1>6. k = IF p = "ctp" THEN Drv!CtpRtnOrder(a, m) ELSE Drv!TapRtnOrder(a, m)
  BY DEF Drv!Callback
<1>7. CASE Drv!IsOver(m)
  <2>1. Drv!CtpRtnOrder(a, m) = Drv!Keeps([a EXCEPT !.order[m.id] = Drv!Unknown],
                                          deal \o Drv!Over(m))
    BY <1>1, <1>2, <1>7 DEF Drv!CtpRtnOrder
  <2>2. Drv!TapRtnOrder(a, m) =
          Drv!Keeps([order |-> [a.order EXCEPT ![m.id] = Drv!Unknown], index |-> a.index \ {m.id}],
                    deal \o Drv!Over(m))
    BY <1>1, <1>2, <1>7 DEF Drv!TapRtnOrder
  <2>3. [a EXCEPT !.order[m.id] = Drv!Unknown].order = [a.order EXCEPT ![m.id] = Drv!Unknown]
    BY <1>5
  <2>4. k.adapter.order = [a.order EXCEPT ![m.id] = Drv!Unknown] /\ k.events = deal \o Drv!Over(m)
    BY <1>6, <2>1, <2>2, <2>3 DEF Drv!Keeps
  <2> QED
    BY <1>7, <2>4 DEF Notices, deal
<1>8. CASE ~Drv!IsOver(m)
  <2> DEFINE aged == IF a.order[m.id] > m.left THEN m.left ELSE a.order[m.id]
  <2>1. Drv!CtpRtnOrder(a, m) = Drv!Keeps([a EXCEPT !.order[m.id] = IF @ > m.left THEN m.left ELSE @],
                                          deal)
    BY <1>1, <1>2, <1>8 DEF Drv!CtpRtnOrder
  <2>2. Drv!TapRtnOrder(a, m) =
          Drv!Keeps([order |-> [a.order EXCEPT ![m.id] = m.left], index |-> a.index \cup {m.id}],
                    deal)
    BY <1>1, <1>2, <1>8 DEF Drv!TapRtnOrder
  <2>3. aged = m.left
    BY <1>5
  <2>4. [a EXCEPT !.order[m.id] = IF @ > m.left THEN m.left ELSE @].order
          = [a.order EXCEPT ![m.id] = aged]
    BY <1>5
  <2> HIDE DEF aged
  <2>5. k.adapter.order = [a.order EXCEPT ![m.id] = m.left] /\ k.events = deal
    BY <1>6, <2>1, <2>2, <2>3, <2>4 DEF Drv!Keeps
  <2> QED
    BY <1>4, <1>8, <2>5 DEF Notices, deal
<1> QED
  BY <1>7, <1>8

\* The first return of an order.
LEMMA ReturnNew ==
  ASSUME NEW p \in Drivers, NEW S \in SUBSET Ids, NEW a \in Adapters(S),
         NEW m \in MessagesOf(S), m.kind = "order", a.order[m.id] = Drv!Unknown
  PROVE  LET k == Drv!Callback(p, a, m)
         IN /\ ~Drv!IsOver(m) => /\ k.adapter.order = [a.order EXCEPT ![m.id] = m.left]
                                 /\ k.events = Entrusts(p, m)
            /\ Drv!IsOver(m) => k.adapter.order = a.order /\ k.events = <<>>
<1> DEFINE k == Drv!Callback(p, a, m)
<1>1. ~Drv!Seen(a, m.id) /\ m.id \in S
  BY DEF Drv!Seen, MessagesOf
<1>2. a \in [order : [Ids -> -1..MaxVolume], index : SUBSET S]
  BY DEF Adapters
<1>3. k = IF p = "ctp" THEN Drv!CtpRtnOrder(a, m) ELSE Drv!TapRtnOrder(a, m)
  BY DEF Drv!Callback
<1>4. CASE Drv!IsOver(m)
  <2>1. Drv!CtpRtnOrder(a, m) = Drv!Keeps(a, <<>>)
    BY <1>1, <1>4 DEF Drv!CtpRtnOrder
  <2>2. Drv!TapRtnOrder(a, m) = Drv!Keeps([a EXCEPT !.index = @ \ {m.id}], <<>>)
    BY <1>1, <1>4 DEF Drv!TapRtnOrder
  <2>3. [a EXCEPT !.index = @ \ {m.id}].order = a.order
    BY <1>2
  <2> QED
    BY <1>3, <1>4, <2>1, <2>2, <2>3 DEF Drv!Keeps
<1>5. CASE ~Drv!IsOver(m)
  <2>1. Drv!CtpRtnOrder(a, m) = Drv!Keeps([a EXCEPT !.order[m.id] = m.left],
           Drv!Placed(m) \o IF m.left < m.total THEN Drv!Dealt(m, m.left) ELSE <<>>)
    BY <1>1, <1>5 DEF Drv!CtpRtnOrder
  <2>2. Drv!TapRtnOrder(a, m) =
          Drv!Keeps([order |-> [a.order EXCEPT ![m.id] = m.left], index |-> a.index \cup {m.id}],
           Drv!Placed(m) \o IF m.left < m.total THEN Drv!Dealt(m, m.total - m.left) ELSE <<>>)
    BY <1>1, <1>5 DEF Drv!TapRtnOrder
  <2>3. [a EXCEPT !.order[m.id] = m.left].order = [a.order EXCEPT ![m.id] = m.left]
    BY <1>2
  <2>4. k.adapter.order = [a.order EXCEPT ![m.id] = m.left]
    BY <1>3, <2>1, <2>2, <2>3 DEF Drv!Keeps
  <2>5. k.events = Entrusts(p, m)
    BY <1>3, <2>1, <2>2 DEF Drv!Keeps, Entrusts, Drivers
  <2> QED
    BY <1>5, <2>4, <2>5
<1> QED
  BY <1>4, <1>5

\* A refused placement, of an order the driver has not seen, and a refused cancel.
Refusals(o) == {<<Drv!PlaceRefused(o)>>, <<Drv!PlaceRefused(o)>> \o <<Drv!PlaceRefused(o)>>}

LEMMA RefusalOfNew ==
  ASSUME NEW p \in Drivers, NEW S \in SUBSET Ids, NEW a \in Adapters(S),
         NEW m \in MessagesOf(S), m.kind = "refused", a.order[m.id] = Drv!Unknown
  PROVE  LET k == Drv!Callback(p, a, m)
         IN k.adapter.order = a.order /\ k.events \in Refusals(m.id)
<1>1. a \in [order : [Ids -> -1..MaxVolume], index : SUBSET S] /\ m.id \in Ids
  BY DEF Adapters, MessagesOf
<1>2. [a EXCEPT !.order[m.id] = Drv!Unknown].order = a.order
  BY <1>1
<1>3. \A e : <<e, e>> = <<e>> \o <<e>>
  OBVIOUS
<1> QED
  BY <1>2, <1>3 DEF Refusals, Drv!Callback, Drv!CtpRefused, Drv!TapError, Drv!Keeps

\* What is told of a refused cancel.
CancelRefusals(o) == {<<>>, <<Drv!CancelRefused(o)>>}

\* A refused cancel that the driver does not tell as the refusal of its order.
LEMMA CancelRefusal ==
  ASSUME NEW p \in Drivers, NEW a, NEW m,
         m.kind = "unheard" \/ (m.kind = "cancelrefused" /\ p = "ctp")
  PROVE  LET k == Drv!Callback(p, a, m)
         IN k.adapter = a /\ k.events \in CancelRefusals(m.id)
BY DEF CancelRefusals, Drv!Callback, Drv!CtpCancelRefused, Drv!TapErrorLogged, Drv!Keeps

\* One that TAP's driver does.
LEMMA CancelMisread ==
  ASSUME NEW a, NEW m, m.kind = "cancelrefused"
  PROVE  LET k == Drv!Callback("tap", a, m)
         IN k.adapter = a /\ k.events = <<Drv!PlaceRefused(m.id)>>
BY DEF Drv!Callback, Drv!TapError, Drv!Keeps

-----------------------------------------------------------------------------
(* What the listener of an order is told by it *)

Telling(t) == [told |-> t, lawful |-> TRUE]

\* The listener of o, who was told t, is lawfully told u after the events in s.
Tells(o, s, t, u) == Read("listener", o, Telling(t), s) = Telling(u)

Entrusted(n) == [status |-> "entrusted", left |-> n]

LEMMA TellsNothing == \A o, t : Tells(o, <<>>, t, t)
BY ReadNothing DEF Tells

LEMMA TellsOne ==
  ASSUME NEW o, NEW e, e.id = o, NEW t, ~Deaf(t), Lawful(t, Told(t, e))
  PROVE  Tells(o, <<e>>, t, Told(t, e))
<1>1. Read("listener", o, Telling(t), <<e>>) = ToldBy(o, Telling(t), e)
  BY ReadOne DEF Reads
<1> QED
  BY <1>1 DEF Tells, Telling, ToldBy

LEMMA TellsBoth ==
  ASSUME NEW S, NEW o, NEW r \in Seq(S), NEW s \in Seq(S), NEW t, NEW u, NEW v,
         Tells(o, r, t, u), Tells(o, s, u, v)
  PROVE  Tells(o, r \o s, t, v)
<1>1. Read("listener", o, Telling(t), r \o s)
        = Read("listener", o, Read("listener", o, Telling(t), r), s)
  BY ReadBoth
<1> QED
  BY <1>1 DEF Tells

\* Nothing is told after the end.
LEMMA TellsDeaf ==
  ASSUME NEW S, NEW s \in Seq(EventsOf(S)), NEW o, NEW t, Deaf(t)
  PROVE  Tells(o, s, t, t)
<1>1. \A y \in {Telling(t)} : \A e \in EventsOf(S) : Reads("listener", o, y, e) \in {Telling(t)}
  BY DEF Reads, ToldBy, Telling
<1>2. Read("listener", o, Telling(t), s) \in {Telling(t)}
  BY <1>1, ReadWithin
<1> QED
  BY <1>2 DEF Tells

\* Events about another order tell nothing.
LEMMA TellsOthers ==
  ASSUME NEW S, NEW s \in Seq(EventsOf(S)), NEW o, o \notin S, NEW x
  PROVE  Read("listener", o, x, s) = x
<1>1. \A y \in {x} : \A e \in EventsOf(S) : Reads("listener", o, y, e) \in {x}
  BY EventFields DEF Reads, ToldBy
<1> QED
  BY <1>1, ReadWithin

LEMMA LawfulDeal ==
  ASSUME NEW l \in 1..MaxVolume, NEW n \in 0..l
  PROVE  Lawful(Entrusted(l), Entrusted(n))
<1>1. l # 0 /\ Life(Entrusted(l)) = Entrusted(l)
  BY DEF Life, Entrusted
<1>2. Life(Entrusted(n)) = [status |-> IF n = 0 THEN "traded" ELSE "entrusted", left |-> n]
  BY DEF Life, Entrusted
<1> QED
  BY <1>1, <1>2 DEF Lawful, Entrusted

LEMMA LawfulEntrust ==
  ASSUME NEW l \in 1..MaxVolume, NEW n \in 1..l
  PROVE  Lawful([status |-> "placed", left |-> l], Entrusted(n))
BY DEF Life, Entrusted, Lawful

LEMMA LawfulEnds ==
  /\ Lawful(Entrusted(0), [status |-> "traded", left |-> 0])
  /\ \A n \in 1..MaxVolume : Lawful(Entrusted(n), [status |-> "canceled", left |-> n])
  /\ \A n \in 1..MaxVolume : Lawful([status |-> "placed", left |-> n],
                                    [status |-> "refused", left |-> n])
  /\ \A t : Lawful(t, t)
<1>1. Lawful(Entrusted(0), [status |-> "traded", left |-> 0])
  BY DEF Life, Entrusted, Lawful
<1>2. ASSUME NEW n \in 1..MaxVolume
      PROVE  /\ Lawful(Entrusted(n), [status |-> "canceled", left |-> n])
             /\ Lawful([status |-> "placed", left |-> n], [status |-> "refused", left |-> n])
  <2>1. n \in 0..n /\ n # 0
    OBVIOUS
  <2>2. /\ Life(Entrusted(n)).status = "entrusted"
        /\ Life([status |-> "canceled", left |-> n]) = [status |-> "canceled", left |-> n]
        /\ Life([status |-> "refused", left |-> n]) = [status |-> "refused", left |-> n]
    BY <2>1 DEF Life, Entrusted
  <2> QED
    BY <2>1, <2>2 DEF Lawful, Entrusted
<1>3. \A t : Lawful(t, t)
  BY DEF Lawful
<1> QED
  BY <1>1, <1>2, <1>3

LEMMA ToldIs ==
  ASSUME NEW o, NEW v, NEW n, NEW l, NEW t
  PROVE  /\ Told(Entrusted(l), Drv!Fired("OrderDeal", o, v, n)) = Entrusted(n)
         /\ Told(t, Drv!Fired("OrderPlace", o, v, n)) = Entrusted(n)
         /\ Told(Entrusted(l), Drv!Fired("OrderTrade", o, v, n)) = [status |-> "traded", left |-> l]
         /\ Told(Entrusted(l), Drv!Fired("OrderCancel", o, v, n)) = [status |-> "canceled", left |-> l]
         /\ Told([status |-> "placed", left |-> l], Drv!PlaceRefused(o))
              = [status |-> "refused", left |-> l]
         /\ Told([status |-> "refused", left |-> l], Drv!PlaceRefused(o))
              = [status |-> "refused", left |-> l]
         /\ Told(t, Drv!CancelRefused(o)) = t
BY DEF Told, Entrusted, Drv!Fired, Drv!PlaceRefused, Drv!CancelRefused

LEMMA EventTold ==
  ASSUME NEW o, NEW e, e.id = o, NEW t, ~Deaf(t), NEW u, Told(t, e) = u, Lawful(t, u)
  PROVE  Tells(o, <<e>>, t, u)
BY TellsOne

LEMMA HearsEntrusted ==
  /\ \A n : ~Deaf(Entrusted(n)) /\ ~Deaf([status |-> "placed", left |-> n])
  /\ \A n, s : s \in {"traded", "canceled", "refused"} => Deaf([status |-> s, left |-> n])
BY DEF Deaf, Entrusted

\* The deal in a return.
LEMMA DealTold ==
  ASSUME NEW m, NEW o, m.id = o, NEW n \in 0..MaxVolume, m.left = n, NEW v \in Nat
  PROVE  /\ Drv!Dealt(m, v) \in Seq(EventsOf({o})) /\ EndedIn(Drv!Dealt(m, v)) = {}
         /\ \A l \in 1..MaxVolume :
              n <= l => Tells(o, Drv!Dealt(m, v), Entrusted(l), Entrusted(n))
<1> DEFINE e == Drv!Fired("OrderDeal", o, v, n)
<1>1. Drv!Dealt(m, v) = <<e>>
  BY DEF Drv!Dealt
<1>2. e.id = o /\ e.type = "OrderDeal" /\ e \in EventsOf({o})
  BY DEF Drv!Fired, EventsOf
<1>3. \A l : Told(Entrusted(l), e) = Entrusted(n)
  BY DEF Told, Entrusted, Drv!Fired
<1> HIDE DEF e
<1>4. ASSUME NEW l \in 1..MaxVolume, n <= l
      PROVE  Tells(o, <<e>>, Entrusted(l), Entrusted(n))
  <2>1. n \in 0..l
    BY <1>4, ConstantsTyped
  <2>2. Lawful(Entrusted(l), Entrusted(n))
    BY <2>1, LawfulDeal
  <2> QED
    BY <1>2, <1>3, <2>2, EventTold, HearsEntrusted
<1>5. EndedIn(<<e>>) = {} /\ <<e>> \in Seq(EventsOf({o}))
  <2>1. EndedIn(<<e>>) = {}
    BY <1>2, EndedInOne DEF Ends
  <2> QED
    BY <1>2, <2>1
<1> QED
  BY <1>1, <1>4, <1>5

LEMMA OverTold ==
  ASSUME NEW m, NEW o, m.id = o, NEW n \in 0..MaxVolume, m.left = n,
         NEW k \in 1..MaxVolume, m.total = k, m.status = "traded" <=> n = 0
  PROVE  /\ Drv!Over(m) \in Seq(EventsOf({o})) /\ EndedIn(Drv!Over(m)) = {o}
         /\ \E u : Deaf(u) /\ Tells(o, Drv!Over(m), Entrusted(n), u)
<1>0. k \in Nat /\ n \in Nat /\ 0 \in 0..MaxVolume
  BY ConstantsTyped
<1>1. CASE m.status = "traded"
  <2> DEFINE e == Drv!Fired("OrderTrade", o, k, 0)
             u == [status |-> "traded", left |-> n]
  <2>1. Drv!Over(m) = <<e>>
    BY <1>1 DEF Drv!Over
  <2>2. e.id = o /\ e.type = "OrderTrade" /\ e \in EventsOf({o})
    BY <1>0 DEF Drv!Fired, EventsOf
  <2>3. Told(Entrusted(n), e) = u /\ Lawful(Entrusted(n), u)
    <3>1. Told(Entrusted(n), e) = u
      BY DEF Told, Entrusted, Drv!Fired
    <3> QED
      BY <1>1, <3>1, LawfulEnds
  <2>6. Deaf(u)
    BY HearsEntrusted
  <2> HIDE DEF e, u
  <2>4. Tells(o, <<e>>, Entrusted(n), u)
    BY <2>2, <2>3, EventTold, HearsEntrusted
  <2>5. EndedIn(<<e>>) = {o} /\ <<e>> \in Seq(EventsOf({o}))
    <3>1. EndedIn(<<e>>) = {o}
      BY <2>2, EndedInOne DEF Ends
    <3> QED
      BY <2>2, <3>1
  <2> QED
    BY <2>1, <2>4, <2>5, <2>6
<1>2. CASE m.status # "traded"
  <2> DEFINE e == Drv!Fired("OrderCancel", o, n, n)
             u == [status |-> "canceled", left |-> n]
  <2>1. Drv!Over(m) = <<e>>
    BY <1>2 DEF Drv!Over
  <2>2. e.id = o /\ e.type = "OrderCancel" /\ e \in EventsOf({o})
    BY <1>0 DEF Drv!Fired, EventsOf
  <2>3. Told(Entrusted(n), e) = u /\ Lawful(Entrusted(n), u)
    <3>1. n \in 1..MaxVolume
      BY <1>2, ConstantsTyped
    <3>2. Told(Entrusted(n), e) = u
      BY DEF Told, Entrusted, Drv!Fired
    <3> QED
      BY <3>1, <3>2, LawfulEnds
  <2>6. Deaf(u)
    BY HearsEntrusted
  <2> HIDE DEF e, u
  <2>4. Tells(o, <<e>>, Entrusted(n), u)
    BY <2>2, <2>3, EventTold, HearsEntrusted
  <2>5. EndedIn(<<e>>) = {o} /\ <<e>> \in Seq(EventsOf({o}))
    <3>1. EndedIn(<<e>>) = {o}
      BY <2>2, EndedInOne DEF Ends
    <3> QED
      BY <2>2, <3>1
  <2> QED
    BY <2>1, <2>4, <2>5, <2>6
<1> QED
  BY <1>1, <1>2

\* What two sequences of events about one order tell of it.
LEMMA BothTold ==
  ASSUME NEW o, NEW r \in Seq(EventsOf({o})), NEW s \in Seq(EventsOf({o})), NEW t, NEW u,
         Tells(o, r, t, u)
  PROVE  /\ r \o s \in Seq(EventsOf({o})) /\ EndedIn(r \o s) = EndedIn(r) \cup EndedIn(s)
         /\ \A v : Tells(o, s, u, v) => Tells(o, r \o s, t, v)
<1>1. r \o s \in Seq(EventsOf({o}))
  BY ConcatTyped
<1>2. EndedIn(r \o s) = EndedIn(r) \cup EndedIn(s)
  BY EndedInBoth
<1>3. ASSUME NEW v, Tells(o, s, u, v) PROVE Tells(o, r \o s, t, v)
  BY <1>3, TellsBoth
<1> QED
  BY <1>1, <1>2, <1>3

\* A return of an order that was entrusted with l lots left.
LEMMA NoticesTold ==
  ASSUME NEW m, NEW o, m.id = o, NEW n \in 0..MaxVolume, m.left = n,
         NEW k \in 1..MaxVolume, m.total = k, m.status = "traded" <=> n = 0,
         NEW l \in 1..MaxVolume, n <= l
  PROVE  /\ Notices(m, l) \in Seq(EventsOf({o}))
         /\ EndedIn(Notices(m, l)) = IF Drv!IsOver(m) THEN {o} ELSE {}
         /\ \E u : (Drv!IsOver(m) => Deaf(u)) /\ Tells(o, Notices(m, l), Entrusted(l), u)
         /\ ~Drv!IsOver(m) => Tells(o, Notices(m, l), Entrusted(l), Entrusted(n))
<1> DEFINE deal == IF n < l THEN Drv!Dealt(m, l - n) ELSE <<>>
           over == IF Drv!IsOver(m) THEN Drv!Over(m) ELSE <<>>
<1>1. (n < l => l - n \in Nat) /\ (~(n < l) => n = l)
  BY ConstantsTyped
<1>2. \A s : <<>> \in Seq(EventsOf({o})) /\ EndedIn(<<>>) = {} /\ Tells(o, <<>>, s, s)
  BY TellsNothing, EndedInNothing
<1>3. /\ deal \in Seq(EventsOf({o})) /\ EndedIn(deal) = {}
      /\ Tells(o, deal, Entrusted(l), Entrusted(n))
  <2>1. CASE n < l
    <3> DEFINE v == l - n
    <3>1. v \in Nat
      BY <1>1, <2>1
    <3> HIDE DEF v
    <3>2. /\ Drv!Dealt(m, v) \in Seq(EventsOf({o})) /\ EndedIn(Drv!Dealt(m, v)) = {}
          /\ Tells(o, Drv!Dealt(m, v), Entrusted(l), Entrusted(n))
      BY <3>1, DealTold
    <3> QED
      BY <2>1, <3>2 DEF v
  <2>2. CASE ~(n < l)
    BY <1>1, <1>2, <2>2
  <2> QED
    BY <2>1, <2>2
<1>4. /\ over \in Seq(EventsOf({o})) /\ EndedIn(over) = IF Drv!IsOver(m) THEN {o} ELSE {}
      /\ \E u : (Drv!IsOver(m) => Deaf(u)) /\ Tells(o, over, Entrusted(n), u)
      /\ ~Drv!IsOver(m) => Tells(o, over, Entrusted(n), Entrusted(n))
  <2>1. CASE Drv!IsOver(m)
    BY <2>1, OverTold
  <2>2. CASE ~Drv!IsOver(m)
    BY <1>2, <2>2
  <2> QED
    BY <2>1, <2>2
<1>5. Notices(m, l) = deal \o over
  BY DEF Notices
<1> HIDE DEF deal, over
<1>6. /\ deal \o over \in Seq(EventsOf({o})) /\ EndedIn(deal \o over) = EndedIn(deal) \cup EndedIn(over)
      /\ \A u : Tells(o, over, Entrusted(n), u) => Tells(o, deal \o over, Entrusted(l), u)
  <2> DEFINE x == Entrusted(l)
             y == Entrusted(n)
  <2>1. \A r, s \in Seq(EventsOf({o})) : Tells(o, r, x, y) =>
          /\ r \o s \in Seq(EventsOf({o})) /\ EndedIn(r \o s) = EndedIn(r) \cup EndedIn(s)
          /\ \A u : Tells(o, s, y, u) => Tells(o, r \o s, x, u)
    <3> HIDE DEF x, y
    <3> QED
      BY BothTold
  <2> QED
    BY <1>3, <1>4, <2>1, Zenon
<1> QED
  BY <1>3, <1>4, <1>5, <1>6

\* The first return of an order.
LEMMA EntrustsTold ==
  ASSUME NEW m, NEW o, m.id = o, NEW k \in 1..MaxVolume, m.total = k,
         NEW n \in 1..k, m.left = n, NEW p \in Drivers
  PROVE  /\ Entrusts(p, m) \in Seq(EventsOf({o})) /\ EndedIn(Entrusts(p, m)) = {}
         /\ Tells(o, Entrusts(p, m), [status |-> "placed", left |-> k], Entrusted(n))
<1> DEFINE e == Drv!Fired("OrderPlace", o, k, n)
           v == IF p = "ctp" THEN n ELSE k - n
           deal == IF n < k THEN Drv!Dealt(m, v) ELSE <<>>
           t == [status |-> "placed", left |-> k]
<1>1. n \in 1..MaxVolume /\ n \in 0..MaxVolume /\ v \in Nat /\ k \in Nat /\ n <= n
  BY ConstantsTyped
<1>2. Drv!Placed(m) = <<e>> /\ e.id = o /\ e.type = "OrderPlace" /\ e \in EventsOf({o})
  BY <1>1 DEF Drv!Placed, Drv!Fired, EventsOf
<1>3. Told(t, e) = Entrusted(n) /\ Lawful(t, Entrusted(n))
  <2>1. Told(t, e) = Entrusted(n)
    BY DEF Told, Entrusted, Drv!Fired
  <2> QED
    BY <2>1, LawfulEntrust
<1>4. Entrusts(p, m) = <<e>> \o deal
  BY <1>2 DEF Entrusts
<1> HIDE DEF e, t, v
<1>5. Tells(o, <<e>>, t, Entrusted(n))
  BY <1>2, <1>3, EventTold, HearsEntrusted DEF t
<1>6. EndedIn(<<e>>) = {} /\ <<e>> \in Seq(EventsOf({o}))
  <2>1. EndedIn(<<e>>) = {}
    BY <1>2, EndedInOne DEF Ends
  <2> QED
    BY <1>2, <2>1
<1>7. /\ deal \in Seq(EventsOf({o})) /\ EndedIn(deal) = {}
      /\ Tells(o, deal, Entrusted(n), Entrusted(n))
  <2>1. CASE n < k
    <3>1. /\ Drv!Dealt(m, v) \in Seq(EventsOf({o})) /\ EndedIn(Drv!Dealt(m, v)) = {}
          /\ Tells(o, Drv!Dealt(m, v), Entrusted(n), Entrusted(n))
      BY <1>1, DealTold
    <3> QED
      BY <2>1, <3>1
  <2>2. CASE ~(n < k)
    BY <2>2, TellsNothing, EndedInNothing
  <2> QED
    BY <2>1, <2>2
<1> HIDE DEF deal
<1>8. /\ <<e>> \o deal \in Seq(EventsOf({o}))
      /\ EndedIn(<<e>> \o deal) = EndedIn(<<e>>) \cup EndedIn(deal)
      /\ Tells(o, <<e>> \o deal, t, Entrusted(n))
  <2> DEFINE r == <<e>>
  <2>1. r \in Seq(EventsOf({o})) /\ Tells(o, r, t, Entrusted(n))
    BY <1>5, <1>6
  <2> HIDE DEF r
  <2>2. PICK u : u = Entrusted(n)
    OBVIOUS
  <2>3. Tells(o, r, t, u) /\ Tells(o, deal, u, u) /\ deal \in Seq(EventsOf({o}))
    BY <1>7, <2>1, <2>2
  <2>4. r \o deal \in Seq(EventsOf({o})) /\ EndedIn(r \o deal) = EndedIn(r) \cup EndedIn(deal)
    BY <2>1, <2>3, ConcatTyped, EndedInBoth
  <2>5. Tells(o, r \o deal, t, u)
    BY <2>1, <2>3, TellsBoth
  <2> QED
    BY <2>2, <2>4, <2>5 DEF r
<1> QED
  BY <1>4, <1>6, <1>7, <1>8 DEF t

LEMMA RefusalTold ==
  ASSUME NEW o, NEW l \in 1..MaxVolume, NEW s \in Refusals(o)
  PROVE  /\ s \in Seq(EventsOf({o})) /\ EndedIn(s) = {o}
         /\ \E u : Deaf(u) /\ Tells(o, s, [status |-> "placed", left |-> l], u)
<1> DEFINE e == Drv!PlaceRefused(o)
           r == <<e>>
           t == [status |-> "placed", left |-> l]
           u == [status |-> "refused", left |-> l]
<1>1. e.id = o /\ e.type = "OrderError" /\ e \in EventsOf({o})
  <2>1. e \in EventsOf({o})
    BY RefusedTyped
  <2> QED
    BY <2>1 DEF Drv!PlaceRefused, Drv!Fired
<1>2. Told(t, e) = u /\ Lawful(t, u) /\ ~Deaf(t) /\ Deaf(u)
  BY ToldIs, LawfulEnds, HearsEntrusted
<1>3. s = r \/ s = r \o r
  BY DEF Refusals
<1> HIDE DEF e, t, u
<1>5. EndedIn(r) = {o} /\ r \in Seq(EventsOf({o}))
  <2>1. EndedIn(r) = {o}
    BY <1>1, EndedInOne DEF Ends
  <2> QED
    BY <1>1, <2>1
<1>4. Tells(o, r, t, u) /\ Tells(o, r, u, u)
  <2>1. Tells(o, r, t, u)
    BY <1>1, <1>2, EventTold
  <2>2. Tells(o, r, u, u)
    BY <1>2, <1>5, TellsDeaf
  <2> QED
    BY <2>1, <2>2
<1> HIDE DEF r
<1>6. /\ r \o r \in Seq(EventsOf({o})) /\ EndedIn(r \o r) = EndedIn(r) \cup EndedIn(r)
      /\ Tells(o, r \o r, t, u)
  <2>1. \A z \in Seq(EventsOf({o})) : Tells(o, z, t, u) =>
          /\ z \o z \in Seq(EventsOf({o})) /\ EndedIn(z \o z) = EndedIn(z) \cup EndedIn(z)
          /\ \A v : Tells(o, z, u, v) => Tells(o, z \o z, t, v)
    BY BothTold
  <2> QED
    BY <1>4, <1>5, <2>1, Zenon
<1> QED
  BY <1>2, <1>3, <1>4, <1>5, <1>6 DEF t

\* The listener of an order that ended has heard of its end, or not even of its
\* entrust.
HeardOut(t) == Deaf(t) \/ \E n : t = [status |-> "placed", left |-> n]

\* A refused cancel that is told as the refusal of an order that ended.
LEMMA CancelMistold ==
  ASSUME NEW o, NEW t, HeardOut(t)
  PROVE  LET s == <<Drv!PlaceRefused(o)>>
         IN /\ s \in Seq(EventsOf({o})) /\ EndedIn(s) = {o}
            /\ \E u : Deaf(u) /\ Tells(o, s, t, u)
<1> DEFINE e == Drv!PlaceRefused(o)
<1>1. e.id = o /\ e.type = "OrderError" /\ e \in EventsOf({o})
  <2>1. e \in EventsOf({o})
    BY RefusedTyped
  <2> QED
    BY <2>1 DEF Drv!PlaceRefused, Drv!Fired
<1>2. <<e>> \in Seq(EventsOf({o})) /\ EndedIn(<<e>>) = {o}
  <2>1. EndedIn(<<e>>) = {o}
    BY <1>1, EndedInOne DEF Ends
  <2> QED
    BY <1>1, <2>1
<1>3. CASE Deaf(t)
  BY <1>2, <1>3, TellsDeaf
<1>4. CASE ~Deaf(t)
  <2>1. PICK n : t = [status |-> "placed", left |-> n]
    BY <1>4 DEF HeardOut
  <2> DEFINE u == [status |-> "refused", left |-> n]
  <2>2. Told(t, e) = u
    BY <2>1, <1>1 DEF Told
  <2>3. Deaf(u) /\ Lawful(t, u)
    BY <2>1 DEF Deaf, Lawful, Life
  <2> HIDE DEF e, u
  <2>4. Tells(o, <<e>>, t, u)
    BY <1>1, <1>4, <2>2, <2>3, EventTold
  <2> QED
    BY <1>2, <2>3, <2>4 DEF e
<1> QED
  BY <1>3, <1>4

LEMMA CancelRefusalTold ==
  ASSUME NEW o, NEW s \in CancelRefusals(o)
  PROVE  /\ s \in Seq(EventsOf({o})) /\ EndedIn(s) = {} /\ \A t : Tells(o, s, t, t)
<1> DEFINE e == Drv!CancelRefused(o)
<1>1. e.id = o /\ e.type = "CancelError" /\ e \in EventsOf({o})
  <2>1. e \in EventsOf({o})
    BY RefusedTyped
  <2> QED
    BY <2>1 DEF Drv!CancelRefused, Drv!Fired
<1>2. \A t : Told(t, e) = t /\ Lawful(t, t)
  BY ToldIs, LawfulEnds
<1> HIDE DEF e
<1>4. EndedIn(<<e>>) = {} /\ <<e>> \in Seq(EventsOf({o}))
  <2>1. EndedIn(<<e>>) = {}
    BY <1>1, EndedInOne DEF Ends
  <2> QED
    BY <1>1, <2>1
<1>3. ASSUME NEW t PROVE Tells(o, <<e>>, t, t)
  <2>1. CASE ~Deaf(t)
    BY <1>1, <1>2, <2>1, EventTold
  <2>2. CASE Deaf(t)
    BY <1>4, <2>2, TellsDeaf
  <2> QED
    BY <2>1, <2>2
<1>5. <<>> \in Seq(EventsOf({o})) /\ EndedIn(<<>>) = {} /\ \A t : Tells(o, <<>>, t, t)
  BY TellsNothing, EndedInNothing
<1> QED
  BY <1>3, <1>4, <1>5 DEF CancelRefusals, e

-----------------------------------------------------------------------------
(* Type correctness.  The exchange knows of every order that a callback, an
   event, a map or the process is about; the closing orders it works on never
   ask for more lots than the account holds. *)

TradeStatuses == {"none", "placed", "entrusted", "traded", "canceled", "refused"}

Tales == [status : TradeStatuses, left : 0..MaxVolume]

Lots == [Codes -> [Buckets -> [Dirs -> Nat]]]

OrdersTyped ==
  /\ api \in Apis
  /\ asked \in [Ids -> Asked \cup {NoRequest}] /\ \A o \in Active : asked[o] \in Asked
  /\ exch \in [Ids -> [status : Statuses, left : 0..MaxVolume]]
  /\ \A o \in Ids : /\ exch[o].status = "sent" => exch[o].left = asked[o].total
                    /\ exch[o].status = "working" => exch[o].left \in 1..asked[o].total
  /\ cancels \subseteq Active

\* The lots that order o waits to sell.
Waits(c, b, d, o) ==
  IF /\ exch[o].status = "working" /\ asked[o].code = c /\ asked[o].direction = d
     /\ asked[o].offset # "open" /\ BucketOf(asked[o]) = b
  THEN exch[o].left ELSE 0

NotOversold ==
  /\ holding \in Lots
  /\ \A c \in Codes, b \in Buckets, d \in Dirs :
       SumFunctionOnSet([o \in Ids |-> Waits(c, b, d, o)], Ids) <= holding[c][b][d]

ThreadsTyped ==
  /\ wire \in Seq(MessagesOf(Active)) /\ queue \in Seq(EventsOf(Active))
  /\ firing \in Seq(EventsOf(Active)) /\ adapter \in Adapters(Active)
  /\ Len(queue) <= Size

ProcessTyped ==
  /\ session \in {"down", "ready", "queried", "running"} /\ trading \in BOOLEAN
  /\ seen \in Lots /\ ctx \in Ctxs /\ ctx.listener \subseteq mine /\ mine \subseteq Active
  /\ told \in [Ids -> Tales]
  /\ \A o \in Ids \ mine : told[o] = [status |-> "none", left |-> 0]
  /\ session # "running" => mine = {}

GapsTyped == gaps \subseteq {"window", "partial", "merged"} /\ misread \subseteq Ids

TInv == OrdersTyped /\ NotOversold /\ ThreadsTyped /\ ProcessTyped /\ GapsTyped

LEMMA SeqGrows == ASSUME NEW S, NEW T, S \subseteq T PROVE Seq(S) \subseteq Seq(T)
<1>1. ASSUME NEW s \in Seq(S) PROVE s \in Seq(T)
  <2>1. \A i \in 1..Len(s) : s[i] \in T
    OBVIOUS
  <2>2. Len(s) \in Nat /\ DOMAIN s = 1..Len(s) /\ s = [i \in 1..Len(s) |-> s[i]]
    OBVIOUS
  <2> QED
    BY <2>1, <2>2
<1> QED
  BY <1>1

LEMMA FlowGrows ==
  ASSUME NEW S, NEW T \in SUBSET Ids, S \subseteq T
  PROVE  /\ Seq(MessagesOf(S)) \subseteq Seq(MessagesOf(T))
         /\ Seq(EventsOf(S)) \subseteq Seq(EventsOf(T))
         /\ Adapters(S) \subseteq Adapters(T)
<1>1. MessagesOf(S) \subseteq MessagesOf(T) /\ EventsOf(S) \subseteq EventsOf(T)
  BY DEF MessagesOf, EventsOf
<1>2. Adapters(S) \subseteq Adapters(T)
  BY DEF Adapters
<1> HIDE DEF MessagesOf, EventsOf
<1> QED
  BY <1>1, <1>2, SeqGrows

LEMMA ActiveIn == Active \in SUBSET Ids
BY DEF Active

LEMMA ThreadsStay ==
  ASSUME ThreadsTyped, Active \subseteq Active', UNCHANGED <<wire, queue, firing, adapter>>
  PROVE  ThreadsTyped'
<1>1. Active' \in SUBSET Ids
  BY DEF Active
<1>2. /\ Seq(MessagesOf(Active)) \subseteq Seq(MessagesOf(Active'))
      /\ Seq(EventsOf(Active)) \subseteq Seq(EventsOf(Active'))
      /\ Adapters(Active) \subseteq Adapters(Active')
  BY <1>1, FlowGrows
<1> QED
  BY <1>2 DEF ThreadsTyped, MessagesOf, EventsOf, Adapters

LEMMA ThreadsSent ==
  ASSUME ThreadsTyped, Active \subseteq Active', UNCHANGED <<queue, firing, adapter>>,
         NEW m \in MessagesOf(Active'), Send(m) \/ UNCHANGED wire
  PROVE  ThreadsTyped'
<1>1. Active' \in SUBSET Ids
  BY DEF Active
<1>2. /\ Seq(MessagesOf(Active)) \subseteq Seq(MessagesOf(Active'))
      /\ Seq(EventsOf(Active)) \subseteq Seq(EventsOf(Active'))
      /\ Adapters(Active) \subseteq Adapters(Active')
  BY <1>1, FlowGrows
<1>3. wire \in Seq(MessagesOf(Active'))
  BY <1>2 DEF ThreadsTyped
<1>4. wire' \in Seq(MessagesOf(Active'))
  BY <1>3 DEF Send
<1> QED
  BY <1>2, <1>4 DEF ThreadsTyped, MessagesOf, EventsOf, Adapters

LEMMA ProcessStays ==
  ASSUME ProcessTyped, Active \subseteq Active', UNCHANGED processVars
  PROVE  ProcessTyped'
BY DEF ProcessTyped, processVars, Ctxs, Lots, Ledgers, Tales

LEMMA OrderGrows ==
  ASSUME OrdersTyped, NEW o \in Ids, NEW r, r.status # "none", exch' = [exch EXCEPT ![o] = r]
  PROVE  Active' = Active \cup {o} /\ Active \subseteq Active'
BY DEF OrdersTyped, Active

\* The sums that Locked and Waiting are, as sums over a function.
LeftSums(g, S) ==
  g = [s \in SUBSET S |->
         IF s = {} THEN 0 ELSE exch[Chosen(s)].left + g[s \ {Chosen(s)}]]

LEMMA LeftSumIs ==
  ASSUME NEW S
  PROVE  MapThenSumSet(LAMBDA o : exch[o].left, S) = (CHOOSE g : LeftSums(g, S))[S]
BY DEF MapThenSumSet, MapThenFoldSet, LeftSums, Chosen

LEMMA LeftSum ==
  ASSUME NEW S \in SUBSET Ids
  PROVE  MapThenSumSet(LAMBDA o : exch[o].left, S)
           = SumFunctionOnSet([o \in Ids |-> exch[o].left], S)
<1> DEFINE f == [o \in Ids |-> exch[o].left]
<1>1. IsFiniteSet(S)
  BY ConstantsTyped, FS_Subset
<1>2. ASSUME NEW s \in SUBSET S, s # {} PROVE f[Chosen(s)] = exch[Chosen(s)].left
  BY <1>2, ChosenIn
<1> HIDE DEF f
<1>3. \A g : LeftSums(g, S) <=> Sums(g, f, S)
  BY <1>2 DEF LeftSums, Sums
<1>4. PICK h : Sums(h, f, S)
  BY <1>1, SumsExists
<1>5. Sums(CHOOSE g : LeftSums(g, S), f, S)
  BY <1>3, <1>4
<1>6. Sums(CHOOSE g : Sums(g, f, S), f, S)
  BY <1>4
<1>7. (CHOOSE g : LeftSums(g, S))[S] = (CHOOSE g : Sums(g, f, S))[S]
  BY <1>1, <1>5, <1>6, SumsAgree
<1> QED
  BY <1>7, LeftSumIs, SumIs DEF f

\* The sum of what is left of the working orders for which it is asked.
LEMMA WorkingSum ==
  ASSUME OrdersTyped, NEW R \in SUBSET Ids
  PROVE  MapThenSumSet(LAMBDA o : exch[o].left, R)
           = SumFunctionOnSet([o \in Ids |-> IF o \in R THEN exch[o].left ELSE 0], Ids)
<1> DEFINE f == [o \in Ids |-> exch[o].left]
<1>1. \A o \in Ids : f[o] = exch[o].left /\ f[o] \in Int
  BY ConstantsTyped DEF OrdersTyped
<1>2. MapThenSumSet(LAMBDA o : exch[o].left, R) = SumFunctionOnSet(f, R)
  BY LeftSum
<1> HIDE DEF f
<1>3. SumFunctionOnSet(f, R) = SumFunctionOnSet([o \in Ids |-> IF o \in R THEN f[o] ELSE 0], Ids)
  BY <1>1, ConstantsTyped, SumWithin
<1>4. [o \in Ids |-> IF o \in R THEN f[o] ELSE 0] = [o \in Ids |-> IF o \in R THEN exch[o].left ELSE 0]
  BY <1>1
<1> QED
  BY <1>2, <1>3, <1>4

LEMMA LockedIs ==
  ASSUME OrdersTyped, NEW c, NEW b, NEW d
  PROVE  Locked(c, b, d) = SumFunctionOnSet([o \in Ids |-> Waits(c, b, d, o)], Ids)
<1> DEFINE R == {o \in At("working") : /\ asked[o].code = c /\ asked[o].direction = d
                                       /\ asked[o].offset # "open" /\ BucketOf(asked[o]) = b}
<1>1. R \in SUBSET Ids
  BY DEF At
<1>2. Locked(c, b, d) = MapThenSumSet(LAMBDA o : exch[o].left, R)
  BY DEF Locked
<1>3. [o \in Ids |-> IF o \in R THEN exch[o].left ELSE 0] = [o \in Ids |-> Waits(c, b, d, o)]
  BY DEF Waits, At
<1> HIDE DEF R
<1>4. MapThenSumSet(LAMBDA o : exch[o].left, R)
        = SumFunctionOnSet([o \in Ids |-> IF o \in R THEN exch[o].left ELSE 0], Ids)
  BY <1>1, WorkingSum
<1> QED
  BY <1>2, <1>3, <1>4

LEMMA WaitsNat ==
  OrdersTyped =>
    \A c, b, d : \A o \in Ids : Waits(c, b, d, o) \in Nat
BY ConstantsTyped DEF OrdersTyped, Waits

LEMMA WaitsNatNext ==
  (OrdersTyped => \A c, b, d : \A o \in Ids : Waits(c, b, d, o) \in Nat)'
BY WaitsNat, PTL

\* One order changes what is waited for.
LEMMA WaitsChange ==
  ASSUME OrdersTyped, OrdersTyped', NEW p \in Ids, NEW c, NEW b, NEW d,
         \A o \in Ids \ {p} : exch'[o] = exch[o] /\ asked'[o] = asked[o]
  PROVE  SumFunctionOnSet([o \in Ids |-> Waits(c, b, d, o)'], Ids)
           = SumFunctionOnSet([o \in Ids |-> Waits(c, b, d, o)], Ids)
               - Waits(c, b, d, p) + Waits(c, b, d, p)'
<1> DEFINE f == [o \in Ids |-> Waits(c, b, d, o)]
           g == [o \in Ids |-> Waits(c, b, d, o)']
<1>1. \A o \in Ids : f[o] = Waits(c, b, d, o) /\ f[o] \in Int
  BY WaitsNat
<1>2. \A o \in Ids : g[o] = Waits(c, b, d, o)' /\ g[o] \in Int
  BY WaitsNatNext
<1>3. \A o \in Ids \ {p} : g[o] = f[o]
  BY <1>1, <1>2 DEF Waits
<1> HIDE DEF f, g
<1>4. SumFunctionOnSet(g, Ids) = SumFunctionOnSet(f, Ids) - f[p] + g[p]
  BY <1>1, <1>2, <1>3, ConstantsTyped, SumChange
<1> QED
  BY <1>1, <1>2, <1>4 DEF f, g

LEMMA ReturnIn ==
  ASSUME OrdersTyped, NEW S, NEW o \in S, asked[o].total \in 1..MaxVolume,
         NEW s \in {"working", "traded", "canceled"}, NEW n \in 0..MaxVolume
  PROVE  Return(o, s, n) \in MessagesOf(S)
BY DEF Return, MessagesOf

\* What an order that the exchange has seen, and has not ended, has left.
LEMMA LeftIs ==
  ASSUME OrdersTyped, NEW o \in Ids, exch[o].status \in {"sent", "working"}
  PROVE  /\ o \in Active /\ asked[o] \in Asked
         /\ asked[o].total \in 1..MaxVolume /\ exch[o].left \in 1..asked[o].total
         /\ exch[o].left \in 1..MaxVolume /\ exch[o].left \in Nat
<1>1. o \in Active
  BY DEF Active
<1>2. asked[o] \in Asked
  BY <1>1 DEF OrdersTyped
<1>3. asked[o].total \in 1..MaxVolume
  BY <1>2 DEF Asked
<1>4. exch[o].left \in 1..asked[o].total
  BY <1>3, ConstantsTyped DEF OrdersTyped
<1> QED
  BY <1>1, <1>2, <1>3, <1>4, ConstantsTyped

LEMMA DealtHolding ==
  ASSUME holding \in Lots, NEW r \in Asked, NEW n \in Nat,
         r.offset # "open" => n <= holding[r.code][BucketOf(r)][r.direction]
  PROVE  /\ DealAtExchange(r, n) \in Lots
         /\ \A c \in Codes, b \in Buckets, d \in Dirs :
              DealAtExchange(r, n)[c][b][d] =
                IF c = r.code /\ b = BucketOf(r) /\ d = r.direction
                THEN IF r.offset = "open" THEN holding[c][b][d] + n ELSE holding[c][b][d] - n
                ELSE holding[c][b][d]
<1> DEFINE h == holding[r.code][BucketOf(r)][r.direction]
           k == IF r.offset = "open" THEN h + n ELSE h - n
<1>1. r.code \in Codes /\ BucketOf(r) \in Buckets /\ r.direction \in Dirs
  BY DEF Asked, BucketOf, Buckets
<1>2. h \in Nat
  BY <1>1 DEF Lots
<1>3. k \in Nat
  BY <1>2
<1>4. DealAtExchange(r, n) = [holding EXCEPT ![r.code][BucketOf(r)][r.direction] = k]
  BY DEF DealAtExchange
<1> HIDE DEF k
<1>5. [holding EXCEPT ![r.code][BucketOf(r)][r.direction] = k] \in Lots
  BY <1>1, <1>3 DEF Lots
<1>6. \A c \in Codes, b \in Buckets, d \in Dirs :
        [holding EXCEPT ![r.code][BucketOf(r)][r.direction] = k][c][b][d] =
          IF c = r.code /\ b = BucketOf(r) /\ d = r.direction THEN k ELSE holding[c][b][d]
  BY <1>1 DEF Lots
<1> QED
  BY <1>4, <1>5, <1>6 DEF k

\* The exchange reports n lots left of order o, in status s.
Reports(o, s, n) ==
  /\ (exch[o].status = "sent" /\ Acceptable(asked[o])) \/ exch[o].status = "working"
  /\ n \in 0..exch[o].left /\ s \in {"working", "traded", "canceled"} /\ (s = "traded" <=> n = 0)
  /\ exch' = [exch EXCEPT ![o] = [status |-> s, left |-> IF s = "canceled" THEN 0 ELSE n]]
  /\ holding' = DealAtExchange(asked[o], exch[o].left - n)
  /\ Send(Return(o, s, n))
  /\ gaps' = IF /\ exch[o].status = "sent" /\ session # "down"
                /\ s # "working" \/ (exch[o].left - n > 0 /\ api = "ctp")
             THEN gaps \cup {"merged"} ELSE gaps
  /\ UNCHANGED <<api, asked, cancels, adapter, firing, queue, processVars, misread, restarts>>

LEMMA ReportIs ==
  ASSUME NEW o, Report(o)
  PROVE  \E s, n : Reports(o, s, n)
BY DEF Report, Reports

LEMMA ReportedOrders ==
  ASSUME OrdersTyped, NEW o \in Ids, NEW s, NEW n, Reports(o, s, n)
  PROVE  /\ OrdersTyped' /\ Active' = Active /\ n \in 0..MaxVolume /\ n \in Nat
         /\ exch'[o] = [status |-> s, left |-> IF s = "canceled" THEN 0 ELSE n]
         /\ \A p \in Ids \ {o} : exch'[p] = exch[p]
<1>1. /\ o \in Active /\ asked[o] \in Asked /\ asked[o].total \in 1..MaxVolume
      /\ exch[o].left \in 1..asked[o].total /\ exch[o].left \in Nat
  BY LeftIs DEF Reports
<1>2. n \in 0..MaxVolume /\ n \in Nat /\ (s = "working" => n \in 1..asked[o].total)
  BY <1>1, ConstantsTyped DEF Reports
<1> DEFINE l == IF s = "canceled" THEN 0 ELSE n
<1>3. l \in 0..MaxVolume /\ (s = "working" => l \in 1..asked[o].total) /\ s \in Statuses /\ s \notin {"none", "sent"}
  BY <1>2, ConstantsTyped DEF Reports, Statuses
<1>4. exch' = [exch EXCEPT ![o] = [status |-> s, left |-> l]] /\ api' = api /\ asked' = asked /\ cancels' = cancels
  BY DEF Reports
<1> HIDE DEF l
<1>5. exch'[o] = [status |-> s, left |-> l] /\ \A p \in Ids \ {o} : exch'[p] = exch[p]
  BY <1>4 DEF OrdersTyped
<1>6. exch' \in [Ids -> [status : Statuses, left : 0..MaxVolume]]
  BY <1>3, <1>4 DEF OrdersTyped
<1>7. Active' = Active
  BY <1>1, <1>3, <1>5 DEF Active
<1>8. \A p \in Ids : /\ exch'[p].status = "sent" => exch'[p].left = asked[p].total
                     /\ exch'[p].status = "working" => exch'[p].left \in 1..asked[p].total
  BY <1>3, <1>5 DEF OrdersTyped
<1>9. OrdersTyped'
  BY <1>4, <1>6, <1>7, <1>8 DEF OrdersTyped
<1> QED
  BY <1>2, <1>5, <1>7, <1>9 DEF l

\* The lots h become the lots l by a deal of v lots of what a asks for.
LotsMove(h, l, a, v) ==
  /\ l \in Lots
  /\ \A c \in Codes, b \in Buckets, d \in Dirs :
       l[c][b][d] = IF c = a.code /\ b = BucketOf(a) /\ d = a.direction
                    THEN IF a.offset = "open" THEN h[c][b][d] + v ELSE h[c][b][d] - v
                    ELSE h[c][b][d]

LEMMA ReportedLots ==
  ASSUME OrdersTyped, NotOversold, NEW o \in Ids, NEW s, NEW n, Reports(o, s, n)
  PROVE  NotOversold' /\ LotsMove(holding, holding', asked[o], exch[o].left - n)
<1> DEFINE r == asked[o]
           l == exch[o].left
           Sum(c, b, d) == SumFunctionOnSet([p \in Ids |-> Waits(c, b, d, p)], Ids)
           Next_Sum(c, b, d) == SumFunctionOnSet([p \in Ids |-> Waits(c, b, d, p)'], Ids)
<1>1. /\ r \in Asked /\ l \in Nat /\ n \in 0..l /\ n \in Nat /\ l - n \in Nat
      /\ exch[o].status = "sent" => l = r.total
  <2>1. r \in Asked /\ l \in Nat
    BY LeftIs DEF Reports
  <2>2. n \in 0..l /\ (exch[o].status = "sent" => l = r.total)
    BY DEF Reports, OrdersTyped
  <2> QED
    BY <2>1, <2>2
<1>2. /\ OrdersTyped' /\ asked' = asked /\ \A p \in Ids \ {o} : exch'[p] = exch[p]
      /\ exch'[o] = [status |-> s, left |-> IF s = "canceled" THEN 0 ELSE n]
  <2>1. /\ OrdersTyped' /\ \A p \in Ids \ {o} : exch'[p] = exch[p]
        /\ exch'[o] = [status |-> s, left |-> IF s = "canceled" THEN 0 ELSE n]
    BY ReportedOrders
  <2>2. asked' = asked
    BY DEF Reports
  <2> QED
    BY <2>1, <2>2
<1>3. ASSUME NEW c \in Codes, NEW b \in Buckets, NEW d \in Dirs
      PROVE  /\ Sum(c, b, d) \in Int /\ Sum(c, b, d) <= holding[c][b][d] /\ holding[c][b][d] \in Nat
             /\ Next_Sum(c, b, d) = Sum(c, b, d) - Waits(c, b, d, o) + Waits(c, b, d, o)'
             /\ Waits(c, b, d, o) <= Sum(c, b, d) /\ Waits(c, b, d, o) \in Nat
  <2> DEFINE f == [p \in Ids |-> Waits(c, b, d, p)]
  <2>1. \A p \in Ids : f[p] = Waits(c, b, d, p) /\ f[p] \in Nat /\ f[p] \in Int
    BY WaitsNat
  <2>2. Sum(c, b, d) <= holding[c][b][d] /\ holding[c][b][d] \in Nat
    BY DEF NotOversold, Lots
  <2>3. Next_Sum(c, b, d) = Sum(c, b, d) - Waits(c, b, d, o) + Waits(c, b, d, o)'
    BY <1>2, WaitsChange
  <2> HIDE DEF f
  <2>4. SumFunctionOnSet(f, Ids) \in Int /\ f[o] <= SumFunctionOnSet(f, Ids)
    BY <2>1, ConstantsTyped, SumInt, SumBounds
  <2> QED
    BY <2>1, <2>2, <2>3, <2>4 DEF f
<1> HIDE DEF Sum, Next_Sum, l
<1>4. ASSUME NEW c \in Codes, NEW b \in Buckets, NEW d \in Dirs,
             c = r.code, b = BucketOf(r), d = r.direction, r.offset # "open"
      PROVE  /\ Waits(c, b, d, o) = IF exch[o].status = "working" THEN l ELSE 0
             /\ Waits(c, b, d, o)' = IF s = "working" THEN n ELSE 0
             /\ exch[o].status # "working" => holding[c][b][d] - Sum(c, b, d) >= l
  <2>1. BucketOf(asked[o])' = BucketOf(asked[o])
    BY <1>2 DEF BucketOf
  <2>2. Waits(c, b, d, o) = IF exch[o].status = "working" THEN l ELSE 0
    BY <1>4 DEF Waits, l
  <2>3. Waits(c, b, d, o)' = IF s = "working" THEN n ELSE 0
    BY <1>2, <1>4, <2>1 DEF Waits
  <2>4. exch[o].status # "working" => holding[c][b][d] - Sum(c, b, d) >= l
    <3> SUFFICES ASSUME exch[o].status # "working" PROVE holding[c][b][d] - Sum(c, b, d) >= l
      OBVIOUS
    <3>1. exch[o].status = "sent" /\ Acceptable(r)
      BY DEF Reports
    <3>2. holding[c][b][d] - Locked(c, b, d) >= r.total
      BY <1>4, <3>1 DEF Acceptable
    <3> QED
      BY <1>1, <3>1, <3>2, LockedIs DEF Sum
  <2> QED
    BY <2>2, <2>3, <2>4
<1>5. ASSUME NEW c \in Codes, NEW b \in Buckets, NEW d \in Dirs,
             ~(c = r.code /\ b = BucketOf(r) /\ d = r.direction /\ r.offset # "open")
      PROVE  Waits(c, b, d, o) = 0 /\ Waits(c, b, d, o)' = 0
  <2>1. BucketOf(asked[o])' = BucketOf(asked[o])
    BY <1>2 DEF BucketOf
  <2> QED
    BY <1>2, <1>5, <2>1 DEF Waits
<1>6. r.offset # "open" => l - n <= holding[r.code][BucketOf(r)][r.direction]
  <2> SUFFICES ASSUME r.offset # "open" PROVE l - n <= holding[r.code][BucketOf(r)][r.direction]
    OBVIOUS
  <2> DEFINE c == r.code
             b == BucketOf(r)
             d == r.direction
             h == holding[c][b][d]
  <2>1. c \in Codes /\ b \in Buckets /\ d \in Dirs
    BY <1>1 DEF Asked, BucketOf, Buckets
  <2>2. /\ Sum(c, b, d) \in Int /\ Sum(c, b, d) <= h /\ h \in Nat
        /\ Waits(c, b, d, o) <= Sum(c, b, d) /\ Waits(c, b, d, o) \in Nat
    BY <1>3, <2>1
  <2>3. /\ Waits(c, b, d, o) = IF exch[o].status = "working" THEN l ELSE 0
        /\ exch[o].status # "working" => h - Sum(c, b, d) >= l
    BY <1>4, <2>1
  <2> HIDE DEF h, c, b, d, r
  <2> DEFINE x == Sum(c, b, d)
             y == Waits(c, b, d, o)
  <2>4. l - n <= h
    <3>1. x \in Int /\ x <= h /\ h \in Nat /\ y <= x /\ y \in Nat
      BY <2>2
    <3>2. y = l \/ (y = 0 /\ h - x >= l)
      BY <2>3
    <3>3. 0 <= x
      BY <3>1
    <3> HIDE DEF x, y
    <3>4. l <= h
      BY <1>1, <3>1, <3>2, <3>3
    <3> QED
      BY <1>1, <3>1, <3>4
  <2> QED
    BY <2>4 DEF h, c, b, d, r
<1>7. /\ holding' \in Lots
      /\ \A c \in Codes, b \in Buckets, d \in Dirs :
           holding'[c][b][d] =
             IF c = r.code /\ b = BucketOf(r) /\ d = r.direction
             THEN IF r.offset = "open" THEN holding[c][b][d] + (l - n) ELSE holding[c][b][d] - (l - n)
             ELSE holding[c][b][d]
  <2> DEFINE v == l - n
  <2>1. v \in Nat /\ holding' = DealAtExchange(r, v) /\ holding \in Lots
    BY <1>1 DEF Reports, NotOversold, l
  <2>2. r.offset # "open" => v <= holding[r.code][BucketOf(r)][r.direction]
    BY <1>6
  <2> HIDE DEF v
  <2>3. /\ holding' \in Lots
        /\ \A c \in Codes, b \in Buckets, d \in Dirs :
           holding'[c][b][d] =
             IF c = r.code /\ b = BucketOf(r) /\ d = r.direction
             THEN IF r.offset = "open" THEN holding[c][b][d] + v ELSE holding[c][b][d] - v
             ELSE holding[c][b][d]
    BY <1>1, <2>1, <2>2, DealtHolding
  <2> QED
    BY <2>3 DEF v
<1>8. ASSUME NEW c \in Codes, NEW b \in Buckets, NEW d \in Dirs
      PROVE  Next_Sum(c, b, d) <= holding'[c][b][d]
  <2> DEFINE x == Sum(c, b, d)
             y == Waits(c, b, d, o)
             z == Waits(c, b, d, o)'
             h == holding[c][b][d]
             k == holding'[c][b][d]
             t == Next_Sum(c, b, d)
  <2>1. x \in Int /\ x <= h /\ h \in Nat /\ t = x - y + z /\ y \in Nat
    BY <1>3
  <2>2. CASE c = r.code /\ b = BucketOf(r) /\ d = r.direction /\ r.offset # "open"
    <3>1. /\ y = IF exch[o].status = "working" THEN l ELSE 0
          /\ z = IF s = "working" THEN n ELSE 0
          /\ exch[o].status # "working" => h - x >= l
      BY <1>4, <2>2
    <3>2. k = h - (l - n)
      BY <1>7, <2>2
    <3>3. y = l \/ (y = 0 /\ h - x >= l)
      BY <3>1
    <3>4. z = n \/ z = 0
      BY <3>1
    <3> HIDE DEF x, y, z, h, k, t
    <3> QED
      BY <1>1, <2>1, <3>2, <3>3, <3>4 DEF t, k
  <2>3. CASE ~(c = r.code /\ b = BucketOf(r) /\ d = r.direction /\ r.offset # "open")
    <3>1. y = 0 /\ z = 0
      BY <1>5, <2>3
    <3>2. k = h \/ k = h + (l - n)
      BY <1>7, <2>3
    <3> HIDE DEF x, y, z, h, k
    <3> QED
      BY <1>1, <2>1, <3>1, <3>2 DEF t, k
  <2> QED
    BY <2>2, <2>3
<1>9. NotOversold'
  BY <1>7, <1>8 DEF NotOversold, Next_Sum
<1>10. LotsMove(holding, holding', asked[o], exch[o].left - n)
  BY <1>7 DEF LotsMove, l
<1> QED
  BY <1>9, <1>10

\* What the exchange waits for does not grow: nor do the lots it needs.
LEMMA LotsStay ==
  ASSUME OrdersTyped, OrdersTyped', NotOversold, holding' = holding, NEW o \in Ids,
         \A p \in Ids \ {o} : exch'[p] = exch[p] /\ asked'[p] = asked[p],
         \A c, b, d : Waits(c, b, d, o)' = 0 \/ Waits(c, b, d, o)' = Waits(c, b, d, o)
  PROVE  NotOversold'
<1>1. ASSUME NEW c \in Codes, NEW b \in Buckets, NEW d \in Dirs
      PROVE  SumFunctionOnSet([p \in Ids |-> Waits(c, b, d, p)'], Ids) <= holding'[c][b][d]
  <2> DEFINE f == [p \in Ids |-> Waits(c, b, d, p)]
             t == SumFunctionOnSet([p \in Ids |-> Waits(c, b, d, p)'], Ids)
             z == Waits(c, b, d, o)'
  <2>1. \A p \in Ids : f[p] = Waits(c, b, d, p) /\ f[p] \in Nat /\ f[p] \in Int
    BY WaitsNat
  <2>2. t = SumFunctionOnSet(f, Ids) - Waits(c, b, d, o) + z
    BY WaitsChange
  <2>3. SumFunctionOnSet(f, Ids) <= holding[c][b][d] /\ holding[c][b][d] \in Nat
    BY DEF NotOversold, Lots
  <2>4. z = 0 \/ z = f[o]
    BY <2>1
  <2>5. Waits(c, b, d, o) = f[o] /\ f[o] \in Nat
    BY <2>1
  <2> HIDE DEF f, t, z
  <2>6. SumFunctionOnSet(f, Ids) \in Int
    BY <2>1, ConstantsTyped, SumInt
  <2>7. t <= holding[c][b][d]
    BY <2>2, <2>3, <2>4, <2>5, <2>6
  <2> QED
    BY <2>7 DEF t
<1> QED
  BY <1>1 DEF NotOversold

\* An order ends at the exchange, of which nothing is held any more.
LEMMA EndedOrders ==
  ASSUME OrdersTyped, NEW o \in Ids, exch[o].status \in {"sent", "working"},
         NEW s \in {"refused", "canceled"},
         exch' = [exch EXCEPT ![o] = [status |-> s, left |-> 0]],
         api' = api, asked' = asked, cancels' \subseteq cancels
  PROVE  /\ OrdersTyped' /\ Active' = Active
         /\ exch'[o] = [status |-> s, left |-> 0]
         /\ \A p \in Ids \ {o} : exch'[p] = exch[p]
<1>1. exch'[o] = [status |-> s, left |-> 0] /\ \A p \in Ids \ {o} : exch'[p] = exch[p]
  BY DEF OrdersTyped
<1>2. s \in Statuses /\ 0 \in 0..MaxVolume /\ s \notin {"none", "sent", "working"}
  BY ConstantsTyped DEF Statuses
<1>3. exch' \in [Ids -> [status : Statuses, left : 0..MaxVolume]]
  BY <1>2 DEF OrdersTyped
<1>4. Active' = Active
  BY <1>1, <1>2 DEF Active
<1>5. \A p \in Ids : /\ exch'[p].status = "sent" => exch'[p].left = asked[p].total
                     /\ exch'[p].status = "working" => exch'[p].left \in 1..asked[p].total
  BY <1>1, <1>2 DEF OrdersTyped
<1> QED
  BY <1>1, <1>3, <1>4, <1>5 DEF OrdersTyped

LEMMA EndedLots ==
  ASSUME OrdersTyped, NotOversold, NEW o \in Ids, exch[o].status \in {"sent", "working"},
         NEW s \in {"refused", "canceled"},
         exch' = [exch EXCEPT ![o] = [status |-> s, left |-> 0]],
         api' = api, asked' = asked, cancels' \subseteq cancels, holding' = holding
  PROVE  NotOversold'
<1>1. /\ OrdersTyped' /\ exch'[o] = [status |-> s, left |-> 0]
      /\ \A p \in Ids \ {o} : exch'[p] = exch[p]
  BY EndedOrders
<1>2. \A c, b, d : Waits(c, b, d, o)' = 0
  BY <1>1 DEF Waits
<1> QED
  BY <1>1, <1>2, LotsStay

LEMMA SameOrders ==
  ASSUME OrdersTyped, NotOversold, api' = api, asked' = asked, exch' = exch, holding' = holding,
         cancels' \subseteq Active
  PROVE  OrdersTyped' /\ NotOversold' /\ Active' = Active
<1>1. Active' = Active
  BY DEF Active
<1>2. \A c, b, d, o : Waits(c, b, d, o)' = Waits(c, b, d, o)
  BY DEF Waits, BucketOf
<1>3. NotOversold'
  BY <1>2 DEF NotOversold
<1> QED
  BY <1>1, <1>3 DEF OrdersTyped

LEMMA EnterOrders ==
  ASSUME OrdersTyped, NotOversold, NEW o \in Ids, NEW r \in Requests, Enter(o, r),
         api' = api, holding' = holding, cancels' = cancels
  PROVE  /\ OrdersTyped' /\ NotOversold' /\ Active' = Active \cup {o} /\ o \notin Active
         /\ r \in Asked /\ asked'[o] = r /\ exch'[o] = [status |-> "sent", left |-> r.total]
         /\ \A p \in Ids \ {o} : exch'[p] = exch[p] /\ asked'[p] = asked[p]
<1>1. r \in Asked /\ r.total \in 0..MaxVolume
  BY LiveAssumption, ConstantsTyped DEF Asked, Dirs
<1>2. /\ exch'[o] = [status |-> "sent", left |-> r.total] /\ asked'[o] = r
      /\ \A p \in Ids \ {o} : exch'[p] = exch[p] /\ asked'[p] = asked[p]
  BY DEF OrdersTyped, Enter
<1>3. /\ exch' \in [Ids -> [status : Statuses, left : 0..MaxVolume]]
      /\ asked' \in [Ids -> Asked \cup {NoRequest}]
  BY <1>1 DEF OrdersTyped, Enter, Statuses
<1>4. Active' = Active \cup {o} /\ o \notin Active
  BY <1>2 DEF Enter, NextId, Active
<1>5. \A p \in Ids : /\ exch'[p].status = "sent" => exch'[p].left = asked'[p].total
                     /\ exch'[p].status = "working" => exch'[p].left \in 1..asked'[p].total
  BY <1>2 DEF OrdersTyped
<1>6. \A p \in Active' : asked'[p] \in Asked
  BY <1>1, <1>2, <1>4 DEF OrdersTyped, Active
<1>7. OrdersTyped'
  BY <1>3, <1>4, <1>5, <1>6 DEF OrdersTyped
<1>8. \A c, b, d : Waits(c, b, d, o)' = 0
  BY <1>2 DEF Waits
<1>9. NotOversold'
  BY <1>2, <1>7, <1>8, LotsStay
<1> QED
  BY <1>1, <1>2, <1>4, <1>7, <1>9

-----------------------------------------------------------------------------
(* The steps of the exchange keep the types. *)

LEMMA ReportTyped ==
  ASSUME TInv, NEW o \in Ids, Report(o)
  PROVE  TInv'
<1>1. PICK s, n : Reports(o, s, n)
  BY ReportIs
<1>2. OrdersTyped' /\ Active' = Active /\ n \in 0..MaxVolume
  BY <1>1, ReportedOrders DEF TInv
<1>3. NotOversold'
  BY <1>1, ReportedLots DEF TInv
<1>4. o \in Active /\ asked[o].total \in 1..MaxVolume
  BY <1>1, LeftIs DEF TInv, Reports
<1>5. Return(o, s, n) \in MessagesOf(Active)
  BY <1>1, <1>2, <1>4, ReturnIn DEF TInv, Reports
<1>6. ThreadsTyped'
  <2> DEFINE m == Return(o, s, n)
  <2>1. m \in MessagesOf(Active) /\ Send(m) /\ UNCHANGED <<queue, firing, adapter>>
    BY <1>1, <1>5 DEF Reports
  <2>2. \A q \in MessagesOf(Active') : Send(q) => ThreadsTyped'
    BY <1>2, <2>1, ThreadsSent DEF TInv
  <2>3. MessagesOf(Active') = MessagesOf(Active)
    BY <1>2
  <2> HIDE DEF m
  <2> QED
    BY <2>1, <2>2, <2>3, Zenon
<1>7. ProcessTyped'
  BY <1>1, <1>2, ProcessStays DEF TInv, Reports
<1>8. GapsTyped'
  BY <1>1 DEF TInv, Reports, GapsTyped
<1> QED
  BY <1>2, <1>3, <1>6, <1>7, <1>8 DEF TInv

LEMMA RefusedIn ==
  ASSUME NEW S, NEW o \in S, NEW k \in {"refused", "cancelrefused", "unheard"}
  PROVE  [kind |-> k, id |-> o] \in MessagesOf(S)
BY DEF MessagesOf

LEMMA RefuseTyped ==
  ASSUME TInv, NEW o \in Ids, Refuse(o)
  PROVE  TInv'
<1>1. /\ exch[o].status = "sent" /\ exch' = [exch EXCEPT ![o] = [status |-> "refused", left |-> 0]]
      /\ api' = api /\ asked' = asked /\ cancels' = cancels /\ holding' = holding /\ gaps' = gaps
      /\ UNCHANGED <<queue, firing, adapter>> /\ UNCHANGED processVars
  BY DEF Refuse
<1>2. OrdersTyped' /\ Active' = Active
  BY <1>1, EndedOrders DEF TInv
<1>3. NotOversold'
  BY <1>1, EndedLots DEF TInv
<1>4. o \in Active
  BY <1>1 DEF Active
<1>5. PICK m \in MessagesOf(Active') : Send(m) \/ UNCHANGED wire
  <2>1. /\ [kind |-> "refused", id |-> o] \in MessagesOf(Active')
        /\ [kind |-> "unheard", id |-> o] \in MessagesOf(Active')
    BY <1>2, <1>4, RefusedIn
  <2> QED
    BY <2>1 DEF Refuse
<1>6. ThreadsTyped'
  BY <1>1, <1>2, <1>5, ThreadsSent DEF TInv
<1>7. ProcessTyped'
  BY <1>1, <1>2, ProcessStays DEF TInv
<1>8. GapsTyped'
  BY <1>1 DEF TInv, GapsTyped, Refuse, Misread
<1> QED
  BY <1>2, <1>3, <1>6, <1>7, <1>8 DEF TInv

LEMMA AnswerCancelTyped ==
  ASSUME TInv, NEW o \in Ids, AnswerCancel(o)
  PROVE  TInv'
<1>1. /\ o \in cancels /\ cancels' = cancels \ {o}
      /\ api' = api /\ asked' = asked /\ holding' = holding /\ gaps' = gaps
      /\ UNCHANGED <<queue, firing, adapter>> /\ UNCHANGED processVars
  BY DEF AnswerCancel
<1>2. o \in Active /\ cancels' \subseteq Active /\ cancels' \subseteq cancels
  BY <1>1 DEF TInv, OrdersTyped
<1>3. /\ OrdersTyped' /\ NotOversold' /\ Active' = Active
      /\ \E m \in MessagesOf(Active) : Send(m)
  <2>1. CASE /\ exch[o].status = "working"
             /\ exch' = [exch EXCEPT ![o] = [status |-> "canceled", left |-> 0]]
             /\ Send(Return(o, "canceled", exch[o].left))
    <3>1. OrdersTyped' /\ Active' = Active /\ NotOversold'
      BY <1>1, <1>2, <2>1, EndedOrders, EndedLots DEF TInv
    <3>2. asked[o].total \in 1..MaxVolume /\ exch[o].left \in 0..MaxVolume
      BY <2>1, LeftIs, ConstantsTyped DEF TInv
    <3>3. Return(o, "canceled", exch[o].left) \in MessagesOf(Active)
      BY <1>2, <3>2, ReturnIn DEF TInv
    <3> QED
      BY <2>1, <3>1, <3>3
  <2>2. CASE /\ \/ Send([kind |-> "cancelrefused", id |-> o])
                \/ Send([kind |-> "unheard", id |-> o])
             /\ UNCHANGED exch
    <3>1. OrdersTyped' /\ Active' = Active /\ NotOversold'
      BY <1>1, <1>2, <2>2, SameOrders DEF TInv
    <3>2. /\ [kind |-> "cancelrefused", id |-> o] \in MessagesOf(Active)
          /\ [kind |-> "unheard", id |-> o] \in MessagesOf(Active)
      BY <1>2, RefusedIn
    <3> QED
      BY <2>2, <3>1, <3>2
  <2> QED
    BY <2>1, <2>2 DEF AnswerCancel
<1>4. PICK m \in MessagesOf(Active') : Send(m)
  BY <1>3
<1>5. ThreadsTyped'
  BY <1>1, <1>3, <1>4, ThreadsSent DEF TInv
<1>6. ProcessTyped'
  BY <1>1, <1>3, ProcessStays DEF TInv
<1>7. GapsTyped'
  BY <1>1 DEF TInv, GapsTyped, AnswerCancel, Misread
<1> QED
  BY <1>3, <1>5, <1>6, <1>7 DEF TInv

LEMMA ForeignPlaceTyped ==
  ASSUME TInv, NEW o \in Ids, ForeignPlace(o)
  PROVE  TInv'
<1>1. /\ api' = api /\ holding' = holding /\ cancels' = cancels /\ UNCHANGED <<gaps, misread>>
      /\ UNCHANGED <<wire, queue, firing, adapter>> /\ UNCHANGED processVars
  BY DEF ForeignPlace, threadVars, histVars
<1>2. PICK r \in Requests : Enter(o, r)
  BY DEF ForeignPlace
<1>3. OrdersTyped' /\ NotOversold' /\ Active \subseteq Active'
  BY <1>1, <1>2, EnterOrders DEF TInv
<1>4. ThreadsTyped' /\ ProcessTyped'
  BY <1>1, <1>3, ThreadsStay, ProcessStays DEF TInv
<1> QED
  BY <1>1, <1>3, <1>4 DEF TInv, GapsTyped

-----------------------------------------------------------------------------
(* The steps of the threads keep the types. *)

LEMMA HeadTailIn ==
  ASSUME NEW S, NEW s \in Seq(S), s # <<>>
  PROVE  Head(s) \in S /\ Tail(s) \in Seq(S) /\ Len(Tail(s)) = Len(s) - 1 /\ Len(s) \in Nat
OBVIOUS

LEMMA SameProcess ==
  ASSUME ProcessTyped, Active' = Active, UNCHANGED <<session, trading, seen, mine, told>>,
         ctx' \in Ctxs, ctx'.listener \subseteq mine
  PROVE  ProcessTyped'
BY DEF ProcessTyped, Ctxs, Lots, Ledgers, Tales

LEMMA DeliverTyped ==
  ASSUME TInv, Deliver
  PROVE  TInv'
<1> DEFINE m == Head(wire)
           k == Drv!Callback(api, adapter, m)
<1>1. /\ wire # <<>> /\ adapter' = k.adapter /\ firing' = k.events /\ wire' = Tail(wire)
      /\ UNCHANGED <<api, exchangeVars, queue, processVars, gaps, misread>>
  BY DEF Deliver, histVars
<1>2. m \in MessagesOf(Active) /\ Tail(wire) \in Seq(MessagesOf(Active))
  BY <1>1, HeadTailIn DEF TInv, ThreadsTyped
<1>3. KeepsIn(Active, k)
  BY <1>2, ActiveIn, CallbackTyped DEF TInv, ThreadsTyped
<1>4. OrdersTyped' /\ NotOversold' /\ Active' = Active
  BY <1>1, SameOrders DEF TInv, exchangeVars, OrdersTyped
<1> HIDE DEF k, m
<1>5. ThreadsTyped'
  <2>1. /\ wire' \in Seq(MessagesOf(Active)) /\ adapter' \in Adapters(Active)
        /\ firing' \in Seq(EventsOf(Active)) /\ queue' \in Seq(EventsOf(Active)) /\ Len(queue') <= Size
    BY <1>1, <1>2, <1>3 DEF KeepsIn, TInv, ThreadsTyped
  <2> QED
    BY <1>4, <2>1 DEF ThreadsTyped, MessagesOf, EventsOf, Adapters
<1>6. ProcessTyped'
  BY <1>1, <1>4, ProcessStays DEF TInv
<1> QED
  BY <1>1, <1>4, <1>5, <1>6 DEF TInv, GapsTyped

LEMMA FireTyped ==
  ASSUME TInv, Fire
  PROVE  TInv'
<1>1. /\ firing # <<>> /\ queue' = Append(queue, Head(firing)) /\ firing' = Tail(firing)
      /\ Len(queue) < Size
      /\ UNCHANGED <<api, exchangeVars, wire, adapter, processVars, gaps, misread>>
  BY DEF Fire, histVars
<1>2. OrdersTyped' /\ NotOversold' /\ Active' = Active
  BY <1>1, SameOrders DEF TInv, exchangeVars, OrdersTyped
<1>3. ThreadsTyped'
  <2>1. Head(firing) \in EventsOf(Active) /\ Tail(firing) \in Seq(EventsOf(Active))
    BY <1>1, HeadTailIn DEF TInv, ThreadsTyped
  <2>2. queue' \in Seq(EventsOf(Active)) /\ Len(queue') <= Size
    <3>1. \A e \in EventsOf(Active) : /\ Append(queue, e) \in Seq(EventsOf(Active))
                                      /\ Len(Append(queue, e)) = Len(queue) + 1 /\ Len(queue) \in Nat
      BY AppendProperties DEF TInv, ThreadsTyped
    <3> QED
      BY <1>1, <2>1, <3>1, ConstantsTyped
  <2> QED
    BY <1>1, <1>2, <2>1, <2>2 DEF TInv, ThreadsTyped, MessagesOf, EventsOf, Adapters
<1>4. ProcessTyped'
  BY <1>1, <1>2, ProcessStays DEF TInv
<1> QED
  BY <1>1, <1>2, <1>3, <1>4 DEF TInv, GapsTyped

LEMMA ToldTyped ==
  ASSUME NEW t \in Tales, NEW S, NEW e \in EventsOf(S)
  PROVE  Told(t, e) \in Tales
BY EventFields DEF Told, Tales, TradeStatuses

LEMMA HandleTyped ==
  ASSUME TInv, Handle
  PROVE  TInv'
<1> DEFINE e == Head(queue)
<1>1. /\ OnDuty /\ queue # <<>> /\ ctx' = Heard(ctx, e) /\ queue' = Tail(queue)
      /\ told' = IF e.id \in ctx.listener THEN [told EXCEPT ![e.id] = Told(@, e)] ELSE told
      /\ UNCHANGED <<api, exchangeVars, wire, adapter, firing, session, seen, trading, mine,
                     gaps, misread>>
  BY DEF Handle, histVars
<1>2. /\ e \in EventsOf(Active) /\ Tail(queue) \in Seq(EventsOf(Active))
      /\ Len(Tail(queue)) <= Size
  BY <1>1, HeadTailIn, ConstantsTyped DEF TInv, ThreadsTyped
<1> HIDE DEF e
<1>3. OrdersTyped' /\ NotOversold' /\ Active' = Active
  BY <1>1, SameOrders DEF TInv, exchangeVars, OrdersTyped
<1>4. ThreadsTyped'
  BY <1>1, <1>2, <1>3 DEF TInv, ThreadsTyped, MessagesOf, EventsOf, Adapters
<1>5. ctx' \in Ctxs /\ ctx'.listener \subseteq ctx.listener
  <2>1. e \in EventsOf(Ids) /\ World.asked[e.id] \in Asked
    BY <1>2, ActiveIn, EventFields DEF EventsOf, World, TInv, OrdersTyped
  <2>2. /\ HeardBy(World, ctx, e) \in Ctxs
        /\ HeardBy(World, ctx, e).listener \subseteq ctx.listener
    <3>1. ctx \in Ctxs
      BY DEF TInv, ProcessTyped
    <3>2. \A w : w.asked[e.id] \in Asked =>
            /\ HeardBy(w, ctx, e) \in Ctxs
            /\ HeardBy(w, ctx, e).listener
                 = IF e.type \in Ends THEN ctx.listener \ {e.id} ELSE ctx.listener
      BY <2>1, <3>1, HeardIs
    <3> QED
      BY <2>1, <3>2
  <2>3. Heard(ctx, e) = HeardBy(World, ctx, e)
    BY HeardReads DEF Reads
  <2> QED
    BY <1>1, <2>2, <2>3
<1>6. told' \in [Ids -> Tales] /\ \A o \in Ids \ mine : told'[o] = [status |-> "none", left |-> 0]
  <2>1. \A o \in Ids : Told(told[o], e) \in Tales
    BY <1>2, ToldTyped DEF TInv, ProcessTyped
  <2> QED
    BY <1>1, <2>1 DEF TInv, ProcessTyped
<1>7. ProcessTyped'
  BY <1>1, <1>3, <1>5, <1>6 DEF TInv, ProcessTyped, Ctxs, Lots, Ledgers
<1> QED
  BY <1>1, <1>3, <1>4, <1>7 DEF TInv, GapsTyped

-----------------------------------------------------------------------------
(* The steps of the process keep the types. *)

LEMMA ListenerAdds ==
  ASSUME NEW x \in Ctxs, NEW o \in Ids
  PROVE  LET y == [x EXCEPT !.listener = @ \cup {o}]
         IN /\ y \in Ctxs /\ SameBooks(x, y) /\ y.order = x.order
            /\ y.listener = x.listener \cup {o} /\ y.condition = x.condition
BY DEF Ctxs, SameBooks

LEMMA ConditionSet ==
  ASSUME NEW x \in Ctxs, NEW o \in Ids, NEW v \in Wishes
  PROVE  LET y == [x EXCEPT !.condition[o] = v]
         IN /\ y \in Ctxs /\ SameBooks(x, y) /\ y.order = x.order
            /\ y.listener = x.listener
BY DEF Ctxs, SameBooks

LEMMA PlaceTyped ==
  ASSUME TInv, NEW o \in Ids, Place(o)
  PROVE  TInv'
<1>1. /\ OnDuty /\ mine' = mine \cup {o} /\ ctx' = [ctx EXCEPT !.listener = @ \cup {o}]
      /\ UNCHANGED <<api, holding, cancels, threadVars, session, seen, trading, gaps, misread>>
  BY DEF Place, histVars
<1>2. PICK r \in Requests : /\ Enter(o, r)
                            /\ told' = [told EXCEPT ![o] = [status |-> "placed", left |-> r.total]]
  BY DEF Place
<1>3. /\ OrdersTyped' /\ NotOversold' /\ Active' = Active \cup {o} /\ Active \subseteq Active'
      /\ r \in Asked
  BY <1>1, <1>2, EnterOrders DEF TInv
<1>4. ThreadsTyped'
  BY <1>1, <1>3, ThreadsStay DEF TInv, threadVars
<1>5. ctx' \in Ctxs /\ ctx'.listener = ctx.listener \cup {o}
  BY <1>1, ListenerAdds DEF TInv, ProcessTyped
<1>6. told' \in [Ids -> Tales] /\ \A p \in Ids \ mine' : told'[p] = [status |-> "none", left |-> 0]
  <2>1. [status |-> "placed", left |-> r.total] \in Tales
    BY <1>3, ConstantsTyped DEF Tales, TradeStatuses, Asked
  <2> QED
    BY <1>1, <1>2, <2>1 DEF TInv, ProcessTyped
<1>7. ProcessTyped'
  BY <1>1, <1>3, <1>5, <1>6 DEF TInv, ProcessTyped, Ctxs, Lots, Ledgers, OnDuty
<1> QED
  BY <1>1, <1>3, <1>4, <1>7 DEF TInv, GapsTyped

LEMMA CanCancelActive ==
  ASSUME ThreadsTyped, NEW o \in Ids, Drv!CanCancel(api, adapter, o) PROVE o \in Active
BY DEF ThreadsTyped, Adapters, Drv!CanCancel, Drv!Seen

\* A step of the strategies that asks for cancels and sets conditions.
LEMMA WishTyped ==
  ASSUME TInv, NEW o \in Ids, NEW v \in Wishes,
         cancels' = cancels \/ (cancels' = cancels \cup {o} /\ Drv!CanCancel(api, adapter, o)),
         ctx' = ctx \/ ctx' = [ctx EXCEPT !.condition[o] = v],
         UNCHANGED <<api, asked, exch, holding, threadVars, session, seen, trading, mine, told,
                     histVars>>
  PROVE  TInv'
<1>1. cancels' \subseteq Active
  BY CanCancelActive DEF TInv, OrdersTyped
<1>2. OrdersTyped' /\ NotOversold' /\ Active' = Active
  BY <1>1, SameOrders DEF TInv
<1>3. ThreadsTyped'
  BY <1>2, ThreadsStay DEF TInv, threadVars
<1>4. ctx' \in Ctxs /\ ctx'.listener \subseteq mine
  <2> DEFINE x == ctx
             y == [x EXCEPT !.condition[o] = v]
  <2>1. x \in Ctxs /\ x.listener \subseteq mine
    BY DEF TInv, ProcessTyped
  <2>2. ctx' = x \/ ctx' = y
    OBVIOUS
  <2> HIDE DEF x
  <2>3. y \in Ctxs /\ y.listener = x.listener
    BY <2>1, ConditionSet
  <2> QED
    BY <2>1, <2>2, <2>3
<1>5. ProcessTyped'
  BY <1>2, <1>4, SameProcess DEF TInv
<1> QED
  BY <1>2, <1>3, <1>5 DEF TInv, GapsTyped, histVars

LEMMA CancelTyped ==
  ASSUME TInv, NEW o \in Ids, Cancel(o)
  PROVE  TInv'
<1>1. PICK v \in Wishes : /\ cancels' = cancels
                               \/ (cancels' = cancels \cup {o} /\ Drv!CanCancel(api, adapter, o))
                          /\ ctx' = ctx \/ ctx' = [ctx EXCEPT !.condition[o] = v]
  BY DEF Cancel, Wishes
<1> QED
  BY <1>1, WishTyped DEF Cancel

LEMMA CheckConditionTyped ==
  ASSUME TInv, NEW o \in Ids, CheckCondition(o)
  PROVE  TInv'
<1>1. /\ cancels' = cancels
           \/ (cancels' = cancels \cup {o} /\ Drv!CanCancel(api, adapter, o))
      /\ ctx' = ctx \/ ctx' = [ctx EXCEPT !.condition[o] = "none"]
  BY DEF CheckCondition
<1>2. "none" \in Wishes
  BY DEF Wishes
<1> QED
  BY <1>1, <1>2, WishTyped DEF CheckCondition

LEMMA QuietTyped ==
  ASSUME TInv, Clock \/ Login \/ QueryPositions
  PROVE  TInv'
<1>1. UNCHANGED <<api, exchangeVars, threadVars, ctx, mine, told, gaps, misread>>
  BY DEF histVars, Clock, Login, QueryPositions
<1>2. OrdersTyped' /\ NotOversold' /\ Active' = Active
  BY <1>1, SameOrders DEF TInv, exchangeVars, OrdersTyped
<1>3. ThreadsTyped'
  BY <1>1, <1>2, ThreadsStay DEF TInv, threadVars
<1>4. /\ session' \in {"ready", "queried", "running"} /\ trading' \in BOOLEAN /\ seen' \in Lots
      /\ session' # "running" => session # "running"
  BY DEF Clock, Login, QueryPositions, TInv, ProcessTyped, NotOversold
<1>5. ProcessTyped'
  BY <1>1, <1>2, <1>4 DEF TInv, ProcessTyped, Ctxs, Lots, Ledgers
<1> QED
  BY <1>1, <1>2, <1>3, <1>5 DEF TInv, GapsTyped

LEMMA EmptyTyped == Ctx!Empty \in Ctxs /\ Ctx!Empty.listener = {}
<1>1. /\ [c \in Codes |-> Ctx!NoPosition] \in [Codes -> Ledgers]
      /\ [o \in Ids |-> Ctx!Unknown] \in [Ids -> -1..MaxVolume]
      /\ [o \in Ids |-> "none"] \in [Ids -> Wishes]
  BY ZeroIs, ConstantsTyped DEF Ctx!Unknown, Wishes
<1> QED
  BY <1>1 DEF Ctx!Empty, Ctxs

LEMMA NoOrdersTyped == ASSUME NEW S PROVE Drv!NoOrders \in Adapters(S)
BY ConstantsTyped DEF Drv!NoOrders, Drv!Unknown, Adapters

LEMMA HoldingTyped == Holding \in Lots
BY LiveAssumption DEF Lots, Buckets, Dirs

LEMMA NothingToldTyped ==
  /\ NothingTold \in [Ids -> Tales]
  /\ \A o \in Ids : NothingTold[o] = [status |-> "none", left |-> 0]
BY ConstantsTyped DEF NothingTold, Tales, TradeStatuses

LEMMA CrashTyped ==
  ASSUME TInv, Crash
  PROVE  TInv'
<1>1. OrdersTyped' /\ NotOversold' /\ Active' = Active
  BY SameOrders DEF Crash, TInv, exchangeVars, OrdersTyped
<1>2. ThreadsTyped'
  <2>1. Drv!NoOrders \in Adapters(Active')
    BY NoOrdersTyped
  <2> QED
    BY <2>1, ConstantsTyped DEF Crash, ThreadsTyped
<1>3. ProcessTyped'
  BY EmptyTyped, HoldingTyped, NothingToldTyped DEF Crash, ProcessTyped
<1> QED
  BY <1>1, <1>2, <1>3 DEF TInv, GapsTyped, Crash

-----------------------------------------------------------------------------
(* load_data *)

\* ContextLedger's copy of the sum is the same.
LEMMA SameSum == \A f, S : Ctx!SumFunctionOnSet(f, S) = SumFunctionOnSet(f, S)
BY DEF Ctx!SumFunctionOnSet, Ctx!FoldFunctionOnSet, Ctx!MapThenFoldSet,
       SumFunctionOnSet, FoldFunctionOnSet, MapThenFoldSet

\* What the orders in R were placed for.
Totals(info, R) == Ctx!SumFunctionOnSet([o \in Ids |-> info[o].total], R) % Modulus

Freezes(live, info, c, b, d) ==
  {o \in live : /\ info[o].code = c /\ info[o].direction = d
                /\ info[o].offset # "open" /\ Ctx!BucketOf(info[o]) = b}

Pends(live, info, c, d) ==
  {o \in live : info[o].code = c /\ info[o].direction = d /\ info[o].offset = "open"}

Shelf(live, info, lots, c) ==
  [postion |-> lots[c],
   frozen  |-> [b \in Buckets |-> [d \in Dirs |-> Totals(info, Freezes(live, info, c, b, d))]],
   pending |-> [d \in Dirs |-> Totals(info, Pends(live, info, c, d))]]

LoadedOrders(live, info) == [o \in Ids |-> IF o \in live THEN info[o].last ELSE Ctx!Unknown]

LoadedEntries(live, info, held) == {info[o].code : o \in live} \cup held

Shelves(live, info, lots) == [c \in Codes |-> Shelf(live, info, lots, c)]

WithBooks(x, order, entries, position) ==
  [x EXCEPT !.order = order, !.entries = entries, !.position = position]

\* What the context has once it has loaded.
Loads(x, y, live, info, lots, held) ==
  /\ y.order = LoadedOrders(live, info) /\ y.entries = LoadedEntries(live, info, held)
  /\ y.position = Shelves(live, info, lots) /\ SameEars(x, y)

Loaded(x, live, info, lots, held) ==
  Ctx!LoadData(x, live, info,
    [c \in Codes |-> [b \in Buckets |-> [d \in Dirs |-> [postion |-> lots[c][b][d]]]]], held)

LEMMA TotalsIn ==
  ASSUME NEW live \in SUBSET Ids, NEW info, \A o \in live : IsOrder(info[o]), NEW R \in SUBSET live
  PROVE  Totals(info, R) \in Wraps
<1> DEFINE f == [o \in Ids |-> info[o].total]
<1>1. \A o \in R : f[o] \in Nat
  BY OrderFields
<1>2. IsFiniteSet(R)
  BY ConstantsTyped, FS_Subset
<1> HIDE DEF f
<1>3. SumFunctionOnSet(f, R) \in Nat
  BY <1>1, <1>2, SumNat
<1> QED
  BY <1>3, SameSum, ConstantsTyped DEF Wraps, f, Totals

LEMMA ShelfTyped ==
  ASSUME NEW live \in SUBSET Ids, NEW info, \A o \in live : IsOrder(info[o]),
         NEW lots \in Lots, NEW c \in Codes
  PROVE  Shelf(live, info, lots, c) \in Ledgers
<1>1. \A b, d : /\ Totals(info, Freezes(live, info, c, b, d)) \in Wraps
                /\ Totals(info, Pends(live, info, c, d)) \in Wraps
  <2>1. \A b, d : Freezes(live, info, c, b, d) \in SUBSET live /\ Pends(live, info, c, d) \in SUBSET live
    BY DEF Freezes, Pends
  <2>2. \A R \in SUBSET live : Totals(info, R) \in Wraps
    BY TotalsIn
  <2> QED
    BY <2>1, <2>2
<1>2. lots[c] \in [Buckets -> [Dirs -> Nat]]
  BY DEF Lots
<1> QED
  BY <1>1, <1>2, InNat DEF Shelf, Ledgers

LEMMA LoadedPosition ==
  ASSUME NEW x, NEW live, NEW info, NEW lots \in Lots, NEW held
  PROVE  Loaded(x, live, info, lots, held)
           = WithBooks(x, LoadedOrders(live, info), LoadedEntries(live, info, held),
                       Shelves(live, info, lots))
<1> DEFINE p0 == [c \in Codes |-> [b \in Buckets |-> [d \in Dirs |-> [postion |-> lots[c][b][d]]]]]
           mine0(c, d) == {o \in live : info[o].code = c /\ info[o].direction = d}
           frozen0(c, b, d) ==
             Totals(info, {o \in mine0(c, d) : info[o].offset # "open" /\ Ctx!BucketOf(info[o]) = b})
           pending0(c, d) == Totals(info, {o \in mine0(c, d) : info[o].offset = "open"})
           postion0(c) == [b \in Buckets |-> [d \in Dirs |-> p0[c][b][d].postion]]
           shelf(c) ==
             [postion |-> postion0(c),
              frozen  |-> [b \in Buckets |-> [d \in Dirs |-> frozen0(c, b, d)]],
              pending |-> [d \in Dirs |-> pending0(c, d)]]
<1>1. \A c \in Codes : postion0(c) = lots[c]
  BY DEF Lots
<1>2. \A c, b, d :
        /\ frozen0(c, b, d) = Totals(info, Freezes(live, info, c, b, d))
        /\ pending0(c, d) = Totals(info, Pends(live, info, c, d))
  <2>1. \A c, b, d :
          /\ {o \in mine0(c, d) : info[o].offset # "open" /\ Ctx!BucketOf(info[o]) = b}
               = Freezes(live, info, c, b, d)
          /\ {o \in mine0(c, d) : info[o].offset = "open"} = Pends(live, info, c, d)
    BY DEF Freezes, Pends
  <2> QED
    BY <2>1
<1>3. \A c \in Codes : shelf(c) = Shelf(live, info, lots, c)
  <2> HIDE DEF frozen0, pending0, postion0
  <2>1. ASSUME NEW c \in Codes
        PROVE  /\ [b \in Buckets |-> [d \in Dirs |-> frozen0(c, b, d)]]
                    = [b \in Buckets |-> [d \in Dirs |-> Totals(info, Freezes(live, info, c, b, d))]]
               /\ [d \in Dirs |-> pending0(c, d)]
                    = [d \in Dirs |-> Totals(info, Pends(live, info, c, d))]
    BY <1>2
  <2> QED
    BY <1>1, <2>1 DEF Shelf
<1>4. Loaded(x, live, info, lots, held) = Ctx!LoadData(x, live, info, p0, held)
  BY DEF Loaded
<1> HIDE DEF p0
<1>5. Ctx!LoadData(x, live, info, p0, held)
        = WithBooks(x, LoadedOrders(live, info), LoadedEntries(live, info, held),
                    [c \in Codes |-> shelf(c)])
  BY Zenon DEF WithBooks, LoadedOrders, LoadedEntries, Ctx!LoadData, Totals, Ctx!Buckets, Buckets, Ctx!Dirs, Dirs
<1> HIDE DEF shelf
<1>6. [c \in Codes |-> shelf(c)] = Shelves(live, info, lots)
  BY <1>3 DEF Shelves
<1> QED
  BY <1>4, <1>5, <1>6

LEMMA LoadedIs ==
  ASSUME NEW x \in Ctxs, NEW live \in SUBSET Ids, NEW info, \A o \in live : IsOrder(info[o]),
         NEW lots \in Lots, NEW held \in SUBSET Codes
  PROVE  LET y == Loaded(x, live, info, lots, held)
         IN y \in Ctxs /\ Loads(x, y, live, info, lots, held)
<1> DEFINE order == LoadedOrders(live, info)
           entries == LoadedEntries(live, info, held)
           position == Shelves(live, info, lots)
           y == Loaded(x, live, info, lots, held)
<1>1. y = WithBooks(x, order, entries, position)
  BY LoadedPosition
<1>2. order \in [Ids -> -1..MaxVolume] /\ entries \in SUBSET Codes
  BY OrderFields, ConstantsTyped DEF Ctx!Unknown, LoadedOrders, LoadedEntries
<1>3. position \in [Codes -> Ledgers]
  BY ShelfTyped DEF Shelves
<1> HIDE DEF order, entries, position, y
<1>4. /\ y \in Ctxs /\ y.order = order /\ y.entries = entries /\ y.position = position
      /\ y.listener = x.listener /\ y.condition = x.condition
  BY <1>1, <1>2, <1>3 DEF Ctxs, WithBooks
<1> QED
  BY <1>4 DEF Loads, SameEars, order, entries, position, y

\* What is loaded of an order, of those the driver has seen, and what is held.
LoadInfo == [o \in Ids |-> OrderInfo(o, exch[o].left)]

Live == {o \in Ids : Drv!Seen(adapter', o)}

Held == {c \in Codes : \E b \in Buckets, d \in Dirs : seen[c][b][d] > 0}

LEMMA QueriedIs ==
  ASSUME OrdersTyped, ThreadsTyped, QueryOrders
  PROVE  /\ adapter' \in Adapters(Active)
         /\ Live = IF api = "ctp" THEN At("working") ELSE At("working") \ adapter.index
         /\ \A o \in Ids : adapter'.order[o] = IF o \in Live THEN exch[o].left ELSE Drv!Unknown
         /\ Live \subseteq At("working") /\ At("working") \subseteq Active
<1> DEFINE taken == IF api = "ctp" THEN At("working") ELSE At("working") \ adapter.index
<1>1. taken \subseteq At("working") /\ At("working") \subseteq Active /\ At("working") \subseteq Ids
  BY DEF At, Active
<1>2. \A o \in taken : exch[o].left \in 1..MaxVolume /\ exch[o].left \in -1..MaxVolume
  <2>1. \A o \in taken : o \in Ids /\ exch[o].status = "working"
    BY <1>1 DEF At
  <2>2. \A o \in Ids : exch[o].status = "working" => exch[o].left \in 1..MaxVolume
    BY LeftIs
  <2> HIDE DEF taken
  <2> QED
    BY <2>1, <2>2, ConstantsTyped
<1>3. /\ adapter'.order = [o \in Ids |-> IF o \in taken THEN [p \in Ids |-> exch[p].left][o]
                                         ELSE Drv!Unknown]
      /\ adapter'.index = IF api = "ctp" THEN adapter.index ELSE adapter.index \cup At("working")
      /\ adapter' = [order |-> adapter'.order, index |-> adapter'.index]
  BY DEF QueryOrders, Drv!QueriedOrders
<1> HIDE DEF taken
<1>4. \A o \in Ids : adapter'.order[o] = IF o \in taken THEN exch[o].left ELSE Drv!Unknown
  BY <1>3
<1>5. adapter'.order \in [Ids -> -1..MaxVolume]
  BY <1>1, <1>2, <1>3, ConstantsTyped DEF Drv!Unknown
<1>6. adapter'.index \in SUBSET Active
  BY <1>1, <1>3 DEF ThreadsTyped, Adapters
<1>7. Live = taken
  BY <1>1, <1>2, <1>4 DEF Live, Drv!Seen, Drv!Unknown
<1>8. \A o \in Ids \ Active : adapter'.order[o] = Drv!Unknown
  BY <1>1, <1>4
<1>9. adapter' \in Adapters(Active)
  BY <1>3, <1>5, <1>6, <1>8 DEF Adapters
<1> QED
  BY <1>1, <1>4, <1>7, <1>9 DEF taken

LEMMA QueriedContext ==
  ASSUME TInv, QueryOrders
  PROVE  /\ ctx' \in Ctxs /\ Loads(ctx, ctx', Live, LoadInfo, seen, Held)
         /\ \A o \in Live : IsOrder(LoadInfo[o])
<1>1. Live \subseteq At("working") /\ Live \subseteq Ids /\ Held \in SUBSET Codes
  BY QueriedIs DEF TInv, Live, Held
<1>2. \A o \in Live : IsOrder(LoadInfo[o])
  <2> SUFFICES ASSUME NEW o \in Live PROVE IsOrder(LoadInfo[o])
    OBVIOUS
  <2>1. o \in Ids /\ exch[o].status = "working"
    BY <1>1 DEF At
  <2>2. asked[o] \in Asked /\ exch[o].left \in 0..MaxVolume
    BY <2>1, LeftIs, ConstantsTyped DEF TInv
  <2>3. LoadInfo[o] = OrderInfoBy(World, o, exch[o].left)
    BY <2>1 DEF LoadInfo, OrderInfo, OrderInfoBy, World
  <2>4. World.asked[o] \in Asked
    BY <2>2 DEF World
  <2> DEFINE n == exch[o].left
  <2> HIDE DEF n
  <2>5. IsOrder(OrderInfoBy(World, o, n))
    BY <2>2, <2>4, InfoIsOrder DEF n
  <2> QED
    BY <2>3, <2>5 DEF n
<1>3. ctx' = Loaded(ctx, Live, LoadInfo, seen, Held)
  BY DEF QueryOrders, Loaded, Live, LoadInfo, Held
<1>4. ctx \in Ctxs /\ seen \in Lots
  BY DEF TInv, ProcessTyped
<1> DEFINE live == Live
           info == LoadInfo
           held == Held
<1>5. live \in SUBSET Ids /\ held \in SUBSET Codes /\ \A o \in live : IsOrder(info[o])
  BY <1>1, <1>2
<1> HIDE DEF live, info, held
<1>6. /\ Loaded(ctx, live, info, seen, held) \in Ctxs
      /\ Loads(ctx, Loaded(ctx, live, info, seen, held), live, info, seen, held)
  BY <1>4, <1>5, LoadedIs
<1> QED
  BY <1>2, <1>3, <1>6 DEF live, info, held

LEMMA QueryOrdersTyped ==
  ASSUME TInv, QueryOrders
  PROVE  TInv'
<1>1. OrdersTyped' /\ NotOversold' /\ Active' = Active
  BY SameOrders DEF QueryOrders, TInv, exchangeVars, OrdersTyped
<1>2. ThreadsTyped'
  <2>1. adapter' \in Adapters(Active)
    BY QueriedIs DEF TInv
  <2> QED
    BY <1>1, <2>1 DEF QueryOrders, TInv, ThreadsTyped, MessagesOf, EventsOf, Adapters
<1>3. ctx' \in Ctxs /\ ctx'.listener = ctx.listener
  BY QueriedContext DEF Loads, SameEars
<1>4. ProcessTyped'
  BY <1>1, <1>3, HoldingTyped DEF QueryOrders, TInv, ProcessTyped
<1>5. GapsTyped'
  BY DEF QueryOrders, TInv, GapsTyped
<1> QED
  BY <1>1, <1>2, <1>4, <1>5 DEF TInv

-----------------------------------------------------------------------------
LEMMA InitTyped == Init => TInv
<1> SUFFICES ASSUME Init PROVE TInv
  OBVIOUS
<1>1. Active = {} /\ \A c, b, d, o : o \in Ids => Waits(c, b, d, o) = 0
  BY DEF Init, Active, Waits
<1>2. OrdersTyped
  BY <1>1, ConstantsTyped DEF Init, OrdersTyped, Statuses
<1>3. NotOversold
  <2>1. ASSUME NEW c \in Codes, NEW b \in Buckets, NEW d \in Dirs
        PROVE  SumFunctionOnSet([o \in Ids |-> Waits(c, b, d, o)], Ids) <= holding[c][b][d]
    <3> DEFINE f == [o \in Ids |-> Waits(c, b, d, o)]
    <3>1. \A o \in Ids : f[o] = 0
      BY <1>1
    <3> HIDE DEF f
    <3>2. SumFunctionOnSet(f, Ids) = 0
      BY <3>1, ConstantsTyped, SumZero
    <3>3. holding[c][b][d] \in Nat
      BY HoldingTyped DEF Init, Lots
    <3>4. 0 <= holding[c][b][d]
      BY <3>3
    <3> QED
      BY <3>2, <3>4 DEF f
  <2> QED
    BY <2>1, HoldingTyped DEF Init, NotOversold
<1>4. ThreadsTyped
  BY NoOrdersTyped, ConstantsTyped DEF Init, ThreadsTyped
<1>5. ProcessTyped
  BY EmptyTyped, HoldingTyped, NothingToldTyped DEF Init, ProcessTyped
<1> QED
  BY <1>2, <1>3, <1>4, <1>5 DEF Init, TInv, GapsTyped

LEMMA StutterTyped == TInv /\ UNCHANGED vars => TInv'
<1> SUFFICES ASSUME TInv, UNCHANGED vars PROVE TInv'
  OBVIOUS
<1>1. OrdersTyped' /\ NotOversold' /\ Active' = Active
  BY SameOrders DEF TInv, vars, exchangeVars, OrdersTyped
<1>2. ThreadsTyped' /\ ProcessTyped'
  BY <1>1, ThreadsStay, ProcessStays DEF TInv, vars, threadVars
<1> QED
  BY <1>1, <1>2 DEF TInv, GapsTyped, vars, histVars

LEMMA NextTyped == TInv /\ [Next]_vars => TInv'
<1> SUFFICES ASSUME TInv, Next PROVE TInv'
  BY StutterTyped
<1>1. ASSUME NEW o \in Ids,
             \/ Report(o) \/ Refuse(o) \/ AnswerCancel(o) \/ ForeignPlace(o)
             \/ Place(o) \/ Cancel(o) \/ CheckCondition(o)
      PROVE  TInv'
  BY <1>1, ReportTyped, RefuseTyped, AnswerCancelTyped, ForeignPlaceTyped, PlaceTyped,
     CancelTyped, CheckConditionTyped
<1>2. CASE Deliver \/ Fire \/ Handle
  BY <1>2, DeliverTyped, FireTyped, HandleTyped
<1>3. CASE Clock \/ Login \/ QueryPositions
  BY <1>3, QuietTyped
<1>4. CASE QueryOrders \/ Crash
  BY <1>4, QueryOrdersTyped, CrashTyped
<1> QED
  BY <1>1, <1>2, <1>3, <1>4 DEF Next

LEMMA SpecTyped == Spec => []TInv
BY InitTyped, NextTyped, PTL DEF Spec

LEMMA TypesFollow == TInv => TypeOK
<1> SUFFICES ASSUME TInv PROVE TypeOK
  OBVIOUS
<1>1. /\ adapter.order \in [Ids -> -1..MaxVolume] /\ adapter.index \subseteq Ids
      /\ cancels \subseteq Ids /\ mine \subseteq Ids
  BY ActiveIn DEF TInv, ThreadsTyped, ProcessTyped, OrdersTyped, Adapters
<1>2. ctx.order \in [Ids -> -1..MaxVolume]
  BY DEF TInv, ProcessTyped, Ctxs
<1>3. \A c \in Codes : \A d \in Dirs : ctx.position[c].pending[d] \in 0..Modulus - 1
  <2>1. \A x \in Ctxs : \A c \in Codes, d \in Dirs : x.position[c].pending[d] \in Wraps
    BY LotInt
  <2> QED
    BY <2>1 DEF TInv, ProcessTyped, Wraps
<1> QED
  BY <1>1, <1>2, <1>3 DEF TInv, TypeOK, OrdersTyped, Statuses, NotOversold, Lots, ThreadsTyped,
                          ProcessTyped, GapsTyped

\* The exchange, the driver, the queue and the context keep their types, whatever
\* is sent, lost with a process or loaded by the next; in particular the account
\* never sells lots it does not hold, however its orders and those of other
\* sessions are dealt.
THEOREM TypeCorrect == Spec => []TypeOK
BY SpecTyped, TypesFollow, PTL

-----------------------------------------------------------------------------
(* What a callback about one order does to what is known of the others *)

\* k fires events about order o alone, and changes nothing in a about others.
About(o, a, k) ==
  k.events \in Seq(EventsOf({o})) /\ \A q \in Ids \ {o} : k.adapter.order[q] = a.order[q]

LEMMA ReturnAbout ==
  ASSUME NEW S \in SUBSET Ids, NEW a \in Adapters(S), NEW o \in S,
         NEW m \in MessagesOf({o}), m.kind = "order", NEW p
  PROVE  About(o, a, Drv!Callback(p, a, m))
<1> DEFINE E == Seq(EventsOf({o}))
           kept(x) == x.events \in E /\ \A q \in Ids \ {o} : x.adapter.order[q] = a.order[q]
<1>1. m.id = o /\ m.left \in Nat /\ m.total \in Nat /\ (m.left < m.total => m.total - m.left \in Nat)
  BY ConstantsTyped DEF MessagesOf
<1>2. a \in [order : [Ids -> -1..MaxVolume], index : SUBSET S] /\ a.order[o] \in Int
  BY ConstantsTyped DEF Adapters
<1>3. Drv!CtpDeal(a, m) \in E /\ Drv!TapDeal(a, m) \in E
  BY <1>1, <1>2, DealAbout
<1>4. \A v \in Nat : Drv!Dealt(m, v) \in E /\ Drv!Placed(m) \in E /\ Drv!Over(m) \in E
  BY DealtTyped
<1>5. <<>> \in E /\ \A r, s \in E : r \o s \in E
  <2> DEFINE V == EventsOf({o})
  <2> HIDE DEF V
  <2>1. <<>> \in Seq(V) /\ \A r, s \in Seq(V) : r \o s \in Seq(V)
    OBVIOUS
  <2> QED
    BY <2>1 DEF V
<1>6. ASSUME NEW l, NEW i, NEW s \in E
      PROVE  /\ kept(Drv!Keeps([a EXCEPT !.order[o] = l], s))
             /\ kept(Drv!Keeps([order |-> [a.order EXCEPT ![o] = l], index |-> i], s))
             /\ kept(Drv!Keeps([a EXCEPT !.index = i], s))
             /\ kept(Drv!Keeps(a, s))
  BY <1>2 DEF Drv!Keeps
<1>7. Drv!CtpDeal(a, m) \o Drv!Over(m) \in E /\ Drv!TapDeal(a, m) \o Drv!Over(m) \in E
  BY <1>1, <1>3, <1>4, <1>5
<1>8. \A v \in Nat : Drv!Placed(m) \o Drv!Dealt(m, v) \in E /\ Drv!Placed(m) \o <<>> \in E
  BY <1>4, <1>5
<1>9. /\ Drv!Placed(m) \o (IF m.left < m.total THEN Drv!Dealt(m, m.left) ELSE <<>>) \in E
      /\ Drv!Placed(m) \o (IF m.left < m.total THEN Drv!Dealt(m, m.total - m.left) ELSE <<>>) \in E
  BY <1>1, <1>8
<1> HIDE DEF kept, E
<1>10. kept(Drv!CtpRtnOrder(a, m))
  <2>1. CASE Drv!IsOver(m) /\ Drv!Seen(a, m.id)
    BY <1>1, <1>6, <1>7, <2>1 DEF Drv!CtpRtnOrder
  <2>2. CASE Drv!IsOver(m) /\ ~Drv!Seen(a, m.id)
    BY <1>5, <1>6, <2>2 DEF Drv!CtpRtnOrder
  <2>3. CASE ~Drv!IsOver(m) /\ ~Drv!Seen(a, m.id)
    BY <1>1, <1>6, <1>9, <2>3 DEF Drv!CtpRtnOrder
  <2>4. CASE ~Drv!IsOver(m) /\ Drv!Seen(a, m.id)
    <3> DEFINE aged == IF a.order[o] > m.left THEN m.left ELSE a.order[o]
    <3>1. [a EXCEPT !.order[m.id] = IF @ > m.left THEN m.left ELSE @] = [a EXCEPT !.order[o] = aged]
      BY <1>1
    <3> HIDE DEF aged
    <3>2. Drv!CtpRtnOrder(a, m) = Drv!Keeps([a EXCEPT !.order[o] = aged], Drv!CtpDeal(a, m))
      BY <2>4, <3>1 DEF Drv!CtpRtnOrder
    <3> QED
      BY <1>3, <1>6, <3>2
  <2> QED
    BY <2>1, <2>2, <2>3, <2>4
<1>11. kept(Drv!TapRtnOrder(a, m))
  <2>1. CASE Drv!IsOver(m) /\ Drv!Seen(a, m.id)
    BY <1>1, <1>6, <1>7, <2>1 DEF Drv!TapRtnOrder
  <2>2. CASE Drv!IsOver(m) /\ ~Drv!Seen(a, m.id)
    <3>1. Drv!TapRtnOrder(a, m) = Drv!Keeps([a EXCEPT !.index = a.index \ {m.id}], <<>>)
      BY <2>2 DEF Drv!TapRtnOrder
    <3> QED
      BY <1>5, <1>6, <3>1
  <2>3. CASE ~Drv!IsOver(m) /\ ~Drv!Seen(a, m.id)
    BY <1>1, <1>6, <1>9, <2>3 DEF Drv!TapRtnOrder
  <2>4. CASE ~Drv!IsOver(m) /\ Drv!Seen(a, m.id)
    BY <1>1, <1>3, <1>6, <2>4 DEF Drv!TapRtnOrder
  <2> QED
    BY <2>1, <2>2, <2>3, <2>4
<1>12. kept(Drv!Callback(p, a, m))
  BY <1>10, <1>11 DEF Drv!Callback
<1> QED
  BY <1>12 DEF kept, E, About

LEMMA CallbackAbout ==
  ASSUME NEW S \in SUBSET Ids, NEW a \in Adapters(S), NEW o \in S,
         NEW m \in MessagesOf({o}), NEW p
  PROVE  About(o, a, Drv!Callback(p, a, m))
<1>1. m.id = o /\ m.kind \in {"order", "refused", "cancelrefused", "unheard"}
  BY DEF MessagesOf
<1>2. CASE m.kind = "order"
  BY <1>2, ReturnAbout
<1>3. CASE m.kind # "order"
  <2>1. Drv!PlaceRefused(o) \in EventsOf({o}) /\ Drv!CancelRefused(o) \in EventsOf({o})
    BY RefusedTyped
  <2>2. ASSUME NEW e \in EventsOf({o})
        PROVE  /\ <<>> \in Seq(EventsOf({o})) /\ <<e>> \in Seq(EventsOf({o}))
               /\ <<e, e>> \in Seq(EventsOf({o}))
    <3> DEFINE V == EventsOf({o})
    <3> HIDE DEF V
    <3>1. \A z \in V : <<>> \in Seq(V) /\ <<z>> \in Seq(V) /\ <<z, z>> \in Seq(V)
      OBVIOUS
    <3> QED
      BY <3>1 DEF V
  <2>3. ASSUME NEW s \in Seq(EventsOf({o}))
        PROVE  /\ About(o, a, Drv!Keeps([a EXCEPT !.order[o] = Drv!Unknown], s))
               /\ About(o, a, Drv!Keeps(a, s))
    <3>1. a \in [order : [Ids -> -1..MaxVolume], index : SUBSET S]
      BY DEF Adapters
    <3>2. \A q \in Ids \ {o} : [a EXCEPT !.order[o] = Drv!Unknown].order[q] = a.order[q]
      BY <3>1
    <3> HIDE DEF Adapters
    <3> QED
      BY <3>2 DEF Drv!Keeps, About
  <2>4. /\ About(o, a, Drv!CtpRefused(a, m)) /\ About(o, a, Drv!CtpCancelRefused(a, m))
        /\ About(o, a, Drv!TapError(a, m)) /\ About(o, a, Drv!TapErrorLogged(a))
    BY <1>1, <2>1, <2>2, <2>3 DEF Drv!CtpRefused, Drv!CtpCancelRefused,
       Drv!TapError, Drv!TapErrorLogged
  <2> QED
    BY <1>1, <1>3, <2>4 DEF Drv!Callback
<1> QED
  BY <1>2, <1>3

\* y is what the driver and its events become by what k made of a callback.
Adds(x, k, y) == y.adapter = k.adapter /\ y.events = x.events \o k.events

LEMMA DrivenByAdds ==
  ASSUME NEW w, NEW x, NEW m
  PROVE  Adds(x, Drv!Callback(w.api, x.adapter, m), DrivenBy(w, x, m))
BY DEF DrivenBy, Drv!Keeps, Adds

LEMMA AddsOther ==
  ASSUME NEW S \in SUBSET Ids, NEW x \in Kept(S), NEW q \in S, NEW k,
         About(q, x.adapter, k), NEW y, Adds(x, k, y), NEW o \in Ids, o # q
  PROVE  /\ y.adapter.order[o] = x.adapter.order[o]
         /\ \A t, u : Tells(o, x.events, t, u) => Tells(o, y.events, t, u)
         /\ o \in EndedIn(y.events) <=> o \in EndedIn(x.events)
<1>1. PICK r, s : r = x.events /\ s = k.events
  OBVIOUS
<1>2. r \in Seq(EventsOf(S)) /\ s \in Seq(EventsOf({q})) /\ y.events = r \o s
  BY <1>1 DEF Kept, About, Adds
<1>3. y.adapter.order[o] = x.adapter.order[o]
  BY DEF About, Adds
<1>4. s \in Seq(EventsOf(S))
  <2>1. EventsOf({q}) \subseteq EventsOf(S)
    BY DEF EventsOf
  <2> QED
    BY <1>2, <2>1, SeqGrows
<1>5. \A z : Read("listener", o, z, s) = z
  <2>1. PICK T : T = {q}
    OBVIOUS
  <2>2. o \notin T /\ s \in Seq(EventsOf(T))
    BY <1>2, <2>1
  <2> QED
    BY <2>2, TellsOthers
<1>6. \A z : Read("listener", o, z, r \o s) = Read("listener", o, Read("listener", o, z, r), s)
  BY <1>2, <1>4, ReadBoth
<1>7. \A t, u : Tells(o, r, t, u) => Tells(o, r \o s, t, u)
  BY <1>5, <1>6 DEF Tells
<1>8. EndedIn(r \o s) = EndedIn(r) \cup EndedIn(s)
  BY <1>2, <1>4, EndedInBoth
<1>9. EndedIn(s) \subseteq {q}
  <2>1. PICK T : T = {q}
    OBVIOUS
  <2>2. \A v, z \in Seq(EventsOf(T)) : EndedIn(z) \subseteq T
    BY EndedInBoth
  <2> QED
    BY <1>2, <2>1, <2>2
<1> QED
  BY <1>1, <1>2, <1>3, <1>7, <1>8, <1>9

LEMMA AddsOwn ==
  ASSUME NEW S \in SUBSET Ids, NEW x \in Kept(S), NEW o \in S, NEW k,
         About(o, x.adapter, k), NEW y, Adds(x, k, y)
  PROVE  /\ \A t, u, v : Tells(o, x.events, t, u) /\ Tells(o, k.events, u, v)
                        => Tells(o, y.events, t, v)
         /\ o \in EndedIn(y.events) <=> o \in EndedIn(x.events) \/ o \in EndedIn(k.events)
<1>1. PICK r, s : r = x.events /\ s = k.events
  OBVIOUS
<1>2. r \in Seq(EventsOf(S)) /\ s \in Seq(EventsOf({o})) /\ y.events = r \o s
  BY <1>1 DEF Kept, About, Adds
<1>3. s \in Seq(EventsOf(S))
  <2>1. EventsOf({o}) \subseteq EventsOf(S)
    BY DEF EventsOf
  <2> QED
    BY <1>2, <2>1, SeqGrows
<1>4. \A t, u, v : Tells(o, r, t, u) /\ Tells(o, s, u, v) => Tells(o, r \o s, t, v)
  BY <1>2, <1>3, TellsBoth
<1>5. EndedIn(r \o s) = EndedIn(r) \cup EndedIn(s)
  BY <1>2, <1>3, EndedInBoth
<1> QED
  BY <1>1, <1>2, <1>4, <1>5

-----------------------------------------------------------------------------
(* What the steps do to what the driver will have made of its callbacks *)

LEMMA DrivenTyped == TInv => Driven \in Kept(Active) /\ Flowing
<1> SUFFICES ASSUME TInv PROVE Driven \in Kept(Active) /\ Flowing
  OBVIOUS
<1> DEFINE b == Drv!Keeps(adapter, queue \o firing)
<1>1. /\ wire \in Seq(MessagesOf(Active)) /\ queue \in Seq(EventsOf(Active))
      /\ firing \in Seq(EventsOf(Active)) /\ adapter \in Adapters(Active)
  BY DEF TInv, ThreadsTyped
<1>2. queue \o firing \in Seq(EventsOf(Active))
  BY <1>1, ConcatTyped
<1>3. b \in Kept(Active)
  BY <1>1, <1>2 DEF Kept, Drv!Keeps
<1> HIDE DEF b
<1>4. \A w : Read("driver", w, b, wire) \in Kept(Active)
  BY <1>1, <1>3, ActiveIn, DriverTyped
<1>5. Driven \in Kept(Active)
  BY <1>4 DEF Driven, b
<1> QED
  BY <1>1, <1>5 DEF Kept, Flowing

LEMMA DrivenSame ==
  ASSUME TInv, UNCHANGED <<api, wire, adapter, queue, firing>> PROVE Driven' = Driven
<1>1. wire \in Seq(MessagesOf(Active))
  BY DEF TInv, ThreadsTyped
<1>2. \A x, e : Reads("driver", World', x, e) = Reads("driver", World, x, e)
  BY DEF Reads, DrivenBy, World
<1>3. \A b : Read("driver", World', b, wire) = Read("driver", World, b, wire)
  <2>1. ASSUME NEW v, NEW w, \A x, e : Reads("driver", v, x, e) = Reads("driver", w, x, e), NEW b
        PROVE  Read("driver", v, b, wire) = Read("driver", w, b, wire)
    BY <1>1, <2>1, ReadSame
  <2> QED
    BY <1>2, <2>1
<1> QED
  BY <1>3 DEF Driven

\* The exchange sends m.
LEMMA DrivenGrows ==
  ASSUME TInv, NEW m \in MessagesOf(Active), wire' = Append(wire, m),
         UNCHANGED <<api, asked, adapter, queue, firing>>
  PROVE  Adds(Driven, Drv!Callback(api, Driven.adapter, m), Driven')
<1>1. wire \in Seq(MessagesOf(Active))
  BY DEF TInv, ThreadsTyped
<1>2. \A w, b : Read("driver", w, b, Append(wire, m)) = Reads("driver", w, Read("driver", w, b, wire), m)
  BY <1>1, ReadMore
<1>3. Driven' = Reads("driver", World, Driven, m)
  BY <1>2 DEF Driven, World
<1>4. Driven' = DrivenBy(World, Driven, m) /\ World.api = api
  BY <1>3 DEF Reads, World
<1>5. Adds(Driven, Drv!Callback(World.api, Driven.adapter, m), DrivenBy(World, Driven, m))
  BY DrivenByAdds
<1> QED
  BY <1>4, <1>5

\* The API thread runs a callback.
LEMMA DrivenDelivers == ASSUME TInv, Deliver PROVE Driven' = Driven
<1>1. /\ wire # <<>> /\ firing = <<>> /\ wire' = Tail(wire)
      /\ adapter' = Drv!Callback(api, adapter, Head(wire)).adapter
      /\ firing' = Drv!Callback(api, adapter, Head(wire)).events
      /\ UNCHANGED <<api, asked, queue>>
  BY DEF Deliver, exchangeVars
<1>2. wire \in Seq(MessagesOf(Active)) /\ queue \in Seq(EventsOf(Active))
  BY DEF TInv, ThreadsTyped
<1>3. queue \o firing = queue
  BY <1>1, <1>2, ConcatNothing
<1>4. \A w, b : Read("driver", w, b, wire)
                  = Read("driver", w, Reads("driver", w, b, Head(wire)), Tail(wire))
  BY <1>1, <1>2, ReadFirst
<1>5. Reads("driver", World, Drv!Keeps(adapter, queue), Head(wire)) = Drv!Keeps(adapter', queue' \o firing')
  <2>1. Reads("driver", World, Drv!Keeps(adapter, queue), Head(wire))
          = DrivenBy(World, Drv!Keeps(adapter, queue), Head(wire))
    BY DEF Reads
  <2> QED
    BY <1>1, <2>1 DEF DrivenBy, World, Drv!Keeps
<1>6. World' = World
  BY <1>1 DEF World
<1> QED
  BY <1>1, <1>3, <1>4, <1>5, <1>6 DEF Driven

LEMMA ConcatHead ==
  ASSUME NEW S, NEW s \in Seq(S), NEW t \in Seq(S), t # <<>>
  PROVE  Append(s, Head(t)) \o Tail(t) = s \o t
OBVIOUS

LEMMA TailConcat ==
  ASSUME NEW S, NEW s \in Seq(S), NEW t \in Seq(S), s # <<>>
  PROVE  s \o t # <<>> /\ Head(s \o t) = Head(s) /\ Tail(s \o t) = Tail(s) \o t
OBVIOUS

\* It fires an event.
LEMMA DrivenFires == ASSUME TInv, Fire PROVE Driven' = Driven
<1>1. /\ firing # <<>> /\ queue' = Append(queue, Head(firing)) /\ firing' = Tail(firing)
      /\ UNCHANGED <<api, asked, wire, adapter>>
  BY DEF Fire, exchangeVars
<1>2. queue \in Seq(EventsOf(Active)) /\ firing \in Seq(EventsOf(Active))
  BY DEF TInv, ThreadsTyped
<1>3. queue' \o firing' = queue \o firing
  BY <1>1, <1>2, ConcatHead
<1>4. World' = World
  BY <1>1 DEF World
<1> QED
  BY <1>1, <1>3, <1>4 DEF Driven

\* The real-time thread takes an event.
LEMMA DrivenHandles ==
  ASSUME TInv, Handle
  PROVE  /\ Driven'.adapter = Driven.adapter
         /\ Driven.events # <<>> /\ Head(Driven.events) = Head(queue)
         /\ Driven'.events = Tail(Driven.events)
<1>1. /\ queue # <<>> /\ queue' = Tail(queue)
      /\ UNCHANGED <<api, asked, wire, adapter, firing>>
  BY DEF Handle, exchangeVars
<1>2. /\ wire \in Seq(MessagesOf(Active)) /\ queue \in Seq(EventsOf(Active))
      /\ firing \in Seq(EventsOf(Active)) /\ adapter \in Adapters(Active)
  BY DEF TInv, ThreadsTyped
<1>3. PICK y \in Kept(Active) :
        \A f \in Seq(EventsOf(Active)) :
          LET x == Read("driver", World, Drv!Keeps(adapter, f), wire)
          IN x.adapter = y.adapter /\ x.events = f \o y.events
  <2>1. ASSUME NEW w
        PROVE  \E y \in Kept(Active) :
                 \A f \in Seq(EventsOf(Active)) :
                   LET x == Read("driver", w, Drv!Keeps(adapter, f), wire)
                   IN x.adapter = y.adapter /\ x.events = f \o y.events
    <3> DEFINE y == Read("driver", w, Drv!Keeps(adapter, <<>>), wire)
    <3>1. \A f \in Seq(EventsOf(Active)) :
            LET x == Read("driver", w, Drv!Keeps(adapter, f), wire)
            IN x.adapter = y.adapter /\ x.events = f \o y.events /\ y \in Kept(Active)
      BY <1>2, ActiveIn, DriverSplit
    <3> HIDE DEF y
    <3> QED
      BY <1>2, <3>1
  <2> QED
    BY <2>1
<1>4. queue \o firing \in Seq(EventsOf(Active))
  BY <1>2, ConcatTyped
<1>5. /\ Tail(queue) \in Seq(EventsOf(Active)) /\ Tail(queue) \o firing \in Seq(EventsOf(Active))
      /\ queue \o firing # <<>> /\ Head(queue \o firing) = Head(queue)
      /\ Tail(queue \o firing) = Tail(queue) \o firing
  BY <1>1, <1>2, HeadTailIn, TailConcat, ConcatTyped
<1>6. World' = World
  BY <1>1 DEF World
<1>7. Driven.adapter = y.adapter /\ Driven.events = (queue \o firing) \o y.events
  BY <1>3, <1>4 DEF Driven
<1>8. Driven'.adapter = y.adapter /\ Driven'.events = (Tail(queue) \o firing) \o y.events
  BY <1>1, <1>3, <1>5, <1>6 DEF Driven
<1>9. y.events \in Seq(EventsOf(Active))
  BY DEF Kept
<1>10. /\ (queue \o firing) \o y.events # <<>>
       /\ Head((queue \o firing) \o y.events) = Head(queue \o firing)
       /\ Tail((queue \o firing) \o y.events) = Tail(queue \o firing) \o y.events
  BY <1>4, <1>5, <1>9, TailConcat, ZenonT(30)
<1> QED
  BY <1>5, <1>7, <1>8, <1>10

LEMMA EndedInFirst ==
  ASSUME NEW S, NEW s \in Seq(EventsOf(S)), s # <<>>
  PROVE  EndedIn(s) = (IF Head(s).type \in Ends THEN {Head(s).id} ELSE {}) \cup EndedIn(Tail(s))
<1>1. PICK e, t : e = Head(s) /\ t = Tail(s)
  OBVIOUS
<1>2. e \in EventsOf(S) /\ t \in Seq(EventsOf(S)) /\ s = <<e>> \o t
  <2>1. ASSUME NEW V, NEW r \in Seq(V), r # <<>>
        PROVE  Head(r) \in V /\ Tail(r) \in Seq(V) /\ r = <<Head(r)>> \o Tail(r) /\ <<Head(r)>> \in Seq(V)
    BY <2>1
  <2> QED
    BY <1>1, <2>1
<1>3. <<e>> \in Seq(EventsOf(S))
  <2>1. \A V : \A z \in V : <<z>> \in Seq(V)
    OBVIOUS
  <2> QED
    BY <1>2, <2>1
<1>4. EndedIn(<<e>> \o t) = EndedIn(<<e>>) \cup EndedIn(t)
  <2>1. PICK c : c = <<e>>
    OBVIOUS
  <2>2. c \in Seq(EventsOf(S)) /\ t \in Seq(EventsOf(S))
    BY <1>2, <1>3, <2>1
  <2>3. EndedIn(c \o t) = EndedIn(c) \cup EndedIn(t)
    BY <2>2, EndedInBoth
  <2> QED
    BY <2>1, <2>3
<1>5. EndedIn(<<e>>) = IF e.type \in Ends THEN {e.id} ELSE {}
  BY EndedInOne
<1> QED
  BY <1>1, <1>2, <1>4, <1>5

-----------------------------------------------------------------------------
(* An order of this process: what its listener was told and will be told is
   lawful, and comes out as the exchange has the order. *)

Owned(o, x, t, s, l) ==
  /\ x.adapter.order[o] = IF s = "working" THEN l ELSE Drv!Unknown
  /\ \E u : /\ Tells(o, x.events, t, u)
            /\ s = "sent" => u = [status |-> "placed", left |-> l]
            /\ s = "working" => u = Entrusted(l)
            /\ s \notin {"sent", "working"} => HeardOut(u)

LEMMA MessageFields ==
  ASSUME NEW S \in SUBSET Ids, NEW o \in S, NEW m \in MessagesOf({o})
  PROVE  /\ m \in MessagesOf(S) /\ m.id = o
         /\ m.kind = "order" => /\ m.left \in 0..MaxVolume /\ m.total \in 1..MaxVolume
                                /\ m.status \in {"working", "traded", "canceled"}
BY DEF MessagesOf

\* A return of an order that the driver has seen.
LEMMA WorkingReturned ==
  ASSUME NEW S \in SUBSET Ids, NEW x \in Kept(S), NEW o \in S, NEW p \in Drivers,
         NEW m \in MessagesOf({o}), m.kind = "order", m.status = "traded" <=> m.left = 0,
         NEW k, k = Drv!Callback(p, x.adapter, m), NEW y, Adds(x, k, y), NEW t,
         NEW l \in 1..MaxVolume, Owned(o, x, t, "working", l), m.left <= l
  PROVE  /\ Owned(o, y, t, m.status, m.left)
         /\ o \in EndedIn(y.events) <=> o \in EndedIn(x.events) \/ m.status # "working"
<1>1. /\ m \in MessagesOf(S) /\ m.id = o /\ m.left \in 0..MaxVolume /\ m.total \in 1..MaxVolume
      /\ m.status \in {"working", "traded", "canceled"} /\ l \in 0..MaxVolume
  BY MessageFields, ConstantsTyped
<1>2. x.adapter \in Adapters(S) /\ x.adapter.order[o] = l /\ Tells(o, x.events, t, Entrusted(l))
  BY DEF Kept, Owned
<1>3. /\ k.adapter.order = [x.adapter.order EXCEPT ![o] = IF Drv!IsOver(m) THEN Drv!Unknown ELSE m.left]
      /\ k.events = Notices(m, l)
  <2>1. PICK a : a = x.adapter
    OBVIOUS
  <2>2. a \in Adapters(S) /\ a.order[m.id] = l /\ k = Drv!Callback(p, a, m)
    BY <1>1, <1>2, <2>1
  <2>3. /\ k.adapter.order = [a.order EXCEPT ![m.id] = IF Drv!IsOver(m) THEN Drv!Unknown ELSE m.left]
        /\ k.events = Notices(m, l)
    BY <1>1, <2>2, ReturnSeen
  <2> QED
    BY <1>1, <2>1, <2>3
<1>4. About(o, x.adapter, k)
  BY <1>2, CallbackAbout
<1>5. PICK s, n : s = Notices(m, l) /\ n = m.left
  OBVIOUS
<1>6. /\ EndedIn(s) = IF Drv!IsOver(m) THEN {o} ELSE {}
      /\ \E u : (Drv!IsOver(m) => Deaf(u)) /\ Tells(o, s, Entrusted(l), u)
      /\ ~Drv!IsOver(m) => Tells(o, s, Entrusted(l), Entrusted(n))
  <2>1. PICK j : j = m.total
    OBVIOUS
  <2>2. j \in 1..MaxVolume /\ n \in 0..MaxVolume /\ n <= l /\ (m.status = "traded" <=> n = 0)
    BY <1>1, <1>5, <2>1
  <2>3. /\ EndedIn(Notices(m, l)) = IF Drv!IsOver(m) THEN {o} ELSE {}
        /\ \E u : (Drv!IsOver(m) => Deaf(u)) /\ Tells(o, Notices(m, l), Entrusted(l), u)
        /\ ~Drv!IsOver(m) => Tells(o, Notices(m, l), Entrusted(l), Entrusted(n))
    BY <1>1, <1>5, <2>1, <2>2, NoticesTold
  <2> QED
    BY <1>5, <2>3
<1>7. /\ \A u, v : Tells(o, x.events, t, u) /\ Tells(o, k.events, u, v) => Tells(o, y.events, t, v)
      /\ o \in EndedIn(y.events) <=> o \in EndedIn(x.events) \/ o \in EndedIn(k.events)
  BY <1>4, AddsOwn
<1>8. Drv!IsOver(m) <=> m.status # "working"
  BY <1>1 DEF Drv!IsOver
<1>9. y.adapter.order[o] = IF m.status = "working" THEN m.left ELSE Drv!Unknown
  <2>1. x.adapter.order \in [Ids -> -1..MaxVolume]
    BY <1>2 DEF Adapters
  <2>2. y.adapter = k.adapter
    BY DEF Adds
  <2> QED
    BY <1>3, <1>8, <2>1, <2>2
<1>10. \E u : /\ Tells(o, y.events, t, u) /\ (m.status = "working" => u = Entrusted(n))
              /\ m.status # "working" => HeardOut(u)
  <2>1. CASE m.status = "working"
    BY <1>2, <1>3, <1>5, <1>6, <1>7, <1>8, <2>1
  <2>2. CASE m.status # "working"
    BY <1>2, <1>3, <1>5, <1>6, <1>7, <1>8, <2>2 DEF HeardOut
  <2> QED
    BY <2>1, <2>2
<1>11. Owned(o, y, t, m.status, m.left)
  BY <1>1, <1>5, <1>9, <1>10 DEF Owned
<1> QED
  BY <1>3, <1>5, <1>6, <1>7, <1>8, <1>11

\* The first return of an order.
LEMMA SentReturned ==
  ASSUME NEW S \in SUBSET Ids, NEW x \in Kept(S), NEW o \in S, NEW p \in Drivers,
         NEW m \in MessagesOf({o}), m.kind = "order", m.status = "traded" <=> m.left = 0,
         NEW k, k = Drv!Callback(p, x.adapter, m), NEW y, Adds(x, k, y), NEW t,
         NEW l \in 1..MaxVolume, Owned(o, x, t, "sent", l), m.total = l, m.left <= l
  PROVE  /\ Owned(o, y, t, m.status, m.left)
         /\ o \in EndedIn(y.events) <=> o \in EndedIn(x.events)
<1>1. /\ m \in MessagesOf(S) /\ m.id = o /\ m.left \in 0..MaxVolume /\ m.total \in 1..MaxVolume
      /\ m.status \in {"working", "traded", "canceled"}
  BY MessageFields
<1>2. /\ x.adapter \in Adapters(S) /\ x.adapter.order[o] = Drv!Unknown
      /\ Tells(o, x.events, t, [status |-> "placed", left |-> m.total])
  BY DEF Kept, Owned
<1>3. /\ ~Drv!IsOver(m) => /\ k.adapter.order = [x.adapter.order EXCEPT ![o] = m.left]
                           /\ k.events = Entrusts(p, m)
      /\ Drv!IsOver(m) => k.adapter.order = x.adapter.order /\ k.events = <<>>
  <2>1. PICK a : a = x.adapter
    OBVIOUS
  <2>2. a \in Adapters(S) /\ a.order[m.id] = Drv!Unknown /\ k = Drv!Callback(p, a, m)
    BY <1>1, <1>2, <2>1
  <2>3. /\ ~Drv!IsOver(m) => /\ k.adapter.order = [a.order EXCEPT ![m.id] = m.left]
                             /\ k.events = Entrusts(p, m)
        /\ Drv!IsOver(m) => k.adapter.order = a.order /\ k.events = <<>>
    BY <1>1, <2>2, ReturnNew
  <2> QED
    BY <1>1, <2>1, <2>3
<1>4. About(o, x.adapter, k)
  BY <1>2, CallbackAbout
<1>5. PICK n, j : n = m.left /\ j = m.total
  OBVIOUS
<1>6. ~Drv!IsOver(m) => /\ EndedIn(Entrusts(p, m)) = {}
                        /\ Tells(o, Entrusts(p, m), [status |-> "placed", left |-> j], Entrusted(n))
  <2>1. ASSUME ~Drv!IsOver(m) PROVE n \in 1..j /\ j \in 1..MaxVolume
    BY <1>1, <1>5, <2>1, ConstantsTyped DEF Drv!IsOver
  <2> QED
    BY <1>1, <1>5, <2>1, EntrustsTold
<1>7. /\ \A u, v : Tells(o, x.events, t, u) /\ Tells(o, k.events, u, v) => Tells(o, y.events, t, v)
      /\ o \in EndedIn(y.events) <=> o \in EndedIn(x.events) \/ o \in EndedIn(k.events)
  BY <1>4, AddsOwn
<1>8. Drv!IsOver(m) <=> m.status # "working"
  BY <1>1 DEF Drv!IsOver
<1>9. y.adapter.order[o] = IF m.status = "working" THEN m.left ELSE Drv!Unknown
  <2>1. x.adapter.order \in [Ids -> -1..MaxVolume]
    BY <1>2 DEF Adapters
  <2>2. y.adapter = k.adapter
    BY DEF Adds
  <2> QED
    BY <1>2, <1>3, <1>8, <2>1, <2>2
<1>10. /\ \E u : /\ Tells(o, y.events, t, u) /\ (m.status = "working" => u = Entrusted(n))
                 /\ m.status # "working" => HeardOut(u)
       /\ o \notin EndedIn(k.events)
  <2>1. CASE m.status = "working"
    BY <1>2, <1>3, <1>5, <1>6, <1>7, <1>8, <2>1
  <2>2. CASE m.status # "working"
    <3>1. HeardOut([status |-> "placed", left |-> m.total])
      BY DEF HeardOut
    <3> QED
      BY <1>2, <1>3, <1>7, <1>8, <2>2, <3>1, TellsNothing, EndedInNothing
  <2> QED
    BY <2>1, <2>2
<1>11. Owned(o, y, t, m.status, m.left)
  BY <1>1, <1>5, <1>9, <1>10 DEF Owned
<1> QED
  BY <1>7, <1>10, <1>11

LEMMA SentRefused ==
  ASSUME NEW S \in SUBSET Ids, NEW x \in Kept(S), NEW o \in S, NEW p \in Drivers,
         NEW m \in MessagesOf({o}), m.kind = "refused",
         NEW k, k = Drv!Callback(p, x.adapter, m), NEW y, Adds(x, k, y), NEW t,
         NEW l \in 1..MaxVolume, Owned(o, x, t, "sent", l), NEW n
  PROVE  Owned(o, y, t, "refused", n) /\ o \in EndedIn(y.events)
<1>1. m \in MessagesOf(S) /\ m.id = o
  BY MessageFields
<1>2. /\ x.adapter \in Adapters(S) /\ x.adapter.order[o] = Drv!Unknown
      /\ Tells(o, x.events, t, [status |-> "placed", left |-> l])
  BY DEF Kept, Owned
<1>3. /\ k.adapter.order = x.adapter.order
      /\ k.events \in Refusals(o)
  <2>1. PICK a : a = x.adapter
    OBVIOUS
  <2>2. a \in Adapters(S) /\ a.order[m.id] = Drv!Unknown /\ k = Drv!Callback(p, a, m)
    BY <1>1, <1>2, <2>1
  <2>3. /\ k.adapter.order = a.order
        /\ k.events \in Refusals(m.id)
    BY <1>1, <2>2, RefusalOfNew
  <2> QED
    BY <1>1, <2>1, <2>3
<1>4. About(o, x.adapter, k)
  BY <1>2, CallbackAbout
<1>5. /\ EndedIn(k.events) = {o}
      /\ \E u : HeardOut(u) /\ Tells(o, k.events, [status |-> "placed", left |-> l], u)
  BY <1>3, RefusalTold DEF HeardOut
<1>6. /\ \A u, v : Tells(o, x.events, t, u) /\ Tells(o, k.events, u, v) => Tells(o, y.events, t, v)
      /\ o \in EndedIn(y.events) <=> o \in EndedIn(x.events) \/ o \in EndedIn(k.events)
  BY <1>4, AddsOwn
<1>7. y.adapter.order[o] = Drv!Unknown /\ \E u : HeardOut(u) /\ Tells(o, y.events, t, u)
  BY <1>2, <1>3, <1>5, <1>6 DEF Adds
<1> QED
  BY <1>5, <1>6, <1>7 DEF Owned

\* A refused cancel, but not one of a live order that TAP misreads.
Answers(p, m, s) ==
  m.kind = "unheard" \/ (m.kind = "cancelrefused" /\ (p = "ctp" \/ s \notin {"sent", "working"}))

LEMMA CancelRefused ==
  ASSUME NEW S \in SUBSET Ids, NEW x \in Kept(S), NEW o \in S, NEW p \in Drivers,
         NEW m \in MessagesOf({o}),
         NEW k, k = Drv!Callback(p, x.adapter, m), NEW y, Adds(x, k, y), NEW t, NEW s, NEW l,
         Answers(p, m, s), Owned(o, x, t, s, l)
  PROVE  /\ Owned(o, y, t, s, l) /\ (o \in EndedIn(x.events) => o \in EndedIn(y.events))
         /\ s \in {"sent", "working"} => (o \in EndedIn(y.events) <=> o \in EndedIn(x.events))
<1>1. m \in MessagesOf(S) /\ m.id = o /\ x.adapter \in Adapters(S)
  BY MessageFields DEF Kept
<1>2. About(o, x.adapter, k)
  BY <1>1, CallbackAbout
<1>3. /\ \A u, v : Tells(o, x.events, t, u) /\ Tells(o, k.events, u, v) => Tells(o, y.events, t, v)
      /\ o \in EndedIn(y.events) <=> o \in EndedIn(x.events) \/ o \in EndedIn(k.events)
  BY <1>2, AddsOwn
<1>4. PICK a : a = x.adapter
  OBVIOUS
<1>5. CASE m.kind = "unheard" \/ (m.kind = "cancelrefused" /\ p = "ctp")
  <2>1. k.adapter = x.adapter /\ k.events \in CancelRefusals(o)
    <3>1. k.adapter = a /\ k.events \in CancelRefusals(m.id)
      BY <1>4, <1>5, CancelRefusal
    <3> QED
      BY <1>1, <1>4, <3>1
  <2>2. EndedIn(k.events) = {} /\ \A v : Tells(o, k.events, v, v)
    BY <2>1, CancelRefusalTold
  <2>3. y.adapter = x.adapter /\ \A u : Tells(o, x.events, t, u) => Tells(o, y.events, t, u)
    BY <1>3, <2>1, <2>2 DEF Adds
  <2> QED
    BY <1>3, <2>2, <2>3 DEF Owned
<1>6. CASE m.kind = "cancelrefused" /\ p = "tap" /\ s \notin {"sent", "working"}
  <2>1. k.adapter = x.adapter /\ k.events = <<Drv!PlaceRefused(o)>>
    <3>1. k.adapter = a /\ k.events = <<Drv!PlaceRefused(m.id)>>
      BY <1>4, <1>6, CancelMisread
    <3> QED
      BY <1>1, <1>4, <3>1
  <2>2. PICK u : Tells(o, x.events, t, u) /\ HeardOut(u)
    BY <1>6 DEF Owned
  <2>3. \E v : Deaf(v) /\ Tells(o, k.events, u, v)
    <3>1. \A v : HeardOut(v) => \E z : Deaf(z) /\ Tells(o, <<Drv!PlaceRefused(o)>>, v, z)
      BY CancelMistold
    <3> QED
      BY <2>1, <2>2, <3>1
  <2>4. \E v : HeardOut(v) /\ Tells(o, y.events, t, v)
    BY <1>3, <2>2, <2>3 DEF HeardOut
  <2>5. y.adapter = x.adapter
    BY <2>1 DEF Adds
  <2>6. Owned(o, y, t, s, l)
    BY <1>6, <2>4, <2>5 DEF Owned
  <2> QED
    BY <1>3, <1>6, <2>6
<1> QED
  BY <1>5, <1>6 DEF Answers, Drivers

-----------------------------------------------------------------------------
(* The orders of this process, as its listeners will have heard of them, but    *)
(* those of which TAP's driver misread an error                                *)

OwnInv ==
  \A o \in mine \ misread : Owned(o, Driven, told[o], exch[o].status, exch[o].left)

\* Order o still has a listener once everything has been heard.
Listened(o) == o \in ctx.listener /\ o \notin EndedIn(Driven.events)

HearInv ==
  "merged" \notin gaps =>
    \A o \in mine \ misread : Listened(o) <=> exch[o].status \in {"sent", "working"}

\* A listener is there until it is told of an end, misread or not.
ListenInv == \A o \in Ids : o \in ctx.listener <=> ~Deaf(told[o])

LInv == TInv /\ OwnInv /\ HearInv /\ ListenInv

\* Nothing is sent, or one message about order o.
Sends(m) ==
  /\ UNCHANGED <<api, asked, adapter, queue, firing, processVars>>
  /\ wire' = Append(wire, m)

LEMMA OthersHear ==
  ASSUME LInv, NEW o \in Active, NEW m \in MessagesOf({o}), Sends(m),
         NEW p \in mine \ misread, p # o, exch'[p] = exch[p]
  PROVE  /\ Owned(p, Driven', told'[p], exch'[p].status, exch'[p].left)
         /\ Listened(p)' <=> Listened(p)
<1>1. PICK x, y, k : x = Driven /\ y = Driven' /\ k = Drv!Callback(api, x.adapter, m)
  OBVIOUS
<1>2. x \in Kept(Active) /\ Adds(x, k, y)
  <2>1. m \in MessagesOf(Active)
    BY ActiveIn, MessageFields
  <2> QED
    BY <1>1, <2>1, DrivenTyped, DrivenGrows DEF LInv, Sends
<1>3. x.adapter \in Adapters(Active) /\ p \in Ids
  BY <1>2, ActiveIn DEF Kept, LInv, TInv, ProcessTyped
<1>4. About(o, x.adapter, k)
  BY <1>1, <1>3, ActiveIn, CallbackAbout
<1>5. /\ y.adapter.order[p] = x.adapter.order[p]
      /\ \A t, u : Tells(p, x.events, t, u) => Tells(p, y.events, t, u)
      /\ p \in EndedIn(y.events) <=> p \in EndedIn(x.events)
  <2>1. PICK S : S = Active
    OBVIOUS
  <2>2. S \in SUBSET Ids /\ x \in Kept(S) /\ o \in S
    BY <1>2, <2>1, ActiveIn
  <2> QED
    BY <1>2, <1>3, <1>4, <2>2, AddsOther
<1>6. Owned(p, x, told[p], exch[p].status, exch[p].left)
  BY <1>1 DEF LInv, OwnInv
<1>7. \A t, s, l : Owned(p, x, t, s, l) => Owned(p, y, t, s, l)
  BY <1>5 DEF Owned
<1>8. told'[p] = told[p] /\ ctx' = ctx
  BY DEF Sends, processVars
<1> QED
  BY <1>1, <1>5, <1>6, <1>7, <1>8 DEF Listened

\* What is to be shown of each order of a process that goes on.
Goes(p) ==
  /\ Owned(p, Driven', told'[p], exch'[p].status, exch'[p].left)
  /\ "merged" \notin gaps' =>
       (Listened(p)' <=> exch'[p].status \in {"sent", "working"})

LEMMA GoesOnInv ==
  ASSUME LInv, \A p \in mine' \ misread' : Goes(p)
  PROVE  OwnInv' /\ HearInv'
BY DEF OwnInv, HearInv, Goes

LEMMA OthersGo ==
  ASSUME LInv, gaps \subseteq gaps', NEW p \in mine \ misread, exch'[p] = exch[p],
         Owned(p, Driven', told'[p], exch'[p].status, exch'[p].left),
         Listened(p)' <=> Listened(p)
  PROVE  Goes(p)
BY DEF LInv, HearInv, Goes

\* The exchange sends one message about order o.
LEMMA SentGo ==
  ASSUME LInv, NEW o \in Active, NEW m \in MessagesOf({o}), Sends(m), gaps \subseteq gaps',
         misread \subseteq misread',
         \A q \in Ids \ {o} : exch'[q] = exch[q],
         o \in mine \ misread' => Goes(o)
  PROVE  OwnInv' /\ HearInv'
<1>1. mine' = mine /\ mine \subseteq Ids
  BY ActiveIn DEF Sends, processVars, LInv, TInv, ProcessTyped
<1>2. ASSUME NEW p \in mine \ misread', p # o PROVE Goes(p)
  <2>1. exch'[p] = exch[p] /\ p \in mine \ misread
    BY <1>1, <1>2
  <2> QED
    BY <1>2, <2>1, OthersHear, OthersGo
<1> QED
  BY <1>1, <1>2, GoesOnInv

\* A session that is not up has no orders.
LEMMA NoneGo == ASSUME mine' = {} PROVE OwnInv' /\ HearInv'
BY DEF OwnInv, HearInv

\* The steps that change nothing the driver will read, nor the process's orders,
\* nor who listens.
LEMMA StillGo ==
  ASSUME LInv, Driven' = Driven, UNCHANGED <<told, mine>>, ctx'.listener = ctx.listener,
         \A p \in mine : exch'[p] = exch[p], gaps \subseteq gaps', misread \subseteq misread'
  PROVE  OwnInv' /\ HearInv'
<1>1. ASSUME NEW p \in mine \ misread' PROVE Goes(p)
  <2>1. PICK x : x = Driven /\ x = Driven'
    OBVIOUS
  <2>0. p \in mine \ misread /\ p \in mine
    BY <1>1
  <2>2. Owned(p, x, told[p], exch[p].status, exch[p].left)
    BY <2>0, <2>1 DEF LInv, OwnInv
  <2>3. Owned(p, Driven', told'[p], exch'[p].status, exch'[p].left)
    BY <2>0, <2>1, <2>2
  <2>4. Listened(p)' <=> Listened(p)
    BY <2>1 DEF Listened
  <2> QED
    BY <2>0, <2>3, <2>4, OthersGo
<1> QED
  BY <1>1, GoesOnInv

\* An order of this process is at the exchange only while the process runs.
LEMMA OwnRuns == ASSUME TInv, NEW o \in mine PROVE session = "running" /\ o \in Active /\ o \in Ids
BY ActiveIn DEF TInv, ProcessTyped

LEMMA OwnedEnded ==
  ASSUME NEW o, NEW x, NEW t, NEW s, NEW l, NEW n, Owned(o, x, t, s, l), s \notin {"sent", "working"}
  PROVE  Owned(o, x, t, s, n)
BY DEF Owned

\* k is what the driver, now and with m at the end x and y, makes of the message
\* m about order o.
Hands(o, m, x, y, k) ==
  /\ x \in Kept(Active)
  /\ x = Driven /\ y = Driven' /\ k = Drv!Callback(api, x.adapter, m) /\ Adds(x, k, y)
  /\ api \in Drivers /\ Active \in SUBSET Ids /\ o \in Active
  /\ Owned(o, x, told[o], exch[o].status, exch[o].left)
  /\ told' = told
  /\ "merged" \notin gaps =>
       (o \in ctx.listener /\ o \notin EndedIn(x.events) <=> exch[o].status \in {"sent", "working"})
  /\ Listened(o)' <=> o \in ctx.listener /\ o \notin EndedIn(y.events)

\* What the driver makes of a message the exchange sends about an order of this
\* process.
LEMMA OwnSent ==
  ASSUME LInv, NEW o \in mine \ misread, NEW m \in MessagesOf({o}), Sends(m)
  PROVE  \E x, y, k : Hands(o, m, x, y, k)
<1>1. PICK x, y, k : x = Driven /\ y = Driven' /\ k = Drv!Callback(api, x.adapter, m)
  OBVIOUS
<1>2. o \in Active /\ Active \in SUBSET Ids
  BY ActiveIn, OwnRuns DEF LInv
<1>3. x \in Kept(Active) /\ Adds(x, k, y)
  <2>1. m \in MessagesOf(Active)
    BY <1>2, MessageFields
  <2> QED
    BY <1>1, <2>1, DrivenTyped, DrivenGrows DEF LInv, Sends
<1>4. api \in Drivers
  BY ConstantsTyped DEF Drivers, LInv, TInv, OrdersTyped
<1>5. Owned(o, x, told[o], exch[o].status, exch[o].left)
  BY <1>1 DEF LInv, OwnInv
<1>6. told' = told /\ ctx' = ctx
  BY DEF Sends, processVars
<1>7. "merged" \notin gaps =>
        (o \in ctx.listener /\ o \notin EndedIn(x.events) <=> exch[o].status \in {"sent", "working"})
  BY <1>1 DEF LInv, HearInv, Listened
<1>8. Listened(o)' <=> o \in ctx.listener /\ o \notin EndedIn(y.events)
  BY <1>1, <1>6 DEF Listened
<1> QED
  BY <1>1, <1>2, <1>3, <1>4, <1>5, <1>6, <1>7, <1>8 DEF Hands

LEMMA WorkingGoes ==
  ASSUME LInv, NEW o \in mine \ misread, exch[o].status = "working", gaps \subseteq gaps',
         NEW m \in MessagesOf({o}), m.kind = "order", m.status = "traded" <=> m.left = 0,
         m.left <= exch[o].left, Sends(m),
         exch'[o].status = m.status, m.status = "working" => exch'[o].left = m.left
  PROVE  Goes(o)
<1>0. PICK x, y, k : Hands(o, m, x, y, k)
  BY OwnSent
<1>1. /\ x \in Kept(Active)
      /\ x = Driven /\ y = Driven' /\ k = Drv!Callback(api, x.adapter, m) /\ Adds(x, k, y)
      /\ api \in Drivers /\ Active \in SUBSET Ids /\ o \in Active
      /\ Owned(o, x, told[o], exch[o].status, exch[o].left)
      /\ told' = told
      /\ "merged" \notin gaps =>
           (o \in ctx.listener /\ o \notin EndedIn(x.events) <=> exch[o].status \in {"sent", "working"})
      /\ Listened(o)' <=> o \in ctx.listener /\ o \notin EndedIn(y.events)
  BY <1>0 DEF Hands
<1>2. PICK l, t : l = exch[o].left /\ t = told[o]
  OBVIOUS
<1>3. l \in 1..MaxVolume /\ m.left <= l /\ Owned(o, x, t, "working", l) /\ o \in Ids
  BY <1>1, <1>2, LeftIs DEF LInv, TInv
<1>4. /\ Owned(o, y, t, m.status, m.left)
      /\ o \in EndedIn(y.events) <=> o \in EndedIn(x.events) \/ m.status # "working"
  <2>1. PICK p : p = api
    OBVIOUS
  <2>2. /\ p \in Drivers /\ Active \in SUBSET Ids /\ o \in Active /\ x \in Kept(Active)
        /\ k = Drv!Callback(p, x.adapter, m) /\ Adds(x, k, y)
    BY <1>1, <2>1
  <2>3. m.kind = "order" /\ (m.status = "traded" <=> m.left = 0)
    OBVIOUS
  <2> QED
    BY <1>3, <2>2, <2>3, WorkingReturned
<1>5. m.status \in {"working", "traded", "canceled"}
  BY <1>1, MessageFields
<1>6. Owned(o, y, t, exch'[o].status, exch'[o].left)
  <2>1. CASE m.status = "working"
    BY <1>4, <2>1
  <2>2. CASE m.status # "working"
    <3>1. \A n : Owned(o, y, t, m.status, n)
      BY <1>4, <1>5, <2>2, OwnedEnded
    <3> QED
      BY <3>1
  <2> QED
    BY <2>1, <2>2
<1> QED
  BY <1>1, <1>2, <1>4, <1>5, <1>6 DEF Goes

LEMMA SentGoes ==
  ASSUME LInv, NEW o \in mine \ misread, exch[o].status = "sent", gaps \subseteq gaps',
         NEW m \in MessagesOf({o}), m.kind = "order", m.status = "traded" <=> m.left = 0,
         m.total = exch[o].left, m.left <= m.total, Sends(m),
         m.status # "working" => "merged" \in gaps',
         exch'[o].status = m.status, m.status = "working" => exch'[o].left = m.left
  PROVE  Goes(o)
<1>0. PICK x, y, k : Hands(o, m, x, y, k)
  BY OwnSent
<1>1. /\ x \in Kept(Active)
      /\ x = Driven /\ y = Driven' /\ k = Drv!Callback(api, x.adapter, m) /\ Adds(x, k, y)
      /\ api \in Drivers /\ Active \in SUBSET Ids /\ o \in Active
      /\ Owned(o, x, told[o], exch[o].status, exch[o].left)
      /\ told' = told
      /\ "merged" \notin gaps =>
           (o \in ctx.listener /\ o \notin EndedIn(x.events) <=> exch[o].status \in {"sent", "working"})
      /\ Listened(o)' <=> o \in ctx.listener /\ o \notin EndedIn(y.events)
  BY <1>0 DEF Hands
<1>2. PICK l, t : l = exch[o].left /\ t = told[o]
  OBVIOUS
<1>3. l \in 1..MaxVolume /\ Owned(o, x, t, "sent", l) /\ m.total = l /\ m.left <= l
  BY <1>1, <1>2, MessageFields
<1>4. Owned(o, y, t, m.status, m.left) /\ (o \in EndedIn(y.events) <=> o \in EndedIn(x.events))
  <2>1. PICK p : p = api
    OBVIOUS
  <2>2. /\ p \in Drivers /\ Active \in SUBSET Ids /\ o \in Active /\ x \in Kept(Active)
        /\ k = Drv!Callback(p, x.adapter, m) /\ Adds(x, k, y)
    BY <1>1, <2>1
  <2>3. m.kind = "order" /\ (m.status = "traded" <=> m.left = 0)
    OBVIOUS
  <2> QED
    BY <1>3, <2>2, <2>3, SentReturned
<1>5. m.status \in {"working", "traded", "canceled"}
  BY <1>1, MessageFields
<1>6. Owned(o, y, t, exch'[o].status, exch'[o].left)
  <2>1. CASE m.status = "working"
    BY <1>4, <2>1
  <2>2. CASE m.status # "working"
    <3>1. \A n : Owned(o, y, t, m.status, n)
      BY <1>4, <1>5, <2>2, OwnedEnded
    <3> QED
      BY <3>1
  <2> QED
    BY <2>1, <2>2
<1> QED
  BY <1>1, <1>2, <1>4, <1>5, <1>6 DEF Goes

LEMMA ReturnFields ==
  ASSUME NEW o, NEW s, NEW n
  PROVE  LET m == Return(o, s, n)
         IN /\ m.kind = "order" /\ m.id = o /\ m.status = s /\ m.left = n
            /\ m.total = asked[o].total
BY DEF Return

LEMMA ReportGoes ==
  ASSUME LInv, NEW o \in Ids, Report(o) PROVE OwnInv' /\ HearInv'
<1>1. PICK s, n : Reports(o, s, n)
  BY ReportIs
<1>2. /\ OrdersTyped' /\ Active' = Active /\ n \in 0..MaxVolume /\ n \in Nat
      /\ exch'[o] = [status |-> s, left |-> IF s = "canceled" THEN 0 ELSE n]
      /\ \A p \in Ids \ {o} : exch'[p] = exch[p]
  BY <1>1, ReportedOrders DEF LInv, TInv
<1>3. /\ exch[o].status \in {"sent", "working"} /\ s \in {"working", "traded", "canceled"}
      /\ s = "traded" <=> n = 0
      /\ n \in 0..exch[o].left /\ Send(Return(o, s, n))
      /\ UNCHANGED <<api, asked, adapter, queue, firing, processVars>> /\ gaps \subseteq gaps' /\ misread' = misread
      /\ exch[o].status = "sent" /\ session # "down" /\ s # "working" => "merged" \in gaps'
  BY <1>1 DEF Reports
<1>4. /\ o \in Active /\ asked[o].total \in 1..MaxVolume /\ exch[o].left \in Nat
      /\ exch[o].status = "sent" => exch[o].left = asked[o].total
  BY <1>3, LeftIs DEF LInv, TInv, OrdersTyped
<1>5. CASE session = "down"
  BY <1>3, <1>5, NoneGo DEF LInv, TInv, ProcessTyped, processVars
<1>6. CASE session # "down"
  <2>1. PICK m : m = Return(o, s, n)
    OBVIOUS
  <2>2. m.kind = "order" /\ m.status = s /\ m.left = n /\ m.total = asked[o].total
    BY <2>1, ReturnFields
  <2>3. m \in MessagesOf({o})
    BY <1>2, <1>3, <1>4, <2>1, ReturnIn DEF LInv, TInv
  <2>4. Sends(m)
    BY <1>3, <1>6, <2>1 DEF Send, Sends
  <2>5. /\ exch'[o].status = m.status /\ (m.status = "working" => exch'[o].left = m.left)
        /\ m.left <= exch[o].left
    BY <1>2, <1>3, <1>4, <2>2
  <2>6. ASSUME o \in mine \ misread PROVE Goes(o)
    <3>1. CASE exch[o].status = "working"
      BY <1>3, <2>2, <2>3, <2>4, <2>5, <2>6, <3>1, WorkingGoes
    <3>2. CASE exch[o].status = "sent"
      <4>1. m.total = exch[o].left /\ m.left <= m.total
        BY <1>4, <2>2, <2>5, <3>2
      <4> QED
        BY <1>3, <1>6, <2>2, <2>3, <2>4, <2>5, <2>6, <3>2, <4>1, SentGoes
    <3> QED
      BY <1>3, <3>1, <3>2
  <2> QED
    BY <1>2, <1>3, <1>4, <2>3, <2>4, <2>6, SentGo
<1> QED
  BY <1>5, <1>6

LEMMA RefuseGoes ==
  ASSUME LInv, NEW o \in Ids, Refuse(o) PROVE OwnInv' /\ HearInv'
<1>1. /\ exch[o].status = "sent" /\ exch' = [exch EXCEPT ![o] = [status |-> "refused", left |-> 0]]
      /\ UNCHANGED <<api, asked, holding, cancels, adapter, queue, firing, processVars, gaps>>
      /\ misread \subseteq misread'
      /\ \/ o \in mine /\ Send([kind |-> "refused", id |-> o])
         \/ o \in mine /\ o \in misread' /\ Send([kind |-> "unheard", id |-> o])
         \/ o \notin mine /\ wire' = wire
  BY DEF Refuse, Misread
<1>2. exch'[o] = [status |-> "refused", left |-> 0] /\ \A p \in Ids \ {o} : exch'[p] = exch[p]
  BY <1>1, EndedOrders DEF LInv, TInv
<1>3. o \in Active /\ exch[o].left \in 1..MaxVolume
  BY <1>1, LeftIs DEF LInv, TInv
<1>4. mine \subseteq Ids
  BY ActiveIn DEF LInv, TInv, ProcessTyped
<1>5. CASE o \notin mine /\ wire' = wire
  <2>1. Driven' = Driven
    BY <1>1, <1>5, DrivenSame DEF LInv
  <2>2. \A p \in mine : exch'[p] = exch[p]
    BY <1>2, <1>4, <1>5
  <2>3. ctx' = ctx /\ UNCHANGED <<told, mine>> /\ gaps \subseteq gaps'
    BY <1>1 DEF processVars
  <2> QED
    BY <1>1, <2>1, <2>2, <2>3, StillGo
<1>6. CASE o \in mine /\ Send([kind |-> "refused", id |-> o])
  <2>1. PICK m : m = [kind |-> "refused", id |-> o]
    OBVIOUS
  <2>2. m \in MessagesOf({o}) /\ m.kind = "refused"
    BY <2>1, RefusedIn
  <2>3. Sends(m)
    BY <1>1, <1>6, <2>1, OwnRuns DEF Send, Sends, LInv
  <2>4. ASSUME o \in mine \ misread' PROVE Goes(o)
    <3>1. PICK x, y, k : Hands(o, m, x, y, k)
      BY <1>1, <2>2, <2>3, <2>4, OwnSent
    <3>2. PICK p, l, t : p = api /\ l = exch[o].left /\ t = told[o]
      OBVIOUS
    <3>3. /\ p \in Drivers /\ Active \in SUBSET Ids /\ x \in Kept(Active)
          /\ k = Drv!Callback(p, x.adapter, m) /\ Adds(x, k, y)
          /\ l \in 1..MaxVolume /\ Owned(o, x, t, "sent", l)
      BY <1>1, <1>3, <3>1, <3>2 DEF Hands
    <3>4. Owned(o, y, t, "refused", 0) /\ o \in EndedIn(y.events)
      BY <1>3, <2>2, <3>3, SentRefused
    <3>5. Owned(o, Driven', told'[o], exch'[o].status, exch'[o].left) /\ ~Listened(o)'
      BY <1>2, <3>1, <3>2, <3>4 DEF Hands
    <3> QED
      BY <1>2, <3>5 DEF Goes
  <2> QED
    BY <1>1, <1>2, <1>3, <2>2, <2>3, <2>4, SentGo
<1>7. CASE o \in mine /\ o \in misread' /\ Send([kind |-> "unheard", id |-> o])
  <2>1. PICK m : m = [kind |-> "unheard", id |-> o]
    OBVIOUS
  <2>2. m \in MessagesOf({o})
    BY <2>1, RefusedIn
  <2>3. Sends(m)
    BY <1>1, <1>7, <2>1, OwnRuns DEF Send, Sends, LInv
  <2> QED
    BY <1>1, <1>2, <1>3, <1>7, <2>2, <2>3, SentGo
<1> QED
  BY <1>1, <1>5, <1>6, <1>7

LEMMA AnswerCancelGoes ==
  ASSUME LInv, NEW o \in Ids, AnswerCancel(o) PROVE OwnInv' /\ HearInv'
<1>1. /\ o \in cancels
      /\ UNCHANGED <<api, asked, holding, adapter, queue, firing, processVars, gaps>>
      /\ cancels' = cancels \ {o} /\ misread \subseteq misread'
      /\ \/ /\ exch[o].status = "working"
            /\ exch' = [exch EXCEPT ![o] = [status |-> "canceled", left |-> 0]]
            /\ Send(Return(o, "canceled", exch[o].left))
         \/ /\ Send([kind |-> "cancelrefused", id |-> o]) /\ exch' = exch
            /\ api = "tap" /\ session # "down" /\ exch[o].status \in {"sent", "working"}
                 => o \in misread'
         \/ Send([kind |-> "unheard", id |-> o]) /\ exch' = exch
  BY DEF AnswerCancel, Misread
<1>2. o \in Active /\ mine \subseteq Ids
  BY <1>1, ActiveIn DEF LInv, TInv, ProcessTyped, OrdersTyped
<1>3. CASE session = "down"
  BY <1>1, <1>3, NoneGo DEF LInv, TInv, ProcessTyped, processVars
<1>4. CASE /\ session # "down" /\ exch' = exch
           /\ \/ Send([kind |-> "cancelrefused", id |-> o])
              \/ Send([kind |-> "unheard", id |-> o])
  <2>0. api \in Drivers
    BY ConstantsTyped DEF Drivers, LInv, TInv, OrdersTyped
  <2>1. PICK m : /\ \/ m = [kind |-> "cancelrefused", id |-> o]
                    \/ m = [kind |-> "unheard", id |-> o]
                 /\ Send(m)
                 /\ m.kind = "cancelrefused" /\ api = "tap" /\ exch[o].status \in {"sent", "working"}
                      => o \in misread'
    <3>1. CASE Send([kind |-> "unheard", id |-> o])
      BY <3>1
    <3>2. CASE /\ Send([kind |-> "cancelrefused", id |-> o])
               /\ api = "tap" /\ session # "down" /\ exch[o].status \in {"sent", "working"}
                    => o \in misread'
      BY <1>4, <3>2
    <3>3. CASE /\ exch[o].status = "working"
               /\ exch' = [exch EXCEPT ![o] = [status |-> "canceled", left |-> 0]]
      <4>1. exch'[o].status = "canceled"
        BY <3>3 DEF LInv, TInv, OrdersTyped
      <4> QED
        BY <1>4, <3>3, <4>1
    <3> QED
      BY <1>1, <3>1, <3>2, <3>3
  <2>2. m \in MessagesOf({o}) /\ m.kind \in {"cancelrefused", "unheard"}
    <3>1. \A q \in {"cancelrefused", "unheard"} : [kind |-> q, id |-> o] \in MessagesOf({o})
      BY RefusedIn
    <3> QED
      BY <2>1, <3>1
  <2>3. Sends(m)
    BY <1>1, <1>4, <2>1 DEF Send, Sends
  <2>4. ASSUME o \in mine \ misread' PROVE Goes(o)
    <3>1. PICK x, y, k : Hands(o, m, x, y, k)
      BY <1>1, <2>2, <2>3, <2>4, OwnSent
    <3>2. PICK p, l, s, t : p = api /\ s = exch[o].status /\ l = exch[o].left /\ t = told[o]
      OBVIOUS
    <3>3. /\ p \in Drivers /\ Active \in SUBSET Ids /\ x \in Kept(Active)
          /\ k = Drv!Callback(p, x.adapter, m) /\ Adds(x, k, y)
          /\ Owned(o, x, t, s, l)
      BY <3>1, <3>2 DEF Hands
    <3>4. Answers(p, m, s)
      BY <2>0, <2>1, <2>2, <2>4, <3>2 DEF Answers, Drivers
    <3>5. /\ Owned(o, y, t, s, l) /\ (o \in EndedIn(x.events) => o \in EndedIn(y.events))
          /\ s \in {"sent", "working"} => (o \in EndedIn(y.events) <=> o \in EndedIn(x.events))
      BY <1>2, <2>2, <3>3, <3>4, CancelRefused
    <3> QED
      BY <1>1, <1>4, <3>1, <3>2, <3>5 DEF Hands, Goes
  <2> QED
    BY <1>1, <1>2, <1>4, <2>2, <2>3, <2>4, SentGo
<1>5. CASE /\ session # "down" /\ exch[o].status = "working"
           /\ exch' = [exch EXCEPT ![o] = [status |-> "canceled", left |-> 0]]
           /\ Send(Return(o, "canceled", exch[o].left))
  <2>1. PICK m, l : m = Return(o, "canceled", l) /\ l = exch[o].left
    OBVIOUS
  <2>2. l \in 1..MaxVolume /\ asked[o].total \in 1..MaxVolume
    BY <1>5, <2>1, LeftIs DEF LInv, TInv
  <2>3. l \in 0..MaxVolume /\ l # 0 /\ l <= l
    BY <2>2, ConstantsTyped
  <2>4. m \in MessagesOf({o})
    BY <2>1, <2>2, <2>3, ReturnIn DEF LInv, TInv
  <2>5. m.kind = "order" /\ m.status = "canceled" /\ m.left = l
    BY <2>1, ReturnFields
  <2>6. Sends(m)
    BY <1>1, <1>5, <2>1 DEF Send, Sends
  <2>7. exch'[o] = [status |-> "canceled", left |-> 0] /\ \A p \in Ids \ {o} : exch'[p] = exch[p]
    <3>1. cancels' \subseteq cancels
      BY <1>1
    <3> QED
      BY <1>1, <1>5, <3>1, EndedOrders DEF LInv, TInv
  <2>8. /\ exch'[o].status = m.status /\ (m.status = "working" => exch'[o].left = m.left)
        /\ (m.status = "traded" <=> m.left = 0) /\ m.left <= exch[o].left
        /\ gaps \subseteq gaps'
    BY <1>1, <2>1, <2>3, <2>5, <2>7
  <2>9. ASSUME o \in mine \ misread' PROVE Goes(o)
    BY <1>1, <1>5, <2>4, <2>5, <2>6, <2>8, <2>9, WorkingGoes
  <2> QED
    BY <1>1, <1>2, <2>4, <2>6, <2>7, <2>8, <2>9, SentGo
<1> QED
  BY <1>1, <1>3, <1>4, <1>5

LEMMA ForeignPlaceGoes ==
  ASSUME LInv, NEW o \in Ids, ForeignPlace(o) PROVE OwnInv' /\ HearInv'
<1>1. PICK r \in Requests : Enter(o, r)
  BY DEF ForeignPlace
<1>2. UNCHANGED <<api, holding, cancels, wire, adapter, firing, queue, told, mine, ctx, gaps, misread>>
  BY DEF ForeignPlace, threadVars, processVars, histVars
<1>3. o \notin Active /\ \A p \in Ids \ {o} : exch'[p] = exch[p]
  BY <1>1, <1>2, EnterOrders DEF LInv, TInv
<1>4. Driven' = Driven
  BY <1>2, DrivenSame DEF LInv
<1>5. \A p \in mine : exch'[p] = exch[p]
  BY <1>3, ActiveIn DEF LInv, TInv, ProcessTyped
<1> QED
  BY <1>2, <1>4, <1>5, StillGo

\* A new order, of which nothing is on its way yet.
LEMMA PlaceGoes ==
  ASSUME LInv, NEW o \in Ids, Place(o) PROVE OwnInv' /\ HearInv'
<1>1. PICK r \in Requests :
        Enter(o, r) /\ told' = [told EXCEPT ![o] = [status |-> "placed", left |-> r.total]]
  BY DEF Place
<1>2. /\ UNCHANGED <<api, holding, cancels, wire, adapter, firing, queue, gaps, misread>>
      /\ mine' = mine \cup {o} /\ ctx' = [ctx EXCEPT !.listener = @ \cup {o}]
  BY DEF Place, threadVars, histVars
<1>3. /\ o \notin Active /\ exch'[o] = [status |-> "sent", left |-> r.total]
      /\ \A p \in Ids \ {o} : exch'[p] = exch[p]
  BY <1>1, <1>2, EnterOrders DEF LInv, TInv
<1>4. Driven' = Driven
  BY <1>2, DrivenSame DEF LInv
<1>5. mine \subseteq Ids /\ o \notin mine
  BY <1>3, ActiveIn DEF LInv, TInv, ProcessTyped
<1>6. ctx'.listener = ctx.listener \cup {o}
  <2>1. ctx \in Ctxs
    BY DEF LInv, TInv, ProcessTyped
  <2> QED
    BY <1>2, <2>1, ListenerAdds
<1>7. /\ told'[o] = [status |-> "placed", left |-> r.total]
      /\ \A p \in mine : told'[p] = told[p]
  BY <1>1, <1>5 DEF LInv, TInv, ProcessTyped
<1>8. ASSUME NEW p \in mine \ misread PROVE Goes(p)
  <2>1. PICK x : x = Driven /\ x = Driven'
    BY <1>4
  <2>2. Owned(p, x, told[p], exch[p].status, exch[p].left)
    BY <1>8, <2>1 DEF LInv, OwnInv
  <2>3. p # o /\ exch'[p] = exch[p]
    BY <1>3, <1>5
  <2>4. Owned(p, Driven', told'[p], exch'[p].status, exch'[p].left)
    BY <1>7, <2>1, <2>2, <2>3
  <2>5. Listened(p)' <=> Listened(p)
    BY <1>6, <2>1, <2>3 DEF Listened
  <2>6. gaps \subseteq gaps'
    BY <1>2
  <2> QED
    BY <2>3, <2>4, <2>5, <2>6, OthersGo
<1>9. Goes(o)
  <2>1. PICK x : x = Driven /\ x = Driven'
    BY <1>4
  <2>2. /\ x.adapter \in Adapters(Active) /\ x.events \in Seq(EventsOf(Active))
    BY <2>1, DrivenTyped DEF Kept, LInv
  <2>3. x.adapter.order[o] = Drv!Unknown
    BY <1>3, <2>2 DEF Adapters
  <2>4. \A t : Tells(o, x.events, t, t)
    BY <1>3, <2>2, TellsOthers DEF Tells
  <2>5. EndedIn(x.events) \subseteq Active
    <3>1. \A v, z \in Seq(EventsOf(Active)) : EndedIn(z) \subseteq Active
      BY EndedInBoth
    <3> QED
      BY <2>2, <3>1
  <2>6. Owned(o, x, [status |-> "placed", left |-> r.total], "sent", r.total)
    BY <2>3, <2>4 DEF Owned
  <2>7. Listened(o)'
    BY <1>3, <1>6, <2>1, <2>5 DEF Listened
  <2> QED
    BY <1>3, <1>7, <2>1, <2>6, <2>7 DEF Goes
<1> QED
  BY <1>2, <1>8, <1>9, GoesOnInv

\* What is told of the first of some events and of the others.
LEMMA TellsFirst ==
  ASSUME NEW S, NEW s \in Seq(EventsOf(S)), s # <<>>, NEW o, NEW t, NEW u, Tells(o, s, t, u),
         NEW e, e = Head(s)
  PROVE  /\ e.id # o \/ Deaf(t) => Tells(o, Tail(s), t, u)
         /\ e.id = o /\ ~Deaf(t) => Lawful(t, Told(t, e)) /\ Tells(o, Tail(s), Told(t, e), u)
<1>1. Read("listener", o, Telling(t), s) = Read("listener", o, ToldBy(o, Telling(t), e), Tail(s))
  <2>1. \A b : Read("listener", o, b, s) = Read("listener", o, Reads("listener", o, b, e), Tail(s))
    BY ReadFirst
  <2>2. \A b : Reads("listener", o, b, e) = ToldBy(o, b, e)
    BY DEF Reads
  <2> QED
    BY <2>1, <2>2
<1>2. Tail(s) \in Seq(EventsOf(S))
  BY HeadTailIn
<1>3. CASE e.id # o \/ Deaf(t)
  <2>1. ToldBy(o, Telling(t), e) = Telling(t)
    BY <1>3 DEF ToldBy, Telling
  <2> QED
    BY <1>1, <1>3, <2>1 DEF Tells
<1>4. CASE e.id = o /\ ~Deaf(t)
  <2>1. ToldBy(o, Telling(t), e) = [told |-> Told(t, e), lawful |-> Lawful(t, Told(t, e))]
    BY <1>4 DEF ToldBy, Telling
  <2>2. CASE Lawful(t, Told(t, e))
    <3>1. ToldBy(o, Telling(t), e) = Telling(Told(t, e))
      BY <2>1, <2>2 DEF Telling
    <3> QED
      BY <1>1, <1>4, <2>2, <3>1 DEF Tells
  <2>3. CASE ~Lawful(t, Told(t, e))
    <3>1. PICK z : z = [told |-> Told(t, e), lawful |-> FALSE]
      OBVIOUS
    <3>2. ToldBy(o, Telling(t), e) = z
      BY <2>1, <2>3, <3>1
    <3>3. \A f : Reads("listener", o, z, f) = z
      BY <3>1 DEF Reads, ToldBy
    <3>4. Read("listener", o, z, Tail(s)) = z
      <4>1. PICK Z : Z = {z}
        OBVIOUS
      <4>2. z \in Z /\ \A v \in Z : \A f \in EventsOf(S) : Reads("listener", o, v, f) \in Z
        BY <3>3, <4>1
      <4>3. Read("listener", o, z, Tail(s)) \in Z
        BY <1>2, <4>2, ReadWithin
      <4> QED
        BY <4>1, <4>3
    <3>5. Telling(u) = z
      BY <1>1, <3>2, <3>4 DEF Tells
    <3> QED
      BY <3>1, <3>5 DEF Telling
  <2> QED
    BY <2>2, <2>3
<1> QED
  BY <1>3, <1>4

\* What the real-time thread tells the listener of order o is lawful.
LEMMA HandleTells ==
  ASSUME LInv, Handle, NEW o \in mine \ misread
  PROVE  /\ Owned(o, Driven', told'[o], exch'[o].status, exch'[o].left)
         /\ Lawful(told[o], told'[o])
<1>1. PICK e, x, y, t : e = Head(queue) /\ x = Driven /\ y = Driven' /\ t = told[o]
  OBVIOUS
<1>2. told' = IF e.id \in ctx.listener THEN [told EXCEPT ![e.id] = Told(@, e)] ELSE told
  BY <1>1 DEF Handle
<1>3. exch' = exch
  BY DEF Handle, exchangeVars
<1>4. /\ y.adapter = x.adapter /\ x.events # <<>> /\ Head(x.events) = e /\ y.events = Tail(x.events)
      /\ x.events \in Seq(EventsOf(Active))
  BY <1>1, DrivenHandles, DrivenTyped DEF LInv, Kept
<1>5. Owned(o, x, t, exch[o].status, exch[o].left)
  BY <1>1 DEF LInv, OwnInv
<1>6. PICK u : /\ Tells(o, x.events, t, u)
               /\ exch[o].status = "sent" => u = [status |-> "placed", left |-> exch[o].left]
               /\ exch[o].status = "working" => u = Entrusted(exch[o].left)
               /\ exch[o].status \notin {"sent", "working"} => HeardOut(u)
  BY <1>5 DEF Owned
<1>7. /\ e.id # o \/ Deaf(t) => Tells(o, y.events, t, u)
      /\ e.id = o /\ ~Deaf(t) => Lawful(t, Told(t, e)) /\ Tells(o, y.events, Told(t, e), u)
  BY <1>4, <1>6, TellsFirst
<1>8. told \in [Ids -> Tales] /\ o \in Ids
  BY ActiveIn DEF LInv, TInv, ProcessTyped
<1>9. told'[o] = IF e.id = o /\ ~Deaf(t) THEN Told(t, e) ELSE t
  <2>1. o \in ctx.listener <=> ~Deaf(t)
    BY <1>1, <1>8 DEF LInv, ListenInv
  <2> QED
    BY <1>1, <1>2, <1>8, <2>1
<1>10. Tells(o, y.events, told'[o], u) /\ Lawful(told[o], told'[o])
  BY <1>1, <1>7, <1>9, LawfulEnds
<1>11. Owned(o, y, told'[o], exch[o].status, exch[o].left)
  BY <1>4, <1>5, <1>6, <1>10 DEF Owned
<1> QED
  BY <1>1, <1>3, <1>10, <1>11

\* Who is no longer told of orders.
LEMMA HeardListener ==
  ASSUME NEW x \in Ctxs, NEW e \in EventsOf(Ids), World.asked[e.id] \in Asked
  PROVE  Heard(x, e).listener = IF e.type \in Ends THEN x.listener \ {e.id} ELSE x.listener
<1>1. \A w : w.asked[e.id] \in Asked =>
        HeardBy(w, x, e).listener = IF e.type \in Ends THEN x.listener \ {e.id} ELSE x.listener
  BY HeardIs
<1>2. Heard(x, e) = HeardBy(World, x, e)
  BY HeardReads DEF Reads
<1> QED
  BY <1>1, <1>2

LEMMA HandleListener ==
  ASSUME TInv, Handle, NEW e, e = Head(queue)
  PROVE  ctx'.listener = IF e.type \in Ends THEN ctx.listener \ {e.id} ELSE ctx.listener
<1>1. e \in EventsOf(Active) /\ ctx' = Heard(ctx, e)
  BY HeadTailIn DEF Handle, TInv, ThreadsTyped
<1>2. e \in EventsOf(Ids) /\ World.asked[e.id] \in Asked
  BY <1>1, ActiveIn, EventFields DEF EventsOf, World, TInv, OrdersTyped
<1>3. ctx \in Ctxs
  BY DEF TInv, ProcessTyped
<1> QED
  BY <1>1, <1>2, <1>3, HeardListener

LEMMA HandleGoes == ASSUME LInv, Handle PROVE OwnInv' /\ HearInv'
<1>1. PICK e, x, y : e = Head(queue) /\ x = Driven /\ y = Driven'
  OBVIOUS
<1>2. UNCHANGED <<exch, mine, gaps, misread>> /\ queue # <<>> /\ ctx' = Heard(ctx, e)
  BY <1>1 DEF Handle, exchangeVars, histVars
<1>3. /\ x.events # <<>> /\ Head(x.events) = e /\ y.events = Tail(x.events)
      /\ x.events \in Seq(EventsOf(Active))
  BY <1>1, DrivenHandles, DrivenTyped DEF LInv, Kept
<1>4. EndedIn(x.events) = (IF e.type \in Ends THEN {e.id} ELSE {}) \cup EndedIn(y.events)
  BY <1>3, EndedInFirst
<1>5. ctx'.listener = IF e.type \in Ends THEN ctx.listener \ {e.id} ELSE ctx.listener
  BY <1>1, HandleListener DEF LInv
<1>6. ASSUME NEW p \in mine \ misread PROVE Goes(p)
  <2>1. exch'[p] = exch[p] /\ gaps \subseteq gaps'
    BY <1>2
  <2>2. Owned(p, Driven', told'[p], exch'[p].status, exch'[p].left)
    BY HandleTells
  <2>3. Listened(p)' <=> Listened(p)
    BY <1>1, <1>4, <1>5 DEF Listened
  <2> QED
    BY <2>1, <2>2, <2>3, OthersGo
<1> QED
  BY <1>2, <1>6, GoesOnInv

\* The other steps send nothing and tell nothing.
LEMMA QuietGoes ==
  ASSUME LInv, UNCHANGED <<api, wire, adapter, firing, queue, exch, told, mine, gaps, misread>>,
         ctx'.listener = ctx.listener
  PROVE  OwnInv' /\ HearInv'
<1>1. Driven' = Driven
  BY DrivenSame DEF LInv
<1> QED
  BY <1>1, StillGo

LEMMA WishGoes ==
  ASSUME LInv, NEW o \in Ids, Cancel(o) \/ CheckCondition(o) PROVE OwnInv' /\ HearInv'
<1>1. /\ UNCHANGED <<api, wire, adapter, firing, queue, exch, told, mine, gaps, misread>>
      /\ \E v \in Wishes : ctx' = ctx \/ ctx' = [ctx EXCEPT !.condition[o] = v]
  BY DEF Cancel, CheckCondition, threadVars, histVars, Wishes
<1>2. ctx'.listener = ctx.listener
  <2>1. ctx \in Ctxs
    BY DEF LInv, TInv, ProcessTyped
  <2>2. PICK v \in Wishes : ctx' = ctx \/ ctx' = [ctx EXCEPT !.condition[o] = v]
    BY <1>1
  <2>3. ctx' = [ctx EXCEPT !.condition[o] = v] => ctx'.listener = ctx.listener
    BY <2>1, ConditionSet
  <2> QED
    BY <2>2, <2>3
<1> QED
  BY <1>1, <1>2, QuietGoes

\* Listeners come with a placement, and go with the end they are told of.
LEMMA HandleListens == ASSUME TInv, ListenInv, Handle PROVE ListenInv'
<1>1. PICK e : e = Head(queue)
  OBVIOUS
<1>2. ctx'.listener = IF e.type \in Ends THEN ctx.listener \ {e.id} ELSE ctx.listener
  BY <1>1, HandleListener
<1>3. told' = IF e.id \in ctx.listener THEN [told EXCEPT ![e.id] = Told(@, e)] ELSE told
  BY <1>1 DEF Handle
<1>4. told \in [Ids -> Tales]
  BY DEF TInv, ProcessTyped
<1>5. e \in EventsOf(Active)
  BY <1>1, HeadTailIn DEF Handle, TInv, ThreadsTyped
<1>6. ASSUME NEW o \in Ids PROVE o \in ctx'.listener <=> ~Deaf(told'[o])
  <2>1. o \in ctx.listener <=> ~Deaf(told[o])
    BY DEF ListenInv
  <2>2. CASE e.id # o \/ o \notin ctx.listener
    BY <1>2, <1>3, <1>4, <2>1, <2>2
  <2>3. CASE e.id = o /\ o \in ctx.listener
    <3>1. PICK t : t = told[o] /\ t \in Tales /\ ~Deaf(t)
      BY <1>4, <2>1, <2>3
    <3>2. Deaf(Told(t, e)) <=> e.type \in Ends
      BY <1>5, <3>1, EventFields DEF Told, Ends, Deaf, Tales
    <3>3. told'[o] = Told(t, e)
      BY <1>3, <1>4, <2>3, <3>1
    <3> QED
      BY <1>2, <2>3, <3>2, <3>3
  <2> QED
    BY <2>2, <2>3
<1> QED
  BY <1>6 DEF ListenInv

LEMMA NextListens ==
  ASSUME TInv, ListenInv, [Next]_vars PROVE ListenInv'
<1>1. ctx \in Ctxs /\ told \in [Ids -> Tales]
  BY DEF TInv, ProcessTyped
<1>2. CASE told' = told /\ ctx'.listener = ctx.listener
  BY <1>2 DEF ListenInv
<1>3. ASSUME NEW o \in Ids, Place(o) PROVE ListenInv'
  <2>1. ctx'.listener = ctx.listener \cup {o}
    BY <1>1, <1>3, ListenerAdds DEF Place
  <2>2. PICK n : told' = [told EXCEPT ![o] = [status |-> "placed", left |-> n]]
    BY <1>3 DEF Place
  <2>3. ~Deaf(told'[o]) /\ \A p \in Ids \ {o} : told'[p] = told[p]
    BY <1>1, <2>2, HearsEntrusted
  <2> QED
    BY <2>1, <2>3 DEF ListenInv
<1>4. ASSUME NEW o \in Ids, Cancel(o) \/ CheckCondition(o) PROVE ListenInv'
  <2>1. PICK v \in Wishes : ctx' = ctx \/ ctx' = [ctx EXCEPT !.condition[o] = v]
    BY <1>4 DEF Cancel, CheckCondition, Wishes
  <2>2. ctx' = [ctx EXCEPT !.condition[o] = v] => ctx'.listener = ctx.listener
    BY <1>1, ConditionSet
  <2>3. told' = told
    BY <1>4 DEF Cancel, CheckCondition
  <2> QED
    BY <1>2, <2>1, <2>2, <2>3
<1>5. ASSUME NEW o \in Ids, Report(o) \/ Refuse(o) \/ AnswerCancel(o) \/ ForeignPlace(o)
      PROVE  ListenInv'
  BY <1>2, <1>5 DEF Report, Refuse, AnswerCancel, ForeignPlace, processVars
<1>6. CASE Deliver \/ Fire \/ Clock \/ Login \/ QueryPositions \/ UNCHANGED vars
  BY <1>2, <1>6 DEF Deliver, Fire, Clock, Login, QueryPositions, vars, processVars
<1>7. CASE Handle
  BY <1>7, HandleListens
<1>8. CASE QueryOrders
  <2>1. ctx'.listener = ctx.listener
    BY <1>8, QueriedContext DEF Loads, SameEars
  <2> QED
    BY <1>2, <1>8, <2>1 DEF QueryOrders
<1>9. CASE Crash
  <2>1. ctx'.listener = {} /\ \A o \in Ids : told'[o] = [status |-> "none", left |-> 0]
    BY <1>9, EmptyTyped, NothingToldTyped DEF Crash
  <2> QED
    BY <2>1 DEF ListenInv, Deaf
<1> QED
  BY <1>3, <1>4, <1>5, <1>6, <1>7, <1>8, <1>9 DEF Next

LEMMA InitGoes == Init => LInv
<1> SUFFICES ASSUME Init PROVE LInv
  OBVIOUS
<1>1. OwnInv /\ HearInv
  BY DEF Init, OwnInv, HearInv
<1>2. ListenInv
  BY EmptyTyped, NothingToldTyped DEF Init, ListenInv, Deaf
<1> QED
  BY <1>1, <1>2, InitTyped DEF LInv

LEMMA NextGoes == LInv /\ [Next]_vars => LInv'
<1> SUFFICES ASSUME LInv, [Next]_vars PROVE OwnInv' /\ HearInv'
  BY NextTyped, NextListens DEF LInv
<1>1. CASE UNCHANGED vars
  <2>1. UNCHANGED <<api, wire, adapter, firing, queue, exch, told, mine, gaps, misread>> /\ ctx' = ctx
    BY <1>1 DEF vars, exchangeVars, threadVars, processVars, histVars
  <2> QED
    BY <2>1, QuietGoes
<1>2. ASSUME NEW o \in Ids,
             \/ Report(o) \/ Refuse(o) \/ AnswerCancel(o) \/ ForeignPlace(o)
             \/ Place(o) \/ Cancel(o) \/ CheckCondition(o)
      PROVE  OwnInv' /\ HearInv'
  BY <1>2, ReportGoes, RefuseGoes, AnswerCancelGoes, ForeignPlaceGoes, PlaceGoes, WishGoes
<1>3. CASE Deliver \/ Fire
  <2>1. Driven' = Driven
    BY <1>3, DrivenDelivers, DrivenFires DEF LInv
  <2>2. UNCHANGED <<exch, told, mine, gaps, misread, ctx>>
    BY <1>3 DEF Deliver, Fire, exchangeVars, processVars, histVars
  <2> QED
    BY <2>1, <2>2, StillGo
<1>4. CASE Handle
  BY <1>4, HandleGoes
<1>5. CASE Clock \/ Login \/ QueryPositions
  <2>1. UNCHANGED <<api, wire, adapter, firing, queue, exch, told, mine, gaps, misread>> /\ ctx' = ctx
    BY <1>5 DEF Clock, Login, QueryPositions, exchangeVars, threadVars, histVars
  <2> QED
    BY <2>1, QuietGoes
<1>6. CASE QueryOrders \/ Crash
  <2>1. mine' = {}
    BY <1>6 DEF QueryOrders, Crash, LInv, TInv, ProcessTyped
  <2> QED
    BY <2>1, NoneGo
<1> QED
  BY <1>1, <1>2, <1>3, <1>4, <1>5, <1>6 DEF Next

LEMMA SpecGoes == Spec => []LInv
BY InitGoes, NextGoes, PTL DEF Spec

-----------------------------------------------------------------------------
(* Every end reaches its listener. *)

LEMMA ListenersLeft == LInv => EndsReach
<1> SUFFICES ASSUME LInv, session = "running", "merged" \notin gaps
             PROVE  Drained.listener \ misread = (mine \cap (At("sent") \cup At("working"))) \ misread
  BY DEF EndsReach
<1>1. Drained = Read("context", World, ctx, Driven.events) /\ Driven.events \in Seq(EventsOf(Active))
  BY DrivenTyped, DrainedIs DEF LInv, Kept
<1>2. \A o \in Active : World.asked[o] \in Asked
  BY DEF World, LInv, TInv, OrdersTyped
<1>3. ctx \in Ctxs /\ ctx.listener \subseteq mine /\ mine \subseteq Ids
  BY ActiveIn DEF LInv, TInv, ProcessTyped
<1>4. Drained.listener = ctx.listener \ EndedIn(Driven.events)
  <2>1. \A w, s : (\A o \in Active : w.asked[o] \in Asked) /\ s \in Seq(EventsOf(Active)) =>
          Read("context", w, ctx, s).listener = ctx.listener \ EndedIn(s)
    BY <1>3, ActiveIn, ContextReads
  <2> QED
    BY <1>1, <1>2, <2>1
<1>5. \A o \in mine \ misread : o \in Drained.listener <=> exch[o].status \in {"sent", "working"}
  BY <1>4 DEF LInv, HearInv, Listened
<1> QED
  BY <1>3, <1>4, <1>5 DEF At

\* Once everything on its way has been heard, the orders with a listener are those
\* of the process that are still at the exchange, whatever is lost, refused, dealt
\* or canceled on the way, unless the end of one was merged with its entrust; the
\* only orders of which this is not said are those of which TAP's driver misread an
\* error.
THEOREM ReachesEnds == Spec => []EndsReach
BY SpecGoes, ListenersLeft, PTL

-----------------------------------------------------------------------------
(* Listeners are told lives. *)

LifeStatus == [o \in Ids |-> Life(told[o]).status]
LifeLeft   == [o \in Ids |-> Life(told[o]).left]

LEMMA LivesAre ==
  /\ [o \in Ids |-> IF told[o] = [status |-> "entrusted", left |-> 0]
                    THEN "traded" ELSE told[o].status] = LifeStatus
  /\ [o \in Ids |-> told[o].left] = LifeLeft
BY DEF LifeStatus, LifeLeft, Life

LEMMA LivesAreNext ==
  (/\ [o \in Ids |-> IF told[o] = [status |-> "entrusted", left |-> 0]
                     THEN "traded" ELSE told[o].status] = LifeStatus
   /\ [o \in Ids |-> told[o].left] = LifeLeft)'
BY LivesAre, PTL

LEMMA LivesChange ==
  ASSUME NEW o \in Ids, \A p \in Ids \ {o} : told'[p] = told[p],
         NEW l, l = Life(told'[o])
  PROVE  /\ LifeStatus' = [LifeStatus EXCEPT ![o] = l.status]
         /\ LifeLeft' = [LifeLeft EXCEPT ![o] = l.left]
BY DEF LifeStatus, LifeLeft

LEMMA SameLives == ASSUME told' = told PROVE LifeStatus' = LifeStatus /\ LifeLeft' = LifeLeft
BY DEF LifeStatus, LifeLeft

LifeStep == [Lifecycle!Next \/ \E o \in misread : Misheard(o)]_(Lifecycle!vars)

LEMMA LifeStays == ASSUME LifeStatus' = LifeStatus, LifeLeft' = LifeLeft PROVE LifeStep
<1>1. UNCHANGED Lifecycle!vars
  BY LivesAre, LivesAreNext DEF Lifecycle!vars
<1> QED
  BY <1>1 DEF LifeStep

\* A lawful step of what one listener was told.
LEMMA LawfulSteps ==
  ASSUME NEW o \in Ids, \A p \in Ids \ {o} : told'[p] = told[p], Lawful(told[o], told'[o])
  PROVE  LifeStep
<1>1. PICK t, u, l : t = told[o] /\ u = told'[o] /\ l = Life(u)
  OBVIOUS
<1>2. /\ LifeStatus' = [LifeStatus EXCEPT ![o] = l.status]
      /\ LifeLeft' = [LifeLeft EXCEPT ![o] = l.left]
  BY <1>1, LivesChange
<1>3. LifeStatus[o] = Life(t).status /\ LifeLeft[o] = t.left /\ Life(t).left = t.left
  BY <1>1 DEF LifeStatus, LifeLeft, Life
<1>4. CASE Life(u) = Life(t)
  <2>1. LifeStatus' = LifeStatus /\ LifeLeft' = LifeLeft
    BY <1>1, <1>2, <1>3, <1>4 DEF LifeStatus, LifeLeft
  <2> QED
    BY <2>1, LifeStays
<1>5. CASE t.status = "placed" /\ Life(u) = [status |-> "refused", left |-> t.left]
  <2>1. LifeStatus[o] = "placed"
    BY <1>3, <1>5 DEF Life
  <2>2. LifeStatus' = [LifeStatus EXCEPT ![o] = "refused"] /\ LifeLeft' = LifeLeft
    BY <1>1, <1>2, <1>3, <1>5 DEF LifeLeft
  <2>3. Lifecycle!Refuse(o)
    BY <2>1, <2>2, LivesAre, LivesAreNext DEF Lifecycle!Refuse
  <2> QED
    BY <2>3 DEF LifeStep, Lifecycle!Next
<1>6. CASE /\ Life(t).status \in {"placed", "entrusted"}
           /\ \E n \in 0..t.left, s \in {"entrusted", "traded", "canceled"} :
                (s = "traded" <=> n = 0) /\ Life(u) = [status |-> s, left |-> n]
  <2>1. PICK n \in 0..t.left, s \in {"entrusted", "traded", "canceled"} :
          (s = "traded" <=> n = 0) /\ Life(u) = [status |-> s, left |-> n]
    BY <1>6
  <2>2. /\ LifeStatus' = [LifeStatus EXCEPT ![o] = s] /\ LifeLeft' = [LifeLeft EXCEPT ![o] = n]
        /\ LifeStatus[o] \in {"placed", "entrusted"} /\ n \in 0..LifeLeft[o]
    <3>1. l.status = s /\ l.left = n
      BY <1>1, <2>1
    <3>2. n \in 0..LifeLeft[o]
      BY <1>3
    <3> QED
      BY <1>2, <1>3, <1>6, <3>1, <3>2
  <2>3. Lifecycle!Report(o)
    BY <2>1, <2>2, LivesAre, LivesAreNext DEF Lifecycle!Report
  <2> QED
    BY <2>3 DEF LifeStep, Lifecycle!Next
<1> QED
  BY <1>1, <1>4, <1>5, <1>6 DEF Lawful

LEMMA HandleLives == ASSUME LInv, Handle PROVE LifeStep
<1>1. PICK e : e = Head(queue)
  OBVIOUS
<1>2. (told' = [told EXCEPT ![e.id] = Told(@, e)] /\ e.id \in ctx.listener) \/ told' = told
  BY <1>1 DEF Handle
<1>3. CASE told' = told
  BY <1>3, SameLives, LifeStays
<1>4. CASE told' = [told EXCEPT ![e.id] = Told(@, e)] /\ e.id \in ctx.listener
  <2>1. PICK o \in ctx.listener : o = e.id
    BY <1>4
  <2>2. o \in mine /\ o \in Ids
    BY ActiveIn DEF LInv, TInv, ProcessTyped
  <2>3. \A p \in Ids \ {o} : told'[p] = told[p]
    BY <1>4, <2>1 DEF LInv, TInv, ProcessTyped
  <2>4. CASE o \notin misread
    <3>1. Lawful(told[o], told'[o])
      BY <2>2, <2>4, HandleTells
    <3> QED
      BY <2>2, <2>3, <3>1, LawfulSteps
  <2>5. CASE o \in misread
    <3>1. told[o].status \in {"placed", "entrusted"}
      BY <2>2 DEF LInv, ListenInv, Deaf
    <3>2. told' = [told EXCEPT ![o] = told'[o]]
      BY <1>4, <2>1, <2>2 DEF LInv, TInv, ProcessTyped
    <3> QED
      BY <2>5, <3>1, <3>2 DEF Misheard, LifeStep
  <2> QED
    BY <2>4, <2>5
<1> QED
  BY <1>2, <1>3, <1>4

LEMMA PlaceLives == ASSUME LInv, NEW o \in Ids, Place(o) PROVE LifeStep
<1>1. PICK r \in Requests :
        Enter(o, r) /\ told' = [told EXCEPT ![o] = [status |-> "placed", left |-> r.total]]
  BY DEF Place
<1>2. UNCHANGED <<api, holding, cancels>>
  BY DEF Place
<1>3. o \notin mine /\ r.total \in 1..MaxVolume
  BY <1>1, <1>2, EnterOrders, ConstantsTyped DEF LInv, TInv, ProcessTyped
<1>4. told[o] = [status |-> "none", left |-> 0] /\ told \in [Ids -> Tales]
  BY <1>3 DEF LInv, TInv, ProcessTyped
<1>5. PICK l : l = Life(told'[o])
  OBVIOUS
<1>6. l.status = "placed" /\ l.left = r.total
  BY <1>1, <1>4, <1>5 DEF Life
<1>7. /\ LifeStatus' = [LifeStatus EXCEPT ![o] = "placed"]
      /\ LifeLeft' = [LifeLeft EXCEPT ![o] = r.total]
  <2>1. \A p \in Ids \ {o} : told'[p] = told[p]
    BY <1>1, <1>4
  <2> QED
    BY <1>5, <1>6, <2>1, LivesChange
<1>8. LifeStatus[o] = "none"
  BY <1>4 DEF LifeStatus, Life
<1>9. Lifecycle!Place(o)
  BY <1>3, <1>7, <1>8, LivesAre, LivesAreNext DEF Lifecycle!Place
<1> QED
  BY <1>9 DEF LifeStep, Lifecycle!Next

LEMMA InitLives == Init => Lifecycle!Init
<1> SUFFICES ASSUME Init PROVE Lifecycle!Init
  OBVIOUS
<1>1. LifeStatus = [o \in Ids |-> "none"] /\ LifeLeft = [o \in Ids |-> 0]
  BY NothingToldTyped DEF Init, LifeStatus, LifeLeft, Life
<1> QED
  BY <1>1, LivesAre DEF Lifecycle!Init

RestartsTyped == restarts \in Nat

LEMMA RestartsIn == Spec => []RestartsTyped
<1>1. Init => RestartsTyped
  BY DEF Init, RestartsTyped
<1>2. RestartsTyped /\ [Next]_vars => RestartsTyped'
  <2>1. Next => restarts' = restarts \/ restarts' = restarts + 1
    BY DEF Next, Report, Refuse, AnswerCancel, ForeignPlace, Place, Cancel, CheckCondition,
       Deliver, Fire, Handle, Clock, Login, QueryPositions, QueryOrders, Crash,
       histVars
  <2>2. UNCHANGED vars => restarts' = restarts
    BY DEF vars, histVars
  <2> QED
    BY <2>1, <2>2 DEF RestartsTyped
<1> QED
  BY <1>1, <1>2, PTL DEF Spec

LEMMA NextLives ==
  LInv /\ RestartsTyped /\ [Next]_vars => (restarts' = restarts => LifeStep)
<1> SUFFICES ASSUME LInv, RestartsTyped, [Next]_vars, restarts' = restarts PROVE LifeStep
  OBVIOUS
<1>1. ASSUME NEW o \in Ids, Report(o) \/ Refuse(o) \/ AnswerCancel(o) \/ ForeignPlace(o)
      PROVE  LifeStep
  <2>1. told' = told
    BY <1>1 DEF Report, Refuse, AnswerCancel, ForeignPlace, processVars
  <2> QED
    BY <2>1, SameLives, LifeStays
<1>2. ASSUME NEW o \in Ids, Place(o) PROVE LifeStep
  BY <1>2, PlaceLives
<1>3. ASSUME NEW o \in Ids, Cancel(o) \/ CheckCondition(o) PROVE LifeStep
  <2>1. told' = told
    BY <1>3 DEF Cancel, CheckCondition
  <2> QED
    BY <2>1, SameLives, LifeStays
<1>4. CASE Deliver \/ Fire \/ Clock \/ Login \/ QueryPositions \/ QueryOrders \/ UNCHANGED vars
  <2>1. told' = told
    BY <1>4 DEF Deliver, Fire, Clock, Login, QueryPositions, QueryOrders, vars, processVars
  <2> QED
    BY <2>1, SameLives, LifeStays
<1>5. CASE Handle
  BY <1>5, HandleLives
<1>6. CASE Crash
  BY <1>6 DEF Crash, RestartsTyped
<1> QED
  BY <1>1, <1>2, <1>3, <1>4, <1>5, <1>6 DEF Next

\* What the listeners of a process are told of an order, by the way of the broker,
\* the driver, the event queue and the context, is a life the trader interface
\* promises: whatever the broker merges, drops with a session or refuses.  Of an
\* order of which TAP's driver misread an error at least nothing is told after its
\* end.
THEOREM TellsLives == Spec => KeepsLifecycle
<1>1. LInv /\ RestartsTyped /\ [Next]_vars
        => (restarts' = restarts =>
              [Lifecycle!Next \/ \E o \in misread : Misheard(o)]_(Lifecycle!vars))
  BY NextLives DEF LifeStep
<1> QED
  BY <1>1, InitLives, SpecGoes, RestartsIn, PTL DEF Spec, KeepsLifecycle

-----------------------------------------------------------------------------
(* The books settle.  What follows reads the context's books against an        *)
(* account: the lots h that are held, and for every order the lots f[o] it      *)
(* waits for.  A return of an order may bring two events, so between them the   *)
(* books agree with an account that the exchange never had.                     *)

\* What is ever waited for, and what every order could add to a holding, is
\* below the range of the context's unsigned volumes.
Everything == MaxVolume * Cardinality(Ids)

LotsFit ==
  \A c \in Codes, b \in Buckets, d \in Dirs : Holding[c][b][d] + Everything < Modulus

\* Through CTP, "close" is asked for only where the exchange tells today's lots
\* apart: elsewhere the context freezes yesterday's lots for it, and the
\* exchange sells today's.
CloseMeans ==
  "ctp" \in Apis => \A r \in Requests : r.offset = "close" => r.code \in Distinct

LEMMA EverythingNat == Everything \in Nat
<1>1. Cardinality(Ids) \in Nat /\ MaxVolume \in Nat
  BY ConstantsTyped, FS_CardinalityType
<1>2. \A k, n \in Nat : k * n \in Nat
  OBVIOUS
<1> QED
  BY <1>1, <1>2 DEF Everything

\* The lots the orders wait for, and those of the orders in R.
Wanting == [Ids -> 0..MaxVolume]

Asks(f, R) == SumFunctionOnSet([o \in Ids |-> IF o \in R THEN f[o] ELSE 0], Ids)

LEMMA AsksNat ==
  ASSUME NEW f \in Wanting, NEW R
  PROVE  /\ Asks(f, R) \in Nat /\ Asks(f, R) <= Everything
         /\ \A o \in Ids : o \in R => f[o] <= Asks(f, R)
<1> DEFINE g == [o \in Ids |-> IF o \in R THEN f[o] ELSE 0]
<1>1. \A o \in Ids : g[o] \in Nat /\ g[o] \in Int /\ g[o] <= MaxVolume
  BY ConstantsTyped DEF Wanting
<1>2. \A o \in Ids : o \in R => g[o] = f[o]
  OBVIOUS
<1>3. IsFiniteSet(Ids) /\ MaxVolume \in Nat
  BY ConstantsTyped
<1>4. Asks(f, R) = SumFunctionOnSet(g, Ids)
  BY DEF Asks
<1> HIDE DEF g
<1>5. SumFunctionOnSet(g, Ids) \in Nat /\ \A o \in Ids : g[o] <= SumFunctionOnSet(g, Ids)
  BY <1>1, <1>3, SumNat, SumBounds
<1>6. SumFunctionOnSet(g, Ids) <= Everything
  BY <1>1, <1>3, SumAtMost DEF Everything
<1> QED
  BY <1>2, <1>4, <1>5, <1>6

\* One order waits for n lots instead of those it waited for.
Shifts(f, k, o, n) ==
  \A R : /\ o \notin R => Asks(k, R) = Asks(f, R)
         /\ o \in R => Asks(k, R) = Asks(f, R) - f[o] + n

LEMMA AsksChange ==
  ASSUME NEW f \in Wanting, NEW o \in Ids, NEW n \in 0..MaxVolume,
         NEW k, k = [f EXCEPT ![o] = n]
  PROVE  k \in Wanting /\ Shifts(f, k, o, n)
<1>0. k \in Wanting
  BY DEF Wanting
<1> SUFFICES ASSUME NEW R
             PROVE  /\ o \notin R => Asks(k, R) = Asks(f, R)
                    /\ o \in R => Asks(k, R) = Asks(f, R) - f[o] + n
  BY <1>0 DEF Shifts
<1> DEFINE g == [p \in Ids |-> IF p \in R THEN f[p] ELSE 0]
           h == [p \in Ids |-> IF p \in R THEN k[p] ELSE 0]
<1>1. k \in Wanting /\ k[o] = n /\ \A p \in Ids \ {o} : k[p] = f[p]
  BY DEF Wanting
<1>2. \A p \in Ids : f[p] \in Nat /\ k[p] \in Nat /\ n \in Nat
  BY <1>1, ConstantsTyped DEF Wanting
<1>3. /\ \A p \in Ids : g[p] \in Int /\ h[p] \in Int
      /\ \A p \in Ids \ {o} : h[p] = g[p]
      /\ o \in R => g[o] = f[o] /\ h[o] = n
      /\ o \notin R => g[o] = 0 /\ h[o] = 0
  BY <1>1, <1>2
<1>4. Asks(f, R) = SumFunctionOnSet(g, Ids) /\ Asks(k, R) = SumFunctionOnSet(h, Ids)
  BY DEF Asks
<1> HIDE DEF g, h
<1>5. SumFunctionOnSet(h, Ids) = SumFunctionOnSet(g, Ids) - g[o] + h[o]
  BY <1>3, ConstantsTyped, SumChange
<1>6. Asks(f, R) \in Nat
  BY AsksNat
<1>7. o \notin R => Asks(k, R) = Asks(f, R)
  BY <1>3, <1>4, <1>5, <1>6
<1>8. o \in R => Asks(k, R) = Asks(f, R) - f[o] + n
  BY <1>3, <1>4, <1>5
<1> QED
  BY <1>7, <1>8

-----------------------------------------------------------------------------
(* What an order means to the context is what it means to the exchange. *)

Plain(w, o) ==
  /\ w.api \in Drivers /\ w.asked[o] \in Asked
  /\ w.api = "ctp" /\ w.asked[o].offset = "close" => w.asked[o].code \in Distinct

LEMMA InfoMeans ==
  ASSUME NEW w, NEW o, Plain(w, o), NEW n \in 0..MaxVolume
  PROVE  LET r == OrderInfoBy(w, o, n)
             a == w.asked[o]
         IN /\ IsOrder(r) /\ r.code = a.code /\ r.direction = a.direction
            /\ r.total = a.total /\ r.last = n
            /\ r.offset = "open" <=> a.offset = "open"
            /\ a.offset # "open" => Ctx!BucketOf(r) = BucketOf(a)
            /\ DealBucket(r) = BucketOf(a)
<1> DEFINE r == OrderInfoBy(w, o, n)
           a == w.asked[o]
<1>1. IsOrder(r)
  BY InfoIsOrder DEF Plain
<1>2. /\ r.code = a.code /\ r.direction = a.direction /\ r.total = a.total /\ r.last = n
      /\ r.offset = Drv!WrappedOffset(w.api, a.code \in Distinct, a.offset)
  BY InfoFields
<1> HIDE DEF r
<1>3. r.offset = IF w.api = "tap" /\ a.code \notin Distinct /\ a.offset # "open"
                 THEN "clstd" ELSE a.offset
  BY <1>2 DEF Drv!WrappedOffset
<1>4. /\ w.api \in {"ctp", "tap"} /\ a.offset \in {"open", "close", "clstd"}
      /\ w.api = "ctp" /\ a.offset = "close" => a.code \in Distinct
  BY DEF Plain, Drivers, Asked
<1>5. r.offset = "open" <=> a.offset = "open"
  BY <1>3, <1>4
<1>6. a.offset # "open" => Ctx!BucketOf(r) = BucketOf(a)
  BY <1>3, <1>4 DEF Ctx!BucketOf, BucketOf
<1>7. DealBucket(r) = BucketOf(a)
  BY <1>5, <1>6 DEF DealBucket, BucketOf
<1> QED
  BY <1>1, <1>2, <1>5, <1>6, <1>7 DEF r


-----------------------------------------------------------------------------
(* What each event makes of books that agree with an account *)

Sellers(w, c, b, d) ==
  {o \in Ids : /\ w.asked[o].code = c /\ w.asked[o].direction = d
               /\ w.asked[o].offset # "open" /\ BucketOf(w.asked[o]) = b}

Buyers(w, c, d) ==
  {o \in Ids : /\ w.asked[o].code = c /\ w.asked[o].direction = d
               /\ w.asked[o].offset = "open"}

\* The books of one kind of lots.  An entry is missing only where there is nothing.
Shelved(w, x, h, f, c, b, d) ==
  /\ x.position[c].postion[b][d] = h[c][b][d]
  /\ x.position[c].frozen[b][d] = Asks(f, Sellers(w, c, b, d))
  /\ Asks(f, Sellers(w, c, b, d)) <= h[c][b][d]
  /\ x.position[c].pending[d] = Asks(f, Buyers(w, c, d))
  /\ c \notin x.entries => x.position[c].postion[b][d] = 0 /\ x.position[c].pending[d] = 0

Books(w, x, h, g, f) ==
  /\ x \in Ctxs /\ h \in Lots /\ f \in Wanting /\ x.order = g
  /\ \A c \in Codes, b \in Buckets, d \in Dirs : Shelved(w, x, h, f, c, b, d)

\* The slot of an order a, and who asks for lots of a slot.
Stands(w, o, a) ==
  \A c, b, d :
    /\ o \in Sellers(w, c, b, d) <=>
         a.offset # "open" /\ c = a.code /\ b = BucketOf(a) /\ d = a.direction
    /\ o \in Buyers(w, c, d) <=> a.offset = "open" /\ c = a.code /\ d = a.direction

LEMMA Slot ==
  ASSUME NEW w, NEW o \in Ids, Plain(w, o), NEW a, a = w.asked[o]
  PROVE  /\ a.code \in Codes /\ a.direction \in Dirs /\ BucketOf(a) \in Buckets
         /\ a.total \in 1..MaxVolume /\ a.total \in Nat /\ a.total \in 0..MaxVolume
         /\ Stands(w, o, a)
<1>1. a \in Asked
  BY DEF Plain
<1>2. Stands(w, o, a)
  BY DEF Stands, Sellers, Buyers
<1> QED
  BY <1>1, <1>2, ConstantsTyped DEF Asked, BucketOf, Buckets

LEMMA LotsNat ==
  ASSUME NEW h \in Lots, NEW c \in Codes, NEW b \in Buckets, NEW d \in Dirs
  PROVE  h[c][b][d] \in Nat
BY DEF Lots

LEMMA Fits ==
  ASSUME LotsFit, NEW n \in Nat, n <= Everything
  PROVE  n < Modulus \/ Codes = {}
<1>1. ASSUME NEW c \in Codes PROVE n < Modulus
  <2>1. "today" \in Buckets /\ "long" \in Dirs
    BY DEF Buckets, Dirs
  <2>2. Holding[c]["today"]["long"] + Everything < Modulus
    BY <2>1 DEF LotsFit
  <2>3. Holding[c]["today"]["long"] \in Nat
    BY <2>1, HoldingTyped, LotsNat
  <2> QED
    BY <2>2, <2>3, EverythingNat, ConstantsTyped
<1> QED
  BY <1>1

\* The lots that what is asked for needs are there and nobody waits to sell them.
Affords(a, w, h, f) ==
  a.offset # "open" =>
    Asks(f, Sellers(w, a.code, BucketOf(a), a.direction)) + a.total
      <= h[a.code][BucketOf(a)][a.direction]

\* A sum that fits is not wrapped, and neither is the difference from a lower number.
LEMMA FitsUnwrapped ==
  ASSUME NEW p \in Nat, NEW q \in Nat
  PROVE  /\ p + q < Modulus => Ctx!Plus(p, q) = p + q
         /\ q <= p /\ p < Modulus => Ctx!Minus(p, q) = p - q
<1>1. Modulus \in Nat /\ Modulus > 0
  BY ConstantsTyped
<1>2. ASSUME p + q < Modulus PROVE (p + q) % Modulus = p + q
  BY <1>1, <1>2
<1>3. ASSUME q <= p, p < Modulus PROVE (p - q) % Modulus = p - q
  BY <1>1, <1>3
<1> QED
  BY <1>2, <1>3 DEF Ctx!Plus, Ctx!Minus

\* An entrust freezes the lots the exchange has found, or adds to the pendings.
LEMMA EntrustBooks ==
  ASSUME LotsFit, NEW w, NEW o \in Ids, Plain(w, o), NEW a, a = w.asked[o], NEW x, NEW h, NEW g, NEW f,
         Books(w, x, h, g, f), f[o] = 0,
         NEW e \in EventsOf(Ids), e.type = "OrderPlace", e.id = o,
         Affords(a, w, h, f), NEW k, k = [f EXCEPT ![o] = a.total]
  PROVE  Books(w, HeardBy(w, x, e), h, [g EXCEPT ![o] = e.left], k)
<1>1. PICK r, n, b0, t : r = OrderInfoBy(w, o, e.left) /\ n = e.left /\ b0 = BucketOf(a) /\ t = a.total
  OBVIOUS
<1>2. /\ IsOrder(r) /\ r.code = a.code /\ r.direction = a.direction /\ r.total = t
      /\ r.offset = "open" <=> a.offset = "open"
      /\ a.offset # "open" => Ctx!BucketOf(r) = b0
      /\ n \in -1..MaxVolume
  <2>1. e.left \in 0..MaxVolume /\ e.left \in -1..MaxVolume
    BY EventFields
  <2> QED
    BY <1>1, <2>1, InfoMeans
<1>3. /\ a.code \in Codes /\ a.direction \in Dirs /\ b0 \in Buckets /\ t \in 0..MaxVolume /\ t \in Nat
      /\ t >= 1
      /\ \A c, b, d : /\ o \in Sellers(w, c, b, d) <=>
                           a.offset # "open" /\ c = a.code /\ b = b0 /\ d = a.direction
                      /\ o \in Buyers(w, c, d) <=> a.offset = "open" /\ c = a.code /\ d = a.direction
  <2>1. /\ a.code \in Codes /\ a.direction \in Dirs /\ BucketOf(a) \in Buckets
        /\ a.total \in 1..MaxVolume /\ a.total \in Nat /\ a.total \in 0..MaxVolume
        /\ Stands(w, o, a)
    BY Slot
  <2> QED
    BY <1>1, <2>1, ConstantsTyped DEF Stands
<1>4. x \in Ctxs /\ h \in Lots /\ f \in Wanting /\ x.order = g
  BY DEF Books
<1>5. PICK y : y = HeardBy(w, x, e)
  OBVIOUS
<1>6. y = Ctx!Entrust(x, o, r, n)
  BY <1>1, <1>5, HeardCases
<1>7. PICK z \in Ctxs : /\ SameBooks(x, z) /\ y = Ctx!Reserve(z, r, r.total)
                        /\ y \in Ctxs /\ GoesOn(x, y, o, n)
  BY <1>2, <1>4, <1>6, EntrustIs
<1>8. /\ k \in Wanting
      /\ \A R : /\ o \notin R => Asks(k, R) = Asks(f, R)
                /\ o \in R => Asks(k, R) = Asks(f, R) + t
  <2>1. /\ k \in Wanting
        /\ Shifts(f, k, o, t)
    <3>1. k = [f EXCEPT ![o] = t]
      BY <1>1
    <3>2. f \in Wanting
      BY <1>4
    <3>3. t \in 0..MaxVolume
      BY <1>3
    <3> QED
      BY <3>1, <3>2, <3>3, AsksChange
  <2>2. \A R : Asks(f, R) \in Nat /\ Asks(f, R) - f[o] + t = Asks(f, R) + t
    BY <1>3, <1>4, AsksNat
  <2> QED
    BY <2>1, <2>2 DEF Shifts
<1>9. \A R : Asks(k, R) \in Nat /\ Asks(f, R) \in Nat /\ Asks(k, R) < Modulus
  BY <1>3, <1>8, <1>4, AsksNat, Fits
<1>10. y.order = [g EXCEPT ![o] = e.left]
  BY <1>1, <1>4, <1>7 DEF GoesOn
<1>11. z.position = x.position /\ z.entries = x.entries
  BY <1>7 DEF SameBooks
<1>12. ASSUME NEW c \in Codes, NEW b \in Buckets, NEW d \in Dirs PROVE Shelved(w, y, h, k, c, b, d)
  <2>1. PICK A, B, C, D : /\ A = Asks(f, Sellers(w, c, b, d)) /\ B = Asks(f, Buyers(w, c, d))
                          /\ C = Asks(k, Sellers(w, c, b, d)) /\ D = Asks(k, Buyers(w, c, d))
    OBVIOUS
  <2>2. A \in Nat /\ B \in Nat /\ C \in Nat /\ D \in Nat /\ C < Modulus /\ D < Modulus
    BY <1>9, <2>1
  <2>3. /\ C = IF a.offset # "open" /\ c = a.code /\ b = b0 /\ d = a.direction THEN A + t ELSE A
        /\ D = IF a.offset = "open" /\ c = a.code /\ d = a.direction THEN B + t ELSE B
    BY <1>3, <1>8, <2>1
  <2>4. /\ x.position[c].postion[b][d] = h[c][b][d] /\ x.position[c].frozen[b][d] = A
        /\ A <= h[c][b][d] /\ x.position[c].pending[d] = B
        /\ c \notin x.entries => h[c][b][d] = 0 /\ B = 0
    BY <2>1 DEF Books, Shelved
  <2>5. PICK m : m = h[c][b][d] /\ m \in Nat
    <3>1. h[c][b][d] \in Nat
      BY <1>4, LotsNat, SMTT(30)
    <3> QED
      BY <3>1
  <2>6. a.offset # "open" /\ c = a.code /\ b = b0 /\ d = a.direction => C <= m
    BY <1>1, <2>1, <2>3, <2>5 DEF Affords
  <2>7. CASE a.offset = "open"
    <3>1. /\ y.entries = z.entries \cup {r.code}
          /\ SamePostion(z, y) /\ SameFrozen(z, y)
          /\ PendingGoes(z, y, r.code, r.direction,
                         Ctx!Plus(z.position[r.code].pending[r.direction], r.total))
      BY <1>2, <1>3, <1>7, <2>7, ReserveOpen
    <3>2. /\ y.position[c].postion[b][d] = m /\ y.position[c].frozen[b][d] = A
      BY <1>11, <2>4, <2>5, <3>1 DEF SamePostion, SameFrozen
    <3>3. y.position[c].pending[d] = D
      <4>1. CASE c = a.code /\ d = a.direction
        <5>1. y.position[c].pending[d] = Ctx!Plus(B, t)
          <6>1. PICK u : u = Ctx!Plus(z.position[c].pending[d], t)
            BY Zenon
          <6>2. PendingGoes(z, y, c, d, u)
            BY <1>2, <3>1, <4>1, <6>1
          <6>3. y.position[c].pending[d] = u
            BY <6>2 DEF PendingGoes
          <6>4. u = Ctx!Plus(B, t)
            BY <1>11, <2>4, <6>1
          <6> QED
            BY <6>3, <6>4
        <5>2. D = B + t /\ B + t < Modulus
          BY <1>3, <2>2, <2>3, <2>7, <4>1
        <5>3. Ctx!Plus(B, t) = B + t
          BY <1>3, <2>2, <5>2, FitsUnwrapped
        <5> QED
          BY <5>1, <5>2, <5>3
      <4>2. CASE ~(c = a.code /\ d = a.direction)
        BY <1>2, <1>11, <2>3, <2>4, <3>1, <4>2 DEF PendingGoes
      <4> QED
        BY <4>1, <4>2
    <3>4. c \notin y.entries => m = 0 /\ D = 0
      BY <1>2, <1>11, <2>3, <2>4, <2>5, <3>1
    <3> QED
      BY <2>1, <2>3, <2>4, <2>5, <2>7, <3>2, <3>3, <3>4 DEF Shelved
  <2>8. CASE a.offset # "open"
    <3>1. /\ y.entries = z.entries /\ SamePostion(z, y) /\ SamePending(z, y)
          /\ r.code \notin z.entries => y = z
          /\ r.code \in z.entries =>
               FrozenGoes(z, y, r.code, b0, r.direction,
                 Ctx!Plus(z.position[r.code].frozen[b0][r.direction], r.total))
      BY <1>2, <1>3, <1>7, <2>8, ReserveClose
    <3>2. y.position[c].postion[b][d] = m /\ y.position[c].pending[d] = B
      BY <1>11, <2>4, <2>5, <3>1 DEF SamePostion, SamePending
    <3>3. y.position[c].frozen[b][d] = C
      <4>1. CASE c = a.code /\ b = b0 /\ d = a.direction
        <5>0. c \in x.entries
          BY <1>3, <2>2, <2>3, <2>4, <2>5, <2>6, <2>8, <4>1
        <5>1. y.position[c].frozen[b][d] = Ctx!Plus(A, t)
          <6>1. PICK u : u = Ctx!Plus(z.position[c].frozen[b][d], t)
            BY Zenon
          <6>2. FrozenGoes(z, y, c, b, d, u)
            BY <1>2, <1>11, <3>1, <4>1, <5>0, <6>1
          <6>3. y.position[c].frozen[b][d] = u
            BY <6>2 DEF FrozenGoes
          <6>4. u = Ctx!Plus(A, t)
            BY <1>11, <2>4, <6>1
          <6> QED
            BY <6>3, <6>4
        <5>2. C = A + t /\ A + t < Modulus
          BY <1>3, <2>2, <2>3, <2>8, <4>1
        <5>3. Ctx!Plus(A, t) = A + t
          BY <1>3, <2>2, <5>2, FitsUnwrapped
        <5> QED
          BY <5>1, <5>2, <5>3
      <4>2. CASE ~(c = a.code /\ b = b0 /\ d = a.direction)
        BY <1>2, <1>11, <2>3, <2>4, <3>1, <4>2 DEF FrozenGoes
      <4> QED
        BY <4>1, <4>2
    <3>4. c \notin y.entries => m = 0 /\ D = 0
      BY <1>11, <2>3, <2>4, <2>5, <2>8, <3>1
    <3>5. C <= m
      BY <2>3, <2>4, <2>5, <2>6
    <3> QED
      BY <2>1, <2>3, <2>4, <2>5, <2>8, <3>2, <3>3, <3>4, <3>5 DEF Shelved
  <2> QED
    BY <2>7, <2>8
<1>13. Books(w, y, h, [g EXCEPT ![o] = e.left], k)
  BY <1>4, <1>7, <1>8, <1>10, <1>12 DEF Books
<1> QED
  BY <1>5, <1>13

\* The context's volume of the lots a deal is of does not wrap.
Room(l, a) == l[a.code][BucketOf(a)][a.direction] < Modulus

\* A deal moves the lots and takes them from what is asked for.
LEMMA DealBooks ==
  ASSUME LotsFit, NEW w, NEW o \in Ids, Plain(w, o), NEW a, a = w.asked[o],
         NEW x, NEW h, NEW g, NEW f, Books(w, x, h, g, f), g[o] # Ctx!Unknown,
         NEW e \in EventsOf(Ids), e.type = "OrderDeal", e.id = o,
         NEW v \in Nat, e.volume = v, v <= f[o],
         NEW l, LotsMove(h, l, a, v), Room(l, a),
         NEW k, k = [f EXCEPT ![o] = f[o] - v]
  PROVE  Books(w, HeardBy(w, x, e), l, [g EXCEPT ![o] = e.left], k)
<1>1. PICK r, n, b0, t : r = OrderInfoBy(w, o, e.left) /\ n = e.left /\ b0 = BucketOf(a) /\ t = f[o] - v
  OBVIOUS
<1>2. /\ IsOrder(r) /\ r.code = a.code /\ r.direction = a.direction /\ r.last = n
      /\ r.offset = "open" <=> a.offset = "open"
      /\ a.offset # "open" => Ctx!BucketOf(r) = b0
      /\ DealBucket(r) = b0
  <2>1. e.left \in 0..MaxVolume
    BY EventFields
  <2> QED
    BY <1>1, <2>1, InfoMeans
<1>3. /\ a.code \in Codes /\ a.direction \in Dirs /\ b0 \in Buckets
      /\ \A c, b, d : /\ o \in Sellers(w, c, b, d) <=>
                           a.offset # "open" /\ c = a.code /\ b = b0 /\ d = a.direction
                      /\ o \in Buyers(w, c, d) <=> a.offset = "open" /\ c = a.code /\ d = a.direction
  <2>1. /\ a.code \in Codes /\ a.direction \in Dirs /\ BucketOf(a) \in Buckets
        /\ Stands(w, o, a)
    BY Slot
  <2> QED
    BY <1>1, <2>1 DEF Stands
<1>4. x \in Ctxs /\ h \in Lots /\ f \in Wanting /\ x.order = g
  BY DEF Books
<1>a. t \in 0..MaxVolume /\ f[o] \in Nat
  BY <1>1, <1>4, ConstantsTyped DEF Wanting
<1>5. PICK y : y = HeardBy(w, x, e)
  OBVIOUS
<1>6. y = Ctx!HandleDeal(x, e, r) /\ Ctx!Knows(x, o)
  BY <1>1, <1>4, <1>5, HeardCases DEF Ctx!Knows
<1>7. PICK z \in Ctxs : /\ SameBooks(x, z) /\ y = Ctx!CalculatePosition(z, r, v)
                        /\ y \in Ctxs /\ GoesOn(x, y, o, n)
  BY <1>2, <1>4, <1>6, DealIs
<1>8. /\ k \in Wanting
      /\ \A R : /\ o \notin R => Asks(k, R) = Asks(f, R)
                /\ o \in R => Asks(k, R) = Asks(f, R) - v
  <2>1. k \in Wanting /\ Shifts(f, k, o, t)
    <3>1. k = [f EXCEPT ![o] = t]
      BY <1>1
    <3>2. f \in Wanting /\ t \in 0..MaxVolume
      BY <1>4, <1>a
    <3> QED
      BY <3>1, <3>2, AsksChange
  <2>2. \A R : Asks(f, R) \in Nat /\ Asks(f, R) - f[o] + t = Asks(f, R) - v
    BY <1>1, <1>a, <1>4, AsksNat
  <2> QED
    BY <2>1, <2>2 DEF Shifts
<1>9. \A R : Asks(k, R) \in Nat /\ Asks(f, R) \in Nat /\ (o \in R => v <= Asks(f, R))
  <2>1. \A R : Asks(f, R) \in Nat /\ (o \in R => f[o] <= Asks(f, R))
    BY <1>4, AsksNat
  <2>2. \A R : Asks(k, R) \in Nat
    BY <1>8, AsksNat
  <2>3. ASSUME NEW R, o \in R PROVE v <= Asks(f, R)
    <3>1. PICK u, A : u = f[o] /\ A = Asks(f, R)
      OBVIOUS
    <3>2. u \in Nat /\ A \in Nat /\ v <= u /\ u <= A
      BY <1>a, <2>1, <2>3, <3>1
    <3>3. v <= A
      BY <3>2
    <3> QED
      BY <3>1, <3>3
  <2> QED
    BY <2>1, <2>2, <2>3
<1>b. ASSUME NEW R PROVE Asks(f, R) < Modulus
  <2>1. PICK A : A = Asks(f, R)
    OBVIOUS
  <2>2. A \in Nat /\ A <= Everything
    BY <1>4, <2>1, AsksNat
  <2>3. A < Modulus
    BY <1>3, <2>2, Fits
  <2> QED
    BY <2>1, <2>3
<1>10. y.order = [g EXCEPT ![o] = e.left]
  BY <1>1, <1>4, <1>7 DEF GoesOn
<1>11. z.position = x.position /\ z.entries = x.entries
  BY <1>7 DEF SameBooks
<1>c. PICK q : q = z.position[r.code]
  BY Zenon
<1>d. /\ y.entries \in {z.entries \ {a.code}, z.entries \cup {a.code}}
      /\ a.code \notin y.entries => y.position[a.code] = Ctx!NoPosition
      /\ \A c \in Codes \ {a.code} : y.position[c] = z.position[c]
      /\ PostionGoes(z, y, r.code, b0, r.direction, DealtLots(q, r, v))
      /\ r.offset = "open" =>
           /\ PendingGoes(z, y, r.code, r.direction, Ctx!Minus(q.pending[r.direction], v))
           /\ r.code \in y.entries => SameFrozen(z, y)
      /\ r.offset # "open" =>
           /\ SamePending(z, y)
           /\ r.code \in y.entries =>
                FrozenGoes(z, y, r.code, Ctx!BucketOf(r), r.direction,
                           Ctx!Minus(q.frozen[Ctx!BucketOf(r)][r.direction], v))
  <2>1. Deals(z, y, r, v)
    BY <1>2, <1>7, Calculated
  <2> QED
    BY <1>2, <1>c, <2>1 DEF Deals
<1>12. ASSUME NEW c \in Codes, NEW b \in Buckets, NEW d \in Dirs PROVE Shelved(w, y, l, k, c, b, d)
  <2>1. PICK A, B, C, D : /\ A = Asks(f, Sellers(w, c, b, d)) /\ B = Asks(f, Buyers(w, c, d))
                          /\ C = Asks(k, Sellers(w, c, b, d)) /\ D = Asks(k, Buyers(w, c, d))
    OBVIOUS
  <2>2. /\ A \in Nat /\ B \in Nat /\ C \in Nat /\ D \in Nat /\ A < Modulus /\ B < Modulus
        /\ o \in Sellers(w, c, b, d) => v <= A
        /\ o \in Buyers(w, c, d) => v <= B
    BY <1>9, <1>b, <2>1
  <2>3. /\ C = IF o \in Sellers(w, c, b, d) THEN A - v ELSE A
        /\ D = IF o \in Buyers(w, c, d) THEN B - v ELSE B
    BY <1>8, <2>1
  <2>4. /\ x.position[c].postion[b][d] = h[c][b][d] /\ x.position[c].frozen[b][d] = A
        /\ A <= h[c][b][d] /\ x.position[c].pending[d] = B
        /\ c \notin x.entries => h[c][b][d] = 0 /\ B = 0
    BY <2>1 DEF Books, Shelved
  <2>5. PICK m, j : m = h[c][b][d] /\ m \in Nat /\ j = l[c][b][d] /\ j \in Nat
    <3>1. l \in Lots
      BY DEF LotsMove
    <3> QED
      BY <1>4, <3>1, LotsNat
  <2>6. /\ c = a.code /\ b = b0 /\ d = a.direction =>
             j = (IF a.offset = "open" THEN m + v ELSE m - v) /\ j < Modulus
        /\ ~(c = a.code /\ b = b0 /\ d = a.direction) => j = m
    BY <1>1, <2>5 DEF LotsMove, Room
  <2>7. C <= j
    BY <1>3, <2>2, <2>3, <2>4, <2>5, <2>6
  <2>8. y.position[c].postion[b][d] = j
    <3>1. CASE c = a.code /\ b = b0 /\ d = a.direction
      <4>1. q.postion[b][d] = m
        BY <1>2, <1>11, <1>c, <2>4, <2>5, <3>1
      <4>2. DealtLots(q, r, v) = IF a.offset = "open" THEN Ctx!Plus(m, v) ELSE Ctx!Minus(m, v)
        BY <1>2, <3>1, <4>1 DEF DealtLots
      <4>3. DealtLots(q, r, v) = j
        BY <2>5, <2>6, <3>1, <4>2, ConstantsTyped DEF Ctx!Plus, Ctx!Minus
      <4>4. PostionGoes(z, y, c, b, d, j)
        BY <1>2, <1>d, <3>1, <4>3
      <4> QED
        BY <4>4 DEF PostionGoes
    <3>2. CASE ~(c = a.code /\ b = b0 /\ d = a.direction)
      <4>1. y.position[c].postion[b][d] = z.position[c].postion[b][d]
        BY <1>2, <1>d, <3>2 DEF PostionGoes
      <4> QED
        BY <1>11, <2>4, <2>5, <2>6, <3>2, <4>1
    <3> QED
      BY <3>1, <3>2
  <2>9. y.position[c].pending[d] = D
    <3>1. CASE a.offset = "open" /\ c = a.code /\ d = a.direction
      <4>1. q.pending[d] = B
        BY <1>2, <1>11, <1>c, <2>4, <3>1
      <4>2. o \in Buyers(w, c, d)
        BY <1>3, <3>1
      <4>3. Ctx!Minus(B, v) = D
        BY <2>2, <2>3, <4>2, ConstantsTyped DEF Ctx!Minus
      <4>4. PendingGoes(z, y, c, d, D)
        BY <1>2, <1>d, <3>1, <4>1, <4>3
      <4> QED
        BY <4>4 DEF PendingGoes
    <3>2. CASE ~(a.offset = "open" /\ c = a.code /\ d = a.direction)
      <4>1. y.position[c].pending[d] = z.position[c].pending[d]
        <5>1. CASE a.offset = "open"
          BY <1>2, <1>d, <3>2, <5>1 DEF PendingGoes
        <5>2. CASE a.offset # "open"
          BY <1>2, <1>d, <5>2 DEF SamePending
        <5> QED
          BY <5>1, <5>2
      <4>2. o \notin Buyers(w, c, d)
        BY <1>3, <3>2
      <4> QED
        BY <1>11, <2>3, <2>4, <4>1, <4>2
    <3> QED
      BY <3>1, <3>2
  <2>10. y.position[c].frozen[b][d] = C
    <3>1. CASE c # a.code
      BY <1>3, <1>11, <1>d, <2>3, <2>4, <3>1
    <3>2. CASE c = a.code /\ c \notin y.entries
      <4>1. /\ y.position[c].frozen[b][d] = 0 /\ y.position[c].postion[b][d] = 0
        BY <1>d, <3>2, ZeroIs
      <4>2. C <= 0
        BY <2>7, <2>8, <4>1
      <4> QED
        BY <2>2, <4>1, <4>2
    <3>3. CASE c = a.code /\ c \in y.entries /\ a.offset # "open" /\ b = b0 /\ d = a.direction
      <4>1. q.frozen[b][d] = A
        BY <1>2, <1>11, <1>c, <2>4, <3>3
      <4>2. o \in Sellers(w, c, b, d)
        BY <1>3, <3>3
      <4>3. Ctx!Minus(A, v) = C
        BY <2>2, <2>3, <4>2, ConstantsTyped DEF Ctx!Minus
      <4>4. FrozenGoes(z, y, c, b, d, C)
        BY <1>2, <1>d, <3>3, <4>1, <4>3
      <4> QED
        BY <4>4 DEF FrozenGoes
    <3>4. CASE c = a.code /\ c \in y.entries /\ ~(a.offset # "open" /\ b = b0 /\ d = a.direction)
      <4>1. y.position[c].frozen[b][d] = z.position[c].frozen[b][d]
        <5>1. CASE a.offset = "open"
          BY <1>2, <1>d, <3>4, <5>1 DEF SameFrozen
        <5>2. CASE a.offset # "open"
          <6>1. PICK u : u = Ctx!Minus(q.frozen[Ctx!BucketOf(r)][r.direction], v)
            OBVIOUS
          <6>2. FrozenGoes(z, y, c, b0, a.direction, u)
            BY <1>2, <1>d, <3>4, <5>2, <6>1
          <6> QED
            BY <3>4, <5>2, <6>2, SMTT(30) DEF FrozenGoes
        <5> QED
          BY <5>1, <5>2
      <4>2. o \notin Sellers(w, c, b, d)
        BY <1>3, <3>4
      <4> QED
        BY <1>11, <2>3, <2>4, <4>1, <4>2
    <3> QED
      BY <3>1, <3>2, <3>3, <3>4
  <2>11. c \notin y.entries => j = 0 /\ D = 0
    <3>1. CASE c = a.code
      <4>1. c \notin y.entries => y.position[c].postion[b][d] = 0 /\ y.position[c].pending[d] = 0
        BY <1>d, <3>1, ZeroIs
      <4> QED
        BY <2>8, <2>9, <4>1
    <3>2. CASE c # a.code
      BY <1>3, <1>11, <1>d, <2>3, <2>4, <2>5, <2>6, <3>2
    <3> QED
      BY <3>1, <3>2
  <2> QED
    BY <2>1, <2>5, <2>7, <2>8, <2>9, <2>10, <2>11 DEF Shelved
<1>13. l \in Lots
  BY DEF LotsMove
<1>14. Books(w, y, l, [g EXCEPT ![o] = e.left], k)
  BY <1>7, <1>8, <1>10, <1>12, <1>13 DEF Books
<1> QED
  BY <1>5, <1>14

\* A cancel gives back what is still asked for.
LEMMA CancelBooks ==
  ASSUME LotsFit, NEW w, NEW o \in Ids, Plain(w, o), NEW a, a = w.asked[o],
         NEW x, NEW h, NEW g, NEW f, Books(w, x, h, g, f), g[o] # Ctx!Unknown,
         NEW e \in EventsOf(Ids), e.type = "OrderCancel", e.id = o,
         NEW v \in Nat, e.volume = v, v = f[o],
         NEW k, k = [f EXCEPT ![o] = 0]
  PROVE  Books(w, HeardBy(w, x, e), h, [g EXCEPT ![o] = Ctx!Unknown], k)
<1>1. PICK r, b0, t : r = OrderInfoBy(w, o, e.left) /\ b0 = BucketOf(a) /\ t = 0
  OBVIOUS
<1>2. /\ IsOrder(r) /\ r.code = a.code /\ r.direction = a.direction
      /\ r.offset = "open" <=> a.offset = "open"
      /\ a.offset # "open" => Ctx!BucketOf(r) = b0
  <2>1. e.left \in 0..MaxVolume
    BY EventFields
  <2> QED
    BY <1>1, <2>1, InfoMeans
<1>3. /\ a.code \in Codes /\ a.direction \in Dirs /\ b0 \in Buckets
      /\ \A c, b, d : /\ o \in Sellers(w, c, b, d) <=>
                           a.offset # "open" /\ c = a.code /\ b = b0 /\ d = a.direction
                      /\ o \in Buyers(w, c, d) <=> a.offset = "open" /\ c = a.code /\ d = a.direction
  <2>1. /\ a.code \in Codes /\ a.direction \in Dirs /\ BucketOf(a) \in Buckets
        /\ Stands(w, o, a)
    BY Slot
  <2> QED
    BY <1>1, <2>1 DEF Stands
<1>4. x \in Ctxs /\ h \in Lots /\ f \in Wanting /\ x.order = g
  BY DEF Books
<1>5. PICK y : y = HeardBy(w, x, e)
  OBVIOUS
<1>6. y = Ctx!HandleCancel(x, e, r) /\ Ctx!Knows(x, o)
  BY <1>1, <1>4, <1>5, HeardCases DEF Ctx!Knows
<1>7. PICK z : /\ z = Ctx!Release(x, r, v) /\ y \in Ctxs
               /\ SameBooks(z, y) /\ Ended(x, y, o)
  BY <1>2, <1>4, <1>6, CancelIs
<1>8. /\ k \in Wanting
      /\ \A R : /\ o \notin R => Asks(k, R) = Asks(f, R)
                /\ o \in R => Asks(k, R) = Asks(f, R) - v
  <2>1. k \in Wanting /\ Shifts(f, k, o, t)
    <3>1. k = [f EXCEPT ![o] = t]
      BY <1>1
    <3>2. f \in Wanting /\ t \in 0..MaxVolume
      BY <1>1, <1>4, ConstantsTyped
    <3> QED
      BY <3>1, <3>2, AsksChange
  <2>2. \A R : Asks(f, R) \in Nat /\ Asks(f, R) - f[o] + t = Asks(f, R) - v
    BY <1>1, <1>4, AsksNat
  <2> QED
    BY <2>1, <2>2 DEF Shifts
<1>9. \A R : Asks(k, R) \in Nat /\ Asks(f, R) \in Nat /\ (o \in R => v <= Asks(f, R))
  BY <1>4, <1>8, AsksNat
<1>10. \A R : Asks(f, R) < Modulus
  BY <1>3, <1>4, AsksNat, Fits
<1>11. y.order = [g EXCEPT ![o] = Ctx!Unknown]
  BY <1>4, <1>7 DEF Ended
<1>12. y.position = z.position /\ y.entries = z.entries
  BY <1>7 DEF SameBooks
<1>13. ASSUME NEW c \in Codes, NEW b \in Buckets, NEW d \in Dirs PROVE Shelved(w, y, h, k, c, b, d)
  <2>1. PICK A, B, C, D : /\ A = Asks(f, Sellers(w, c, b, d)) /\ B = Asks(f, Buyers(w, c, d))
                          /\ C = Asks(k, Sellers(w, c, b, d)) /\ D = Asks(k, Buyers(w, c, d))
    OBVIOUS
  <2>2. /\ A \in Nat /\ B \in Nat /\ C \in Nat /\ D \in Nat /\ A < Modulus /\ B < Modulus
        /\ o \in Sellers(w, c, b, d) => v <= A
        /\ o \in Buyers(w, c, d) => v <= B
    BY <1>9, <1>10, <2>1
  <2>3. /\ C = IF o \in Sellers(w, c, b, d) THEN A - v ELSE A
        /\ D = IF o \in Buyers(w, c, d) THEN B - v ELSE B
    BY <1>8, <2>1
  <2>4. /\ x.position[c].postion[b][d] = h[c][b][d] /\ x.position[c].frozen[b][d] = A
        /\ A <= h[c][b][d] /\ x.position[c].pending[d] = B
        /\ c \notin x.entries => h[c][b][d] = 0 /\ B = 0
    BY <2>1 DEF Books, Shelved
  <2>5. PICK m : m = h[c][b][d] /\ m \in Nat
    BY <1>4, LotsNat
  <2>6. C <= m /\ (B = 0 => D = 0)
    BY <2>2, <2>3, <2>4, <2>5
  <2>7. CASE a.offset = "open"
    <3>1. /\ z.entries = x.entries /\ SamePostion(x, z) /\ SameFrozen(x, z)
          /\ r.code \notin x.entries => z = x
          /\ r.code \in x.entries =>
               PendingGoes(x, z, r.code, r.direction,
                           Ctx!Minus(x.position[r.code].pending[r.direction], v))
      BY <1>2, <1>4, <1>7, <2>7, ReleaseOpen
    <3>2. y.position[c].postion[b][d] = m /\ y.position[c].frozen[b][d] = A
      BY <1>12, <2>4, <2>5, <3>1 DEF SamePostion, SameFrozen
    <3>3. C = A
      BY <1>3, <2>3, <2>7
    <3>4. y.position[c].pending[d] = D
      <4>1. CASE c = a.code /\ d = a.direction /\ c \in x.entries
        <5>0. o \in Buyers(w, c, d)
          BY <1>3, <2>7, <4>1
        <5>1. Ctx!Minus(B, v) = D
          <6>1. v <= B /\ B < Modulus /\ D = B - v /\ B \in Nat /\ v \in Nat
            BY <2>2, <2>3, <5>0, SMTT(30)
          <6> QED
            BY <6>1, FitsUnwrapped
        <5>2. PendingGoes(x, z, c, d, Ctx!Minus(x.position[c].pending[d], v))
          BY <1>2, <3>1, <4>1, SMTT(30)
        <5> QED
          BY <1>12, <2>4, <5>1, <5>2 DEF PendingGoes
      <4>2. CASE c = a.code /\ d = a.direction /\ c \notin x.entries
        BY <1>2, <1>12, <2>4, <2>6, <3>1, <4>2
      <4>3. CASE ~(c = a.code /\ d = a.direction)
        <5>1. z.position[c].pending[d] = B
          BY <1>2, <2>4, <3>1, <4>3 DEF PendingGoes
        <5> QED
          BY <1>3, <1>12, <2>3, <4>3, <5>1
      <4> QED
        BY <4>1, <4>2, <4>3
    <3> QED
      BY <1>12, <2>1, <2>4, <2>5, <2>6, <3>1, <3>2, <3>3, <3>4 DEF Shelved
  <2>8. CASE a.offset # "open"
    <3>1. PICK q : q = x.position[r.code].frozen[Ctx!BucketOf(r)][r.direction]
      OBVIOUS
    <3>2. /\ z.entries = x.entries /\ SamePostion(x, z) /\ SamePending(x, z)
          /\ r.code \notin x.entries => z = x
          /\ r.code \in x.entries =>
               FrozenGoes(x, z, r.code, Ctx!BucketOf(r), r.direction,
                          IF q > v THEN q - v ELSE 0)
      BY <1>2, <1>4, <1>7, <2>8, <3>1, ReleaseClose
    <3>3. y.position[c].postion[b][d] = m /\ y.position[c].pending[d] = B
      BY <1>12, <2>4, <2>5, <3>2 DEF SamePostion, SamePending
    <3>4. D = B
      BY <1>3, <2>3, <2>8
    <3>5. y.position[c].frozen[b][d] = C
      <4>1. CASE c = a.code /\ b = b0 /\ d = a.direction /\ c \in x.entries
        <5>1. q = A
          BY <1>2, <2>4, <2>8, <3>1, <4>1
        <5>2. (IF q > v THEN q - v ELSE 0) = C
          BY <1>3, <2>2, <2>3, <2>8, <4>1, <5>1
        <5>3. FrozenGoes(x, z, c, b, d, C)
          BY <1>2, <2>8, <3>2, <4>1, <5>2
        <5> QED
          BY <1>12, <5>3, SMTT(30) DEF FrozenGoes
      <4>2. CASE c = a.code /\ c \notin x.entries
        <5>1. A = 0 /\ C = 0
          BY <2>2, <2>4, <2>5, <2>6, <4>2
        <5> QED
          BY <1>2, <1>12, <2>4, <3>2, <4>2, <5>1
      <4>3. CASE ~(c = a.code /\ b = b0 /\ d = a.direction)
        <5>1. z.position[c].frozen[b][d] = A
          BY <1>2, <2>4, <2>8, <3>2, <4>3 DEF FrozenGoes
        <5> QED
          BY <1>3, <1>12, <2>3, <4>3, <5>1
      <4> QED
        BY <4>1, <4>2, <4>3
    <3> QED
      BY <1>12, <2>1, <2>4, <2>5, <2>6, <3>2, <3>3, <3>4, <3>5 DEF Shelved
  <2> QED
    BY <2>7, <2>8
<1>14. Books(w, y, h, [g EXCEPT ![o] = Ctx!Unknown], k)
  BY <1>4, <1>7, <1>8, <1>11, <1>13 DEF Books
<1> QED
  BY <1>5, <1>14

\* The notice of a trade, or of a refusal, forgets the order.
LEMMA EndBooks ==
  ASSUME NEW w, NEW o \in Ids, NEW x, NEW h, NEW g, NEW f, Books(w, x, h, g, f),
         NEW e, e.type \in {"OrderTrade", "OrderError"}, e.id = o
  PROVE  Books(w, HeardBy(w, x, e), h, [g EXCEPT ![o] = Ctx!Unknown], f)
<1>1. x \in Ctxs /\ h \in Lots /\ f \in Wanting /\ x.order = g
  BY DEF Books
<1>2. PICK y : y = HeardBy(w, x, e)
  OBVIOUS
<1>3. y = Ctx!HandleTrade(x, e) \/ y = Ctx!HandleError(x, e)
  BY <1>2, HeardCases
<1>4. y \in Ctxs /\ SameBooks(x, y) /\ Ended(x, y, o)
  BY <1>1, <1>3, TradeIs, ErrorIs
<1>5. y.order = [g EXCEPT ![o] = Ctx!Unknown]
  BY <1>1, <1>4 DEF Ended
<1>6. y.position = x.position /\ y.entries = x.entries
  BY <1>4 DEF SameBooks
<1>7. \A c \in Codes, b \in Buckets, d \in Dirs : Shelved(w, y, h, f, c, b, d)
  BY <1>6 DEF Books, Shelved
<1>8. Books(w, y, h, [g EXCEPT ![o] = Ctx!Unknown], f)
  BY <1>1, <1>4, <1>5, <1>7 DEF Books
<1> QED
  BY <1>2, <1>8

-----------------------------------------------------------------------------
(* What a callback makes of books that agree with an account *)

LEMMA SameLots ==
  ASSUME NEW w, NEW x, NEW h, NEW g, NEW f, Books(w, x, h, g, f), NEW a, NEW l, LotsMove(h, l, a, 0)
  PROVE  Books(w, x, l, g, f)
<1>1. h \in Lots /\ l \in Lots
  BY DEF Books, LotsMove
<1>2. ASSUME NEW c \in Codes, NEW b \in Buckets, NEW d \in Dirs PROVE Shelved(w, x, l, f, c, b, d)
  <2>1. h[c][b][d] \in Nat
    BY <1>1, LotsNat
  <2>2. l[c][b][d] = h[c][b][d]
    BY <2>1 DEF LotsMove
  <2>3. Shelved(w, x, h, f, c, b, d)
    BY DEF Books
  <2> QED
    BY <2>2, <2>3 DEF Shelved
<1> QED
  BY <1>1, <1>2 DEF Books

\* A return's fields, and the order it is about.
Returned(m, o, l) ==
  /\ m.kind = "order" /\ m.id = o /\ m.left \in 0..l
  /\ m.status \in {"working", "traded", "canceled"} /\ (m.status = "traded" <=> m.left = 0)
  /\ m.total \in 1..MaxVolume

LEMMA FiredIn ==
  ASSUME NEW o \in Ids, NEW v \in Nat, NEW n \in 0..MaxVolume, NEW e,
         NEW t \in {"OrderPlace", "OrderDeal", "OrderTrade", "OrderCancel", "OrderError",
                    "CancelError"},
         e = Drv!Fired(t, o, v, n)
  PROVE  e \in EventsOf(Ids) /\ e.type = t /\ e.id = o /\ e.volume = v /\ e.left = n
BY DEF Drv!Fired, EventsOf

LEMMA DealtBooks ==
  ASSUME LotsFit, NEW w, NEW o \in Ids, Plain(w, o), NEW a, a = w.asked[o],
         NEW x, NEW h, NEW g, NEW f, Books(w, x, h, g, f), g[o] # Ctx!Unknown,
         NEW l \in 0..MaxVolume, f[o] = l, NEW n \in 0..MaxVolume, n < l,
         NEW m, m.id = o, m.left = n, NEW v, v = l - n,
         NEW j, LotsMove(h, j, a, v), Room(j, a)
  PROVE  Books(w, Read("context", w, x, Drv!Dealt(m, v)), j, [g EXCEPT ![o] = n], [f EXCEPT ![o] = n])
<1>1. PICK e : e = Drv!Fired("OrderDeal", o, v, n)
  OBVIOUS
<1>2. v \in Nat /\ v <= f[o] /\ f[o] - v = n
  BY ConstantsTyped
<1>3. e \in EventsOf(Ids) /\ e.type = "OrderDeal" /\ e.id = o /\ e.volume = v /\ e.left = n
  BY <1>1, <1>2, FiredIn
<1>4. Read("context", w, x, Drv!Dealt(m, v)) = HeardBy(w, x, e)
  <2>1. Drv!Dealt(m, v) = <<e>>
    BY <1>1 DEF Drv!Dealt
  <2> QED
    BY <2>1, ReadOne DEF Reads
<1>5. PICK k : k = [f EXCEPT ![o] = n]
  OBVIOUS
<1>6. k = [f EXCEPT ![o] = f[o] - v]
  BY <1>2, <1>5
<1>7. Books(w, HeardBy(w, x, e), j, [g EXCEPT ![o] = e.left], k)
  BY <1>2, <1>3, <1>6, DealBooks
<1> QED
  BY <1>3, <1>4, <1>5, <1>7

LEMMA OverBooks ==
  ASSUME LotsFit, NEW w, NEW o \in Ids, Plain(w, o),
         NEW x, NEW h, NEW g, NEW f, Books(w, x, h, g, f), g[o] # Ctx!Unknown,
         NEW l \in 0..MaxVolume, NEW m, Returned(m, o, l), Drv!IsOver(m), m.left = f[o]
  PROVE  Books(w, Read("context", w, x, Drv!Over(m)), h, [g EXCEPT ![o] = Ctx!Unknown], [f EXCEPT ![o] = 0])
<1>1. /\ m.id = o /\ m.left \in 0..MaxVolume /\ m.left \in Nat /\ m.total \in Nat /\ 0 \in 0..MaxVolume
      /\ m.status \in {"traded", "canceled"} /\ (m.status = "traded" => m.left = 0)
  BY ConstantsTyped DEF Returned, Drv!IsOver
<1>2. CASE m.status = "traded"
  <2>1. PICK e : e = Drv!Fired("OrderTrade", o, m.total, 0)
    OBVIOUS
  <2>2. e.type = "OrderTrade" /\ e.id = o
    BY <1>1, <2>1, FiredIn
  <2>3. Read("context", w, x, Drv!Over(m)) = HeardBy(w, x, e)
    <3>1. Drv!Over(m) = <<e>>
      BY <1>1, <1>2, <2>1 DEF Drv!Over
    <3> QED
      BY <3>1, ReadOne DEF Reads
  <2>4. Books(w, HeardBy(w, x, e), h, [g EXCEPT ![o] = Ctx!Unknown], f)
    BY <2>2, EndBooks
  <2>5. [f EXCEPT ![o] = 0] = f
    BY <1>1, <1>2 DEF Books, Wanting
  <2> QED
    BY <2>3, <2>4, <2>5
<1>3. CASE m.status = "canceled"
  <2>1. PICK e, v : e = Drv!Fired("OrderCancel", o, v, m.left) /\ v = m.left
    OBVIOUS
  <2>2. e \in EventsOf(Ids) /\ e.type = "OrderCancel" /\ e.id = o /\ e.volume = v
    BY <1>1, <2>1, FiredIn
  <2>3. Read("context", w, x, Drv!Over(m)) = HeardBy(w, x, e)
    <3>1. Drv!Over(m) = <<e>>
      BY <1>1, <1>3, <2>1 DEF Drv!Over
    <3> QED
      BY <3>1, ReadOne DEF Reads
  <2>4. PICK k, a : k = [f EXCEPT ![o] = 0] /\ a = w.asked[o]
    OBVIOUS
  <2>5. v \in Nat /\ v = f[o]
    BY <1>1, <2>1
  <2>6. Books(w, HeardBy(w, x, e), h, [g EXCEPT ![o] = Ctx!Unknown], k)
    BY <2>2, <2>4, <2>5, CancelBooks
  <2> QED
    BY <2>3, <2>4, <2>6
<1> QED
  BY <1>1, <1>2, <1>3

\* The return of an order that had l lots left.
LEMMA NoticesBooks ==
  ASSUME LotsFit, NEW w, NEW o \in Ids, Plain(w, o), NEW a, a = w.asked[o],
         NEW x, NEW h, NEW g, NEW f, Books(w, x, h, g, f),
         NEW l \in 0..MaxVolume, g[o] = l, f[o] = l, NEW m \in MessagesOf(Ids), Returned(m, o, l),
         NEW v, v = l - m.left, NEW j, LotsMove(h, j, a, v), Room(j, a)
  PROVE  Books(w, Read("context", w, x, Notices(m, l)), j,
               [g EXCEPT ![o] = IF Drv!IsOver(m) THEN Drv!Unknown ELSE m.left],
               [f EXCEPT ![o] = IF Drv!IsOver(m) THEN 0 ELSE m.left])
<1>1. PICK n : n = m.left
  OBVIOUS
<1>2. n \in 0..MaxVolume /\ n <= l /\ n \in Int /\ l \in Int /\ v \in Nat /\ m.id = o /\ m.kind = "order"
  BY <1>1, ConstantsTyped DEF Returned
<1>3. PICK r, s : /\ r = IF m.left < l THEN Drv!Dealt(m, l - m.left) ELSE <<>>
                  /\ s = IF Drv!IsOver(m) THEN Drv!Over(m) ELSE <<>>
  OBVIOUS
<1>4. r \in Seq(EventsOf(Ids)) /\ s \in Seq(EventsOf(Ids))
  <2>1. /\ Drv!Dealt(m, v) \in Seq(EventsOf(Ids)) /\ Drv!Over(m) \in Seq(EventsOf(Ids))
    BY <1>2, DealtTyped
  <2>2. <<>> \in Seq(EventsOf(Ids))
    BY <2>1, ConcatTyped
  <2> QED
    BY <1>3, <2>1, <2>2
<1>5. PICK y, z : y = Read("context", w, x, r) /\ z = Read("context", w, y, s)
  OBVIOUS
<1>6. Read("context", w, x, Notices(m, l)) = z
  <2>1. Notices(m, l) = r \o s
    BY <1>3 DEF Notices
  <2>2. Read("context", w, x, r \o s) = Read("context", w, Read("context", w, x, r), s)
    BY <1>4, ReadBoth
  <2> QED
    BY <1>5, <2>1, <2>2
<1>7. PICK gy, fy : gy = [g EXCEPT ![o] = n] /\ fy = [f EXCEPT ![o] = n]
  OBVIOUS
<1>8. /\ g \in [Ids -> -1..MaxVolume] /\ f \in [Ids -> 0..MaxVolume]
      /\ gy[o] # Ctx!Unknown /\ fy[o] = n
      /\ \A i : [gy EXCEPT ![o] = i] = [g EXCEPT ![o] = i]
      /\ \A i : [fy EXCEPT ![o] = i] = [f EXCEPT ![o] = i]
  <2>1. g \in [Ids -> -1..MaxVolume] /\ f \in [Ids -> 0..MaxVolume]
    BY DEF Books, Wanting, Ctxs
  <2>2. n # Ctx!Unknown
    BY <1>2, ConstantsTyped DEF Ctx!Unknown
  <2> QED
    BY <1>7, <2>1, <2>2
<1>9. Books(w, y, j, gy, fy)
  <2>1. CASE n < l
    <3>1. y = Read("context", w, x, Drv!Dealt(m, v))
      BY <1>1, <1>3, <1>5, <2>1
    <3>2. g[o] # Ctx!Unknown
      BY ConstantsTyped DEF Ctx!Unknown
    <3> QED
      BY <1>1, <1>2, <1>7, <2>1, <3>1, <3>2, DealtBooks
  <2>2. CASE ~(n < l)
    <3>1. n = l /\ v = 0 /\ fy = f /\ gy = g
      BY <1>1, <1>2, <1>7, <1>8, <2>2
    <3>2. y = x
      BY <1>1, <1>3, <1>5, <2>2, ReadNothing
    <3>3. Books(w, x, j, g, f)
      BY <3>1, SameLots
    <3> QED
      BY <3>1, <3>2, <3>3
  <2> QED
    BY <2>1, <2>2
<1>10. CASE Drv!IsOver(m)
  <2>1. z = Read("context", w, y, Drv!Over(m))
    BY <1>3, <1>5, <1>10
  <2>2. m.left = fy[o]
    BY <1>1, <1>8
  <2>3. Books(w, Read("context", w, y, Drv!Over(m)), j, [gy EXCEPT ![o] = Ctx!Unknown], [fy EXCEPT ![o] = 0])
    BY <1>8, <1>9, <1>10, <2>2, OverBooks
  <2>4. Ctx!Unknown = Drv!Unknown
    BY DEF Ctx!Unknown, Drv!Unknown
  <2> QED
    BY <1>6, <1>8, <1>10, <2>1, <2>3, <2>4
<1>11. CASE ~Drv!IsOver(m)
  <2>1. z = y
    BY <1>3, <1>5, <1>11, ReadNothing
  <2> QED
    BY <1>1, <1>6, <1>7, <1>9, <1>11, <2>1
<1> QED
  BY <1>10, <1>11

\* The first return of an order that tells of nothing but its entrust, or through
\* TAP of a deal as well.
LEMMA EntrustsBooks ==
  ASSUME LotsFit, NEW w, NEW o \in Ids, Plain(w, o), NEW a, a = w.asked[o],
         NEW x, NEW h, NEW g, NEW f, Books(w, x, h, g, f), f[o] = 0, Affords(a, w, h, f),
         NEW m \in MessagesOf(Ids), Returned(m, o, a.total), m.total = a.total,
         NEW p, p = "ctp" => m.left = a.total,
         NEW v, v = a.total - m.left, NEW j, LotsMove(h, j, a, v), Room(j, a)
  PROVE  Books(w, Read("context", w, x, Entrusts(p, m)), j,
               [g EXCEPT ![o] = m.left], [f EXCEPT ![o] = m.left])
<1>1. PICK n, l : n = m.left /\ l = a.total
  OBVIOUS
<1>2. /\ l \in 0..MaxVolume /\ l \in 1..MaxVolume /\ n \in 0..MaxVolume /\ n <= l
      /\ n \in Nat /\ l \in Nat /\ v \in Nat
      /\ m.id = o /\ m.kind = "order" /\ m.total = l
  <2>1. a.total \in 1..MaxVolume
    BY DEF Plain, Asked
  <2> QED
    BY <1>1, <2>1, ConstantsTyped DEF Returned
<1>3. PICK e, r, s : /\ e = Drv!Fired("OrderPlace", o, l, n) /\ r = Drv!Placed(m)
                     /\ s = IF m.left < m.total
                            THEN Drv!Dealt(m, IF p = "ctp" THEN m.left ELSE m.total - m.left) ELSE <<>>
  OBVIOUS
<1>4. s = IF n < l THEN Drv!Dealt(m, v) ELSE <<>>
  BY <1>1, <1>2, <1>3
<1>5. r \in Seq(EventsOf(Ids)) /\ s \in Seq(EventsOf(Ids)) /\ r = <<e>>
  <2>1. Drv!Dealt(m, v) \in Seq(EventsOf(Ids)) /\ Drv!Placed(m) \in Seq(EventsOf(Ids))
    BY <1>2, DealtTyped
  <2>2. <<>> \in Seq(EventsOf(Ids))
    BY <2>1, ConcatTyped
  <2> QED
    BY <1>1, <1>2, <1>3, <1>4, <2>1, <2>2 DEF Drv!Placed
<1>6. PICK y, z : y = Read("context", w, x, r) /\ z = Read("context", w, y, s)
  OBVIOUS
<1>7. Read("context", w, x, Entrusts(p, m)) = z
  <2>1. Entrusts(p, m) = r \o s
    BY <1>3 DEF Entrusts
  <2>2. r \in Seq(EventsOf(Ids)) /\ s \in Seq(EventsOf(Ids))
    BY <1>5
  <2>3. Read("context", w, x, r \o s) = Read("context", w, Read("context", w, x, r), s)
    BY <2>2, ReadBoth
  <2> QED
    BY <1>6, <2>1, <2>3
<1>8. PICK gy, fy : gy = [g EXCEPT ![o] = n] /\ fy = [f EXCEPT ![o] = l]
  OBVIOUS
<1>9. /\ g \in [Ids -> -1..MaxVolume] /\ f \in [Ids -> 0..MaxVolume]
      /\ gy[o] # Ctx!Unknown /\ fy[o] = l
      /\ [gy EXCEPT ![o] = n] = [g EXCEPT ![o] = n]
      /\ [fy EXCEPT ![o] = n] = [f EXCEPT ![o] = n]
  <2>1. g \in [Ids -> -1..MaxVolume] /\ f \in [Ids -> 0..MaxVolume]
    BY DEF Books, Wanting, Ctxs
  <2>2. n # Ctx!Unknown
    BY <1>2, ConstantsTyped DEF Ctx!Unknown
  <2> QED
    BY <1>8, <2>1, <2>2
<1>10. Books(w, y, h, gy, fy)
  <2>1. e \in EventsOf(Ids) /\ e.type = "OrderPlace" /\ e.id = o /\ e.left = n
    BY <1>2, <1>3, FiredIn
  <2>2. y = HeardBy(w, x, e)
    BY <1>5, <1>6, ReadOne DEF Reads
  <2>3. fy = [f EXCEPT ![o] = a.total]
    BY <1>1, <1>8
  <2>4. Books(w, HeardBy(w, x, e), h, [g EXCEPT ![o] = e.left], fy)
    BY <2>1, <2>3, EntrustBooks
  <2> QED
    BY <1>8, <2>1, <2>2, <2>4
<1>11. CASE n < l
  <2>1. z = Read("context", w, y, Drv!Dealt(m, v))
    BY <1>4, <1>6, <1>11
  <2>2. m.left = n /\ v = l - n
    BY <1>1
  <2>3. Books(w, Read("context", w, y, Drv!Dealt(m, v)), j, [gy EXCEPT ![o] = n], [fy EXCEPT ![o] = n])
    BY <1>2, <1>9, <1>10, <1>11, <2>2, DealtBooks
  <2> QED
    BY <1>1, <1>7, <1>9, <2>1, <2>3
<1>12. CASE ~(n < l)
  <2>1. n = l /\ v = 0
    BY <1>1, <1>2, <1>12
  <2>2. z = y
    BY <1>4, <1>6, <1>12, ReadNothing
  <2>3. Books(w, y, j, gy, fy)
    BY <1>10, <2>1, SameLots
  <2> QED
    BY <1>1, <1>7, <1>8, <2>1, <2>2, <2>3
<1> QED
  BY <1>11, <1>12

\* A refused placement, of an order the context does not have.
LEMMA RefusalsBooks ==
  ASSUME NEW w, NEW o \in Ids, NEW x, NEW h, NEW g, NEW f, Books(w, x, h, g, f), g[o] = Ctx!Unknown,
         NEW r \in Refusals(o)
  PROVE  Books(w, Read("context", w, x, r), h, g, f)
<1>1. PICK e, s : e = Drv!PlaceRefused(o) /\ s = <<e>>
  OBVIOUS
<1>2. e.type \in {"OrderTrade", "OrderError"} /\ e.id = o /\ e \in EventsOf(Ids)
  BY <1>1, RefusedTyped DEF Drv!PlaceRefused, Drv!Fired
<1>3. [g EXCEPT ![o] = Ctx!Unknown] = g
  BY DEF Books, Ctxs
<1>4. \A z : Books(w, z, h, g, f) => Books(w, HeardBy(w, z, e), h, g, f)
  BY <1>2, <1>3, EndBooks
<1>5. \A z : Read("context", w, z, s) = HeardBy(w, z, e)
  BY <1>1, ReadOne DEF Reads
<1>6. s \in Seq(EventsOf(Ids))
  <2>1. \A S : \A q \in S : <<q>> \in Seq(S)
    OBVIOUS
  <2> QED
    BY <1>1, <1>2, <2>1
<1>7. Read("context", w, x, s \o s) = Read("context", w, Read("context", w, x, s), s)
  BY <1>6, ReadBoth
<1>8. r = s \/ r = s \o s
  BY <1>1 DEF Refusals
<1> QED
  BY <1>4, <1>5, <1>7, <1>8

\* A refused cancel, of which the driver tells at most that.
LEMMA CancelRefusalBooks ==
  ASSUME NEW w, NEW o, NEW x, NEW r \in CancelRefusals(o)
  PROVE  Read("context", w, x, r) = x
<1>1. PICK e : e = Drv!CancelRefused(o)
  OBVIOUS
<1>2. e.type = "CancelError"
  BY <1>1 DEF Drv!CancelRefused, Drv!Fired
<1>3. Read("context", w, x, <<e>>) = x
  BY <1>2, ReadOne, HeardCases DEF Reads
<1> QED
  BY <1>1, <1>3, ReadNothing DEF CancelRefusals

-----------------------------------------------------------------------------
(* The listeners and the conditions of a context change nothing in its books. *)

SameLedger(x, y) == x \in Ctxs /\ y \in Ctxs /\ SameBooks(x, y) /\ y.order = x.order

LEMMA ReserveAlike ==
  ASSUME NEW x, NEW y, SameLedger(x, y), NEW r, NEW v
  PROVE  LET p == Ctx!Reserve(x, r, v)
             q == Ctx!Reserve(y, r, v)
         IN SameBooks(p, q) /\ q.order = p.order
BY DEF SameLedger, Ctxs, SameBooks, Ctx!Reserve

LEMMA ReleaseAlike ==
  ASSUME NEW x, NEW y, SameLedger(x, y), NEW r, NEW v
  PROVE  LET p == Ctx!Release(x, r, v)
             q == Ctx!Release(y, r, v)
         IN SameBooks(p, q) /\ q.order = p.order
BY DEF SameLedger, Ctxs, SameBooks, Ctx!Release

LEMMA CalculateAlike ==
  ASSUME NEW x, NEW y, SameLedger(x, y), NEW r, NEW v
  PROVE  LET p == Ctx!CalculatePosition(x, r, v)
             q == Ctx!CalculatePosition(y, r, v)
         IN SameBooks(p, q) /\ q.order = p.order
BY DEF SameLedger, Ctxs, SameBooks, Ctx!CalculatePosition

LEMMA OrderAlike ==
  ASSUME NEW x, NEW y, SameLedger(x, y), NEW o \in Ids, NEW n \in -1..MaxVolume
  PROVE  SameLedger(SetOrder(x, o, n), SetOrder(y, o, n))
<1>1. PICK p, q : p = SetOrder(x, o, n) /\ q = SetOrder(y, o, n)
  OBVIOUS
<1>2. x \in Ctxs /\ y \in Ctxs
  BY DEF SameLedger
<1>3. p \in Ctxs /\ SameBooks(x, p) /\ OrderGoes(x, p, o, n)
  BY <1>1, <1>2, OrderSet
<1>4. q \in Ctxs /\ SameBooks(y, q) /\ OrderGoes(y, q, o, n)
  BY <1>1, <1>2, OrderSet
<1> QED
  BY <1>1, <1>3, <1>4 DEF SameLedger, SameBooks, OrderGoes

LEMMA HeardAlike ==
  ASSUME NEW w, NEW x, NEW y, SameLedger(x, y), NEW e \in EventsOf(Ids), w.asked[e.id] \in Asked
  PROVE  SameLedger(HeardBy(w, x, e), HeardBy(w, y, e))
<1>1. x \in Ctxs /\ y \in Ctxs /\ HeardBy(w, x, e) \in Ctxs /\ HeardBy(w, y, e) \in Ctxs
  BY HeardIs DEF SameLedger
<1>2. PICK o, r, n, p, q : /\ o = e.id /\ r = OrderInfoBy(w, e.id, e.left) /\ n = e.left
                           /\ p = HeardBy(w, x, e) /\ q = HeardBy(w, y, e)
  OBVIOUS
<1>3. /\ o \in Ids /\ e.volume \in Nat /\ n \in -1..MaxVolume /\ r.last = n
      /\ e.type \in {"OrderPlace", "OrderDeal", "OrderTrade", "OrderCancel", "OrderError", "CancelError"}
  <2>1. e.left \in 0..MaxVolume
    BY EventFields
  <2> QED
    BY <1>2, <2>1, EventFields, InfoFields
<1>4. \A i \in -1..MaxVolume : SameLedger(SetOrder(x, o, i), SetOrder(y, o, i))
  BY <1>3, OrderAlike
<1>5. \A i, j \in Ctxs : SameBooks(i, j) /\ j.order = i.order =>
        /\ SameBooks(Ctx!Forget(i, o), Ctx!Forget(j, o))
        /\ Ctx!Forget(i, o).order = Ctx!Forget(j, o).order
  BY <1>3, ForgetIs DEF SameBooks
<1>6. Ctx!Knows(x, o) <=> Ctx!Knows(y, o)
  BY DEF SameLedger, Ctx!Knows
<1>7. -1 \in -1..MaxVolume
  BY ConstantsTyped
<1>8. SameBooks(p, q) /\ q.order = p.order
  <2>1. CASE e.type = "OrderPlace"
    <3>1. p = Ctx!Reserve(SetOrder(x, o, n), r, r.total) /\ q = Ctx!Reserve(SetOrder(y, o, n), r, r.total)
      BY <1>2, <2>1, HeardCases DEF Ctx!Entrust, SetOrder
    <3> QED
      BY <1>3, <1>4, <3>1, ReserveAlike
  <2>2. CASE e.type = "OrderDeal"
    <3>1. /\ p = IF ~Ctx!Knows(x, o) THEN x
                 ELSE Ctx!CalculatePosition(SetOrder(x, o, n), r, e.volume)
          /\ q = IF ~Ctx!Knows(y, o) THEN y
                 ELSE Ctx!CalculatePosition(SetOrder(y, o, n), r, e.volume)
      BY <1>2, <1>3, <2>2, HeardCases DEF Ctx!HandleDeal, SetOrder
    <3> QED
      BY <1>3, <1>4, <1>6, <3>1, CalculateAlike DEF SameLedger
  <2>3. CASE e.type \in {"OrderTrade", "OrderError"}
    <3>1. p = Ctx!Forget(SetOrder(x, o, -1), o) /\ q = Ctx!Forget(SetOrder(y, o, -1), o)
      BY <1>2, <2>3, HeardCases DEF Ctx!HandleTrade, Ctx!HandleError, SetOrder, Ctx!Unknown
    <3> QED
      BY <1>4, <1>5, <1>7, <3>1 DEF SameLedger
  <2>4. CASE e.type = "OrderCancel"
    <3>1. PICK u, v : u = Ctx!Release(x, r, e.volume) /\ v = Ctx!Release(y, r, e.volume)
      OBVIOUS
    <3>2. /\ p = Ctx!Forget(IF ~Ctx!Knows(x, o) THEN x ELSE SetOrder(u, o, -1), o)
          /\ q = Ctx!Forget(IF ~Ctx!Knows(y, o) THEN y ELSE SetOrder(v, o, -1), o)
      BY <1>2, <2>4, <3>1, HeardCases DEF Ctx!HandleCancel, SetOrder, Ctx!Unknown
    <3>3. u \in Ctxs /\ v \in Ctxs
      <4>1. IsOrder(r)
        BY <1>2, EventFields, InfoIsOrder
      <4> QED
        BY <1>1, <1>3, <3>1, <4>1, ReleaseOpen, ReleaseClose
    <3>4. SameLedger(u, v)
      BY <3>1, <3>3, ReleaseAlike DEF SameLedger
    <3>5. SameLedger(SetOrder(u, o, -1), SetOrder(v, o, -1))
      BY <1>3, <1>7, <3>4, OrderAlike
    <3> QED
      BY <1>5, <1>6, <3>2, <3>5 DEF SameLedger
  <2>5. CASE e.type = "CancelError"
    <3>1. p = x /\ q = y
      BY <1>2, <2>5, HeardCases
    <3> QED
      BY <3>1 DEF SameLedger
  <2> QED
    BY <1>3, <2>1, <2>2, <2>3, <2>4, <2>5
<1> QED
  BY <1>1, <1>2, <1>8 DEF SameLedger

LEMMA ReadAlike ==
  ASSUME NEW S \in SUBSET Ids, NEW w, \A o \in S : w.asked[o] \in Asked,
         NEW x, NEW y, SameLedger(x, y), NEW s \in Seq(EventsOf(S))
  PROVE  SameLedger(Read("context", w, x, s), Read("context", w, y, s))
<1> DEFINE X(r) == Read("context", w, x, r)
           Y(r) == Read("context", w, y, r)
           Bad == {r \in Seq(EventsOf(S)) : ~SameLedger(X(r), Y(r))}
<1>1. SameLedger(X(<<>>), Y(<<>>))
  BY ReadNothing
<1>2. ASSUME NEW r \in Seq(EventsOf(S)), NEW e \in EventsOf(S)
      PROVE  X(Append(r, e)) = HeardBy(w, X(r), e) /\ Y(Append(r, e)) = HeardBy(w, Y(r), e)
  BY ReadMore DEF Reads
<1> HIDE DEF X, Y
<1>3. Bad = {}
  <2> SUFFICES ASSUME Bad # {} PROVE FALSE
    OBVIOUS
  <2>1. PICK r \in Seq(EventsOf(S)), e \in EventsOf(S) : Append(r, e) \in Bad /\ r \notin Bad
    <3>1. Bad \subseteq Seq(EventsOf(S)) /\ <<>> \notin Bad
      BY <1>1
    <3> HIDE DEF Bad
    <3> QED
      BY <3>1, Shortest
  <2>2. w.asked[e.id] \in Asked /\ SameLedger(X(r), Y(r)) /\ e \in EventsOf(Ids)
    BY <2>1, EventFields DEF EventsOf
  <2>3. SameLedger(HeardBy(w, X(r), e), HeardBy(w, Y(r), e))
    BY <2>2, HeardAlike
  <2> QED
    BY <1>2, <2>1, <2>3
<1> QED
  BY <1>3 DEF X, Y

-----------------------------------------------------------------------------
(* What the books come out as *)

\* The context once it has heard everything: Drained, as what is read.
Final == Read("context", World, ctx, Driven.events)

\* What is waited for at the exchange, and the orders as the context is to know
\* them.
Lefts == [o \in Ids |-> IF exch[o].status = "working" THEN exch[o].left ELSE 0]

Shown == [o \in Ids |-> IF exch[o].status = "working" THEN exch[o].left ELSE Ctx!Unknown]

\* What order o could still add to the lots that are held.
Mays ==
  [o \in Ids |-> IF exch[o].status = "none" THEN MaxVolume
                 ELSE IF exch[o].status \in {"sent", "working"} THEN exch[o].left ELSE 0]

PlainInv == \A o \in Active : Plain(World, o)

BoundInv ==
  \A c \in Codes, b \in Buckets, d \in Dirs :
    holding[c][b][d] + Asks(Mays, Ids) <= Holding[c][b][d] + Everything

\* A driver has seen no order of which it has not fired an event, and nothing
\* takes its events before the load.
FreshInv == session # "running" /\ queue = <<>> /\ firing = <<>> => adapter = Drv!NoOrders

Settled ==
  /\ Driven.adapter.order = Shown
  /\ Books(World, Final, holding, Shown, Lefts)

SettledInv == session = "running" /\ gaps = {} /\ misread = {} => Settled

SInv == TInv /\ PlainInv /\ BoundInv /\ FreshInv /\ SettledInv

LEMMA WantsTyped ==
  OrdersTyped =>
    /\ Mays \in Wanting /\ Lefts \in Wanting /\ Shown \in [Ids -> -1..MaxVolume]
    /\ \A o \in Ids :
         /\ Mays[o] = IF exch[o].status = "none" THEN MaxVolume
                      ELSE IF exch[o].status \in {"sent", "working"} THEN exch[o].left ELSE 0
         /\ Lefts[o] = IF exch[o].status = "working" THEN exch[o].left ELSE 0
         /\ Shown[o] = IF exch[o].status = "working" THEN exch[o].left ELSE -1
<1> SUFFICES ASSUME OrdersTyped
             PROVE  /\ Mays \in Wanting /\ Lefts \in Wanting /\ Shown \in [Ids -> -1..MaxVolume]
                    /\ \A o \in Ids :
                         /\ Mays[o] = IF exch[o].status = "none" THEN MaxVolume
                                      ELSE IF exch[o].status \in {"sent", "working"} THEN exch[o].left ELSE 0
                         /\ Lefts[o] = IF exch[o].status = "working" THEN exch[o].left ELSE 0
                         /\ Shown[o] = IF exch[o].status = "working" THEN exch[o].left ELSE -1
  OBVIOUS
<1>1. \A o \in Ids : exch[o].left \in 0..MaxVolume /\ exch[o].left \in -1..MaxVolume
  BY ConstantsTyped DEF OrdersTyped
<1>2. MaxVolume \in 0..MaxVolume /\ 0 \in 0..MaxVolume /\ -1 \in -1..MaxVolume
  BY ConstantsTyped
<1> QED
  BY <1>1, <1>2 DEF Mays, Lefts, Shown, Wanting, Ctx!Unknown

LEMMA WantsTypedNext ==
  (OrdersTyped =>
    /\ Mays \in Wanting /\ Lefts \in Wanting /\ Shown \in [Ids -> -1..MaxVolume]
    /\ \A o \in Ids :
         /\ Mays[o] = IF exch[o].status = "none" THEN MaxVolume
                      ELSE IF exch[o].status \in {"sent", "working"} THEN exch[o].left ELSE 0
         /\ Lefts[o] = IF exch[o].status = "working" THEN exch[o].left ELSE 0
         /\ Shown[o] = IF exch[o].status = "working" THEN exch[o].left ELSE -1)'
BY WantsTyped, PTL

\* One order changes.
LEMMA WantsChange ==
  ASSUME OrdersTyped, OrdersTyped', NEW o \in Ids, \A p \in Ids \ {o} : exch'[p] = exch[p]
  PROVE  /\ Mays' = [Mays EXCEPT ![o] = Mays'[o]]
         /\ Lefts' = [Lefts EXCEPT ![o] = IF exch'[o].status = "working" THEN exch'[o].left ELSE 0]
         /\ Shown' = [Shown EXCEPT ![o] = IF exch'[o].status = "working" THEN exch'[o].left ELSE -1]
<1>1. /\ Mays \in Wanting /\ Lefts \in Wanting /\ Shown \in [Ids -> -1..MaxVolume]
      /\ \A p \in Ids :
           /\ Mays[p] = IF exch[p].status = "none" THEN MaxVolume
                        ELSE IF exch[p].status \in {"sent", "working"} THEN exch[p].left ELSE 0
           /\ Lefts[p] = IF exch[p].status = "working" THEN exch[p].left ELSE 0
           /\ Shown[p] = IF exch[p].status = "working" THEN exch[p].left ELSE -1
  BY WantsTyped
<1>2. /\ Mays' \in Wanting /\ Lefts' \in Wanting /\ Shown' \in [Ids -> -1..MaxVolume]
      /\ \A p \in Ids :
           /\ Mays'[p] = IF exch'[p].status = "none" THEN MaxVolume
                         ELSE IF exch'[p].status \in {"sent", "working"} THEN exch'[p].left ELSE 0
           /\ Lefts'[p] = IF exch'[p].status = "working" THEN exch'[p].left ELSE 0
           /\ Shown'[p] = IF exch'[p].status = "working" THEN exch'[p].left ELSE -1
  BY WantsTypedNext
<1>3. ASSUME NEW f, NEW g, NEW S, f \in [Ids -> S], g \in [Ids -> S],
             \A p \in Ids \ {o} : g[p] = f[p]
      PROVE  g = [f EXCEPT ![o] = g[o]]
  BY <1>3
<1>4. \A p \in Ids \ {o} : Mays'[p] = Mays[p] /\ Lefts'[p] = Lefts[p] /\ Shown'[p] = Shown[p]
  BY <1>1, <1>2
<1>5. /\ Mays' = [Mays EXCEPT ![o] = Mays'[o]] /\ Lefts' = [Lefts EXCEPT ![o] = Lefts'[o]]
      /\ Shown' = [Shown EXCEPT ![o] = Shown'[o]]
  <2> HIDE DEF Mays, Lefts, Shown
  <2> QED
    BY <1>1, <1>2, <1>3, <1>4 DEF Wanting
<1> QED
  BY <1>2, <1>5

\* What is added to the lots that are held could be added.
LEMMA BoundGoes ==
  ASSUME OrdersTyped, OrdersTyped', NotOversold, NotOversold', BoundInv, NEW o \in Ids,
         \A p \in Ids \ {o} : exch'[p] = exch[p],
         NEW u \in Nat, Mays'[o] + u <= Mays[o],
         \A c \in Codes, b \in Buckets, d \in Dirs : holding'[c][b][d] <= holding[c][b][d] + u
  PROVE  BoundInv'
<1>1. PICK f, k, n : f = Mays /\ k = Mays' /\ n = Mays'[o]
  OBVIOUS
<1>2. f \in Wanting /\ k \in Wanting /\ n \in 0..MaxVolume /\ n = k[o] /\ k = [f EXCEPT ![o] = n]
  <2>1. Mays \in Wanting
    BY WantsTyped
  <2>2. Mays' \in Wanting
    BY WantsTypedNext
  <2>3. Mays' = [Mays EXCEPT ![o] = Mays'[o]]
    BY WantsChange
  <2> QED
    BY <1>1, <2>1, <2>2, <2>3 DEF Wanting
<1>3. Asks(k, Ids) = Asks(f, Ids) - f[o] + n
  BY <1>2, AsksChange DEF Shifts
<1>4. Asks(f, Ids) \in Nat /\ f[o] \in Nat /\ n \in Nat /\ Asks(k, Ids) \in Nat
  <2>1. Asks(f, Ids) \in Nat /\ Asks(k, Ids) \in Nat
    BY <1>2, AsksNat
  <2>2. f[o] \in 0..MaxVolume
    BY <1>2 DEF Wanting
  <2> QED
    BY <1>2, <2>1, <2>2, ConstantsTyped
<1>5. Asks(k, Ids) + u <= Asks(f, Ids)
  BY <1>1, <1>3, <1>4
<1>6. ASSUME NEW c \in Codes, NEW b \in Buckets, NEW d \in Dirs
      PROVE  holding'[c][b][d] + Asks(k, Ids) <= Holding[c][b][d] + Everything
  <2>1. holding[c][b][d] \in Nat /\ holding'[c][b][d] \in Nat /\ Holding[c][b][d] \in Nat
    BY HoldingTyped, LotsNat DEF NotOversold
  <2>2. holding[c][b][d] + Asks(f, Ids) <= Holding[c][b][d] + Everything
    BY <1>1 DEF BoundInv
  <2>3. holding'[c][b][d] <= holding[c][b][d] + u
    OBVIOUS
  <2> QED
    BY <1>4, <1>5, <2>1, <2>2, <2>3, EverythingNat
<1> QED
  BY <1>1, <1>6 DEF BoundInv

LEMMA BoundRoom ==
  ASSUME LotsFit, NotOversold, OrdersTyped, BoundInv,
         NEW c \in Codes, NEW b \in Buckets, NEW d \in Dirs
  PROVE  holding[c][b][d] < Modulus
<1>1. holding[c][b][d] \in Nat /\ Holding[c][b][d] \in Nat
  BY HoldingTyped, LotsNat DEF NotOversold
<1>2. Asks(Mays, Ids) \in Nat
  BY WantsTyped, AsksNat
<1>3. holding[c][b][d] + Asks(Mays, Ids) <= Holding[c][b][d] + Everything
  BY DEF BoundInv
<1>4. Holding[c][b][d] + Everything < Modulus
  BY DEF LotsFit
<1> QED
  BY <1>1, <1>2, <1>3, <1>4, EverythingNat, ConstantsTyped

Roomy == LotsFit => \A c \in Codes, b \in Buckets, d \in Dirs : holding[c][b][d] < Modulus

LEMMA BoundIsRoomy == NotOversold /\ OrdersTyped /\ BoundInv => Roomy
BY BoundRoom DEF Roomy

LEMMA BoundIsRoomyNext == (NotOversold /\ OrdersTyped /\ BoundInv => Roomy)'
BY BoundIsRoomy, PTL

LEMMA BoundSame ==
  ASSUME BoundInv, UNCHANGED <<exch, holding>> PROVE BoundInv'
BY DEF BoundInv, Mays

-----------------------------------------------------------------------------
(* What orders mean, and what a fresh driver has seen *)

LEMMA PlainStays ==
  ASSUME PlainInv, api' = api, asked' = asked, Active' \subseteq Active PROVE PlainInv'
BY DEF PlainInv, Plain, World

LEMMA PlainEnters ==
  ASSUME CloseMeans, TInv, PlainInv, NEW o \in Ids, NEW r \in Requests, Enter(o, r),
         api' = api, holding' = holding, cancels' = cancels
  PROVE  PlainInv'
<1>1. /\ Active' = Active \cup {o} /\ r \in Asked /\ asked'[o] = r
      /\ \A p \in Ids \ {o} : asked'[p] = asked[p]
  BY EnterOrders DEF TInv
<1>2. api \in Drivers /\ (api = "ctp" => "ctp" \in Apis)
  BY ConstantsTyped DEF TInv, OrdersTyped, Drivers
<1>3. r.offset = "close" /\ api = "ctp" => r.code \in Distinct
  BY <1>2 DEF CloseMeans
<1>4. Plain(World', o)
  BY <1>1, <1>2, <1>3 DEF Plain, World
<1>5. \A p \in Active \ {o} : Plain(World', p)
  BY <1>1, ActiveIn DEF PlainInv, Plain, World
<1> QED
  BY <1>1, <1>4, <1>5 DEF PlainInv

LEMMA DeliverFresh == ASSUME TInv, FreshInv, Deliver PROVE FreshInv'
<1>1. PICK m, k : m = Head(wire) /\ k = Drv!Callback(api, adapter, m)
  OBVIOUS
<1>2. /\ firing = <<>> /\ adapter' = k.adapter /\ firing' = k.events /\ UNCHANGED <<queue, session>>
      /\ wire # <<>>
  BY <1>1 DEF Deliver, processVars
<1> SUFFICES ASSUME session # "running", queue = <<>>, k.events = <<>> PROVE k.adapter = Drv!NoOrders
  BY <1>2 DEF FreshInv
<1>3. PICK a : a = adapter /\ a = Drv!NoOrders
  BY <1>2 DEF FreshInv
<1>4. m \in MessagesOf(Active)
  BY <1>1, <1>2, HeadTailIn DEF TInv, ThreadsTyped
<1>5. m.id \in Ids /\ m.kind \in {"order", "refused", "cancelrefused", "unheard"} /\ ~Drv!Seen(a, m.id)
  BY <1>3, <1>4, ActiveIn DEF MessagesOf, Drv!Seen, Drv!NoOrders
<1>6. \A e, f : <<e>> # <<>> /\ <<e, f>> # <<>>
  OBVIOUS
<1>7. \A e, s : s = <<>> \/ (\E f : s = <<f>>) => <<e>> \o s # <<>>
  OBVIOUS
<1>8. Drv!Placed(m) \o (IF m.left < m.total THEN Drv!Dealt(m, m.left) ELSE <<>>) # <<>>
  BY <1>7 DEF Drv!Placed, Drv!Dealt
<1>9. Drv!Placed(m) \o (IF m.left < m.total THEN Drv!Dealt(m, m.total - m.left) ELSE <<>>) # <<>>
  BY <1>7 DEF Drv!Placed, Drv!Dealt
<1>10. [a EXCEPT !.index = a.index \ {m.id}] = a
  <2>1. PICK g : a = [order |-> g, index |-> {}]
    BY <1>3 DEF Drv!NoOrders
  <2>2. a.index \ {m.id} = {}
    BY <2>1
  <2> QED
    BY <2>1, <2>2
<1>11. CASE m.kind = "order"
  <2>1. k = IF api = "ctp" THEN Drv!CtpRtnOrder(a, m) ELSE Drv!TapRtnOrder(a, m)
    BY <1>1, <1>3, <1>11 DEF Drv!Callback
  <2>2. CASE Drv!IsOver(m)
    <3>1. Drv!CtpRtnOrder(a, m) = Drv!Keeps(a, <<>>)
      BY <1>5, <2>2 DEF Drv!CtpRtnOrder
    <3>2. Drv!TapRtnOrder(a, m) = Drv!Keeps([a EXCEPT !.index = a.index \ {m.id}], <<>>)
      BY <1>5, <2>2 DEF Drv!TapRtnOrder
    <3> QED
      BY <1>3, <1>10, <2>1, <3>1, <3>2 DEF Drv!Keeps
  <2>3. CASE ~Drv!IsOver(m)
    <3>1. Drv!CtpRtnOrder(a, m).events # <<>>
      BY <1>5, <1>8, <2>3 DEF Drv!CtpRtnOrder, Drv!Keeps
    <3>2. Drv!TapRtnOrder(a, m).events # <<>>
      BY <1>5, <1>9, <2>3 DEF Drv!TapRtnOrder, Drv!Keeps
    <3> QED
      BY <2>1, <3>1, <3>2
  <2> QED
    BY <2>2, <2>3
<1>12. CASE m.kind = "refused"
  BY <1>1, <1>6, <1>12 DEF Drv!Callback, Drv!CtpRefused, Drv!TapError, Drv!Keeps
<1>13. CASE m.kind = "cancelrefused"
  BY <1>1, <1>3, <1>6, <1>13 DEF Drv!Callback, Drv!CtpCancelRefused, Drv!TapError, Drv!Keeps
<1>14. CASE m.kind = "unheard"
  BY <1>1, <1>3, <1>14 DEF Drv!Callback, Drv!TapErrorLogged, Drv!Keeps
<1> QED
  BY <1>5, <1>11, <1>12, <1>13, <1>14

LEMMA FreshStays ==
  ASSUME FreshInv, UNCHANGED <<adapter, queue, firing>>, session' = "running" \/ session' = session
                                                          \/ (session # "running" /\ session' # "running")
  PROVE  FreshInv'
BY DEF FreshInv

LEMMA NextFresh == TInv /\ FreshInv /\ [Next]_vars => FreshInv'
<1> SUFFICES ASSUME TInv, FreshInv, [Next]_vars PROVE FreshInv'
  OBVIOUS
<1>1. CASE UNCHANGED vars
  BY <1>1, FreshStays DEF vars, threadVars, processVars
<1>2. ASSUME NEW o \in Ids,
             \/ Report(o) \/ Refuse(o) \/ AnswerCancel(o) \/ ForeignPlace(o)
             \/ Place(o) \/ Cancel(o) \/ CheckCondition(o)
      PROVE  FreshInv'
  <2>1. UNCHANGED <<adapter, queue, firing, session>>
    BY <1>2 DEF Report, Refuse, AnswerCancel, ForeignPlace, Place, Cancel, CheckCondition,
                threadVars, processVars
  <2> QED
    BY <2>1, FreshStays
<1>3. CASE Deliver
  BY <1>3, DeliverFresh
<1>4. CASE Fire
  <2>1. queue' = Append(queue, Head(firing)) /\ queue \in Seq(EventsOf(Active))
        /\ Head(firing) \in EventsOf(Active)
    BY <1>4, HeadTailIn DEF Fire, TInv, ThreadsTyped
  <2>2. queue' # <<>>
    <3>1. \A S : \A s \in Seq(S), e \in S : Append(s, e) # <<>>
      <4>1. ASSUME NEW S, NEW s \in Seq(S), NEW e \in S PROVE Append(s, e) # <<>>
        <5>1. Len(Append(s, e)) = Len(s) + 1 /\ Len(s) \in Nat /\ Len(<<>>) = 0
          BY AppendProperties
        <5> QED
          BY <5>1
      <4> QED
        BY <4>1
    <3> QED
      BY <2>1, <3>1
  <2> QED
    BY <2>2 DEF FreshInv
<1>5. CASE Handle \/ Clock
  BY <1>5 DEF Handle, Clock, OnDuty, FreshInv, threadVars
<1>6. CASE Login \/ QueryPositions
  BY <1>6 DEF Login, QueryPositions, FreshInv, threadVars
<1>7. CASE QueryOrders \/ Crash
  BY <1>7 DEF QueryOrders, Crash, FreshInv
<1> QED
  BY <1>1, <1>2, <1>3, <1>4, <1>5, <1>6, <1>7 DEF Next

LEMMA ReportBound == ASSUME TInv, TInv', BoundInv, NEW o \in Ids, Report(o) PROVE BoundInv'
<1>1. PICK s, n : Reports(o, s, n)
  BY ReportIs
<1>2. PICK l, u : l = exch[o].left /\ u = l - n
  OBVIOUS
<1>3. /\ exch'[o] = [status |-> s, left |-> IF s = "canceled" THEN 0 ELSE n]
      /\ \A p \in Ids \ {o} : exch'[p] = exch[p]
      /\ n \in Nat /\ n \in 0..MaxVolume
  BY <1>1, ReportedOrders DEF TInv
<1>4. /\ exch[o].status \in {"sent", "working"} /\ s \in {"working", "traded", "canceled"} /\ n \in 0..l
      /\ (s = "traded" <=> n = 0)
  BY <1>1, <1>2 DEF Reports
<1>5. l \in Nat /\ u \in Nat /\ n <= l
  <2>1. l \in Nat
    BY <1>2, <1>4, LeftIs DEF TInv
  <2> QED
    BY <1>2, <1>4, <2>1
<1>6. Mays[o] = l
  BY <1>2, <1>4, WantsTyped DEF TInv
<1>7. Mays'[o] \in {0, n}
  <2>1. Mays'[o] = IF exch'[o].status = "none" THEN MaxVolume
                      ELSE IF exch'[o].status \in {"sent", "working"} THEN exch'[o].left ELSE 0
    BY WantsTypedNext DEF TInv
  <2>2. exch'[o].status = s /\ exch'[o].left \in {0, n}
    BY <1>3
  <2> QED
    BY <1>4, <2>1, <2>2
<1>8. Mays'[o] + u <= Mays[o]
  BY <1>2, <1>3, <1>5, <1>6, <1>7
<1>9. LotsMove(holding, holding', asked[o], u)
  BY <1>1, <1>2, ReportedLots DEF TInv
<1>10. ASSUME NEW c \in Codes, NEW b \in Buckets, NEW d \in Dirs
       PROVE  holding'[c][b][d] <= holding[c][b][d] + u
  <2>1. holding[c][b][d] \in Nat
    BY LotsNat DEF TInv, NotOversold
  <2>2. holding'[c][b][d] \in {holding[c][b][d] + u, holding[c][b][d] - u, holding[c][b][d]}
    BY <1>9 DEF LotsMove
  <2> QED
    BY <1>5, <2>1, <2>2
<1>11. OrdersTyped /\ NotOversold /\ OrdersTyped' /\ NotOversold'
  BY DEF TInv
<1> QED
  BY <1>3, <1>5, <1>8, <1>10, <1>11, BoundGoes

LEMMA EndsBound ==
  ASSUME TInv, TInv', BoundInv, NEW o \in Ids, exch[o].status \in {"sent", "working"},
         NEW s \in {"refused", "canceled"},
         exch' = [exch EXCEPT ![o] = [status |-> s, left |-> 0]], holding' = holding
  PROVE  BoundInv'
<1>1. /\ exch'[o] = [status |-> s, left |-> 0]
      /\ \A p \in Ids \ {o} : exch'[p] = exch[p]
  BY DEF TInv, OrdersTyped
<1>2. Mays'[o] = 0
  BY <1>1, WantsTypedNext DEF TInv
<1>3. Mays[o] \in Nat
  BY WantsTyped, ConstantsTyped DEF TInv, Wanting
<1>4. \A c \in Codes, b \in Buckets, d \in Dirs : holding'[c][b][d] <= holding[c][b][d] + 0
  BY LotsNat DEF TInv, NotOversold
<1>5. OrdersTyped /\ NotOversold /\ OrdersTyped' /\ NotOversold' /\ 0 \in Nat /\ Mays'[o] + 0 <= Mays[o]
  BY <1>2, <1>3 DEF TInv
<1> QED
  BY <1>1, <1>4, <1>5, BoundGoes

LEMMA EntersBound ==
  ASSUME TInv, TInv', BoundInv, NEW o \in Ids, NEW r \in Requests, Enter(o, r),
         UNCHANGED <<api, holding, cancels>>
  PROVE  BoundInv'
<1>1. /\ r \in Asked /\ exch'[o] = [status |-> "sent", left |-> r.total] /\ o \notin Active
      /\ \A p \in Ids \ {o} : exch'[p] = exch[p]
  BY EnterOrders DEF TInv
<1>2. Mays'[o] = r.total
  BY <1>1, WantsTypedNext DEF TInv
<1>3. Mays[o] = MaxVolume
  BY <1>1, WantsTyped DEF TInv, Active
<1>4. \A c \in Codes, b \in Buckets, d \in Dirs : holding'[c][b][d] <= holding[c][b][d] + 0
  BY LotsNat DEF TInv, NotOversold
<1>5. OrdersTyped /\ NotOversold /\ OrdersTyped' /\ NotOversold' /\ 0 \in Nat
  BY DEF TInv
<1>6. Mays'[o] + 0 <= Mays[o]
  BY <1>1, <1>2, <1>3, ConstantsTyped DEF Asked
<1> QED
  BY <1>1, <1>4, <1>5, <1>6, BoundGoes

LEMMA NextBound == TInv /\ TInv' /\ BoundInv /\ [Next]_vars => BoundInv'
<1> SUFFICES ASSUME TInv, TInv', BoundInv, [Next]_vars PROVE BoundInv'
  OBVIOUS
<1>1. CASE UNCHANGED vars
  BY <1>1, BoundSame DEF vars, exchangeVars
<1>2. ASSUME NEW o \in Ids, Report(o) PROVE BoundInv'
  BY <1>2, ReportBound
<1>3. ASSUME NEW o \in Ids, Refuse(o) PROVE BoundInv'
  <2>1. /\ exch[o].status \in {"sent", "working"} /\ holding' = holding
        /\ exch' = [exch EXCEPT ![o] = [status |-> "refused", left |-> 0]]
    BY <1>3 DEF Refuse
  <2> QED
    BY <2>1, EndsBound
<1>4. ASSUME NEW o \in Ids, AnswerCancel(o) PROVE BoundInv'
  <2>1. /\ holding' = holding
        /\ exch' = exch \/ ( /\ exch[o].status \in {"sent", "working"}
                             /\ exch' = [exch EXCEPT ![o] = [status |-> "canceled", left |-> 0]])
    BY <1>4 DEF AnswerCancel
  <2> QED
    BY <2>1, EndsBound, BoundSame
<1>5. ASSUME NEW o \in Ids, ForeignPlace(o) \/ Place(o) PROVE BoundInv'
  <2>1. PICK r \in Requests : Enter(o, r)
    BY <1>5 DEF ForeignPlace, Place
  <2>2. UNCHANGED <<api, holding, cancels>>
    BY <1>5 DEF ForeignPlace, Place
  <2> QED
    BY <2>1, <2>2, EntersBound
<1>6. ASSUME NEW o \in Ids, Cancel(o) \/ CheckCondition(o) PROVE BoundInv'
  BY <1>6, BoundSame DEF Cancel, CheckCondition
<1>7. CASE Deliver \/ Fire \/ Handle \/ Clock \/ Login \/ QueryPositions \/ QueryOrders \/ Crash
  BY <1>7, BoundSame DEF Deliver, Fire, Handle, Clock, Login, QueryPositions, QueryOrders, Crash, exchangeVars
<1> QED
  BY <1>1, <1>2, <1>3, <1>4, <1>5, <1>6, <1>7 DEF Next

LEMMA NextPlain == CloseMeans => (TInv /\ PlainInv /\ [Next]_vars => PlainInv')
<1> SUFFICES ASSUME CloseMeans, TInv, PlainInv, [Next]_vars PROVE PlainInv'
  OBVIOUS
<1>1. CASE UNCHANGED vars
  BY <1>1, PlainStays DEF vars, exchangeVars, Active
<1>2. ASSUME NEW o \in Ids, Report(o) PROVE PlainInv'
  <2>1. PICK s, n : Reports(o, s, n)
    BY <1>2, ReportIs
  <2>2. Active' = Active /\ api' = api /\ asked' = asked
    BY <2>1, ReportedOrders DEF TInv, Reports
  <2> QED
    BY <2>2, PlainStays
<1>3. ASSUME NEW o \in Ids, Refuse(o) \/ AnswerCancel(o) PROVE PlainInv'
  <2>1. /\ api' = api /\ asked' = asked
        /\ \/ exch' = exch
           \/ /\ exch[o].status # "none"
              /\ \E s \in {"refused", "canceled"} : exch' = [exch EXCEPT ![o] = [status |-> s, left |-> 0]]
    BY <1>3 DEF Refuse, AnswerCancel
  <2>2. Active' \subseteq Active
    BY <2>1 DEF Active, TInv, OrdersTyped
  <2> QED
    BY <2>1, <2>2, PlainStays
<1>4. ASSUME NEW o \in Ids, ForeignPlace(o) \/ Place(o) PROVE PlainInv'
  <2>1. PICK r \in Requests : Enter(o, r)
    BY <1>4 DEF ForeignPlace, Place
  <2>2. UNCHANGED <<api, holding, cancels>>
    BY <1>4 DEF ForeignPlace, Place
  <2> QED
    BY <2>1, <2>2, PlainEnters
<1>5. ASSUME UNCHANGED <<api, asked, exch>> PROVE PlainInv'
  BY <1>5, PlainStays DEF Active
<1>6. ASSUME NEW o \in Ids, Cancel(o) \/ CheckCondition(o) PROVE PlainInv'
  BY <1>5, <1>6 DEF Cancel, CheckCondition
<1>7. CASE Deliver \/ Fire \/ Handle \/ Clock \/ Login \/ QueryPositions \/ QueryOrders \/ Crash
  BY <1>5, <1>7 DEF Deliver, Fire, Handle, Clock, Login, QueryPositions, QueryOrders, Crash, exchangeVars
<1> QED
  BY <1>1, <1>2, <1>3, <1>4, <1>6, <1>7 DEF Next

-----------------------------------------------------------------------------
(* What the exchange sends settles. *)

\* The driver makes k of the message m, and the context hears of it.
Takes(m, k) ==
  /\ k = Drv!Callback(api, Driven.adapter, m) /\ Driven'.adapter = k.adapter
  /\ Final' = Read("context", World, Final, k.events) /\ World' = World

LEMMA SentTaken ==
  ASSUME TInv, NEW o \in Active, NEW m \in MessagesOf({o}), Sends(m)
  PROVE  /\ \E k : Takes(m, k)
         /\ m \in MessagesOf(Active) /\ m \in MessagesOf(Ids) /\ m.id = o
         /\ api \in Drivers /\ Driven.adapter \in Adapters(Active)
<1>1. m \in MessagesOf(Active) /\ m.id = o /\ m \in MessagesOf(Ids)
  BY ActiveIn, MessageFields
<1>2. PICK x, y, k : x = Driven /\ y = Driven' /\ k = Drv!Callback(api, x.adapter, m)
  OBVIOUS
<1>3. x \in Kept(Active) /\ Adds(x, k, y) /\ World' = World /\ ctx' = ctx
  BY <1>1, <1>2, DrivenTyped, DrivenGrows DEF Sends, World, processVars
<1>4. PICK r, s : r = x.events /\ s = k.events
  OBVIOUS
<1>5. x.adapter \in Adapters(Active) /\ r \in Seq(EventsOf(Active)) /\ y.events = r \o s
  BY <1>3, <1>4 DEF Kept, Adds
<1>6. s \in Seq(EventsOf(Active))
  <2>1. About(o, x.adapter, k)
    BY <1>2, <1>5, ActiveIn, CallbackAbout
  <2>2. EventsOf({o}) \subseteq EventsOf(Active)
    BY DEF EventsOf
  <2> QED
    BY <1>4, <2>1, <2>2, SeqGrows DEF About
<1>7. \A w, b : Read("context", w, b, r \o s) = Read("context", w, Read("context", w, b, r), s)
  BY <1>5, <1>6, ReadBoth
<1>8. Final' = Read("context", World, ctx, r \o s) /\ Final = Read("context", World, ctx, r)
  BY <1>2, <1>3, <1>4, <1>5 DEF Final
<1>9. Final' = Read("context", World, Final, k.events)
  BY <1>4, <1>7, <1>8
<1>10. Takes(m, k)
  BY <1>2, <1>3, <1>9 DEF Takes, Adds
<1>11. api \in Drivers
  BY ConstantsTyped DEF Drivers, TInv, OrdersTyped
<1> QED
  BY <1>1, <1>2, <1>5, <1>10, <1>11

\* A return of an order the books have.
LEMMA WorkingSettles ==
  ASSUME LotsFit, SInv, TInv', BoundInv', Settled, NEW o \in Ids, exch[o].status = "working",
         NEW m \in MessagesOf({o}), Sends(m), NEW l, l = exch[o].left, Returned(m, o, l),
         LotsMove(holding, holding', asked[o], l - m.left),
         exch'[o].status = m.status, m.status = "working" => exch'[o].left = m.left,
         \A p \in Ids \ {o} : exch'[p] = exch[p]
  PROVE  Settled'
<1>1. l \in 0..MaxVolume /\ o \in Active /\ Plain(World, o)
  BY LeftIs, ConstantsTyped DEF SInv, TInv, PlainInv
<1>2. /\ m \in MessagesOf(Active) /\ m \in MessagesOf(Ids) /\ m.id = o
      /\ api \in Drivers /\ Driven.adapter \in Adapters(Active)
  BY <1>1, SentTaken DEF SInv
<1>3. PICK k : Takes(m, k)
  BY <1>1, SentTaken DEF SInv
<1>4. PICK w, a, x, h, g, f, p, q, v, j :
        /\ w = World /\ a = w.asked[o] /\ x = Final /\ h = holding /\ g = Shown /\ f = Lefts
        /\ p = api /\ q = Driven.adapter /\ v = l - m.left /\ j = holding'
  OBVIOUS
<1>5. /\ Books(w, x, h, g, f) /\ q.order = g /\ Plain(w, o) /\ a = asked[o]
      /\ LotsMove(h, j, a, v)
  BY <1>1, <1>4 DEF Settled, World
<1>6. g[o] = l /\ f[o] = l
  BY <1>4, WantsTyped DEF SInv, TInv
<1>7. Room(j, a)
  <2>1. a.code \in Codes /\ BucketOf(a) \in Buckets /\ a.direction \in Dirs
    BY <1>4, <1>5, Slot
  <2>2. Roomy'
    BY BoundIsRoomyNext DEF TInv
  <2> QED
    BY <1>4, <2>1, <2>2 DEF Roomy, Room
<1>8. m.kind = "order" /\ m.left <= l
  BY <1>1, ConstantsTyped DEF Returned
<1>9. /\ k.adapter.order = [q.order EXCEPT ![o] = IF Drv!IsOver(m) THEN Drv!Unknown ELSE m.left]
      /\ k.events = Notices(m, l)
  <2>1. k = Drv!Callback(p, q, m)
    BY <1>3, <1>4 DEF Takes
  <2>2. q \in Adapters(Active) /\ p \in Drivers /\ q.order[m.id] = l /\ Active \in SUBSET Ids
    BY <1>2, <1>4, <1>5, <1>6, ActiveIn
  <2>3. /\ k.adapter.order = [q.order EXCEPT ![m.id] = IF Drv!IsOver(m) THEN Drv!Unknown ELSE m.left]
        /\ k.events = Notices(m, l)
    BY <1>1, <1>2, <1>8, <2>1, <2>2, ReturnSeen
  <2> QED
    BY <1>2, <2>3
<1>10. Books(w, Read("context", w, x, Notices(m, l)), j,
               [g EXCEPT ![o] = IF Drv!IsOver(m) THEN Drv!Unknown ELSE m.left],
               [f EXCEPT ![o] = IF Drv!IsOver(m) THEN 0 ELSE m.left])
  BY <1>1, <1>2, <1>4, <1>5, <1>6, <1>7, NoticesBooks
<1>11. m.status \in {"working", "traded", "canceled"} /\ (Drv!IsOver(m) <=> m.status # "working")
  BY DEF Returned, Drv!IsOver
<1>12. /\ Shown' = [g EXCEPT ![o] = IF Drv!IsOver(m) THEN Drv!Unknown ELSE m.left]
       /\ Lefts' = [f EXCEPT ![o] = IF Drv!IsOver(m) THEN 0 ELSE m.left]
  <2>1. /\ Lefts' = [Lefts EXCEPT ![o] = IF exch'[o].status = "working" THEN exch'[o].left ELSE 0]
        /\ Shown' = [Shown EXCEPT ![o] = IF exch'[o].status = "working" THEN exch'[o].left ELSE -1]
    BY WantsChange DEF SInv, TInv
  <2>2. Drv!Unknown = -1
    BY DEF Drv!Unknown
  <2>3. /\ (IF exch'[o].status = "working" THEN exch'[o].left ELSE 0)
             = IF Drv!IsOver(m) THEN 0 ELSE m.left
        /\ (IF exch'[o].status = "working" THEN exch'[o].left ELSE -1)
             = IF Drv!IsOver(m) THEN Drv!Unknown ELSE m.left
    BY <1>11, <2>2
  <2> QED
    BY <1>4, <2>1, <2>3
<1>13. Final' = Read("context", w, x, Notices(m, l)) /\ World' = w /\ Driven'.adapter = k.adapter
  BY <1>3, <1>4, <1>9 DEF Takes
<1> QED
  BY <1>4, <1>5, <1>9, <1>10, <1>12, <1>13 DEF Settled

\* What is locked at the exchange is what is asked for of a slot.
LEMMA LockedAsks ==
  ASSUME OrdersTyped, NEW c, NEW b, NEW d
  PROVE  Locked(c, b, d) = Asks(Lefts, Sellers(World, c, b, d))
<1>1. PICK R : R = Sellers(World, c, b, d)
  OBVIOUS
<1>2. \A o \in Ids : Waits(c, b, d, o) = IF o \in R THEN Lefts[o] ELSE 0
  BY <1>1, WantsTyped DEF Waits, Sellers, World
<1>3. [o \in Ids |-> Waits(c, b, d, o)] = [o \in Ids |-> IF o \in R THEN Lefts[o] ELSE 0]
  BY <1>2
<1>4. Locked(c, b, d) = SumFunctionOnSet([o \in Ids |-> Waits(c, b, d, o)], Ids)
  BY LockedIs
<1> QED
  BY <1>1, <1>3, <1>4 DEF Asks

\* The first return of an order.
LEMMA SentSettles ==
  ASSUME LotsFit, SInv, TInv', BoundInv', Settled, NEW o \in Ids, exch[o].status = "sent",
         Acceptable(asked[o]), NEW m \in MessagesOf({o}), Sends(m), m.status = "working",
         Returned(m, o, asked[o].total), m.total = asked[o].total,
         api = "ctp" => m.left = asked[o].total,
         LotsMove(holding, holding', asked[o], asked[o].total - m.left),
         exch'[o].status = "working", exch'[o].left = m.left,
         \A p \in Ids \ {o} : exch'[p] = exch[p]
  PROVE  Settled'
<1>1. o \in Active /\ Plain(World, o)
  BY LeftIs DEF SInv, TInv, PlainInv
<1>2. /\ m \in MessagesOf(Active) /\ m \in MessagesOf(Ids) /\ m.id = o
      /\ api \in Drivers /\ Driven.adapter \in Adapters(Active)
  BY <1>1, SentTaken DEF SInv
<1>3. PICK k : Takes(m, k)
  BY <1>1, SentTaken DEF SInv
<1>4. PICK w, a, x, h, g, f, p, q, v, j :
        /\ w = World /\ a = w.asked[o] /\ x = Final /\ h = holding /\ g = Shown /\ f = Lefts
        /\ p = api /\ q = Driven.adapter /\ v = a.total - m.left /\ j = holding'
  OBVIOUS
<1>5. /\ Books(w, x, h, g, f) /\ q.order = g /\ Plain(w, o) /\ a = asked[o]
      /\ LotsMove(h, j, a, v)
  BY <1>1, <1>4 DEF Settled, World
<1>6. g[o] = -1 /\ f[o] = 0
  BY <1>4, WantsTyped DEF SInv, TInv
<1>7. Room(j, a)
  <2>1. a.code \in Codes /\ BucketOf(a) \in Buckets /\ a.direction \in Dirs
    BY <1>4, <1>5, Slot
  <2>2. Roomy'
    BY BoundIsRoomyNext DEF TInv
  <2> QED
    BY <1>4, <2>1, <2>2 DEF Roomy, Room
<1>8. Affords(a, w, h, f)
  <2> SUFFICES ASSUME a.offset # "open"
               PROVE  Asks(f, Sellers(w, a.code, BucketOf(a), a.direction)) + a.total
                        <= h[a.code][BucketOf(a)][a.direction]
    BY DEF Affords
  <2>1. PICK c, b, d, n : c = a.code /\ b = BucketOf(a) /\ d = a.direction /\ n = Locked(c, b, d)
    OBVIOUS
  <2>2. h[c][b][d] - n >= a.total
    BY <1>4, <1>5, <2>1 DEF Acceptable
  <2>3. n = Asks(f, Sellers(w, c, b, d))
    BY <1>4, <2>1, LockedAsks DEF SInv, TInv
  <2>4. f \in Wanting /\ h \in Lots
    BY <1>5 DEF Books
  <2>5. n \in Nat
    BY <2>3, <2>4, AsksNat
  <2>6. c \in Codes /\ b \in Buckets /\ d \in Dirs /\ a.total \in Nat
    BY <1>4, <1>5, <2>1, Slot
  <2>7. h[c][b][d] \in Nat
    BY <2>4, <2>6, LotsNat
  <2> QED
    BY <2>1, <2>2, <2>3, <2>5, <2>6, <2>7
<1>9. m.kind = "order" /\ ~Drv!IsOver(m) /\ Drv!Unknown = -1
  BY DEF Returned, Drv!IsOver, Drv!Unknown
<1>10. /\ k.adapter.order = [q.order EXCEPT ![o] = m.left]
       /\ k.events = Entrusts(p, m)
  <2>1. k = Drv!Callback(p, q, m)
    BY <1>3, <1>4 DEF Takes
  <2>2. q \in Adapters(Active) /\ p \in Drivers /\ q.order[m.id] = Drv!Unknown /\ Active \in SUBSET Ids
    BY <1>2, <1>4, <1>5, <1>6, <1>9, ActiveIn
  <2>3. /\ k.adapter.order = [q.order EXCEPT ![m.id] = m.left]
        /\ k.events = Entrusts(p, m)
    BY <1>2, <1>9, <2>1, <2>2, ReturnNew
  <2> QED
    BY <1>2, <2>3
<1>11. Books(w, Read("context", w, x, Entrusts(p, m)), j, [g EXCEPT ![o] = m.left], [f EXCEPT ![o] = m.left])
  <2>1. Returned(m, o, a.total) /\ m.total = a.total /\ (p = "ctp" => m.left = a.total)
    BY <1>4, <1>5
  <2> QED
    BY <1>2, <1>4, <1>5, <1>6, <1>7, <1>8, <2>1, EntrustsBooks
<1>12. Shown' = [g EXCEPT ![o] = m.left] /\ Lefts' = [f EXCEPT ![o] = m.left]
  BY <1>4, WantsChange DEF SInv, TInv
<1>13. Final' = Read("context", w, x, Entrusts(p, m)) /\ World' = w /\ Driven'.adapter = k.adapter
  BY <1>3, <1>4, <1>10 DEF Takes
<1> QED
  BY <1>4, <1>5, <1>10, <1>11, <1>12, <1>13 DEF Settled

\* Nobody waits for more or less.
LEMMA WantsStay ==
  ASSUME OrdersTyped, OrdersTyped', NEW o \in Ids, exch[o].status # "working", exch'[o].status # "working",
         \A p \in Ids \ {o} : exch'[p] = exch[p]
  PROVE  Shown' = Shown /\ Lefts' = Lefts
<1>1. Lefts' = [Lefts EXCEPT ![o] = 0] /\ Shown' = [Shown EXCEPT ![o] = -1]
  BY WantsChange
<1>2. Lefts \in Wanting /\ Shown \in [Ids -> -1..MaxVolume] /\ Lefts[o] = 0 /\ Shown[o] = -1
  BY WantsTyped
<1> QED
  BY <1>1, <1>2 DEF Wanting

\* The placement of an order is refused.
LEMMA RefusedSettles ==
  ASSUME SInv, TInv', Settled, NEW o \in Ids, exch[o].status = "sent", exch'[o].status = "refused",
         NEW m \in MessagesOf({o}), m.kind = "refused", Sends(m), holding' = holding,
         \A p \in Ids \ {o} : exch'[p] = exch[p]
  PROVE  Settled'
<1>1. o \in Active
  BY DEF Active
<1>2. /\ m \in MessagesOf(Active) /\ m.id = o
      /\ api \in Drivers /\ Driven.adapter \in Adapters(Active)
  BY <1>1, SentTaken DEF SInv
<1>3. PICK k : Takes(m, k)
  BY <1>1, SentTaken DEF SInv
<1>4. PICK w, x, h, g, f, p, q :
        /\ w = World /\ x = Final /\ h = holding /\ g = Shown /\ f = Lefts
        /\ p = api /\ q = Driven.adapter
  OBVIOUS
<1>5. Books(w, x, h, g, f) /\ q.order = g
  BY <1>4 DEF Settled
<1>6. g[o] = Ctx!Unknown /\ Drv!Unknown = Ctx!Unknown
  BY <1>4, WantsTyped DEF SInv, TInv, Ctx!Unknown, Drv!Unknown
<1>7. k.adapter.order = q.order /\ k.events \in Refusals(o)
  <2>1. k = Drv!Callback(p, q, m)
    BY <1>3, <1>4 DEF Takes
  <2>2. q \in Adapters(Active) /\ p \in Drivers /\ q.order[m.id] = Drv!Unknown /\ Active \in SUBSET Ids
    BY <1>2, <1>4, <1>5, <1>6, ActiveIn
  <2>3. k.adapter.order = q.order /\ k.events \in Refusals(m.id)
    BY <1>2, <2>1, <2>2, RefusalOfNew
  <2> QED
    BY <1>2, <2>3
<1>8. Books(w, Read("context", w, x, k.events), h, g, f)
  BY <1>5, <1>6, <1>7, RefusalsBooks
<1>9. Shown' = Shown /\ Lefts' = Lefts
  BY WantsStay DEF SInv, TInv
<1>10. Final' = Read("context", w, x, k.events) /\ World' = w /\ Driven'.adapter = k.adapter
  BY <1>3, <1>4 DEF Takes
<1> QED
  BY <1>4, <1>5, <1>7, <1>8, <1>9, <1>10 DEF Settled

\* A cancel is refused, and not told as the refusal of an order that is alive.
LEMMA CancelRefusedSettles ==
  ASSUME SInv, Settled, NEW o \in Active, NEW m \in MessagesOf({o}),
         Answers(api, m, exch[o].status), Sends(m), UNCHANGED <<exch, holding>>
  PROVE  Settled'
<1>1. m.id = o /\ api \in Drivers /\ o \in Ids
  BY ActiveIn, SentTaken DEF SInv
<1>2. PICK k : Takes(m, k)
  BY SentTaken DEF SInv
<1>3. PICK w, x, h, g, f, p, q :
        /\ w = World /\ x = Final /\ h = holding /\ g = Shown /\ f = Lefts
        /\ p = api /\ q = Driven.adapter
  OBVIOUS
<1>4. Books(w, x, h, g, f) /\ q.order = g
  BY <1>3 DEF Settled
<1>5. k = Drv!Callback(p, q, m) /\ p \in Drivers
  BY <1>1, <1>2, <1>3 DEF Takes
<1>6. k.adapter = q /\ Books(w, Read("context", w, x, k.events), h, g, f)
  <2>1. CASE m.kind = "unheard" \/ (m.kind = "cancelrefused" /\ p = "ctp")
    <3>1. k.adapter = q /\ k.events \in CancelRefusals(o)
      BY <1>1, <1>5, <2>1, CancelRefusal
    <3>2. Read("context", w, x, k.events) = x
      BY <3>1, CancelRefusalBooks
    <3> QED
      BY <1>4, <3>1, <3>2
  <2>2. CASE m.kind = "cancelrefused" /\ p = "tap" /\ exch[o].status \notin {"sent", "working"}
    <3>1. k.adapter = q /\ k.events = <<Drv!PlaceRefused(o)>>
      BY <1>1, <1>5, <2>2, CancelMisread
    <3>2. g[o] = Ctx!Unknown
      BY <1>1, <1>3, <2>2, WantsTyped DEF SInv, TInv, Ctx!Unknown
    <3>3. k.events \in Refusals(o)
      BY <3>1 DEF Refusals
    <3> QED
      BY <1>1, <1>4, <3>1, <3>2, <3>3, RefusalsBooks
  <2> QED
    BY <1>3, <1>5, <2>1, <2>2 DEF Answers, Drivers
<1>7. Final' = Read("context", w, x, k.events) /\ World' = w /\ Driven'.adapter = q
  BY <1>2, <1>3, <1>6 DEF Takes
<1>8. Shown' = Shown /\ Lefts' = Lefts
  BY DEF Shown, Lefts
<1> QED
  BY <1>3, <1>4, <1>6, <1>7, <1>8 DEF Settled

\* Books are not about listeners and conditions.
LEMMA LedgerBooks ==
  ASSUME NEW w, NEW x, NEW y, NEW h, NEW g, NEW f, Books(w, x, h, g, f), SameLedger(x, y)
  PROVE  Books(w, y, h, g, f)
BY DEF Books, Shelved, SameLedger, SameBooks

LEMMA StaysSettled ==
  ASSUME Settled, Final' = Final \/ SameLedger(Final, Final'), Driven'.adapter = Driven.adapter,
         UNCHANGED <<api, asked, exch, holding>>
  PROVE  Settled'
<1>1. World' = World /\ Shown' = Shown /\ Lefts' = Lefts
  BY DEF World, Shown, Lefts
<1>2. PICK x, y, w, h, g, f : /\ x = Final /\ y = Final' /\ w = World /\ h = holding
                              /\ g = Shown /\ f = Lefts
  OBVIOUS
<1>3. Books(w, x, h, g, f)
  BY <1>2 DEF Settled
<1>4. Books(w, y, h, g, f)
  BY <1>2, <1>3, LedgerBooks
<1> QED
  BY <1>1, <1>2, <1>4 DEF Settled

\* What nobody waits for is not asked for.
LEMMA AsksStay ==
  ASSUME NEW f, NEW R, NEW S, NEW o \in Ids, f[o] = 0, R \ {o} = S \ {o}
  PROVE  Asks(f, R) = Asks(f, S)
<1>1. \A p \in Ids : (IF p \in R THEN f[p] ELSE 0) = (IF p \in S THEN f[p] ELSE 0)
  OBVIOUS
<1>2. [p \in Ids |-> IF p \in R THEN f[p] ELSE 0] = [p \in Ids |-> IF p \in S THEN f[p] ELSE 0]
  BY <1>1
<1> QED
  BY <1>2 DEF Asks

LEMMA NewBooks ==
  ASSUME NEW v, NEW w, NEW x, NEW h, NEW g, NEW f, Books(w, x, h, g, f), NEW o \in Ids, f[o] = 0,
         \A p \in Ids \ {o} : v.asked[p] = w.asked[p]
  PROVE  Books(v, x, h, g, f)
<1>1. ASSUME NEW c \in Codes, NEW b \in Buckets, NEW d \in Dirs PROVE Shelved(v, x, h, f, c, b, d)
  <2>1. /\ Sellers(v, c, b, d) \ {o} = Sellers(w, c, b, d) \ {o}
        /\ Buyers(v, c, d) \ {o} = Buyers(w, c, d) \ {o}
    BY DEF Sellers, Buyers
  <2>2. PICK R, S, T, U : /\ R = Sellers(v, c, b, d) /\ S = Sellers(w, c, b, d)
                          /\ T = Buyers(v, c, d) /\ U = Buyers(w, c, d)
    OBVIOUS
  <2>3. Asks(f, R) = Asks(f, S)
    BY <2>1, <2>2, AsksStay
  <2>4. Asks(f, T) = Asks(f, U)
    BY <2>1, <2>2, AsksStay
  <2>5. Shelved(w, x, h, f, c, b, d)
    BY DEF Books
  <2> QED
    BY <2>2, <2>3, <2>4, <2>5 DEF Shelved
<1> QED
  BY <1>1 DEF Books

LEMMA EntersSettled ==
  ASSUME TInv, TInv', Settled, NEW o \in Ids, NEW r \in Requests, Enter(o, r),
         UNCHANGED <<api, holding, cancels, threadVars>>, SameLedger(ctx, ctx')
  PROVE  Settled'
<1>1. /\ exch'[o] = [status |-> "sent", left |-> r.total] /\ o \notin Active
      /\ \A p \in Ids \ {o} : exch'[p] = exch[p] /\ asked'[p] = asked[p]
  BY EnterOrders DEF TInv
<1>2. Driven' = Driven /\ Driven.events \in Seq(EventsOf(Active)) /\ Active \in SUBSET Ids
  BY DrivenSame, DrivenTyped, ActiveIn DEF threadVars, Kept
<1>3. Shown' = Shown /\ Lefts' = Lefts /\ Lefts[o] = 0
  <2>1. exch[o].status = "none"
    BY <1>1 DEF Active
  <2> QED
    BY <1>1, <2>1, WantsStay, WantsTyped DEF TInv
<1>4. PICK v, w, x, y, s, A : /\ v = World' /\ w = World /\ x = ctx /\ y = ctx' /\ s = Driven.events
                             /\ A = Active
  OBVIOUS
<1>5. \A p \in Ids \ {o} : v.asked[p] = w.asked[p]
  BY <1>1, <1>4 DEF World
<1>6. Read("context", w, y, s) = Read("context", v, y, s)
  <2>1. ASSUME NEW e \in EventsOf(A), NEW z PROVE Reads("context", w, z, e) = Reads("context", v, z, e)
    <3>1. e.id \in A
      BY EventFields
    <3>2. v.asked[e.id] = w.asked[e.id] /\ v.api = w.api
      BY <1>1, <1>2, <1>4, <3>1 DEF World
    <3> QED
      BY <3>2 DEF Reads, HeardBy, OrderInfoBy
  <2> QED
    BY <1>2, <1>4, <2>1, ReadSame
<1>7. SameLedger(Read("context", w, x, s), Read("context", w, y, s))
  <2>1. \A p \in A : w.asked[p] \in Asked
    BY <1>4 DEF World, TInv, OrdersTyped
  <2>2. SameLedger(x, y) /\ A \in SUBSET Ids /\ s \in Seq(EventsOf(A))
    BY <1>2, <1>4
  <2> QED
    BY <2>1, <2>2, ReadAlike
<1>8. PICK h, g, f, i, j : h = holding /\ g = Shown /\ f = Lefts /\ i = Final /\ j = Final'
  OBVIOUS
<1>9. SameLedger(i, j)
  BY <1>2, <1>4, <1>6, <1>7, <1>8 DEF Final
<1>10. Books(w, i, h, g, f) /\ f[o] = 0
  BY <1>3, <1>4, <1>8 DEF Settled
<1>11. Books(w, j, h, g, f)
  BY <1>9, <1>10, LedgerBooks
<1>12. Books(v, j, h, g, f)
  BY <1>5, <1>10, <1>11, NewBooks
<1> QED
  BY <1>2, <1>3, <1>4, <1>8, <1>12 DEF Settled

-----------------------------------------------------------------------------
(* The steps keep what is settled. *)

LEMMA ReportSettles ==
  ASSUME LotsFit, SInv, TInv', BoundInv', NEW o \in Ids, Report(o),
         session' = "running", gaps' = {}, misread' = {}
  PROVE  Settled'
<1>1. PICK s, n : Reports(o, s, n)
  BY ReportIs
<1>2. /\ n \in 0..MaxVolume /\ n \in Nat
      /\ exch'[o] = [status |-> s, left |-> IF s = "canceled" THEN 0 ELSE n]
      /\ \A p \in Ids \ {o} : exch'[p] = exch[p]
  BY <1>1, ReportedOrders DEF SInv, TInv
<1>3. /\ exch[o].status \in {"sent", "working"} /\ s \in {"working", "traded", "canceled"}
      /\ s = "traded" <=> n = 0
      /\ exch[o].status = "sent" => Acceptable(asked[o])
      /\ n \in 0..exch[o].left /\ Send(Return(o, s, n))
      /\ UNCHANGED <<api, asked, adapter, queue, firing, processVars>> /\ session = "running"
  BY <1>1 DEF Reports, processVars
<1>4. /\ gaps = {} /\ misread = {}
      /\ exch[o].status = "sent" => s = "working" /\ (api = "ctp" => ~(exch[o].left - n > 0))
  <2>1. gaps' = IF /\ exch[o].status = "sent" /\ session # "down"
                   /\ s # "working" \/ (exch[o].left - n > 0 /\ api = "ctp")
                THEN gaps \cup {"merged"} ELSE gaps
    BY <1>1 DEF Reports
  <2>2. misread = {}
    BY <1>1 DEF Reports
  <2> QED
    BY <1>3, <2>1, <2>2
<1>5. Settled
  BY <1>3, <1>4 DEF SInv, SettledInv
<1>6. /\ asked[o].total \in 1..MaxVolume /\ exch[o].left \in Nat /\ exch[o].left \in 1..asked[o].total
      /\ exch[o].status = "sent" => exch[o].left = asked[o].total
  BY <1>3, LeftIs DEF SInv, TInv, OrdersTyped
<1>7. PICK m, l, t : m = Return(o, s, n) /\ l = exch[o].left /\ t = asked[o].total
  OBVIOUS
<1>8. m.kind = "order" /\ m.id = o /\ m.status = s /\ m.left = n /\ m.total = t
  BY <1>7, ReturnFields
<1>9. m \in MessagesOf({o})
  BY <1>2, <1>3, <1>6, <1>7, ReturnIn DEF SInv, TInv
<1>10. Sends(m)
  BY <1>3, <1>7 DEF Send, Sends
<1>11. exch'[o].status = m.status /\ (m.status = "working" => exch'[o].left = m.left)
  BY <1>2, <1>8
<1>12. Returned(m, o, l)
  BY <1>3, <1>6, <1>7, <1>8 DEF Returned
<1>13. LotsMove(holding, holding', asked[o], l - m.left)
  BY <1>1, <1>7, <1>8, ReportedLots DEF SInv, TInv
<1>14. CASE exch[o].status = "working"
  BY <1>2, <1>5, <1>7, <1>9, <1>10, <1>11, <1>12, <1>13, <1>14, WorkingSettles
<1>15. CASE exch[o].status = "sent"
  <2>1. l = t /\ m.status = "working" /\ (api = "ctp" => m.left = t)
    BY <1>3, <1>4, <1>6, <1>7, <1>8, <1>15
  <2>2. /\ Returned(m, o, t) /\ m.total = t /\ LotsMove(holding, holding', asked[o], t - m.left)
        /\ exch'[o].status = "working" /\ exch'[o].left = m.left
    BY <1>8, <1>11, <1>12, <1>13, <2>1
  <2> QED
    BY <1>2, <1>3, <1>5, <1>7, <1>9, <1>10, <1>15, <2>1, <2>2, SentSettles
<1> QED
  BY <1>3, <1>14, <1>15

LEMMA RefuseSettles ==
  ASSUME SInv, TInv', NEW o \in Ids, Refuse(o), session' = "running", gaps' = {}, misread' = {}
  PROVE  Settled'
<1>1. /\ exch[o].status = "sent" /\ exch' = [exch EXCEPT ![o] = [status |-> "refused", left |-> 0]]
      /\ UNCHANGED <<api, asked, holding, cancels, adapter, queue, firing, processVars, gaps>>
      /\ UNCHANGED ctx /\ session = "running" /\ gaps = {} /\ misread = {}
      /\ Send([kind |-> "refused", id |-> o]) \/ UNCHANGED wire
  BY DEF Refuse, Misread, processVars
<1>2. exch'[o].status = "refused" /\ \A p \in Ids \ {o} : exch'[p] = exch[p]
  <2>1. /\ exch[o].status \in {"sent", "working"} /\ exch' = [exch EXCEPT ![o] = [status |-> "refused", left |-> 0]]
        /\ api' = api /\ asked' = asked /\ cancels' \subseteq cancels
    BY <1>1
  <2>2. OrdersTyped /\ "refused" \in {"refused", "canceled"}
    BY DEF SInv, TInv
  <2>3. /\ exch'[o] = [status |-> "refused", left |-> 0]
        /\ \A p \in Ids \ {o} : exch'[p] = exch[p]
    BY <2>1, <2>2, EndedOrders
  <2> QED
    BY <2>3
<1>3. Settled
  BY <1>1 DEF SInv, SettledInv
<1>4. CASE UNCHANGED wire
  <2>1. Driven' = Driven
    BY <1>1, <1>4, DrivenSame DEF SInv
  <2>2. Final' = Final /\ World' = World
    BY <1>1, <2>1 DEF Final, World
  <2>3. Shown' = Shown /\ Lefts' = Lefts
    BY <1>1, <1>2, WantsStay DEF SInv, TInv
  <2> QED
    BY <1>1, <1>3, <2>1, <2>2, <2>3 DEF Settled
<1>5. CASE Send([kind |-> "refused", id |-> o])
  <2>1. PICK m : m = [kind |-> "refused", id |-> o]
    OBVIOUS
  <2>2. m \in MessagesOf({o}) /\ m.kind = "refused"
    BY <2>1, RefusedIn
  <2>3. Sends(m)
    BY <1>1, <1>5, <2>1 DEF Send, Sends
  <2> QED
    BY <1>1, <1>2, <1>3, <2>2, <2>3, RefusedSettles
<1> QED
  BY <1>1, <1>4, <1>5

LEMMA AnswerCancelSettles ==
  ASSUME LotsFit, SInv, TInv', BoundInv', NEW o \in Ids, AnswerCancel(o),
         session' = "running", gaps' = {}, misread' = {}
  PROVE  Settled'
<1>1. /\ o \in cancels
      /\ UNCHANGED <<api, asked, holding, adapter, queue, firing, processVars, gaps>>
      /\ cancels' \subseteq cancels /\ session = "running" /\ gaps = {} /\ misread = {}
      /\ \/ /\ exch[o].status = "working"
            /\ exch' = [exch EXCEPT ![o] = [status |-> "canceled", left |-> 0]]
            /\ Send(Return(o, "canceled", exch[o].left))
         \/ /\ Send([kind |-> "cancelrefused", id |-> o]) /\ exch' = exch
            /\ api # "tap" \/ exch[o].status \notin {"sent", "working"}
         \/ Send([kind |-> "unheard", id |-> o]) /\ exch' = exch
  BY DEF AnswerCancel, Misread, processVars
<1>2. o \in Active
  BY <1>1 DEF SInv, TInv, OrdersTyped
<1>3. Settled
  BY <1>1 DEF SInv, SettledInv
<1>4. CASE /\ exch' = exch
           /\ \/ /\ Send([kind |-> "cancelrefused", id |-> o])
                 /\ api # "tap" \/ exch[o].status \notin {"sent", "working"}
              \/ Send([kind |-> "unheard", id |-> o])
  <2>1. api \in Drivers
    BY ConstantsTyped DEF Drivers, SInv, TInv, OrdersTyped
  <2>2. PICK m : /\ Send(m)
                 /\ \/ /\ m = [kind |-> "cancelrefused", id |-> o]
                       /\ api # "tap" \/ exch[o].status \notin {"sent", "working"}
                    \/ m = [kind |-> "unheard", id |-> o]
    BY <1>4
  <2>3. m \in MessagesOf({o})
    <3>1. \A q \in {"cancelrefused", "unheard"} : [kind |-> q, id |-> o] \in MessagesOf({o})
      BY RefusedIn
    <3> QED
      BY <2>2, <3>1
  <2>4. Answers(api, m, exch[o].status)
    BY <2>1, <2>2 DEF Answers, Drivers
  <2>5. Sends(m)
    BY <1>1, <2>2 DEF Send, Sends
  <2> QED
    BY <1>1, <1>2, <1>3, <1>4, <2>3, <2>4, <2>5, CancelRefusedSettles
<1>5. CASE /\ exch[o].status = "working"
           /\ exch' = [exch EXCEPT ![o] = [status |-> "canceled", left |-> 0]]
           /\ Send(Return(o, "canceled", exch[o].left))
  <2>1. PICK m, l : m = Return(o, "canceled", l) /\ l = exch[o].left
    OBVIOUS
  <2>2. l \in 1..MaxVolume /\ asked[o].total \in 1..MaxVolume /\ l \in Nat
    BY <1>5, <2>1, LeftIs DEF SInv, TInv
  <2>3. l \in 0..MaxVolume /\ l # 0 /\ l \in 0..l /\ l - l = 0
    BY <2>2, ConstantsTyped
  <2>4. m \in MessagesOf({o})
    BY <2>1, <2>2, <2>3, ReturnIn DEF SInv, TInv
  <2>5. m.kind = "order" /\ m.id = o /\ m.status = "canceled" /\ m.left = l /\ m.total = asked[o].total
    BY <2>1, ReturnFields
  <2>6. Sends(m)
    BY <1>1, <1>5, <2>1 DEF Send, Sends
  <2>7. exch'[o] = [status |-> "canceled", left |-> 0] /\ \A p \in Ids \ {o} : exch'[p] = exch[p]
    BY <1>1, <1>5, EndedOrders DEF SInv, TInv
  <2>8. Returned(m, o, l)
    BY <2>2, <2>3, <2>5 DEF Returned
  <2>9. LotsMove(holding, holding', asked[o], l - m.left)
    <3>1. \A c \in Codes, b \in Buckets, d \in Dirs :
            holding[c][b][d] + 0 = holding[c][b][d] /\ holding[c][b][d] - 0 = holding[c][b][d]
      BY LotsNat DEF SInv, TInv, NotOversold
    <3>2. LotsMove(holding, holding', asked[o], 0)
      BY <1>1, <3>1 DEF LotsMove, SInv, TInv, NotOversold
    <3> QED
      BY <2>3, <2>5, <3>2
  <2>10. exch'[o].status = m.status /\ (m.status = "working" => exch'[o].left = m.left)
    BY <2>5, <2>7
  <2> QED
    BY <1>3, <1>5, <2>1, <2>4, <2>6, <2>7, <2>8, <2>9, <2>10, WorkingSettles
<1> QED
  BY <1>1, <1>4, <1>5

LEMMA SameLedgerSelf == ASSUME NEW x \in Ctxs PROVE SameLedger(x, x)
BY DEF SameLedger, SameBooks

LEMMA EnterSettles ==
  ASSUME SInv, TInv', NEW o \in Ids, ForeignPlace(o) \/ Place(o),
         session' = "running", gaps' = {}, misread' = {}
  PROVE  Settled'
<1>1. PICK r \in Requests : Enter(o, r)
  BY DEF ForeignPlace, Place
<1>2. UNCHANGED <<api, holding, cancels, threadVars, session, gaps, misread>>
  BY DEF ForeignPlace, Place, processVars, histVars
<1>3. ctx' = ctx \/ ctx' = [ctx EXCEPT !.listener = @ \cup {o}]
  BY DEF ForeignPlace, Place, processVars
<1>4. ctx \in Ctxs
  BY DEF SInv, TInv, ProcessTyped
<1>5. SameLedger(ctx, ctx')
  <2>1. PICK x, y : x = ctx /\ y = [ctx EXCEPT !.listener = @ \cup {o}]
    OBVIOUS
  <2>2. SameLedger(x, y)
    BY <1>4, <2>1, ListenerAdds DEF SameLedger
  <2> QED
    BY <1>3, <1>4, <2>1, <2>2, SameLedgerSelf
<1>6. Settled
  BY <1>2 DEF SInv, SettledInv
<1> QED
  BY <1>1, <1>2, <1>5, <1>6, EntersSettled DEF SInv

LEMMA WishSettles ==
  ASSUME SInv, TInv', NEW o \in Ids, Cancel(o) \/ CheckCondition(o),
         session' = "running", gaps' = {}, misread' = {}
  PROVE  Settled'
<1>1. /\ UNCHANGED <<api, asked, wire, adapter, firing, queue, exch, holding, session, gaps, misread>>
      /\ \E v \in Wishes : ctx' = ctx \/ ctx' = [ctx EXCEPT !.condition[o] = v]
  BY DEF Cancel, CheckCondition, threadVars, histVars, Wishes
<1>2. PICK v \in Wishes : ctx' = ctx \/ ctx' = [ctx EXCEPT !.condition[o] = v]
  BY <1>1
<1>3. ctx \in Ctxs
  BY DEF SInv, TInv, ProcessTyped
<1>4. PICK x, y, s, w, A : x = ctx /\ y = ctx' /\ s = Driven.events /\ w = World /\ A = Active
  OBVIOUS
<1>5. SameLedger(x, y)
  <2>1. PICK z : z = [ctx EXCEPT !.condition[o] = v]
    OBVIOUS
  <2>2. SameLedger(x, z)
    BY <1>3, <1>4, <2>1, ConditionSet DEF SameLedger
  <2> QED
    BY <1>2, <1>3, <1>4, <2>1, <2>2, SameLedgerSelf
<1>6. Driven' = Driven /\ s \in Seq(EventsOf(A)) /\ A \in SUBSET Ids
  BY <1>1, <1>4, DrivenSame, DrivenTyped, ActiveIn DEF SInv, Kept
<1>7. \A p \in A : w.asked[p] \in Asked
  BY <1>4 DEF World, SInv, TInv, OrdersTyped
<1>8. SameLedger(Read("context", w, x, s), Read("context", w, y, s))
  BY <1>5, <1>6, <1>7, ReadAlike
<1>9. SameLedger(Final, Final')
  <2>1. World' = World
    BY <1>1 DEF World
  <2> QED
    BY <1>4, <1>6, <1>8, <2>1 DEF Final
<1>10. Settled
  BY <1>1 DEF SInv, SettledInv
<1> QED
  BY <1>1, <1>6, <1>9, <1>10, StaysSettled

LEMMA HandleSettles ==
  ASSUME SInv, Handle, session' = "running", gaps' = {}, misread' = {}
  PROVE  Settled'
<1>1. PICK e, x, y, w : e = Head(queue) /\ x = Driven /\ y = Driven' /\ w = World
  OBVIOUS
<1>2. UNCHANGED <<api, asked, exch, holding, session, gaps, misread>> /\ ctx' = Heard(ctx, e)
  BY <1>1 DEF Handle, exchangeVars, histVars
<1>3. /\ x.events # <<>> /\ Head(x.events) = e /\ y.events = Tail(x.events) /\ y.adapter = x.adapter
      /\ x.events \in Seq(EventsOf(Active))
  BY <1>1, DrivenHandles, DrivenTyped DEF SInv, Kept
<1>4. ctx' = Reads("context", w, ctx, e)
  BY <1>1, <1>2, HeardReads
<1>5. \A b : Read("context", w, b, x.events)
               = Read("context", w, Reads("context", w, b, Head(x.events)), Tail(x.events))
  BY <1>3, ReadFirst
<1>6. World' = w
  BY <1>1, <1>2 DEF World
<1>7. Final' = Final
  BY <1>1, <1>3, <1>4, <1>5, <1>6 DEF Final
<1>8. Settled
  BY <1>2 DEF SInv, SettledInv
<1> QED
  BY <1>1, <1>2, <1>3, <1>7, <1>8, StaysSettled

LEMMA QuietSettles ==
  ASSUME SInv, Deliver \/ Fire \/ Clock \/ UNCHANGED vars,
         session' = "running", gaps' = {}, misread' = {}
  PROVE  Settled'
<1>1. UNCHANGED <<api, asked, exch, holding, session, gaps, misread, ctx>>
  BY DEF Deliver, Fire, Clock, vars, exchangeVars, processVars, histVars
<1>2. Driven' = Driven
  <2>1. CASE Deliver \/ Fire
    BY <2>1, DrivenDelivers, DrivenFires DEF SInv
  <2>2. CASE Clock \/ UNCHANGED vars
    BY <2>2, DrivenSame DEF SInv, Clock, vars, exchangeVars, threadVars
  <2> QED
    BY <2>1, <2>2
<1>3. Final' = Final
  BY <1>1, <1>2 DEF Final, World
<1>4. Settled
  BY <1>1 DEF SInv, SettledInv
<1> QED
  BY <1>1, <1>2, <1>3, <1>4, StaysSettled

-----------------------------------------------------------------------------
(* A load with nothing on its way leaves books that are settled. *)

\* The orders that are loaded are those that wait, for what they were placed for.
LoadsWanting(live, info, f) ==
  (\A o \in live : info[o].total = f[o]) /\ (\A o \in Ids \ live : f[o] = 0)

LEMMA LoadedTotal ==
  ASSUME LotsFit, Codes # {}, NEW live \in SUBSET Ids, NEW info, NEW f \in Wanting,
         LoadsWanting(live, info, f),
         NEW S, NEW R, R = live \cap S
  PROVE  Totals(info, R) = Asks(f, S)
<1> DEFINE t == [o \in Ids |-> info[o].total]
<1>1. R \subseteq Ids /\ IsFiniteSet(R) /\ IsFiniteSet(Ids)
  BY ConstantsTyped, FS_Subset
<1>2. \A o \in R : t[o] = f[o]
  BY DEF LoadsWanting
<1>3. Totals(info, R) = SumFunctionOnSet(t, R) % Modulus
  BY SameSum DEF Totals
<1> HIDE DEF t
<1>4. SumFunctionOnSet(t, R) = SumFunctionOnSet(f, R)
  BY <1>1, <1>2, SumSame
<1>5. \A o \in Ids : f[o] \in Int
  BY ConstantsTyped DEF Wanting
<1>6. SumFunctionOnSet(f, R) = SumFunctionOnSet([o \in Ids |-> IF o \in R THEN f[o] ELSE 0], Ids)
  BY <1>1, <1>5, SumWithin
<1>7. \A o \in Ids : (IF o \in R THEN f[o] ELSE 0) = (IF o \in S THEN f[o] ELSE 0)
  BY DEF LoadsWanting
<1>8. [o \in Ids |-> IF o \in R THEN f[o] ELSE 0] = [o \in Ids |-> IF o \in S THEN f[o] ELSE 0]
  BY <1>7
<1>9. SumFunctionOnSet(f, R) = Asks(f, S)
  BY <1>6, <1>8 DEF Asks
<1>10. Asks(f, S) \in Nat /\ Asks(f, S) < Modulus
  BY AsksNat, Fits
<1> QED
  BY <1>3, <1>4, <1>9, <1>10, ConstantsTyped

\* Nothing is on its way, and no order has dealt in part.
LEMMA QueriedClean ==
  ASSUME SInv, QueryOrders, gaps' = {}
  PROVE  /\ seen = holding /\ UNCHANGED <<api, asked, exch, holding, wire, firing, queue>>
         /\ wire = <<>> /\ firing = <<>> /\ queue = <<>>
         /\ Live = At("working")
         /\ \A o \in Live : o \in Active /\ exch[o].status = "working" /\ asked[o].total = exch[o].left
<1>1. /\ session = "queried"
      /\ UNCHANGED <<api, asked, exch, holding, wire, firing, queue>>
      /\ gaps' = gaps
           \cup (IF seen # holding \/ wire # <<>> \/ firing # <<>> \/ queue # <<>>
                 THEN {"window"} ELSE {})
           \cup (IF \E o \in At("working") : exch[o].left < asked[o].total
                 THEN {"partial"} ELSE {})
  BY DEF QueryOrders, exchangeVars
<1>2. seen = holding /\ wire = <<>> /\ firing = <<>> /\ queue = <<>>
  BY <1>1
<1>3. ~\E o \in At("working") : exch[o].left < asked[o].total
  BY <1>1
<1>4. adapter.index = {}
  BY <1>1, <1>2 DEF SInv, FreshInv, Drv!NoOrders
<1>5. Live = At("working")
  BY <1>4, QueriedIs DEF SInv, TInv
<1>6. ASSUME NEW o \in Live
      PROVE  o \in Active /\ exch[o].status = "working" /\ asked[o].total = exch[o].left
  <2>1. o \in Ids /\ exch[o].status = "working"
    BY <1>5 DEF At
  <2>2. /\ o \in Active /\ asked[o].total \in 1..MaxVolume /\ exch[o].left \in 1..asked[o].total
    BY <2>1, LeftIs DEF SInv, TInv
  <2>3. ~(exch[o].left < asked[o].total)
    BY <1>3, <1>5
  <2> QED
    BY <2>1, <2>2, <2>3, ConstantsTyped
<1> QED
  BY <1>1, <1>2, <1>5, <1>6

\* What is loaded of an order.
LEMMA LoadedMeans ==
  ASSUME SInv, NEW o \in Ids, o \in Active, exch[o].status = "working", asked[o].total = exch[o].left
  PROVE  /\ LoadInfo[o].code = asked[o].code /\ LoadInfo[o].direction = asked[o].direction
         /\ LoadInfo[o].total = Lefts[o] /\ LoadInfo[o].last = Shown[o]
         /\ LoadInfo[o].offset = "open" <=> asked[o].offset = "open"
         /\ asked[o].offset # "open" => Ctx!BucketOf(LoadInfo[o]) = BucketOf(asked[o])
<1>1. PICK w, n, r : w = World /\ n = exch[o].left /\ r = OrderInfoBy(w, o, n)
  OBVIOUS
<1>2. LoadInfo[o] = r /\ w.asked[o] = asked[o]
  BY <1>1 DEF LoadInfo, OrderInfo, OrderInfoBy, World
<1>3. Plain(w, o) /\ n \in 0..MaxVolume
  BY <1>1, LeftIs, ConstantsTyped DEF SInv, PlainInv, TInv
<1>4. /\ r.code = w.asked[o].code /\ r.direction = w.asked[o].direction
      /\ r.total = w.asked[o].total /\ r.last = n
      /\ r.offset = "open" <=> w.asked[o].offset = "open"
      /\ w.asked[o].offset # "open" => Ctx!BucketOf(r) = BucketOf(w.asked[o])
  BY <1>1, <1>3, InfoMeans
<1>5. Lefts[o] = n /\ Shown[o] = n
  BY <1>1, WantsTyped DEF SInv, TInv
<1> QED
  BY <1>1, <1>2, <1>4, <1>5

\* Books that the load makes of an account.
LEMMA LoadedShelf ==
  ASSUME SInv, LotsFit, QueryOrders, gaps' = {}, NEW c \in Codes, NEW b \in Buckets, NEW d \in Dirs
  PROVE  Shelved(World, ctx', holding, Lefts, c, b, d)
<1>1. PICK w, y, h, f, info, live, held :
        /\ w = World /\ y = ctx' /\ h = holding /\ f = Lefts
        /\ info = LoadInfo /\ live = Live /\ held = Held
  OBVIOUS
<1>2. /\ Loads(ctx, y, live, info, seen, held) /\ seen = h /\ live = At("working")
      /\ \A o \in live : o \in Active /\ exch[o].status = "working" /\ asked[o].total = exch[o].left
  BY <1>1, QueriedClean, QueriedContext DEF SInv
<1>3. live \in SUBSET Ids /\ h \in Lots /\ f \in Wanting
  BY <1>1, <1>2, WantsTyped DEF At, SInv, TInv, NotOversold
<1>4. ASSUME NEW o \in live
      PROVE  /\ info[o].code = w.asked[o].code /\ info[o].direction = w.asked[o].direction
             /\ info[o].total = f[o]
             /\ info[o].offset = "open" <=> w.asked[o].offset = "open"
             /\ w.asked[o].offset # "open" => Ctx!BucketOf(info[o]) = BucketOf(w.asked[o])
  BY <1>1, <1>2, <1>3, LoadedMeans DEF World
<1>5. \A o \in Ids \ live : f[o] = 0
  BY <1>1, <1>2, WantsTyped DEF At, SInv, TInv
<1>6. PICK R, S, T, U : /\ R = Freezes(live, info, c, b, d) /\ S = Sellers(w, c, b, d)
                        /\ T = Pends(live, info, c, d) /\ U = Buyers(w, c, d)
  OBVIOUS
<1>7. R = live \cap S /\ T = live \cap U
  <2>1. R = live \cap S
    BY <1>3, <1>4, <1>6 DEF Freezes, Sellers
  <2>2. T = live \cap U
    BY <1>3, <1>4, <1>6 DEF Pends, Buyers
  <2> QED
    BY <2>1, <2>2
<1>8. Totals(info, R) = Asks(f, S) /\ Totals(info, T) = Asks(f, U)
  <2>1. Codes # {} /\ live \in SUBSET Ids /\ f \in Wanting
    BY <1>3
  <2>2. LoadsWanting(live, info, f)
    BY <1>4, <1>5 DEF LoadsWanting
  <2>3. \A Q, V : Q = live \cap V => Totals(info, Q) = Asks(f, V)
    BY <2>1, <2>2, LoadedTotal
  <2> QED
    BY <1>7, <2>3
<1>9. /\ y.position[c].postion[b][d] = h[c][b][d]
      /\ y.position[c].frozen[b][d] = Totals(info, R)
      /\ y.position[c].pending[d] = Totals(info, T)
      /\ y.entries = LoadedEntries(live, info, held)
  <2>1. y.position[c] = Shelf(live, info, h, c)
    BY <1>2 DEF Loads, Shelves
  <2> QED
    BY <1>2, <1>6, <2>1 DEF Shelf, Loads
<1>10. Asks(f, S) <= h[c][b][d]
  <2>1. Asks(f, S) = Locked(c, b, d)
    BY <1>1, <1>6, LockedAsks DEF SInv, TInv
  <2>2. Locked(c, b, d) = SumFunctionOnSet([o \in Ids |-> Waits(c, b, d, o)], Ids)
    BY LockedIs DEF SInv, TInv
  <2> QED
    BY <1>1, <2>1, <2>2 DEF SInv, TInv, NotOversold
<1>11. ASSUME c \notin y.entries PROVE h[c][b][d] = 0 /\ Totals(info, T) = 0
  <2>1. c \notin held /\ \A o \in live : info[o].code # c
    BY <1>9, <1>11 DEF LoadedEntries
  <2>2. ~(h[c][b][d] > 0)
    BY <1>1, <1>2, <2>1 DEF Held
  <2>3. h[c][b][d] \in Nat
    BY <1>3, LotsNat
  <2>4. T = {}
    BY <1>6, <2>1 DEF Pends
  <2>5. \A g : SumFunctionOnSet(g, {}) = 0
    BY SumEmpty
  <2>6. Totals(info, T) = 0 % Modulus
    BY <2>4, <2>5, SameSum DEF Totals
  <2> QED
    BY <2>2, <2>3, <2>6, ConstantsTyped
<1> QED
  BY <1>1, <1>6, <1>8, <1>9, <1>10, <1>11 DEF Shelved

LEMMA QuerySettles ==
  ASSUME SInv, LotsFit, QueryOrders, gaps' = {}
  PROVE  Settled'
<1>1. /\ Loads(ctx, ctx', Live, LoadInfo, seen, Held) /\ ctx' \in Ctxs
      /\ Live = At("working") /\ UNCHANGED <<api, asked, exch, holding>>
      /\ wire' = <<>> /\ firing' = <<>> /\ queue' = <<>>
      /\ \A o \in Live : o \in Active /\ exch[o].status = "working" /\ asked[o].total = exch[o].left
  BY QueriedClean, QueriedContext DEF SInv
<1>2. World' = World /\ Shown' = Shown /\ Lefts' = Lefts
  BY <1>1 DEF World, Shown, Lefts
<1>3. Driven' = Drv!Keeps(adapter', <<>>)
  <2>1. <<>> \o <<>> = <<>>
    OBVIOUS
  <2>2. PICK b : b = Drv!Keeps(adapter', <<>> \o <<>>)
    OBVIOUS
  <2>3. Driven' = Read("driver", World', b, <<>>)
    BY <1>1, <2>2 DEF Driven
  <2> QED
    BY <2>1, <2>2, <2>3, ReadNothing
<1>4. Driven'.adapter = adapter' /\ Driven'.events = <<>>
  BY <1>3 DEF Drv!Keeps
<1>5. Final' = ctx'
  BY <1>4, ReadNothing DEF Final
<1>6. Live \subseteq Ids
  BY <1>1 DEF At
<1>7. adapter'.order = Shown
  <2>1. \A o \in Ids : adapter'.order[o] = IF o \in Live THEN exch[o].left ELSE Drv!Unknown
    BY QueriedIs DEF SInv, TInv
  <2>2. \A o \in Ids : Shown[o] = IF o \in Live THEN exch[o].left ELSE -1
    BY <1>1, WantsTyped DEF At, SInv, TInv
  <2>3. adapter'.order \in [Ids -> -1..MaxVolume] /\ Shown \in [Ids -> -1..MaxVolume]
    BY QueriedIs, WantsTyped DEF SInv, TInv, Adapters
  <2> QED
    BY <2>1, <2>2, <2>3 DEF Drv!Unknown
<1>8. ctx'.order = Shown
  <2>1. ctx'.order = [o \in Ids |-> IF o \in Live THEN LoadInfo[o].last ELSE Ctx!Unknown]
    BY <1>1 DEF Loads, LoadedOrders
  <2>2. \A o \in Ids : Shown[o] = IF o \in Live THEN LoadInfo[o].last ELSE Ctx!Unknown
    <3>1. \A o \in Ids : o \notin Live => Shown[o] = -1
      BY <1>1, WantsTyped DEF At, SInv, TInv
    <3>2. \A o \in Ids : o \in Live => Shown[o] = LoadInfo[o].last
      BY <1>1, LoadedMeans
    <3> QED
      BY <3>1, <3>2 DEF Ctx!Unknown
  <2>3. Shown \in [Ids -> -1..MaxVolume]
    BY WantsTyped DEF SInv, TInv
  <2> QED
    BY <2>1, <2>2, <2>3
<1>9. Books(World, ctx', holding, Shown, Lefts)
  <2>1. holding \in Lots /\ Lefts \in Wanting
    BY WantsTyped DEF SInv, TInv, NotOversold
  <2> QED
    BY <1>1, <1>8, <2>1, LoadedShelf DEF Books
<1> QED
  BY <1>1, <1>2, <1>4, <1>5, <1>7, <1>9 DEF Settled

-----------------------------------------------------------------------------
(* The books settle. *)

LEMMA InitSettles == Init => SInv
<1> SUFFICES ASSUME Init PROVE SInv
  OBVIOUS
<1>1. TInv
  BY InitTyped
<1>2. \A o \in Ids : exch[o].status = "none"
  BY DEF Init
<1>3. PlainInv
  BY <1>2 DEF PlainInv, Active
<1>4. BoundInv
  <2>1. Asks(Mays, Ids) \in Nat /\ Asks(Mays, Ids) <= Everything
    BY <1>1, WantsTyped, AsksNat DEF TInv
  <2>2. holding = Holding
    BY DEF Init
  <2>3. \A c \in Codes, b \in Buckets, d \in Dirs : Holding[c][b][d] \in Nat
    BY HoldingTyped, LotsNat
  <2> QED
    BY <2>1, <2>2, <2>3, EverythingNat DEF BoundInv
<1>5. FreshInv /\ SettledInv
  BY DEF Init, FreshInv, SettledInv
<1> QED
  BY <1>1, <1>3, <1>4, <1>5 DEF SInv

LEMMA NextSettles == LotsFit /\ CloseMeans => (SInv /\ [Next]_vars => SInv')
<1> SUFFICES ASSUME LotsFit, CloseMeans, SInv, [Next]_vars PROVE SInv'
  OBVIOUS
<1>1. TInv'
  BY NextTyped DEF SInv
<1>2. PlainInv' /\ BoundInv' /\ FreshInv'
  BY <1>1, NextPlain, NextBound, NextFresh DEF SInv
<1>3. ASSUME session' = "running", gaps' = {}, misread' = {} PROVE Settled'
  <2>1. ASSUME NEW o \in Ids,
               \/ Report(o) \/ Refuse(o) \/ AnswerCancel(o) \/ ForeignPlace(o)
               \/ Place(o) \/ Cancel(o) \/ CheckCondition(o)
        PROVE  Settled'
    BY <1>1, <1>2, <1>3, <2>1, ReportSettles, RefuseSettles, AnswerCancelSettles, EnterSettles, WishSettles
  <2>2. CASE Handle
    BY <1>3, <2>2, HandleSettles
  <2>3. CASE Deliver \/ Fire \/ Clock \/ UNCHANGED vars
    BY <1>3, <2>3, QuietSettles
  <2>4. CASE QueryOrders
    BY <1>3, <2>4, QuerySettles
  <2>5. CASE Login \/ QueryPositions \/ Crash
    BY <1>3, <2>5 DEF Login, QueryPositions, Crash
  <2> QED
    BY <2>1, <2>2, <2>3, <2>4, <2>5 DEF Next
<1> QED
  BY <1>1, <1>2, <1>3 DEF SInv, SettledInv

LEMMA SpecSettles == LotsFit /\ CloseMeans => (Spec => []SInv)
<1> SUFFICES ASSUME LotsFit, CloseMeans PROVE Spec => []SInv
  OBVIOUS
<1>1. SInv /\ [Next]_vars => SInv'
  BY NextSettles
<1> QED
  BY <1>1, InitSettles, PTL DEF Spec

\* Pending lots, as what is asked for of a slot.
LEMMA WaitingBuys ==
  ASSUME OrdersTyped, NEW c, NEW d
  PROVE  Waiting(c, d, LAMBDA r : r.offset = "open") = Asks(Lefts, Buyers(World, c, d))
<1> DEFINE R == {o \in At("working") : /\ asked[o].code = c /\ asked[o].direction = d
                                       /\ asked[o].offset = "open"}
<1>1. R \in SUBSET Ids
  BY DEF At
<1>2. Waiting(c, d, LAMBDA r : r.offset = "open") = MapThenSumSet(LAMBDA o : exch[o].left, R)
  BY DEF Waiting
<1>3. \A o \in Ids : (IF o \in R THEN exch[o].left ELSE 0)
                       = IF o \in Buyers(World, c, d) THEN Lefts[o] ELSE 0
  BY WantsTyped DEF Buyers, World, At
<1> HIDE DEF R
<1>4. MapThenSumSet(LAMBDA o : exch[o].left, R)
        = SumFunctionOnSet([o \in Ids |-> IF o \in R THEN exch[o].left ELSE 0], Ids)
  BY <1>1, WorkingSum
<1>5. PICK B : B = Buyers(World, c, d)
  OBVIOUS
<1>6. [o \in Ids |-> IF o \in R THEN exch[o].left ELSE 0]
        = [o \in Ids |-> IF o \in B THEN Lefts[o] ELSE 0]
  BY <1>3, <1>5
<1> QED
  BY <1>2, <1>4, <1>5, <1>6 DEF Asks

LEMMA WaitingSells ==
  ASSUME OrdersTyped, NEW c, NEW b, NEW d
  PROVE  Waiting(c, d, LAMBDA r : r.offset # "open" /\ BucketOf(r) = b)
           = Asks(Lefts, Sellers(World, c, b, d))
<1>1. Waiting(c, d, LAMBDA r : r.offset # "open" /\ BucketOf(r) = b) = Locked(c, b, d)
  BY DEF Waiting, Locked
<1> QED
  BY <1>1, LockedAsks

LEMMA BooksAreSettled == SInv => BooksSettle
<1> SUFFICES ASSUME SInv, session = "running", gaps = {}, misread = {}
             PROVE  LET x == Drained
                    IN /\ x.order = [o \in Ids |-> IF o \in At("working") THEN exch[o].left ELSE -1]
                       /\ \A c \in Codes, d \in Dirs :
                            /\ \A b \in Buckets :
                                 /\ x.position[c].postion[b][d] = holding[c][b][d]
                                 /\ x.position[c].frozen[b][d] =
                                      Waiting(c, d, LAMBDA r : r.offset # "open" /\ BucketOf(r) = b)
                            /\ x.position[c].pending[d] = Waiting(c, d, LAMBDA r : r.offset = "open")
  BY DEF BooksSettle
<1>1. PICK x : x = Drained
  OBVIOUS
<1>2. x = Final
  BY <1>1, DrivenTyped, DrainedIs DEF SInv, Final
<1>3. Books(World, x, holding, Shown, Lefts)
  BY <1>2 DEF SInv, SettledInv, Settled
<1>4. x.order = [o \in Ids |-> IF o \in At("working") THEN exch[o].left ELSE -1]
  <2>1. \A o \in Ids : Shown[o] = IF o \in At("working") THEN exch[o].left ELSE -1
    BY WantsTyped DEF At, SInv, TInv
  <2>2. Shown \in [Ids -> -1..MaxVolume] /\ x.order = Shown
    BY <1>3, WantsTyped DEF Books, SInv, TInv
  <2> QED
    BY <2>1, <2>2
<1>5. ASSUME NEW c \in Codes, NEW d \in Dirs, NEW b \in Buckets
      PROVE  /\ x.position[c].postion[b][d] = holding[c][b][d]
             /\ x.position[c].frozen[b][d] = Asks(Lefts, Sellers(World, c, b, d))
             /\ x.position[c].pending[d] = Asks(Lefts, Buyers(World, c, d))
  BY <1>3 DEF Books, Shelved
<1>6. ASSUME NEW c \in Codes, NEW d \in Dirs, NEW b \in Buckets
      PROVE  /\ x.position[c].frozen[b][d] =
                  Waiting(c, d, LAMBDA r : r.offset # "open" /\ BucketOf(r) = b)
             /\ x.position[c].pending[d] = Waiting(c, d, LAMBDA r : r.offset = "open")
  <2>1. OrdersTyped
    BY DEF SInv, TInv
  <2>2. Asks(Lefts, Sellers(World, c, b, d))
          = Waiting(c, d, LAMBDA r : r.offset # "open" /\ BucketOf(r) = b)
    BY <2>1, WaitingSells
  <2>3. Asks(Lefts, Buyers(World, c, d)) = Waiting(c, d, LAMBDA r : r.offset = "open")
    BY <2>1, WaitingBuys
  <2> QED
    BY <1>5, <2>2, <2>3
<1>7. "today" \in Buckets
  BY DEF Buckets
<1> QED
  BY <1>1, <1>4, <1>5, <1>6, <1>7

\* Where the volumes fit the context's unsigned integers, and CTP is asked to
\* "close" only where the exchange tells today's lots apart, the context's books
\* come out as the exchange has the account: through deals in part, refusals and
\* cancels, the orders of other sessions, and restarts between any two steps,
\* unless one of the three gaps has opened since the process started, or TAP's
\* driver has misread an error.
THEOREM SettlesBooks == LotsFit /\ CloseMeans => (Spec => []BooksSettle)
<1> SUFFICES ASSUME LotsFit, CloseMeans PROVE Spec => []BooksSettle
  OBVIOUS
<1>1. Spec => []SInv
  BY SpecSettles
<1> QED
  BY <1>1, BooksAreSettled, PTL
=============================================================================
