-------------------------- MODULE MarketDataProofs --------------------------
(***************************************************************************)
(* Proofs about MarketData, for every value of its constants.              *)
(*                                                                         *)
(* The market publishes the ticks of all listed instruments in one order;  *)
(* what an instrument's ticks make of the data depends on how many of its  *)
(* own file have been taken in.  So the invariant gives every instrument a *)
(* number n and says what the first n ticks of its file must have made.    *)
(***************************************************************************)
EXTENDS MarketData, SumProofs, SequenceTheorems

-----------------------------------------------------------------------------
(* Sorted puts a day's ticks in order. *)

Precedes(t, u) == t.time < u.time \/ (t.time = u.time /\ t.code < u.code)

\* Ticks that differ in time or code.
Keyed(T) ==
  /\ IsFiniteSet(T)
  /\ \A t \in T : t.time \in Nat /\ t.code \in Nat
  /\ \A t, u \in T : t.time = u.time /\ t.code = u.code => t = u

LEMMA BeforeIs ==
  \A T, t : Before(t, T) = {u \in T : Precedes(u, t)}
BY DEF Before, Precedes

LEMMA OrderIsTotal ==
  ASSUME NEW T, Keyed(T), NEW t \in T, NEW u \in T
  PROVE  /\ ~Precedes(t, t)
         /\ t = u \/ Precedes(t, u) \/ Precedes(u, t)
         /\ Precedes(t, u) => ~Precedes(u, t)
         /\ \A v \in T : Precedes(t, u) /\ Precedes(u, v) => Precedes(t, v)
BY DEF Keyed, Precedes

\* How many ticks are before t.
Rank(t, T) == Cardinality(Before(t, T))

LEMMA RankIs ==
  ASSUME NEW T, Keyed(T), NEW t \in T
  PROVE  /\ Before(t, T) \in SUBSET T /\ IsFiniteSet(Before(t, T))
         /\ Rank(t, T) \in 0..(Cardinality(T) - 1)
<1>1. Before(t, T) \in SUBSET (T \ {t})
  BY OrderIsTotal, BeforeIs
<1>2. IsFiniteSet(T) /\ IsFiniteSet(T \ {t}) /\ Cardinality(T \ {t}) = Cardinality(T) - 1
  BY FS_RemoveElement DEF Keyed
<1>3. Cardinality(T) \in Nat
  BY <1>2, FS_CardinalityType
<1>4. IsFiniteSet(Before(t, T)) /\ Cardinality(Before(t, T)) <= Cardinality(T \ {t})
  BY <1>1, <1>2, FS_Subset
<1>5. Cardinality(Before(t, T)) \in Nat
  BY <1>4, FS_CardinalityType
<1> QED
  BY <1>1, <1>2, <1>3, <1>4, <1>5 DEF Rank

LEMMA RankGrows ==
  ASSUME NEW T, Keyed(T), NEW t \in T, NEW u \in T, Precedes(t, u)
  PROVE  Rank(t, T) < Rank(u, T)
<1>1. Before(t, T) \in SUBSET Before(u, T)
  BY OrderIsTotal, BeforeIs
<1>2. t \in Before(u, T) /\ t \notin Before(t, T)
  BY OrderIsTotal, BeforeIs
<1>3. IsFiniteSet(Before(u, T)) /\ Rank(t, T) \in Int /\ Rank(u, T) \in Int
  BY RankIs
<1>4. Cardinality(Before(t, T)) <= Cardinality(Before(u, T))
  BY <1>1, <1>3, FS_Subset
<1>5. Cardinality(Before(t, T)) # Cardinality(Before(u, T))
  BY <1>1, <1>2, <1>3, FS_Subset
<1> QED
  BY <1>3, <1>4, <1>5 DEF Rank

LEMMA RankTells ==
  ASSUME NEW T, Keyed(T), NEW t \in T, NEW u \in T
  PROVE  /\ Rank(t, T) = Rank(u, T) => t = u
         /\ Rank(t, T) < Rank(u, T) => Precedes(t, u)
<1>1. t = u \/ Precedes(t, u) \/ Precedes(u, t)
  BY OrderIsTotal
<1>2. Precedes(t, u) => Rank(t, T) < Rank(u, T)
  BY RankGrows
<1>3. Precedes(u, t) => Rank(u, T) < Rank(t, T)
  BY RankGrows
<1>4. Rank(t, T) \in Int /\ Rank(u, T) \in Int
  BY RankIs
<1> QED
  BY <1>1, <1>2, <1>3, <1>4

LEMMA RankReaches ==
  ASSUME NEW T, Keyed(T), NEW k \in 0..(Cardinality(T) - 1)
  PROVE  \E t \in T : Rank(t, T) = k
<1> DEFINE n == Cardinality(T)
           D == 0..(n - 1)
           f == [t \in T |-> Rank(t, T)]
<1>1. IsFiniteSet(T) /\ n \in Nat
  BY FS_CardinalityType DEF Keyed
<1>2. f \in [T -> D]
  BY RankIs
<1>3. f \in Injection(T, D)
  BY <1>2, RankTells DEF Injection, IsInjective
<1>4. IsFiniteSet(D) /\ Cardinality(D) = n
  <2>1. 0 \in Int /\ n - 1 \in Int
    BY <1>1
  <2>2. IsFiniteSet(D) /\ Cardinality(D) = IF 0 > n - 1 THEN 0 ELSE n - 1 - 0 + 1
    BY <2>1, FS_Interval
  <2> QED
    BY <1>1, <2>2
<1>5. f \in Surjection(T, D)
  BY <1>3, <1>4, FS_Injection
<1>6. \E t \in T : f[t] = k
  BY <1>5 DEF Surjection
<1> QED
  BY <1>6

\* In the order of time and code, each tick once.
InOrder(s, T) ==
  /\ s \in Seq(T)
  /\ \A t \in T : \E i \in 1..Len(s) : s[i] = t
  /\ \A i, j \in 1..Len(s) : i < j => Precedes(s[i], s[j])

LEMMA SortedInOrder ==
  ASSUME NEW T, Keyed(T)
  PROVE  InOrder(Sorted(T), T)
<1> DEFINE n == Cardinality(T)
           s == Sorted(T)
<1>1. IsFiniteSet(T) /\ n \in Nat
  BY FS_CardinalityType DEF Keyed
<1>2. s = [i \in 1..n |-> CHOOSE t \in T : Rank(t, T) = i - 1]
  BY DEF Sorted, Rank
<1>3. \A i \in 1..n : s[i] \in T /\ Rank(s[i], T) = i - 1
  <2> SUFFICES ASSUME NEW i \in 1..n PROVE s[i] \in T /\ Rank(s[i], T) = i - 1
    OBVIOUS
  <2>1. i - 1 \in 0..(n - 1)
    BY <1>1
  <2>2. \E t \in T : Rank(t, T) = i - 1
    BY <2>1, RankReaches
  <2>3. s[i] = CHOOSE t \in T : Rank(t, T) = i - 1
    BY <1>2
  <2> HIDE DEF s
  <2> QED
    BY <2>2, <2>3
<1>4. DOMAIN s = 1..n
  BY <1>2
<1> HIDE DEF s
<1>5. s \in Seq(T) /\ Len(s) = n
  <2>1. s \in [1..n -> T]
    BY <1>2, <1>3
  <2> QED
    BY <1>1, <2>1
<1>6. \A t \in T : \E i \in 1..n : s[i] = t
  <2> SUFFICES ASSUME NEW t \in T PROVE \E i \in 1..n : s[i] = t
    OBVIOUS
  <2>1. Rank(t, T) \in 0..(n - 1)
    BY RankIs
  <2>2. PICK i \in 1..n : i - 1 = Rank(t, T)
    <3>1. PICK r \in 0..(n - 1) : r = Rank(t, T)
      BY <2>1
    <3> HIDE DEF n
    <3>2. r + 1 \in 1..n /\ (r + 1) - 1 = r
      BY <1>1
    <3> QED
      BY <3>1, <3>2
  <2>3. s[i] \in T /\ Rank(s[i], T) = Rank(t, T)
    BY <1>3, <2>2
  <2>4. s[i] = t
    BY <2>3, RankTells
  <2> QED
    BY <2>4
<1>7. ASSUME NEW i \in 1..n, NEW j \in 1..n, i < j PROVE Precedes(s[i], s[j])
  <2>1. Rank(s[i], T) < Rank(s[j], T)
    BY <1>1, <1>3, <1>7
  <2> QED
    BY <1>3, <2>1, RankTells
<1>8. InOrder(s, T)
  BY <1>5, <1>6, <1>7 DEF InOrder
<1> QED
  BY <1>8 DEF s

-----------------------------------------------------------------------------
(* What is handled one after the other: FoldLeft, as the values between *)

Step(kind, x, e) == IF kind = "tick" THEN HandleTick(x, e) ELSE Uncounted(x, e)

\* The equation of the recursive function that FoldLeft is defined by.
Folds(kind, b, s, g) ==
  g = [t \in SUBSET DOMAIN s |->
         IF t = {} THEN b ELSE Step(kind, g[t \ {LastOf(t)}], s[LastOf(t)])]

FoldsUpTo(n, kind, b, s, g) ==
  /\ g = [t \in SUBSET DOMAIN s |-> g[t]]
  /\ \A t \in SUBSET DOMAIN s :
       Cardinality(t) <= n =>
         g[t] = IF t = {} THEN b ELSE Step(kind, g[t \ {LastOf(t)}], s[LastOf(t)])

LEMMA FoldsUpToExists ==
  ASSUME NEW kind, NEW b, NEW s, NEW d \in Nat, DOMAIN s = 1..d, NEW n \in Nat
  PROVE  \E g : FoldsUpTo(n, kind, b, s, g)
<1> DEFINE Bad == {m \in Nat : ~\E g : FoldsUpTo(m, kind, b, s, g)}
<1> SUFFICES ASSUME Bad # {} PROVE FALSE
  OBVIOUS
<1>1. PICK m \in Bad : \A k \in Bad : ~(k < m)
  <2>1. Bad \subseteq Nat
    OBVIOUS
  <2> HIDE DEF Bad
  <2> QED
    BY <2>1, LeastNat
<1>2. CASE m = 0
  <2> DEFINE g == [t \in SUBSET DOMAIN s |-> b]
  <2>1. \A t \in SUBSET DOMAIN s : Cardinality(t) <= 0 => t = {}
    <3>1. IsFiniteSet(1..d)
      BY FS_Interval
    <3> QED
      BY <3>1, FS_EmptySet, FS_Subset, FS_CardinalityType
  <2>2. FoldsUpTo(0, kind, b, s, g)
    BY <2>1 DEF FoldsUpTo
  <2> QED
    BY <1>2, <2>2
<1>3. CASE m # 0
  <2>1. m - 1 \in Nat /\ m - 1 \notin Bad
    BY <1>1, <1>3
  <2>2. PICK h : FoldsUpTo(m - 1, kind, b, s, h)
    BY <2>1
  <2> DEFINE val(t) == IF t = {} THEN b ELSE Step(kind, h[t \ {LastOf(t)}], s[LastOf(t)])
             g == [t \in SUBSET DOMAIN s |-> val(t)]
  <2>3. \A t \in SUBSET DOMAIN s : Cardinality(t) <= m - 1 => h[t] = val(t)
    BY <2>2 DEF FoldsUpTo
  <2>4. ASSUME NEW t \in SUBSET DOMAIN s, Cardinality(t) <= m, t # {}
        PROVE  g[t] = Step(kind, g[t \ {LastOf(t)}], s[LastOf(t)])
    <3>1. PICK u : u = t \ {LastOf(t)}
      OBVIOUS
    <3>2. t \in SUBSET (1..d) /\ t # {}
      BY <2>4
    <3>3. u \in SUBSET (1..d) /\ Cardinality(t) \in Nat /\ Cardinality(u) = Cardinality(t) - 1
      BY <3>1, <3>2, WithoutLast
    <3>4. m \in Nat /\ Cardinality(t) <= m
      BY <2>4
    <3>5. Cardinality(u) <= m - 1
      BY <3>3, <3>4
    <3>6. h[u] = val(u)
      BY <2>3, <3>3, <3>5
    <3> QED
      BY <2>4, <3>1, <3>3, <3>6
  <2>5. g = [t \in SUBSET DOMAIN s |-> g[t]] /\ g[{}] = b
    OBVIOUS
  <2> HIDE DEF g
  <2>6. FoldsUpTo(m, kind, b, s, g)
    BY <2>4, <2>5 DEF FoldsUpTo
  <2> QED
    BY <2>6
<1> QED
  BY <1>2, <1>3

LEMMA FoldsExists ==
  ASSUME NEW kind, NEW b, NEW s, NEW d \in Nat, DOMAIN s = 1..d
  PROVE  \E g : Folds(kind, b, s, g)
<1> DEFINE n == Cardinality(1..d)
<1>1. n \in Nat /\ \A t \in SUBSET DOMAIN s : Cardinality(t) <= n
  <2>1. IsFiniteSet(1..d)
    BY FS_Interval
  <2> QED
    BY <2>1, FS_CardinalityType, FS_Subset
<1>2. PICK g : FoldsUpTo(n, kind, b, s, g)
  BY <1>1, FoldsUpToExists
<1>3. Folds(kind, b, s, g)
  BY <1>1, <1>2 DEF FoldsUpTo, Folds
<1> QED
  BY <1>3

LEMMA LastOfInterval ==
  ASSUME NEW k \in Nat, k > 0
  PROVE  LastOf(1..k) = k /\ (1..k) \ {k} = 1..(k - 1) /\ 1..k # {}
<1>1. k \in 1..k /\ 1..k \in SUBSET (1..k) /\ 1..k # {}
  OBVIOUS
<1>2. LastOf(1..k) \in 1..k /\ LastOf(1..k) >= k
  BY <1>1, LastIn
<1>3. (1..k) \ {k} = 1..(k - 1)
  OBVIOUS
<1> QED
  BY <1>1, <1>2, <1>3

Folded(kind, b, s) == (CHOOSE g : Folds(kind, b, s, g))[DOMAIN s]

\* h has the values before the first element and after each.
StepsOf(kind, b, s, d, h) ==
  h[0] = b /\ \A k \in 1..d : h[k] = Step(kind, h[k - 1], s[k])

LEMMA FoldSteps ==
  ASSUME NEW kind, NEW b, NEW s, NEW d \in Nat, DOMAIN s = 1..d
  PROVE  \E h : StepsOf(kind, b, s, d, h) /\ Folded(kind, b, s) = h[d]
<1> DEFINE g == CHOOSE g : Folds(kind, b, s, g)
           h == [k \in 0..d |-> g[1..k]]
<1>1. Folds(kind, b, s, g)
  BY FoldsExists
<1> HIDE DEF g
<1>2. \A t \in SUBSET (1..d) :
        g[t] = IF t = {} THEN b ELSE Step(kind, g[t \ {LastOf(t)}], s[LastOf(t)])
  BY <1>1 DEF Folds
<1>3. h[0] = b
  <2>1. 1..0 = {} /\ {} \in SUBSET (1..d)
    OBVIOUS
  <2>2. g[{}] = b
    BY <1>2, <2>1
  <2>3. h[0] = g[1..0]
    OBVIOUS
  <2> QED
    BY <2>1, <2>2, <2>3
<1>4. ASSUME NEW k \in 1..d PROVE h[k] = Step(kind, h[k - 1], s[k])
  <2>1. k \in Nat /\ k > 0 /\ k - 1 \in 0..d /\ k \in 0..d
    OBVIOUS
  <2>2. PICK t : t = 1..k
    OBVIOUS
  <2>3. t \in SUBSET (1..d) /\ t # {} /\ LastOf(t) = k /\ t \ {k} = 1..(k - 1)
    <3>1. t \in SUBSET (1..d)
      BY <2>2
    <3> QED
      BY <2>1, <2>2, <3>1, LastOfInterval
  <2>4. g[t] = Step(kind, g[1..(k - 1)], s[k])
    BY <1>2, <2>3
  <2>5. h[k] = g[t] /\ h[k - 1] = g[1..(k - 1)]
    BY <2>1, <2>2
  <2> QED
    BY <2>4, <2>5
<1>5. g[DOMAIN s] = h[d]
  OBVIOUS
<1> HIDE DEF h
<1>6. StepsOf(kind, b, s, d, h)
  BY <1>3, <1>4 DEF StepsOf
<1> QED
  BY <1>5, <1>6 DEF g, Folded

TickFolds(b, s, g) ==
  g = [t \in SUBSET DOMAIN s |->
         IF t = {} THEN b ELSE HandleTick(g[t \ {LastOf(t)}], s[LastOf(t)])]

LEMMA TickFoldsAre == \A b, s, g : TickFolds(b, s, g) <=> Folds("tick", b, s, g)
<1>1. \A x, e : HandleTick(x, e) = Step("tick", x, e)
  BY DEF Step
<1> QED
  BY <1>1 DEF TickFolds, Folds

Handled(x, s) == FoldLeft(HandleTick, x, s)

LEMMA TicksHandled ==
  ASSUME NEW b, NEW s, NEW d \in Nat, DOMAIN s = 1..d
  PROVE  \E h : StepsOf("tick", b, s, d, h) /\ Handled(b, s) = h[d]
<1>1. Handled(b, s) = (CHOOSE g : TickFolds(b, s, g))[DOMAIN s]
  BY DEF Handled, FoldLeft, MapThenFoldSet, Max, LastOf, TickFolds
<1>2. \A g : TickFolds(b, s, g) <=> Folds("tick", b, s, g)
  BY TickFoldsAre
<1>3. Handled(b, s) = Folded("tick", b, s)
  BY <1>1, <1>2 DEF Folded
<1>4. PICK h : StepsOf("tick", b, s, d, h) /\ Folded("tick", b, s) = h[d]
  BY FoldSteps
<1> QED
  BY <1>3, <1>4

CountFolds(b, s, g) ==
  g = [t \in SUBSET DOMAIN s |->
         IF t = {} THEN b ELSE Uncounted(g[t \ {LastOf(t)}], s[LastOf(t)])]

LEMMA CountFoldsAre == \A b, s, g : CountFolds(b, s, g) <=> Folds("count", b, s, g)
<1>1. \A x, e : Uncounted(x, e) = Step("count", x, e)
  BY DEF Step
<1> QED
  BY <1>1 DEF CountFolds, Folds

CountsLeft(x, s) == FoldLeft(Uncounted, x, s)

LEMMA ReceiversUncounted ==
  ASSUME NEW b, NEW s, NEW d \in Nat, DOMAIN s = 1..d
  PROVE  \E h : StepsOf("count", b, s, d, h) /\ CountsLeft(b, s) = h[d]
<1>1. CountsLeft(b, s) = (CHOOSE g : CountFolds(b, s, g))[DOMAIN s]
  BY DEF CountsLeft, FoldLeft, MapThenFoldSet, Max, LastOf, CountFolds
<1>2. \A g : CountFolds(b, s, g) <=> Folds("count", b, s, g)
  BY CountFoldsAre
<1>3. CountsLeft(b, s) = Folded("count", b, s)
  BY <1>1, <1>2 DEF Folded
<1>4. PICK h : StepsOf("count", b, s, d, h) /\ Folded("count", b, s) = h[d]
  BY FoldSteps
<1> QED
  BY <1>3, <1>4

-----------------------------------------------------------------------------
(* Minutes *)

LEMMA DivBetween ==
  ASSUME NEW a \in Nat, NEW m \in Nat \ {0}
  PROVE  a \div m \in Nat /\ (a \div m) * m <= a /\ a < (a \div m + 1) * m
OBVIOUS

LEMMA ProductsGrow ==
  ASSUME NEW m \in Nat \ {0}, NEW p \in Nat, NEW q \in Nat, p < q
  PROVE  (p + 1) * m <= q * m
<1>1. PICK r \in Nat : q = p + 1 + r
  <2>1. q - p - 1 \in Nat /\ q = p + 1 + (q - p - 1)
    OBVIOUS
  <2> QED
    BY <2>1
<1>2. q * m = (p + 1) * m + r * m /\ r * m \in Nat /\ (p + 1) * m \in Nat
  BY <1>1
<1> QED
  BY <1>2

LEMMA DivGrows ==
  ASSUME NEW a \in Nat, NEW b \in Nat, a <= b, NEW m \in Nat \ {0}
  PROVE  a \div m <= b \div m
<1>1. PICK p \in Nat : p = a \div m /\ p * m <= a
  BY DivBetween
<1>2. PICK q \in Nat : q = b \div m /\ b < (q + 1) * m
  BY DivBetween
<1>3. SUFFICES ASSUME q < p PROVE FALSE
  BY <1>1, <1>2
<1>4. (q + 1) * m <= p * m
  BY <1>3, ProductsGrow
<1>5. p * m \in Nat /\ (q + 1) * m \in Nat
  OBVIOUS
<1> QED
  BY <1>1, <1>2, <1>4, <1>5

LEMMA DivAtLeast ==
  ASSUME NEW a \in Nat, NEW k \in Nat, NEW m \in Nat \ {0}, k * m <= a
  PROVE  k <= a \div m
<1>1. PICK q \in Nat : q = a \div m /\ a < (q + 1) * m
  BY DivBetween
<1>2. SUFFICES ASSUME q < k PROVE FALSE
  BY <1>1
<1>3. (q + 1) * m <= k * m /\ k * m \in Nat /\ (q + 1) * m \in Nat
  BY <1>2, ProductsGrow
<1> QED
  BY <1>1, <1>3

LEMMA MinutesGrow ==
  ASSUME NEW t \in Ticks
  PROVE  /\ MinuteOf(t) \in Nat /\ MinuteOf(t) <= t.time /\ MinuteOf(t) < Modulus
         /\ \A u \in Ticks : t.time <= u.time => MinuteOf(t) <= MinuteOf(u)
         /\ Period * Minute <= t.time => Period <= MinuteOf(t)
<1>1. Minute \in Nat \ {0} /\ Period \in Nat /\ Modulus \in Nat \ {0}
  BY MarketAssumption
<1>2. t.time \in Nat /\ t.time < Modulus
  BY <1>1 DEF Ticks
<1>3. PICK q \in Nat : q = MinuteOf(t) /\ q * Minute <= t.time
  BY <1>1, <1>2, DivBetween DEF MinuteOf
<1>4. q <= q * Minute
  <2>1. PICK m \in Nat : Minute = m + 1
    <3>1. Minute - 1 \in Nat /\ Minute = (Minute - 1) + 1
      BY <1>1
    <3> QED
      BY <3>1
  <2>2. q * (m + 1) = q * m + q /\ q * m \in Nat
    OBVIOUS
  <2> QED
    BY <2>1, <2>2
<1>5. q * Minute \in Nat
  BY <1>1
<1>6. q <= t.time /\ q < Modulus
  BY <1>1, <1>2, <1>3, <1>4, <1>5
<1>7. ASSUME NEW u \in Ticks, t.time <= u.time PROVE MinuteOf(t) <= MinuteOf(u)
  <2>1. u.time \in Nat
    BY <1>1 DEF Ticks
  <2> QED
    BY <1>1, <1>2, <1>7, <2>1, DivGrows DEF MinuteOf
<1>8. Period * Minute <= t.time => Period <= MinuteOf(t)
  BY <1>1, <1>2, DivAtLeast DEF MinuteOf
<1> QED
  BY <1>3, <1>6, <1>7, <1>8

-----------------------------------------------------------------------------
(* What is traded with the ticks that are fed *)

Volume(fed, S) == SumFunctionOnSet(LotsOf(fed), S)

\* The ticks of S at price p, by their numbers.
At(fed, S, p) == {i \in S : fed[i].price = p}

LEMMA LotsAre ==
  ASSUME NEW fed \in Seq(Ticks)
  PROVE  /\ DOMAIN LotsOf(fed) = 1..Len(fed)
         /\ \A i \in 1..Len(fed) :
              /\ LotsOf(fed)[i] \in Int
              /\ LotsOf(fed)[i] = fed[i].volume - IF i = 1 THEN 0 ELSE fed[i - 1].volume
<1> SUFFICES ASSUME NEW i \in 1..Len(fed)
             PROVE  LotsOf(fed)[i] \in Int
  BY DEF LotsOf
<1>1. fed[i] \in Ticks /\ (i # 1 => fed[i - 1] \in Ticks)
  <2>1. i # 1 => i - 1 \in 1..Len(fed)
    OBVIOUS
  <2> QED
    BY <2>1, ElementOfSeq
<1>2. \A t \in Ticks : t.volume \in Int
  BY MarketAssumption DEF Ticks
<1> QED
  BY <1>1, <1>2 DEF LotsOf

\* One more tick is one more term.
LEMMA LotsMore ==
  ASSUME NEW fed \in Seq(Ticks), NEW t \in Ticks
  PROVE  LET n == Len(fed)
             l == LotsOf(Append(fed, t))
         IN /\ \A i \in 1..n : l[i] = LotsOf(fed)[i]
            /\ l[n + 1] = t.volume - IF n = 0 THEN 0 ELSE fed[n].volume
            /\ \A i \in 1..(n + 1) : l[i] \in Int
<1>1. PICK n \in Nat : n = Len(fed)
  OBVIOUS
<1>2. PICK fed1 \in Seq(Ticks) : fed1 = Append(fed, t)
  BY AppendProperties
<1>3. Len(fed1) = n + 1 /\ fed1[n + 1] = t /\ \A i \in 1..n : fed1[i] = fed[i]
  BY <1>1, <1>2, AppendProperties
<1>4. \A i \in 1..(n + 1) :
        /\ LotsOf(fed1)[i] \in Int
        /\ LotsOf(fed1)[i] = fed1[i].volume - IF i = 1 THEN 0 ELSE fed1[i - 1].volume
  BY <1>3, LotsAre
<1>5. \A i \in 1..n :
        LotsOf(fed)[i] = fed[i].volume - IF i = 1 THEN 0 ELSE fed[i - 1].volume
  BY <1>1, LotsAre
<1>6. \A i \in 1..n : LotsOf(fed1)[i] = LotsOf(fed)[i]
  <2> SUFFICES ASSUME NEW i \in 1..n PROVE LotsOf(fed1)[i] = LotsOf(fed)[i]
    OBVIOUS
  <2>1. i \in 1..(n + 1) /\ (i # 1 => i - 1 \in 1..n)
    OBVIOUS
  <2>2. fed1[i] = fed[i] /\ (i # 1 => fed1[i - 1] = fed[i - 1])
    BY <1>3, <2>1
  <2> QED
    BY <1>4, <1>5, <2>1, <2>2
<1>7. LotsOf(fed1)[n + 1] = t.volume - IF n = 0 THEN 0 ELSE fed[n].volume
  <2>1. n + 1 \in 1..(n + 1) /\ (n + 1) - 1 = n /\ (n + 1 = 1 <=> n = 0) /\ (n # 0 => n \in 1..n)
    OBVIOUS
  <2> QED
    BY <1>3, <1>4, <2>1
<1> QED
  BY <1>1, <1>2, <1>4, <1>6, <1>7

LEMMA VolumeMore ==
  ASSUME NEW fed \in Seq(Ticks), NEW t \in Ticks, NEW S, S \subseteq 1..Len(fed)
  PROVE  LET n == Len(fed)
             fed1 == Append(fed, t)
         IN /\ Volume(fed, S) \in Int
            /\ Volume(fed1, S) = Volume(fed, S)
            /\ Volume(fed1, S \cup {n + 1}) = Volume(fed, S) + LotsOf(fed1)[n + 1]
<1>1. PICK n \in Nat : n = Len(fed)
  OBVIOUS
<1>2. PICK l : l = LotsOf(Append(fed, t))
  OBVIOUS
<1>3. /\ \A i \in 1..n : l[i] = LotsOf(fed)[i]
      /\ \A i \in 1..(n + 1) : l[i] \in Int
  BY <1>1, <1>2, LotsMore
<1>4. IsFiniteSet(S)
  <2>1. IsFiniteSet(1..n)
    BY FS_Interval
  <2> QED
    BY <1>1, <2>1, FS_Subset
<1>5. \A i \in S : LotsOf(fed)[i] \in Int
  BY <1>1, LotsAre
<1>6. Volume(fed, S) \in Int
  BY <1>4, <1>5, SumInt DEF Volume
<1>7. SumFunctionOnSet(l, S) = Volume(fed, S)
  <2>1. \A i \in S : l[i] = LotsOf(fed)[i]
    BY <1>1, <1>3
  <2> QED
    BY <1>4, <1>5, <2>1, SumSame DEF Volume
<1>8. PICK T : T = S \cup {n + 1}
  OBVIOUS
<1>9. IsFiniteSet(T) /\ n + 1 \in T /\ T \ {n + 1} = S /\ \A i \in T : l[i] \in Int
  <2>1. IsFiniteSet(T)
    BY <1>4, <1>8, FS_AddElement
  <2>2. S \subseteq 1..n /\ n + 1 \notin 1..n /\ 1..n \subseteq 1..(n + 1) /\ n + 1 \in 1..(n + 1)
    BY <1>1
  <2>3. n + 1 \in T /\ T \ {n + 1} = S
    BY <1>8, <2>2
  <2>4. \A i \in T : l[i] \in Int
    BY <1>3, <1>8, <2>2
  <2> QED
    BY <2>1, <2>3, <2>4
<1>10. SumFunctionOnSet(l, T) = l[n + 1] + SumFunctionOnSet(l, S)
  BY <1>9, SumOut
<1>11. SumFunctionOnSet(l, T) = Volume(fed, S) + l[n + 1]
  BY <1>6, <1>7, <1>9, <1>10
<1> QED
  BY <1>1, <1>2, <1>6, <1>7, <1>8, <1>11 DEF Volume

-----------------------------------------------------------------------------
(* What a bar is made of *)

Profiles == UNION {[P -> Int] : P \in SUBSET Nat}

Bars == [open : Nat, close : Nat, high : Nat, low : Nat, time : Nat, volume : Int,
         poc : Nat, profile : Profiles]

Prices(fed, S) == {fed[i].price : i \in S}

\* IsMadeOf, with the ticks given by their numbers.
Made(b, fed, S) ==
  /\ S \subseteq 1..Len(fed)
  /\ \E i \in S : b.open = fed[i].price /\ \A j \in S : i <= j
  /\ \E i \in S : b.close = fed[i].price /\ \A j \in S : j <= i
  /\ b.high \in Prices(fed, S) /\ \A j \in S : fed[j].price <= b.high
  /\ b.low \in Prices(fed, S) /\ \A j \in S : b.low <= fed[j].price
  /\ b.volume = Volume(fed, S)
  /\ b.poc \in Prices(fed, S)
  /\ \A p \in Prices(fed, S) : Volume(fed, At(fed, S, p)) <= Volume(fed, At(fed, S, b.poc))

\* The volume at every price is known.
Profiled(b, fed, S) ==
  /\ DOMAIN b.profile = Prices(fed, S)
  /\ \A p \in Prices(fed, S) : b.profile[p] = Volume(fed, At(fed, S, p))

LEMMA MinIs ==
  ASSUME NEW S, S \subseteq Nat, NEW i \in S, \A j \in S : i <= j
  PROVE  Min(S) = i
<1>1. PICK m : m = Min(S)
  OBVIOUS
<1>2. m \in S /\ \A j \in S : m <= j
  BY <1>1 DEF Min
<1>3. m <= i /\ i <= m /\ m \in Nat /\ i \in Nat
  BY <1>2
<1> QED
  BY <1>1, <1>3

LEMMA MaxIs ==
  ASSUME NEW S, S \subseteq Nat, NEW i \in S, \A j \in S : j <= i
  PROVE  Max(S) = i
<1>1. PICK m : m = Max(S)
  OBVIOUS
<1>2. \A j \in S : i >= j
  OBVIOUS
<1>3. m \in S /\ \A j \in S : m >= j
  BY <1>1, <1>2 DEF Max
<1>4. i <= m /\ m <= i /\ m \in Nat /\ i \in Nat
  BY <1>3
<1> QED
  BY <1>1, <1>4

LEMMA MadeIs ==
  ASSUME NEW fed \in Seq(Ticks), NEW b, Made(b, fed, In(fed, b))
  PROVE  IsMadeOf(b, fed)
<1>1. PICK S : S = In(fed, b)
  OBVIOUS
<1>2. S \subseteq 1..Len(fed) /\ \A i \in S : fed[i].price \in Nat
  <2>1. S \subseteq 1..Len(fed)
    BY <1>1 DEF In
  <2>2. \A i \in 1..Len(fed) : fed[i] \in Ticks
    BY ElementOfSeq
  <2> QED
    BY <2>1, <2>2 DEF Ticks
<1>3. Made(b, fed, S)
  BY <1>1
<1> S \subseteq Nat
  BY <1>2
<1>4. b.open = fed[Min(S)].price
  <2>1. PICK i \in S : b.open = fed[i].price /\ \A j \in S : i <= j
    BY <1>3 DEF Made
  <2>2. Min(S) = i
    BY <2>1, MinIs
  <2> QED
    BY <2>1, <2>2
<1>5. b.close = fed[Max(S)].price
  <2>1. PICK i \in S : b.close = fed[i].price /\ \A j \in S : j <= i
    BY <1>3 DEF Made
  <2>2. Max(S) = i
    BY <2>1, MaxIs
  <2> QED
    BY <2>1, <2>2
<1>6. PICK prices : prices = Prices(fed, S)
  OBVIOUS
<1>7. prices \subseteq Nat /\ b.high \in prices /\ b.low \in prices
  BY <1>2, <1>3, <1>6 DEF Made, Prices
<1>8. b.high = Max(prices)
  <2>1. PICK p \in prices : p = b.high
    BY <1>7
  <2>2. \A q \in prices : q <= p
    BY <1>3, <1>6, <2>1 DEF Made, Prices
  <2> QED
    BY <1>7, <2>1, <2>2, MaxIs
<1>9. b.low = Min(prices)
  <2>1. PICK p \in prices : p = b.low
    BY <1>7
  <2>2. \A q \in prices : p <= q
    BY <1>3, <1>6, <2>1 DEF Made, Prices
  <2> QED
    BY <1>7, <2>1, <2>2, MinIs
<1>10. S # {} /\ b.volume = SumFunctionOnSet(LotsOf(fed), S)
  BY <1>3 DEF Made, Volume
<1>11. \A p \in prices :
         SumFunctionOnSet(LotsOf(fed), {i \in S : fed[i].price = p})
           <= SumFunctionOnSet(LotsOf(fed), {i \in S : fed[i].price = b.poc})
  BY <1>3, <1>6 DEF Made, Volume, At
<1>12. b.poc \in prices
  BY <1>3, <1>6 DEF Made
<1>13. prices = {fed[i].price : i \in S}
  BY <1>6 DEF Prices
<1> QED
  BY <1>1, <1>4, <1>5, <1>8, <1>9, <1>10, <1>11, <1>12, <1>13 DEF IsMadeOf

\* A tick more is in a bar's time, or the bar stays as it is.
LEMMA InMore ==
  ASSUME NEW fed \in Seq(Ticks), NEW t \in Ticks, NEW b, b.time \in Nat
  PROVE  LET n == Len(fed)
             here == b.time <= MinuteOf(t) /\ MinuteOf(t) < b.time + Period
         IN In(Append(fed, t), b) = IF here THEN In(fed, b) \cup {n + 1} ELSE In(fed, b)
<1>1. PICK n \in Nat : n = Len(fed)
  OBVIOUS
<1>2. PICK fed1 \in Seq(Ticks) : fed1 = Append(fed, t)
  BY AppendProperties
<1>3. Len(fed1) = n + 1 /\ fed1[n + 1] = t /\ \A i \in 1..n : fed1[i] = fed[i]
  BY <1>1, <1>2, AppendProperties
<1> DEFINE in(u) == MinuteOf(u) >= b.time /\ MinuteOf(u) < b.time + Period
<1>4. In(fed, b) = {i \in 1..n : in(fed[i])} /\ In(fed1, b) = {i \in 1..(n + 1) : in(fed1[i])}
  BY <1>1, <1>3 DEF In
<1>5. 1..(n + 1) = 1..n \cup {n + 1}
  OBVIOUS
<1>6. in(t) <=> b.time <= MinuteOf(t) /\ MinuteOf(t) < b.time + Period
  BY MinutesGrow
<1> HIDE DEF in
<1>7. In(fed1, b) = IF in(t) THEN In(fed, b) \cup {n + 1} ELSE In(fed, b)
  BY <1>3, <1>4, <1>5
<1> QED
  BY <1>1, <1>2, <1>6, <1>7

LEMMA MadeStays ==
  ASSUME NEW fed \in Seq(Ticks), NEW t \in Ticks, NEW b, NEW S, Made(b, fed, S)
  PROVE  Made(b, Append(fed, t), S)
<1>1. PICK n \in Nat : n = Len(fed)
  OBVIOUS
<1>2. PICK fed1 \in Seq(Ticks) : fed1 = Append(fed, t)
  BY AppendProperties
<1>3. Len(fed1) = n + 1 /\ \A i \in 1..n : fed1[i] = fed[i]
  BY <1>1, <1>2, AppendProperties
<1>4. S \subseteq 1..n /\ S \subseteq 1..(n + 1)
  BY <1>1 DEF Made
<1>5. \A i \in S : fed1[i] = fed[i]
  BY <1>3, <1>4
<1>6. Prices(fed1, S) = Prices(fed, S) /\ \A p : At(fed1, S, p) = At(fed, S, p)
  BY <1>5 DEF Prices, At
<1>7. ASSUME NEW T, T \subseteq S PROVE Volume(fed1, T) = Volume(fed, T)
  <2>1. T \subseteq 1..Len(fed)
    BY <1>1, <1>4, <1>7
  <2> QED
    BY <1>2, <2>1, VolumeMore
<1>8. \A p : Volume(fed1, At(fed1, S, p)) = Volume(fed, At(fed, S, p))
  <2> SUFFICES ASSUME NEW p PROVE Volume(fed1, At(fed1, S, p)) = Volume(fed, At(fed, S, p))
    OBVIOUS
  <2>1. At(fed, S, p) \subseteq S
    BY DEF At
  <2> QED
    BY <1>6, <1>7, <2>1
<1>9. Volume(fed1, S) = Volume(fed, S)
  BY <1>7
<1>10. Made(b, fed1, S)
  BY <1>3, <1>4, <1>5, <1>6, <1>8, <1>9 DEF Made
<1> QED
  BY <1>2, <1>10

\* At every price, one more tick adds its lots to what is traded at its own.
MoreAt(fed, S, fed1, S1, price, lots) ==
  /\ Prices(fed1, S1) = Prices(fed, S) \cup {price}
  /\ \A p : /\ Volume(fed, At(fed, S, p)) \in Int
            /\ Volume(fed1, At(fed1, S1, p))
                 = Volume(fed, At(fed, S, p)) + IF p = price THEN lots ELSE 0
            /\ p \notin Prices(fed, S) => Volume(fed, At(fed, S, p)) = 0

LEMMA AtMore ==
  ASSUME NEW fed \in Seq(Ticks), NEW t \in Ticks, NEW S, S \subseteq 1..Len(fed)
  PROVE  LET fed1 == Append(fed, t)
         IN MoreAt(fed, S, fed1, S \cup {Len(fed) + 1}, t.price, LotsOf(fed1)[Len(fed) + 1])
<1>1. PICK n \in Nat : n = Len(fed)
  OBVIOUS
<1>2. PICK fed1 \in Seq(Ticks) : fed1 = Append(fed, t)
  BY AppendProperties
<1>3. Len(fed1) = n + 1 /\ fed1[n + 1] = t /\ \A i \in 1..n : fed1[i] = fed[i]
  BY <1>1, <1>2, AppendProperties
<1>4. PICK S1 : S1 = S \cup {n + 1}
  OBVIOUS
<1>5. \A i \in S : fed1[i] = fed[i]
  BY <1>1, <1>3
<1>6. Prices(fed1, S1) = Prices(fed, S) \cup {t.price}
  BY <1>3, <1>4, <1>5 DEF Prices
<1>7. ASSUME NEW p
      PROVE  /\ Volume(fed, At(fed, S, p)) \in Int
             /\ Volume(fed1, At(fed1, S1, p))
                  = Volume(fed, At(fed, S, p)) + IF p = t.price THEN LotsOf(fed1)[n + 1] ELSE 0
             /\ p \notin Prices(fed, S) => Volume(fed, At(fed, S, p)) = 0
  <2>1. PICK T : T = At(fed, S, p)
    OBVIOUS
  <2>2. T \subseteq 1..Len(fed)
    BY <2>1 DEF At
  <2>3. At(fed1, S1, p) = IF p = t.price THEN T \cup {n + 1} ELSE T
    BY <1>3, <1>4, <1>5, <2>1 DEF At
  <2>4. /\ Volume(fed, T) \in Int
        /\ Volume(fed1, T) = Volume(fed, T)
        /\ Volume(fed1, T \cup {n + 1}) = Volume(fed, T) + LotsOf(fed1)[n + 1]
    BY <1>1, <1>2, <2>2, VolumeMore
  <2>5. p \notin Prices(fed, S) => Volume(fed, T) = 0
    <3> SUFFICES ASSUME p \notin Prices(fed, S) PROVE Volume(fed, T) = 0
      OBVIOUS
    <3>1. T = {}
      BY <2>1 DEF At, Prices
    <3> QED
      BY <3>1, SumEmpty DEF Volume
  <2> QED
    BY <2>1, <2>3, <2>4, <2>5
<1> QED
  BY <1>1, <1>2, <1>4, <1>6, <1>7 DEF MoreAt

\* A bar that begins with the last tick.
LEMMA OpenMade ==
  ASSUME NEW fed \in Seq(Ticks), NEW t \in Ticks, NEW lots \in Nat, NEW minute \in Nat,
         lots = LotsOf(Append(fed, t))[Len(fed) + 1]
  PROVE  LET b == OpenBar(t, minute, lots)
             fed1 == Append(fed, t)
             S == {Len(fed) + 1}
         IN b \in Bars /\ b.time = minute /\ Made(b, fed1, S) /\ Profiled(b, fed1, S)
<1>1. PICK n \in Nat : n = Len(fed)
  OBVIOUS
<1>2. PICK fed1 \in Seq(Ticks) : fed1 = Append(fed, t)
  BY AppendProperties
<1>3. Len(fed1) = n + 1 /\ fed1[n + 1] = t
  BY <1>1, <1>2, AppendProperties
<1>4. PICK b : b = OpenBar(t, minute, lots)
  OBVIOUS
<1>5. t.price \in Nat
  BY DEF Ticks
<1>6. /\ b.open = t.price /\ b.close = t.price /\ b.high = t.price /\ b.low = t.price
      /\ b.time = minute /\ b.volume = lots /\ b.poc = t.price
      /\ DOMAIN b.profile = {t.price} /\ b.profile[t.price] = lots
  BY <1>4 DEF OpenBar
<1>7. b \in Bars
  <2>1. PICK f : f = [p \in {t.price} |-> lots]
    OBVIOUS
  <2>2. f \in [{t.price} -> Int] /\ {t.price} \in SUBSET Nat
    BY <1>5, <2>1
  <2>3. f \in Profiles
    BY <2>2 DEF Profiles
  <2> QED
    BY <1>4, <1>5, <2>1, <2>3 DEF OpenBar, Bars
<1>8. PICK S : S = {n + 1}
  OBVIOUS
<1>9. {} \subseteq 1..Len(fed) /\ S = {} \cup {n + 1}
  BY <1>8
<1>10. Prices(fed1, S) = {t.price}
  BY <1>3, <1>8 DEF Prices
<1>11. Volume(fed, {}) = 0
  BY SumEmpty DEF Volume
<1>12. Volume(fed1, S) = lots
  <2>1. Volume(fed1, {} \cup {n + 1}) = Volume(fed, {}) + LotsOf(fed1)[n + 1]
    BY <1>1, <1>2, <1>9, VolumeMore
  <2> QED
    BY <1>1, <1>2, <1>9, <1>11, <2>1
<1>13. At(fed1, S, t.price) = S
  BY <1>3, <1>8 DEF At
<1>14. \E i \in S : i = n + 1 /\ fed1[i] = t /\ \A j \in S : i <= j /\ j <= i
  BY <1>3, <1>8
<1>15. S \subseteq 1..Len(fed1)
  BY <1>3, <1>8
<1>16. \A j \in S : fed1[j].price <= b.high /\ b.low <= fed1[j].price
  BY <1>3, <1>5, <1>6, <1>8
<1>17. \A p \in Prices(fed1, S) :
          Volume(fed1, At(fed1, S, p)) <= Volume(fed1, At(fed1, S, b.poc))
  BY <1>6, <1>10, <1>12, <1>13
<1>18. Made(b, fed1, S)
  BY <1>6, <1>10, <1>12, <1>14, <1>15, <1>16, <1>17 DEF Made
<1>19. Profiled(b, fed1, S)
  BY <1>6, <1>10, <1>12, <1>13 DEF Profiled
<1> QED
  BY <1>1, <1>2, <1>4, <1>6, <1>7, <1>8, <1>18, <1>19

AddedTo(a, b, t, lots) ==
  /\ a \in Bars
  /\ a.open = b.open /\ a.time = b.time /\ a.close = t.price
  /\ a.high = IF t.price > b.high THEN t.price ELSE b.high
  /\ a.low = IF t.price < b.low THEN t.price ELSE b.low
  /\ a.volume = b.volume + lots
  /\ DOMAIN a.profile = DOMAIN b.profile \cup {t.price}
  /\ \A p \in DOMAIN a.profile :
       a.profile[p] = Lots(b.profile, p) + IF p = t.price THEN lots ELSE 0
  /\ a.poc = IF a.profile[t.price] > Lots(a.profile, b.poc) THEN t.price ELSE b.poc

LEMMA AddedBar ==
  ASSUME NEW b \in Bars, NEW t \in Ticks, NEW lots \in Nat
  PROVE  AddedTo(AddToBar(b, t, lots), b, t, lots)
<1>1. t.price \in Nat
  BY DEF Ticks
<1>2. PICK f : f = [p \in DOMAIN b.profile \cup {t.price} |->
                      Lots(b.profile, p) + IF p = t.price THEN lots ELSE 0]
  OBVIOUS
<1>3. PICK P \in SUBSET Nat : b.profile \in [P -> Int]
  BY DEF Bars, Profiles
<1>4. \A p : Lots(b.profile, p) \in Int
  <2> SUFFICES ASSUME NEW p PROVE Lots(b.profile, p) \in Int
    OBVIOUS
  <2>1. PICK q \in [P -> Int] : q = b.profile
    BY <1>3
  <2>2. CASE p \in P
    <3>1. q[p] \in Int /\ p \in DOMAIN q
      BY <2>2
    <3> QED
      BY <2>1, <3>1 DEF Lots
  <2>3. CASE p \notin P
    <3>1. p \notin DOMAIN q /\ 0 \in Int
      BY <2>3
    <3> QED
      BY <2>1, <3>1 DEF Lots
  <2> QED
    BY <2>2, <2>3
<1>5. f \in Profiles
  <2>1. DOMAIN b.profile \cup {t.price} \in SUBSET Nat
    BY <1>1, <1>3
  <2>2. f \in [DOMAIN b.profile \cup {t.price} -> Int]
    BY <1>2, <1>4
  <2> QED
    BY <2>1, <2>2 DEF Profiles
<1>6. PICK poc : poc = IF f[t.price] > Lots(f, b.poc) THEN t.price ELSE b.poc
  OBVIOUS
<1>7. PICK high : high = IF t.price > b.high THEN t.price ELSE b.high
  OBVIOUS
<1>8. PICK low : low = IF t.price < b.low THEN t.price ELSE b.low
  OBVIOUS
<1>9. PICK volume : volume = b.volume + lots
  OBVIOUS
<1>10. PICK close : close = t.price
  OBVIOUS
<1>11. PICK a : a = [b EXCEPT !.high = high, !.low = low, !.close = close, !.volume = volume,
                              !.profile = f, !.poc = poc]
  OBVIOUS
<1>12. AddToBar(b, t, lots) = a
  BY <1>2, <1>6, <1>7, <1>8, <1>9, <1>10, <1>11 DEF AddToBar
<1>13. high \in Nat /\ low \in Nat /\ close \in Nat /\ poc \in Nat /\ volume \in Int
  BY <1>1, <1>6, <1>7, <1>8, <1>9, <1>10 DEF Bars
<1>14. /\ a \in Bars /\ a.open = b.open /\ a.time = b.time /\ a.close = close /\ a.high = high
       /\ a.low = low /\ a.volume = volume /\ a.profile = f /\ a.poc = poc
  <2>1. a = [open |-> b.open, close |-> close, high |-> high, low |-> low, time |-> b.time,
             volume |-> volume, poc |-> poc, profile |-> f]
    BY <1>11 DEF Bars
  <2>2. b.open \in Nat /\ b.time \in Nat
    BY DEF Bars
  <2>3. a \in Bars
    BY <1>5, <1>13, <2>1, <2>2 DEF Bars
  <2> QED
    BY <2>1, <2>3
<1>15. /\ DOMAIN f = DOMAIN b.profile \cup {t.price}
       /\ \A p \in DOMAIN f : f[p] = Lots(b.profile, p) + IF p = t.price THEN lots ELSE 0
  BY <1>2
<1> QED
  BY <1>6, <1>7, <1>8, <1>9, <1>10, <1>12, <1>14, <1>15 DEF AddedTo

\* A bar goes on with the next tick.
LEMMA AddMade ==
  ASSUME NEW fed \in Seq(Ticks), NEW t \in Ticks, NEW b \in Bars, NEW S,
         Made(b, fed, S), Profiled(b, fed, S),
         NEW lots \in Nat, lots = LotsOf(Append(fed, t))[Len(fed) + 1]
  PROVE  LET a == AddToBar(b, t, lots)
             fed1 == Append(fed, t)
             S1 == S \cup {Len(fed) + 1}
         IN a \in Bars /\ a.time = b.time /\ Made(a, fed1, S1) /\ Profiled(a, fed1, S1)
<1>1. PICK n \in Nat : n = Len(fed)
  OBVIOUS
<1>2. PICK fed1 \in Seq(Ticks) : fed1 = Append(fed, t)
  BY AppendProperties
<1>3. Len(fed1) = n + 1 /\ fed1[n + 1] = t /\ \A i \in 1..n : fed1[i] = fed[i]
  BY <1>1, <1>2, AppendProperties
<1>4. PICK S1 : S1 = S \cup {n + 1}
  OBVIOUS
<1>5. PICK a : a = AddToBar(b, t, lots)
  OBVIOUS
<1>6. /\ a \in Bars /\ a.open = b.open /\ a.time = b.time /\ a.close = t.price
      /\ a.high = IF t.price > b.high THEN t.price ELSE b.high
      /\ a.low = IF t.price < b.low THEN t.price ELSE b.low
      /\ a.volume = b.volume + lots
      /\ DOMAIN a.profile = DOMAIN b.profile \cup {t.price}
      /\ \A p \in DOMAIN a.profile :
           a.profile[p] = Lots(b.profile, p) + IF p = t.price THEN lots ELSE 0
      /\ a.poc = IF a.profile[t.price] > Lots(a.profile, b.poc) THEN t.price ELSE b.poc
  <2>1. AddedTo(a, b, t, lots)
    BY <1>5, AddedBar
  <2> QED
    BY <2>1 DEF AddedTo
<1>7. S \subseteq 1..n
  BY <1>1 DEF Made
<1>8. \A i \in S : fed1[i] = fed[i] /\ i \in Nat /\ i < n + 1
  BY <1>3, <1>7
<1>9. S1 \subseteq 1..Len(fed1) /\ n + 1 \in S1 /\ \A i \in S1 : i \in S \/ i = n + 1
  BY <1>3, <1>4, <1>7
<1> DEFINE v(p) == Volume(fed, At(fed, S, p))
           v1(p) == Volume(fed1, At(fed1, S1, p))
<1>10. /\ Prices(fed1, S1) = Prices(fed, S) \cup {t.price}
       /\ \A p : /\ v(p) \in Int
                 /\ v1(p) = v(p) + IF p = t.price THEN lots ELSE 0
                 /\ p \notin Prices(fed, S) => v(p) = 0
  <2>1. S \subseteq 1..Len(fed)
    BY <1>1, <1>7
  <2>2. MoreAt(fed, S, fed1, S1, t.price, lots)
    BY <1>1, <1>2, <1>4, <2>1, AtMore
  <2> QED
    BY <2>2 DEF MoreAt
<1>11. DOMAIN b.profile = Prices(fed, S) /\ \A p \in Prices(fed, S) : b.profile[p] = v(p)
  BY DEF Profiled
<1>12. \A p \in Prices(fed, S) : v(p) <= v(b.poc)
  BY DEF Made
<1>13. b.poc \in Prices(fed, S)
  BY DEF Made
<1> HIDE DEF v, v1
<1>14. \A p : Lots(b.profile, p) = v(p)
  BY <1>10, <1>11 DEF Lots
<1>15. \A p \in Prices(fed1, S1) : a.profile[p] = v1(p)
  BY <1>6, <1>10, <1>11, <1>14
<1>16. DOMAIN a.profile = Prices(fed1, S1)
  BY <1>6, <1>10, <1>11
<1>17. a.poc = IF v1(t.price) > v1(b.poc) THEN t.price ELSE b.poc
  <2>1. t.price \in Prices(fed1, S1) /\ b.poc \in Prices(fed1, S1)
    BY <1>10, <1>13
  <2> QED
    BY <1>6, <1>15, <1>16, <2>1 DEF Lots
<1>18. \A p \in Prices(fed1, S1) : v1(p) <= v1(a.poc)
  <2> SUFFICES ASSUME NEW p \in Prices(fed1, S1) PROVE v1(p) <= v1(a.poc)
    OBVIOUS
  <2>1. v1(b.poc) \in Int /\ v(b.poc) \in Int /\ v1(b.poc) >= v(b.poc) /\ v1(t.price) \in Int
    BY <1>10
  <2>2. p # t.price => v1(p) = v(p) /\ v(p) \in Int /\ v(p) <= v(b.poc)
    BY <1>10, <1>12
  <2>3. CASE v1(t.price) > v1(b.poc)
    <3>1. a.poc = t.price
      BY <1>17, <2>3
    <3> QED
      BY <2>1, <2>2, <2>3, <3>1
  <2>4. CASE ~(v1(t.price) > v1(b.poc))
    <3>1. a.poc = b.poc
      BY <1>17, <2>4
    <3> QED
      BY <2>1, <2>2, <2>4, <3>1
  <2> QED
    BY <2>3, <2>4
<1>19. a.poc \in Prices(fed1, S1)
  BY <1>10, <1>13, <1>17
<1>20. \E i \in S1 : a.open = fed1[i].price /\ \A j \in S1 : i <= j
  <2>1. PICK i \in S : b.open = fed[i].price /\ \A j \in S : i <= j
    BY DEF Made
  <2>2. i \in S1 /\ fed1[i] = fed[i]
    BY <1>4, <1>8
  <2>3. \A j \in S1 : i <= j
    BY <1>8, <1>9, <2>1
  <2> QED
    BY <1>6, <2>1, <2>2, <2>3
<1>21. \E i \in S1 : a.close = fed1[i].price /\ \A j \in S1 : j <= i
  <2>1. \A j \in S1 : j <= n + 1
    BY <1>8, <1>9
  <2> QED
    BY <1>3, <1>6, <1>9, <2>1
<1>22. t.price \in Nat /\ b.high \in Nat /\ b.low \in Nat /\ \A i \in S : fed[i].price \in Nat
  <2>1. \A i \in S : fed[i] \in Ticks
    BY <1>1, <1>7, ElementOfSeq
  <2> QED
    BY <2>1 DEF Bars, Ticks
<1>23. a.high \in Prices(fed1, S1) /\ \A j \in S1 : fed1[j].price <= a.high
  <2>1. b.high \in Prices(fed, S) /\ \A j \in S : fed[j].price <= b.high
    BY DEF Made
  <2>2. a.high \in Prices(fed1, S1)
    BY <1>6, <1>10, <2>1
  <2>3. a.high \in Nat /\ t.price <= a.high /\ b.high <= a.high
    BY <1>6, <1>22
  <2>4. ASSUME NEW j \in S1 PROVE fed1[j].price <= a.high
    BY <1>3, <1>8, <1>9, <1>22, <2>1, <2>3
  <2> QED
    BY <2>2, <2>4
<1>24. a.low \in Prices(fed1, S1) /\ \A j \in S1 : a.low <= fed1[j].price
  <2>1. b.low \in Prices(fed, S) /\ \A j \in S : b.low <= fed[j].price
    BY DEF Made
  <2>2. a.low \in Prices(fed1, S1)
    BY <1>6, <1>10, <2>1
  <2>3. a.low \in Nat /\ a.low <= t.price /\ a.low <= b.low
    BY <1>6, <1>22
  <2>4. ASSUME NEW j \in S1 PROVE a.low <= fed1[j].price
    BY <1>3, <1>8, <1>9, <1>22, <2>1, <2>3
  <2> QED
    BY <2>2, <2>4
<1>25. a.volume = Volume(fed1, S1)
  <2>1. S \subseteq 1..Len(fed)
    BY <1>1, <1>7
  <2>2. Volume(fed1, S1) = Volume(fed, S) + lots
    BY <1>1, <1>2, <1>4, <2>1, VolumeMore
  <2> QED
    BY <1>6, <2>2 DEF Made
<1>26. Made(a, fed1, S1)
  BY <1>9, <1>18, <1>19, <1>20, <1>21, <1>23, <1>24, <1>25 DEF Made, v1
<1>27. Profiled(a, fed1, S1)
  BY <1>15, <1>16 DEF Profiled, v1
<1> QED
  BY <1>1, <1>2, <1>4, <1>5, <1>6, <1>26, <1>27

-----------------------------------------------------------------------------
(* insert_tick *)

\* What has been told of the bars and what the generator keeps is made of fed.
BarsFit(fed, bars, g) ==
  /\ bars \in Seq(Bars)
  /\ fed = <<>> => bars = <<>> /\ g = NoGenerator
  /\ fed # <<>> =>
       /\ g.bar \in Bars /\ g.minute = g.bar.time /\ g.minute > 0
       /\ g.volume = fed[Len(fed)].volume
       /\ g.minute <= MinuteOf(fed[Len(fed)]) /\ MinuteOf(fed[Len(fed)]) < g.minute + Period
       /\ Made(g.bar, fed, In(fed, g.bar)) /\ Profiled(g.bar, fed, In(fed, g.bar))
       /\ \A i \in 1..Len(bars) : /\ bars[i].time + Period <= g.bar.time
                                  /\ Made(bars[i], fed, In(fed, bars[i]))
                                  /\ \A j \in 1..Len(bars) :
                                       i < j => bars[i].time + Period <= bars[j].time
       /\ \A i \in 1..Len(fed) :
            i \in In(fed, g.bar) \/ \E j \in 1..Len(bars) : i \in In(fed, bars[j])

Ordered(fed) == \A i, j \in 1..Len(fed) : i < j => fed[i].time < fed[j].time

\* t comes after every tick of fed, and in trading hours.
Follows(fed, t) ==
  /\ Period * Minute <= t.time
  /\ \A i \in 1..Len(fed) : fed[i].time < t.time /\ fed[i].volume <= t.volume

\* A difference of unsigned integers that does not wrap.
LEMMA SmallDifference ==
  ASSUME NEW a \in Nat, NEW b \in Nat, b <= a, a < Modulus
  PROVE  (a - b) % Modulus = a - b /\ a - b \in Nat
<1>1. Modulus \in Nat \ {0}
  BY MarketAssumption
<1>2. PICK d \in Nat : d = a - b
  BY a - b \in Nat
<1>3. d < Modulus
  BY <1>1, <1>2
<1>4. d % Modulus = d
  BY <1>1, <1>3
<1> QED
  BY <1>2, <1>4

LEMMA FirstBar ==
  ASSUME NEW t \in Ticks, Follows(<<>>, t)
  PROVE  BarsFit(Append(<<>>, t), <<>> \o EndedBar(NoGenerator, t), InsertTick(NoGenerator, t))
<1>1. PICK m \in Nat : m = MinuteOf(t) /\ m < Modulus /\ Period <= m
  BY MinutesGrow DEF Follows
<1>2. Period \in Nat /\ Period > 0 /\ Modulus \in Nat \ {0}
  BY MarketAssumption
<1>3. t.volume \in Nat /\ t.volume < Modulus
  BY <1>2 DEF Ticks
<1>4. EndsBar(NoGenerator, t)
  <2>1. (m - 0) % Modulus = m - 0
    BY <1>1, SmallDifference
  <2> QED
    BY <1>1, <1>2, <2>1 DEF EndsBar, NoGenerator
<1>5. EndedBar(NoGenerator, t) = <<>>
  BY DEF EndedBar, NoGenerator
<1>6. PICK b : b = OpenBar(t, m, t.volume)
  OBVIOUS
<1>7. PICK g : g = InsertTick(NoGenerator, t)
  OBVIOUS
<1>8. g.minute = m /\ g.volume = t.volume /\ g.bar = b
  <2>1. PICK v \in Nat : v = t.volume /\ v < Modulus
    BY <1>3
  <2>2. (v - 0) % Modulus = v
    <3>1. 0 \in Nat /\ 0 <= v /\ v - 0 = v
      OBVIOUS
    <3> QED
      BY <2>1, <3>1, SmallDifference
  <2>3. (t.volume - 0) % Modulus = t.volume
    BY <2>1, <2>2
  <2> QED
    BY <1>1, <1>4, <1>6, <1>7, <2>3 DEF InsertTick, NoGenerator
<1>9. <<>> \in Seq(Ticks) /\ Len(<<>>) = 0 /\ <<>> \in Seq(Bars)
  BY EmptySeq
<1>10. PICK fed1 \in Seq(Ticks) : fed1 = Append(<<>>, t) /\ Len(fed1) = 1 /\ fed1[1] = t
  <2>1. PICK fed \in Seq(Ticks) : fed = <<>> /\ Len(fed) = 0
    BY <1>9
  <2>2. /\ Append(fed, t) \in Seq(Ticks) /\ Len(Append(fed, t)) = Len(fed) + 1
        /\ Append(fed, t)[Len(fed) + 1] = t
    BY AppendProperties
  <2>3. Len(fed) + 1 = 1
    BY <2>1
  <2> QED
    BY <2>1, <2>2, <2>3
<1>11. LotsOf(fed1)[1] = t.volume
  <2>1. 1 \in 1..Len(fed1)
    BY <1>10
  <2>2. LotsOf(fed1)[1] = fed1[1].volume - 0
    BY <2>1, LotsAre
  <2> QED
    BY <1>3, <1>10, <2>2
<1>12. b \in Bars /\ b.time = m /\ Made(b, fed1, {1}) /\ Profiled(b, fed1, {1})
  <2>1. 0 + 1 = 1
    OBVIOUS
  <2>2. t.volume = LotsOf(Append(<<>>, t))[Len(<<>>) + 1]
    BY <1>9, <1>10, <1>11, <2>1
  <2> QED
    BY <1>1, <1>3, <1>6, <1>9, <1>10, <2>1, <2>2, OpenMade
<1>13. In(fed1, b) = {1}
  BY <1>1, <1>2, <1>10, <1>12 DEF In
<1>14. PICK bars : bars = <<>> \o EndedBar(NoGenerator, t)
  OBVIOUS
<1>15. bars = <<>> /\ bars \in Seq(Bars) /\ Len(bars) = 0
  BY <1>5, <1>9, <1>14
<1>16. fed1 # <<>>
  BY <1>9, <1>10
<1>17. m > 0 /\ m <= MinuteOf(fed1[1]) /\ MinuteOf(fed1[1]) < m + Period
  BY <1>1, <1>2, <1>10
<1>18. 1..Len(bars) = {} /\ 1..Len(fed1) = {1}
  BY <1>10, <1>15
<1>19. g.bar \in Bars /\ g.minute = g.bar.time /\ g.minute > 0 /\ g.volume = fed1[Len(fed1)].volume
  BY <1>8, <1>10, <1>12, <1>17
<1>20. g.minute <= MinuteOf(fed1[Len(fed1)]) /\ MinuteOf(fed1[Len(fed1)]) < g.minute + Period
  BY <1>8, <1>10, <1>17
<1>21. Made(g.bar, fed1, In(fed1, g.bar)) /\ Profiled(g.bar, fed1, In(fed1, g.bar))
  BY <1>8, <1>12, <1>13
<1>22. \A i \in 1..Len(fed1) : i \in In(fed1, g.bar)
  BY <1>8, <1>13, <1>18
<1>23. BarsFit(fed1, bars, g)
  BY <1>15, <1>16, <1>18, <1>19, <1>20, <1>21, <1>22 DEF BarsFit
<1> QED
  BY <1>7, <1>10, <1>14, <1>23

\* Where the next tick is, to the ticks before it.
Later(fed, g, t, lots) ==
  /\ MinuteOf(t) \in Nat /\ g.minute \in Nat /\ g.minute <= MinuteOf(t)
  /\ EndsBar(g, t) <=> g.minute + Period <= MinuteOf(t)
  /\ lots \in Nat /\ lots = (t.volume - g.volume) % Modulus
  /\ lots = LotsOf(Append(fed, t))[Len(fed) + 1]
  /\ \A i \in 1..Len(fed) : MinuteOf(fed[i]) \in Nat /\ MinuteOf(fed[i]) < g.minute + Period

LEMMA NextIsLater ==
  ASSUME NEW fed \in Seq(Ticks), NEW bars, NEW g, BarsFit(fed, bars, g), fed # <<>>,
         Ordered(fed), NEW t \in Ticks, Follows(fed, t)
  PROVE  \E lots : Later(fed, g, t, lots)
<1>1. PICK k \in Nat : k = Len(fed) /\ k > 0
  BY EmptySeq
<1>2. PICK u \in Ticks : u = fed[k]
  <2>1. k \in 1..Len(fed)
    BY <1>1
  <2> QED
    BY <2>1, ElementOfSeq
<1>3. u.time <= t.time /\ u.volume <= t.volume
  <2>1. u.time < t.time /\ u.volume <= t.volume
    BY <1>1, <1>2 DEF Follows
  <2>2. u.time \in Int /\ t.time \in Int
    BY MarketAssumption DEF Ticks
  <2> QED
    BY <2>1, <2>2
<1>4. PICK m \in Nat : m = MinuteOf(t) /\ m < Modulus
  BY MinutesGrow
<1>5. PICK l \in Nat : l = MinuteOf(u) /\ l <= m
  BY <1>3, <1>4, MinutesGrow
<1>6. PICK b \in Nat : b = g.minute /\ b <= l /\ l < b + Period
  <2>1. g.bar \in Bars /\ g.minute = g.bar.time
    BY DEF BarsFit
  <2>2. g.minute \in Nat
    BY <2>1 DEF Bars
  <2> QED
    BY <1>1, <1>2, <1>5, <2>2 DEF BarsFit
<1>7. Period \in Nat /\ Modulus \in Nat \ {0}
  BY MarketAssumption
<1>8. b <= m
  BY <1>5, <1>6
<1>9. EndsBar(g, t) <=> b + Period <= m
  <2>1. (m - b) % Modulus = m - b
    BY <1>4, <1>8, SmallDifference
  <2>2. EndsBar(g, t) <=> m - b >= Period
    BY <1>4, <1>6, <2>1 DEF EndsBar
  <2> QED
    BY <1>7, <2>2
<1>10. PICK v \in Nat : v = t.volume /\ v < Modulus
  BY <1>7 DEF Ticks
<1>11. PICK w \in Nat : w = u.volume /\ w <= v
  BY <1>3, <1>7, <1>10 DEF Ticks
<1>12. g.volume = w
  BY <1>1, <1>2, <1>11 DEF BarsFit
<1>13. PICK lots \in Nat : lots = v - w /\ lots = (v - w) % Modulus
  BY <1>10, <1>11, SmallDifference
<1>14. lots = LotsOf(Append(fed, t))[k + 1]
  <2>1. LotsOf(Append(fed, t))[k + 1] = t.volume - IF k = 0 THEN 0 ELSE fed[k].volume
    BY <1>1, LotsMore
  <2> QED
    BY <1>1, <1>2, <1>10, <1>11, <1>13, <2>1
<1>15. ASSUME NEW i \in 1..k PROVE MinuteOf(fed[i]) \in Nat /\ MinuteOf(fed[i]) < b + Period
  <2>1. PICK x \in Ticks : x = fed[i]
    BY <1>1, ElementOfSeq
  <2>2. x.time <= u.time
    <3>1. x.time \in Int /\ u.time \in Int
      BY <1>7 DEF Ticks
    <3>2. i = k \/ x.time < u.time
      BY <1>1, <1>2, <2>1 DEF Ordered
    <3> QED
      BY <1>2, <2>1, <3>1, <3>2
  <2>3. MinuteOf(x) \in Nat /\ MinuteOf(x) <= l
    BY <1>5, <2>2, MinutesGrow
  <2> QED
    BY <1>6, <1>7, <2>1, <2>3
<1> QED
  BY <1>1, <1>4, <1>6, <1>8, <1>9, <1>10, <1>12, <1>13, <1>14, <1>15 DEF Later

\* A bar whose time is over stays what it is.
LEMMA PastBar ==
  ASSUME NEW fed \in Seq(Ticks), NEW t \in Ticks, NEW b \in Bars, b.time + Period <= MinuteOf(t),
         Made(b, fed, In(fed, b))
  PROVE  /\ In(Append(fed, t), b) = In(fed, b)
         /\ Made(b, Append(fed, t), In(Append(fed, t), b))
<1>1. b.time \in Nat /\ Period \in Nat
  BY MarketAssumption DEF Bars
<1>2. MinuteOf(t) \in Nat
  BY MinutesGrow
<1>3. In(Append(fed, t), b) = In(fed, b)
  BY <1>1, <1>2, InMore
<1> QED
  BY <1>3, MadeStays

LEMMA BarEnds ==
  ASSUME NEW fed \in Seq(Ticks), NEW bars, NEW g, BarsFit(fed, bars, g), fed # <<>>,
         Ordered(fed), NEW t \in Ticks, Follows(fed, t), EndsBar(g, t)
  PROVE  BarsFit(Append(fed, t), bars \o EndedBar(g, t), InsertTick(g, t))
<1>1. PICK k \in Nat : k = Len(fed) /\ k > 0
  BY EmptySeq
<1>2. PICK fed1 \in Seq(Ticks) : fed1 = Append(fed, t)
  BY AppendProperties
<1>3. Len(fed1) = k + 1 /\ fed1[k + 1] = t /\ fed1 # <<>> /\ 1..(k + 1) = 1..k \cup {k + 1}
  <2>1. Len(fed1) = k + 1 /\ fed1[k + 1] = t /\ fed1 # <<>>
    BY <1>1, <1>2, AppendProperties
  <2>2. 1..(k + 1) = 1..k \cup {k + 1}
    OBVIOUS
  <2> QED
    BY <2>1, <2>2
<1>4. PICK lots \in Nat : Later(fed, g, t, lots)
  BY NextIsLater DEF Later
<1>5. PICK m \in Nat : m = MinuteOf(t) /\ g.minute \in Nat /\ g.minute + Period <= m
  BY <1>4 DEF Later
<1>6. PICK b \in Bars : b = g.bar /\ b.time = g.minute /\ g.minute > 0
  BY DEF BarsFit
<1>7. Period \in Nat /\ Period > 0
  BY MarketAssumption
<1>8. PICK bars0 \in Seq(Bars) : bars0 = bars
  BY DEF BarsFit
<1>9. PICK j \in Nat : j = Len(bars0)
  OBVIOUS
<1>10. PICK bars1 \in Seq(Bars) : bars1 = Append(bars0, b)
  BY AppendProperties
<1>11. /\ Len(bars1) = j + 1 /\ bars1[j + 1] = b /\ \A i \in 1..j : bars1[i] = bars0[i]
       /\ 1..(j + 1) = 1..j \cup {j + 1}
  <2>1. Len(bars1) = j + 1 /\ bars1[j + 1] = b /\ \A i \in 1..j : bars1[i] = bars0[i]
    BY <1>9, <1>10, AppendProperties
  <2>2. 1..(j + 1) = 1..j \cup {j + 1}
    OBVIOUS
  <2> QED
    BY <2>1, <2>2
<1>12. bars \o EndedBar(g, t) = bars1
  <2>1. EndedBar(g, t) = <<b>>
    BY <1>6 DEF EndedBar
  <2>2. bars0 \o <<b>> = bars1
    BY <1>10, AppendIsConcat
  <2> QED
    BY <1>8, <2>1, <2>2
<1>13. PICK n : n = OpenBar(t, m, lots)
  OBVIOUS
<1>14. PICK g1 : g1 = InsertTick(g, t)
  OBVIOUS
<1>15. g1.minute = m /\ g1.volume = t.volume /\ g1.bar = n
  BY <1>4, <1>5, <1>13, <1>14 DEF InsertTick, Later
<1>16. n \in Bars /\ n.time = m /\ Made(n, fed1, {k + 1}) /\ Profiled(n, fed1, {k + 1})
  BY <1>1, <1>2, <1>4, <1>13, OpenMade DEF Later
<1>17. In(fed1, n) = {k + 1}
  <2>1. In(fed, n) = {}
    <3>1. \A i \in 1..k : MinuteOf(fed[i]) \in Nat /\ MinuteOf(fed[i]) < m
      BY <1>1, <1>4, <1>5, <1>7 DEF Later
    <3>2. \A i \in 1..k : ~(MinuteOf(fed[i]) >= m)
      BY <3>1
    <3> QED
      BY <1>1, <1>16, <3>2 DEF In
  <2>2. m <= m /\ m < m + Period
    BY <1>7
  <2>3. In(fed1, n) = In(fed, n) \cup {k + 1}
    BY <1>1, <1>2, <1>5, <1>16, <2>2, InMore
  <2> QED
    BY <2>1, <2>3
<1>18. ASSUME NEW i \in 1..(j + 1)
       PROVE  /\ bars1[i].time + Period <= m
              /\ In(fed1, bars1[i]) = In(fed, bars1[i]) /\ Made(bars1[i], fed1, In(fed1, bars1[i]))
  <2>1. PICK c \in Bars : c = bars1[i]
    <3>1. i \in 1..Len(bars1)
      BY <1>11
    <3> QED
      BY <3>1, ElementOfSeq
  <2>2. c.time \in Nat
    BY DEF Bars
  <2>3. c.time + Period <= m /\ Made(c, fed, In(fed, c))
    <3>1. CASE i = j + 1
      BY <1>5, <1>6, <1>11, <2>1, <3>1 DEF BarsFit
    <3>2. CASE i \in 1..j
      <4>1. bars1[i] = bars[i] /\ i \in 1..Len(bars)
        BY <1>8, <1>9, <1>11, <3>2
      <4>2. c.time + Period <= b.time /\ Made(c, fed, In(fed, c))
        BY <1>6, <2>1, <4>1 DEF BarsFit
      <4> QED
        BY <1>5, <1>6, <1>7, <2>2, <4>2
    <3> QED
      BY <1>11, <3>1, <3>2
  <2> QED
    BY <1>2, <1>5, <2>1, <2>3, PastBar
<1>19. ASSUME NEW i \in 1..(j + 1), NEW l \in 1..(j + 1), i < l
       PROVE  bars1[i].time + Period <= bars1[l].time
  <2>1. i \in 1..j /\ bars1[i] = bars[i] /\ i \in 1..Len(bars)
    <3>1. i \in 1..j
      BY <1>19
    <3> QED
      BY <1>8, <1>9, <1>11, <3>1
  <2>2. CASE l = j + 1
    BY <1>6, <1>11, <2>1, <2>2 DEF BarsFit
  <2>3. CASE l \in 1..j
    BY <1>8, <1>9, <1>11, <1>19, <2>1, <2>3 DEF BarsFit
  <2> QED
    BY <1>11, <2>2, <2>3
<1>20. \A i \in 1..(k + 1) :
         i \in In(fed1, n) \/ \E l \in 1..(j + 1) : i \in In(fed1, bars1[l])
  <2> SUFFICES ASSUME NEW i \in 1..k PROVE \E l \in 1..(j + 1) : i \in In(fed1, bars1[l])
    BY <1>3, <1>17
  <2>1. i \in In(fed, b) \/ \E l \in 1..j : i \in In(fed, bars[l])
    BY <1>1, <1>6, <1>8, <1>9 DEF BarsFit
  <2>2. CASE i \in In(fed, b)
    BY <1>11, <1>18, <2>2
  <2>3. CASE \E l \in 1..j : i \in In(fed, bars[l])
    BY <1>8, <1>11, <1>18, <2>3
  <2> QED
    BY <2>1, <2>2, <2>3
<1>21. g1.minute <= MinuteOf(fed1[k + 1]) /\ MinuteOf(fed1[k + 1]) < g1.minute + Period
  BY <1>3, <1>5, <1>7, <1>15
<1>22. g1.minute > 0
  BY <1>5, <1>6, <1>7, <1>15
<1>23. BarsFit(fed1, bars1, g1)
  <2>1. \A i \in 1..(j + 1) :
          /\ bars1[i].time + Period <= n.time /\ Made(bars1[i], fed1, In(fed1, bars1[i]))
          /\ \A l \in 1..(j + 1) : i < l => bars1[i].time + Period <= bars1[l].time
    BY <1>16, <1>18, <1>19
  <2>2. /\ g1.bar \in Bars /\ g1.minute = g1.bar.time /\ g1.volume = fed1[Len(fed1)].volume
        /\ Made(g1.bar, fed1, In(fed1, g1.bar)) /\ Profiled(g1.bar, fed1, In(fed1, g1.bar))
    BY <1>3, <1>15, <1>16, <1>17
  <2> QED
    BY <1>3, <1>11, <1>15, <1>20, <1>21, <1>22, <2>1, <2>2 DEF BarsFit
<1> QED
  BY <1>2, <1>12, <1>14, <1>23

LEMMA BarGoesOn ==
  ASSUME NEW fed \in Seq(Ticks), NEW bars, NEW g, BarsFit(fed, bars, g), fed # <<>>,
         Ordered(fed), NEW t \in Ticks, Follows(fed, t), ~EndsBar(g, t)
  PROVE  BarsFit(Append(fed, t), bars \o EndedBar(g, t), InsertTick(g, t))
<1>1. PICK k \in Nat : k = Len(fed) /\ k > 0
  BY EmptySeq
<1>2. PICK fed1 \in Seq(Ticks) : fed1 = Append(fed, t)
  BY AppendProperties
<1>3. Len(fed1) = k + 1 /\ fed1[k + 1] = t /\ fed1 # <<>> /\ 1..(k + 1) = 1..k \cup {k + 1}
  <2>1. Len(fed1) = k + 1 /\ fed1[k + 1] = t /\ fed1 # <<>>
    BY <1>1, <1>2, AppendProperties
  <2>2. 1..(k + 1) = 1..k \cup {k + 1}
    OBVIOUS
  <2> QED
    BY <2>1, <2>2
<1>4. PICK lots \in Nat : Later(fed, g, t, lots)
  BY NextIsLater DEF Later
<1>5. Period \in Nat /\ Period > 0
  BY MarketAssumption
<1>6. PICK m \in Nat : m = MinuteOf(t) /\ g.minute \in Nat /\ g.minute <= m /\ m < g.minute + Period
  BY <1>4, <1>5 DEF Later
<1>7. PICK b \in Bars : b = g.bar /\ b.time = g.minute /\ g.minute > 0
  BY DEF BarsFit
<1>8. b.open # 0
  <2>1. PICK i \in 1..k : b.open = fed[i].price
    BY <1>1, <1>7 DEF BarsFit, Made
  <2>2. fed[i] \in Ticks
    BY <1>1, ElementOfSeq
  <2> QED
    BY <2>1, <2>2 DEF Ticks
<1>9. bars \o EndedBar(g, t) = bars /\ bars \in Seq(Bars)
  <2>1. EndedBar(g, t) = <<>>
    BY DEF EndedBar
  <2>2. bars \in Seq(Bars)
    BY DEF BarsFit
  <2> QED
    BY <2>1, <2>2, ConcatEmptySeq
<1>10. PICK a : a = AddToBar(b, t, lots)
  OBVIOUS
<1>11. PICK g1 : g1 = InsertTick(g, t)
  OBVIOUS
<1>12. g1.minute = g.minute /\ g1.volume = t.volume /\ g1.bar = a
  BY <1>4, <1>7, <1>8, <1>10, <1>11 DEF InsertTick, Later
<1>13. PICK S : S = In(fed, b)
  OBVIOUS
<1>14. Made(b, fed, S) /\ Profiled(b, fed, S)
  BY <1>7, <1>13 DEF BarsFit
<1>15. a \in Bars /\ a.time = b.time /\ Made(a, fed1, S \cup {k + 1}) /\ Profiled(a, fed1, S \cup {k + 1})
  BY <1>1, <1>2, <1>4, <1>10, <1>14, AddMade DEF Later
<1>16. In(fed1, a) = S \cup {k + 1}
  <2>1. In(fed, a) = In(fed, b)
    BY <1>15 DEF In
  <2>2. a.time \in Nat
    BY <1>15 DEF Bars
  <2>3. a.time <= m /\ m < a.time + Period
    BY <1>6, <1>7, <1>15
  <2>4. In(fed1, a) = In(fed, a) \cup {k + 1}
    BY <1>1, <1>2, <1>6, <2>2, <2>3, InMore
  <2> QED
    BY <1>13, <2>1, <2>4
<1>17. ASSUME NEW i \in 1..Len(bars)
       PROVE  /\ bars[i].time + Period <= a.time
              /\ In(fed1, bars[i]) = In(fed, bars[i]) /\ Made(bars[i], fed1, In(fed1, bars[i]))
              /\ \A j \in 1..Len(bars) : i < j => bars[i].time + Period <= bars[j].time
  <2>1. PICK c \in Bars : c = bars[i]
    BY <1>9, ElementOfSeq
  <2>2. c.time \in Nat
    BY DEF Bars
  <2>3. /\ c.time + Period <= b.time /\ Made(c, fed, In(fed, c))
        /\ \A j \in 1..Len(bars) : i < j => bars[i].time + Period <= bars[j].time
    BY <1>7, <2>1 DEF BarsFit
  <2>4. c.time + Period <= m
    BY <1>5, <1>6, <1>7, <2>2, <2>3
  <2>5. In(fed1, c) = In(fed, c) /\ Made(c, fed1, In(fed1, c))
    BY <1>2, <1>6, <2>3, <2>4, PastBar
  <2> QED
    BY <1>15, <2>1, <2>3, <2>5
<1>18. \A i \in 1..(k + 1) :
         i \in In(fed1, a) \/ \E l \in 1..Len(bars) : i \in In(fed1, bars[l])
  <2> SUFFICES ASSUME NEW i \in 1..k
               PROVE  i \in In(fed1, a) \/ \E l \in 1..Len(bars) : i \in In(fed1, bars[l])
    BY <1>3, <1>16
  <2>1. i \in In(fed, b) \/ \E l \in 1..Len(bars) : i \in In(fed, bars[l])
    BY <1>1, <1>7 DEF BarsFit
  <2> QED
    BY <1>13, <1>16, <1>17, <2>1
<1>19. g1.minute <= MinuteOf(fed1[k + 1]) /\ MinuteOf(fed1[k + 1]) < g1.minute + Period
  BY <1>3, <1>6, <1>12
<1>20. BarsFit(fed1, bars, g1)
  <2>1. /\ g1.bar \in Bars /\ g1.minute = g1.bar.time /\ g1.volume = fed1[Len(fed1)].volume
        /\ Made(g1.bar, fed1, In(fed1, g1.bar)) /\ Profiled(g1.bar, fed1, In(fed1, g1.bar))
        /\ g1.minute > 0
    BY <1>3, <1>7, <1>12, <1>15, <1>16
  <2>2. \A i \in 1..Len(bars) :
          /\ bars[i].time + Period <= g1.bar.time /\ Made(bars[i], fed1, In(fed1, bars[i]))
          /\ \A j \in 1..Len(bars) : i < j => bars[i].time + Period <= bars[j].time
    BY <1>12, <1>17
  <2> QED
    BY <1>3, <1>9, <1>12, <1>18, <1>19, <2>1, <2>2 DEF BarsFit
<1> QED
  BY <1>2, <1>9, <1>11, <1>20

LEMMA BarsStep ==
  ASSUME NEW fed \in Seq(Ticks), NEW bars, NEW g, BarsFit(fed, bars, g),
         Ordered(fed), NEW t \in Ticks, Follows(fed, t)
  PROVE  BarsFit(Append(fed, t), bars \o EndedBar(g, t), InsertTick(g, t))
<1>1. CASE fed = <<>>
  <2>1. bars = <<>> /\ g = NoGenerator
    BY <1>1 DEF BarsFit
  <2> QED
    BY <1>1, <2>1, FirstBar
<1>2. CASE fed # <<>>
  BY <1>2, BarEnds, BarGoesOn
<1> QED
  BY <1>1, <1>2

-----------------------------------------------------------------------------
(* handle_tick, for the instrument of its tick and for the others *)

IsData(x) ==
  /\ x = [clock |-> x.clock, prev |-> x.prev, gen |-> x.gen, fed |-> x.fed, tapes |-> x.tapes,
          bars |-> x.bars]
  /\ x.clock \in Nat
  /\ x.prev = [c \in Codes |-> x.prev[c]] /\ x.gen = [c \in Codes |-> x.gen[c]]
  /\ x.fed = [c \in Codes |-> x.fed[c]] /\ x.tapes = [c \in Codes |-> x.tapes[c]]
  /\ x.bars = [c \in Codes |-> x.bars[c]]

SameOf(x, y, c) ==
  /\ y.prev[c] = x.prev[c] /\ y.gen[c] = x.gen[c] /\ y.fed[c] = x.fed[c]
  /\ y.tapes[c] = x.tapes[c] /\ y.bars[c] = x.bars[c]

\* The engine is told of t.
IsTold(x, t, y) == x.prev[t.code] # NoTick /\ IsInTrading(y.clock)

TakenIn(x, t, y) ==
  /\ IsData(y)
  /\ y.clock = IF t.time > x.clock THEN t.time ELSE x.clock
  /\ y.prev[t.code] = t
  /\ y.fed[t.code] = IF IsTold(x, t, y) THEN Append(x.fed[t.code], t) ELSE x.fed[t.code]
  /\ y.tapes[t.code] = IF IsTold(x, t, y) /\ Receives("tape", t.code)
                       THEN Append(x.tapes[t.code], Tape(x.prev[t.code], t))
                       ELSE x.tapes[t.code]
  /\ y.bars[t.code] = IF IsTold(x, t, y) /\ Receives("bar", t.code)
                      THEN x.bars[t.code] \o EndedBar(x.gen[t.code], t)
                      ELSE x.bars[t.code]
  /\ y.gen[t.code] = IF IsTold(x, t, y) /\ Receives("bar", t.code)
                     THEN InsertTick(x.gen[t.code], t)
                     ELSE x.gen[t.code]
  /\ \A d \in Codes \ {t.code} : SameOf(x, y, d)

LEMMA HandleTickTakes ==
  ASSUME NEW x, IsData(x), NEW t \in Ticks
  PROVE  TakenIn(x, t, HandleTick(x, t))
<1>1. PICK c \in Codes : c = t.code
  BY DEF Ticks
<1>2. PICK clock \in Nat : clock = IF t.time > x.clock THEN t.time ELSE x.clock
  <2>1. t.time \in Nat /\ x.clock \in Nat
    BY MarketAssumption DEF Ticks, IsData
  <2> QED
    BY <2>1
<1>3. PICK prev : prev = [x.prev EXCEPT ![c] = t]
  OBVIOUS
<1>4. PICK y : y = [x EXCEPT !.clock = clock, !.prev[c] = t]
  OBVIOUS
<1>5. y = [clock |-> clock, prev |-> prev, gen |-> x.gen, fed |-> x.fed, tapes |-> x.tapes,
           bars |-> x.bars]
  BY <1>3, <1>4 DEF IsData
<1>6. PICK old : old = x.prev[c]
  OBVIOUS
<1>7. HandleTick(x, t) = IF old # NoTick /\ IsInTrading(clock) THEN Tell(y, old, t) ELSE y
  BY <1>1, <1>2, <1>4, <1>6 DEF HandleTick
<1>8. /\ prev = [d \in Codes |-> prev[d]] /\ prev[c] = t
      /\ \A d \in Codes \ {c} : prev[d] = x.prev[d]
  BY <1>3 DEF IsData
<1>9. CASE ~(old # NoTick /\ IsInTrading(clock))
  <2>1. ~IsTold(x, t, y)
    BY <1>1, <1>5, <1>6, <1>9 DEF IsTold
  <2>2. IsData(y)
    BY <1>2, <1>5, <1>8 DEF IsData
  <2>3. \A d \in Codes \ {c} : SameOf(x, y, d)
    BY <1>5, <1>8 DEF SameOf
  <2>4. TakenIn(x, t, y)
    BY <1>1, <1>2, <1>5, <1>8, <2>1, <2>2, <2>3 DEF TakenIn
  <2> QED
    BY <1>7, <1>9, <2>4
<1>10. CASE old # NoTick /\ IsInTrading(clock)
  <2>1. PICK f : f = Append(x.fed[c], t)
    OBVIOUS
  <2>2. PICK u : u = IF Receives("tape", c) THEN Append(x.tapes[c], Tape(old, t)) ELSE x.tapes[c]
    OBVIOUS
  <2>3. PICK b : b = IF Receives("bar", c) THEN x.bars[c] \o EndedBar(x.gen[c], t) ELSE x.bars[c]
    OBVIOUS
  <2>4. PICK g : g = IF Receives("bar", c) THEN InsertTick(x.gen[c], t) ELSE x.gen[c]
    OBVIOUS
  <2>5. PICK fed : fed = [x.fed EXCEPT ![c] = f]
    OBVIOUS
  <2>6. PICK tapes : tapes = [x.tapes EXCEPT ![c] = u]
    OBVIOUS
  <2>7. PICK bars : bars = [x.bars EXCEPT ![c] = b]
    OBVIOUS
  <2>8. PICK gen : gen = [x.gen EXCEPT ![c] = g]
    OBVIOUS
  <2>9. PICK z : z = [y EXCEPT !.fed[c] = f, !.tapes[c] = u, !.bars[c] = b, !.gen[c] = g]
    OBVIOUS
  <2>10. Tell(y, old, t) = z
    BY <1>1, <1>5, <2>1, <2>2, <2>3, <2>4, <2>9 DEF Tell
  <2>11. z = [clock |-> clock, prev |-> prev, gen |-> gen, fed |-> fed, tapes |-> tapes,
              bars |-> bars]
    BY <1>5, <2>5, <2>6, <2>7, <2>8, <2>9
  <2>12. /\ fed = [d \in Codes |-> fed[d]] /\ fed[c] = f
         /\ \A d \in Codes \ {c} : fed[d] = x.fed[d]
    BY <2>5 DEF IsData
  <2>13. /\ tapes = [d \in Codes |-> tapes[d]] /\ tapes[c] = u
         /\ \A d \in Codes \ {c} : tapes[d] = x.tapes[d]
    BY <2>6 DEF IsData
  <2>14. /\ bars = [d \in Codes |-> bars[d]] /\ bars[c] = b
         /\ \A d \in Codes \ {c} : bars[d] = x.bars[d]
    BY <2>7 DEF IsData
  <2>15. /\ gen = [d \in Codes |-> gen[d]] /\ gen[c] = g
         /\ \A d \in Codes \ {c} : gen[d] = x.gen[d]
    BY <2>8 DEF IsData
  <2>16. IsTold(x, t, z)
    BY <1>1, <1>6, <1>10, <2>11 DEF IsTold
  <2>17. IsData(z)
    BY <1>2, <1>8, <2>11, <2>12, <2>13, <2>14, <2>15 DEF IsData
  <2>18. \A d \in Codes \ {c} : SameOf(x, z, d)
    BY <1>8, <2>11, <2>12, <2>13, <2>14, <2>15 DEF SameOf
  <2>19. z.clock = clock /\ z.prev[c] = t /\ z.fed[c] = f /\ z.tapes[c] = u /\ z.bars[c] = b
         /\ z.gen[c] = g
    BY <1>8, <2>11, <2>12, <2>13, <2>14, <2>15
  <2>20. TakenIn(x, t, z)
    BY <1>1, <1>2, <1>6, <2>1, <2>2, <2>3, <2>4, <2>16, <2>17, <2>18, <2>19 DEF TakenIn
  <2> QED
    BY <1>7, <1>10, <2>10, <2>20
<1> QED
  BY <1>9, <1>10

-----------------------------------------------------------------------------
(* What the first n ticks of an instrument's file make of the data *)

\* MarketAssumption, of one file.
DayFile(c, f) ==
  /\ f \in Seq(Ticks)
  /\ \A i \in 1..Len(f) :
       /\ f[i].code = c
       /\ \A j \in 1..Len(f) : i < j => f[i].time < f[j].time /\ f[i].volume <= f[j].volume

\* Tick number j of f is handed on; k says whether one was known before the day.
IsDue(f, k, j) == (j > 1 \/ k) /\ IsInTrading(f[j].time)

FedFit(f, k, n, fed) ==
  /\ fed \in Seq(Ticks) /\ Ordered(fed)
  /\ \A i \in 1..Len(fed) : \E j \in 1..n : fed[i] = f[j] /\ IsDue(f, k, j)
  /\ \A j \in 1..n : IsDue(f, k, j) => \E i \in 1..Len(fed) : fed[i] = f[j]

\* A tape is a tick's of f, and its lots those since the tick before.
TapeFits(f, j, tape) ==
  f[j].time = tape.time /\ (j > 1 => tape.lots = f[j].volume - f[j - 1].volume)

TapesFit(f, n, fed, tapes) ==
  /\ \E S : tapes \in Seq(S)
  /\ Len(tapes) = Len(fed)
  /\ \A i \in 1..Len(tapes) : \E j \in 1..n : TapeFits(f, j, tapes[i])

\* Receives, of the receivers R.
Hears(R, feed, c) == \E r \in R : r.feed = feed /\ r.code = c

Fits(x, c, f, k, R, n) ==
  /\ n \in 0..Len(f)
  /\ n > 0 => x.prev[c] = f[n]
  /\ n = 0 => (k <=> x.prev[c] # NoTick)
  /\ FedFit(f, k, n, x.fed[c])
  /\ Hears(R, "tape", c) => TapesFit(f, n, x.fed[c], x.tapes[c])
  /\ Hears(R, "bar", c) => BarsFit(x.fed[c], x.bars[c], x.gen[c])

LEMMA FilesAreDayFiles ==
  ASSUME NEW fs \in Files, NEW c \in Codes
  PROVE  DayFile(c, fs[c])
<1>1. fs \in [Codes -> Seq(Ticks)]
  BY MarketAssumption
<1>2. fs[c] \in Seq(Ticks)
  BY <1>1
<1>3. \A i \in 1..Len(fs[c]) :
        /\ fs[c][i].code = c
        /\ \A j \in 1..Len(fs[c]) :
             i < j => fs[c][i].time < fs[c][j].time /\ fs[c][i].volume <= fs[c][j].volume
  BY MarketAssumption
<1> QED
  BY <1>2, <1>3 DEF DayFile

\* One tick of a file, of the file's numbers.
LEMMA FileTick ==
  ASSUME NEW c, NEW f, DayFile(c, f), NEW j \in 1..Len(f)
  PROVE  /\ f[j] \in Ticks /\ f[j].code = c /\ f[j] # NoTick
         /\ f[j].time \in Nat /\ f[j].volume \in Nat /\ f[j].volume < Modulus
<1>1. f[j] \in Ticks /\ f[j].code = c
  BY DEF DayFile
<1>2. Modulus \in Nat
  BY MarketAssumption
<1>3. PICK t \in Ticks : t = f[j]
  BY <1>1
<1>4. t.time \in Nat /\ t.volume \in Nat /\ t.volume < Modulus
  BY <1>2 DEF Ticks
<1>5. NoTick.time = -1
  BY DEF NoTick
<1>6. t # NoTick
  BY <1>4, <1>5
<1> QED
  BY <1>1, <1>3, <1>4, <1>6

\* Trading hours are late enough for a bar.
LEMMA TradingIsLate ==
  ASSUME NEW time \in Nat, IsInTrading(time)
  PROVE  Period * Minute <= time /\ time > 0
<1>1. PICK s \in Sections : s[1] <= time /\ s[1] >= Period * Minute
  BY MarketAssumption DEF IsInTrading
<1>2. Period \in Nat \ {0} /\ Minute \in Nat \ {0} /\ s[1] \in Nat
  BY MarketAssumption
<1>3. PICK p \in Nat : Period = p + 1
  <2>1. Period - 1 \in Nat /\ Period = (Period - 1) + 1
    BY <1>2
  <2> QED
    BY <2>1
<1>4. p * Minute \in Nat /\ (p + 1) * Minute = p * Minute + Minute
  BY <1>2
<1>5. Period * Minute \in Nat /\ Period * Minute > 0
  BY <1>2, <1>3, <1>4
<1> QED
  BY <1>1, <1>2, <1>5

LEMMA FedFollows ==
  ASSUME NEW c, NEW f, DayFile(c, f), NEW k, NEW n \in Nat, n < Len(f),
         NEW fed, FedFit(f, k, n, fed), IsInTrading(f[n + 1].time)
  PROVE  Follows(fed, f[n + 1])
<1>1. n + 1 \in 1..Len(f) /\ Len(f) \in Nat
  BY DEF DayFile
<1>2. PICK t : t = f[n + 1]
  OBVIOUS
<1>3. t.time \in Nat
  BY <1>1, <1>2, FileTick
<1>4. Period * Minute <= t.time
  BY <1>2, <1>3, TradingIsLate
<1>5. ASSUME NEW i \in 1..Len(fed) PROVE fed[i].time < t.time /\ fed[i].volume <= t.volume
  <2>1. PICK j \in 1..n : fed[i] = f[j]
    BY DEF FedFit
  <2>2. j \in 1..Len(f) /\ j < n + 1
    BY <1>1
  <2> QED
    BY <1>1, <1>2, <2>1, <2>2 DEF DayFile
<1> QED
  BY <1>2, <1>4, <1>5 DEF Follows

LEMMA FedMore ==
  ASSUME NEW c, NEW f, DayFile(c, f), NEW k, NEW n \in Nat, n < Len(f),
         NEW fed, FedFit(f, k, n, fed), IsDue(f, k, n + 1)
  PROVE  FedFit(f, k, n + 1, Append(fed, f[n + 1]))
<1>1. n + 1 \in 1..Len(f) /\ Len(f) \in Nat
  BY DEF DayFile
<1>2. PICK t \in Ticks : t = f[n + 1]
  BY <1>1, FileTick
<1>3. \A i \in 1..Len(fed) : fed[i].time < t.time
  <2>1. IsInTrading(f[n + 1].time)
    BY DEF IsDue
  <2> QED
    BY <1>2, <2>1, FedFollows DEF Follows
<1>4. PICK more : more = Append(fed, t)
  OBVIOUS
<1>5. /\ fed \in Seq(Ticks) /\ Len(fed) \in Nat /\ more \in Seq(Ticks)
      /\ Len(more) = Len(fed) + 1 /\ more[Len(fed) + 1] = t
      /\ \A i \in 1..Len(fed) : more[i] = fed[i]
  BY <1>4, AppendProperties DEF FedFit
<1>6. Ordered(more)
  <2>1. Ordered(fed)
    BY DEF FedFit
  <2>2. ASSUME NEW i \in 1..Len(more), NEW j \in 1..Len(more), i < j
        PROVE  more[i].time < more[j].time
    <3>1. i \in 1..Len(fed)
      BY <1>5, <2>2
    <3>2. CASE j = Len(fed) + 1
      BY <1>3, <1>5, <3>1, <3>2
    <3>3. CASE j \in 1..Len(fed)
      BY <1>5, <2>1, <2>2, <3>1, <3>3 DEF Ordered
    <3> QED
      BY <1>5, <3>2, <3>3
  <2> QED
    BY <2>2 DEF Ordered
<1>7. ASSUME NEW i \in 1..Len(more)
      PROVE  \E j \in 1..(n + 1) : more[i] = f[j] /\ IsDue(f, k, j)
  <2>1. CASE i = Len(fed) + 1
    <3>1. n + 1 \in 1..(n + 1)
      OBVIOUS
    <3> QED
      BY <1>2, <1>5, <2>1, <3>1
  <2>2. CASE i \in 1..Len(fed)
    <3>1. PICK j \in 1..n : fed[i] = f[j] /\ IsDue(f, k, j)
      BY <2>2 DEF FedFit
    <3>2. j \in 1..(n + 1)
      OBVIOUS
    <3> QED
      BY <1>5, <2>2, <3>1, <3>2
  <2> QED
    BY <1>5, <2>1, <2>2
<1>8. ASSUME NEW j \in 1..(n + 1), IsDue(f, k, j)
      PROVE  \E i \in 1..Len(more) : more[i] = f[j]
  <2>1. CASE j = n + 1
    <3>1. Len(fed) + 1 \in 1..Len(more)
      BY <1>5
    <3> QED
      BY <1>2, <1>5, <2>1, <3>1
  <2>2. CASE j \in 1..n
    <3>1. PICK i \in 1..Len(fed) : fed[i] = f[j]
      BY <1>8, <2>2 DEF FedFit
    <3>2. i \in 1..Len(more)
      BY <1>5
    <3> QED
      BY <1>5, <3>1, <3>2
  <2> QED
    BY <2>1, <2>2
<1>9. FedFit(f, k, n + 1, more)
  BY <1>5, <1>6, <1>7, <1>8 DEF FedFit
<1> QED
  BY <1>2, <1>4, <1>9

LEMMA FedStays ==
  ASSUME NEW f, NEW k, NEW n \in Nat, NEW fed, FedFit(f, k, n, fed), ~IsDue(f, k, n + 1)
  PROVE  FedFit(f, k, n + 1, fed)
<1>1. ASSUME NEW i \in 1..Len(fed) PROVE \E j \in 1..(n + 1) : fed[i] = f[j] /\ IsDue(f, k, j)
  <2>1. PICK j \in 1..n : fed[i] = f[j] /\ IsDue(f, k, j)
    BY DEF FedFit
  <2>2. j \in 1..(n + 1)
    OBVIOUS
  <2> QED
    BY <2>1, <2>2
<1>2. ASSUME NEW j \in 1..(n + 1), IsDue(f, k, j) PROVE \E i \in 1..Len(fed) : fed[i] = f[j]
  <2>1. j # n + 1
    BY <1>2
  <2>2. j \in 1..n
    BY <2>1
  <2> QED
    BY <1>2, <2>2 DEF FedFit
<1>3. fed \in Seq(Ticks) /\ Ordered(fed)
  BY DEF FedFit
<1> QED
  BY <1>1, <1>2, <1>3 DEF FedFit

LEMMA TapesMore ==
  ASSUME NEW c, NEW f, DayFile(c, f), NEW n \in Nat, n < Len(f),
         NEW fed \in Seq(Ticks), NEW tapes, TapesFit(f, n, fed, tapes),
         NEW prev, n > 0 => prev = f[n]
  PROVE  TapesFit(f, n + 1, Append(fed, f[n + 1]), Append(tapes, Tape(prev, f[n + 1])))
<1>1. n + 1 \in 1..Len(f) /\ Len(f) \in Nat
  BY DEF DayFile
<1>2. PICK t \in Ticks : t = f[n + 1]
  BY <1>1, FileTick
<1>3. PICK tape : tape = Tape(prev, t)
  OBVIOUS
<1>4. TapeFits(f, n + 1, tape)
  <2>1. tape.time = t.time /\ tape.lots = (t.volume - prev.volume) % Modulus
    BY <1>3 DEF Tape
  <2>2. ASSUME n + 1 > 1 PROVE tape.lots = f[n + 1].volume - f[(n + 1) - 1].volume
    <3>1. n > 0 /\ n \in 1..Len(f) /\ (n + 1) - 1 = n
      BY <1>1, <2>2
    <3>2. PICK u \in Ticks : u = f[n]
      BY <3>1, FileTick
    <3>3. u.volume \in Nat /\ t.volume \in Nat /\ t.volume < Modulus
      BY <1>1, <1>2, <3>1, <3>2, FileTick
    <3>4. u.volume <= t.volume
      BY <1>1, <1>2, <3>1, <3>2 DEF DayFile
    <3>5. (t.volume - u.volume) % Modulus = t.volume - u.volume
      BY <3>3, <3>4, SmallDifference
    <3> QED
      BY <1>2, <2>1, <3>1, <3>2, <3>5
  <2> QED
    BY <1>2, <2>1, <2>2 DEF TapeFits
<1>5. PICK S : tapes \in Seq(S)
  BY DEF TapesFit
<1>6. PICK S1 : S1 = S \cup {tape}
  OBVIOUS
<1>7. tapes \in Seq(S1) /\ tape \in S1
  BY <1>5, <1>6, SeqMonotonic
<1>8. PICK more : more = Append(tapes, tape)
  OBVIOUS
<1>9. /\ more \in Seq(S1) /\ Len(tapes) \in Nat /\ Len(more) = Len(tapes) + 1
      /\ more[Len(tapes) + 1] = tape /\ \A i \in 1..Len(tapes) : more[i] = tapes[i]
  BY <1>7, <1>8, AppendProperties
<1>10. Len(Append(fed, t)) = Len(more)
  <2>1. Len(Append(fed, t)) = Len(fed) + 1
    BY AppendProperties
  <2> QED
    BY <1>9, <2>1 DEF TapesFit
<1>11. ASSUME NEW i \in 1..Len(more) PROVE \E j \in 1..(n + 1) : TapeFits(f, j, more[i])
  <2>1. CASE i = Len(tapes) + 1
    <3>1. n + 1 \in 1..(n + 1)
      OBVIOUS
    <3> QED
      BY <1>4, <1>9, <2>1, <3>1
  <2>2. CASE i \in 1..Len(tapes)
    <3>1. PICK j \in 1..n : TapeFits(f, j, tapes[i])
      BY <2>2 DEF TapesFit
    <3>2. j \in 1..(n + 1)
      OBVIOUS
    <3> QED
      BY <1>9, <2>2, <3>1, <3>2
  <2> QED
    BY <1>9, <2>1, <2>2
<1>12. TapesFit(f, n + 1, Append(fed, t), more)
  BY <1>9, <1>10, <1>11 DEF TapesFit
<1> QED
  BY <1>2, <1>3, <1>8, <1>12

LEMMA TapesStay ==
  ASSUME NEW f, NEW n \in Nat, NEW fed, NEW tapes, TapesFit(f, n, fed, tapes)
  PROVE  TapesFit(f, n + 1, fed, tapes)
<1>1. ASSUME NEW i \in 1..Len(tapes) PROVE \E j \in 1..(n + 1) : TapeFits(f, j, tapes[i])
  <2>1. PICK j \in 1..n : TapeFits(f, j, tapes[i])
    BY DEF TapesFit
  <2>2. j \in 1..(n + 1)
    OBVIOUS
  <2> QED
    BY <2>1, <2>2
<1>2. (\E S : tapes \in Seq(S)) /\ Len(tapes) = Len(fed)
  BY DEF TapesFit
<1> QED
  BY <1>1, <1>2 DEF TapesFit

\* The next tick of its file makes what one tick more makes.
LEMMA FitsMore ==
  ASSUME NEW c \in Codes, NEW f, DayFile(c, f), NEW k \in BOOLEAN, NEW n \in Nat, n < Len(f),
         NEW x, IsData(x), Fits(x, c, f, k, receivers, n), x.clock <= f[n + 1].time,
         NEW y, TakenIn(x, f[n + 1], y)
  PROVE  Fits(y, c, f, k, receivers, n + 1) /\ y.clock = f[n + 1].time
<1>1. n + 1 \in 1..Len(f) /\ Len(f) \in Nat
  BY DEF DayFile
<1>2. PICK t \in Ticks : t = f[n + 1] /\ t.code = c /\ t.time \in Nat
  BY <1>1, FileTick
<1>3. y.clock = t.time
  <2>1. x.clock \in Nat /\ x.clock <= t.time /\ y.clock = IF t.time > x.clock THEN t.time ELSE x.clock
    BY <1>2 DEF IsData, TakenIn
  <2> QED
    BY <1>2, <2>1
<1>4. PICK old, fed, tapes, bars, g : old = x.prev[c] /\ fed = x.fed[c] /\ tapes = x.tapes[c]
                                      /\ bars = x.bars[c] /\ g = x.gen[c]
  OBVIOUS
<1>5. /\ n > 0 => old = f[n]
      /\ n = 0 => (k <=> old # NoTick)
      /\ FedFit(f, k, n, fed)
      /\ Receives("tape", c) => TapesFit(f, n, fed, tapes)
      /\ Receives("bar", c) => BarsFit(fed, bars, g)
  BY <1>4 DEF Fits, Hears, Receives
<1>6. fed \in Seq(Ticks) /\ Ordered(fed)
  BY <1>5 DEF FedFit
<1>7. old # NoTick <=> (n + 1 > 1 \/ k)
  <2>1. CASE n = 0
    BY <1>5, <2>1
  <2>2. CASE n > 0
    <3>1. n \in 1..Len(f)
      BY <1>1, <2>2
    <3>2. f[n] # NoTick
      BY <3>1, FileTick
    <3> QED
      BY <1>5, <2>2, <3>2
  <2> QED
    BY <2>1, <2>2
<1>8. IsTold(x, t, y) <=> IsDue(f, k, n + 1)
  BY <1>2, <1>3, <1>4, <1>7 DEF IsTold, IsDue
<1>9. y.prev[c] = f[n + 1]
  BY <1>2 DEF TakenIn
<1>10. CASE IsDue(f, k, n + 1)
  <2>1. IsTold(x, t, y)
    BY <1>8, <1>10
  <2>2. y.fed[c] = Append(fed, t)
    BY <1>2, <1>4, <2>1 DEF TakenIn
  <2>3. Receives("tape", c) => y.tapes[c] = Append(tapes, Tape(old, t))
    BY <1>2, <1>4, <2>1 DEF TakenIn
  <2>4. Receives("bar", c) => y.bars[c] = bars \o EndedBar(g, t) /\ y.gen[c] = InsertTick(g, t)
    BY <1>2, <1>4, <2>1 DEF TakenIn
  <2>5. FedFit(f, k, n + 1, Append(fed, t))
    BY <1>2, <1>5, <1>10, FedMore
  <2>6. Receives("tape", c) => TapesFit(f, n + 1, Append(fed, t), Append(tapes, Tape(old, t)))
    BY <1>2, <1>5, <1>6, TapesMore
  <2>7. Follows(fed, t)
    BY <1>2, <1>5, <1>10, FedFollows DEF IsDue
  <2>8. Receives("bar", c) => BarsFit(Append(fed, t), bars \o EndedBar(g, t), InsertTick(g, t))
    BY <1>5, <1>6, <2>7, BarsStep
  <2>9. n + 1 \in 0..Len(f) /\ ~(n + 1 = 0)
    BY <1>1
  <2>10. Fits(y, c, f, k, receivers, n + 1)
    BY <1>9, <2>2, <2>3, <2>4, <2>5, <2>6, <2>8, <2>9 DEF Fits, Hears, Receives
  <2> QED
    BY <1>2, <1>3, <2>10
<1>11. CASE ~IsDue(f, k, n + 1)
  <2>1. ~IsTold(x, t, y)
    BY <1>8, <1>11
  <2>2. y.fed[c] = fed /\ y.tapes[c] = tapes /\ y.bars[c] = bars /\ y.gen[c] = g
    BY <1>2, <1>4, <2>1 DEF TakenIn
  <2>3. FedFit(f, k, n + 1, fed)
    BY <1>5, <1>11, FedStays
  <2>4. Receives("tape", c) => TapesFit(f, n + 1, fed, tapes)
    BY <1>5, TapesStay
  <2>5. n + 1 \in 0..Len(f) /\ ~(n + 1 = 0)
    BY <1>1
  <2>6. Fits(y, c, f, k, receivers, n + 1)
    BY <1>5, <1>9, <2>2, <2>3, <2>4, <2>5 DEF Fits, Hears, Receives
  <2> QED
    BY <1>2, <1>3, <2>6
<1> QED
  BY <1>10, <1>11

\* A tick of another instrument makes nothing of this one.
LEMMA FitsStay ==
  ASSUME NEW c, NEW f, NEW k, NEW R, NEW n, NEW x, NEW y, SameOf(x, y, c), Fits(x, c, f, k, R, n)
  PROVE  Fits(y, c, f, k, R, n)
BY DEF SameOf, Fits

-----------------------------------------------------------------------------
(* publish_tick: the ticks of all listed instruments, one after the other *)

DayTicks(fs, L) == UNION {ToSet(fs[c]) : c \in L}

LEMMA DayTicksAre ==
  ASSUME NEW fs \in Files, NEW L, L \subseteq Codes
  PROVE  /\ \A t \in DayTicks(fs, L) :
              t \in Ticks /\ t.code \in L /\ \E j \in 1..Len(fs[t.code]) : t = fs[t.code][j]
         /\ \A c \in L : \A j \in 1..Len(fs[c]) : fs[c][j] \in DayTicks(fs, L)
<1>1. \A c \in L : DayFile(c, fs[c]) /\ DOMAIN fs[c] = 1..Len(fs[c])
  <2> SUFFICES ASSUME NEW c \in L PROVE DayFile(c, fs[c]) /\ DOMAIN fs[c] = 1..Len(fs[c])
    OBVIOUS
  <2>1. DayFile(c, fs[c])
    BY FilesAreDayFiles
  <2>2. fs[c] \in Seq(Ticks)
    BY <2>1 DEF DayFile
  <2> QED
    BY <2>1, <2>2
<1>2. ASSUME NEW t \in DayTicks(fs, L)
      PROVE  t \in Ticks /\ t.code \in L /\ \E j \in 1..Len(fs[t.code]) : t = fs[t.code][j]
  <2>1. PICK c \in L : t \in ToSet(fs[c])
    BY DEF DayTicks
  <2>2. PICK j \in 1..Len(fs[c]) : t = fs[c][j]
    BY <1>1, <2>1 DEF ToSet
  <2>3. fs[c][j] \in Ticks /\ fs[c][j].code = c
    BY <1>1, FileTick
  <2> QED
    BY <2>2, <2>3
<1>3. \A c \in L : \A j \in 1..Len(fs[c]) : fs[c][j] \in DayTicks(fs, L)
  BY <1>1 DEF DayTicks, ToSet
<1> QED
  BY <1>2, <1>3

LEMMA DayIsKeyed ==
  ASSUME NEW fs \in Files, NEW L, L \subseteq Codes
  PROVE  Keyed(DayTicks(fs, L))
<1>1. \A c \in L : DayFile(c, fs[c])
  BY FilesAreDayFiles
<1>2. \A c \in L : IsFiniteSet(ToSet(fs[c]))
  <2> SUFFICES ASSUME NEW c \in L PROVE IsFiniteSet(ToSet(fs[c]))
    OBVIOUS
  <2>1. PICK f : f = fs[c]
    OBVIOUS
  <2>2. f \in Seq(Ticks)
    BY <1>1, <2>1 DEF DayFile
  <2>3. DOMAIN f = 1..Len(f) /\ Len(f) \in Nat
    BY <2>2
  <2>4. IsFiniteSet(DOMAIN f)
    BY <2>3, FS_Interval
  <2>5. PICK T : T = ToSet(f)
    OBVIOUS
  <2>6. f \in [DOMAIN f -> T] /\ \A t \in T : \E i \in DOMAIN f : f[i] = t
    <3>1. T = {f[i] : i \in DOMAIN f}
      BY <2>5 DEF ToSet
    <3>2. f = [i \in DOMAIN f |-> f[i]]
      BY <2>2
    <3> QED
      BY <3>1, <3>2
  <2>7. f \in Surjection(DOMAIN f, T)
    BY <2>6 DEF Surjection
  <2>8. IsFiniteSet(T)
    BY <2>4, <2>7, FS_Surjection
  <2> QED
    BY <2>1, <2>5, <2>8
<1>3. IsFiniteSet({ToSet(fs[c]) : c \in L})
  <2>1. IsFiniteSet(L)
    BY MarketAssumption, FS_Subset
  <2>2. PICK T : T = {ToSet(fs[c]) : c \in L}
    OBVIOUS
  <2>3. PICK g : g = [c \in L |-> ToSet(fs[c])]
    OBVIOUS
  <2>4. g \in Surjection(L, T)
    BY <2>2, <2>3 DEF Surjection
  <2>5. IsFiniteSet(T)
    BY <2>1, <2>4, FS_Surjection
  <2> QED
    BY <2>2, <2>5
<1>4. IsFiniteSet(DayTicks(fs, L))
  BY <1>2, <1>3, FS_UNION DEF DayTicks
<1>5. ASSUME NEW t \in DayTicks(fs, L) PROVE t.time \in Nat /\ t.code \in Nat
  <2>1. t \in Ticks
    BY DayTicksAre
  <2>2. Codes \subseteq Nat /\ Modulus \in Nat
    BY MarketAssumption
  <2>3. t.code \in Codes /\ t.time \in 0..(Modulus - 1)
    BY <2>1 DEF Ticks
  <2>4. t.code \in Nat
    BY <2>2, <2>3
  <2>5. t.time \in Nat
    BY <2>2, <2>3
  <2> QED
    BY <2>4, <2>5
<1>6. ASSUME NEW t \in DayTicks(fs, L), NEW u \in DayTicks(fs, L),
             t.time = u.time, t.code = u.code
      PROVE  t = u
  <2>1. PICK c \in L : c = t.code
    BY DayTicksAre
  <2>2. PICK f : f = fs[c]
    OBVIOUS
  <2>3. PICK i \in 1..Len(f) : t = f[i]
    BY <2>1, <2>2, DayTicksAre
  <2>4. PICK j \in 1..Len(f) : u = f[j]
    BY <1>6, <2>1, <2>2, DayTicksAre
  <2>5. t.time \in Nat /\ u.time \in Nat
    BY <1>5
  <2>6. ~(i < j) /\ ~(j < i)
    BY <1>1, <1>6, <2>2, <2>3, <2>4, <2>5 DEF DayFile
  <2> QED
    BY <2>3, <2>4, <2>6
<1> QED
  BY <1>4, <1>5, <1>6 DEF Keyed

\* The first k ticks of s are the first n of f among those of instrument c.
Reached(s, k, c, f, n) ==
  /\ \A i \in 1..k : s[i].code = c => \E j \in 1..n : s[i] = f[j]
  /\ \A j \in 1..n : \E i \in 1..k : s[i] = f[j]

\* x is what the first k pending ticks make.
Taken(x, k) ==
  /\ IsData(x)
  /\ k = 0 => x.clock = 0
  /\ k > 0 => x.clock = pending[k].time
  /\ \A c \in listed : \E n \in 0..Len(files[c]) :
       Fits(x, c, files[c], c \in knew, receivers, n) /\ Reached(pending, k, c, files[c], n)

Published == files \in Files /\ listed \subseteq Codes /\ InOrder(pending, DayTicks(files, listed))

\* The times of the pending ticks do not fall.
LEMMA PendingTimes ==
  ASSUME Published
  PROVE  /\ pending \in Seq(Ticks) /\ Len(pending) \in Nat
         /\ \A i \in 1..Len(pending) : pending[i] \in DayTicks(files, listed) /\ pending[i].time \in Nat
         /\ \A i, j \in 1..Len(pending) : i < j => pending[i].time <= pending[j].time
<1>1. PICK T : T = DayTicks(files, listed)
  OBVIOUS
<1>2. Keyed(T) /\ InOrder(pending, T)
  BY <1>1, DayIsKeyed DEF Published
<1>3. pending \in Seq(T)
  BY <1>2 DEF InOrder
<1>4. T \subseteq Ticks
  BY <1>1, DayTicksAre DEF Published
<1>5. pending \in Seq(Ticks) /\ Len(pending) \in Nat /\ \A i \in 1..Len(pending) : pending[i] \in T
  BY <1>3, <1>4, SeqMonotonic
<1>6. \A i \in 1..Len(pending) : pending[i].time \in Nat
  BY <1>2, <1>5 DEF Keyed
<1>7. ASSUME NEW i \in 1..Len(pending), NEW j \in 1..Len(pending), i < j
      PROVE  pending[i].time <= pending[j].time
  <2>1. Precedes(pending[i], pending[j])
    BY <1>2, <1>7 DEF InOrder
  <2>2. PICK a \in Nat, b \in Nat : a = pending[i].time /\ b = pending[j].time
    BY <1>6
  <2>3. a < b \/ a = b
    BY <2>1, <2>2 DEF Precedes
  <2>4. a <= b
    BY <2>3
  <2> QED
    BY <2>2, <2>4
<1> QED
  BY <1>1, <1>5, <1>6, <1>7

\* The next pending tick is the next of its file.
LEMMA NextOfItsFile ==
  ASSUME Published, NEW k \in Nat, k < Len(pending),
         NEW c \in listed, c = pending[k + 1].code,
         NEW n \in 0..Len(files[c]), Reached(pending, k, c, files[c], n)
  PROVE  n < Len(files[c]) /\ pending[k + 1] = files[c][n + 1]
<1>1. PICK f : f = files[c]
  OBVIOUS
<1>2. PICK t : t = pending[k + 1]
  OBVIOUS
<1>3. DayFile(c, f) /\ Len(f) \in Nat /\ n \in Nat
  <2>1. DayFile(c, f)
    BY <1>1, FilesAreDayFiles DEF Published
  <2> QED
    BY <1>1, <2>1 DEF DayFile
<1>4. k + 1 \in 1..Len(pending) /\ t.time \in Nat /\ t \in DayTicks(files, listed)
  BY <1>2, PendingTimes
<1>5. PICK m \in 1..Len(f) : t = f[m]
  BY <1>1, <1>2, <1>4, DayTicksAre DEF Published
<1>6. \A i \in 1..k : i \in 1..Len(pending) /\ Precedes(pending[i], t)
  <2>1. \A i \in 1..k : i \in 1..Len(pending) /\ i < k + 1
    BY PendingTimes
  <2>2. \A i, j \in 1..Len(pending) : i < j => Precedes(pending[i], pending[j])
    BY DEF Published, InOrder
  <2> QED
    BY <1>2, <1>4, <2>1, <2>2
<1>7. t.code \in Nat /\ ~Precedes(t, t)
  <2>1. t \in DayTicks(files, listed) /\ Keyed(DayTicks(files, listed))
    BY <1>4, DayIsKeyed DEF Published
  <2>2. t.code \in Nat /\ t.time \in Nat
    BY <2>1 DEF Keyed
  <2> QED
    BY <2>2 DEF Precedes
<1>8. m > n
  <2>1. SUFFICES ASSUME m \in 1..n PROVE FALSE
    BY <1>3
  <2>2. PICK i \in 1..k : pending[i] = f[m]
    BY <1>1, <2>1 DEF Reached
  <2> QED
    BY <1>5, <1>6, <1>7, <2>2
<1>9. m = n + 1
  <2>1. SUFFICES ASSUME m > n + 1 PROVE FALSE
    BY <1>3, <1>8
  <2>2. n + 1 \in 1..Len(f)
    BY <1>3, <2>1
  <2>3. PICK u : u = f[n + 1]
    OBVIOUS
  <2>4. u.code = c /\ u.time < t.time /\ u.time \in Nat
    BY <1>3, <1>5, <2>1, <2>2, <2>3, FileTick DEF DayFile
  <2>5. PICK i \in 1..Len(pending) : pending[i] = u
    <3>1. u \in DayTicks(files, listed)
      BY <1>1, <2>2, <2>3, DayTicksAre DEF Published
    <3> QED
      BY <3>1 DEF Published, InOrder
  <2>6. i < k + 1
    <3>1. i # k + 1
      BY <1>2, <1>4, <2>4, <2>5
    <3>2. ~(k + 1 < i)
      <4>1. k + 1 < i => t.time <= u.time
        BY <1>2, <1>4, <2>5, PendingTimes
      <4> QED
        BY <1>4, <2>4, <4>1
    <3> QED
      BY <3>1, <3>2
  <2>7. PICK j \in 1..n : u = f[j]
    <3>1. i \in 1..k
      BY <2>6
    <3> QED
      BY <1>1, <2>4, <2>5, <3>1 DEF Reached
  <2>8. f[j].time < u.time
    BY <1>3, <2>2, <2>3 DEF DayFile
  <2> QED
    BY <2>4, <2>7, <2>8
<1>10. t = f[n + 1] /\ n < Len(f)
  BY <1>3, <1>5, <1>9
<1> QED
  BY <1>1, <1>2, <1>10

LEMMA TakesOne ==
  ASSUME Published, NEW k \in Nat, k < Len(pending), NEW x, Taken(x, k)
  PROVE  Taken(HandleTick(x, pending[k + 1]), k + 1)
<1>1. PICK t \in Ticks : t = pending[k + 1]
  BY PendingTimes
<1>2. PICK y : y = HandleTick(x, t)
  OBVIOUS
<1>3. k + 1 \in 1..Len(pending) /\ t.time \in Nat /\ t \in DayTicks(files, listed)
  BY <1>1, PendingTimes
<1>4. PICK c \in listed : c = t.code /\ c \in Codes
  BY <1>3, DayTicksAre DEF Published
<1>5. IsData(x) /\ TakenIn(x, t, y)
  BY <1>2, HandleTickTakes DEF Taken
<1>6. x.clock \in Nat /\ x.clock <= t.time
  <2>1. CASE k = 0
    BY <1>3, <2>1 DEF Taken
  <2>2. CASE k > 0
    <3>1. x.clock = pending[k].time
      BY <2>2 DEF Taken
    <3>2. k \in 1..Len(pending) /\ k < k + 1
      BY <2>2, PendingTimes
    <3> QED
      BY <1>1, <1>3, <3>1, <3>2, PendingTimes
  <2> QED
    BY <2>1, <2>2
<1>7. y.clock = t.time /\ \E n \in 0..Len(files[c]) :
        Fits(y, c, files[c], c \in knew, receivers, n) /\ Reached(pending, k + 1, c, files[c], n)
  <2>1. PICK f : f = files[c]
    OBVIOUS
  <2>2. PICK n \in 0..Len(f) :
          Fits(x, c, f, c \in knew, receivers, n) /\ Reached(pending, k, c, f, n)
    BY <2>1 DEF Taken
  <2>3. DayFile(c, f) /\ Len(f) \in Nat
    <3>1. DayFile(c, f)
      BY <1>4, <2>1, FilesAreDayFiles DEF Published
    <3> QED
      BY <3>1 DEF DayFile
  <2>4. n < Len(f) /\ t = f[n + 1]
    BY <1>1, <1>4, <2>1, <2>2, NextOfItsFile
  <2>5. Fits(y, c, f, c \in knew, receivers, n + 1) /\ y.clock = t.time
    <3>1. PICK b \in BOOLEAN : b <=> c \in knew
      OBVIOUS
    <3>2. Fits(x, c, f, b, receivers, n)
      <4>1. b = (c \in knew)
        BY <3>1
      <4> QED
        BY <2>2, <4>1
    <3>3. n \in Nat /\ x.clock <= f[n + 1].time /\ TakenIn(x, f[n + 1], y)
      BY <1>5, <1>6, <2>3, <2>4
    <3>4. Fits(y, c, f, b, receivers, n + 1) /\ y.clock = f[n + 1].time
      BY <1>4, <1>5, <2>3, <2>4, <3>2, <3>3, FitsMore
    <3>5. b = (c \in knew)
      BY <3>1
    <3> QED
      BY <2>4, <3>4, <3>5
  <2>6. Reached(pending, k + 1, c, f, n + 1)
    <3>1. ASSUME NEW i \in 1..(k + 1), pending[i].code = c
          PROVE  \E j \in 1..(n + 1) : pending[i] = f[j]
      <4>1. CASE i = k + 1
        <5>1. n + 1 \in 1..(n + 1)
          BY <2>3
        <5> QED
          BY <1>1, <2>4, <4>1, <5>1
      <4>2. CASE i \in 1..k
        <5>1. PICK j \in 1..n : pending[i] = f[j]
          BY <2>2, <3>1, <4>2 DEF Reached
        <5>2. j \in 1..(n + 1)
          BY <2>3
        <5> QED
          BY <5>1, <5>2
      <4> QED
        BY <4>1, <4>2
    <3>2. ASSUME NEW j \in 1..(n + 1) PROVE \E i \in 1..(k + 1) : pending[i] = f[j]
      <4>1. CASE j = n + 1
        <5>1. k + 1 \in 1..(k + 1)
          OBVIOUS
        <5> QED
          BY <1>1, <2>4, <4>1, <5>1
      <4>2. CASE j \in 1..n
        <5>1. PICK i \in 1..k : pending[i] = f[j]
          BY <2>2, <4>2 DEF Reached
        <5>2. i \in 1..(k + 1)
          OBVIOUS
        <5> QED
          BY <5>1, <5>2
      <4>3. n \in Nat
        BY <2>3
      <4> QED
        BY <4>1, <4>2, <4>3
    <3> QED
      BY <3>1, <3>2 DEF Reached
  <2>7. n + 1 \in 0..Len(f)
    BY <2>3, <2>4
  <2> QED
    BY <2>1, <2>5, <2>6, <2>7
<1>8. ASSUME NEW d \in listed, d # c
      PROVE  \E n \in 0..Len(files[d]) :
               Fits(y, d, files[d], d \in knew, receivers, n) /\ Reached(pending, k + 1, d, files[d], n)
  <2>1. PICK n \in 0..Len(files[d]) :
          Fits(x, d, files[d], d \in knew, receivers, n) /\ Reached(pending, k, d, files[d], n)
    BY DEF Taken
  <2>2. d \in Codes \ {t.code}
    BY <1>4, <1>8 DEF Published
  <2>3. SameOf(x, y, d)
    BY <1>5, <2>2 DEF TakenIn
  <2>4. Fits(y, d, files[d], d \in knew, receivers, n)
    BY <2>1, <2>3, FitsStay
  <2>5. Reached(pending, k + 1, d, files[d], n)
    <3>1. \A i \in 1..(k + 1) : pending[i].code = d => i \in 1..k
      <4>1. pending[k + 1].code # d
        BY <1>1, <1>4, <1>8
      <4> QED
        BY <4>1
    <3>2. \A i \in 1..k : i \in 1..(k + 1)
      OBVIOUS
    <3> QED
      BY <2>1, <3>1, <3>2 DEF Reached
  <2> QED
    BY <2>1, <2>4, <2>5
<1>9. \A d \in listed : \E n \in 0..Len(files[d]) :
        Fits(y, d, files[d], d \in knew, receivers, n) /\ Reached(pending, k + 1, d, files[d], n)
  BY <1>7, <1>8
<1>10. IsData(y)
  BY <1>5 DEF TakenIn
<1>11. Taken(y, k + 1)
  BY <1>1, <1>7, <1>9, <1>10 DEF Taken
<1> QED
  BY <1>1, <1>2, <1>11

LastNow(k) == Max({i \in k + 1..Len(pending) : pending[i].time = pending[k + 1].time})

LEMMA TakesThoseOfOneTime ==
  ASSUME Published, NEW k \in Nat, k < Len(pending), NEW x, Taken(x, k), NEW last,
         last = LastNow(k), NEW y, y = Handled(x, SubSeq(pending, k + 1, last))
  PROVE  /\ last \in (k + 1)..Len(pending) /\ Taken(y, last)
         /\ \A i \in (last + 1)..Len(pending) : y.clock < pending[i].time
<1>1. PICK now : now = pending[k + 1].time
  OBVIOUS
<1>2. PICK S : S = {i \in k + 1..Len(pending) : pending[i].time = now}
  OBVIOUS
<1>3. PICK len \in Nat : len = Len(pending) /\ k < len /\ pending \in Seq(Ticks)
  BY PendingTimes
<1>4. S \in SUBSET (1..len) /\ k + 1 \in S
  BY <1>1, <1>2, <1>3
<1>5. last \in S /\ \A i \in S : i <= last
  <2>1. last = LastOf(S)
    BY <1>1, <1>2 DEF LastNow, Max, LastOf
  <2> QED
    BY <1>4, <2>1, LastIn
<1>6. last \in (k + 1)..len /\ pending[last].time = now
  BY <1>2, <1>3, <1>5
<1>7. PICK s : s = SubSeq(pending, k + 1, last)
  OBVIOUS
<1>8. PICK d \in Nat : d = last - k /\ k + d = last
  BY <1>6
<1>9. DOMAIN s = 1..d /\ \A j \in 1..d : s[j] = pending[k + j]
  <2>1. k + 1 \in Int /\ last \in Int /\ \A i \in (k + 1)..last : pending[i] \in Ticks
    BY <1>3, <1>6
  <2>2. /\ s \in Seq(Ticks) /\ Len(s) = last - (k + 1) + 1
        /\ \A j \in 1..(last - (k + 1) + 1) : s[j] = pending[(k + 1) + j - 1]
    BY <1>6, <1>7, <2>1, SubSeqProperties
  <2>3. last - (k + 1) + 1 = d
    BY <1>6, <1>8
  <2>4. \A j \in 1..d : (k + 1) + j - 1 = k + j
    OBVIOUS
  <2> QED
    BY <2>2, <2>3, <2>4
<1>10. PICK h : StepsOf("tick", x, s, d, h) /\ Handled(x, s) = h[d]
  BY <1>9, TicksHandled
<1>11. \A j \in 0..d : Taken(h[j], k + j)
  <2> DEFINE Bad == {j \in 0..d : ~Taken(h[j], k + j)}
  <2>1. SUFFICES ASSUME Bad # {} PROVE FALSE
    OBVIOUS
  <2>2. PICK j \in Bad : \A i \in Bad : ~(i < j)
    <3>1. Bad \subseteq Nat
      OBVIOUS
    <3> HIDE DEF Bad
    <3> QED
      BY <2>1, <3>1, LeastNat
  <2>3. j # 0
    <3>1. Taken(h[0], k + 0)
      BY <1>10 DEF StepsOf
    <3> QED
      BY <3>1
  <2>4. j \in 1..d /\ j - 1 \in 0..d /\ Taken(h[j - 1], k + (j - 1))
    BY <2>2, <2>3
  <2>5. PICK m \in Nat : m = k + (j - 1) /\ m + 1 = k + j /\ m < Len(pending)
    BY <1>3, <1>6, <1>8, <2>4
  <2>6. Taken(h[j - 1], m)
    BY <2>4, <2>5
  <2>7. Taken(HandleTick(h[j - 1], pending[m + 1]), m + 1)
    BY <2>5, <2>6, TakesOne
  <2>8. h[j] = HandleTick(h[j - 1], pending[m + 1])
    <3>1. h[j] = HandleTick(h[j - 1], s[j])
      BY <1>10, <2>4 DEF StepsOf, Step
    <3> QED
      BY <1>9, <2>4, <2>5, <3>1
  <2>9. Taken(h[j], k + j)
    BY <2>5, <2>7, <2>8
  <2> QED
    BY <2>2, <2>9
<1>12. Taken(y, last)
  <2>1. Taken(h[d], k + d)
    BY <1>11
  <2>2. y = h[d]
    BY <1>7, <1>10
  <2> QED
    BY <1>8, <2>1, <2>2
<1>13. PICK l \in Nat : l = last /\ k < l /\ l <= len
  BY <1>6
<1>14. Taken(y, l) /\ l > 0 /\ pending[l].time = now
  BY <1>6, <1>12, <1>13
<1>15. y.clock = now
  BY <1>14 DEF Taken
<1>16. \A i \in S : i <= l
  BY <1>5, <1>13
<1>17. ASSUME NEW i \in (l + 1)..len PROVE y.clock < pending[i].time
  <2>1. i \in 1..len /\ k + 1 \in 1..len /\ k + 1 < i /\ ~(i <= l) /\ i \in (k + 1)..len
    BY <1>3, <1>13
  <2>2. pending[i].time # now
    <3>1. i \notin S
      BY <1>16, <2>1
    <3>2. i \in (k + 1)..Len(pending)
      BY <1>3, <2>1
    <3> QED
      BY <1>2, <3>1, <3>2
  <2>3. now <= pending[i].time /\ now \in Nat /\ pending[i].time \in Nat
    BY <1>1, <1>3, <2>1, PendingTimes
  <2> QED
    BY <1>15, <2>2, <2>3
<1>18. last \in (k + 1)..Len(pending)
  BY <1>3, <1>6
<1>19. \A i \in (last + 1)..Len(pending) : y.clock < pending[i].time
  BY <1>3, <1>13, <1>17
<1> QED
  BY <1>12, <1>18, <1>19

-----------------------------------------------------------------------------
(* The invariant *)

Threads ==
  \/ main \in {"idle", "joining"} /\ rt = "off"
  \/ main \in {"started", "waiting"} /\ rt = "init"
  \/ main \in {"started", "waiting", "joining"} /\ rt = "running"

Market ==
  /\ finished \in BOOLEAN
  /\ main = "waiting" => \/ state \in {"loading", "publish"} /\ ~finished
                         \/ state = "idle" /\ finished /\ rt = "running"
  /\ main # "waiting" => state = "idle"
  /\ state = "publish" => rt = "running"
  /\ state # "publish" => pending = <<>> /\ index = 0

\* No tick of the day has been published.
Unpublished == rt # "running" \/ main = "started" \/ state = "loading"

Subscribed ==
  /\ listed \subseteq Codes /\ count \in [Codes -> Nat]
  /\ IsFiniteSet(wants) /\ \A r \in wants : r.code \in Codes
  /\ receivers = IF rt = "running" THEN wants ELSE {}
  /\ rt = "running" /\ (main = "started" \/ state # "idle") => Registered \subseteq listed

Untold(x, c) == x.fed[c] = <<>> /\ x.tapes[c] = <<>> /\ x.bars[c] = <<>> /\ x.gen[c] = NoGenerator

Known(x) == {c \in Codes : x.prev[c] # NoTick}

DayBegins ==
  /\ IsData(data)
  /\ rt # "off" => files \in Files
  /\ Unpublished => \A c \in Codes : Untold(data, c)
  /\ Unpublished /\ rt # "off" => knew = Known(data)
  /\ Unpublished /\ rt = "running" => data.clock = 0

DayGoesOn ==
  state = "publish" =>
    /\ Published /\ index \in 0..Len(pending) /\ Taken(data, index)
    /\ index > 0 => \A i \in (index + 1)..Len(pending) : data.clock < pending[i].time

\* All ticks of c have been handled.
AllTaken(c) ==
  /\ Fits(data, c, files[c], c \in knew, receivers, Len(files[c]))
  /\ \A j \in 1..Len(files[c]) : files[c][j].time <= data.clock

DayIsOver == ~Unpublished /\ state = "idle" => \A c \in Registered : AllTaken(c)

Inv == Threads /\ Market /\ Subscribed /\ DayBegins /\ DayGoesOn /\ DayIsOver

LEMMA FitsNothing ==
  ASSUME NEW x, NEW c, NEW f \in Seq(Ticks), NEW k, NEW R, Untold(x, c), k <=> x.prev[c] # NoTick
  PROVE  Fits(x, c, f, k, R, 0)
<1>1. PICK e : e = <<>>
  OBVIOUS
<1>2. e \in Seq(Ticks) /\ Len(e) = 0 /\ e \in Seq({})
  BY <1>1
<1>3. FedFit(f, k, 0, e)
  BY <1>2 DEF FedFit, Ordered
<1>4. TapesFit(f, 0, e, e)
  BY <1>2 DEF TapesFit
<1>5. BarsFit(e, e, NoGenerator)
  BY <1>1 DEF BarsFit
<1>6. 0 \in 0..Len(f)
  OBVIOUS
<1> QED
  BY <1>1, <1>3, <1>4, <1>5, <1>6 DEF Fits, Untold

LEMMA InitInv == Init => Inv
<1> SUFFICES ASSUME Init PROVE Inv
  OBVIOUS
<1>1. Threads /\ Market
  BY DEF Init, Threads, Market
<1>2. Unpublished
  BY DEF Init, Unpublished
<1>3. Subscribed
  <2>1. IsFiniteSet(wants)
    BY FS_EmptySet DEF Init
  <2> QED
    BY <2>1 DEF Init, Subscribed
<1>4. DayBegins
  <2>1. IsData(data)
    BY DEF Init, IsData, NoFiles
  <2>2. \A c \in Codes : Untold(data, c)
    BY DEF Init, Untold, NoFiles
  <2> QED
    BY <2>1, <2>2 DEF Init, DayBegins
<1>5. DayGoesOn
  BY DEF Init, DayGoesOn
<1>6. DayIsOver
  BY <1>2 DEF DayIsOver
<1> QED
  BY <1>1, <1>3, <1>4, <1>5, <1>6 DEF Inv

-----------------------------------------------------------------------------
(* The main thread keeps the invariant. *)

LEMMA StartKeeps ==
  ASSUME Inv, Start
  PROVE  Inv'
<1>1. /\ main = "idle" /\ rt = "off" /\ state = "idle"
      /\ main' = "started" /\ rt' = "init" /\ state' = state /\ finished' = finished
      /\ pending' = pending /\ index' = index /\ listed' = listed /\ count' = count
      /\ receivers' = receivers /\ data' = data
      /\ files' \in Files /\ wants' \in Strategies /\ knew' = Known(data)
  BY DEF Inv, Threads, Market, Start, Known, marketVars, engineVars
<1>2. Threads' /\ Market'
  BY <1>1 DEF Inv, Threads, Market
<1>3. Unpublished /\ Unpublished'
  BY <1>1 DEF Unpublished
<1>4. Subscribed'
  <2>1. IsFiniteSet(wants') /\ \A r \in wants' : r.code \in Codes
    BY <1>1, MarketAssumption
  <2> QED
    BY <1>1, <2>1 DEF Inv, Subscribed
<1>5. DayBegins'
  BY <1>1, <1>3 DEF Inv, DayBegins, Untold, IsData, Known
<1>6. DayGoesOn'
  BY <1>1 DEF DayGoesOn
<1>7. DayIsOver'
  BY <1>3 DEF DayIsOver
<1> QED
  BY <1>2, <1>4, <1>5, <1>6, <1>7 DEF Inv

LEMMA PlayKeeps ==
  ASSUME Inv, Play
  PROVE  Inv'
<1>1. /\ main = "started" /\ state = "idle" /\ rt \in {"init", "running"}
      /\ main' = "waiting" /\ rt' = rt /\ state' = "loading" /\ finished' = FALSE
      /\ pending' = pending /\ index' = index /\ listed' = listed /\ count' = count
      /\ receivers' = receivers /\ data' = data
      /\ files' = files /\ wants' = wants /\ knew' = knew
  BY DEF Inv, Threads, Market, Play, dayVars, engineVars
<1>2. Threads' /\ Market'
  BY <1>1 DEF Inv, Threads, Market
<1>3. Unpublished /\ Unpublished'
  BY <1>1 DEF Unpublished
<1>4. Subscribed'
  BY <1>1 DEF Inv, Subscribed, Registered
<1>5. DayBegins'
  BY <1>1, <1>3 DEF Inv, DayBegins, Untold, IsData, Known
<1>6. DayGoesOn'
  BY <1>1 DEF DayGoesOn
<1>7. DayIsOver'
  BY <1>3 DEF DayIsOver
<1> QED
  BY <1>2, <1>4, <1>5, <1>6, <1>7 DEF Inv

LEMMA StopServiceKeeps ==
  ASSUME Inv, StopService
  PROVE  Inv'
<1>1. /\ main = "waiting" /\ state = "idle" /\ rt = "running"
      /\ main' = "joining" /\ rt' = rt /\ state' = state /\ finished' = finished
      /\ pending' = pending /\ index' = index /\ listed' = listed /\ count' = count
      /\ receivers' = receivers /\ data' = data
      /\ files' = files /\ wants' = wants /\ knew' = knew
  BY DEF Inv, Market, StopService, dayVars, marketVars, engineVars
<1>2. Threads' /\ Market'
  BY <1>1 DEF Inv, Threads, Market
<1>3. ~Unpublished /\ ~Unpublished'
  BY <1>1 DEF Unpublished
<1>4. Subscribed'
  BY <1>1 DEF Inv, Subscribed
<1>5. DayBegins'
  BY <1>1, <1>3 DEF Inv, DayBegins, IsData
<1>6. DayGoesOn'
  BY <1>1 DEF DayGoesOn
<1>7. DayIsOver'
  <2>1. \A c \in Registered : AllTaken(c)
    BY <1>1, <1>3 DEF Inv, DayIsOver
  <2>2. Registered' = Registered
    BY <1>1 DEF Registered
  <2>3. \A c \in Registered : AllTaken(c)'
    BY <1>1, <2>1 DEF AllTaken
  <2> QED
    BY <2>2, <2>3 DEF DayIsOver
<1> QED
  BY <1>2, <1>4, <1>5, <1>6, <1>7 DEF Inv

LEMMA JoinedKeeps ==
  ASSUME Inv, Joined
  PROVE  Inv'
<1>1. /\ main = "joining" /\ rt = "off" /\ state = "idle"
      /\ main' = "idle" /\ rt' = rt /\ state' = state /\ finished' = finished
      /\ pending' = pending /\ index' = index /\ listed' = listed /\ count' = count
      /\ receivers' = receivers /\ data' = data /\ wants' = {}
  BY DEF Inv, Market, Joined, marketVars, engineVars
<1>2. Threads' /\ Market'
  BY <1>1 DEF Inv, Threads, Market
<1>3. Unpublished /\ Unpublished'
  BY <1>1 DEF Unpublished
<1>4. Subscribed'
  <2>1. IsFiniteSet(wants') /\ \A r \in wants' : r.code \in Codes
    BY <1>1, FS_EmptySet
  <2> QED
    BY <1>1, <2>1 DEF Inv, Subscribed
<1>5. DayBegins'
  BY <1>1, <1>3 DEF Inv, DayBegins, Untold, IsData
<1>6. DayGoesOn'
  BY <1>1 DEF DayGoesOn
<1>7. DayIsOver'
  BY <1>3 DEF DayIsOver
<1> QED
  BY <1>2, <1>4, <1>5, <1>6, <1>7 DEF Inv

-----------------------------------------------------------------------------
(* So does the real-time thread. *)

LEMMA CountedIs ==
  ASSUME NEW S, IsFiniteSet(S), NEW c, NEW n \in Nat
  PROVE  Counted(n, c, S) \in Nat /\ ((\E r \in S : r.code = c) => Counted(n, c, S) > 0)
<1>1. PICK T : T = {r \in S : r.code = c}
  OBVIOUS
<1>2. IsFiniteSet(T) /\ Cardinality(T) \in Nat
  BY <1>1, FS_Subset, FS_CardinalityType
<1>3. (\E r \in S : r.code = c) => Cardinality(T) # 0
  BY <1>1, <1>2, FS_EmptySet
<1>4. Counted(n, c, S) = n + Cardinality(T)
  BY <1>1 DEF Counted
<1> QED
  BY <1>2, <1>3, <1>4

LEMMA OnInitKeeps ==
  ASSUME Inv, OnInit
  PROVE  Inv'
<1>1. /\ rt = "init" /\ main \in {"started", "waiting"} /\ rt' = "running" /\ main' = main
      /\ main = "started" => state = "idle"
      /\ main = "waiting" => state = "loading" /\ ~finished
      /\ state' = state /\ finished' = finished /\ pending' = pending /\ index' = index
      /\ wants' = wants /\ receivers' = wants /\ files' = files /\ knew' = knew
      /\ count' = [c \in Codes |-> Counted(count[c], c, wants)]
      /\ listed' = listed \cup {c \in Codes : count'[c] > 0}
      /\ data' = [data EXCEPT !.clock = 0]
  BY DEF Inv, Threads, Market, OnInit, dayVars
<1>2. Threads' /\ Market'
  BY <1>1 DEF Inv, Threads, Market
<1>3. Unpublished /\ Unpublished'
  BY <1>1 DEF Unpublished
<1>4. Subscribed'
  <2>1. IsFiniteSet(wants) /\ count \in [Codes -> Nat] /\ listed \subseteq Codes
        /\ \A r \in wants : r.code \in Codes
    BY DEF Inv, Subscribed
  <2>2. count' \in [Codes -> Nat]
    BY <1>1, <2>1, CountedIs
  <2>3. ASSUME NEW r \in wants PROVE r.code \in listed'
    <3>1. PICK c \in Codes : c = r.code
      BY <2>1
    <3>2. count'[c] > 0
      BY <1>1, <2>1, <3>1, CountedIs
    <3> QED
      BY <1>1, <3>1, <3>2
  <2>4. Registered' \subseteq listed'
    BY <1>1, <2>3 DEF Registered
  <2>5. listed' \subseteq Codes
    BY <1>1, <2>1
  <2> QED
    BY <1>1, <2>1, <2>2, <2>4, <2>5 DEF Subscribed
<1>5. DayBegins'
  <2>1. IsData(data) /\ files \in Files /\ (\A c \in Codes : Untold(data, c)) /\ knew = Known(data)
    BY <1>1, <1>3 DEF Inv, DayBegins
  <2>2. PICK prev, gen, fed, tapes, bars :
          prev = data.prev /\ gen = data.gen /\ fed = data.fed /\ tapes = data.tapes
          /\ bars = data.bars
    OBVIOUS
  <2>3. data' = [clock |-> 0, prev |-> prev, gen |-> gen, fed |-> fed, tapes |-> tapes,
                 bars |-> bars]
    BY <1>1, <2>1, <2>2 DEF IsData
  <2>4. data'.clock = 0 /\ data'.prev = prev /\ data'.gen = gen /\ data'.fed = fed
        /\ data'.tapes = tapes /\ data'.bars = bars
    BY <2>3
  <2>5. IsData(data')
    BY <2>1, <2>2, <2>3, <2>4 DEF IsData
  <2>6. \A c \in Codes : Untold(data', c)
    BY <2>1, <2>2, <2>4 DEF Untold
  <2>7. Known(data') = Known(data)
    BY <2>2, <2>4 DEF Known
  <2> QED
    BY <1>1, <2>1, <2>4, <2>5, <2>6, <2>7 DEF DayBegins
<1>6. DayGoesOn'
  BY <1>1 DEF DayGoesOn
<1>7. DayIsOver'
  BY <1>3 DEF DayIsOver
<1> QED
  BY <1>2, <1>4, <1>5, <1>6, <1>7 DEF Inv

LEMMA LoadDataKeeps ==
  ASSUME Inv, LoadData
  PROVE  Inv'
<1>1. /\ rt = "running" /\ main = "waiting" /\ state = "loading" /\ ~finished /\ index = 0
      /\ rt' = rt /\ main' = main /\ state' = "publish" /\ finished' = finished
      /\ pending' = Sorted(DayTicks(files, listed)) /\ index' = index /\ listed' = listed
      /\ wants' = wants /\ files' = files /\ knew' = knew
      /\ receivers' = receivers /\ count' = count /\ data' = data
  BY DEF Inv, Market, LoadData, DayTicks, threadVars, dayVars, engineVars
<1>2. Threads' /\ Market'
  BY <1>1 DEF Inv, Threads, Market
<1>3. Unpublished /\ ~Unpublished'
  BY <1>1 DEF Unpublished
<1>4. Subscribed'
  BY <1>1 DEF Inv, Subscribed, Registered
<1>5. DayBegins'
  BY <1>1, <1>3 DEF Inv, DayBegins, IsData
<1>6. DayGoesOn'
  <2>1. /\ files \in Files /\ listed \subseteq Codes /\ IsData(data) /\ data.clock = 0
        /\ knew = Known(data) /\ \A c \in Codes : Untold(data, c)
    BY <1>1, <1>3 DEF Inv, DayBegins, Subscribed
  <2>2. InOrder(pending', DayTicks(files, listed))
    BY <1>1, <2>1, DayIsKeyed, SortedInOrder
  <2>3. Published'
    BY <1>1, <2>1, <2>2 DEF Published
  <2>4. ASSUME NEW c \in listed
        PROVE  \E n \in 0..Len(files[c]) :
                 /\ Fits(data, c, files[c], c \in knew, receivers, n)
                 /\ Reached(pending', 0, c, files[c], n)
    <3>1. c \in Codes /\ files[c] \in Seq(Ticks)
      BY <2>1, FilesAreDayFiles DEF DayFile
    <3>2. PICK f : f = files[c] /\ f \in Seq(Ticks)
      BY <3>1
    <3>3. c \in knew <=> data.prev[c] # NoTick
      BY <2>1, <3>1 DEF Known
    <3>4. Fits(data, c, f, c \in knew, receivers, 0)
      BY <2>1, <3>1, <3>2, <3>3, FitsNothing
    <3>5. Reached(pending', 0, c, f, 0)
      BY DEF Reached
    <3>6. 0 \in 0..Len(f)
      BY <3>2
    <3> QED
      BY <3>2, <3>4, <3>5, <3>6
  <2>5. Taken(data, index)'
    BY <1>1, <2>1, <2>4 DEF Taken
  <2>6. index' \in 0..Len(pending')
    <3>1. pending' \in Seq(DayTicks(files, listed))
      BY <2>2 DEF InOrder
    <3> QED
      BY <1>1, <3>1
  <2> QED
    BY <1>1, <2>3, <2>5, <2>6 DEF DayGoesOn
<1>7. DayIsOver'
  BY <1>1 DEF DayIsOver
<1> QED
  BY <1>2, <1>4, <1>5, <1>6, <1>7 DEF Inv

\* When all pending ticks have been handled, so have all ticks of the files.
LEMMA AllAreTaken ==
  ASSUME Published, NEW x, Taken(x, Len(pending)), Len(pending) > 0, NEW c \in listed
  PROVE  /\ Fits(x, c, files[c], c \in knew, receivers, Len(files[c]))
         /\ \A j \in 1..Len(files[c]) : files[c][j].time <= x.clock
<1>1. PICK len \in Nat : len = Len(pending) /\ len > 0
  BY PendingTimes
<1>2. PICK f : f = files[c]
  OBVIOUS
<1>3. DayFile(c, f) /\ Len(f) \in Nat
  <2>1. DayFile(c, f)
    BY <1>2, FilesAreDayFiles DEF Published
  <2> QED
    BY <2>1 DEF DayFile
<1>4. PICK n \in 0..Len(f) :
        Fits(x, c, f, c \in knew, receivers, n) /\ Reached(pending, len, c, f, n)
  BY <1>1, <1>2 DEF Taken
<1>5. \A j \in 1..Len(f) : \E i \in 1..len : pending[i] = f[j] /\ pending[i].code = c
  <2> SUFFICES ASSUME NEW j \in 1..Len(f)
               PROVE  \E i \in 1..len : pending[i] = f[j] /\ pending[i].code = c
    OBVIOUS
  <2>1. f[j] \in DayTicks(files, listed) /\ f[j].code = c
    BY <1>2, <1>3, DayTicksAre, FileTick DEF Published
  <2> QED
    BY <1>1, <2>1 DEF Published, InOrder
<1>6. n = Len(f)
  <2> SUFFICES ASSUME n < Len(f) PROVE FALSE
    BY <1>3
  <2>1. n + 1 \in 1..Len(f)
    BY <1>3
  <2>2. PICK i \in 1..len : pending[i] = f[n + 1] /\ pending[i].code = c
    BY <1>5, <2>1
  <2>3. PICK j \in 1..n : f[n + 1] = f[j]
    BY <1>4, <2>2 DEF Reached
  <2>4. j \in 1..Len(f) /\ j < n + 1 /\ f[j].time \in Nat
    BY <1>3, <2>1, FileTick
  <2>5. f[j].time < f[n + 1].time
    BY <1>3, <2>1, <2>4 DEF DayFile
  <2> QED
    BY <2>3, <2>4, <2>5
<1>7. x.clock = pending[len].time
  BY <1>1 DEF Taken
<1>8. ASSUME NEW j \in 1..Len(f) PROVE f[j].time <= x.clock
  <2>1. PICK i \in 1..len : pending[i] = f[j]
    BY <1>5
  <2>2. len \in 1..len /\ pending[i].time \in Nat
    BY <1>1, PendingTimes
  <2>3. i < len => pending[i].time <= pending[len].time
    BY <1>1, <2>2, PendingTimes
  <2>4. i = len => pending[i].time <= pending[len].time
    BY <2>2
  <2>5. i < len \/ i = len
    OBVIOUS
  <2> QED
    BY <1>7, <2>1, <2>3, <2>4, <2>5
<1> QED
  BY <1>2, <1>4, <1>6, <1>8

LEMMA PublishTickKeeps ==
  ASSUME Inv, PublishTick
  PROVE  Inv'
<1>1. /\ rt = "running" /\ main = "waiting" /\ state = "publish" /\ index < Len(pending)
      /\ rt' = rt /\ main' = main /\ wants' = wants /\ files' = files /\ knew' = knew
      /\ receivers' = receivers /\ count' = count
  BY DEF Inv, Market, PublishTick, threadVars, dayVars, engineVars
<1>2. PICK last : last = LastNow(index)
  OBVIOUS
<1>3. PICK y : y = Handled(data, SubSeq(pending, index + 1, last))
  OBVIOUS
<1>4. data' = y /\ FinishPublish(last)
  BY <1>2, <1>3 DEF PublishTick, LastNow, Handled
<1>5. Published /\ index \in 0..Len(pending) /\ Taken(data, index)
  BY <1>1 DEF Inv, DayGoesOn
<1>6. PICK len \in Nat : len = Len(pending)
  BY <1>5, PendingTimes
<1>7. /\ last \in (index + 1)..Len(pending) /\ Taken(y, last)
      /\ \A i \in (last + 1)..Len(pending) : y.clock < pending[i].time
  <2>1. index \in Nat
    BY <1>5, <1>6
  <2> QED
    BY <1>1, <1>2, <1>3, <1>5, <2>1, TakesThoseOfOneTime
<1>8. IsData(y) /\ ~Unpublished
  BY <1>1, <1>7 DEF Taken, Unpublished
<1>9. /\ finished \in BOOLEAN /\ ~finished /\ Registered \subseteq listed /\ listed \subseteq Codes
      /\ files \in Files /\ Registered' = Registered
  BY <1>1 DEF Inv, Market, Subscribed, DayBegins, Registered
<1>10. CASE last < Len(pending)
  <2>1. index' = last /\ pending' = pending /\ listed' = listed /\ finished' = finished
        /\ state' = state
    BY <1>4, <1>10 DEF FinishPublish
  <2>2. Threads' /\ Market'
    BY <1>1, <2>1 DEF Inv, Threads, Market
  <2>3. Subscribed'
    BY <1>1, <1>9, <2>1 DEF Inv, Subscribed
  <2>4. ~Unpublished'
    BY <1>1, <2>1 DEF Unpublished
  <2>5. IsData(data')
    BY <1>4, <1>8
  <2>6. DayBegins'
    BY <1>1, <1>9, <2>4, <2>5 DEF DayBegins
  <2>7. DayGoesOn'
    <3>1. Published'
      BY <1>1, <1>5, <2>1 DEF Published
    <3>2. Taken(data', last)
      BY <1>4, <1>7
    <3>3. Taken(data, index)'
      BY <1>1, <2>1, <3>2 DEF Taken
    <3>4. index' \in 0..Len(pending')
      BY <1>5, <1>6, <1>7, <2>1
    <3>5. \A i \in (index' + 1)..Len(pending') : data'.clock < pending'[i].time
      BY <1>4, <1>7, <2>1
    <3> QED
      BY <3>1, <3>3, <3>4, <3>5 DEF DayGoesOn
  <2>8. DayIsOver'
    BY <1>1, <2>1 DEF DayIsOver
  <2> QED
    BY <2>2, <2>3, <2>6, <2>7, <2>8 DEF Inv
<1>11. CASE ~(last < Len(pending))
  <2>1. index' = 0 /\ pending' = <<>> /\ listed' = {} /\ finished' = TRUE /\ state' = "idle"
    BY <1>4, <1>11 DEF FinishPublish
  <2>2. Threads' /\ Market'
    BY <1>1, <2>1 DEF Inv, Threads, Market
  <2>3. Subscribed'
    BY <1>1, <2>1 DEF Inv, Subscribed
  <2>4. ~Unpublished'
    BY <1>1, <2>1 DEF Unpublished
  <2>5. IsData(data')
    BY <1>4, <1>8
  <2>6. DayBegins'
    BY <1>1, <1>9, <2>4, <2>5 DEF DayBegins
  <2>7. DayGoesOn'
    BY <2>1 DEF DayGoesOn
  <2>8. DayIsOver'
    <3>1. last = Len(pending) /\ Len(pending) > 0
      BY <1>5, <1>6, <1>7, <1>11
    <3>2. Taken(y, Len(pending))
      BY <1>7, <3>1
    <3>3. ASSUME NEW c \in Registered PROVE AllTaken(c)'
      <4>1. c \in listed
        BY <1>9
      <4>2. /\ Fits(y, c, files[c], c \in knew, receivers, Len(files[c]))
            /\ \A j \in 1..Len(files[c]) : files[c][j].time <= y.clock
        BY <1>5, <3>1, <3>2, <4>1, AllAreTaken
      <4> QED
        BY <1>1, <1>4, <4>2 DEF AllTaken
    <3> QED
      BY <1>9, <3>3 DEF DayIsOver
  <2> QED
    BY <2>2, <2>3, <2>6, <2>7, <2>8 DEF Inv
<1> QED
  BY <1>10, <1>11

LEMMA UncountedIs ==
  ASSUME NEW n \in [Codes -> Nat], NEW r, r.code \in Codes
  PROVE  Uncounted(n, r) \in [Codes -> Nat]
<1>1. PICK c \in Codes : c = r.code
  OBVIOUS
<1>2. PICK least \in 0..1 : least = IF r.feed = "tick" THEN 0 ELSE 1
  OBVIOUS
<1>3. PICK m \in Nat : m = IF n[c] > least THEN n[c] - 1 ELSE n[c]
  <2>1. n[c] \in Nat
    OBVIOUS
  <2> QED
    BY <2>1
<1>4. Uncounted(n, r) = [n EXCEPT ![c] = m]
  BY <1>1, <1>2, <1>3 DEF Uncounted
<1> QED
  BY <1>4

LEMMA CountsLeftAre ==
  ASSUME NEW n \in [Codes -> Nat], NEW R, IsFiniteSet(R), \A r \in R : r.code \in Codes,
         NEW order \in SetToSeqs(R)
  PROVE  CountsLeft(n, order) \in [Codes -> Nat]
<1>1. PICK d \in Nat : d = Cardinality(R)
  BY FS_CardinalityType
<1>2. order \in [1..d -> R]
  BY <1>1 DEF SetToSeqs
<1>3. DOMAIN order = 1..d
  BY <1>2
<1>4. PICK h : StepsOf("count", n, order, d, h) /\ CountsLeft(n, order) = h[d]
  BY <1>3, ReceiversUncounted
<1> DEFINE Bad == {j \in 0..d : h[j] \notin [Codes -> Nat]}
<1>5. Bad = {}
  <2>1. SUFFICES ASSUME Bad # {} PROVE FALSE
    OBVIOUS
  <2>2. PICK j \in Bad : \A i \in Bad : ~(i < j)
    <3>1. Bad \subseteq Nat
      OBVIOUS
    <3> HIDE DEF Bad
    <3> QED
      BY <2>1, <3>1, LeastNat
  <2>3. j # 0
    BY <1>4, <2>2 DEF StepsOf
  <2>4. j \in 1..d /\ h[j - 1] \in [Codes -> Nat]
    BY <2>2, <2>3
  <2>5. order[j].code \in Codes
    BY <1>2, <2>4
  <2>6. h[j] = Uncounted(h[j - 1], order[j])
    BY <1>4, <2>4 DEF StepsOf, Step
  <2>7. h[j] \in [Codes -> Nat]
    BY <2>4, <2>5, <2>6, UncountedIs
  <2> QED
    BY <2>2, <2>7
<1> QED
  BY <1>4, <1>5

LEMMA OnDestroyKeeps ==
  ASSUME Inv, OnDestroy
  PROVE  Inv'
<1>1. /\ rt = "running" /\ main = "joining" /\ rt' = "off" /\ main' = main /\ state = "idle"
      /\ state' = state /\ finished' = finished /\ pending' = pending /\ index' = index
      /\ wants' = wants /\ receivers' = {} /\ files' = files /\ knew' = knew
      /\ listed' \subseteq listed
      /\ data' = [data EXCEPT !.gen = [c \in Codes |-> NoGenerator],
                              !.fed = NoFiles, !.tapes = NoFiles, !.bars = NoFiles]
  BY DEF Inv, Market, OnDestroy, dayVars
<1>2. Threads' /\ Market'
  BY <1>1 DEF Inv, Threads, Market
<1>3. Unpublished'
  BY <1>1 DEF Unpublished
<1>4. Subscribed'
  <2>1. /\ IsFiniteSet(receivers) /\ receivers = wants /\ count \in [Codes -> Nat]
        /\ listed \subseteq Codes /\ \A r \in receivers : r.code \in Codes
    BY <1>1 DEF Inv, Subscribed
  <2>2. PICK order \in SetToSeqs(receivers) : count' = CountsLeft(count, order)
    BY DEF OnDestroy, CountsLeft
  <2>3. count' \in [Codes -> Nat]
    BY <2>1, <2>2, CountsLeftAre
  <2> QED
    BY <1>1, <2>1, <2>3 DEF Subscribed
<1>5. DayBegins'
  <2>1. IsData(data)
    BY DEF Inv, DayBegins
  <2>2. PICK clock, prev, gen, none :
          clock = data.clock /\ prev = data.prev /\ gen = [c \in Codes |-> NoGenerator]
          /\ none = NoFiles
    OBVIOUS
  <2>3. data' = [clock |-> clock, prev |-> prev, gen |-> gen, fed |-> none, tapes |-> none,
                 bars |-> none]
    BY <1>1, <2>1, <2>2 DEF IsData
  <2>4. data'.clock = clock /\ data'.prev = prev /\ data'.gen = gen /\ data'.fed = none
        /\ data'.tapes = none /\ data'.bars = none
    BY <2>3
  <2>5. none = [c \in Codes |-> <<>>]
    BY <2>2 DEF NoFiles
  <2>6. none = [c \in Codes |-> none[c]] /\ gen = [c \in Codes |-> gen[c]]
    BY <2>2, <2>5
  <2>7. IsData(data')
    BY <2>1, <2>2, <2>3, <2>4, <2>6 DEF IsData
  <2>8. \A c \in Codes : Untold(data', c)
    BY <2>2, <2>4, <2>5 DEF Untold
  <2> QED
    BY <1>1, <2>7, <2>8 DEF DayBegins
<1>6. DayGoesOn'
  BY <1>1 DEF DayGoesOn
<1>7. DayIsOver'
  BY <1>3 DEF DayIsOver
<1> QED
  BY <1>2, <1>4, <1>5, <1>6, <1>7 DEF Inv

LEMMA StutterKeeps ==
  ASSUME Inv, UNCHANGED vars
  PROVE  Inv'
<1>1. /\ main' = main /\ rt' = rt /\ state' = state /\ finished' = finished /\ listed' = listed
      /\ pending' = pending /\ index' = index /\ wants' = wants /\ files' = files
      /\ knew' = knew /\ receivers' = receivers /\ count' = count /\ data' = data
  BY DEF vars, threadVars, dayVars, marketVars, engineVars
<1>2. Threads' /\ Market' /\ (Unpublished' <=> Unpublished)
  BY <1>1 DEF Inv, Threads, Market, Unpublished
<1>3. Registered' = Registered /\ Known(data)' = Known(data)
  BY <1>1 DEF Registered, Known
<1>4. Subscribed' /\ DayBegins'
  BY <1>1, <1>2, <1>3 DEF Inv, Subscribed, DayBegins, IsData, Untold
<1>5. DayGoesOn'
  BY <1>1 DEF Inv, DayGoesOn, Published, Taken
<1>6. DayIsOver'
  BY <1>1, <1>2, <1>3 DEF Inv, DayIsOver, AllTaken
<1> QED
  BY <1>2, <1>4, <1>5, <1>6 DEF Inv

THEOREM Invariant == Spec => []Inv
<1>1. ASSUME Inv, [Next]_vars PROVE Inv'
  <2>1. Start \/ Play \/ StopService \/ Joined \/ OnInit \/ LoadData \/ PublishTick \/ OnDestroy
        \/ UNCHANGED vars
    BY <1>1 DEF Next, Main, RealTime
  <2> QED
    BY <1>1, <2>1, StartKeeps, PlayKeeps, StopServiceKeeps, JoinedKeeps, OnInitKeeps,
       LoadDataKeeps, PublishTickKeeps, OnDestroyKeeps, StutterKeeps
<1> QED
  BY <1>1, InitInv, PTL DEF Spec

-----------------------------------------------------------------------------
(* What follows for the data *)

\* While a day runs, the clock says how many of an instrument's ticks have been taken in.
LEMMA EachFits ==
  ASSUME Inv, rt = "running", NEW c \in Registered
  PROVE  /\ c \in Codes /\ DayFile(c, files[c])
         /\ \E n \in 0..Len(files[c]) :
              /\ Fits(data, c, files[c], c \in knew, receivers, n)
              /\ \A j \in 1..n : files[c][j].time <= data.clock
              /\ \A j \in (n + 1)..Len(files[c]) :
                   IsInTrading(files[c][j].time) => data.clock < files[c][j].time
              /\ main = "joining" => n = Len(files[c])
<1>1. PICK f : f = files[c]
  OBVIOUS
<1>2. c \in Codes /\ files \in Files
  BY DEF Inv, Subscribed, DayBegins, Registered
<1>3. DayFile(c, f) /\ Len(f) \in Nat
  <2>1. DayFile(c, f)
    BY <1>1, <1>2, FilesAreDayFiles
  <2> QED
    BY <2>1 DEF DayFile
<1>4. \A j \in 1..Len(f) : f[j].time \in Nat /\ (IsInTrading(f[j].time) => 0 < f[j].time)
  BY <1>3, FileTick, TradingIsLate
<1>5. CASE Unpublished
  <2>1. Untold(data, c) /\ knew = Known(data) /\ data.clock = 0 /\ main # "joining"
    BY <1>2, <1>5 DEF Inv, DayBegins, Unpublished, Market
  <2>2. c \in knew <=> data.prev[c] # NoTick
    BY <1>2, <2>1 DEF Known
  <2>3. f \in Seq(Ticks)
    BY <1>3 DEF DayFile
  <2>4. Fits(data, c, f, c \in knew, receivers, 0)
    BY <2>1, <2>2, <2>3, FitsNothing
  <2>5. 0 \in 0..Len(f) /\ \A j \in (0 + 1)..Len(f) : j \in 1..Len(f)
    BY <1>3
  <2> QED
    BY <1>1, <1>2, <1>3, <1>4, <2>1, <2>4, <2>5
<1>6. CASE ~Unpublished /\ state = "idle"
  <2>1. AllTaken(c)
    BY <1>6 DEF Inv, DayIsOver
  <2>2. Len(f) \in 0..Len(f) /\ \A j \in (Len(f) + 1)..Len(f) : FALSE
    BY <1>3
  <2> QED
    BY <1>1, <1>2, <1>3, <2>1, <2>2 DEF AllTaken
<1>7. CASE ~Unpublished /\ state # "idle"
  <2>1. state = "publish" /\ main = "waiting"
    BY <1>7 DEF Inv, Market, Unpublished
  <2>2. Published /\ index \in 0..Len(pending) /\ Taken(data, index) /\ c \in listed
    BY <2>1 DEF Inv, DayGoesOn, Subscribed
  <2>3. PICK k \in Nat : k = index /\ k <= Len(pending)
    BY <2>2, PendingTimes
  <2>4. PICK n \in 0..Len(f) :
          Fits(data, c, f, c \in knew, receivers, n) /\ Reached(pending, k, c, f, n)
    BY <1>1, <2>2, <2>3 DEF Taken
  <2>5. ASSUME NEW j \in 1..n PROVE f[j].time <= data.clock
    <3>1. PICK i \in 1..k : pending[i] = f[j]
      BY <2>4 DEF Reached
    <3>2. k > 0 /\ i \in 1..Len(pending) /\ k \in 1..Len(pending)
      BY <2>3, PendingTimes
    <3>3. data.clock = pending[k].time
      BY <2>2, <2>3, <3>2 DEF Taken
    <3>4. pending[i].time \in Nat /\ (i < k => pending[i].time <= pending[k].time)
      BY <2>2, <3>2, PendingTimes
    <3>5. i = k => pending[i].time <= pending[k].time
      BY <3>4
    <3>6. i < k \/ i = k
      OBVIOUS
    <3> QED
      BY <3>1, <3>3, <3>4, <3>5, <3>6
  <2>6. ASSUME NEW j \in (n + 1)..Len(f), IsInTrading(f[j].time) PROVE data.clock < f[j].time
    <3>1. j \in 1..Len(f) /\ n < j
      BY <1>3
    <3>2. CASE k = 0
      <4>1. data.clock = 0
        BY <2>2, <2>3, <3>2 DEF Taken
      <4>2. 0 < f[j].time
        BY <1>4, <2>6, <3>1
      <4> QED
        BY <4>1, <4>2
    <3>3. CASE k > 0
      <4>1. f[j].code = c /\ f[j].time \in Nat
        BY <1>3, <3>1, FileTick
      <4>2. f[j] \in DayTicks(files, listed)
        BY <1>1, <2>2, <3>1, DayTicksAre DEF Published
      <4>3. PICK i \in 1..Len(pending) : pending[i] = f[j]
        BY <2>2, <4>2 DEF Published, InOrder
      <4>4. i \notin 1..k
        <5> SUFFICES ASSUME i \in 1..k PROVE FALSE
          OBVIOUS
        <5>1. PICK m \in 1..n : f[j] = f[m]
          BY <2>4, <4>1, <4>3 DEF Reached
        <5>2. m \in 1..Len(f) /\ m < j
          BY <1>3, <3>1
        <5>3. f[m].time < f[j].time
          BY <1>3, <3>1, <5>2 DEF DayFile
        <5> QED
          BY <4>1, <5>1, <5>3
      <4>5. i \in (k + 1)..Len(pending)
        BY <2>3, <4>4, PendingTimes
      <4>6. data.clock < pending[i].time
        BY <2>1, <2>3, <3>3, <4>5 DEF Inv, DayGoesOn
      <4> QED
        BY <4>3, <4>6
    <3> QED
      BY <3>2, <3>3
  <2> QED
    BY <1>1, <1>2, <1>3, <2>1, <2>4, <2>5, <2>6
<1> QED
  BY <1>5, <1>6, <1>7

LEMMA InvFeeds == Inv => DayIsFed
<1> SUFFICES ASSUME Inv, rt = "running", NEW c \in Registered
             PROVE  /\ \A i, j \in 1..Len(data.fed[c]) :
                         i < j => data.fed[c][i].time < data.fed[c][j].time
                    /\ ToSet(data.fed[c]) = {t \in Due(c) : t.time <= data.clock}
                    /\ main = "joining" => ToSet(data.fed[c]) = Due(c)
  BY DEF DayIsFed
<1>1. PICK f, fed : f = files[c] /\ fed = data.fed[c]
  OBVIOUS
<1>2. PICK n \in 0..Len(f) :
        /\ FedFit(f, c \in knew, n, fed)
        /\ \A j \in 1..n : f[j].time <= data.clock
        /\ \A j \in (n + 1)..Len(f) : IsInTrading(f[j].time) => data.clock < f[j].time
        /\ main = "joining" => n = Len(f)
  BY <1>1, EachFits DEF Fits
<1>3. fed \in Seq(Ticks) /\ Ordered(fed)
  BY <1>2 DEF FedFit
<1>4. DayFile(c, f) /\ Len(f) \in Nat /\ data.clock \in Nat
  <2>1. DayFile(c, f)
    BY <1>1, EachFits
  <2> QED
    BY <2>1 DEF DayFile, Inv, DayBegins, IsData
<1>5. \A t : t \in ToSet(fed) <=> \E i \in 1..Len(fed) : t = fed[i]
  <2>1. DOMAIN fed = 1..Len(fed)
    BY <1>3
  <2> QED
    BY <2>1 DEF ToSet
<1>6. \A t : t \in Due(c) <=> \E j \in 1..Len(f) : t = f[j] /\ IsDue(f, c \in knew, j)
  BY <1>1 DEF Due, IsDue
<1>7. ASSUME NEW t PROVE t \in ToSet(fed) <=> \E j \in 1..n : t = f[j] /\ IsDue(f, c \in knew, j)
  <2>1. \A i \in 1..Len(fed) : \E j \in 1..n : fed[i] = f[j] /\ IsDue(f, c \in knew, j)
    BY <1>2 DEF FedFit
  <2>2. \A j \in 1..n : IsDue(f, c \in knew, j) => \E i \in 1..Len(fed) : fed[i] = f[j]
    BY <1>2 DEF FedFit
  <2>3. t \in ToSet(fed) => \E j \in 1..n : t = f[j] /\ IsDue(f, c \in knew, j)
    BY <1>5, <2>1
  <2>4. ASSUME NEW j \in 1..n, t = f[j], IsDue(f, c \in knew, j) PROVE t \in ToSet(fed)
    <3>1. PICK i \in 1..Len(fed) : fed[i] = f[j]
      BY <2>2, <2>4
    <3> QED
      BY <1>5, <2>4, <3>1
  <2> QED
    BY <2>3, <2>4
<1>8. \A j \in 1..n : j \in 1..Len(f)
  BY <1>4
<1>9. ASSUME NEW j \in 1..Len(f), IsDue(f, c \in knew, j)
      PROVE  f[j].time <= data.clock <=> j \in 1..n
  <2>1. f[j].time \in Nat
    BY <1>4, FileTick
  <2>2. j \in 1..n \/ j \in (n + 1)..Len(f)
    BY <1>4
  <2>3. IsInTrading(f[j].time)
    BY <1>9 DEF IsDue
  <2>4. j \in (n + 1)..Len(f) => ~(f[j].time <= data.clock)
    <3>1. j \in (n + 1)..Len(f) => data.clock < f[j].time
      BY <1>2, <2>3
    <3> QED
      BY <1>4, <2>1, <3>1
  <2>5. j \in 1..n => f[j].time <= data.clock
    BY <1>2
  <2> QED
    BY <2>2, <2>4, <2>5
<1>10. ToSet(fed) = {t \in Due(c) : t.time <= data.clock}
  <2>1. ASSUME NEW t \in ToSet(fed) PROVE t \in Due(c) /\ t.time <= data.clock
    <3>1. PICK j \in 1..n : t = f[j] /\ IsDue(f, c \in knew, j)
      BY <1>7
    <3> QED
      BY <1>2, <1>6, <1>8, <3>1
  <2>2. ASSUME NEW t \in Due(c), t.time <= data.clock PROVE t \in ToSet(fed)
    <3>1. PICK j \in 1..Len(f) : t = f[j] /\ IsDue(f, c \in knew, j)
      BY <1>6
    <3>2. j \in 1..n
      BY <1>9, <2>2, <3>1
    <3> QED
      BY <1>7, <3>1, <3>2
  <2> QED
    BY <2>1, <2>2
<1>11. main = "joining" => ToSet(fed) = Due(c)
  BY <1>2, <1>6, <1>7
<1>12. \A i, j \in 1..Len(fed) : i < j => fed[i].time < fed[j].time
  BY <1>3 DEF Ordered
<1> QED
  BY <1>1, <1>10, <1>11, <1>12

LEMMA InvTellsTapes == Inv => TapesTellTrades
<1> SUFFICES ASSUME Inv, NEW c \in Registered, Receives("tape", c)
             PROVE  /\ Len(data.tapes[c]) = Len(data.fed[c])
                    /\ \A i \in 1..Len(data.tapes[c]) :
                         LET k == CHOOSE k \in 1..Len(files[c]) :
                                    files[c][k].time = data.tapes[c][i].time
                         IN  k > 1 => data.tapes[c][i].lots
                                        = files[c][k].volume - files[c][k - 1].volume
  BY DEF TapesTellTrades
<1>1. rt = "running"
  BY DEF Inv, Subscribed, Receives
<1>2. PICK f, tapes : f = files[c] /\ tapes = data.tapes[c]
  OBVIOUS
<1>3. PICK n \in 0..Len(f) : TapesFit(f, n, data.fed[c], tapes)
  BY <1>1, <1>2, EachFits DEF Fits, Hears, Receives
<1>4. DayFile(c, f) /\ Len(f) \in Nat
  <2>1. DayFile(c, f)
    BY <1>1, <1>2, EachFits
  <2> QED
    BY <2>1 DEF DayFile
<1>5. ASSUME NEW i \in 1..Len(tapes), NEW k,
             k = CHOOSE m \in 1..Len(f) : f[m].time = tapes[i].time, k > 1
      PROVE  tapes[i].lots = f[k].volume - f[k - 1].volume
  <2>1. PICK j \in 1..n : TapeFits(f, j, tapes[i])
    BY <1>3 DEF TapesFit
  <2>2. j \in 1..Len(f) /\ f[j].time = tapes[i].time
    BY <1>4, <2>1 DEF TapeFits
  <2>3. k \in 1..Len(f) /\ f[k].time = tapes[i].time
    BY <1>5, <2>2
  <2>4. f[j].time \in Nat /\ ~(f[j].time < f[k].time) /\ ~(f[k].time < f[j].time)
    BY <1>4, <2>2, <2>3, FileTick
  <2>5. ~(j < k) /\ ~(k < j)
    BY <1>4, <2>2, <2>3, <2>4 DEF DayFile
  <2>6. j = k
    BY <2>2, <2>3, <2>5
  <2> QED
    BY <1>5, <2>1, <2>6 DEF TapeFits
<1>6. Len(tapes) = Len(data.fed[c])
  BY <1>3 DEF TapesFit
<1>7. ASSUME NEW i \in 1..Len(tapes)
      PROVE  LET k == CHOOSE k \in 1..Len(f) : f[k].time = tapes[i].time
             IN  k > 1 => tapes[i].lots = f[k].volume - f[k - 1].volume
  <2>1. PICK k : k = CHOOSE m \in 1..Len(f) : f[m].time = tapes[i].time
    OBVIOUS
  <2> QED
    BY <1>5, <2>1
<1> QED
  BY <1>2, <1>6, <1>7

LEMMA InvMakesBars == Inv => BarsAreTheirTicks
<1> SUFFICES ASSUME Inv, NEW c \in Registered, Receives("bar", c)
             PROVE  /\ \A i \in 1..Len(AllBars(c)) - 1 :
                         AllBars(c)[i].time + Period <= AllBars(c)[i + 1].time
                    /\ UNION {In(data.fed[c], AllBars(c)[i]) : i \in 1..Len(AllBars(c))}
                         = 1..Len(data.fed[c])
                    /\ \A i \in 1..Len(AllBars(c)) : IsMadeOf(AllBars(c)[i], data.fed[c])
  BY DEF BarsAreTheirTicks
<1>1. rt = "running"
  BY DEF Inv, Subscribed, Receives
<1>2. PICK fed, bars, g : fed = data.fed[c] /\ bars = data.bars[c] /\ g = data.gen[c]
  OBVIOUS
<1>3. fed \in Seq(Ticks) /\ BarsFit(fed, bars, g)
  <2>1. Hears(receivers, "bar", c)
    BY DEF Hears, Receives
  <2> QED
    BY <1>1, <1>2, <2>1, EachFits DEF Fits, FedFit
<1>4. PICK all : all = AllBars(c)
  OBVIOUS
<1>5. CASE fed = <<>>
  <2>1. all = <<>>
    BY <1>2, <1>3, <1>4, <1>5 DEF BarsFit, AllBars, NoGenerator
  <2>2. Len(all) = 0 /\ Len(fed) = 0 /\ 1..0 = {}
    BY <1>5, <2>1
  <2> QED
    BY <1>2, <1>4, <2>2
<1>6. CASE fed # <<>>
  <2>1. PICK b \in Bars : b = g.bar
    BY <1>3, <1>6 DEF BarsFit
  <2>2. /\ bars \in Seq(Bars) /\ Made(b, fed, In(fed, b))
        /\ \A i \in 1..Len(bars) : /\ bars[i].time + Period <= b.time
                                   /\ Made(bars[i], fed, In(fed, bars[i]))
                                   /\ \A j \in 1..Len(bars) :
                                        i < j => bars[i].time + Period <= bars[j].time
        /\ \A i \in 1..Len(fed) : i \in In(fed, b) \/ \E j \in 1..Len(bars) : i \in In(fed, bars[j])
    BY <1>3, <1>6, <2>1 DEF BarsFit
  <2>3. b # NoBar
    <3>1. PICK i \in 1..Len(fed) : b.open = fed[i].price
      BY <2>2 DEF Made
    <3>2. fed[i] \in Ticks
      BY <1>3
    <3>3. b.open # 0
      BY <3>1, <3>2 DEF Ticks
    <3> QED
      BY <3>3 DEF NoBar
  <2>4. all = Append(bars, b)
    BY <1>2, <1>4, <2>1, <2>3 DEF AllBars
  <2>5. /\ Len(bars) \in Nat /\ Len(all) = Len(bars) + 1 /\ all[Len(bars) + 1] = b
        /\ \A i \in 1..Len(bars) : all[i] = bars[i]
    BY <2>2, <2>4, AppendProperties
  <2>6. PICK len \in Nat : len = Len(bars)
    BY <2>5
  <2>7. ASSUME NEW i \in 1..(Len(all) - 1) PROVE all[i].time + Period <= all[i + 1].time
    <3>1. i \in 1..len
      BY <2>5, <2>6
    <3>2. CASE i = len
      BY <2>2, <2>5, <2>6, <3>1, <3>2
    <3>3. CASE i < len
      <4>1. i + 1 \in 1..len /\ i < i + 1
        BY <3>1, <3>3
      <4> QED
        BY <2>2, <2>5, <2>6, <3>1, <4>1
    <3> QED
      BY <3>1, <3>2, <3>3
  <2>8. \A i \in 1..Len(all) : i \in 1..len \/ i = len + 1
    BY <2>5, <2>6
  <2>9. \A i \in 1..Len(all) : Made(all[i], fed, In(fed, all[i]))
    BY <2>2, <2>5, <2>6, <2>8
  <2>10. \A i \in 1..Len(all) : IsMadeOf(all[i], fed)
    BY <1>3, <2>9, MadeIs
  <2>11. UNION {In(fed, all[i]) : i \in 1..Len(all)} = 1..Len(fed)
    <3>1. ASSUME NEW m \in 1..Len(fed) PROVE \E i \in 1..Len(all) : m \in In(fed, all[i])
      <4>1. len + 1 \in 1..Len(all) /\ \A j \in 1..len : j \in 1..Len(all)
        BY <2>5, <2>6
      <4> QED
        BY <2>2, <2>5, <2>6, <4>1
    <3>2. \A i : In(fed, all[i]) \subseteq 1..Len(fed)
      BY DEF In
    <3> QED
      BY <3>1, <3>2
  <2> QED
    BY <1>2, <1>4, <2>7, <2>10, <2>11
<1> QED
  BY <1>5, <1>6

-----------------------------------------------------------------------------
(* The theorems *)

\* Whatever the files and the receivers, and whichever thread is first at a
\* day's start: the strategies' instruments are fed with the day's ticks in
\* trading hours, in their order, as the clock comes to them, and a day that
\* is declared finished has fed them all (evaluate_engine::back_test,
\* market_simulator::publish_tick, context::handle_tick).
THEOREM FeedsTheDay == Spec => []DayIsFed
BY Invariant, InvFeeds, PTL

\* A tape tells what was traded since the instrument's tick before, whether
\* that one was in trading hours or not (engine's callback for a tick).
THEOREM TapesAreTrades == Spec => []TapesTellTrades
BY Invariant, InvTellsTapes, PTL

\* A day's bars partition the ticks that were fed, and each is what the ticks
\* in its time make: prices, volume and point of control
\* (bar_generator::insert_tick).
THEOREM BarsAreMade == Spec => []BarsAreTheirTicks
BY Invariant, InvMakesBars, PTL
=============================================================================
