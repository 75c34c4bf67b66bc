------------------------------ MODULE SumProofs ------------------------------
(***************************************************************************)
(* What SumFunctionOnSet computes: the lemmas about sums over finite sets  *)
(* that the proofs about positions, money and bars rest on.  They are      *)
(* proved by a smallest counterexample, for which the library's theorems   *)
(* on well-founded relations need no operator as a parameter.              *)
(***************************************************************************)
EXTENDS Integers, FiniteSets, Functions, FiniteSetTheorems, WellFoundedInduction, TLAPS

Chosen(s) == CHOOSE x \in s : TRUE

\* The equation of the recursive function that SumFunctionOnSet is defined by.
Sums(g, f, S) ==
  g = [s \in SUBSET S |-> IF s = {} THEN 0 ELSE f[Chosen(s)] + g[s \ {Chosen(s)}]]

LEMMA SumIs ==
  ASSUME NEW f, NEW S
  PROVE  SumFunctionOnSet(f, S) = (CHOOSE g : Sums(g, f, S))[S]
BY DEF SumFunctionOnSet, FoldFunctionOnSet, MapThenFoldSet, Sums, Chosen

\* Induction over finite sets and naturals, as the existence of a smallest
\* counterexample.
LEMMA Smallest ==
  ASSUME NEW S, IsFiniteSet(S), NEW Bad, Bad \subseteq SUBSET S, Bad # {}
  PROVE  \E T \in Bad : \A x \in T : T \ {x} \notin Bad
<1>1. IsWellFoundedOn(StrictSubsetOrdering(S), FiniteSubsetsOf(S))
  BY FS_StrictSubsetOrderingWellFounded
<1>2. FiniteSubsetsOf(S) = SUBSET S
  BY FS_FiniteSubsetsOfFinite
<1>3. PICK T \in Bad : \A y \in Bad : ~(<<y, T>> \in StrictSubsetOrdering(S))
  BY <1>1, <1>2, WFMin
<1>4. ASSUME NEW x \in T, T \ {x} \in Bad PROVE FALSE
  BY <1>3, <1>4 DEF StrictSubsetOrdering
<1> QED
  BY <1>4

LEMMA LessThan == OpToRel(<, Nat) = {p \in Nat \X Nat : p[1] < p[2]}
BY Zenon DEF OpToRel

LEMMA LeastNat ==
  ASSUME NEW Bad, Bad \subseteq Nat, Bad # {}
  PROVE  \E n \in Bad : \A m \in Bad : ~(m < n)
<1> DEFINE R == {p \in Nat \X Nat : p[1] < p[2]}
<1>1. IsWellFoundedOn(R, Nat)
  BY NatLessThanWellFounded, LessThan
<1> HIDE DEF R
<1>2. PICK n \in Bad : \A m \in Bad : ~(<<m, n>> \in R)
  BY <1>1, WFMin
<1>3. \A m \in Bad : ~(m < n)
  BY <1>2 DEF R
<1> QED
  BY <1>3

\* The function exists: its values for the sets of up to n elements do, for
\* every n.
UpTo(n, g, f, S) ==
  /\ g = [s \in SUBSET S |-> g[s]]
  /\ \A s \in SUBSET S :
       Cardinality(s) <= n =>
         g[s] = IF s = {} THEN 0 ELSE f[Chosen(s)] + g[s \ {Chosen(s)}]

LEMMA ChosenIn == ASSUME NEW s, s # {} PROVE Chosen(s) \in s
BY DEF Chosen

LEMMA Smaller ==
  ASSUME NEW S, IsFiniteSet(S), NEW s \in SUBSET S, s # {}
  PROVE  /\ s \ {Chosen(s)} \in SUBSET S
         /\ Cardinality(s) \in Nat /\ Cardinality(s \ {Chosen(s)}) = Cardinality(s) - 1
<1>1. IsFiniteSet(s)
  BY FS_Subset
<1> QED
  BY <1>1, ChosenIn, FS_RemoveElement, FS_CardinalityType

LEMMA SumsUpTo ==
  ASSUME NEW f, NEW S, IsFiniteSet(S), NEW n \in Nat
  PROVE  \E g : UpTo(n, g, f, S)
<1> DEFINE Bad == {m \in Nat : ~\E g : UpTo(m, g, f, S)}
<1> SUFFICES ASSUME Bad # {} PROVE FALSE
  OBVIOUS
<1>1. PICK m \in Bad : \A k \in Bad : ~(k < m)
  <2>1. Bad \subseteq Nat
    OBVIOUS
  <2> HIDE DEF Bad
  <2> QED
    BY <2>1, LeastNat
<1>2. CASE m = 0
  <2> DEFINE g == [s \in SUBSET S |-> 0]
  <2>1. \A s \in SUBSET S : Cardinality(s) <= 0 => s = {}
    BY FS_EmptySet, FS_Subset, FS_CardinalityType
  <2>2. UpTo(0, g, f, S)
    BY <2>1 DEF UpTo
  <2> QED
    BY <1>2, <2>2
<1>3. CASE m # 0
  <2>1. m - 1 \in Nat /\ m - 1 \notin Bad
    BY <1>1, <1>3
  <2>2. PICK h : UpTo(m - 1, h, f, S)
    BY <2>1
  <2> DEFINE val(s) == IF s = {} THEN 0 ELSE f[Chosen(s)] + h[s \ {Chosen(s)}]
             g == [s \in SUBSET S |-> val(s)]
  <2>3. \A s \in SUBSET S : Cardinality(s) <= m - 1 => h[s] = val(s)
    BY <2>2 DEF UpTo
  <2>4. ASSUME NEW s \in SUBSET S, Cardinality(s) <= m, s # {}
        PROVE  g[s] = f[Chosen(s)] + g[s \ {Chosen(s)}]
    <3>1. s \ {Chosen(s)} \in SUBSET S /\ Cardinality(s \ {Chosen(s)}) <= m - 1
      BY <2>4, Smaller
    <3>2. h[s \ {Chosen(s)}] = val(s \ {Chosen(s)})
      BY <2>3, <3>1
    <3> QED
      BY <2>4, <3>1, <3>2
  <2>5. g = [s \in SUBSET S |-> g[s]] /\ g[{}] = 0
    OBVIOUS
  <2> HIDE DEF g
  <2>6. UpTo(m, g, f, S)
    BY <2>4, <2>5 DEF UpTo
  <2> QED
    BY <2>6
<1> QED
  BY <1>2, <1>3

LEMMA SumsExists ==
  ASSUME NEW f, NEW S, IsFiniteSet(S)
  PROVE  \E g : Sums(g, f, S)
<1> DEFINE n == Cardinality(S)
<1>1. n \in Nat /\ \A s \in SUBSET S : Cardinality(s) <= n
  BY FS_CardinalityType, FS_Subset
<1>2. PICK g : UpTo(n, g, f, S)
  BY <1>1, SumsUpTo
<1>3. Sums(g, f, S)
  BY <1>1, <1>2 DEF UpTo, Sums
<1> QED
  BY <1>3

\* Two of them agree where both are defined.
LEMMA SumsAgree ==
  ASSUME NEW f, NEW S, IsFiniteSet(S), NEW R, R \subseteq S,
         NEW g, Sums(g, f, S), NEW h, Sums(h, f, R)
  PROVE  g[R] = h[R]
<1> DEFINE Bad == {s \in SUBSET R : g[s] # h[s]}
<1>0. IsFiniteSet(R) /\ Bad \subseteq SUBSET R
  BY FS_Subset
<1>1. Bad = {}
  <2> SUFFICES ASSUME Bad # {} PROVE FALSE
    OBVIOUS
  <2>1. PICK s \in Bad : \A x \in s : s \ {x} \notin Bad
    <3> HIDE DEF Bad
    <3> QED
      BY <1>0, Smallest
  <2>2. s \in SUBSET R /\ s \in SUBSET S
    OBVIOUS
  <2>3. /\ g[s] = IF s = {} THEN 0 ELSE f[Chosen(s)] + g[s \ {Chosen(s)}]
        /\ h[s] = IF s = {} THEN 0 ELSE f[Chosen(s)] + h[s \ {Chosen(s)}]
    BY <2>2 DEF Sums
  <2>4. s # {} => g[s \ {Chosen(s)}] = h[s \ {Chosen(s)}]
    BY <2>1, <2>2, ChosenIn
  <2> QED
    BY <2>3, <2>4
<1> QED
  BY <1>1

LEMMA SumStep ==
  ASSUME NEW f, NEW S, IsFiniteSet(S)
  PROVE  SumFunctionOnSet(f, S) =
           IF S = {} THEN 0
           ELSE f[Chosen(S)] + SumFunctionOnSet(f, S \ {Chosen(S)})
<1> DEFINE R == S \ {Chosen(S)}
<1>1. IsFiniteSet(R) /\ R \subseteq S
  BY FS_Subset
<1> HIDE DEF R
<1>2. PICK g : Sums(g, f, S) /\ SumFunctionOnSet(f, S) = g[S]
  BY SumIs, SumsExists
<1>3. PICK h : Sums(h, f, R) /\ SumFunctionOnSet(f, R) = h[R]
  BY <1>1, SumIs, SumsExists
<1>4. g[R] = h[R]
  BY <1>1, <1>2, <1>3, SumsAgree
<1>5. g[S] = IF S = {} THEN 0 ELSE f[Chosen(S)] + g[R]
  BY <1>2 DEF Sums, R
<1> QED
  BY <1>2, <1>3, <1>4, <1>5 DEF R

-----------------------------------------------------------------------------
(* The sums themselves.  Where f is a function to Int on a finite set: *)

LEMMA SumEmpty == ASSUME NEW f PROVE SumFunctionOnSet(f, {}) = 0
BY SumStep, FS_EmptySet

LEMMA SumInt ==
  ASSUME NEW S, IsFiniteSet(S), NEW f, \A x \in S : f[x] \in Int
  PROVE  SumFunctionOnSet(f, S) \in Int
<1> DEFINE Bad == {T \in SUBSET S : SumFunctionOnSet(f, T) \notin Int}
<1> SUFFICES ASSUME Bad # {} PROVE FALSE
  OBVIOUS
<1>1. PICK T \in Bad : \A x \in T : T \ {x} \notin Bad
  <2>1. Bad \subseteq SUBSET S
    OBVIOUS
  <2> HIDE DEF Bad
  <2> QED
    BY <2>1, Smallest
<1>2. T \in SUBSET S /\ IsFiniteSet(T)
  BY FS_Subset
<1>3. T # {} => SumFunctionOnSet(f, T \ {Chosen(T)}) \in Int /\ f[Chosen(T)] \in Int
  BY <1>1, <1>2, ChosenIn
<1> QED
  BY <1>2, <1>3, SumStep

\* Any element can be taken out first.
LEMMA SumOut ==
  ASSUME NEW S, IsFiniteSet(S), NEW f, \A x \in S : f[x] \in Int, NEW y \in S
  PROVE  SumFunctionOnSet(f, S) = f[y] + SumFunctionOnSet(f, S \ {y})
<1> DEFINE sum(T) == SumFunctionOnSet(f, T)
           Bad == {T \in SUBSET S : \E x \in T : sum(T) # f[x] + sum(T \ {x})}
<1> HIDE DEF sum
<1>1. Bad = {}
  <2> SUFFICES ASSUME Bad # {} PROVE FALSE
    OBVIOUS
  <2>1. PICK T \in Bad : \A x \in T : T \ {x} \notin Bad
    <3>1. Bad \subseteq SUBSET S
      OBVIOUS
    <3> HIDE DEF Bad
    <3> QED
      BY <3>1, Smallest
  <2>2. PICK e \in T : sum(T) # f[e] + sum(T \ {e})
    OBVIOUS
  <2> DEFINE c == Chosen(T)
  <2>3. T \in SUBSET S /\ c \in T /\ IsFiniteSet(T)
    BY ChosenIn, FS_Subset
  <2>4. sum(T) = f[c] + sum(T \ {c})
    BY <2>3, SumStep DEF sum
  <2> HIDE DEF c
  <2>5. c # e
    BY <2>2, <2>4
  <2>6. sum(T \ {c}) = f[e] + sum((T \ {c}) \ {e})
    BY <2>1, <2>3, <2>5
  <2>7. sum(T \ {e}) = f[c] + sum((T \ {e}) \ {c})
    BY <2>1, <2>3, <2>5
  <2>8. (T \ {c}) \ {e} = (T \ {e}) \ {c}
    OBVIOUS
  <2>9. f[c] \in Int /\ f[e] \in Int /\ sum((T \ {e}) \ {c}) \in Int
    <3>1. (T \ {e}) \ {c} \in SUBSET S
      BY <2>3
    <3>2. IsFiniteSet((T \ {e}) \ {c})
      BY <3>1, FS_Subset
    <3> QED
      BY <2>3, <3>1, <3>2, SumInt DEF sum
  <2>10. sum((T \ {c}) \ {e}) = sum((T \ {e}) \ {c})
    BY <2>8
  <2> HIDE DEF Bad
  <2>11. sum(T) = f[c] + (f[e] + sum((T \ {e}) \ {c}))
    BY <2>4, <2>6, <2>10
  <2>12. sum(T) # f[e] + (f[c] + sum((T \ {e}) \ {c}))
    BY <2>2, <2>7
  <2> QED
    BY <2>9, <2>11, <2>12
<1> QED
  BY <1>1 DEF sum

\* Functions that agree on the set have the same sum.
LEMMA SumSame ==
  ASSUME NEW S, IsFiniteSet(S), NEW f, NEW g, \A x \in S : f[x] = g[x]
  PROVE  SumFunctionOnSet(f, S) = SumFunctionOnSet(g, S)
<1> DEFINE Bad == {T \in SUBSET S : SumFunctionOnSet(f, T) # SumFunctionOnSet(g, T)}
<1>1. Bad = {}
  <2> SUFFICES ASSUME Bad # {} PROVE FALSE
    OBVIOUS
  <2>1. PICK T \in Bad : \A x \in T : T \ {x} \notin Bad
    <3>1. Bad \subseteq SUBSET S
      OBVIOUS
    <3> HIDE DEF Bad
    <3> QED
      BY <3>1, Smallest
  <2>2. T \in SUBSET S /\ IsFiniteSet(T)
    BY FS_Subset
  <2>3. T # {} => /\ SumFunctionOnSet(f, T \ {Chosen(T)}) = SumFunctionOnSet(g, T \ {Chosen(T)})
                  /\ f[Chosen(T)] = g[Chosen(T)]
    BY <2>1, <2>2, ChosenIn
  <2> QED
    BY <2>2, <2>3, SumStep
<1> QED
  BY <1>1

LEMMA SumNat ==
  ASSUME NEW S, IsFiniteSet(S), NEW f, \A x \in S : f[x] \in Nat
  PROVE  SumFunctionOnSet(f, S) \in Nat
<1> DEFINE Bad == {T \in SUBSET S : SumFunctionOnSet(f, T) \notin Nat}
<1>1. Bad = {}
  <2> SUFFICES ASSUME Bad # {} PROVE FALSE
    OBVIOUS
  <2>1. PICK T \in Bad : \A x \in T : T \ {x} \notin Bad
    <3>1. Bad \subseteq SUBSET S
      OBVIOUS
    <3> HIDE DEF Bad
    <3> QED
      BY <3>1, Smallest
  <2>2. T \in SUBSET S /\ IsFiniteSet(T)
    BY FS_Subset
  <2>3. T # {} => SumFunctionOnSet(f, T \ {Chosen(T)}) \in Nat /\ f[Chosen(T)] \in Nat
    BY <2>1, <2>2, ChosenIn
  <2> QED
    BY <2>2, <2>3, SumStep
<1> QED
  BY <1>1

\* A sum of naturals is no less than any of them.
LEMMA SumBounds ==
  ASSUME NEW S, IsFiniteSet(S), NEW f, \A x \in S : f[x] \in Nat, NEW y \in S
  PROVE  f[y] <= SumFunctionOnSet(f, S)
<1>1. IsFiniteSet(S \ {y})
  BY FS_Subset
<1>2. SumFunctionOnSet(f, S \ {y}) \in Nat
  BY <1>1, SumNat
<1>3. SumFunctionOnSet(f, S) = f[y] + SumFunctionOnSet(f, S \ {y})
  BY SumOut
<1> QED
  BY <1>2, <1>3

\* Where one value changes, so does the sum.
LEMMA SumChange ==
  ASSUME NEW S, IsFiniteSet(S), NEW f, \A x \in S : f[x] \in Int,
         NEW g, NEW y \in S, g[y] \in Int, \A x \in S \ {y} : g[x] = f[x]
  PROVE  SumFunctionOnSet(g, S) = SumFunctionOnSet(f, S) - f[y] + g[y]
<1>1. IsFiniteSet(S \ {y})
  BY FS_Subset
<1>2. SumFunctionOnSet(g, S \ {y}) = SumFunctionOnSet(f, S \ {y})
  BY <1>1, SumSame
<1>3. SumFunctionOnSet(f, S) = f[y] + SumFunctionOnSet(f, S \ {y})
  BY SumOut
<1>4. SumFunctionOnSet(g, S) = g[y] + SumFunctionOnSet(g, S \ {y})
  <2>1. \A x \in S : g[x] \in Int
    OBVIOUS
  <2> QED
    BY <2>1, SumOut
<1>5. SumFunctionOnSet(f, S \ {y}) \in Int
  BY <1>1, SumInt
<1> QED
  BY <1>2, <1>3, <1>4, <1>5

\* The sum over a subset is one over all, with zeros outside it.
LEMMA SumWithin ==
  ASSUME NEW S, IsFiniteSet(S), NEW f, \A x \in S : f[x] \in Int, NEW R, R \subseteq S
  PROVE  SumFunctionOnSet(f, R) =
           SumFunctionOnSet([x \in S |-> IF x \in R THEN f[x] ELSE 0], S)
<1> DEFINE g == [x \in S |-> IF x \in R THEN f[x] ELSE 0]
           Bad == {T \in SUBSET S : SumFunctionOnSet(f, T \cap R) # SumFunctionOnSet(g, T)}
<1>0. \A x \in S : g[x] \in Int /\ g[x] = IF x \in R THEN f[x] ELSE 0
  OBVIOUS
<1> HIDE DEF g
<1>1. Bad = {}
  <2> SUFFICES ASSUME Bad # {} PROVE FALSE
    OBVIOUS
  <2>1. PICK T \in Bad : \A x \in T : T \ {x} \notin Bad
    <3>1. Bad \subseteq SUBSET S
      OBVIOUS
    <3> HIDE DEF Bad
    <3> QED
      BY <3>1, Smallest
  <2>2. T \in SUBSET S /\ IsFiniteSet(T) /\ IsFiniteSet(T \cap R)
    BY FS_Subset
  <2>3. T # {}
    BY <2>1, SumEmpty
  <2>4. PICK y \in T : TRUE
    BY <2>3
  <2>5. SumFunctionOnSet(f, (T \ {y}) \cap R) = SumFunctionOnSet(g, T \ {y})
    BY <2>1, <2>2
  <2>6. SumFunctionOnSet(g, T) = g[y] + SumFunctionOnSet(g, T \ {y})
    BY <1>0, <2>2, SumOut
  <2>7. CASE y \in R
    <3>1. (T \ {y}) \cap R = (T \cap R) \ {y}
      OBVIOUS
    <3>2. SumFunctionOnSet(f, T \cap R) = f[y] + SumFunctionOnSet(f, (T \cap R) \ {y})
      BY <2>2, <2>7, SumOut
    <3> QED
      BY <1>0, <2>2, <2>5, <2>6, <2>7, <3>1, <3>2
  <2>8. CASE y \notin R
    <3>1. (T \ {y}) \cap R = T \cap R
      BY <2>8
    <3>2. SumFunctionOnSet(g, T \ {y}) \in Int
      <4>1. IsFiniteSet(T \ {y})
        BY <2>2, FS_Subset
      <4> QED
        BY <1>0, <2>2, <4>1, SumInt
    <3>3. SumFunctionOnSet(g, T) = SumFunctionOnSet(g, T \ {y})
      <4>1. g[y] = 0
        BY <1>0, <2>2, <2>8
      <4> QED
        BY <2>6, <3>2, <4>1
    <3>4. SumFunctionOnSet(f, T \cap R) = SumFunctionOnSet(g, T \ {y})
      BY <2>5, <3>1
    <3>5. SumFunctionOnSet(f, T \cap R) # SumFunctionOnSet(g, T)
      OBVIOUS
    <3> QED
      BY <3>3, <3>4, <3>5
  <2> QED
    BY <2>7, <2>8
<1>2. R = S \cap R
  OBVIOUS
<1>3. SumFunctionOnSet(f, S \cap R) = SumFunctionOnSet(g, S)
  BY <1>1
<1> QED
  BY <1>2, <1>3 DEF g

LEMMA SumZero ==
  ASSUME NEW S, IsFiniteSet(S), NEW f, \A x \in S : f[x] = 0
  PROVE  SumFunctionOnSet(f, S) = 0
<1> DEFINE R == {}
           g == [x \in S |-> IF x \in R THEN f[x] ELSE 0]
<1>1. R \subseteq S /\ \A x \in S : f[x] = g[x] /\ f[x] \in Int
  OBVIOUS
<1>2. SumFunctionOnSet(f, R) = SumFunctionOnSet(g, S)
  <2> HIDE DEF R
  <2> QED
    BY <1>1, SumWithin
<1>3. SumFunctionOnSet(f, R) = 0
  BY SumEmpty
<1> HIDE DEF g, R
<1>4. SumFunctionOnSet(f, S) = SumFunctionOnSet(g, S)
  BY <1>1, SumSame
<1> QED
  BY <1>2, <1>3, <1>4

\* A sum is no more than its number of terms times a bound of each.
LEMMA SumAtMost ==
  ASSUME NEW S, IsFiniteSet(S), NEW f, NEW k \in Nat,
         \A x \in S : f[x] \in Int /\ f[x] <= k
  PROVE  SumFunctionOnSet(f, S) <= k * Cardinality(S)
<1> DEFINE Bad == {T \in SUBSET S : ~(SumFunctionOnSet(f, T) <= k * Cardinality(T))}
<1>1. ASSUME NEW n \in Nat, n > 0 PROVE k * n = k * (n - 1) + k /\ k * (n - 1) \in Nat
  BY <1>1
<1>2. Bad = {}
  <2> SUFFICES ASSUME Bad # {} PROVE FALSE
    OBVIOUS
  <2>1. PICK T \in Bad : \A x \in T : T \ {x} \notin Bad
    <3>1. Bad \subseteq SUBSET S
      OBVIOUS
    <3> HIDE DEF Bad
    <3> QED
      BY <3>1, Smallest
  <2>2. T \in SUBSET S /\ IsFiniteSet(T)
    BY FS_Subset
  <2>3. CASE T = {}
    <3>1. SumFunctionOnSet(f, T) = 0 /\ Cardinality(T) = 0
      BY <2>3, SumEmpty, FS_EmptySet
    <3> QED
      BY <2>1, <3>1
  <2>4. CASE T # {}
    <3> DEFINE x == Chosen(T)
               U == T \ {x}
    <3>1. x \in T /\ f[x] \in Int /\ f[x] <= k
      BY <2>2, <2>4, ChosenIn
    <3>2. U \in SUBSET S /\ IsFiniteSet(U)
      BY <2>2, FS_Subset
    <3>3. Cardinality(U) = Cardinality(T) - 1 /\ Cardinality(T) \in Nat /\ Cardinality(U) \in Nat
      BY <2>2, <3>1, <3>2, FS_RemoveElement, FS_CardinalityType
    <3>4. SumFunctionOnSet(f, U) <= k * Cardinality(U)
      BY <2>1, <3>1, <3>2
    <3>5. SumFunctionOnSet(f, T) = f[x] + SumFunctionOnSet(f, U)
      BY <2>2, <2>4, SumStep
    <3>6. SumFunctionOnSet(f, U) \in Int
      BY <3>2, SumInt
    <3>7. Cardinality(T) > 0
      BY <3>3
    <3>8. k * Cardinality(T) = k * Cardinality(U) + k /\ k * Cardinality(U) \in Nat
      BY <1>1, <3>3, <3>7
    <3> HIDE DEF x, U
    <3>9. SumFunctionOnSet(f, T) <= k * Cardinality(T)
      BY <3>1, <3>4, <3>5, <3>6, <3>8
    <3> QED
      BY <2>1, <3>9
  <2> QED
    BY <2>3, <2>4
<1> QED
  BY <1>2

-----------------------------------------------------------------------------
(* The last element of a sequence that is read from its first one on: what *)
(* FoldLeft chooses.                                                       *)

LastOf(t) == CHOOSE x \in t : \A y \in t : x >= y

LEMMA LastIn ==
  ASSUME NEW n \in Nat, NEW t \in SUBSET (1..n), t # {}
  PROVE  LastOf(t) \in t /\ \A y \in t : LastOf(t) >= y
<1> DEFINE Above == {k \in Nat : \A y \in t : y <= k}
<1>1. Above \subseteq Nat /\ n \in Above
  OBVIOUS
<1>2. PICK k \in Above : \A m \in Above : ~(m < k)
  <2> HIDE DEF Above
  <2> QED
    BY <1>1, LeastNat
<1>3. k \in t
  <2>0. PICK y \in t : TRUE
    OBVIOUS
  <2>1. CASE k = 0
    <3>1. y >= 1 /\ y <= 0
      BY <1>2, <2>0, <2>1
    <3> QED
      BY <2>0, <3>1
  <2>2. CASE k # 0
    <3> SUFFICES ASSUME k \notin t PROVE FALSE
      OBVIOUS
    <3>1. k - 1 \in Nat /\ \A x \in t : x <= k - 1
      BY <2>2
    <3> QED
      BY <1>2, <3>1
  <2> QED
    BY <2>1, <2>2
<1>4. \A y \in t : k >= y
  OBVIOUS
<1> QED
  BY <1>3, <1>4 DEF LastOf

LEMMA WithoutLast ==
  ASSUME NEW n \in Nat, NEW t \in SUBSET (1..n), t # {}
  PROVE  /\ t \ {LastOf(t)} \in SUBSET (1..n) /\ IsFiniteSet(t)
         /\ Cardinality(t) \in Nat
         /\ Cardinality(t \ {LastOf(t)}) = Cardinality(t) - 1
<1>1. IsFiniteSet(1..n)
  BY FS_Interval
<1>2. IsFiniteSet(t)
  BY <1>1, FS_Subset
<1> QED
  BY <1>2, LastIn, FS_RemoveElement, FS_CardinalityType
=============================================================================
