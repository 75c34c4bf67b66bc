------------------------ MODULE TraderSessionProofs -------------------------
(***************************************************************************)
(* TraderSession for every account and any number of lost connections and  *)
(* sessions: no call is woken by the answer to another one, and the data   *)
(* that is fetched is complete, outside the gaps the module names.         *)
(***************************************************************************)
EXTENDS TraderSession, FiniteSetTheorems, FunctionTheorems, SequenceTheorems, TLAPS

-----------------------------------------------------------------------------
(* The messages of an answer *)

Relogins == {"connected", "authenticated", "login"}
Signals  == Relogins \cup {"ready", "settled"}

Messages ==
  [kind : {"positions"}, row : SUBSET PositionRows, last : BOOLEAN]
    \cup [kind : {"orders"}, row : SUBSET OrderRows, last : BOOLEAN]
    \cup [kind : Signals, row : {{}}, last : {TRUE}]

KindOf(c) == IF c = "settle" THEN "settled" ELSE c

\* What is on the wire: messages of connecting again, and the rest of an answer,
\* which is k's, tells its rows once and its end last.
Remains(w, k) ==
  /\ \A i \in 1..Len(w) : w[i].kind \in Relogins \cup {k}
  /\ \A i, j \in 1..Len(w) :
       i < j /\ w[i].kind = k /\ w[j].kind = k
         => ~w[i].last /\ w[i].row \cap w[j].row = {}

RowsOf(w, k) == UNION {w[i].row : i \in {j \in 1..Len(w) : w[j].kind = k}}

LEMMA Listed ==
  ASSUME NEW S, IsFiniteSet(S)
  PROVE  /\ Cardinality(S) \in Nat
         /\ SetToSeq(S) \in [1..Cardinality(S) -> S]
         /\ \A i, j \in 1..Cardinality(S) : SetToSeq(S)[i] = SetToSeq(S)[j] => i = j
         /\ \A x \in S : \E i \in 1..Cardinality(S) : SetToSeq(S)[i] = x
<1> DEFINE n == Cardinality(S)
           q == SetToSeq(S)
<1>1. n \in Nat /\ ExistsBijection(1..n, S)
  BY FS_CardinalityType
<1>2. \E f \in [1..n -> S] : IsInjective(f)
  BY <1>1 DEF ExistsBijection, Bijection, Injection
<1>3. q \in [1..n -> S] /\ IsInjective(q)
  BY <1>2 DEF SetToSeq
<1>4. q \in Injection(1..n, S)
  BY <1>3 DEF Injection
<1>5. IsFiniteSet(1..n) /\ Cardinality(1..n) = n
  BY <1>1, FS_Interval
<1>6. q \in Surjection(1..n, S)
  BY <1>4, <1>5, FS_Injection
<1>7. \A x \in S : \E i \in 1..n : q[i] = x
  BY <1>6 DEF Surjection
<1>8. \A i, j \in 1..n : q[i] = q[j] => i = j
  BY <1>3 DEF IsInjective
<1> QED
  BY <1>1, <1>3, <1>7, <1>8

LEMMA PlainMessage ==
  /\ \A k \in Signals \cup {"positions", "orders"} : Plain(k) \in Messages
  /\ \A k : Plain(k).kind = k /\ Plain(k).row = {} /\ Plain(k).last = TRUE
BY DEF Plain, Messages

\* The answer to a query tells every row once, and which is the last.
LEMMA RowsTold ==
  ASSUME NEW k \in {"positions", "orders"}, NEW S, IsFiniteSet(S),
         k = "positions" => S \subseteq PositionRows,
         k = "orders" => S \subseteq OrderRows
  PROVE  /\ Rows(k, S) \in Seq(Messages)
         /\ Remains(Rows(k, S), k)
         /\ \A i \in 1..Len(Rows(k, S)) : Rows(k, S)[i].kind = k
         /\ \A i \in 1..Len(Rows(k, S)) : Rows(k, S)[i].row \subseteq S
         /\ \A x \in S : \E i \in 1..Len(Rows(k, S)) : x \in Rows(k, S)[i].row
         /\ Len(Rows(k, S)) >= 1 /\ Rows(k, S)[Len(Rows(k, S))].last
<1>1. CASE S = {}
  <2> DEFINE w == <<Plain(k)>>
  <2>1. Rows(k, S) = w
    BY <1>1 DEF Rows
  <2>2. w \in Seq(Messages) /\ Len(w) = 1 /\ w[1] = Plain(k)
    BY PlainMessage
  <2> HIDE DEF w
  <2>3. w[1].kind = k /\ w[1].row = {} /\ w[1].last
    BY <2>2, PlainMessage
  <2>4. \A i \in 1..Len(w) : i = 1
    BY <2>2
  <2>5. Remains(w, k)
    BY <2>3, <2>4 DEF Remains
  <2>6. Len(w) >= 1 /\ w[Len(w)].last
    BY <2>2, <2>3
  <2>7. \A i \in 1..Len(w) : w[i].kind = k /\ w[i].row \subseteq S
    BY <2>3, <2>4
  <2> QED
    BY <1>1, <2>1, <2>2, <2>5, <2>6, <2>7
<1>2. CASE S # {}
  <2> DEFINE n == Cardinality(S)
             q == SetToSeq(S)
             w == [i \in 1..n |-> [kind |-> k, row |-> {q[i]}, last |-> i = n]]
  <2>1. n \in Nat /\ q \in [1..n -> S]
    BY Listed
  <2>2. Len(q) = n
    BY <2>1
  <2>3. Rows(k, S) = w
    BY <1>2, <2>2 DEF Rows
  <2>4. \A i \in 1..n : /\ w[i].kind = k /\ w[i].row = {q[i]} /\ w[i].last = (i = n)
                        /\ w[i] \in Messages
    BY <2>1 DEF Messages
  <2>5. \A i, j \in 1..n : q[i] = q[j] => i = j
    BY Listed
  <2>6. \A x \in S : \E i \in 1..n : q[i] = x
    BY Listed
  <2> HIDE DEF q
  <2>7. w \in [1..n -> Messages]
    BY <2>4
  <2> HIDE DEF w, n
  <2>8. w \in Seq(Messages) /\ Len(w) = n
    <3>1. \A v \in [1..n -> Messages] : v \in Seq(Messages) /\ Len(v) = n
      BY <2>1
    <3> QED
      BY <2>7, <3>1
  <2>9. ASSUME NEW i \in 1..n, NEW j \in 1..n, i < j
        PROVE  ~w[i].last /\ w[i].row \cap w[j].row = {}
    <3>1. i # n
      BY <2>1, <2>9
    <3>2. q[i] # q[j]
      BY <2>5, <2>9
    <3> QED
      BY <2>4, <3>1, <3>2
  <2>10. Remains(w, k)
    BY <2>4, <2>8, <2>9 DEF Remains
  <2>11. n >= 1 /\ w[n].last
    <3>1. \E i : i \in 1..n
      BY <1>2, <2>6
    <3>2. n \in 1..n
      BY <2>1, <3>1
    <3>3. w[n].last = TRUE
      BY <2>4, <3>2, Zenon
    <3>4. n >= 1
      BY <2>1, <3>2
    <3> QED
      BY <3>3, <3>4
  <2>12. /\ \A i \in 1..Len(w) : w[i].kind = k /\ w[i].row \subseteq S
         /\ \A x \in S : \E i \in 1..Len(w) : x \in w[i].row
    <3>1. \A i \in 1..n : q[i] \in S
      BY <2>1
    <3>2. \A i \in 1..n : w[i].row \subseteq S
      BY <2>4, <3>1
    <3> QED
      BY <2>4, <2>6, <2>8, <3>2
  <2>13. Len(w) >= 1 /\ w[Len(w)].last
    BY <2>8, <2>11
  <2> QED
    BY <2>3, <2>8, <2>10, <2>12, <2>13
<1> QED
  BY <1>1, <1>2

LEMMA TailRemains ==
  ASSUME NEW w \in Seq(Messages), w # <<>>, NEW k, Remains(w, k)
  PROVE  /\ Head(w) \in Messages /\ Tail(w) \in Seq(Messages)
         /\ Head(w).kind \in Relogins \cup {k}
         /\ Remains(Tail(w), k)
         /\ k \notin Relogins /\ Head(w).kind = k /\ Head(w).last
              => \A i \in 1..Len(Tail(w)) : Tail(w)[i].kind # k
         /\ k \notin Relogins /\ Head(w).kind = k
              => Head(w).row \cap RowsOf(Tail(w), k) = {}
         /\ RowsOf(w, k) = RowsOf(Tail(w), k)
                             \cup (IF Head(w).kind = k THEN Head(w).row ELSE {})
<1> DEFINE m == Head(w)
           u == Tail(w)
           n == Len(u)
<1>1. /\ m \in Messages /\ u \in Seq(Messages) /\ n \in Nat
      /\ Len(w) = n + 1 /\ w[1] = m
      /\ \A i \in 1..n : u[i] = w[i + 1]
  BY HeadTailProperties, LenProperties
<1> HIDE DEF m, u, n
<1>2. \A i \in 1..n : i + 1 \in 1..Len(w) /\ 1 < i + 1
  BY <1>1
<1>3. 1 \in 1..Len(w)
  BY <1>1
<1>4. m.kind \in Relogins \cup {k}
  BY <1>1, <1>3 DEF Remains
<1>5. \A i \in 1..n : u[i].kind \in Relogins \cup {k}
  BY <1>1, <1>2 DEF Remains
<1>6. ASSUME NEW i \in 1..n, NEW j \in 1..n, i < j, u[i].kind = k, u[j].kind = k
      PROVE  ~u[i].last /\ u[i].row \cap u[j].row = {}
  <2>1. i + 1 < j + 1
    BY <1>1, <1>6
  <2> QED
    BY <1>1, <1>2, <1>6, <2>1 DEF Remains
<1>7. Len(u) = n
  BY DEF n
<1>8. Remains(u, k)
  BY <1>5, <1>6, <1>7 DEF Remains
<1>9. ASSUME m.kind = k, NEW i \in 1..n, u[i].kind = k
      PROVE  ~m.last /\ m.row \cap u[i].row = {}
  BY <1>1, <1>2, <1>3, <1>9 DEF Remains
<1>10. \A x : x \in RowsOf(u, k) <=> \E i \in 1..n : u[i].kind = k /\ x \in u[i].row
  BY <1>7 DEF RowsOf
<1>11. \A x : x \in RowsOf(w, k) <=> \E i \in 1..Len(w) : w[i].kind = k /\ x \in w[i].row
  BY DEF RowsOf
<1>12. ASSUME NEW i \in 1..Len(w), i # 1
       PROVE  i - 1 \in 1..n /\ u[i - 1] = w[i]
  <2>1. i - 1 \in 1..n /\ (i - 1) + 1 = i
    BY <1>1, <1>12
  <2> QED
    BY <1>1, <2>1
<1>13. ASSUME NEW x
       PROVE  x \in RowsOf(w, k) <=> x \in RowsOf(u, k) \/ (m.kind = k /\ x \in m.row)
  <2>1. ASSUME NEW i \in 1..Len(w), w[i].kind = k, x \in w[i].row
        PROVE  x \in RowsOf(u, k) \/ (m.kind = k /\ x \in m.row)
    <3>1. CASE i = 1
      BY <1>1, <2>1, <3>1
    <3>2. CASE i # 1
      BY <1>10, <1>12, <2>1, <3>2
    <3> QED
      BY <3>1, <3>2
  <2>2. ASSUME NEW i \in 1..n, u[i].kind = k, x \in u[i].row
        PROVE  \E j \in 1..Len(w) : w[j].kind = k /\ x \in w[j].row
    BY <1>1, <1>2, <2>2
  <2>3. m.kind = k /\ x \in m.row => \E j \in 1..Len(w) : w[j].kind = k /\ x \in w[j].row
    BY <1>1, <1>3
  <2> QED
    BY <1>10, <1>11, <2>1, <2>2, <2>3
<1>14. m.kind = k => m.row \cap RowsOf(u, k) = {}
  BY <1>9, <1>10
<1>15. RowsOf(w, k) = RowsOf(u, k) \cup (IF m.kind = k THEN m.row ELSE {})
  BY <1>13
<1> QED
  BY <1>1, <1>4, <1>7, <1>8, <1>9, <1>14, <1>15 DEF m, u

LEMMA AppendRemains ==
  ASSUME NEW w \in Seq(Messages), NEW k, Remains(w, k), k \notin Relogins,
         NEW r \in Relogins
  PROVE  /\ Append(w, Plain(r)) \in Seq(Messages)
         /\ Remains(Append(w, Plain(r)), k)
         /\ RowsOf(Append(w, Plain(r)), k) = RowsOf(w, k)
<1> DEFINE m == Plain(r)
           u == Append(w, m)
           n == Len(w)
<1>1. m \in Messages /\ m.kind = r /\ m.kind # k
  BY PlainMessage DEF Signals
<1> HIDE DEF m
<1>2. /\ u \in Seq(Messages) /\ n \in Nat /\ Len(u) = n + 1 /\ u[n + 1] = m
      /\ \A i \in 1..n : u[i] = w[i]
  BY <1>1, AppendProperties, LenProperties
<1> HIDE DEF u
<1>3. \A i \in 1..Len(u) : i = n + 1 \/ i \in 1..n
  BY <1>2
<1>4. \A i \in 1..n : i \in 1..Len(u)
  BY <1>2
<1> HIDE DEF n
<1>5. \A i \in 1..Len(u) : u[i].kind = k => i \in 1..n /\ u[i] = w[i]
  BY <1>1, <1>2, <1>3
<1>6. \A i \in 1..Len(u) : u[i].kind \in Relogins \cup {k}
  BY <1>1, <1>2, <1>3 DEF Remains, n
<1>7. Remains(u, k)
  BY <1>5, <1>6 DEF Remains, n
<1>8. RowsOf(u, k) = RowsOf(w, k)
  BY <1>2, <1>4, <1>5 DEF RowsOf, n
<1> QED
  BY <1>2, <1>7, <1>8 DEF u, m

\* Without an answer on it, the wire takes one.
LEMMA ConcatRemains ==
  ASSUME NEW w \in Seq(Messages), Remains(w, "none"),
         NEW k, k \notin Relogins, NEW a \in Seq(Messages), Remains(a, k)
  PROVE  /\ w \o a \in Seq(Messages)
         /\ Remains(w \o a, k)
         /\ RowsOf(w \o a, k) = RowsOf(a, k)
<1> DEFINE u == w \o a
           n == Len(w)
<1>1. /\ u \in Seq(Messages) /\ n \in Nat /\ Len(a) \in Nat /\ Len(u) = n + Len(a)
      /\ \A i \in 1..Len(u) : u[i] = IF i <= n THEN w[i] ELSE a[i - n]
  BY ConcatProperties, LenProperties
<1>2. \A m \in Messages : m.kind # "none"
  BY DEF Messages, Signals, Relogins
<1>3. \A i \in 1..n : w[i].kind \in Relogins
  BY <1>2, ElementOfSeq DEF Remains
<1> HIDE DEF u, n
<1>4. \A i \in 1..Len(u) : \/ i \in 1..n /\ u[i] = w[i]
                           \/ ~(i <= n) /\ i - n \in 1..Len(a) /\ u[i] = a[i - n]
  BY <1>1
<1>5. \A i \in 1..Len(u) : u[i].kind = k => i - n \in 1..Len(a) /\ u[i] = a[i - n]
  BY <1>3, <1>4
<1>6. \A i \in 1..Len(u) : u[i].kind \in Relogins \cup {k}
  BY <1>3, <1>4 DEF Remains
<1>7. \A i \in 1..Len(a) : i + n \in 1..Len(u) /\ u[i + n] = a[i]
  BY <1>1
<1>8. ASSUME NEW i \in 1..Len(u), NEW j \in 1..Len(u), i < j, u[i].kind = k, u[j].kind = k
      PROVE  ~u[i].last /\ u[i].row \cap u[j].row = {}
  <2>1. i - n < j - n
    BY <1>1, <1>8
  <2> QED
    BY <1>5, <1>8, <2>1 DEF Remains
<1>9. Remains(u, k)
  BY <1>6, <1>8 DEF Remains
<1>10. ASSUME NEW x PROVE x \in RowsOf(u, k) <=> x \in RowsOf(a, k)
  <2>1. x \in RowsOf(u, k) <=> \E i \in 1..Len(u) : u[i].kind = k /\ x \in u[i].row
    BY DEF RowsOf
  <2>2. x \in RowsOf(a, k) <=> \E i \in 1..Len(a) : a[i].kind = k /\ x \in a[i].row
    BY DEF RowsOf
  <2>3. ASSUME NEW i \in 1..Len(u), u[i].kind = k, x \in u[i].row
        PROVE  \E j \in 1..Len(a) : a[j].kind = k /\ x \in a[j].row
    BY <1>5, <2>3
  <2>4. ASSUME NEW i \in 1..Len(a), a[i].kind = k, x \in a[i].row
        PROVE  \E j \in 1..Len(u) : u[j].kind = k /\ x \in u[j].row
    BY <1>7, <2>4
  <2> QED
    BY <2>1, <2>2, <2>3, <2>4
<1>11. RowsOf(u, k) = RowsOf(a, k)
  BY <1>10
<1> QED
  BY <1>1, <1>9, <1>11 DEF u

-----------------------------------------------------------------------------
(* Types *)

Accounts == [positions : SUBSET PositionRows, orders : SUBSET OrderRows]

Typed ==
  /\ TypeOK
  /\ api \in {"ctp", "tap"}
  /\ rows \in Accounts
  /\ inited \in BOOLEAN /\ connected \in BOOLEAN /\ syncWait \in BOOLEAN
  /\ inQuery \in BOOLEAN /\ checked \in BOOLEAN
  /\ wire \in Seq(Messages)

LEMMA AnswerTold ==
  ASSUME Typed, NEW c \in Calls \ {"login"}
  PROVE  /\ Answer(c) \in Seq(Messages)
         /\ Remains(Answer(c), KindOf(c))
         /\ IsQuery(c) => RowsOf(Answer(c), c) = rows[c]
         /\ IsQuery(c) => LET w == Answer(c)
                          IN Len(w) >= 1 /\ w[Len(w)].last /\ w[Len(w)].kind = c
<1>1. CASE c = "settle"
  <2> DEFINE w == <<Plain("settled")>>
  <2>1. Answer(c) = w /\ KindOf(c) = "settled" /\ ~IsQuery(c)
    BY <1>1 DEF Answer, KindOf, IsQuery
  <2>2. w \in Seq(Messages) /\ Len(w) = 1 /\ w[1] = Plain("settled")
    BY PlainMessage DEF Signals
  <2> HIDE DEF w
  <2>3. w[1].kind = "settled"
    BY <2>2, PlainMessage
  <2>4. \A i \in 1..Len(w) : i = 1
    BY <2>2
  <2>5. Remains(w, "settled")
    BY <2>3, <2>4 DEF Remains
  <2> QED
    BY <2>1, <2>2, <2>5
<1>2. CASE c \in {"positions", "orders"}
  <2> DEFINE w == Rows(c, rows[c])
  <2>1. Answer(c) = w /\ KindOf(c) = c
    BY <1>2 DEF Answer, KindOf
  <2>2. /\ c = "positions" => rows[c] \subseteq PositionRows
        /\ c = "orders" => rows[c] \subseteq OrderRows
    BY DEF Typed, Accounts
  <2>3. IsFiniteSet(rows[c])
    BY <1>2, <2>2, SessionAssumption, FS_Subset
  <2>4. /\ w \in Seq(Messages) /\ Remains(w, c)
        /\ \A i \in 1..Len(w) : w[i].kind = c /\ w[i].row \subseteq rows[c]
        /\ \A x \in rows[c] : \E i \in 1..Len(w) : x \in w[i].row
        /\ Len(w) >= 1 /\ w[Len(w)].last
    BY <1>2, <2>2, <2>3, RowsTold
  <2> HIDE DEF w
  <2>5. RowsOf(w, c) = rows[c]
    BY <2>4 DEF RowsOf
  <2>6. Len(w) \in 1..Len(w)
    BY <2>4, LenProperties
  <2>7. w[Len(w)].kind = c
    BY <2>4, <2>6
  <2> QED
    BY <2>1, <2>4, <2>5, <2>7
<1> QED
  BY <1>1, <1>2 DEF Calls

\* Behind a query's answer comes nothing more of it.
LEMMA AnswerPassed ==
  ASSUME Typed, NEW c \in {"positions", "orders"}, IsPrefix(Answer(c), wire)
  PROVE  /\ Behind(c) \in Seq(Messages)
         /\ Remains(wire, c)
              => \A i \in 1..Len(Behind(c)) : Behind(c)[i].kind \in Relogins
<1> DEFINE w == Answer(c)
           n == Len(w)
           u == Behind(c)
<1>1. /\ w \in Seq(Messages) /\ n \in Nat /\ n >= 1 /\ w[n].last /\ w[n].kind = c
  BY AnswerTold, LenProperties DEF Calls, IsQuery
<1>2. wire \in Seq(Messages) /\ Len(wire) \in Nat
  BY LenProperties DEF Typed
<1>3. n <= Len(wire) /\ SubSeq(w, 1, n) = SubSeq(wire, 1, n)
  BY DEF IsPrefix
<1>4. u = SubSeq(wire, n + 1, Len(wire))
  BY DEF Behind
<1> HIDE DEF w, n, u
<1>5. wire[n] = w[n]
  <2>1. /\ \A i \in 1..n : i \in 1..Len(w)
        /\ \A i \in 1..n : i \in 1..Len(wire)
    BY <1>1, <1>2, <1>3 DEF n
  <2>2. \A i \in 1..n : SubSeq(w, 1, n)[i] = w[i] /\ SubSeq(wire, 1, n)[i] = wire[i]
    BY <1>1, <1>2, <1>3, <2>1
  <2>3. n \in 1..n
    BY <1>1
  <2> QED
    BY <1>3, <2>2, <2>3
<1>6. /\ u \in Seq(Messages) /\ Len(u) = Len(wire) - n
      /\ \A i \in 1..Len(u) : u[i] = wire[n + i] /\ n + i \in 1..Len(wire) /\ n < n + i
  BY <1>1, <1>2, <1>3, <1>4
<1>7. ASSUME Remains(wire, c), NEW i \in 1..Len(u)
      PROVE  u[i].kind \in Relogins
  <2>1. n \in 1..Len(wire)
    BY <1>1, <1>2, <1>3
  <2>2. wire[n + i].kind \in Relogins \cup {c} /\ wire[n + i].kind # c
    BY <1>1, <1>5, <1>6, <1>7, <2>1 DEF Remains
  <2> QED
    BY <1>6, <2>2
<1> QED
  BY <1>6, <1>7 DEF u

LEMMA LoginTold ==
  ASSUME Typed
  PROVE  /\ Answer("login") = IF api = "ctp" THEN <<Plain("connected")>>
                              ELSE <<Plain("connected"), Plain("ready")>>
         /\ Answer("login") \in Seq(Messages)
<1>1. Plain("connected") \in Messages /\ Plain("ready") \in Messages
  BY PlainMessage DEF Signals, Relogins
<1> QED
  BY <1>1 DEF Answer, Typed

LEMMA HeadTyped ==
  ASSUME Typed, wire # <<>>
  PROVE  /\ Head(wire) \in Messages /\ Tail(wire) \in Seq(Messages)
         /\ Head(wire).last \in BOOLEAN
         /\ Head(wire).kind = "positions" => Head(wire).row \subseteq PositionRows
         /\ Head(wire).kind = "orders" => Head(wire).row \subseteq OrderRows
<1>1. Head(wire) \in Messages /\ Tail(wire) \in Seq(Messages)
  BY HeadTailProperties DEF Typed
<1> QED
  BY <1>1 DEF Messages, Signals, Relogins

LEMMA InitTyped == Init => Typed
<1> SUFFICES ASSUME Init PROVE Typed
  OBVIOUS
<1>1. wire \in Seq(Messages)
  BY DEF Init
<1> QED
  BY <1>1, SessionAssumption DEF Init, Typed, TypeOK, Accounts, NoData, Calls

LEMMA NextTyped == Typed /\ [Next]_vars => Typed'
<1> SUFFICES ASSUME Typed, [Next]_vars PROVE Typed'
  OBVIOUS
<1> USE DEF mainVars, flagVars, mapVars, apiVars, histVars
<1>1. CASE Start
  BY <1>1 DEF Start, Typed, TypeOK, Calls
<1>2. CASE Request
  <2>1. call \in Calls /\ wire' = wire \o Answer(call)
    BY <1>2 DEF Request
  <2>2. Answer(call) \in Seq(Messages)
    BY <2>1, AnswerTold, LoginTold
  <2>3. wire' \in Seq(Messages)
    BY <2>1, <2>2, ConcatProperties DEF Typed
  <2> QED
    BY <1>2, <2>3 DEF Request, Typed, TypeOK, IsQuery
<1>3. CASE QueryPending
  BY <1>3 DEF QueryPending, Typed, TypeOK, IsQuery
<1>4. CASE RequestFails
  BY <1>4 DEF RequestFails, Typed, TypeOK
<1>5. CASE MarkQuery \/ SetSyncWait \/ Wait
  BY <1>5 DEF MarkQuery, SetSyncWait, Wait, Typed, TypeOK
<1>6. CASE Resume
  BY <1>6 DEF Resume, After, Typed, TypeOK, Calls
<1>7. CASE Logout
  <2>1. wire' \in Seq(Messages)
    BY <1>7 DEF Logout
  <2> QED
    BY <1>7, <2>1 DEF Logout, Typed, TypeOK, NoData
<1>8. CASE Connected \/ Authenticated
  <2>1. wire # <<>> /\ Tail(wire) \in Seq(Messages)
    BY <1>8, HeadTyped DEF Connected, Authenticated, Heads
  <2>2. Plain("authenticated") \in Messages /\ Plain("login") \in Messages
    BY PlainMessage DEF Signals, Relogins
  <2>3. /\ Append(Tail(wire), Plain("authenticated")) \in Seq(Messages)
        /\ Append(Tail(wire), Plain("login")) \in Seq(Messages)
    BY <2>1, <2>2, AppendProperties
  <2>4. wire' \in Seq(Messages)
    BY <1>8, <2>1, <2>3 DEF Connected, Authenticated
  <2> QED
    BY <1>8, <2>4 DEF Connected, Authenticated, Typed, TypeOK
<1>9. CASE LoginFails \/ LoggedIn
  <2>1. wire' \in Seq(Messages)
    BY <1>9, HeadTyped DEF LoginFails, LoggedIn, Heads
  <2>2. CASE LoginFails
    BY <2>1, <2>2 DEF LoginFails, Typed, TypeOK, Calls
  <2>3. CASE LoggedIn
    BY <2>1, <2>3 DEF LoggedIn, Typed, TypeOK, Calls
  <2> QED
    BY <1>9, <2>2, <2>3
<1>10. CASE NotifyLogin
  BY <1>10 DEF NotifyLogin, Notify, Typed, TypeOK
<1>11. ASSUME NEW c \in {"login", "settle"}, Answered(c) PROVE Typed'
  <2>1. wire' \in Seq(Messages)
    BY <1>11, HeadTyped DEF Answered, Heads
  <2> QED
    BY <1>11, <2>1 DEF Answered, Notify, Typed, TypeOK, Calls
<1>12. ASSUME NEW c \in {"positions", "orders"}, QueryRow(c) PROVE Typed'
  <2> DEFINE m == Head(wire)
  <2>1. wire' \in Seq(Messages) /\ wire # <<>> /\ m.kind = c
    BY <1>12, HeadTyped DEF QueryRow, Heads
  <2>2. /\ c = "positions" => m.row \subseteq PositionRows
        /\ c = "orders" => m.row \subseteq OrderRows
    BY <2>1, HeadTyped
  <2>3. data' = [data EXCEPT ![c] = Taken(c, data[c], m)]
    BY <1>12 DEF QueryRow, MapOf
  <2>4. /\ c = "positions" => Taken(c, data[c], m) \subseteq PositionRows
        /\ c = "orders" => Taken(c, data[c], m) \subseteq OrderRows
    BY <2>2 DEF Taken, Typed, TypeOK
  <2>5. data' \in Accounts
    BY <2>3, <2>4 DEF Typed, TypeOK, Accounts
  <2>6. index' \subseteq OrderRows
    BY <1>12, <2>2 DEF QueryRow, Typed, TypeOK
  <2>7. /\ step' \in {step, "awake"} /\ syncWait' \in BOOLEAN /\ inQuery' = FALSE
        /\ answered' \subseteq Calls /\ gaps' \subseteq gaps \cup {"early"}
        /\ UNCHANGED <<api, rows, call, inited, connected, checked>>
    BY <1>12 DEF QueryRow, Notify, Typed, TypeOK, Calls
  <2> QED
    BY <2>1, <2>5, <2>6, <2>7 DEF Typed, TypeOK, Accounts
<1>13. ASSUME NEW c \in {"positions", "orders"}, QueryError(c) PROVE Typed'
  <2>1. wire' \in Seq(Messages)
    BY <1>13, AnswerPassed DEF QueryError
  <2>2. data' \in Accounts
    BY <1>13 DEF QueryError, MapOf, Typed, TypeOK, Accounts
  <2>3. /\ step' \in {step, "awake"} /\ syncWait' \in BOOLEAN /\ inQuery' = FALSE
        /\ answered' \subseteq Calls /\ gaps' = gaps \cup {"error"}
        /\ UNCHANGED <<api, rows, call, inited, connected, index, checked>>
    BY <1>13 DEF QueryError, Notify, Typed, TypeOK, Calls
  <2> QED
    BY <2>1, <2>2, <2>3 DEF Typed, TypeOK, Accounts
<1>14. CASE Drop
  <2>1. Plain("connected") \in Messages
    BY PlainMessage DEF Signals, Relogins
  <2>2. wire' \in Seq(Messages)
    BY <1>14, <2>1 DEF Drop
  <2> QED
    BY <1>14, <2>2 DEF Drop, Typed, TypeOK
<1>15. CASE UNCHANGED vars
  BY <1>15 DEF vars, Typed, TypeOK
<1>16. CASE SpuriousWakeup
  BY <1>16 DEF SpuriousWakeup, Typed, TypeOK
<1> QED
  BY <1>1, <1>2, <1>3, <1>4, <1>5, <1>6, <1>7, <1>8, <1>9, <1>10, <1>11, <1>12, <1>13,
     <1>14, <1>15, <1>16 DEF Next, Main, Api

LEMMA TypedAlways == Spec => []Typed
BY InitTyped, NextTyped, PTL DEF Spec

\* Every variable keeps its type, whatever the broker has and the connection
\* does.
THEOREM TypeCorrect == Spec => []TypeOK
BY TypedAlways, PTL DEF Typed

-----------------------------------------------------------------------------
(* Answers come in the order of the calls, while no login is repeated before
   the first one is through and no wait ends by itself.  A session is closed, opening or working. *)

Upto(c) ==
  CASE c = "off"       -> {}
    [] c = "login"     -> {"login"}
    [] c = "settle"    -> {"login", "settle"}
    [] c = "positions" -> {"login", "settle", "positions"}
    [] OTHER           -> Calls

\* What the main thread has asked for and not been answered.
Owed == IF call \in Calls \ {"login"} /\ step # "begin" /\ call \notin answered
        THEN KindOf(call) ELSE "none"

Openings ==
  IF api = "ctp" THEN {<<>>, <<Plain("connected")>>, <<Plain("authenticated")>>,
                       <<Plain("login")>>}
                 ELSE {<<>>, <<Plain("connected"), Plain("ready")>>, <<Plain("ready")>>}

Closed ==
  /\ call \in {"off", "failed"} \/ (call = "login" /\ step = "begin")
  /\ wire = <<>> /\ ~checked /\ ~connected /\ answered = {} /\ ~inited

Opening ==
  /\ call = "login" /\ step \in {"sent", "asleep", "awake"} /\ ~inited
  /\ wire \in Openings
  /\ "login" \in answered => wire = <<>>
  /\ checked => "login" \in answered /\ step # "awake"

Working ==
  /\ call \in {"settle", "positions", "orders", "done", "failed"} /\ inited
  /\ ~checked
  /\ Remains(wire, Owed)

Sequenced ==
  /\ answered \subseteq Upto(call)
  /\ step = "begin" => call \notin answered
  /\ call \notin Calls => step = "begin"
  /\ step = "awake" => call \in answered

InStep == "relogin" \notin gaps /\ "spurious" \notin gaps

Ordered == InStep => Sequenced /\ (Closed \/ Opening \/ Working)

LEMMA OwedKinds ==
  ASSUME Typed
  PROVE  Owed \in {"none", "settled", "positions", "orders"} /\ Owed \notin Relogins
BY DEF Owed, KindOf, Calls, Relogins

LEMMA Weaker ==
  ASSUME NEW w \in Seq(Messages), NEW k, k \notin Relogins,
         Remains(w, "none") \/ (\A i \in 1..Len(w) : w[i].kind \in Relogins)
  PROVE  /\ \A i \in 1..Len(w) : w[i].kind \in Relogins
         /\ Remains(w, k) /\ RowsOf(w, k) = {}
<1>1. \A m \in Messages : m.kind # "none"
  BY DEF Messages, Signals, Relogins
<1>2. \A i \in 1..Len(w) : w[i].kind \in Relogins
  BY <1>1, ElementOfSeq DEF Remains
<1>3. \A i \in 1..Len(w) : w[i].kind # k
  BY <1>2
<1> QED
  BY <1>2, <1>3 DEF Remains, RowsOf

LEMMA Reconnecting ==
  ASSUME NEW k, k \notin Relogins
  PROVE  /\ Remains(<<>>, k) /\ RowsOf(<<>>, k) = {}
         /\ Remains(<<Plain("connected")>>, k) /\ RowsOf(<<Plain("connected")>>, k) = {}
<1> DEFINE w == <<Plain("connected")>>
<1>1. Plain("connected") \in Messages /\ Plain("connected").kind \in Relogins
  BY PlainMessage DEF Signals, Relogins
<1>2. w \in Seq(Messages) /\ Len(w) = 1 /\ w[1] = Plain("connected")
  BY <1>1
<1> HIDE DEF w
<1>3. \A i \in 1..Len(w) : w[i].kind \in Relogins
  BY <1>1, <1>2
<1>4. <<>> \in Seq(Messages) /\ Len(<<>>) = 0
  BY EmptySeq
<1>5. \A i \in 1..Len(<<>>) : <<>>[i].kind \in Relogins
  BY <1>4
<1> QED
  BY <1>2, <1>3, <1>4, <1>5, Weaker DEF w

\* The first message, when a login is through.
LEMMA FirstMessage ==
  ASSUME Typed, Working, wire # <<>>
  PROVE  /\ Head(wire).kind \in Relogins \cup {Owed} /\ Head(wire).kind # "none"
         /\ Tail(wire) \in Seq(Messages) /\ Remains(Tail(wire), Owed)
         /\ Head(wire).kind = Owed /\ Head(wire).last => Remains(Tail(wire), "none")
<1>1. /\ Head(wire) \in Messages /\ Tail(wire) \in Seq(Messages)
      /\ Head(wire).kind \in Relogins \cup {Owed} /\ Remains(Tail(wire), Owed)
      /\ Head(wire).kind = Owed /\ Head(wire).last
           => \A i \in 1..Len(Tail(wire)) : Tail(wire)[i].kind # Owed
  BY TailRemains, OwedKinds DEF Typed, Working
<1>2. Head(wire).kind # "none"
  BY <1>1 DEF Messages, Signals, Relogins
<1>3. ASSUME \A i \in 1..Len(Tail(wire)) : Tail(wire)[i].kind # Owed
      PROVE  Remains(Tail(wire), "none")
  <2>1. \A i \in 1..Len(Tail(wire)) : Tail(wire)[i].kind \in Relogins
    BY <1>1, <1>3 DEF Remains
  <2>2. "none" \notin Relogins
    BY DEF Relogins
  <2> QED
    BY <1>1, <2>1, <2>2, Weaker
<1> QED
  BY <1>1, <1>2, <1>3

-----------------------------------------------------------------------------
(* No step of a closed, opening or working session breaks the order. *)

LEMMA ClosedStep ==
  ASSUME Typed, Sequenced, Closed, Next, ~Logout
  PROVE  Sequenced' /\ (Closed' \/ Opening')
<1> USE DEF mainVars, flagVars, mapVars, apiVars, histVars, Closed
<1>1. CASE Start
  BY <1>1 DEF Start, Sequenced, Upto, Calls
<1>2. CASE Request
  <2>1. call = "login" /\ wire' = wire \o Answer("login")
    BY <1>2 DEF Request, Calls
  <2>2. Answer("login") \in Openings /\ Answer("login") \in Seq(Messages)
    BY LoginTold DEF Openings
  <2>3. wire' = Answer("login")
    BY <2>1, <2>2, ConcatEmptySeq
  <2> HIDE DEF Answer
  <2>4. wire' \in Openings'
    BY <1>2, <2>2, <2>3 DEF Request, Openings
  <2> QED
    BY <1>2, <2>1, <2>4 DEF Request, Sequenced, Opening, Upto, Calls
<1>3. CASE QueryPending \/ MarkQuery \/ SetSyncWait \/ Wait \/ Resume \/ SpuriousWakeup
  BY <1>3 DEF QueryPending, MarkQuery, SetSyncWait, Wait, Resume, SpuriousWakeup, IsQuery,
              Calls, Sequenced
<1>4. CASE RequestFails
  BY <1>4 DEF RequestFails, Calls, Sequenced, Upto
<1>5. CASE Api
  BY <1>5 DEF Api, Connected, Authenticated, LoginFails, LoggedIn, NotifyLogin, Answered,
              QueryRow, QueryError, Heads
<1>6. CASE Drop
  BY <1>6 DEF Drop
<1> QED
  BY <1>1, <1>2, <1>3, <1>4, <1>5, <1>6 DEF Next, Main

LEMMA HeadTailOfTwo == \A a, b : Head(<<a, b>>) = a /\ Tail(<<a, b>>) = <<b>>
<1> SUFFICES ASSUME NEW a, NEW b PROVE Head(<<a, b>>) = a /\ Tail(<<a, b>>) = <<b>>
  OBVIOUS
<1> DEFINE s == <<a, b>>
           t == <<b>>
<1>1. s \in Seq({a, b}) /\ Len(s) = 2 /\ s[1] = a /\ s[2] = b
  OBVIOUS
<1>2. t \in Seq({a, b}) /\ Len(t) = 1 /\ t[1] = b
  OBVIOUS
<1> HIDE DEF s, t
<1>3. /\ Head(s) = a /\ Tail(s) \in Seq({a, b}) /\ Len(Tail(s)) = 1
      /\ \A i \in 1..Len(Tail(s)) : Tail(s)[i] = s[i + 1]
  BY <1>1, HeadTailProperties, EmptySeq
<1>4. \A i \in 1..Len(Tail(s)) : Tail(s)[i] = t[i]
  <2>1. \A i \in 1..1 : i = 1
    OBVIOUS
  <2>2. 1 + 1 = 2
    OBVIOUS
  <2> QED
    BY <1>1, <1>2, <1>3, <2>1, <2>2
<1>5. Tail(s) = t
  BY <1>2, <1>3, <1>4, SeqEqual
<1> QED
  BY <1>3, <1>5 DEF s, t

\* What the head and the tail of a login's wire are.
LEMMA OpeningWire ==
  ASSUME Typed, Opening, wire # <<>>
  PROVE  /\ Head(wire).kind = "connected" /\ api = "ctp"
              => Tail(wire) = <<>>
         /\ Head(wire).kind = "connected" /\ api = "tap" => Tail(wire) = <<Plain("ready")>>
         /\ Head(wire).kind # "connected" => Tail(wire) = <<>>
         /\ Head(wire).kind \in {"connected", "authenticated", "login", "ready"}
         /\ Head(wire).kind = "ready" <=> api = "tap" /\ Head(wire).kind # "connected"
<1>1. \/ api = "ctp" /\ \E k \in {"connected", "authenticated", "login"} : wire = <<Plain(k)>>
      \/ api = "tap" /\ wire = <<Plain("connected"), Plain("ready")>>
      \/ api = "tap" /\ wire = <<Plain("ready")>>
  BY DEF Typed, Opening, Openings
<1>2. ASSUME NEW k, wire = <<Plain(k)>>
      PROVE  Head(wire).kind = k /\ Tail(wire) = <<>>
  BY <1>2 DEF Plain
<1>3. wire = <<Plain("connected"), Plain("ready")>>
        => Head(wire).kind = "connected" /\ Tail(wire) = <<Plain("ready")>>
  BY PlainMessage, HeadTailOfTwo
<1> QED
  BY <1>1, <1>2, <1>3

LEMMA AppendedAlone == \A m : Append(<<>>, m) = <<m>>
OBVIOUS

LEMMA OpeningStep ==
  ASSUME Typed, Sequenced, Opening, Next, ~Logout, ~Drop, InStep'
  PROVE  Sequenced' /\ (Opening' \/ Working')
<1> USE DEF mainVars, flagVars, mapVars, apiVars, histVars, Opening
<1>1. CASE Start \/ Request \/ QueryPending \/ RequestFails \/ MarkQuery \/ SetSyncWait
  BY <1>1 DEF Start, Request, QueryPending, RequestFails, MarkQuery, SetSyncWait, IsQuery,
              Calls
<1>2. CASE Wait
  BY <1>2 DEF Wait, Sequenced, Upto, Openings, Calls
<1>3. CASE Resume
  <2>1. /\ call' \in {"settle", "positions"} /\ step' = "begin" /\ inited' = TRUE
        /\ "login" \in answered /\ wire' = <<>> /\ ~checked' /\ answered' = answered
    BY <1>3 DEF Resume, After, Sequenced, Typed
  <2>2. Owed' = "none"
    BY <2>1 DEF Owed
  <2>3. "none" \notin Relogins
    BY DEF Relogins
  <2>4. Remains(wire', Owed')
    BY <2>1, <2>2, <2>3, Reconnecting
  <2>5. Working'
    BY <2>1, <2>4 DEF Working
  <2> QED
    BY <2>1, <2>5 DEF Sequenced, Upto, Calls
<1>4. CASE Connected
  <2>1. wire # <<>> /\ Head(wire).kind = "connected"
    BY <1>4 DEF Connected, Heads
  <2>2. wire' = IF api = "ctp" THEN <<Plain("authenticated")>> ELSE <<Plain("ready")>>
    BY <1>4, <2>1, OpeningWire, AppendedAlone DEF Connected, Typed
  <2>3. wire' \in Openings' /\ "login" \notin answered
    BY <1>4, <2>1, <2>2 DEF Connected, Openings
  <2> QED
    BY <1>4, <2>3 DEF Connected, Sequenced, Upto, Calls
<1>5. CASE Authenticated
  <2>1. wire # <<>> /\ Head(wire).kind = "authenticated"
    BY <1>5 DEF Authenticated, Heads
  <2>2. wire' = <<Plain("login")>> /\ api = "ctp"
    BY <1>5, <2>1, OpeningWire, AppendedAlone DEF Authenticated, Typed
  <2>3. wire' \in Openings' /\ "login" \notin answered
    BY <1>5, <2>1, <2>2 DEF Authenticated, Openings
  <2> QED
    BY <1>5, <2>3 DEF Authenticated, Sequenced, Upto, Calls
<1>6. CASE LoginFails \/ LoggedIn
  <2>1. wire # <<>> /\ Head(wire).kind \in {"authenticated", "login", "ready"} /\ ~checked
    BY <1>6 DEF LoginFails, LoggedIn, Heads
  <2>2. wire' = <<>> /\ "login" \notin answered
    BY <1>6, <2>1, OpeningWire DEF LoginFails, LoggedIn
  <2>3. wire' \in Openings'
    BY <2>2 DEF Openings
  <2> QED
    BY <1>6, <2>1, <2>2, <2>3 DEF LoginFails, LoggedIn, Sequenced, Upto, Calls
<1>7. CASE NotifyLogin
  BY <1>7 DEF NotifyLogin, Notify, Openings, Sequenced, Upto, Calls
<1>8. CASE Answered("login")
  <2>1. wire # <<>> /\ Head(wire).kind = "ready" /\ ~checked
    BY <1>8 DEF Answered, Heads
  <2>2. wire' = <<>> /\ "login" \notin answered
    BY <1>8, <2>1, OpeningWire DEF Answered
  <2>3. wire' \in Openings'
    BY <2>2 DEF Openings
  <2> QED
    BY <1>8, <2>1, <2>2, <2>3 DEF Answered, Notify, Sequenced, Upto, Calls
<1>9. ASSUME NEW c \in {"positions", "orders"}
      PROVE  ~Answered("settle") /\ ~QueryRow(c) /\ ~QueryError(c)
  BY OpeningWire DEF Answered, QueryRow, QueryError, Heads
<1>10. CASE SpuriousWakeup
  BY <1>10 DEF SpuriousWakeup, InStep, Openings, Sequenced, Calls
<1> QED
  BY <1>1, <1>2, <1>3, <1>4, <1>5, <1>6, <1>7, <1>8, <1>9, <1>10 DEF Next, Main, Api

LEMMA WorkingStep ==
  ASSUME Typed, Sequenced, Working, Next, ~Logout, InStep'
  PROVE  Sequenced' /\ Working'
<1> USE DEF mainVars, flagVars, mapVars, apiVars, histVars
<1>0. /\ "none" \notin Relogins /\ Owed \notin Relogins
      /\ wire \in Seq(Messages) /\ Remains(wire, Owed)
  BY OwedKinds DEF Relogins, Typed, Working
<1>1. CASE Start
  BY <1>1 DEF Start, Working
<1>2. CASE Request
  <2>1. /\ call \in Calls \ {"login"} /\ step = "begin" /\ step' = "sent" /\ call' = call
        /\ answered' = answered /\ call \notin answered
        /\ wire' = wire \o Answer(call)
    BY <1>2 DEF Request, Working, Sequenced
  <2>2. Owed = "none" /\ Owed' = KindOf(call)
    BY <2>1 DEF Owed
  <2>3. Answer(call) \in Seq(Messages) /\ Remains(Answer(call), KindOf(call))
    BY <2>1, AnswerTold
  <2>4. KindOf(call) \notin Relogins
    BY <2>1 DEF KindOf, Relogins, Calls
  <2>5. Remains(wire', Owed')
    BY <1>0, <2>1, <2>2, <2>3, <2>4, ConcatRemains
  <2> QED
    BY <1>2, <2>1, <2>5 DEF Request, Working, Sequenced
<1>3. CASE QueryPending
  <2>1. Owed' = Owed /\ Remains(wire', Owed')
    BY <1>0, <1>3 DEF QueryPending, Owed, Calls
  <2> QED
    BY <1>3, <2>1 DEF QueryPending, Working, Sequenced, Upto, Calls, IsQuery
<1>4. CASE RequestFails
  <2>1. step = "begin" /\ UNCHANGED wire
    BY <1>4 DEF RequestFails
  <2>2. Owed = "none" /\ Owed' \in {"none", "settled"}
    BY <1>4, <2>1 DEF RequestFails, Owed, KindOf, Calls
  <2>3. Owed' \notin Relogins
    BY <2>2 DEF Relogins
  <2>4. Remains(wire', Owed')
    BY <1>0, <2>1, <2>2, <2>3, Weaker
  <2> QED
    BY <1>4, <2>4 DEF RequestFails, Working, Sequenced, Upto, Calls, IsQuery
<1>5. CASE MarkQuery \/ SetSyncWait \/ Wait
  <2>1. Owed' = Owed /\ Remains(wire', Owed')
    BY <1>0, <1>5 DEF MarkQuery, SetSyncWait, Wait, Owed, Calls
  <2>2. /\ call \in Calls /\ step' \in {"marked", "flagged", "asleep"}
        /\ UNCHANGED <<call, answered, checked, inited>>
    BY <1>5 DEF MarkQuery, SetSyncWait, Wait, IsQuery, Calls
  <2> QED
    BY <2>1, <2>2 DEF Working, Sequenced
<1>6. CASE Resume
  <2>1. /\ step = "awake" /\ call \in answered /\ step' = "begin"
        /\ UNCHANGED <<wire, answered, checked>>
    BY <1>6 DEF Resume, Sequenced
  <2>2. Owed = "none" /\ Owed' = "none"
    BY <2>1 DEF Owed
  <2>3. /\ call \in {"settle", "positions", "orders"} /\ call' = After(call)
        /\ inited' = TRUE
    BY <1>6 DEF Resume, Working, Calls, Typed
  <2>4. /\ call' \in {"positions", "orders", "done"}
        /\ Upto(call) \subseteq Upto(call') /\ call' \notin Upto(call)
    BY <2>3 DEF After, Upto, Calls
  <2> QED
    BY <1>0, <2>1, <2>2, <2>3, <2>4 DEF Working, Sequenced, Calls
<1>7. CASE Connected \/ Authenticated \/ LoginFails \/ LoggedIn
  <2>1. wire # <<>> /\ Head(wire).kind \in {"connected", "authenticated", "login", "ready"}
    BY <1>7 DEF Connected, Authenticated, LoginFails, LoggedIn, Heads
  <2>2. Tail(wire) \in Seq(Messages) /\ Remains(Tail(wire), Owed)
    BY <2>1, FirstMessage
  <2>3. "authenticated" \in Relogins /\ "login" \in Relogins
    BY DEF Relogins
  <2>4. /\ Remains(Append(Tail(wire), Plain("authenticated")), Owed)
        /\ Remains(Append(Tail(wire), Plain("login")), Owed)
    BY <1>0, <2>2, <2>3, AppendRemains
  <2>5. Remains(wire', Owed)
    BY <1>7, <2>2, <2>4 DEF Connected, Authenticated, LoginFails, LoggedIn
  <2>6. ~checked'
    BY <1>7, Zenon DEF Connected, Authenticated, LoginFails, LoggedIn, Working
  <2>7. /\ answered \subseteq answered' /\ answered' \subseteq answered \cup {"login"}
        /\ UNCHANGED <<call, step, inited>>
    BY <1>7 DEF Connected, Authenticated, LoginFails, LoggedIn
  <2>8. call # "login" /\ "login" \in Upto(call)
    BY DEF Working, Upto, Calls
  <2>9. Owed' = Owed
    BY <2>7, <2>8 DEF Owed
  <2> QED
    BY <2>5, <2>6, <2>7, <2>8, <2>9 DEF Working, Sequenced, Calls
<1>8. CASE NotifyLogin
  BY <1>8 DEF NotifyLogin, Working
<1>9. CASE Answered("login")
  <2>1. wire # <<>> /\ Head(wire).kind = "ready"
    BY <1>9 DEF Answered, Heads
  <2> QED
    BY <2>1, FirstMessage, OwedKinds DEF Relogins
<1>10. CASE Answered("settle")
  <2>1. wire # <<>> /\ Head(wire).kind = "settled" /\ wire' = Tail(wire)
    BY <1>10 DEF Answered, Heads
  <2>2. Owed = "settled"
    BY <2>1, FirstMessage DEF Relogins
  <2>3. call = "settle" /\ step # "begin"
    BY <2>2 DEF Owed, KindOf, Calls
  <2>4. Head(wire).last
    BY <2>1, HeadTyped DEF Messages
  <2>5. Remains(wire', "none")
    BY <2>1, <2>2, <2>4, FirstMessage
  <2>6. /\ call' = call /\ answered' = answered \cup {"settle"} /\ step' \in {step, "awake"}
        /\ UNCHANGED <<checked, inited>>
    BY <1>10 DEF Answered, Notify
  <2>7. Owed' = "none"
    BY <2>3, <2>6 DEF Owed
  <2> QED
    BY <2>3, <2>5, <2>6, <2>7 DEF Working, Sequenced, Upto, Calls
<1>11. ASSUME NEW c \in {"positions", "orders"}, QueryRow(c) \/ QueryError(c)
       PROVE  Sequenced' /\ Working'
  <2>1. wire # <<>> /\ Head(wire).kind = c
    BY <1>11 DEF QueryRow, QueryError, Heads
  <2>2. Owed = c
    BY <2>1, FirstMessage DEF Relogins
  <2>3. call = c /\ step # "begin" /\ c \notin answered /\ c \in Calls \ {"login"}
    BY <2>2 DEF Owed, KindOf, Calls
  <2>4. \/ /\ answered' = answered \cup {c} /\ step' \in {step, "awake"}
           /\ wire' = Behind(c) \/ (wire' = Tail(wire) /\ Head(wire).last)
        \/ /\ answered' = answered /\ step' = step
           /\ wire' \in {Behind(c), Tail(wire)}
    BY <1>11 DEF QueryRow, QueryError, Notify
  <2>5. UNCHANGED <<call, checked, inited>>
    BY <1>11 DEF QueryRow, QueryError
  <2>6. /\ Remains(Tail(wire), c)
        /\ Head(wire).last => Remains(Tail(wire), "none")
    BY <1>0, <2>1, <2>2, FirstMessage
  <2>10. ASSUME QueryError(c) PROVE Remains(Behind(c), "none") /\ Remains(Behind(c), c)
    <3>1. /\ Behind(c) \in Seq(Messages)
          /\ \A i \in 1..Len(Behind(c)) : Behind(c)[i].kind \in Relogins
      BY <1>0, <2>2, <2>10, AnswerPassed DEF QueryError
    <3>2. c \notin Relogins
      BY DEF Relogins
    <3> QED
      BY <1>0, <3>1, <3>2, Weaker
  <2>11. QueryRow(c) => wire' = Tail(wire) /\ (answered' = answered \/ Head(wire).last)
    BY DEF QueryRow
  <2>12. QueryError(c) => wire' = Behind(c)
    BY DEF QueryError
  <2>7. Owed' = IF c \in answered' THEN "none" ELSE c
    BY <2>3, <2>4, <2>5 DEF Owed, KindOf
  <2>8. Remains(wire', Owed')
    BY <1>11, <2>3, <2>6, <2>7, <2>10, <2>11, <2>12
  <2>9. c \in Upto(call)
    BY <2>3 DEF Upto, Calls
  <2> QED
    BY <2>3, <2>4, <2>5, <2>8, <2>9 DEF Working, Sequenced
<1>12. CASE Drop
  <2>1. /\ wire' = <<Plain("connected")>> \/ wire' = <<>>
        /\ UNCHANGED <<call, step, answered, checked, inited>>
    BY <1>12 DEF Drop
  <2>2. Owed' = Owed
    BY <2>1 DEF Owed
  <2>3. Remains(wire', Owed')
    BY <1>0, <2>1, <2>2, Reconnecting
  <2> QED
    BY <2>1, <2>3 DEF Working, Sequenced
<1>13. CASE SpuriousWakeup
  <2>1. /\ step = "asleep" /\ step' = "awake" /\ call \in answered
        /\ UNCHANGED <<call, wire, answered, checked, inited>>
    BY <1>13 DEF SpuriousWakeup, InStep
  <2>2. Owed' = Owed
    BY <2>1 DEF Owed
  <2> QED
    BY <1>0, <2>1, <2>2 DEF Working, Sequenced
<1> QED
  BY <1>1, <1>2, <1>3, <1>4, <1>5, <1>6, <1>7, <1>8, <1>9, <1>10, <1>11, <1>12, <1>13
     DEF Next, Main, Api

LEMMA LogoutCloses ==
  ASSUME Logout
  PROVE  Sequenced' /\ Closed' /\ InStep'
BY DEF Logout, Sequenced, Closed, InStep, Upto, Calls

\* What a session has met stays with it.
LEMMA GapsStay ==
  ASSUME Next, ~Logout
  PROVE  gaps \subseteq gaps'
<1> USE DEF histVars
<1>1. Start \/ Main \/ SpuriousWakeup \/ Api \/ Drop
  BY DEF Next
<1>2. CASE Start \/ SpuriousWakeup \/ Drop
  BY <1>2 DEF Start, SpuriousWakeup, Drop
<1>3. CASE Main
  BY <1>3 DEF Main, Request, QueryPending, RequestFails, MarkQuery, SetSyncWait, Wait,
              Resume
<1>4. CASE Api
  BY <1>4 DEF Api, Connected, Authenticated, LoginFails, LoggedIn, NotifyLogin, Answered,
              QueryRow, QueryError
<1> QED
  BY <1>1, <1>2, <1>3, <1>4

LEMMA OrderedStep == Typed /\ Ordered /\ [Next]_vars => Ordered'
<1> SUFFICES ASSUME Typed, Ordered, [Next]_vars, InStep'
             PROVE  Sequenced' /\ (Closed' \/ Opening' \/ Working')
  BY DEF Ordered
<1> USE DEF mainVars, flagVars, mapVars, apiVars, histVars
<1>1. CASE Logout
  BY <1>1, LogoutCloses
<1>2. CASE Next /\ ~Logout
  <2>1. InStep
    BY <1>2, GapsStay DEF InStep
  <2>2. CASE Closed
    BY <1>2, <2>1, <2>2, ClosedStep DEF Ordered
  <2>3. CASE Opening
    <3>1. ~Drop
      BY <2>3 DEF Opening, Drop, InStep
    <3> QED
      BY <1>2, <2>1, <2>3, <3>1, OpeningStep DEF Ordered
  <2>4. CASE Working
    BY <1>2, <2>1, <2>4, WorkingStep DEF Ordered
  <2> QED
    BY <2>1, <2>2, <2>3, <2>4 DEF Ordered
<1>3. CASE UNCHANGED vars
  BY <1>3 DEF vars, Ordered, InStep, Sequenced, Closed, Opening, Openings, Working, Owed
<1> QED
  BY <1>1, <1>2, <1>3

LEMMA OrderedAlways == Spec => []Ordered
<1>1. Init => Ordered
  BY DEF Init, Ordered, Sequenced, Closed, Upto, Calls
<1> QED
  BY <1>1, TypedAlways, OrderedStep, PTL DEF Spec

\* Although the threads share one condition variable without a predicate, no
\* call goes on before its own answer is in, however the callbacks fall
\* between its steps, as long as no login is repeated before it is through and
\* no wait ends by itself.
THEOREM WokenByOwn == Spec => []WokenByOwnAnswer
<1>1. Ordered => WokenByOwnAnswer
  BY DEF Ordered, InStep, Sequenced, WokenByOwnAnswer
<1> QED
  BY <1>1, OrderedAlways, PTL

-----------------------------------------------------------------------------
(* What the rows of a query leave.  While its answer is awaited it is dropped,
   untold or being told; the flag that clears the map is set until the first
   row, except where TAP has sent the request and not marked it yet. *)

Dropped == Remains(wire, "none")

Unmarked == api = "tap" /\ step = "sent"

Untold == RowsOf(wire, call) = rows[call] /\ (inQuery \/ Unmarked)

Telling == ~inQuery /\ ~Unmarked /\ data[call] \cup RowsOf(wire, call) = rows[call]

Fetched ==
  /\ call \in {"orders", "done"} => data["positions"] = rows["positions"]
  /\ call = "done" => data["orders"] = rows["orders"]
  /\ IsQuery(call) /\ call \in answered => data[call] = rows[call]

Awaited ==
  IsQuery(call) /\ step # "begin" /\ call \notin answered => Dropped \/ Untold \/ Telling

\* TAP's index holds the orders that were told, and none before.
Indexed ==
  /\ call \in {"login", "settle", "positions"} \/ (call = "orders" /\ step = "begin")
       => index = {}
  /\ call = "orders" /\ api = "tap" => RowsOf(wire, "orders") \cap index = {}

Whole == gaps = {} => Fetched /\ Awaited /\ Indexed

LEMMA QueryWire ==
  ASSUME Typed, Working, IsQuery(call)
  PROVE  call \notin Relogins /\ Remains(wire, call)
<1>1. call \notin Relogins /\ Owed \in {"none", call}
  BY DEF IsQuery, Relogins, Owed, KindOf, Calls
<1> QED
  BY <1>1, Weaker DEF Typed, Working

\* A message that is no query's leaves the rows to come.
LEMMA SignalKeepsRows ==
  ASSUME Typed, Working, IsQuery(call), wire # <<>>,
         Head(wire).kind \notin {"positions", "orders"},
         wire' \in {Tail(wire), Append(Tail(wire), Plain("authenticated")),
                   Append(Tail(wire), Plain("login"))},
         call' = call
  PROVE  RowsOf(wire', call) = RowsOf(wire, call) /\ (Dropped => Dropped')
<1>1. call \notin Relogins /\ Remains(wire, call) /\ "none" \notin Relogins
  BY QueryWire DEF Relogins
<1>2. "authenticated" \in Relogins /\ "login" \in Relogins
  BY DEF Relogins
<1>3. Head(wire).kind # call
  BY DEF IsQuery
<1>4. /\ Tail(wire) \in Seq(Messages) /\ Remains(Tail(wire), call)
      /\ RowsOf(Tail(wire), call) = RowsOf(wire, call)
  <2>1. wire \in Seq(Messages)
    BY DEF Typed
  <2>2. /\ Tail(wire) \in Seq(Messages) /\ Remains(Tail(wire), call)
        /\ RowsOf(wire, call) = RowsOf(Tail(wire), call)
                             \cup (IF Head(wire).kind = call THEN Head(wire).row ELSE {})
    BY <1>1, <2>1, TailRemains
  <2> QED
    BY <1>3, <2>2
<1>5. RowsOf(wire', call) = RowsOf(wire, call)
  BY <1>1, <1>2, <1>4, AppendRemains
<1>6. ASSUME Dropped PROVE Remains(wire', "none")
  <2>1. Remains(Tail(wire), "none")
    BY <1>6, TailRemains DEF Dropped, Typed
  <2> QED
    BY <1>1, <1>2, <1>4, <2>1, AppendRemains
<1> QED
  BY <1>5, <1>6 DEF Dropped

LEMMA RowTaken ==
  ASSUME Typed, Sequenced, Working, Fetched, Awaited, Indexed,
         NEW c \in {"positions", "orders"}, QueryRow(c), gaps' = {}
  PROVE  Fetched' /\ Awaited' /\ Indexed'
<1> DEFINE m == Head(wire)
           T == Taken(c, data[c], m)
<1>1. wire # <<>> /\ m.kind = c /\ wire' = Tail(wire)
  BY DEF QueryRow, Heads
<1>2. Owed = c
  BY <1>1, FirstMessage DEF Relogins
<1>3. call = c /\ step # "begin" /\ c \notin answered /\ IsQuery(call)
  BY <1>2 DEF Owed, KindOf, Calls, IsQuery
<1>4. c \notin Relogins /\ Remains(wire, c)
  BY <1>3, QueryWire
<1>5. /\ RowsOf(wire, c) = RowsOf(wire', c) \cup m.row
      /\ m.row \cap RowsOf(wire', c) = {}
  BY <1>1, <1>4, TailRemains DEF Typed
<1>6. ~Unmarked
  BY DEF QueryRow, Unmarked, Typed
<1>7. ~Dropped
  <2>1. Dropped => m.kind \in Relogins \cup {"none"}
    BY <1>1, TailRemains DEF Dropped, Typed
  <2> QED
    BY <1>1, <1>4, <2>1
<1>8. (Untold /\ inQuery) \/ Telling
  BY <1>3, <1>6, <1>7 DEF Awaited, Untold
<1>9. c = "orders" /\ api = "tap" => m.row \cap index = {} /\ RowsOf(wire', c) \cap index = {}
  BY <1>3, <1>5 DEF Indexed
<1>10. T = (IF inQuery THEN {} ELSE data[c]) \cup m.row
  BY <1>9 DEF Taken
<1>11. T \cup RowsOf(wire', c) = rows[c]
  BY <1>3, <1>5, <1>8, <1>10 DEF Untold, Telling
<1>12. /\ data' = [data EXCEPT ![c] = T] /\ inQuery' = FALSE
       /\ index' = IF c = "orders" /\ api = "tap" THEN index \cup m.row ELSE index
       /\ UNCHANGED <<call, rows, api>>
  BY DEF QueryRow, MapOf
<1>13. m.last => answered' = answered \cup {c} /\ step' \in {step, "awake"}
  BY DEF QueryRow, Notify
<1>14. ~m.last => answered' = answered /\ step' = step
  BY DEF QueryRow, mainVars
<1> HIDE DEF T
<1>15. data'[c] = T /\ (c = "orders" => data'["positions"] = data["positions"])
  BY <1>12 DEF Typed, TypeOK
<1>16. step' # "begin"
  BY <1>3, <1>13, <1>14
<1>17. m.last => T = rows[c]
  <2>1. m.last => Remains(wire', "none")
    BY <1>1, <1>2, FirstMessage
  <2>2. wire' \in Seq(Messages)
    BY <1>1, HeadTyped
  <2>3. m.last => RowsOf(wire', c) = {}
    BY <1>4, <2>1, <2>2, Weaker
  <2> QED
    BY <1>11, <2>3
<1>18. Fetched'
  <2>1. call' = c /\ (c \in answered' => data'[c] = rows'[c])
    BY <1>3, <1>12, <1>14, <1>15, <1>17
  <2>2. c = "orders" => data'["positions"] = rows'["positions"]
    BY <1>3, <1>12, <1>15 DEF Fetched
  <2> QED
    BY <2>1, <2>2 DEF Fetched
<1>19. Awaited'
  <2>1. CASE m.last
    BY <1>3, <1>12, <1>13, <2>1 DEF Awaited
  <2>2. CASE ~m.last
    <3>1. ~Unmarked'
      BY <1>6, <1>12, <1>14, <2>2 DEF Unmarked
    <3>2. Telling'
      BY <1>3, <1>11, <1>12, <1>15, <3>1 DEF Telling
    <3> QED
      BY <3>2 DEF Awaited
  <2> QED
    BY <2>1, <2>2
<1>20. Indexed'
  <2>1. c = "positions" => index' = {}
    BY <1>3, <1>12 DEF Indexed
  <2>2. c = "orders" /\ api = "tap" => RowsOf(wire', "orders") \cap index' = {}
    BY <1>5, <1>9, <1>12
  <2> QED
    BY <1>3, <1>12, <1>16, <2>1, <2>2 DEF Indexed
<1> QED
  BY <1>18, <1>19, <1>20

LEMMA WholeStep ==
  ASSUME Typed, Ordered, Whole, [Next]_vars, gaps' = {}
  PROVE  Fetched' /\ Awaited' /\ Indexed'
<1> USE DEF mainVars, flagVars, mapVars, apiVars, histVars
<1>1. CASE Logout
  BY <1>1 DEF Logout, Fetched, Awaited, Indexed, IsQuery
<1>2. CASE Next /\ ~Logout
  <2>1. gaps = {}
    BY <1>2, GapsStay
  <2>2. /\ Fetched /\ Awaited /\ Indexed
        /\ Sequenced /\ (Closed \/ Opening \/ Working)
    BY <2>1 DEF Whole, Ordered, InStep
  <2>3. IsQuery(call) => Working
    BY <2>2 DEF IsQuery, Closed, Opening
  <2>4. CASE Start
    BY <2>1, <2>4 DEF Start, Fetched, Awaited, Indexed, IsQuery
  <2>5. CASE Request
    <3>1. /\ call \in Calls /\ step = "begin" /\ step' = "sent" /\ wire' = wire \o Answer(call)
          /\ call \notin answered /\ UNCHANGED <<call, answered, data, rows, index, api>>
      BY <2>2, <2>5 DEF Request, Sequenced
    <3>2. IsQuery(call) => inQuery' = (inQuery \/ api = "ctp")
      BY <2>5 DEF Request
    <3>3. ASSUME IsQuery(call) PROVE RowsOf(wire', call) = rows[call]
      <4>1. call \in Calls \ {"login"} /\ call \notin Relogins /\ KindOf(call) = call
        BY <3>3 DEF IsQuery, Calls, Relogins, KindOf
      <4>2. Owed = "none" /\ Remains(wire, "none")
        BY <2>3, <3>1, <3>3 DEF Owed, Working
      <4>3. /\ Answer(call) \in Seq(Messages) /\ Remains(Answer(call), call)
            /\ RowsOf(Answer(call), call) = rows[call]
        BY <3>3, <4>1, AnswerTold
      <4>4. wire \in Seq(Messages)
        BY DEF Typed
      <4> QED
        BY <3>1, <4>1, <4>2, <4>3, <4>4, ConcatRemains
    <3>4. IsQuery(call) => Untold'
      BY <3>1, <3>2, <3>3 DEF Untold, Unmarked, Typed
    <3> QED
      BY <2>2, <3>1, <3>4 DEF Fetched, Awaited, Indexed, IsQuery
  <2>6. CASE QueryPending
    BY <2>6 DEF QueryPending, Fetched, Awaited, Indexed, IsQuery
  <2>7. CASE RequestFails
    BY <2>2, <2>7 DEF RequestFails, Fetched, Awaited, Indexed, IsQuery
  <2>8. CASE MarkQuery \/ SetSyncWait \/ Wait
    <3>1. /\ UNCHANGED <<api, rows, call, wire, data, index, answered>>
          /\ step # "begin" /\ step' \in {"marked", "flagged", "asleep"}
      BY <2>8 DEF MarkQuery, SetSyncWait, Wait, IsQuery
    <3>2. ~Unmarked'
      BY <3>1 DEF Unmarked
    <3>3. \/ Unmarked /\ inQuery' = TRUE
          \/ ~Unmarked /\ inQuery' = inQuery
          \/ ~IsQuery(call)
      BY <2>8 DEF MarkQuery, SetSyncWait, Wait, Unmarked, Calls, IsQuery
    <3>4. ASSUME IsQuery(call), call \notin answered PROVE Dropped' \/ Untold' \/ Telling'
      <4>1. Dropped \/ Untold \/ Telling
        BY <2>2, <3>1, <3>4 DEF Awaited
      <4> QED
        BY <3>1, <3>2, <3>3, <3>4, <4>1 DEF Dropped, Untold, Telling
    <3> QED
      BY <2>2, <3>1, <3>4 DEF Fetched, Awaited, Indexed, IsQuery
  <2>9. CASE Resume
    <3>1. /\ call \in Calls /\ step = "awake" /\ step' = "begin" /\ call' = After(call)
          /\ UNCHANGED <<api, rows, wire, data, index, answered>>
      BY <2>9 DEF Resume
    <3>2. call \in answered /\ call' \notin answered
      BY <2>2, <3>1 DEF Sequenced, After, Upto, Calls, Typed
    <3>3. /\ call' = "orders" => call = "positions"
          /\ call' = "done" => call = "orders"
          /\ call' \in {"settle", "positions", "orders", "done"}
          /\ call' \in {"settle", "positions"} => call \in {"login", "settle"}
      BY <3>1 DEF After, Calls, Typed
    <3>4. /\ call' \in {"orders", "done"} => data'["positions"] = rows'["positions"]
          /\ call' = "done" => data'["orders"] = rows'["orders"]
      BY <2>2, <3>1, <3>2, <3>3 DEF Fetched, IsQuery
    <3>5. call' # "done" => index' = {}
      BY <2>2, <3>1, <3>3 DEF Indexed
    <3> QED
      BY <3>1, <3>2, <3>3, <3>4, <3>5 DEF Fetched, Awaited, Indexed
  <2>10. CASE Connected \/ Authenticated \/ LoginFails \/ LoggedIn \/ Answered("login")
              \/ Answered("settle")
    <3>1. /\ wire # <<>> /\ Head(wire).kind \notin {"positions", "orders"}
          /\ wire' \in {Tail(wire), Append(Tail(wire), Plain("authenticated")),
                        Append(Tail(wire), Plain("login"))}
          /\ UNCHANGED <<api, rows, call, data, index, inQuery>>
          /\ answered \subseteq answered' /\ answered' \subseteq answered \cup {"login", "settle"}
      BY <2>10 DEF Connected, Authenticated, LoginFails, LoggedIn, Answered, Heads
    <3>2. step' = step \/ (step = "asleep" /\ step' = "awake")
      BY <2>10 DEF Connected, Authenticated, LoginFails, LoggedIn, Answered, Notify
    <3>3. IsQuery(call) => RowsOf(wire', call) = RowsOf(wire, call) /\ (Dropped => Dropped')
      BY <2>3, <3>1, SignalKeepsRows
    <3>4. IsQuery(call) => (call \in answered' <=> call \in answered)
      BY <3>1 DEF IsQuery
    <3>5. Unmarked' = Unmarked
      BY <3>1, <3>2 DEF Unmarked
    <3>6. IsQuery(call) => (Untold => Untold') /\ (Telling => Telling')
      BY <3>1, <3>3, <3>5 DEF Untold, Telling
    <3>7. Fetched'
      BY <2>2, <3>1, <3>4 DEF Fetched
    <3>8. Awaited'
      BY <2>2, <3>1, <3>2, <3>3, <3>4, <3>6 DEF Awaited
    <3>9. Indexed'
      BY <2>2, <3>1, <3>2, <3>3 DEF Indexed, IsQuery
    <3> QED
      BY <3>7, <3>8, <3>9
  <2>11. CASE NotifyLogin
    <3>1. (call = "login" /\ step' # "begin") \/ Closed
      BY <2>2, <2>11 DEF NotifyLogin, Notify, Opening, Working
    <3> QED
      BY <2>2, <2>11, <3>1 DEF NotifyLogin, Closed, Opening, Fetched, Awaited, Indexed, IsQuery
  <2>12. ASSUME NEW c \in {"positions", "orders"}, QueryRow(c)
         PROVE  Fetched' /\ Awaited' /\ Indexed'
    <3>1. Working
      <4>1. ~Closed
        BY <2>12 DEF QueryRow, Heads, Closed
      <4>2. ~Opening
        BY <2>12, OpeningWire DEF QueryRow, Heads
      <4> QED
        BY <2>2, <4>1, <4>2
    <3> QED
      BY <2>2, <2>12, <3>1, RowTaken
  <2>13. ASSUME NEW c \in {"positions", "orders"} PROVE ~QueryError(c)
    BY DEF QueryError
  <2>14. CASE Drop
    <3>1. /\ wire' = <<Plain("connected")>> \/ wire' = <<>>
          /\ UNCHANGED <<api, rows, call, step, data, index, inQuery, answered>>
      BY <2>14 DEF Drop
    <3>2. "none" \notin Relogins /\ "orders" \notin Relogins
      BY DEF Relogins
    <3>3. Dropped' /\ RowsOf(wire', "orders") = {}
      BY <3>1, <3>2, Reconnecting DEF Dropped
    <3> QED
      BY <2>2, <3>1, <3>3 DEF Fetched, Awaited, Indexed
  <2>15. CASE SpuriousWakeup
    <3>1. /\ step = "asleep" /\ call \in answered
          /\ UNCHANGED <<api, rows, call, wire, data, index, answered>>
      BY <2>15 DEF SpuriousWakeup
    <3>2. step' # "begin"
      BY <2>15 DEF SpuriousWakeup
    <3> QED
      BY <2>2, <3>1, <3>2 DEF Fetched, Awaited, Indexed
  <2> QED
    BY <1>2, <2>4, <2>5, <2>6, <2>7, <2>8, <2>9, <2>10, <2>11, <2>12, <2>13, <2>14, <2>15
       DEF Next, Main, Api
<1>3. CASE UNCHANGED vars
  BY <1>3 DEF vars, Whole, Fetched, Awaited, Indexed, Dropped, Untold, Telling, Unmarked
<1> QED
  BY <1>1, <1>2, <1>3

\* When both queries are through, the context starts from every position and
\* order of the account: between a query's flag, its rows and the waits no step
\* can lose or keep a row too many, outside the gaps.
THEOREM FetchesAll == Spec => []DataComplete
<1>1. Init => Whole
  BY DEF Init, Whole, Fetched, Awaited, Indexed, IsQuery
<1>2. Typed /\ Ordered /\ Whole /\ [Next]_vars => Whole'
  BY WholeStep DEF Whole
<1>3. Typed /\ Whole => DataComplete
  <2> SUFFICES ASSUME Typed, Whole, call = "done", gaps = {} PROVE data = rows
    BY DEF DataComplete
  <2>1. data["positions"] = rows["positions"] /\ data["orders"] = rows["orders"]
    BY DEF Whole, Fetched
  <2> QED
    BY <2>1 DEF Typed, TypeOK, Accounts
<1> QED
  BY <1>1, <1>2, <1>3, TypedAlways, OrderedAlways, PTL DEF Spec
=============================================================================
