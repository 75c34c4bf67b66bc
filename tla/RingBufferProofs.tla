-------------------------- MODULE RingBufferProofs --------------------------
(***************************************************************************)
(* RingBuffer for every size, width of an index and set of events: the two *)
(* threads never copy to and from one slot at a time, and the buffer       *)
(* implements the bounded queue of EventQueue.                             *)
(***************************************************************************)
EXTENDS RingBuffer, SequenceTheorems, TLAPS

-----------------------------------------------------------------------------
(* Remainders *)

LEMMA Division ==
  ASSUME NEW a \in Int, NEW b \in Nat \ {0}
  PROVE  a = b * (a \div b) + (a % b)
OBVIOUS

LEMMA ModParts ==
  ASSUME NEW a \in Int, NEW b \in Nat \ {0}
  PROVE  \E q \in Int, r \in 0..b - 1 : r = a % b /\ a = q * b + r
<1>1. a % b \in Int /\ a % b >= 0
  OBVIOUS
<1>2. a % b < b
  OBVIOUS
<1>3. a \div b \in Int
  OBVIOUS
<1>4. a % b \in 0..b - 1
  BY <1>1, <1>2
<1> DEFINE q == a \div b
           r == a % b
<1>5. a = q * b + r
  <2>1. a = b * q + r
    BY Division
  <2>2. q \in Int /\ r \in Int
    BY <1>1, <1>3
  <2> HIDE DEF q, r
  <2> QED
    BY <2>1, <2>2
<1>6. q \in Int /\ r \in 0..b - 1 /\ r = a % b
  BY <1>3, <1>4
<1> HIDE DEF q, r
<1> QED
  BY <1>5, <1>6

LEMMA Distributes ==
  ASSUME NEW p \in Int, NEW q \in Int, NEW b \in Int
  PROVE  (q - p) * b = q * b - p * b /\ (q + p) * b = q * b + p * b
OBVIOUS

LEMMA Multiples ==
  ASSUME NEW p \in Int, NEW q \in Int, NEW b \in Nat \ {0},
         NEW d \in Int, d = q * b - p * b
  PROVE  /\ d > 0 => d >= b
         /\ d < 0 => d <= -b
<1> DEFINE n == q - p
<1>1. d = n * b /\ n \in Int
  BY Distributes
<1> HIDE DEF n
<1>2. CASE n >= 1
  BY <1>1, <1>2
<1>3. CASE n <= -1
  BY <1>1, <1>3
<1>4. CASE n = 0
  BY <1>1, <1>4
<1> QED
  BY <1>1, <1>2, <1>3, <1>4

LEMMA ModUnique ==
  ASSUME NEW b \in Nat \ {0}, NEW q \in Int, NEW r \in 0..b - 1
  PROVE  (q * b + r) % b = r
<1> SUFFICES ASSUME NEW a \in Int, a = q * b + r
             PROVE  a % b = r
  OBVIOUS
<1>1. PICK p \in Int, m \in 0..b - 1 : m = a % b /\ a = p * b + m
  BY ModParts
<1> DEFINE d == m - r
<1>2. d \in Int /\ -b < d /\ d < b
  OBVIOUS
<1>3. d = q * b - p * b
  <2>1. p * b \in Int /\ q * b \in Int
    OBVIOUS
  <2>2. a = p * b + m
    BY <1>1
  <2> QED
    BY <2>1, <2>2
<1>4. d = 0
  <2> HIDE DEF d
  <2> QED
    BY <1>2, <1>3, Multiples
<1> QED
  BY <1>1, <1>4

\* Adding the width of an index changes no slot: the size divides it.
LEMMA SlotWraps ==
  ASSUME NEW x \in Int
  PROVE  Slot(x + Modulus) = Slot(x) /\ Slot(x - Modulus) = Slot(x)
<1>1. PICK k \in Int : Modulus = k * Size
  <2>1. PICK k \in Int, r \in 0..Size - 1 : r = Modulus % Size /\ Modulus = k * Size + r
    BY SizeAssumption, ModParts
  <2> QED
    BY <2>1, SizeAssumption
<1>2. PICK q \in Int, r \in 0..Size - 1 : r = x % Size /\ x = q * Size + r
  BY SizeAssumption, ModParts
<1>3. Size \in Nat \ {0} /\ q * Size \in Int /\ k * Size \in Int
  BY SizeAssumption
<1>4. (q + k) \in Int /\ (q - k) \in Int
  OBVIOUS
<1>5. (q + k) * Size = q * Size + k * Size /\ (q - k) * Size = q * Size - k * Size
  BY Distributes, <1>3
<1>6. x = q * Size + r
  BY <1>2
<1>7. x + Modulus = (q + k) * Size + r
  BY <1>1, <1>3, <1>5, <1>6
<1>8. x - Modulus = (q - k) * Size + r
  BY <1>1, <1>3, <1>5, <1>6
<1>9. ((q + k) * Size + r) % Size = r
  BY <1>3, <1>4, ModUnique
<1>10. ((q - k) * Size + r) % Size = r
  BY <1>3, <1>4, ModUnique
<1> QED
  BY <1>2, <1>7, <1>8, <1>9, <1>10 DEF Slot

\* Size indices in a row have slots of their own.
LEMMA SlotsDiffer ==
  ASSUME NEW x \in Int, NEW y \in Int, x < y, y < x + Size
  PROVE  Slot(x) # Slot(y)
<1> SUFFICES ASSUME Slot(x) = Slot(y) PROVE FALSE
  OBVIOUS
<1>1. PICK p \in Int, r \in 0..Size - 1 : r = x % Size /\ x = p * Size + r
  BY SizeAssumption, ModParts
<1>2. PICK q \in Int, m \in 0..Size - 1 : m = y % Size /\ y = q * Size + m
  BY SizeAssumption, ModParts
<1>3. r = m
  BY <1>1, <1>2 DEF Slot
<1>4. p * Size \in Int /\ q * Size \in Int /\ Size \in Nat \ {0}
  BY SizeAssumption
<1>5. x = p * Size + r /\ y = q * Size + r
  BY <1>1, <1>2, <1>3
<1> DEFINE d == y - x
<1>6. d = q * Size - p * Size
  BY <1>4, <1>5
<1>7. d \in Int /\ d > 0 /\ d < Size
  BY <1>4
<1> HIDE DEF d
<1> QED
  BY <1>4, <1>6, <1>7, Multiples

LEMMA SlotType == ASSUME NEW x \in Int PROVE Slot(x) \in Slots
BY SizeAssumption, ModParts DEF Slot, Slots

\* The difference of two indices, and the next index, without remainders.
LEMMA Difference ==
  ASSUME NEW h \in 0..Modulus - 1, NEW t \in 0..Modulus - 1
  PROVE  (h - t) % Modulus = IF h >= t THEN h - t ELSE h - t + Modulus
<1>1. CASE h >= t
  <2>1. h - t \in 0..Modulus - 1 /\ h - t = 0 * Modulus + (h - t)
    BY <1>1, SizeAssumption
  <2> QED
    BY <1>1, <2>1, ModUnique, SizeAssumption
<1>2. CASE h < t
  <2>1. h - t + Modulus \in 0..Modulus - 1 /\ h - t = (-1) * Modulus + (h - t + Modulus)
    BY <1>2, SizeAssumption
  <2> QED
    BY <1>2, <2>1, ModUnique, SizeAssumption
<1> QED
  BY <1>1, <1>2

LEMMA IncIs ==
  ASSUME NEW i \in 0..Modulus - 1
  PROVE  /\ Inc(i) = IF i = Modulus - 1 THEN 0 ELSE i + 1
         /\ Inc(i) \in 0..Modulus - 1
<1>1. CASE i = Modulus - 1
  <2>1. i + 1 = 1 * Modulus + 0 /\ 0 \in 0..Modulus - 1
    BY <1>1, SizeAssumption
  <2> QED
    BY <1>1, <2>1, ModUnique, SizeAssumption DEF Inc
<1>2. CASE i # Modulus - 1
  <2>1. i + 1 = 0 * Modulus + (i + 1) /\ i + 1 \in 0..Modulus - 1
    BY <1>2, SizeAssumption
  <2> QED
    BY <1>2, <2>1, ModUnique, SizeAssumption DEF Inc
<1> QED
  BY <1>1, <1>2

-----------------------------------------------------------------------------
(* The indices *)

LEMMA UsedIs ==
  ASSUME head \in 0..Modulus - 1, tail \in 0..Modulus - 1
  PROVE  Used = IF head >= tail THEN head - tail ELSE head - tail + Modulus
BY Difference DEF Used

LEMMA PublishFills ==
  ASSUME NEW h \in 0..Modulus - 1, NEW t \in 0..Modulus - 1,
         (h - t) % Modulus < Size
  PROVE  (Inc(h) - t) % Modulus = ((h - t) % Modulus) + 1
<1>1. (h - t) % Modulus = IF h >= t THEN h - t ELSE h - t + Modulus
  BY Difference
<1>2. (Inc(h) - t) % Modulus = IF Inc(h) >= t THEN Inc(h) - t ELSE Inc(h) - t + Modulus
  BY Difference, IncIs
<1>3. Inc(h) = IF h = Modulus - 1 THEN 0 ELSE h + 1
  BY IncIs
<1> HIDE DEF Inc
<1> DEFINE u == (h - t) % Modulus
           v == (Inc(h) - t) % Modulus
<1>4. u < Size
  OBVIOUS
<1> HIDE DEF u, v
<1>5. u = IF h >= t THEN h - t ELSE h - t + Modulus
  BY <1>1 DEF u
<1>6. v = IF Inc(h) >= t THEN Inc(h) - t ELSE Inc(h) - t + Modulus
  BY <1>2 DEF v
<1>7. v = u + 1
  BY <1>3, <1>4, <1>5, <1>6, SizeAssumption
<1> QED
  BY <1>7 DEF u, v

LEMMA ReleaseEmpties ==
  ASSUME NEW h \in 0..Modulus - 1, NEW t \in 0..Modulus - 1,
         (h - t) % Modulus > 0
  PROVE  (h - Inc(t)) % Modulus = ((h - t) % Modulus) - 1
<1>1. (h - t) % Modulus = IF h >= t THEN h - t ELSE h - t + Modulus
  BY Difference
<1>2. (h - Inc(t)) % Modulus = IF h >= Inc(t) THEN h - Inc(t) ELSE h - Inc(t) + Modulus
  BY Difference, IncIs
<1>3. Inc(t) = IF t = Modulus - 1 THEN 0 ELSE t + 1
  BY IncIs
<1> DEFINE u == (h - t) % Modulus
           v == (h - Inc(t)) % Modulus
<1>4. u > 0
  OBVIOUS
<1> HIDE DEF u, v
<1>5. u = IF h >= t THEN h - t ELSE h - t + Modulus
  BY <1>1 DEF u
<1>6. v = IF h >= Inc(t) THEN h - Inc(t) ELSE h - Inc(t) + Modulus
  BY <1>2 DEF v
<1>7. v = u - 1
  BY <1>3, <1>4, <1>5, <1>6, SizeAssumption
<1> QED
  BY <1>7 DEF u, v

\* The slot the producer writes to is the one after those that wait.
LEMMA HeadSlot ==
  ASSUME head \in 0..Modulus - 1, tail \in 0..Modulus - 1
  PROVE  Slot(head) = Slot(tail + Used) /\ Used \in Nat
<1>1. Used = IF head >= tail THEN head - tail ELSE head - tail + Modulus
  BY UsedIs
<1> HIDE DEF Used
<1>2. Used \in Nat
  BY <1>1, SizeAssumption
<1>3. CASE head >= tail
  BY <1>1, <1>2, <1>3
<1>4. CASE head < tail
  <2>1. tail + Used = head + Modulus
    BY <1>1, <1>4, SizeAssumption
  <2> QED
    BY <1>2, <2>1, SlotWraps
<1> QED
  BY <1>3, <1>4

LEMMA NextSlot ==
  ASSUME NEW t \in 0..Modulus - 1, NEW i \in Int
  PROVE  Slot(Inc(t) + i) = Slot(t + 1 + i)
<1>1. CASE t = Modulus - 1
  <2>1. Inc(t) + i = (t + 1 + i) - Modulus
    BY <1>1, IncIs, SizeAssumption
  <2>2. t + 1 + i \in Int
    OBVIOUS
  <2> QED
    BY <2>1, <2>2, SlotWraps
<1>2. CASE t # Modulus - 1
  BY <1>2, IncIs
<1> QED
  BY <1>1, <1>2

-----------------------------------------------------------------------------
(***************************************************************************)
(* The invariant.  Whatever interleaving, the producer that has passed its *)
(* check finds room when it gets to the slot and the consumer an event,    *)
(* because each only moves in the other's favour; and the slots from tail  *)
(* on hold what was fired.                                                 *)
(***************************************************************************)

Filled == \A i \in 0..Used - 1 : data_buff[Slot(tail + i)] \in Events

IInv ==
  /\ TypeOK
  /\ Used <= Size
  /\ producer \in {"write", "publish"} => Used < Size
  /\ consumer \in {"read", "release"} => Used > 0
  /\ producer # "idle" => event \in Events
  /\ producer = "publish" => data_buff[Slot(head)] = event
  /\ consumer = "release" => data = data_buff[Slot(tail)]
  /\ consumer = "trigger" => data \in Events
  /\ Filled

LEMMA InitIInv == Init => IInv
<1> SUFFICES ASSUME Init PROVE IInv
  OBVIOUS
<1>1. TypeOK
  BY SizeAssumption DEF Init, TypeOK
<1>2. Used = 0
  BY UsedIs, SizeAssumption DEF Init
<1> QED
  BY <1>1, <1>2, SizeAssumption DEF Init, IInv, Filled

LEMMA NextIInv == IInv /\ [Next]_vars => IInv'
<1> SUFFICES ASSUME IInv, [Next]_vars PROVE IInv'
  OBVIOUS
<1> USE DEF IInv
<1>0. /\ head \in 0..Modulus - 1 /\ tail \in 0..Modulus - 1
      /\ Used \in Nat /\ Slot(head) = Slot(tail + Used)
  BY HeadSlot DEF TypeOK
<1>1. ASSUME UNCHANGED <<head, tail>> PROVE Used' = Used /\ Slot(head)' = Slot(head) /\ Slot(tail)' = Slot(tail)
  BY <1>1 DEF Used, Slot
<1>2. ASSUME UNCHANGED <<head, tail, data_buff>> PROVE Filled'
  BY <1>2, <1>1 DEF Filled, Slot
<1>3. ASSUME NEW e \in Events, Fire(e) PROVE IInv'
  BY <1>1, <1>2, <1>3 DEF Fire, TypeOK, Slot
<1>4. CASE Insert
  BY <1>0, <1>1, <1>2, <1>4, SizeAssumption DEF Insert, TypeOK, Slot
<1>5. CASE Write
  <2>1. /\ Used < Size /\ event \in Events /\ UNCHANGED <<head, tail>>
        /\ data_buff' = [data_buff EXCEPT ![Slot(head)] = event]
    BY <1>5 DEF Write
  <2>2. /\ Slot(head) \in Slots
        /\ data_buff' \in [Slots -> Events \cup {Nothing}]
        /\ data_buff'[Slot(head)] = event
    BY <1>0, <2>1, SlotType DEF TypeOK
  <2>3. ASSUME NEW i \in 0..Used - 1
        PROVE  data_buff'[Slot(tail + i)] = data_buff[Slot(tail + i)]
    <3>1. Slot(tail + i) # Slot(tail + Used)
      <4>1. /\ tail + i \in Int /\ tail + Used \in Int
            /\ tail + i < tail + Used /\ tail + Used < (tail + i) + Size
        BY <1>0, <2>1, SizeAssumption
      <4> QED
        BY <4>1, SlotsDiffer
    <3>2. Slot(tail + i) \in Slots
      BY <1>0, SlotType
    <3> QED
      BY <1>0, <2>1, <3>1, <3>2 DEF TypeOK
  <2>4. Filled'
    BY <1>1, <2>1, <2>3 DEF Filled, Slot
  <2>5. Used > 0 => data_buff'[Slot(tail)] = data_buff[Slot(tail)]
    BY <1>0, <2>3
  <2>6. TypeOK'
    BY <1>5, <2>1, <2>2 DEF Write, TypeOK
  <2> QED
    BY <1>1, <1>5, <2>1, <2>2, <2>4, <2>5, <2>6 DEF Write
<1>6. CASE Publish
  <2>1. /\ Used < Size /\ event \in Events /\ data_buff[Slot(head)] = event
        /\ head' = Inc(head) /\ UNCHANGED <<tail, data_buff>>
    BY <1>6 DEF Publish
  <2>2. Used' = Used + 1
    BY <1>0, <2>1, PublishFills DEF Used
  <2>3. Filled'
    <3> SUFFICES ASSUME NEW i \in 0..Used' - 1
                 PROVE  data_buff[Slot(tail + i)] \in Events
      BY <2>1 DEF Filled, Slot
    <3>1. CASE i = Used
      BY <1>0, <2>1, <3>1
    <3>2. CASE i # Used
      BY <1>0, <2>2, <3>2 DEF Filled
    <3> QED
      BY <3>1, <3>2
  <2>4. TypeOK'
    BY <1>6, <1>0, <2>1, IncIs DEF Publish, TypeOK
  <2>5. Slot(tail)' = Slot(tail)
    BY <2>1 DEF Slot
  <2> QED
    BY <1>0, <1>6, <2>1, <2>2, <2>3, <2>4, <2>5, SizeAssumption DEF Publish
<1>7. CASE Process
  BY <1>1, <1>2, <1>7 DEF Process, TypeOK, Slot
<1>8. CASE Remove
  <2>1. head # tail => Used > 0
    BY <1>0, UsedIs, SizeAssumption
  <2> QED
    BY <1>1, <1>2, <1>8, <2>1 DEF Remove, TypeOK, Slot
<1>9. CASE Read
  <2>1. Slot(tail) \in Slots
    BY <1>0, SlotType
  <2> QED
    BY <1>1, <1>2, <1>9, <2>1 DEF Read, TypeOK, Slot
<1>10. CASE Release
  <2>1. /\ Used > 0 /\ data = data_buff[Slot(tail)]
        /\ tail' = Inc(tail) /\ UNCHANGED <<head, data_buff>>
    BY <1>10 DEF Release
  <2>2. Used' = Used - 1
    BY <1>0, <2>1, ReleaseEmpties DEF Used
  <2>3. Filled'
    <3> SUFFICES ASSUME NEW i \in 0..Used' - 1
                 PROVE  data_buff[Slot(Inc(tail) + i)] \in Events
      BY <2>1 DEF Filled, Slot
    <3>1. Slot(Inc(tail) + i) = Slot(tail + (1 + i)) /\ 1 + i \in 0..Used - 1
      BY <1>0, <2>2, NextSlot
    <3> QED
      BY <3>1 DEF Filled
  <2>4. data \in Events
    <3>1. 0 \in 0..Used - 1 /\ tail + 0 = tail
      BY <1>0, <2>1
    <3> QED
      BY <2>1, <3>1 DEF Filled
  <2>5. TypeOK'
    BY <1>10, <1>0, <2>1, IncIs DEF Release, TypeOK
  <2>6. Slot(head)' = Slot(head)
    BY <2>1 DEF Slot
  <2> QED
    BY <1>0, <1>10, <2>1, <2>2, <2>3, <2>4, <2>5, <2>6, SizeAssumption DEF Release
<1>11. CASE Trigger
  BY <1>1, <1>2, <1>11 DEF Trigger, TypeOK, Slot
<1>12. CASE UNCHANGED vars
  BY <1>1, <1>2, <1>12 DEF vars, TypeOK, Slot
<1> QED
  BY <1>3, <1>4, <1>5, <1>6, <1>7, <1>8, <1>9, <1>10, <1>11, <1>12
     DEF Next, Producer, Consumer

LEMMA IInvAlways == Spec => []IInv
  BY InitIInv, NextIInv, PTL DEF Spec

\* The indices never leave their width and the slots hold events.
THEOREM TypeCorrect == Spec => []TypeOK
<1>1. IInv => TypeOK
  BY DEF IInv
<1> QED
  BY <1>1, IInvAlways, PTL

\* No interleaving lets the threads copy to and from one slot at a time, for
\* every size and every width of an index.
THEOREM CopiesApart == Spec => []NoOverlap
<1>1. IInv => NoOverlap
  <2> SUFFICES ASSUME IInv, producer = "write", consumer = "read" PROVE Slot(head) # Slot(tail)
    BY DEF NoOverlap
  <2>1. /\ head \in 0..Modulus - 1 /\ tail \in 0..Modulus - 1
        /\ Used > 0 /\ Used < Size
    BY DEF IInv, TypeOK
  <2>2. Slot(head) = Slot(tail + Used) /\ Used \in Nat
    BY <2>1, HeadSlot
  <2>3. /\ tail \in Int /\ tail + Used \in Int
        /\ tail < tail + Used /\ tail + Used < tail + Size
    BY <2>1, <2>2, SizeAssumption
  <2> QED
    BY <2>2, <2>3, SlotsDiffer
<1> QED
  BY <1>1, IInvAlways, PTL

-----------------------------------------------------------------------------
(* The buffer implements EventQueue. *)

LEMMA IsSequence ==
  ASSUME NEW n \in Nat, NEW S, NEW f \in [1..n -> S]
  PROVE  f \in Seq(S) /\ Len(f) = n
OBVIOUS

\* The n slots from index t on are a sequence of events.
LEMMA SlotsAreSequence ==
  ASSUME NEW n \in Nat, NEW t \in Int, NEW b,
         \A i \in 0..n - 1 : b[Slot(t + i)] \in Events
  PROVE  /\ [i \in 1..n |-> b[Slot(t + i - 1)]] \in Seq(Events)
         /\ Len([i \in 1..n |-> b[Slot(t + i - 1)]]) = n
<1>1. ASSUME NEW i \in 1..n PROVE b[Slot(t + i - 1)] \in Events
  <2>1. i - 1 \in 0..n - 1 /\ t + (i - 1) = t + i - 1
    OBVIOUS
  <2>2. b[Slot(t + (i - 1))] \in Events
    BY <2>1
  <2> QED
    BY <2>1, <2>2
<1>2. [i \in 1..n |-> b[Slot(t + i - 1)]] \in [1..n -> Events]
  BY <1>1
<1> QED
  BY <1>2, IsSequence

\* A step that leaves what waits and what is in hand alone is a stutter.
LEMMA Stutters ==
  ASSUME UNCHANGED <<Used, InHand>>,
         \A i \in 1..Used : data_buff'[Slot(tail + i - 1)'] = data_buff[Slot(tail + i - 1)]
  PROVE  UNCHANGED Queue!vars
BY DEF Waiting, Queue!vars

LEMMA RefinesStep == IInv /\ IInv' /\ [Next]_vars => [Queue!Next]_(Queue!vars)
<1> SUFFICES ASSUME IInv, IInv', [Next]_vars PROVE [Queue!Next]_(Queue!vars)
  OBVIOUS
<1>0. /\ head \in 0..Modulus - 1 /\ tail \in 0..Modulus - 1 /\ tail \in Int
      /\ Used \in Nat /\ Slot(head) = Slot(tail + Used)
  BY HeadSlot DEF TypeOK, IInv
<1>1. Waiting \in Seq(Events) /\ Len(Waiting) = Used
  <2>1. \A i \in 0..Used - 1 : data_buff[Slot(tail + i)] \in Events
    BY DEF IInv, Filled
  <2> HIDE DEF Used
  <2> QED
    BY <1>0, <2>1, SlotsAreSequence DEF Waiting
<1>2. /\ head' \in 0..Modulus - 1 /\ tail' \in 0..Modulus - 1 /\ tail' \in Int
      /\ Used' \in Nat
  <2>1. /\ head' \in 0..Modulus - 1 /\ tail' \in 0..Modulus - 1 /\ tail' \in Int
    BY DEF TypeOK, IInv
  <2>2. (head' - tail') % Modulus \in Nat
    <3>1. head' - tail' \in Int /\ Modulus \in Nat \ {0}
      BY <2>1, SizeAssumption
    <3> QED
      BY <3>1, ModParts
  <2> QED
    BY <2>1, <2>2 DEF Used
<1>3. Waiting' \in Seq(Events) /\ Len(Waiting)' = Used'
  <2>1. \A i \in 0..Used' - 1 : data_buff'[Slot(tail' + i)] \in Events
    BY DEF IInv, Filled, Slot
  <2>2. Waiting' = [i \in 1..Used' |-> data_buff'[Slot(tail' + i - 1)]]
    BY DEF Waiting, Slot
  <2> HIDE DEF Used
  <2> QED
    BY <1>2, <2>1, <2>2, SlotsAreSequence
<1>4. ASSUME UNCHANGED <<head, tail, data_buff, InHand>> PROVE UNCHANGED Queue!vars
  BY <1>4, Stutters DEF Used, Slot
<1>5. ASSUME NEW e \in Events, Fire(e) PROVE UNCHANGED Queue!vars
  BY <1>4, <1>5 DEF Fire, InHand
<1>6. CASE Insert
  BY <1>4, <1>6 DEF Insert, InHand
<1>7. CASE Process
  BY <1>4, <1>7 DEF Process, InHand
<1>8. CASE Remove
  BY <1>4, <1>8 DEF Remove, InHand
<1>9. CASE Read
  BY <1>4, <1>9 DEF Read, InHand
<1>10. CASE UNCHANGED vars
  BY <1>4, <1>10 DEF vars, InHand
<1>11. CASE Write
  <2>1. /\ Used < Size /\ UNCHANGED <<head, tail, InHand>>
        /\ data_buff' = [data_buff EXCEPT ![Slot(head)] = event]
    BY <1>11 DEF Write, IInv, InHand
  <2>2. ASSUME NEW i \in 1..Used
        PROVE  data_buff'[Slot(tail + i - 1)] = data_buff[Slot(tail + i - 1)]
    <3>1. Slot(tail + i - 1) # Slot(tail + Used)
      <4>1. /\ tail + i - 1 \in Int /\ tail + Used \in Int
            /\ tail + i - 1 < tail + Used /\ tail + Used < (tail + i - 1) + Size
        BY <1>0, <2>1, SizeAssumption
      <4> QED
        BY <4>1, SlotsDiffer
    <3>2. Slot(tail + i - 1) \in Slots
      BY <1>0, SlotType
    <3> QED
      BY <1>0, <2>1, <3>1, <3>2 DEF TypeOK, IInv
  <2> QED
    BY <2>1, <2>2, Stutters DEF Used, Slot
<1>12. CASE Publish
  <2>1. /\ Used < Size /\ event \in Events /\ data_buff[Slot(head)] = event
        /\ head' = Inc(head) /\ UNCHANGED <<tail, data_buff, InHand>>
    BY <1>12 DEF Publish, IInv, InHand
  <2>2. Used' = Used + 1
    BY <1>0, <2>1, PublishFills DEF Used
  <2>3. Waiting' = Append(Waiting, event)
    <3>1. /\ Append(Waiting, event) \in Seq(Events)
          /\ Len(Append(Waiting, event)) = Used + 1
          /\ \A i \in 1..Used : Append(Waiting, event)[i] = Waiting[i]
          /\ Append(Waiting, event)[Used + 1] = event
      BY <1>1, <2>1, AppendProperties
    <3>2. ASSUME NEW i \in 1..Used + 1
          PROVE  Waiting'[i] = Append(Waiting, event)[i]
      <4>1. Waiting'[i] = data_buff[Slot(tail + i - 1)]
        BY <2>1, <2>2 DEF Waiting, Slot
      <4>2. CASE i = Used + 1
        <5>1. tail + i - 1 = tail + Used
          BY <1>0, <4>2
        <5> QED
          BY <1>0, <2>1, <3>1, <4>1, <4>2, <5>1
      <4>3. CASE i \in 1..Used
        BY <3>1, <4>1, <4>3 DEF Waiting
      <4>4. i = Used + 1 \/ i \in 1..Used
        BY <1>0
      <4> QED
        BY <4>2, <4>3, <4>4
    <3>3. Len(Waiting') = Len(Append(Waiting, event)) /\ Len(Waiting') = Used + 1
      BY <1>3, <2>2, <3>1
    <3> QED
      BY <1>3, <3>1, <3>2, <3>3, SeqEqual
  <2>4. Queue!Fire(event)
    BY <1>1, <2>1, <2>3 DEF Queue!Fire
  <2> QED
    BY <2>1, <2>4 DEF Queue!Next
<1>13. CASE Release
  <2>1. /\ Used > 0 /\ data = data_buff[Slot(tail)]
        /\ tail' = Inc(tail) /\ UNCHANGED <<head, data_buff>>
        /\ InHand = Nothing /\ InHand' = data
    BY <1>13 DEF Release, IInv, InHand
  <2>2. Used' = Used - 1
    BY <1>0, <2>1, ReleaseEmpties DEF Used
  <2>3. Waiting # <<>>
    BY <1>1, <2>1
  <2>4. Head(Waiting) = data
    <3>1. Head(Waiting) = Waiting[1] /\ 1 \in 1..Used /\ tail + 1 - 1 = tail
      BY <1>0, <1>1, <2>1, <2>3
    <3> QED
      BY <2>1, <3>1 DEF Waiting
  <2>5. Waiting' = Tail(Waiting)
    <3>1. /\ Tail(Waiting) \in Seq(Events) /\ Len(Tail(Waiting)) = Used - 1
          /\ \A i \in 1..Used - 1 : Tail(Waiting)[i] = Waiting[i + 1]
      BY <1>1, <2>3, HeadTailProperties
    <3>2. ASSUME NEW i \in 1..Used - 1
          PROVE  Waiting'[i] = Tail(Waiting)[i]
      <4>1. Waiting'[i] = data_buff[Slot(Inc(tail) + i - 1)]
        BY <2>1, <2>2 DEF Waiting, Slot
      <4>2. Slot(Inc(tail) + (i - 1)) = Slot(tail + 1 + (i - 1))
        BY <1>0, NextSlot
      <4>3. /\ Inc(tail) + i - 1 = Inc(tail) + (i - 1)
            /\ tail + (i + 1) - 1 = tail + 1 + (i - 1)
        BY <1>0, IncIs
      <4>4. Waiting[i + 1] = data_buff[Slot(tail + (i + 1) - 1)]
        BY <1>0 DEF Waiting
      <4> QED
        BY <3>1, <4>1, <4>2, <4>3, <4>4
    <3>3. Len(Waiting') = Len(Tail(Waiting)) /\ Len(Waiting') = Used - 1
      BY <1>3, <2>2, <3>1
    <3> QED
      BY <1>3, <3>1, <3>2, <3>3, SeqEqual
  <2>6. Queue!Take
    BY <2>1, <2>3, <2>4, <2>5 DEF Queue!Take
  <2> QED
    BY <2>6 DEF Queue!Next
<1>14. CASE Trigger
  <2>1. /\ UNCHANGED <<head, tail, data_buff>>
        /\ InHand = data /\ data \in Events /\ InHand' = Nothing
    BY <1>14 DEF Trigger, IInv, InHand
  <2>2. UNCHANGED Waiting
    BY <2>1 DEF Waiting, Used, Slot
  <2> QED
    BY <2>1, <2>2, NothingAssumption DEF Queue!Next, Queue!Handled
<1> QED
  BY <1>5, <1>6, <1>7, <1>8, <1>9, <1>10, <1>11, <1>12, <1>13, <1>14
     DEF Next, Producer, Consumer

\* The buffer is a bounded queue between the threads: every event fired waits
\* its turn, is handed over once and whole, and none overtakes another.
THEOREM Implements == Spec => ImplementsQueue
<1>1. Init => Queue!Init
  <2> SUFFICES ASSUME Init PROVE Waiting = <<>> /\ InHand = Nothing
    BY DEF Queue!Init
  <2>1. Used = 0
    BY UsedIs, SizeAssumption DEF Init
  <2>2. Waiting = <<>>
    <3> HIDE DEF Used
    <3> QED
      BY <2>1 DEF Waiting
  <2> QED
    BY <2>2 DEF Init, InHand
<1> QED
  BY <1>1, IInvAlways, RefinesStep, PTL DEF Spec, ImplementsQueue, Queue!Spec
=============================================================================
