---------------------------- MODULE LoggerProofs ----------------------------
(***************************************************************************)
(* Logger for every set of producers and nodes: the queue never touches a  *)
(* deleted node, hands every line over once in the order of the exchanges, *)
(* and the log's thread leaves nothing behind.                             *)
(*                                                                         *)
(* The invariant follows the list: its nodes are distinct and alive, each  *)
(* is linked to the one behind it or not linked yet, and a node that is    *)
(* not linked yet has a producer whose push has still to do it.            *)
(***************************************************************************)
EXTENDS Logger, SequenceTheorems, TLAPS

Ends == chain[1] = tail /\ chain[Len(chain)] = head

Distinct ==
  \A i, j \in 1..Len(chain) : chain[i] = chain[j] => i = j

Alive == \A i \in 1..Len(chain) : chain[i] \notin freed /\ chain[i] \notin fresh

FreedOnce == freed \cap fresh = {}

LinkedInOrder ==
  \A i \in 1..Len(chain) - 1 : next[chain[i]] \in {Null, chain[i + 1]}

NoneBehind == next[head] = Null /\ \A n \in fresh : next[n] = Null

\* Where producer p is in the list.
PushAt(p, i) ==
  prev[p] = chain[i] /\ node[p] = chain[i + 1] /\ next[chain[i]] = Null

Pushing ==
  \A p \in Producers : node[p] # Null => \E i \in 1..Len(chain) - 1 : PushAt(p, i)

OwnNodes ==
  \A p, q \in Producers : node[p] # Null /\ node[p] = node[q] => p = q

Consuming ==
  /\ consumer = "take" => found # Null /\ found = next[tail]
  /\ line = IF consumer = "write" THEN tail ELSE Null

IInv ==
  /\ TypeOK
  /\ Ends
  /\ Distinct
  /\ Alive
  /\ FreedOnce
  /\ LinkedInOrder
  /\ NoneBehind
  /\ Pushing
  /\ OwnNodes
  /\ Consuming

-----------------------------------------------------------------------------
(* The list *)

LEMMA NullIsNoNode == Null \notin Nodes /\ Stub \in Nodes
BY NodesAssumption

LEMMA EmptyIs ==
  ASSUME NEW s \in Seq(Nodes)
  PROVE  s = <<>> <=> Len(s) = 0
BY EmptySeq

LEMMA ChainParts ==
  ASSUME TypeOK
  PROVE  /\ Len(chain) \in Nat /\ Len(chain) >= 1
         /\ chain # <<>>
         /\ \A i \in 1..Len(chain) : chain[i] \in Nodes
         /\ Tail(chain) \in Seq(Nodes)
         /\ Len(Tail(chain)) = Len(chain) - 1
         /\ \A i \in 1..Len(chain) - 1 : Tail(chain)[i] = chain[i + 1]
<1>1. chain \in Seq(Nodes) /\ Len(chain) > 0
  BY DEF TypeOK
<1>2. Len(chain) \in Nat
  BY <1>1, LenProperties
<1>3. chain # <<>>
  BY <1>1, EmptySeq
<1>4. \A i \in 1..Len(chain) : chain[i] \in Nodes
  BY <1>1, ElementOfSeq
<1> QED
  BY <1>1, <1>2, <1>3, <1>4, HeadTailProperties

LEMMA AppendParts ==
  ASSUME TypeOK, NEW n \in Nodes
  PROVE  /\ Append(chain, n) \in Seq(Nodes)
         /\ Len(Append(chain, n)) = Len(chain) + 1
         /\ \A i \in 1..Len(chain) : Append(chain, n)[i] = chain[i]
         /\ Append(chain, n)[Len(chain) + 1] = n
<1>1. chain \in Seq(Nodes)
  BY DEF TypeOK
<1> QED
  BY <1>1, AppendProperties

LEMMA InitIInv == Init => IInv
<1> SUFFICES ASSUME Init PROVE IInv
  OBVIOUS
<1>1. Stub \in Nodes /\ Null \notin Nodes
  BY NullIsNoNode
<1>2. chain = <<Stub>> /\ Len(chain) = 1 /\ chain[1] = Stub /\ chain \in Seq(Nodes)
  BY <1>1 DEF Init
<1>3. TypeOK
  BY <1>1, <1>2 DEF Init, TypeOK
<1>4. Ends /\ Distinct /\ Alive /\ FreedOnce /\ LinkedInOrder
  BY <1>2 DEF Init, Ends, Distinct, Alive, FreedOnce, LinkedInOrder
<1>5. NoneBehind /\ Pushing /\ OwnNodes /\ Consuming
  BY <1>1 DEF Init, NoneBehind, Pushing, OwnNodes, Consuming
<1> QED
  BY <1>3, <1>4, <1>5 DEF IInv

-----------------------------------------------------------------------------
(* The steps *)

LEMMA ExchangeKeeps ==
  ASSUME IInv, NEW p \in Producers, Exchange(p)
  PROVE  IInv'
<1>1. /\ TypeOK /\ Ends /\ Distinct /\ Alive /\ FreedOnce /\ LinkedInOrder
      /\ NoneBehind /\ Pushing /\ OwnNodes /\ Consuming
  BY DEF IInv
<1>2. PICK n \in fresh :
        /\ fresh' = fresh \ {n} /\ head' = n
        /\ node' = [node EXCEPT ![p] = n]
        /\ chain' = Append(chain, n)
  BY DEF Exchange
<1>3. /\ node[p] = Null /\ prev' = [prev EXCEPT ![p] = head]
      /\ UNCHANGED <<tail, next, freed, running, consumer, found, line>>
  BY DEF Exchange, consumerVars
<1>4. n \in Nodes /\ Null \notin Nodes
  BY <1>1, <1>2, NullIsNoNode DEF TypeOK
<1> DEFINE l == Len(chain)
<1>5. /\ l \in Nat /\ l >= 1 /\ Len(chain') = l + 1
      /\ \A i \in 1..l : chain'[i] = chain[i]
      /\ chain'[l + 1] = n
      /\ chain' \in Seq(Nodes)
  BY <1>1, <1>2, <1>4, ChainParts, AppendParts
<1> HIDE DEF l
<1>6. chain[l] = head /\ chain[1] = tail
  BY <1>1 DEF Ends, l
<1>7. \A i \in 1..l : chain[i] # n
  BY <1>1, <1>2 DEF Alive, l
<1>8. TypeOK'
  BY <1>1, <1>2, <1>3, <1>4, <1>5 DEF TypeOK
<1>9. Ends'
  BY <1>2, <1>3, <1>5, <1>6 DEF Ends
<1>10. Distinct'
  <2> SUFFICES ASSUME NEW i \in 1..l + 1, NEW j \in 1..l + 1, chain'[i] = chain'[j]
               PROVE  i = j
    BY <1>5 DEF Distinct
  <2>1. CASE i \in 1..l /\ j \in 1..l
    BY <1>1, <1>5, <2>1 DEF Distinct, l
  <2>2. CASE i = l + 1 \/ j = l + 1
    BY <1>5, <1>7, <2>2
  <2> QED
    BY <1>5, <2>1, <2>2
<1>11. Alive'
  <2> SUFFICES ASSUME NEW i \in 1..l + 1
               PROVE  chain'[i] \notin freed' /\ chain'[i] \notin fresh'
    BY <1>5 DEF Alive
  <2>1. CASE i \in 1..l
    BY <1>1, <1>2, <1>3, <1>5, <2>1 DEF Alive, l
  <2>2. CASE i = l + 1
    BY <1>1, <1>2, <1>3, <1>5, <2>2 DEF FreedOnce
  <2> QED
    BY <1>5, <2>1, <2>2
<1>12. FreedOnce'
  BY <1>1, <1>2, <1>3 DEF FreedOnce
<1>13. next[head] = Null /\ next[n] = Null
  BY <1>1, <1>2 DEF NoneBehind
<1>14. LinkedInOrder'
  <2> SUFFICES ASSUME NEW i \in 1..l
               PROVE  next[chain'[i]] \in {Null, chain'[i + 1]}
    BY <1>3, <1>5 DEF LinkedInOrder
  <2>1. CASE i \in 1..l - 1
    <3>1. i + 1 \in 1..l
      BY <1>5, <2>1
    <3> QED
      BY <1>1, <1>5, <2>1, <3>1 DEF LinkedInOrder, l
  <2>2. CASE i = l
    BY <1>5, <1>6, <1>13, <2>2
  <2> QED
    BY <1>5, <2>1, <2>2
<1>15. NoneBehind'
  BY <1>1, <1>2, <1>3, <1>13 DEF NoneBehind
<1>16. Pushing'
  <2> SUFFICES ASSUME NEW q \in Producers, node'[q] # Null
               PROVE  \E i \in 1..l : PushAt(q, i)'
    BY <1>5 DEF Pushing
  <2>1. CASE q = p
    <3>1. prev'[q] = chain'[l] /\ node'[q] = chain'[l + 1] /\ next'[chain'[l]] = Null
      BY <1>1, <1>2, <1>3, <1>5, <1>6, <1>13, <2>1 DEF TypeOK
    <3> QED
      BY <1>5, <3>1 DEF PushAt
  <2>2. CASE q # p
    <3>1. node'[q] = node[q] /\ prev'[q] = prev[q]
      BY <1>1, <1>2, <1>3, <2>2 DEF TypeOK
    <3>2. PICK i \in 1..l - 1 : PushAt(q, i)
      BY <1>1, <3>1 DEF Pushing, l
    <3>3. i \in 1..l /\ i + 1 \in 1..l
      BY <1>5
    <3> QED
      BY <1>3, <1>5, <3>1, <3>2, <3>3 DEF PushAt
  <2> QED
    BY <2>1, <2>2
<1>17. OwnNodes'
  <2> SUFFICES ASSUME NEW q \in Producers, NEW r \in Producers,
                      node'[q] # Null, node'[q] = node'[r]
               PROVE  q = r
    BY DEF OwnNodes
  <2>1. \A s \in Producers : node'[s] = IF s = p THEN n ELSE node[s]
    BY <1>1, <1>2 DEF TypeOK
  <2>2. \A s \in Producers : node[s] # n
    <3> SUFFICES ASSUME NEW s \in Producers, node[s] = n PROVE FALSE
      OBVIOUS
    <3>1. PICK i \in 1..l - 1 : PushAt(s, i)
      BY <1>1, <1>4 DEF Pushing, l
    <3>2. node[s] = chain[i + 1] /\ i + 1 \in 1..l
      BY <1>5, <3>1 DEF PushAt
    <3> QED
      BY <1>7, <3>2
  <2> QED
    BY <1>1, <2>1, <2>2 DEF OwnNodes
<1>18. Consuming'
  BY <1>1, <1>3 DEF Consuming
<1> QED
  BY <1>8, <1>9, <1>10, <1>11, <1>12, <1>14, <1>15, <1>16, <1>17, <1>18 DEF IInv

LEMMA LinkKeeps ==
  ASSUME IInv, NEW p \in Producers, Link(p)
  PROVE  IInv'
<1>1. /\ TypeOK /\ Ends /\ Distinct /\ Alive /\ FreedOnce /\ LinkedInOrder
      /\ NoneBehind /\ Pushing /\ OwnNodes /\ Consuming
  BY DEF IInv
<1>2. /\ node[p] # Null
      /\ next' = [next EXCEPT ![prev[p]] = node[p]]
      /\ node' = [node EXCEPT ![p] = Null] /\ prev' = [prev EXCEPT ![p] = Null]
      /\ UNCHANGED <<head, tail, fresh, freed, running, consumer, found, line, chain>>
  BY DEF Link, consumerVars
<1> DEFINE l == Len(chain)
<1>3. PICK k \in 1..l - 1 : PushAt(p, k)
  BY <1>1, <1>2 DEF Pushing
<1>4. /\ l \in Nat /\ l >= 1 /\ l = Len(chain)
      /\ \A i \in 1..l : chain[i] \in Nodes
      /\ k \in 1..l /\ k + 1 \in 1..l
  BY <1>1, ChainParts
<1> HIDE DEF l
<1>5. prev[p] = chain[k] /\ node[p] = chain[k + 1] /\ next[chain[k]] = Null
  BY <1>3 DEF PushAt
<1>6. /\ \A m \in Nodes : next'[m] = IF m = chain[k] THEN chain[k + 1] ELSE next[m]
      /\ next \in [Nodes -> Nodes \cup {Null}]
  BY <1>1, <1>2, <1>4, <1>5 DEF TypeOK
<1>7. TypeOK'
  BY <1>1, <1>2 DEF TypeOK
<1>8. Ends' /\ Distinct' /\ Alive' /\ FreedOnce'
  BY <1>1, <1>2 DEF Ends, Distinct, Alive, FreedOnce
<1>9. LinkedInOrder'
  <2> SUFFICES ASSUME NEW i \in 1..l - 1
               PROVE  next'[chain[i]] \in {Null, chain[i + 1]}
    BY <1>2, <1>4 DEF LinkedInOrder
  <2>1. i \in 1..l /\ chain[i] \in Nodes
    BY <1>4
  <2>2. CASE i = k
    BY <1>6, <2>1, <2>2
  <2>3. CASE i # k
    <3>1. chain[i] # chain[k]
      BY <1>1, <1>4, <2>1, <2>3 DEF Distinct
    <3> QED
      BY <1>1, <1>4, <1>6, <2>1, <3>1 DEF LinkedInOrder
  <2> QED
    BY <2>2, <2>3
<1>10. NoneBehind'
  <2>1. head # chain[k]
    BY <1>1, <1>3, <1>4 DEF Ends, Distinct
  <2>2. \A n \in fresh : n # chain[k] /\ n \in Nodes
    BY <1>1, <1>4 DEF Alive, TypeOK
  <2>3. head \in Nodes
    BY <1>1 DEF TypeOK
  <2> QED
    BY <1>1, <1>2, <1>6, <2>1, <2>2, <2>3 DEF NoneBehind
<1>11. Pushing'
  <2> SUFFICES ASSUME NEW q \in Producers, node'[q] # Null
               PROVE  \E i \in 1..l - 1 : PushAt(q, i)'
    BY <1>2, <1>4 DEF Pushing
  <2>1. q # p /\ node'[q] = node[q] /\ prev'[q] = prev[q]
    BY <1>1, <1>2 DEF TypeOK
  <2>2. PICK i \in 1..l - 1 : PushAt(q, i)
    BY <1>1, <1>4, <2>1 DEF Pushing
  <2>3. i # k
    BY <1>1, <1>2, <1>5, <2>1, <2>2 DEF PushAt, OwnNodes
  <2>4. i \in 1..l /\ chain[i] \in Nodes
    BY <1>4
  <2>5. chain[i] # chain[k]
    BY <1>1, <1>4, <2>3, <2>4 DEF Distinct
  <2> QED
    BY <1>2, <1>6, <2>1, <2>2, <2>4, <2>5 DEF PushAt
<1>12. OwnNodes'
  BY <1>1, <1>2 DEF OwnNodes, TypeOK
<1>13. Consuming'
  <2>1. consumer = "take" => tail # chain[k]
    BY <1>1, <1>5 DEF Consuming
  <2>2. tail \in Nodes
    BY <1>1 DEF TypeOK
  <2> QED
    BY <1>1, <1>2, <1>6, <2>1, <2>2 DEF Consuming
<1> QED
  BY <1>7, <1>8, <1>9, <1>10, <1>11, <1>12, <1>13 DEF IInv

LEMMA TakeKeeps ==
  ASSUME IInv, Take
  PROVE  IInv'
<1>1. /\ TypeOK /\ Ends /\ Distinct /\ Alive /\ FreedOnce /\ LinkedInOrder
      /\ NoneBehind /\ Pushing /\ OwnNodes /\ Consuming
  BY DEF IInv
<1>2. /\ freed' = freed \cup {tail}
      /\ tail' = found /\ line' = found
      /\ chain' = Tail(chain)
      /\ consumer = "take" /\ consumer' = "write"
      /\ UNCHANGED <<head, next, fresh, prev, node, running, found>>
  BY DEF Take, producerVars
<1> DEFINE l == Len(chain)
<1>3. /\ l \in Nat /\ l >= 1 /\ l = Len(chain)
      /\ \A i \in 1..l : chain[i] \in Nodes
      /\ chain' \in Seq(Nodes) /\ Len(chain') = l - 1
      /\ \A i \in 1..l - 1 : chain'[i] = chain[i + 1]
  BY <1>1, <1>2, ChainParts
<1> HIDE DEF l
<1>4. found # Null /\ found = next[tail]
  BY <1>1, <1>2 DEF Consuming
<1>5. l >= 2
  <2>1. chain[l] = head /\ chain[1] = tail /\ next[head] = Null
    BY <1>1, <1>3 DEF Ends, NoneBehind
  <2> QED
    BY <1>3, <1>4, <2>1
<1>6. found = chain[2] /\ tail = chain[1] /\ head = chain[l]
  <2>1. chain[1] = tail /\ head = chain[l]
    BY <1>1, <1>3 DEF Ends
  <2>2. 1 \in 1..l - 1 /\ 1 + 1 = 2
    BY <1>3, <1>5
  <2>3. next[chain[1]] \in {Null, chain[1 + 1]}
    BY <1>1, <1>3, <2>2 DEF LinkedInOrder
  <2> QED
    BY <1>4, <2>1, <2>2, <2>3
<1>7. \A i \in 1..l - 1 : i + 1 \in 1..l
  BY <1>3
<1>8. TypeOK'
  <2>1. found \in Nodes
    BY <1>3, <1>5, <1>6
  <2> QED
    BY <1>1, <1>2, <1>3, <1>5, <2>1 DEF TypeOK
<1>9. Ends'
  <2>1. chain'[1] = chain[2] /\ chain'[l - 1] = chain[l]
    BY <1>3, <1>5
  <2> QED
    BY <1>2, <1>3, <1>6, <2>1 DEF Ends
<1>10. Distinct'
  <2> SUFFICES ASSUME NEW i \in 1..l - 1, NEW j \in 1..l - 1, chain'[i] = chain'[j]
               PROVE  i = j
    BY <1>3 DEF Distinct
  <2>1. chain[i + 1] = chain[j + 1] /\ i + 1 \in 1..l /\ j + 1 \in 1..l
    BY <1>3, <1>7
  <2>2. i + 1 = j + 1
    BY <1>1, <1>3, <2>1 DEF Distinct
  <2> QED
    BY <1>3, <2>2
<1>11. Alive'
  <2> SUFFICES ASSUME NEW i \in 1..l - 1
               PROVE  chain'[i] \notin freed' /\ chain'[i] \notin fresh'
    BY <1>3 DEF Alive
  <2>1. chain'[i] = chain[i + 1] /\ i + 1 \in 1..l /\ i + 1 # 1 /\ 1 \in 1..l
    BY <1>3, <1>7
  <2>2. chain[i + 1] # chain[1]
    BY <1>1, <1>3, <2>1 DEF Distinct
  <2> QED
    BY <1>1, <1>2, <1>3, <1>6, <2>1, <2>2 DEF Alive
<1>12. FreedOnce'
  <2>1. tail \notin fresh
    BY <1>1, <1>3, <1>6 DEF Alive
  <2> QED
    BY <1>1, <1>2, <2>1 DEF FreedOnce
<1>13. LinkedInOrder'
  <2> SUFFICES ASSUME NEW i \in 1..(l - 1) - 1
               PROVE  next[chain'[i]] \in {Null, chain'[i + 1]}
    BY <1>2, <1>3 DEF LinkedInOrder
  <2>1. /\ i \in 1..l - 1 /\ i + 1 \in 1..l - 1
        /\ chain'[i] = chain[i + 1] /\ chain'[i + 1] = chain[(i + 1) + 1]
    BY <1>3
  <2> QED
    BY <1>1, <1>3, <2>1 DEF LinkedInOrder
<1>14. NoneBehind'
  BY <1>1, <1>2 DEF NoneBehind
<1>15. Pushing'
  <2> SUFFICES ASSUME NEW q \in Producers, node[q] # Null
               PROVE  \E i \in 1..(l - 1) - 1 : PushAt(q, i)'
    BY <1>2, <1>3 DEF Pushing
  <2>1. PICK k \in 1..l - 1 : PushAt(q, k)
    BY <1>1, <1>3 DEF Pushing
  <2>2. k # 1
    BY <1>4, <1>6, <2>1 DEF PushAt
  <2> DEFINE i == k - 1
  <2>3. i \in 1..(l - 1) - 1 /\ i \in 1..l - 1 /\ i + 1 \in 1..l - 1 /\ i + 1 = k
    BY <1>3, <2>2
  <2> HIDE DEF i
  <2>4. chain'[i] = chain[k] /\ chain'[i + 1] = chain[k + 1]
    BY <1>3, <2>3
  <2>5. PushAt(q, i)'
    BY <1>2, <2>1, <2>4 DEF PushAt
  <2> QED
    BY <2>3, <2>5
<1>16. OwnNodes'
  BY <1>1, <1>2 DEF OwnNodes
<1>17. Consuming'
  BY <1>2 DEF Consuming
<1> QED
  BY <1>8, <1>9, <1>10, <1>11, <1>12, <1>13, <1>14, <1>15, <1>16, <1>17 DEF IInv

\* What leaves the list as it is.
LEMMA RestKeeps ==
  ASSUME IInv, TypeOK', Consuming', UNCHANGED <<queueVars, producerVars, chain>>
  PROVE  IInv'
<1>1. UNCHANGED <<head, tail, next, fresh, freed, prev, node, chain>>
  BY DEF queueVars, producerVars
<1>2. Ends' /\ Distinct' /\ Alive' /\ FreedOnce'
  BY <1>1 DEF IInv, Ends, Distinct, Alive, FreedOnce
<1>3. LinkedInOrder' /\ NoneBehind' /\ OwnNodes'
  BY <1>1 DEF IInv, LinkedInOrder, NoneBehind, OwnNodes
<1>4. Pushing'
  BY <1>1 DEF IInv, Pushing, PushAt
<1> QED
  BY <1>2, <1>3, <1>4 DEF IInv

LEMMA NextKeeps ==
  ASSUME IInv, [Next]_vars
  PROVE  IInv'
<1>0. TypeOK /\ Consuming
  BY DEF IInv
<1>1. CASE \E p \in Producers : Exchange(p) \/ Link(p)
  BY <1>1, ExchangeKeeps, LinkKeeps
<1>2. CASE Loop
  BY <1>0, <1>2, RestKeeps
     DEF Loop, TypeOK, Consuming, queueVars, producerVars
<1>3. CASE IsEmpty
  BY <1>0, <1>3, RestKeeps
     DEF IsEmpty, TypeOK, Consuming, queueVars, producerVars
<1>4. CASE Load
  BY <1>0, <1>4, RestKeeps
     DEF Load, TypeOK, Consuming, queueVars, producerVars
<1>5. CASE Take
  BY <1>5, TakeKeeps
<1>6. CASE Write
  BY <1>0, <1>6, RestKeeps
     DEF Write, TypeOK, Consuming, queueVars, producerVars
<1>7. CASE Stop
  BY <1>0, <1>7, RestKeeps
     DEF Stop, TypeOK, Consuming, queueVars, producerVars
<1>8. CASE UNCHANGED vars
  BY <1>0, <1>8, RestKeeps
     DEF vars, TypeOK, Consuming, queueVars, producerVars, consumerVars
<1> QED
  BY <1>1, <1>2, <1>3, <1>4, <1>5, <1>6, <1>7, <1>8 DEF Next, Consumer

LEMMA IInvAlways == Spec => []IInv
<1> QED
  BY InitIInv, NextKeeps, PTL DEF Spec

-----------------------------------------------------------------------------
(* The theorems *)

\* The variables of the queue, of every push and of the log's thread keep to
\* their types: no null pointer is ever followed.
THEOREM TypeCorrect == Spec => []TypeOK
<1>1. IInv => TypeOK
  BY DEF IInv
<1> QED
  BY <1>1, IInvAlways, PTL

\* No push and no pop touches a node that pop has deleted, for any number of
\* threads and lines.
THEOREM NeverFreed == Spec => []NoUseAfterFree
<1>1. IInv => NoUseAfterFree
  <2> SUFFICES ASSUME IInv PROVE NoUseAfterFree
    OBVIOUS
  <2>1. TypeOK /\ Ends /\ Alive /\ Pushing /\ Consuming
    BY DEF IInv
  <2>2. Len(chain) \in Nat /\ Len(chain) >= 1
    BY <2>1, ChainParts
  <2>3. head \notin freed /\ tail \notin freed
    BY <2>1, <2>2 DEF Ends, Alive
  <2>4. ASSUME NEW p \in Producers, node[p] # Null
        PROVE  prev[p] \notin freed
    <3>1. PICK i \in 1..Len(chain) - 1 : PushAt(p, i)
      BY <2>1, <2>4 DEF Pushing
    <3>2. i \in 1..Len(chain)
      BY <2>2
    <3> QED
      BY <2>1, <3>1, <3>2 DEF PushAt, Alive
  <2>5. line \notin freed
    BY <2>1, <2>3, NullIsNoNode DEF Consuming, TypeOK
  <2> QED
    BY <2>3, <2>4, <2>5 DEF NoUseAfterFree
<1> QED
  BY <1>1, IInvAlways, PTL

LEMMA RefinesStep ==
  ASSUME IInv, IInv', [Next]_vars
  PROVE  [Queue!NextUnbounded]_Queue!vars
<1>1. TypeOK /\ Ends /\ NoneBehind /\ LinkedInOrder /\ Consuming
  BY DEF IInv
<1>2. /\ Len(chain) \in Nat /\ Len(chain) >= 1 /\ chain # <<>>
      /\ Tail(chain) \in Seq(Nodes) /\ Len(Tail(chain)) = Len(chain) - 1
      /\ \A i \in 1..Len(chain) - 1 : Tail(chain)[i] = chain[i + 1]
  BY <1>1, ChainParts
<1>0. Len(chain) \in Nat /\ Len(chain) >= 1
  BY <1>2
<1>3. ASSUME NEW p \in Producers, Exchange(p)
      PROVE  [Queue!NextUnbounded]_Queue!vars
  <2>1. PICK n \in Nodes : chain' = Append(chain, n) /\ line' = line
    BY <1>1, <1>3 DEF Exchange, consumerVars, TypeOK
  <2>2. /\ Append(chain, n) \in Seq(Nodes)
        /\ Len(Append(chain, n)) = Len(chain) + 1
        /\ \A i \in 1..Len(chain) : Append(chain, n)[i] = chain[i]
        /\ Append(chain, n)[Len(chain) + 1] = n
    BY <1>1, AppendParts
  <2>3. Append(chain, n) # <<>>
    BY <1>2, <2>2, EmptySeq
  <2>4. /\ Tail(Append(chain, n)) \in Seq(Nodes)
        /\ Len(Tail(Append(chain, n))) = Len(chain)
        /\ \A i \in 1..Len(chain) : Tail(Append(chain, n))[i] = Append(chain, n)[i + 1]
    BY <1>2, <2>2, <2>3, HeadTailProperties
  <2>5. /\ Append(Tail(chain), n) \in Seq(Nodes)
        /\ Len(Append(Tail(chain), n)) = Len(chain)
        /\ \A i \in 1..Len(chain) - 1 : Append(Tail(chain), n)[i] = Tail(chain)[i]
        /\ Append(Tail(chain), n)[Len(chain)] = n
    BY <1>2, AppendProperties
  <2>6. ASSUME NEW i \in 1..Len(chain)
        PROVE  Tail(Append(chain, n))[i] = Append(Tail(chain), n)[i]
    <3>1. CASE i = Len(chain)
      BY <1>2, <2>2, <2>4, <2>5, <3>1
    <3>2. CASE i # Len(chain)
      <4>1. i \in 1..Len(chain) - 1 /\ i + 1 \in 1..Len(chain)
        BY <1>0, <2>6, <3>2
      <4> QED
        BY <1>2, <2>2, <2>4, <2>5, <4>1
    <3> QED
      BY <3>1, <3>2
  <2>7. Tail(Append(chain, n)) = Append(Tail(chain), n)
    BY <2>4, <2>5, <2>6, SeqEqual
  <2>8. Queue!FireAlways(n)
    BY <2>1, <2>7 DEF Queue!FireAlways, Waiting
  <2> QED
    BY <2>8 DEF Queue!NextUnbounded
<1>4. ASSUME NEW p \in Producers, Link(p)
      PROVE  [Queue!NextUnbounded]_Queue!vars
  BY <1>4 DEF Link, consumerVars, Queue!vars, Waiting
<1>5. CASE Loop \/ IsEmpty \/ Load \/ Stop
  BY <1>5 DEF Loop, IsEmpty, Load, Stop, Queue!vars, Waiting
<1>6. CASE Take
  <2>1. /\ consumer = "take" /\ line' = found /\ chain' = Tail(chain)
        /\ found # Null /\ found = next[tail] /\ line = Null
    BY <1>1, <1>6 DEF Take, Consuming
  <2>2. Len(chain) >= 2
    <3>1. chain[Len(chain)] = head /\ chain[1] = tail /\ next[head] = Null
      BY <1>1 DEF Ends, NoneBehind
    <3> QED
      BY <1>2, <2>1, <3>1
  <2>3. found = chain[2]
    <3>1. 1 \in 1..Len(chain) - 1 /\ 1 + 1 = 2
      BY <1>2, <2>2
    <3>2. next[chain[1]] \in {Null, chain[1 + 1]} /\ chain[1] = tail
      BY <1>1, <3>1 DEF LinkedInOrder, Ends
    <3> QED
      BY <2>1, <3>1, <3>2
  <2>4. Tail(chain) # <<>> /\ Tail(chain)[1] = found
    <3>1. Tail(chain)[1] = chain[1 + 1] /\ 1 + 1 = 2
      BY <1>2, <2>2
    <3>2. Tail(chain) \in Seq(Nodes) /\ Len(Tail(chain)) # 0
      BY <1>2, <2>2
    <3>3. Tail(chain) # <<>>
      BY <3>2, EmptyIs, Zenon
    <3> QED
      BY <2>3, <3>1, <3>3
  <2>5. Head(Tail(chain)) = found
    BY <1>2, <2>4
  <2> QED
    BY <2>1, <2>4, <2>5 DEF Queue!NextUnbounded, Queue!Take, Waiting
<1>7. CASE Write
  <2>1. line # Null /\ line' = Null /\ chain' = chain
    BY <1>1, <1>7, NullIsNoNode DEF Write, Consuming, TypeOK
  <2> QED
    BY <2>1 DEF Queue!NextUnbounded, Queue!Handled, Waiting
<1>8. CASE UNCHANGED vars
  BY <1>8 DEF vars, consumerVars, Queue!vars, Waiting
<1> QED
  BY <1>3, <1>4, <1>5, <1>6, <1>7, <1>8 DEF Next, Consumer

\* The lock-free list is a queue: every line pushed waits its turn, is written
\* once, and none overtakes another.
THEOREM Implements == Spec => ImplementsQueue
<1>1. Init => Queue!Init
  <2> SUFFICES ASSUME Init PROVE Tail(chain) = <<>> /\ line = Null
    BY DEF Queue!Init, Waiting
  <2>1. chain = <<Stub>> /\ line = Null
    BY DEF Init
  <2> QED
    BY <2>1
<1> QED
  BY <1>1, IInvAlways, RefinesStep, PTL DEF Spec, ImplementsQueue, Queue!Unbounded

\* The log's thread leaves only when every line that entered is written.
THEOREM NothingLeft == Spec => LeavesEmpty
<1>1. IInv /\ [Next]_vars =>
        [consumer # "done" /\ consumer' = "done" => Waiting = <<>> /\ line = Null]_vars
  <2> SUFFICES ASSUME IInv, Next, consumer # "done", consumer' = "done"
               PROVE  Waiting = <<>> /\ line = Null
    BY DEF vars
  <2>1. TypeOK /\ Ends /\ Distinct /\ Consuming
    BY DEF IInv
  <2>2. IsEmpty
    BY DEF Next, Consumer, Exchange, Link, Loop, Load, Take, Write, Stop, consumerVars
  <2>3. head = tail /\ line = Null
    BY <2>1, <2>2 DEF IsEmpty, Consuming
  <2>4. /\ Len(chain) \in Nat /\ Len(chain) >= 1
        /\ Tail(chain) \in Seq(Nodes) /\ Len(Tail(chain)) = Len(chain) - 1
    BY <2>1, ChainParts
  <2>5. Len(chain) = 1
    BY <2>1, <2>3, <2>4 DEF Ends, Distinct
  <2>6. Tail(chain) = <<>>
    <3>1. Tail(chain) \in Seq(Nodes) /\ Len(Tail(chain)) = 0
      BY <2>4, <2>5
    <3> QED
      BY <3>1, EmptyIs, Zenon
  <2> QED
    BY <2>3, <2>6 DEF Waiting
<1> QED
  BY <1>1, IInvAlways, PTL DEF Spec, LeavesEmpty
=============================================================================
