------------------------------- MODULE Logger -------------------------------
(***************************************************************************)
(* The log: threads push their lines into a lock-free queue with many      *)
(* producers and one consumer (include/mpsc_queue.hpp), and the thread of  *)
(* NanoLogger (loger/nanolog.cpp) pops and writes them until the program   *)
(* ends and nothing is left.                                               *)
(*                                                                         *)
(* The queue is a list of nodes from tail to head.  A push makes its node  *)
(* the head in one exchange, and only then links the node before to it:    *)
(* until it does, the consumer sees the end of the list there, whatever    *)
(* others have pushed after it.  A pop deletes the node it leaves, so the  *)
(* tail is always a node whose line has been taken, at first a stub.       *)
(* A node is its producer's own until the exchange, so one is chosen there.*)
(***************************************************************************)
EXTENDS Integers, Sequences

CONSTANTS
  Producers,  \* the threads that log
  Nodes,      \* nodes: each is allocated once and carries one line
  Stub,       \* the node the queue starts with
  Null        \* the null pointer

ASSUME NodesAssumption == Stub \in Nodes /\ Null \notin Nodes

VARIABLES
  head, tail, \* of mpsc_queue
  next,       \* node::next
  fresh,      \* the nodes not allocated yet
  freed,      \* the nodes deleted
  prev, node, \* push's variables: Producers -> Nodes, or Null between pushes
  running,    \* _is_runing
  consumer,   \* where NanoLogger::pop is: see Consumer
  found,      \* pop's variable next
  line,       \* the line it is about to write, or Null
  chain       \* the nodes from tail to head in the order of the exchanges

queueVars    == <<head, tail, next, fresh, freed>>
producerVars == <<prev, node>>
consumerVars == <<running, consumer, found, line>>
vars == <<queueVars, producerVars, consumerVars, chain>>

Init ==
  /\ head = Stub /\ tail = Stub
  /\ next = [n \in Nodes |-> Null]
  /\ fresh = Nodes \ {Stub} /\ freed = {}
  /\ prev = [p \in Producers |-> Null] /\ node = [p \in Producers |-> Null]
  /\ running = TRUE
  /\ consumer = "loop" /\ found = Null /\ line = Null
  /\ chain = <<Stub>>

-----------------------------------------------------------------------------
(* push *)

\* head.exchange(n).
Exchange(p) ==
  /\ node[p] = Null
  /\ \E n \in fresh :
       /\ fresh' = fresh \ {n}
       /\ head' = n
       /\ node' = [node EXCEPT ![p] = n]
       /\ chain' = Append(chain, n)
  /\ prev' = [prev EXCEPT ![p] = head]
  /\ UNCHANGED <<tail, next, freed, consumerVars>>

\* prev->next.store(n).  (Slip: what is head by now is linked instead.)
LinkHead(p) ==
  /\ node[p] # Null
  /\ next' = [next EXCEPT ![head] = node[p]]
  /\ node' = [node EXCEPT ![p] = Null] /\ prev' = [prev EXCEPT ![p] = Null]
  /\ UNCHANGED <<head, tail, fresh, freed, consumerVars, chain>>

Link(p) ==
  /\ node[p] # Null
  /\ next' = [next EXCEPT ![prev[p]] = node[p]]
  /\ node' = [node EXCEPT ![p] = Null] /\ prev' = [prev EXCEPT ![p] = Null]
  /\ UNCHANGED <<head, tail, fresh, freed, consumerVars, chain>>

-----------------------------------------------------------------------------
(* NanoLogger::pop *)

\* The loop's condition, first operand.  (Slip: it is the only one.)
LoopWhileRunning ==
  /\ consumer = "loop"
  /\ consumer' = IF running THEN "load" ELSE "done"
  /\ UNCHANGED <<queueVars, producerVars, running, found, line, chain>>

Loop ==
  /\ consumer = "loop"
  /\ consumer' = IF running THEN "load" ELSE "last"
  /\ UNCHANGED <<queueVars, producerVars, running, found, line, chain>>

\* is_empty, asked when the program has ended.
IsEmpty ==
  /\ consumer = "last"
  /\ consumer' = IF head = tail THEN "done" ELSE "load"
  /\ UNCHANGED <<queueVars, producerVars, running, found, line, chain>>

\* tail->next.load(); without a next node the thread sleeps a while.
Load ==
  /\ consumer = "load"
  /\ found' = next[tail]
  /\ consumer' = IF next[tail] = Null THEN "loop" ELSE "take"
  /\ UNCHANGED <<queueVars, producerVars, running, line, chain>>

\* delete tail; tail = next.  (Slips: the node taken is deleted instead, and
\* the newest is taken instead of the next.)
TakeFreesNext ==
  /\ consumer = "take"
  /\ freed' = freed \cup {found}
  /\ tail' = found /\ line' = found
  /\ chain' = Tail(chain)
  /\ consumer' = "write"
  /\ UNCHANGED <<head, next, fresh, producerVars, running, found>>

TakeNewest ==
  /\ consumer = "take"
  /\ freed' = freed \cup {tail}
  /\ tail' = head /\ line' = head
  /\ chain' = <<head>>
  /\ consumer' = "write"
  /\ UNCHANGED <<head, next, fresh, producerVars, running, found>>

Take ==
  /\ consumer = "take"
  /\ freed' = freed \cup {tail}
  /\ tail' = found /\ line' = found
  /\ chain' = Tail(chain)
  /\ consumer' = "write"
  /\ UNCHANGED <<head, next, fresh, producerVars, running, found>>

\* The writers' write, and recycle.
Write ==
  /\ consumer = "write"
  /\ line' = Null
  /\ consumer' = "loop"
  /\ UNCHANGED <<queueVars, producerVars, running, found, chain>>

Consumer == Loop \/ IsEmpty \/ Load \/ Take \/ Write

\* ~NanoLogger.
Stop ==
  /\ running
  /\ running' = FALSE
  /\ UNCHANGED <<queueVars, producerVars, consumer, found, line, chain>>

Next == (\E p \in Producers : Exchange(p) \/ Link(p)) \/ Consumer \/ Stop

\* A thread in push finishes it, the log's thread goes on.
Spec ==
  /\ Init /\ [][Next]_vars
  /\ \A p \in Producers : WF_vars(Link(p))
  /\ WF_vars(Consumer)

-----------------------------------------------------------------------------
(* Properties *)

TypeOK ==
  /\ head \in Nodes /\ tail \in Nodes
  /\ next \in [Nodes -> Nodes \cup {Null}]
  /\ fresh \subseteq Nodes /\ freed \subseteq Nodes
  /\ prev \in [Producers -> Nodes \cup {Null}] /\ node \in [Producers -> Nodes \cup {Null}]
  /\ running \in BOOLEAN
  /\ consumer \in {"loop", "last", "load", "take", "write", "done"}
  /\ found \in Nodes \cup {Null} /\ line \in Nodes \cup {Null}
  /\ chain \in Seq(Nodes) /\ Len(chain) > 0

\* Neither thread touches a node that was deleted: the node before a producer's
\* own is not deleted until it is linked, although the producer does not own it.
NoUseAfterFree ==
  /\ head \notin freed /\ tail \notin freed
  /\ \A p \in Producers : node[p] # Null => prev[p] \notin freed
  /\ line \notin freed

\* Lines are written once each, in the order of the exchanges, whatever order
\* the links come in.
Waiting == Tail(chain)

Queue == INSTANCE EventQueue WITH
  Events <- Nodes, Size <- 1, Nothing <- Null, queue <- Waiting, hand <- line

ImplementsQueue == Queue!Unbounded

\* When the log's thread leaves, every line that had entered the queue is
\* written, those included whose push is not through.
LeavesEmpty ==
  [][consumer # "done" /\ consumer' = "done" => Waiting = <<>> /\ line = Null]_vars

\* Every line that enters while the log's thread is there is written, although
\* the push of another may hide it for a while.
LinesWritten ==
  \A n \in Nodes :
    (\E i \in 1..Len(Waiting) : Waiting[i] = n)
      ~> (line = n \/ consumer = "done")
=============================================================================
