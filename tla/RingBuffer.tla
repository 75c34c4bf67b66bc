----------------------------- MODULE RingBuffer -----------------------------
(***************************************************************************)
(* The event queue between two threads (queue_event_source of              *)
(* event_center.hpp over Ringbuffer of ringbuffer.hpp).  An exchange API's *)
(* own thread, or whoever calls change_strategy, fires events into it; the *)
(* real-time thread of the context takes them out in process.  There is no *)
(* lock: the two threads share head, tail and the slots, head is written   *)
(* by the producer alone and tail by the consumer alone.                   *)
(*                                                                         *)
(* A step is one access to what is shared.  While a thread's counter is at *)
(* "write" or "read" it is somewhere in the copy of an event, which is far *)
(* from atomic (a vector of std::any): no two such copies may ever be of   *)
(* one slot.  The release and acquire barriers keep the accesses of a      *)
(* thread in the order written here; a load that sees an old index is a    *)
(* load that happened earlier.                                             *)
(***************************************************************************)
EXTENDS Integers, Sequences

CONSTANTS Events,     \* what may be fired
          Size,       \* buffer_size
          Modulus,    \* 2^w for an index_t of w bits
          Nothing     \* no event

\* Both are powers of two, so the one divides the other; ringbuffer.hpp asserts
\* that buffer_mask is at most half of what an index can hold.
ASSUME SizeAssumption ==
  /\ Size \in Nat \ {0}
  /\ Modulus \in Nat /\ Modulus % Size = 0
  /\ Modulus >= 2 * Size
ASSUME NothingAssumption == Nothing \notin Events

VARIABLES head, tail,     \* the indices, which wrap at Modulus
          data_buff,      \* the slots
          producer, event,  \* where the firing thread is, and with what
          consumer, data    \* where process is, and what it copied out

vars == <<head, tail, data_buff, producer, event, consumer, data>>

Slots == 0..Size - 1

Inc(i) == (i + 1) % Modulus

\* data_buff[i & buffer_mask]
Slot(i) == i % Size

\* head - tail in unsigned arithmetic.
Used == (head - tail) % Modulus

Init ==
  /\ head = 0 /\ tail = 0
  /\ data_buff = [i \in Slots |-> Nothing]
  /\ producer = "idle" /\ event = Nothing
  /\ consumer = "idle" /\ data = Nothing

-----------------------------------------------------------------------------
(* fire_event: while (!insert(data)); *)

Fire(e) ==
  /\ producer = "idle"
  /\ producer' = "insert"
  /\ event' = e
  /\ UNCHANGED <<head, tail, data_buff, consumer, data>>

\* insert finds the buffer full, and the producer spins.
\* (Slip: it is full only when it holds more than it can.)
InsertFullLate ==
  /\ producer = "insert"
  /\ producer' = IF Used > Size THEN "insert" ELSE "write"
  /\ UNCHANGED <<head, tail, data_buff, event, consumer, data>>

Insert ==
  /\ producer = "insert"
  /\ producer' = IF Used = Size THEN "insert" ELSE "write"
  /\ UNCHANGED <<head, tail, data_buff, event, consumer, data>>

Write ==
  /\ producer = "write"
  /\ data_buff' = [data_buff EXCEPT ![Slot(head)] = event]
  /\ producer' = "publish"
  /\ UNCHANGED <<head, tail, event, consumer, data>>

\* (Slip: the index is stored masked.)
PublishMasked ==
  /\ producer = "publish"
  /\ head' = Slot(head + 1)
  /\ producer' = "idle"
  /\ event' = Nothing
  /\ UNCHANGED <<tail, data_buff, consumer, data>>

Publish ==
  /\ producer = "publish"
  /\ head' = Inc(head)
  /\ producer' = "idle"
  /\ event' = Nothing
  /\ UNCHANGED <<tail, data_buff, consumer, data>>

Producer == Insert \/ Write \/ Publish

-----------------------------------------------------------------------------
(* process: while (remove(data)) trigger(data.type, data.params); *)

Process ==
  /\ consumer = "idle"
  /\ consumer' = "remove"
  /\ UNCHANGED <<head, tail, data_buff, producer, event, data>>

\* (Slip: the slots are compared, so that a full buffer looks empty.)
RemoveMasked ==
  /\ consumer = "remove"
  /\ consumer' = IF Slot(tail) = Slot(head) THEN "idle" ELSE "read"
  /\ UNCHANGED <<head, tail, data_buff, producer, event, data>>

Remove ==
  /\ consumer = "remove"
  /\ consumer' = IF tail = head THEN "idle" ELSE "read"
  /\ UNCHANGED <<head, tail, data_buff, producer, event, data>>

Read ==
  /\ consumer = "read"
  /\ data' = data_buff[Slot(tail)]
  /\ consumer' = "release"
  /\ UNCHANGED <<head, tail, data_buff, producer, event>>

\* (Slip: the index is wider than its wrap.)
ReleaseUnwrapped ==
  /\ consumer = "release"
  /\ tail' = tail + 1
  /\ consumer' = "trigger"
  /\ UNCHANGED <<head, data_buff, producer, event, data>>

Release ==
  /\ consumer = "release"
  /\ tail' = Inc(tail)
  /\ consumer' = "trigger"
  /\ UNCHANGED <<head, data_buff, producer, event, data>>

\* The handlers run; nothing of theirs touches the queue.
Trigger ==
  /\ consumer = "trigger"
  /\ consumer' = "remove"
  /\ data' = Nothing
  /\ UNCHANGED <<head, tail, data_buff, producer, event>>

Consumer == Process \/ Remove \/ Read \/ Release \/ Trigger

Next == (\E e \in Events : Fire(e)) \/ Producer \/ Consumer

Spec == Init /\ [][Next]_vars

\* The operating system runs both threads, and update calls process over and
\* over; nobody has to fire anything.
FairSpec == Spec /\ WF_vars(Producer) /\ WF_vars(Consumer)

-----------------------------------------------------------------------------
TypeOK ==
  /\ head \in 0..Modulus - 1 /\ tail \in 0..Modulus - 1
  /\ data_buff \in [Slots -> Events \cup {Nothing}]
  /\ producer \in {"idle", "insert", "write", "publish"}
  /\ consumer \in {"idle", "remove", "read", "release", "trigger"}
  /\ event \in Events \cup {Nothing}
  /\ data \in Events \cup {Nothing}

\* The producer never writes to the slot the consumer is copying from, whatever
\* either saw of the other's index when it decided to go on.
NoOverlap ==
  ~(producer = "write" /\ consumer = "read" /\ Slot(head) = Slot(tail))

\* What waits between tail and head, oldest first, is a bounded queue of which
\* nothing is lost, repeated, overtaken or torn: the buffer implements
\* EventQueue.
Waiting == [i \in 1..Used |-> data_buff[Slot(tail + i - 1)]]

InHand == IF consumer = "trigger" THEN data ELSE Nothing

Queue == INSTANCE EventQueue WITH queue <- Waiting, hand <- InHand

ImplementsQueue == Queue!Spec

\* fire_event returns: the spin on a full buffer ends, as long as the consumer
\* is scheduled.
SpinEnds == (producer # "idle") ~> (producer = "idle")

\* Every event fired reaches its handlers.
EventsHandled ==
  \A e \in Events : (event = e) ~> (consumer = "trigger" /\ data = e)
=============================================================================
