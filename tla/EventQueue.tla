----------------------------- MODULE EventQueue -----------------------------
(***************************************************************************)
(* What a queue_event_source promises the threads on its two ends: a       *)
(* bounded queue in which the events of one side wait for the other, each  *)
(* handed over once and in the order they were fired.                      *)
(***************************************************************************)
EXTENDS Integers, Sequences

CONSTANTS Events,   \* what may be fired
          Size,     \* how many events may wait
          Nothing   \* no event is being handled

VARIABLES queue,    \* the events that wait, oldest first
          hand      \* the event being handled

vars == <<queue, hand>>

Init == queue = <<>> /\ hand = Nothing

Fire(e) ==
  /\ Len(queue) < Size
  /\ queue' = Append(queue, e)
  /\ UNCHANGED hand

Take ==
  /\ hand = Nothing
  /\ queue # <<>>
  /\ hand' = Head(queue)
  /\ queue' = Tail(queue)

Handled ==
  /\ hand # Nothing
  /\ hand' = Nothing
  /\ UNCHANGED queue

Next == (\E e \in Events : Fire(e)) \/ Take \/ Handled

Spec == Init /\ [][Next]_vars

\* The same without a bound on what may wait.
FireAlways(e) ==
  /\ queue' = Append(queue, e)
  /\ UNCHANGED hand

NextUnbounded == (\E e \in Events : FireAlways(e)) \/ Take \/ Handled

Unbounded == Init /\ [][NextUnbounded]_vars
=============================================================================
