---------------------------- MODULE BoundedFifo ----------------------------
(***************************************************************************)
(* What a task queue promises one producer and one consumer, with no word  *)
(* about slots or indices: tasks come out in the order they went in, each  *)
(* of them once, together with the data pointer they were pushed with; a   *)
(* push is refused only when the queue is full and a pop only when it is   *)
(* empty.                                                                  *)
(***************************************************************************)
EXTENDS Naturals, Sequences

CONSTANTS
  Items,      \* what can be pushed: a task and its data pointer
  Capacity,   \* how many items the queue holds
  None        \* no item

VARIABLES
  queue,      \* the items pushed and not yet popped, oldest first
  offered,    \* the item the producer is pushing, None between pushes
  taken       \* what the last pop handed out: a task word and a data word

Init ==
  /\ queue = <<>>
  /\ offered = None
  /\ taken = [task |-> None, data |-> None]

Offer(v) ==
  /\ offered = None
  /\ offered' = v
  /\ UNCHANGED <<queue, taken>>

Accept ==
  /\ offered # None
  /\ Len(queue) < Capacity
  /\ queue' = Append(queue, offered)
  /\ offered' = None
  /\ UNCHANGED taken

Refuse ==
  /\ offered # None
  /\ Len(queue) = Capacity
  /\ offered' = None
  /\ UNCHANGED <<queue, taken>>

\* A consumer may ask for the task alone, or for the task and its data.
Take ==
  /\ queue # <<>>
  /\ \E d \in {Head(queue), None} : taken' = [task |-> Head(queue), data |-> d]
  /\ queue' = Tail(queue)
  /\ UNCHANGED offered

FindEmpty ==
  /\ queue = <<>>
  /\ taken' = [task |-> None, data |-> None]
  /\ UNCHANGED <<queue, offered>>

Next == (\E v \in Items : Offer(v)) \/ Accept \/ Refuse \/ Take \/ FindEmpty

Spec == Init /\ [][Next]_<<queue, offered, taken>>
=============================================================================
