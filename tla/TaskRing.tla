------------------------------ MODULE TaskRing ------------------------------
(***************************************************************************)
(* kbx_task_queue (src/src/mem/mem_ring.cc): the ring between a thread     *)
(* that pushes tasks and a thread that pops them.                          *)
(*                                                                         *)
(* head and tail are plain uint32_t fields, so nothing but the order in    *)
(* which the accesses of a call reach memory keeps the two threads apart.  *)
(* ProgramOrder says which order that is:                                  *)
(*   TRUE   the order of the statements: a compiler that keeps them in      *)
(*          order, on a machine with total store order, such as the Intel  *)
(*          hardware this code is written for;                             *)
(*   FALSE  any order of the stores of a push, and of the loads and the    *)
(*          index store of a pop.  The language allows it (they are plain  *)
(*          accesses to different objects), and with it an optimising      *)
(*          compiler and a machine with a weaker memory model.             *)
(*                                                                         *)
(* An item is one task with its data pointer; its two words are stored and *)
(* loaded separately.                                                      *)
(***************************************************************************)
EXTENDS Integers, Sequences

CONSTANTS
  Size,          \* ring->size; the ring holds Size - 1 items
  Items,         \* the items pushed
  Blank,         \* the contents of a slot never written, and "no item"
  ProgramOrder

ASSUME RingAssumption ==
  /\ Size \in Nat \ {0}
  /\ Blank \notin Items
  /\ ProgramOrder \in BOOLEAN

VARIABLES
  head,       \* ring->head, the slot the next push writes
  tail,       \* ring->tail, the slot the next pop reads
  tasks,      \* ring->tasks
  data,       \* ring->data
  pushPc,     \* where the producer's call stands
  item,       \* the item it was called with
  wslot,      \* the value of head it works with
  toStore,    \* the stores it has yet to make
  popPc,      \* where the consumer's call stands
  rslot,      \* the value of tail it works with
  toLoad,     \* the accesses it has yet to make
  got,        \* *task and *data, as far as it has filled them in
  taken       \* what the last completed pop gave its caller

ring     == <<head, tail, tasks, data>>
producer == <<pushPc, item, wslot, toStore>>
consumer == <<popPc, rslot, toLoad, got, taken>>
vars     == <<ring, producer, consumer>>

Slots   == 0 .. Size - 1
Word    == Items \cup {Blank}
Nothing == [task |-> Blank, data |-> Blank]

AdvanceNoWrap(i) == i + 1                         \* fault: no wrap-around
Advance(i) == (i + 1) % Size

\* kbx_ring_is_full and kbx_ring_is_empty.
FullNoWrap == head + 1 = tail                     \* fault: no wrap-around
IsFull  == Advance(head) = tail
EmptyAhead == Advance(tail) = head                \* fault: off by one
IsEmpty == head = tail

\* The order of the statements, and whether the access w may be the next one
\* of its call to reach memory.
RankIndexEarly == [task |-> 1, head |-> 2, tail |-> 2, data |-> 3]  \* fault: swapped
Rank == [task |-> 1, data |-> 2, head |-> 3, tail |-> 3]
Earliest(w, pending) ==
  /\ w \in pending
  /\ ProgramOrder => \A x \in pending : Rank[w] <= Rank[x]

Init ==
  /\ head = 0 /\ tail = 0
  /\ tasks = [s \in Slots |-> Blank]
  /\ data  = [s \in Slots |-> Blank]
  /\ pushPc = "idle" /\ item = Blank /\ wslot = 0 /\ toStore = {}
  /\ popPc = "idle" /\ rslot = 0 /\ toLoad = {}
  /\ got = Nothing /\ taken = Nothing

(***************************************************************************)
(* kbx_ring_push(ring, task, data), by the producer.                       *)
(***************************************************************************)
PushCall(v) ==
  /\ pushPc = "idle"
  /\ pushPc' = "check"
  /\ item' = v
  /\ UNCHANGED <<ring, wslot, toStore, consumer>>

\* is_full: the producer owns head, so the load of tail decides.
PushRefused ==
  /\ pushPc = "check"
  /\ IsFull
  /\ pushPc' = "idle"
  /\ item' = Blank
  /\ UNCHANGED <<ring, wslot, toStore, consumer>>

PushAdmitted ==
  /\ pushPc = "check"
  /\ ~IsFull
  /\ pushPc' = "store"
  /\ wslot' = head
  /\ toStore' = {"task", "data", "head"}
  /\ UNCHANGED <<ring, item, consumer>>

\* The access w of the call is done; after the last one the call returns.
PushDone(w) ==
  /\ toStore' = toStore \ {w}
  /\ IF toStore = {w}
       THEN pushPc' = "idle" /\ item' = Blank /\ wslot' = 0
       ELSE UNCHANGED <<pushPc, item, wslot>>
  /\ UNCHANGED consumer

StoreTask ==
  /\ Earliest("task", toStore)
  /\ tasks' = [tasks EXCEPT ![wslot] = item]
  /\ PushDone("task")
  /\ UNCHANGED <<head, tail, data>>

StoreData ==
  /\ Earliest("data", toStore)
  /\ data' = [data EXCEPT ![wslot] = item]
  /\ PushDone("data")
  /\ UNCHANGED <<head, tail, tasks>>

StoreHead ==
  /\ Earliest("head", toStore)
  /\ head' = Advance(wslot)
  /\ PushDone("head")
  /\ UNCHANGED <<tail, tasks, data>>

(***************************************************************************)
(* kbx_ring_pop(ring, task, data), by the consumer.                        *)
(***************************************************************************)
PopCall ==
  /\ popPc = "idle"
  /\ popPc' = "check"
  /\ UNCHANGED <<ring, producer, rslot, toLoad, got, taken>>

PopRefused ==
  /\ popPc = "check"
  /\ IsEmpty
  /\ popPc' = "idle"
  /\ taken' = Nothing
  /\ UNCHANGED <<ring, producer, rslot, toLoad, got>>

\* The caller may pass no place for the data pointer, which is then not read.
PopAdmitted ==
  /\ popPc = "check"
  /\ ~IsEmpty
  /\ popPc' = "load"
  /\ rslot' = tail
  /\ \E wanted \in {{"task", "data", "tail"}, {"task", "tail"}} : toLoad' = wanted
  /\ UNCHANGED <<ring, producer, got, taken>>

PopDone(w, result) ==
  /\ toLoad' = toLoad \ {w}
  /\ IF toLoad = {w}
       THEN popPc' = "idle" /\ rslot' = 0 /\ got' = Nothing /\ taken' = result
       ELSE got' = result /\ UNCHANGED <<popPc, rslot, taken>>
  /\ UNCHANGED producer

LoadTask ==
  /\ Earliest("task", toLoad)
  /\ PopDone("task", [got EXCEPT !.task = tasks[rslot]])
  /\ UNCHANGED ring

LoadData ==
  /\ Earliest("data", toLoad)
  /\ PopDone("data", [got EXCEPT !.data = data[rslot]])
  /\ UNCHANGED ring

StoreTail ==
  /\ Earliest("tail", toLoad)
  /\ tail' = Advance(rslot)
  /\ PopDone("tail", got)
  /\ UNCHANGED <<head, tasks, data>>

-----------------------------------------------------------------------------
Push == \/ \E v \in Items : PushCall(v)
        \/ PushRefused \/ PushAdmitted \/ StoreTask \/ StoreData \/ StoreHead
Pop  == PopCall \/ PopRefused \/ PopAdmitted \/ LoadTask \/ LoadData \/ StoreTail

Next == Push \/ Pop
Spec == Init /\ [][Next]_vars
-----------------------------------------------------------------------------
(***************************************************************************)
(* Properties.                                                             *)
(***************************************************************************)

\* The indices stay inside the arrays and every word is one that was stored.
TypeOK ==
  /\ head \in Slots /\ tail \in Slots
  /\ tasks \in [Slots -> Word] /\ data \in [Slots -> Word]
  /\ pushPc \in {"idle", "check", "store"}
  /\ item \in Word /\ wslot \in Slots
  /\ toStore \subseteq {"task", "data", "head"}
  /\ popPc \in {"idle", "check", "load"}
  /\ rslot \in Slots
  /\ toLoad \subseteq {"task", "data", "tail"}
  /\ got   \in [task : Word, data : Word]
  /\ taken \in [task : Word, data : Word]

\* The slots that hold an item, from tail up to head.
Occupied ==
  { s \in Slots : IF tail <= head THEN tail <= s /\ s < head
                                  ELSE tail <= s \/ s < head }

\* The words a thread is about to touch.  The producer stores only to a slot
\* that is not occupied and the consumer loads only from one that is, so the
\* two never touch the same slot, although neither waits for the other and
\* each decided with an index the other may have moved since.
Writing == IF toStore \cap {"task", "data"} # {} THEN {wslot} ELSE {}
Reading == IF toLoad \cap {"task", "data"} # {} THEN {rslot} ELSE {}
SlotExclusive ==
  /\ Writing \cap Occupied = {}
  /\ Reading \subseteq Occupied
  /\ Writing \cap Reading = {}

\* No pop hands out half of one item and half of another, or a slot whose
\* item is still being written: the data pointer, when it was asked for, is
\* the one its task was pushed with.
PopsWhole == taken.data # Blank => taken.data = taken.task

\* The ring keeps the promise of a bounded FIFO queue of Size - 1 items: the
\* store to head is the moment a push takes effect and the store to tail the
\* moment a pop does.
Count    == (head - tail + Size) % Size
Contents == [i \in 1 .. Count |-> tasks[(tail + i - 1) % Size]]
Offered  == IF pushPc = "check" \/ "head" \in toStore THEN item ELSE Blank
Fifo == INSTANCE BoundedFifo WITH
          Capacity <- Size - 1, None <- Blank,
          queue <- Contents, offered <- Offered
IsFifo == Fifo!Spec
=============================================================================
