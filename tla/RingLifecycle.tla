---------------------------- MODULE RingLifecycle ----------------------------
(***************************************************************************)
(* Setting up task rings and taking them down: kbx_ring_init and           *)
(* kbx_ring_destroy (src/src/mem/mem_ring.cc).                             *)
(*                                                                         *)
(* A ring has two arrays, tasks and data.  When the second one cannot be   *)
(* allocated init frees the first, but leaves the pointer to it in the     *)
(* ring; destroy sets both to NULL.  Several rings come and go at the same *)
(* time, each in its own thread, and an address that one of them has given *)
(* up may be handed to another.                                            *)
(*                                                                         *)
(* The client destroys a ring only if its init has succeeded; after a      *)
(* failed one, destroy would free tasks again, and with it the array of    *)
(* the ring that has the address by then.                                  *)
(*                                                                         *)
(* init's size is a size_t.  The lengths it passes to numa_alloc_onnode    *)
(* and numa_free are products of it, and wrap; ring->size keeps its low 32 *)
(* bits only, and destroy computes what it frees from those.               *)
(***************************************************************************)
EXTENDS NumaHeap

CONSTANTS
  Rings,
  Sizes,        \* the sizes asked for
  SizeMod,      \* 2^32: ring->size is smaller
  LongMod       \* how many elements, of 8 bytes in either array, make 2^64 bytes

ConstantsOK ==
  /\ SizeMod \in Nat \ {0} /\ LongMod \in Nat \ {0} /\ LongMod % SizeMod = 0
  /\ Sizes \subseteq Nat /\ Null \notin Addrs

VARIABLES
  ring,         \* the fields tasks, data and size of each ring
  life,         \* per ring: "unset", "ready", "failed" or "destroyed"
  pc,           \* per ring: the next step of the call on it
  size          \* per ring: init's argument, 0 if there is no ring

vars == <<memory, ring, life, pc, size>>

NoRing == [tasks |-> Null, data |-> Null, size |-> 0]

Init ==
  /\ NothingMapped
  /\ ring = [r \in Rings |-> NoRing]
  /\ life = [r \in Rings |-> "unset"]
  /\ pc = [r \in Rings |-> "idle"]
  /\ size = [r \in Rings |-> 0]

\* The elements there is room for in an array of sizeof * size bytes.
Room(n) == n % LongMod

\* ring->size = size.
Stored(n) == n % SizeMod

Goto(r, label) == pc' = [pc EXCEPT ![r] = label]
Becomes(r, state) == life' = [life EXCEPT ![r] = state]

(***************************************************************************)
(* kbx_ring_init.                                                          *)
(***************************************************************************)
InitTasks(r, n) ==
  /\ pc[r] = "idle"
  /\ life[r] # "ready"
  /\ \/ \E a \in Addrs :
          /\ NumaAlloc(a, Extent("tasks", Room(n)))
          /\ ring' = [ring EXCEPT ![r].tasks = a]
          /\ size' = [size EXCEPT ![r] = n]
          /\ Goto(r, "data")
          /\ UNCHANGED life
     \/ /\ NumaAllocFails(Extent("tasks", Room(n)))
        /\ ring' = [ring EXCEPT ![r].tasks = Null]
        /\ Becomes(r, "failed")
        /\ UNCHANGED <<pc, size>>

DataFailsForgets(r) ==          \* fault: tasks is not freed
  /\ Becomes(r, "failed")
  /\ ring' = [ring EXCEPT ![r].data = Null]
  /\ size' = [size EXCEPT ![r] = 0]
  /\ UNCHANGED memory
DataFails(r) ==
  /\ NumaFree(ring[r].tasks, Extent("tasks", Room(size[r])))
  /\ Becomes(r, "failed")
  /\ ring' = [ring EXCEPT ![r].data = Null]
  /\ size' = [size EXCEPT ![r] = 0]

InitData(r) ==
  /\ pc[r] = "data"
  /\ \/ \E a \in Addrs :
          /\ NumaAlloc(a, Extent("data", Room(size[r])))
          /\ ring' = [ring EXCEPT ![r].data = a, ![r].size = Stored(size[r])]
          /\ Becomes(r, "ready")
          /\ UNCHANGED size
     \/ (Room(size[r]) = 0 \/ "data" \in Faults) /\ DataFails(r)
  /\ Goto(r, "idle")

(***************************************************************************)
(* kbx_ring_destroy.                                                       *)
(***************************************************************************)
Destroyable(r) == life[r] = "ready"

DestroyTasks(r) ==
  /\ pc[r] = "idle"
  /\ Destroyable(r)
  /\ IF ring[r].tasks # Null
       THEN /\ NumaFree(ring[r].tasks, Extent("tasks", ring[r].size))
            /\ ring' = [ring EXCEPT ![r].tasks = Null]
       ELSE UNCHANGED <<memory, ring>>
  /\ Becomes(r, "destroyed")
  /\ Goto(r, "destroyData")
  /\ UNCHANGED size

DestroyData(r) ==
  /\ pc[r] = "destroyData"
  /\ IF ring[r].data # Null
       THEN /\ NumaFree(ring[r].data, Extent("data", ring[r].size))
            /\ ring' = [ring EXCEPT ![r].data = Null]
       ELSE UNCHANGED <<memory, ring>>
  /\ Goto(r, "idle")
  /\ size' = [size EXCEPT ![r] = 0]
  /\ UNCHANGED life

Next ==
  \E r \in Rings :
    \/ \E n \in Sizes : InitTasks(r, n)
    \/ InitData(r) \/ DestroyTasks(r) \/ DestroyData(r)

Spec == Init /\ [][Next]_vars
-----------------------------------------------------------------------------
(***************************************************************************)
(* Properties.                                                             *)
(***************************************************************************)
TypeOK ==
  /\ heap \in [Addrs -> Extents] /\ left \subseteq Extents
  /\ ring \in [Rings -> [tasks : Addrs \cup {Null}, data : Addrs \cup {Null},
                         size : 0 .. SizeMod - 1]]
  /\ life \in [Rings -> {"unset", "ready", "failed", "destroyed"}]
  /\ pc \in [Rings -> {"idle", "data", "destroyData"}]
  /\ size \in [Rings -> Sizes \cup {0}]

\* The array of tasks, or of data, that ring r has a right to.
HasTasks(r) == life[r] = "ready" \/ pc[r] = "data"
HasData(r)  == pc[r] = "destroyData" \/ (life[r] = "ready" /\ pc[r] = "idle")

\* The sizes that do not fit into ring->size.
TooLarge == {n \in Sizes : n >= SizeMod}

\* A ring that is set up has two arrays that are at least as long as the length
\* it works with, and no init or destroy of another ring takes them away or
\* shares them.  It has the length that was asked for, and some slot, unless
\* that length was too large.
ReadyIsBacked ==
  \A r \in Rings : life[r] = "ready" /\ pc[r] = "idle" =>
    /\ Covers(ring[r].tasks, Extent("tasks", ring[r].size))
    /\ Covers(ring[r].data, Extent("data", ring[r].size))
    /\ \/ size[r] \in TooLarge
       \/ ring[r].size = size[r] /\ ring[r].size > 0
    /\ \A s \in Rings \ {r} :
         /\ HasTasks(s) => ring[s].tasks # ring[r].tasks
         /\ HasData(s)  => ring[s].data  # ring[r].data

\* Only a destroy of a ring that was too large leaves anything behind: of each
\* array what lies beyond ring->size, or all of it if ring->size is 0.  Every
\* other array belongs to a ring that is set up, being set up or being
\* destroyed.
OnlyTooLargeLeaks ==
  /\ \A a \in Addrs : heap[a].kind \in {"tasks", "data"} =>
       \/ \E r \in Rings : \/ HasTasks(r) /\ ring[r].tasks = a
                           \/ HasData(r)  /\ ring[r].data = a
       \/ \E n \in TooLarge : Stored(n) = 0 /\ heap[a].n = Room(n)
  /\ \A part \in left : part.kind \in {"tasks", "data"} =>
       \E n \in TooLarge : Stored(n) > 0 /\ part.n = Room(n) - Stored(n)

\* What init or destroy passes to numa_free next is mapped, and is no longer
\* than the mapping: a longer one would unmap what lies behind it.
FreesWithin ==
  \A r \in Rings :
    /\ pc[r] = "data" => Mapped(ring[r].tasks, Extent("tasks", Room(size[r])))
    /\ pc[r] = "idle" /\ Destroyable(r) =>
         Covers(ring[r].tasks, Extent("tasks", ring[r].size))
    /\ pc[r] = "destroyData" => Covers(ring[r].data, Extent("data", ring[r].size))
=============================================================================
