------------------------------ MODULE NumaHeap ------------------------------
(***************************************************************************)
(* The process's memory as numa_alloc_onnode and numa_free see it: what is *)
(* mapped at each address, with its kind and its length.  External,        *)
(* modelled from how src/src/mem uses the two functions: an allocation     *)
(* fails by returning NULL, and an address can be handed out again as soon *)
(* as it has been freed.  numa_free unmaps as much as it is told to, which *)
(* may be less than is mapped: the part behind stays mapped although       *)
(* nobody has its address, and left remembers what parts there are.        *)
(***************************************************************************)
EXTENDS Naturals

CONSTANTS
  Addrs,        \* the addresses numa_alloc_onnode may return
  Null,
  Faults        \* the kinds of allocation that may fail

VARIABLES
  heap,         \* what is mapped at each address
  left          \* what parts of mappings frees have left behind

memory == <<heap, left>>

\* What can be mapped: the arrays of the page pools and of the task rings.
Kinds == {"free", "pools", "buf", "blocks", "tasks", "data"}
Extents == [kind : Kinds, n : Nat]

Unmapped == [kind |-> "free", n |-> 0]
Extent(kind, n) == [kind |-> kind, n |-> n]

NothingMapped == heap = [a \in Addrs |-> Unmapped] /\ left = {}

Mapped(a, extent) == a \in Addrs /\ heap[a] = extent

\* At least as much of the kind is mapped there.
Covers(a, extent) ==
  a \in Addrs /\ heap[a].kind = extent.kind /\ extent.n <= heap[a].n

NumaAlloc(a, extent) ==
  /\ extent.n > 0
  /\ heap[a] = Unmapped
  /\ heap' = [heap EXCEPT ![a] = extent]
  /\ UNCHANGED left

\* A length of 0 cannot be mapped.
NumaAllocFails(extent) ==
  /\ extent.n = 0 \/ extent.kind \in Faults
  /\ UNCHANGED memory

\* The part of a mapping behind the one that is freed.
Behind(whole, part) ==
  IF whole.kind = part.kind /\ part.n < whole.n
    THEN {Extent(whole.kind, whole.n - part.n)}
    ELSE {}

\* Whatever is mapped at the address goes, whoever it belongs to by now.  A
\* length of 0 and a NULL are refused and free nothing.
NumaFree(a, extent) ==
  IF a \in Addrs /\ heap[a] # Unmapped /\ extent.n > 0
    THEN /\ heap' = [heap EXCEPT ![a] = Unmapped]
         /\ left' = left \cup Behind(heap[a], extent)
    ELSE UNCHANGED memory
=============================================================================
