--------------------------- MODULE PageAllocator ---------------------------
(***************************************************************************)
(* What kbx_mem_alloc and kbx_mem_free promise their callers, with no      *)
(* word about flags, scanning or threads: an allocation is a run of whole  *)
(* pages inside one pool, it shares no page with any allocation that is    *)
(* still live, and it lasts until its owner frees it.  An allocation may   *)
(* be refused at any time (NULL), which changes nothing.                   *)
(***************************************************************************)
EXTENDS PageExtents

VARIABLE live    \* the allocations handed out and not yet freed

Init == live = {}

Grant(e) ==
  /\ \A f \in live : Pages(e) \cap Pages(f) = {}
  /\ live' = live \cup {e}

Release(e) ==
  /\ e \in live
  /\ live' = live \ {e}

Next == \E e \in Extents : Grant(e) \/ Release(e)

Spec == Init /\ [][Next]_live
=============================================================================
