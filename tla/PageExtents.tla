---------------------------- MODULE PageExtents ----------------------------
(***************************************************************************)
(* Pages of the CPU pools (src/src/mem/mem_pool.cc), and runs of pages.    *)
(*                                                                         *)
(* kbx_mem_pool_init builds one kbx_mem_pool per NUMA node and cuts its    *)
(* buffer into num_blocks pages of KBX_PAGE_SIZE bytes, so a page is       *)
(* <<node, block>> and the pointer kbx_mem_cpu_alloc returns stands for    *)
(* the run of pages that starts at it.  The byte addresses themselves are  *)
(* abstracted: the buffers of two pools never overlap and block j starts   *)
(* at buf + j * KBX_PAGE_SIZE, so a pointer and <<node, block>> determine  *)
(* each other.                                                             *)
(***************************************************************************)
EXTENDS Integers

CONSTANTS
  NumNodes,    \* numa_max_node() + 1, the number of pools
  NumBlocks    \* pool->size, the number of pages of each pool

ASSUME ExtentAssumption ==
  /\ NumNodes \in Nat \ {0}
  /\ NumBlocks \in Nat

Nodes  == 0 .. NumNodes - 1
Blocks == 0 .. NumBlocks - 1

\* The pages lo, lo + 1, ..., hi - 1 of the pool of node n.
Span(n, lo, hi) == {n} \X (lo .. hi - 1)

\* What a successful allocation hands out: a non-empty run inside one pool.
Extents ==
  { e \in [node : Nodes, start : Blocks, len : 1 .. NumBlocks] :
      e.start + e.len <= NumBlocks }

Pages(e) == Span(e.node, e.start, e.start + e.len)
=============================================================================
