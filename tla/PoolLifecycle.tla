---------------------------- MODULE PoolLifecycle ----------------------------
(***************************************************************************)
(* Setting up the page pools and taking them down: kbx_mem_pool_init and   *)
(* kbx_mem_pool_destroy (src/src/mem/mem_pool.cc).                         *)
(*                                                                         *)
(* A manager has one array of pools, one per NUMA node, and each pool has  *)
(* a buffer and an array of blocks.  Each comes from numa_alloc_onnode,    *)
(* which may fail; init returns at the first failure and frees nothing, so *)
(* that it is for destroy to find out how far init has come.               *)
(*                                                                         *)
(* The client of this model calls destroy once after every init, whether   *)
(* it succeeded or not, and uses the pools only after a successful one.    *)
(* Destroy leaves cpu_pool as it is, and a second call would read an array *)
(* that is no longer mapped.  What the pools do in between is in CpuPool.  *)
(***************************************************************************)
EXTENDS NumaHeap

CONSTANTS
  PoolCount,    \* numa_max_node() + 1
  Sizes,        \* the sizes asked for, in MiB
  MiB,          \* pages in a MiB
  PageMod       \* pages in 2^64 bytes

ConstantsOK ==
  /\ PoolCount \in Nat \ {0} /\ Sizes \subseteq Nat /\ Null \notin Addrs
  /\ MiB \in Nat \ {0} /\ PageMod \in Nat \ {0}

VARIABLES
  cpu_pool,     \* mem_manager->cpu_pool
  pools,        \* the pools of the array: buf, size, blocks
  asked,        \* the size init was called with, 0 after destroy
  status,       \* "none", or what the last init has returned
  pc,
  i             \* the loops over the pools

vars == <<memory, cpu_pool, pools, asked, status, pc, i>>

Indices == 0 .. PoolCount - 1
Empty == [buf |-> Null, size |-> 0, blocks |-> Null]

Init ==
  /\ NothingMapped
  /\ cpu_pool = Null
  /\ pools = [p \in Indices |-> Empty]
  /\ asked = 0
  /\ status = "none" /\ pc = "idle" /\ i = 0

(***************************************************************************)
(* kbx_mem_pool_init.                                                      *)
(***************************************************************************)
\* bytes = size * 1024 * 1024, a size_t, in pages.
Bytes == (asked * MiB) % PageMod

Return(result) ==
  /\ status' = result
  /\ pc' = "idle"
  /\ i' = 0

\* The array of pools; the pages the kernel hands out are zeroed.
InitPools(size) ==
  /\ pc = "idle"
  /\ status = "none"
  /\ asked' = size
  /\ pools' = [p \in Indices |-> Empty]
  /\ \/ \E a \in Addrs :
          /\ NumaAlloc(a, Extent("pools", PoolCount))
          /\ cpu_pool' = a
          /\ pc' = "buf" /\ i' = 0 /\ UNCHANGED status
     \/ /\ NumaAllocFails(Extent("pools", PoolCount))
        /\ cpu_pool' = Null
        /\ Return("failed")

InitBuf ==
  /\ pc = "buf"
  /\ \/ \E a \in Addrs :
          /\ NumaAlloc(a, Extent("buf", Bytes))
          /\ pools' = [pools EXCEPT ![i].buf = a, ![i].size = Bytes]
          /\ pc' = "blocks" /\ UNCHANGED <<status, i>>
     \/ /\ NumaAllocFails(Extent("buf", Bytes))
        /\ Return("failed")
        /\ UNCHANGED pools
  /\ UNCHANGED <<cpu_pool, asked>>

\* The next pool, or the end of init.
NextPoolLate ==                 \* fault: i <= pool_count
  IF i = PoolCount
    THEN Return("ready")
    ELSE pc' = "buf" /\ i' = i + 1 /\ UNCHANGED status
NextPool ==
  IF i + 1 = PoolCount
    THEN Return("ready")
    ELSE pc' = "buf" /\ i' = i + 1 /\ UNCHANGED status

BlocksFailCleansUp ==           \* fault: buf is freed and still pointed to
  /\ NumaFree(pools[i].buf, Extent("buf", Bytes))
  /\ Return("failed")
  /\ UNCHANGED pools
BlocksFailUnnoticed ==          \* fault: blocks is not compared with NULL
  /\ NumaAllocFails(Extent("blocks", pools[i].size))
  /\ NextPool
  /\ UNCHANGED pools
BlocksFail ==
  /\ NumaAllocFails(Extent("blocks", pools[i].size))
  /\ Return("failed")
  /\ UNCHANGED pools

InitBlocks ==
  /\ pc = "blocks"
  /\ \/ \E a \in Addrs :
          /\ NumaAlloc(a, Extent("blocks", pools[i].size))
          /\ pools' = [pools EXCEPT ![i].blocks = a]
          /\ NextPool
     \/ BlocksFail
  /\ UNCHANGED <<cpu_pool, asked>>

(***************************************************************************)
(* kbx_mem_pool_destroy.                                                   *)
(***************************************************************************)
Destroy ==
  /\ pc = "idle"
  /\ status \in {"ready", "failed"}
  /\ IF cpu_pool = Null
       THEN Return("none") /\ asked' = 0
       ELSE pc' = "freeBuf" /\ i' = 0 /\ UNCHANGED <<status, asked>>
  /\ UNCHANGED <<memory, cpu_pool, pools>>

FreeNext ==
  IF i + 1 = PoolCount
    THEN pc' = "freePools" /\ UNCHANGED i
    ELSE pc' = "freeBuf" /\ i' = i + 1

\* A pool without a buffer has not been reached by init.
FreeBuf ==
  /\ pc = "freeBuf"
  /\ IF pools[i].buf # Null
       THEN /\ NumaFree(pools[i].buf, Extent("buf", pools[i].size))
            /\ pc' = "freeBlocks" /\ UNCHANGED i
       ELSE FreeNext /\ UNCHANGED memory
  /\ UNCHANGED <<cpu_pool, pools, asked, status>>

FreeBlocks ==
  /\ pc = "freeBlocks"
  /\ NumaFree(pools[i].blocks, Extent("blocks", pools[i].size))
  /\ FreeNext
  /\ UNCHANGED <<cpu_pool, pools, asked, status>>

\* The pools go with the array they are in.
FreePools ==
  /\ pc = "freePools"
  /\ NumaFree(cpu_pool, Extent("pools", PoolCount))
  /\ pools' = [p \in Indices |-> Empty]
  /\ asked' = 0
  /\ Return("none")
  /\ UNCHANGED cpu_pool

Next ==
  \/ \E size \in Sizes : InitPools(size)
  \/ InitBuf \/ InitBlocks
  \/ Destroy \/ FreeBuf \/ FreeBlocks \/ FreePools

Spec == Init /\ [][Next]_vars
-----------------------------------------------------------------------------
(***************************************************************************)
(* Properties.                                                             *)
(***************************************************************************)
TypeOK ==
  /\ heap \in [Addrs -> Extents] /\ left \subseteq Extents
  /\ cpu_pool \in Addrs \cup {Null}
  /\ pools \in [Indices -> [buf : Addrs \cup {Null}, size : 0 .. PageMod - 1,
                            blocks : Addrs \cup {Null}]]
  /\ asked \in Sizes \cup {0}
  /\ status \in {"none", "ready", "failed"}
  /\ pc \in {"idle", "buf", "blocks", "freeBuf", "freeBlocks", "freePools"}
  /\ i \in Indices

\* A pool has a buffer and blocks for as many pages as it records, which are the
\* pages that were asked for exactly if their bytes can be counted by a size_t.
Backed(p) ==
  /\ Mapped(pools[p].buf, Extent("buf", pools[p].size))
  /\ Mapped(pools[p].blocks, Extent("blocks", pools[p].size))
  /\ pools[p].size = asked * MiB <=> asked * MiB < PageMod

\* When init has returned success every node has a pool that is backed.
ReadyIsBacked ==
  status = "ready" /\ pc = "idle" =>
    /\ Mapped(cpu_pool, Extent("pools", PoolCount))
    /\ \A p \in Indices : Backed(p)

\* Whichever allocation has failed, destroy gives back everything init got,
\* each of it to its end.
DestroyLeavesNothing ==
  LET mine == {"pools", "buf", "blocks"}
  IN  /\ status = "none" /\ pc = "idle" => \A a \in Addrs : heap[a].kind \notin mine
      /\ \A part \in left : part.kind \notin mine

\* What destroy is about to free is mapped, with the length it passes: nothing
\* is freed twice, and a NULL only stands where init has not come.
FreesLive ==
  /\ pc = "freeBuf" /\ pools[i].buf # Null =>
       Mapped(pools[i].buf, Extent("buf", pools[i].size))
  /\ pc = "freeBlocks" /\ pools[i].blocks # Null =>
       Mapped(pools[i].blocks, Extent("blocks", pools[i].size))
  /\ pc \in {"freeBuf", "freeBlocks", "freePools"} =>
       Mapped(cpu_pool, Extent("pools", PoolCount))
=============================================================================
