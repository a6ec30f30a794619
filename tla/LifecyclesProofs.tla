--------------------------- MODULE LifecyclesProofs ---------------------------
(***************************************************************************)
(* Proofs about Lifecycles, for any number of NUMA nodes, rings, addresses *)
(* and sizes, whichever kinds of allocation may fail.                      *)
(*                                                                         *)
(* The invariant says of every pointer whether its owner has a right to    *)
(* what it points to, and that what is mapped and what somebody has a      *)
(* right to are the same, but for what the destroys of rings whose sizes   *)
(* do not fit ring->size leave mapped.  Pools follows kbx_mem_pool_init    *)
(* from pool to pool and kbx_mem_pool_destroy after it; Arrays does so for *)
(* each ring.  Each of the two is about memory of its own kinds, which the *)
(* steps of the other leave alone.  What a ring of any size records and    *)
(* frees is compared with what it has mapped in the lemma Truncation.      *)
(***************************************************************************)
EXTENDS Lifecycles, Integers, TLAPS

PoolKinds == {"pools", "buf", "blocks"}
RingKinds == {"tasks", "data"}

-----------------------------------------------------------------------------
(***************************************************************************)
(* The invariant.                                                          *)
(***************************************************************************)

\* The arrays the pools have a right to.
HasPools == cpu_pool # Null /\ (poolPc # "idle" \/ status # "none")
WithBuf == {p \in Pool!Indices :
  /\ HasPools
  /\ pools[p].buf # Null
  /\ poolPc = "freeBuf" => p >= i
  /\ poolPc = "freeBlocks" => p > i
  /\ poolPc # "freePools"}
WithBlocks == {p \in Pool!Indices :
  /\ HasPools
  /\ pools[p].blocks # Null
  /\ poolPc \in {"freeBuf", "freeBlocks"} => p >= i
  /\ poolPc # "freePools"}

\* How far init has come: which pools have their buffer and their blocks.
Complete(p)  == pools[p].buf # Null /\ pools[p].blocks # Null
Untouched(p) == pools[p].buf = Null /\ pools[p].blocks = Null
Reached ==
  /\ poolPc \in {"buf", "blocks"} => status = "none"
  /\ poolPc \in {"freeBuf", "freeBlocks", "freePools"} => status # "none"
  /\ poolPc # "idle" => cpu_pool # Null
  /\ poolPc \in {"buf", "blocks"} => \A p \in Pool!Indices :
       /\ p < i => Complete(p)
       /\ p > i => Untouched(p)
  /\ poolPc = "buf" => Untouched(i)
  /\ poolPc = "blocks" => pools[i].buf # Null /\ pools[i].blocks = Null
  /\ status = "ready" => cpu_pool # Null /\ \A p \in Pool!Indices : Complete(p)
  /\ \A p \in Pool!Indices :
       /\ cpu_pool = Null => Untouched(p)
       /\ pools[p].buf # Null => pools[p].size = Pool!Bytes /\ Pool!Bytes > 0
       /\ pools[p].buf = Null => pools[p].blocks = Null

PoolsBacked ==
  /\ HasPools => Pool!Mapped(cpu_pool, Pool!Extent("pools", PoolCount))
  /\ \A p \in WithBuf : Pool!Mapped(pools[p].buf, Pool!Extent("buf", pools[p].size))
  /\ \A p \in WithBlocks : Pool!Mapped(pools[p].blocks, Pool!Extent("blocks", pools[p].size))
PoolsApart ==
  /\ \A p, q \in WithBuf : p # q => pools[p].buf # pools[q].buf
  /\ \A p, q \in WithBlocks : p # q => pools[p].blocks # pools[q].blocks
PoolsOwned ==
  /\ \A a \in Addrs :
       /\ heap[a].kind = "pools" => HasPools /\ cpu_pool = a
       /\ heap[a].kind = "buf" => \E p \in WithBuf : pools[p].buf = a
       /\ heap[a].kind = "blocks" => \E p \in WithBlocks : pools[p].blocks = a
  /\ \A part \in left : part.kind \notin PoolKinds
Pools == Pool!TypeOK /\ Reached /\ PoolsBacked /\ PoolsApart /\ PoolsOwned

WithTasks == {r \in Rings : Ring!HasTasks(r)}
WithData  == {r \in Rings : Ring!HasData(r)}
ArraysBacked ==
  /\ \A r \in WithTasks :
       /\ Ring!Mapped(ring[r].tasks, Ring!Extent("tasks", Ring!Room(size[r])))
       /\ Ring!Room(size[r]) > 0
  /\ \A r \in WithData :
       /\ Ring!Mapped(ring[r].data, Ring!Extent("data", Ring!Room(size[r])))
       /\ Ring!Room(size[r]) > 0 /\ ring[r].size = Ring!Stored(size[r])
ArraysApart ==
  /\ \A r, s \in WithTasks : r # s => ring[r].tasks # ring[s].tasks
  /\ \A r, s \in WithData : r # s => ring[r].data # ring[s].data

\* How much a destroy leaves of an array: all of it or its end.
WholeLost == {Ring!Room(n) : n \in {m \in Ring!TooLarge : Ring!Stored(m) = 0}}
EndLost == {Ring!Room(n) - Ring!Stored(n) : n \in {m \in Ring!TooLarge : Ring!Stored(m) > 0}}
ArraysOwned ==
  /\ \A a \in Addrs :
       /\ heap[a].kind = "tasks" =>
            (\E r \in WithTasks : ring[r].tasks = a) \/ heap[a].n \in WholeLost
       /\ heap[a].kind = "data" =>
            (\E r \in WithData : ring[r].data = a) \/ heap[a].n \in WholeLost
  /\ \A part \in left : part.kind \in RingKinds => part.n \in EndLost
Turns ==
  \A r \in Rings :
    /\ ringPc[r] = "data" => life[r] # "ready"
    /\ ringPc[r] = "destroyData" => life[r] = "destroyed"
Arrays == Ring!TypeOK /\ Turns /\ ArraysBacked /\ ArraysApart /\ ArraysOwned

-----------------------------------------------------------------------------
(***************************************************************************)
(* The memory.                                                             *)
(***************************************************************************)
\* A step that touches no memory of these kinds.
Leaves(kinds) ==
  /\ heap' \in [Addrs -> Pool!Extents] /\ left' \subseteq Pool!Extents
  /\ \A a \in Addrs : heap[a].kind \in kinds \/ heap'[a].kind \in kinds => heap'[a] = heap[a]
  /\ \A part \in left' : part.kind \in kinds => part \in left

LEMMA Allocates ==
  ASSUME heap \in [Addrs -> Pool!Extents], left \subseteq Pool!Extents,
         NEW a \in Addrs, NEW e \in Pool!Extents,
         Pool!NumaAlloc(a, e) \/ Ring!NumaAlloc(a, e)
  PROVE  /\ heap' \in [Addrs -> Pool!Extents] /\ left' = left
         /\ heap[a].kind = "free" /\ heap'[a] = e /\ e.n > 0
         /\ \A b \in Addrs \ {a} : heap'[b] = heap[b]
         /\ \A kinds : "free" \notin kinds /\ e.kind \notin kinds => Leaves(kinds)
BY DEF Pool!NumaAlloc, Ring!NumaAlloc, Pool!Unmapped, Ring!Unmapped, Leaves

\* A free that is told less than the length leaves the rest, one that is told 0
\* leaves everything.
LEMMA Frees ==
  ASSUME heap \in [Addrs -> Pool!Extents], left \subseteq Pool!Extents,
         NEW a \in Addrs, NEW kind \in PoolKinds \cup RingKinds, NEW n \in Nat, NEW m \in Nat,
         n > 0, m <= n, heap[a] = [kind |-> kind, n |-> n],
         \/ Pool!NumaFree(a, [kind |-> kind, n |-> m])
         \/ Ring!NumaFree(a, [kind |-> kind, n |-> m])
  PROVE  /\ heap' \in [Addrs -> Pool!Extents] /\ left' \subseteq Pool!Extents
         /\ heap'[a] = IF m > 0 THEN [kind |-> "free", n |-> 0] ELSE heap[a]
         /\ \A b \in Addrs \ {a} : heap'[b] = heap[b]
         /\ left' = left \cup (IF 0 < m /\ m < n THEN {[kind |-> kind, n |-> n - m]} ELSE {})
         /\ \A kinds : "free" \notin kinds /\ kind \notin kinds => Leaves(kinds)
<1>1. kind # "free" /\ kind \in Pool!Kinds
  BY DEF PoolKinds, RingKinds, Pool!Kinds
<1>2. CASE m = 0
  BY <1>1, <1>2 DEF Pool!NumaFree, Ring!NumaFree, Pool!memory, Ring!memory, Leaves
<1>3. CASE m > 0
  <2>1. /\ heap' = [heap EXCEPT ![a] = [kind |-> "free", n |-> 0]]
        /\ left' = left \cup (IF m < n THEN {[kind |-> kind, n |-> n - m]} ELSE {})
    BY <1>1, <1>3 DEF Pool!NumaFree, Ring!NumaFree, Pool!Unmapped, Ring!Unmapped, Pool!Behind,
       Ring!Behind, Pool!Extent, Ring!Extent
  <2>2. [kind |-> "free", n |-> 0] \in Pool!Extents
    BY DEF Pool!Extents, Pool!Kinds
  <2>3. m < n => [kind |-> kind, n |-> n - m] \in Pool!Extents
    BY <1>1 DEF Pool!Extents
  <2> QED BY <1>1, <1>3, <2>1, <2>2, <2>3 DEF Leaves
<1> QED BY <1>2, <1>3

\* The pools free what they have mapped.
LEMMA PoolFrees ==
  ASSUME heap \in [Addrs -> Pool!Extents], left \subseteq Pool!Extents,
         NEW a, NEW kind \in PoolKinds, NEW n \in Nat, n > 0,
         Pool!Mapped(a, Pool!Extent(kind, n)), Pool!NumaFree(a, Pool!Extent(kind, n))
  PROVE  /\ heap' \in [Addrs -> Pool!Extents] /\ left' = left
         /\ a \in Addrs /\ heap[a].kind = kind /\ heap'[a].kind = "free"
         /\ \A b \in Addrs \ {a} : heap'[b] = heap[b]
         /\ Leaves(RingKinds)
<1>1. a \in Addrs /\ heap[a] = [kind |-> kind, n |-> n]
  BY DEF Pool!Mapped, Pool!Extent
<1>2. Pool!NumaFree(a, [kind |-> kind, n |-> n])
  BY DEF Pool!Extent
<1>3. "free" \notin RingKinds /\ kind \notin RingKinds
  BY DEF RingKinds, PoolKinds
<1>4. /\ heap' \in [Addrs -> Pool!Extents]
      /\ heap'[a] = IF n > 0 THEN [kind |-> "free", n |-> 0] ELSE heap[a]
      /\ \A b \in Addrs \ {a} : heap'[b] = heap[b]
      /\ left' = left \cup (IF 0 < n /\ n < n THEN {[kind |-> kind, n |-> n - n]} ELSE {})
      /\ \A kinds : "free" \notin kinds /\ kind \notin kinds => Leaves(kinds)
  BY <1>1, <1>2, Frees
<1> QED BY <1>1, <1>3, <1>4

\* What the kinds of the other side do is of no concern.
LEMMA PoolsFramed ==
  ASSUME Pools, Leaves(PoolKinds), UNCHANGED poolVars
  PROVE  Pools'
<1>1. /\ UNCHANGED <<cpu_pool, pools, asked, status, poolPc, i>>
      /\ heap' \in [Addrs -> Pool!Extents] /\ left' \subseteq Pool!Extents
  BY DEF poolVars, Leaves
<1>2. Pool!TypeOK'
  BY <1>1 DEF Pools, Pool!TypeOK, Pool!Indices, Pool!Extents, Ring!Extents, Pool!Kinds, Ring!Kinds
<1>3. Reached'
  BY <1>1 DEF Pools, Reached, Complete, Untouched, Pool!Indices, Pool!Bytes
<1>4. /\ HasPools' = HasPools
      /\ WithBuf' = WithBuf /\ WithBlocks' = WithBlocks
  BY <1>1 DEF HasPools, WithBuf, WithBlocks, Pool!Indices
<1>5. PoolsBacked' /\ PoolsApart'
  BY <1>1, <1>4 DEF Pools, PoolsBacked, PoolsApart, Pool!Mapped, Pool!Extent, Leaves, PoolKinds
<1>6. PoolsOwned'
  BY <1>1, <1>4 DEF Pools, PoolsOwned, Leaves, PoolKinds
<1> QED BY <1>2, <1>3, <1>5, <1>6 DEF Pools

LEMMA ArraysFramed ==
  ASSUME Arrays, Leaves(RingKinds), UNCHANGED ringVars
  PROVE  Arrays'
<1>1. /\ UNCHANGED <<ring, life, ringPc, size>>
      /\ heap' \in [Addrs -> Pool!Extents] /\ left' \subseteq Pool!Extents
  BY DEF ringVars, Leaves
<1>2. Ring!TypeOK' /\ Turns'
  BY <1>1 DEF Arrays, Ring!TypeOK, Turns, Pool!Extents, Ring!Extents, Pool!Kinds, Ring!Kinds
<1>4. WithTasks' = WithTasks /\ WithData' = WithData
  BY <1>1 DEF WithTasks, WithData, Ring!HasTasks, Ring!HasData
<1>5. ArraysBacked' /\ ArraysApart'
  BY <1>1, <1>4 DEF Arrays, ArraysBacked, ArraysApart, Ring!Mapped, Ring!Extent, Leaves, RingKinds
<1>6. ArraysOwned'
  BY <1>1, <1>4 DEF Arrays, ArraysOwned, Leaves, RingKinds
<1> QED BY <1>2, <1>5, <1>6 DEF Arrays

-----------------------------------------------------------------------------
(***************************************************************************)
(* The steps of kbx_mem_pool_init and kbx_mem_pool_destroy.                *)
(***************************************************************************)
LEMMA PoolFacts ==
  ASSUME Pools
  PROVE  /\ Null \notin Addrs /\ PoolCount \in Nat \ {0} /\ PoolSizes \subseteq Nat
         /\ Pool!Indices' = Pool!Indices
         /\ heap \in [Addrs -> Pool!Extents] /\ left \subseteq Pool!Extents
         /\ i \in Pool!Indices /\ i \in Nat
         /\ Pool!Bytes \in Nat /\ Pool!Bytes \in 0 .. PageMod - 1 /\ 0 \in 0 .. PageMod - 1
         /\ \A p \in Pool!Indices :
              p \in Nat /\ p < PoolCount /\ pools[p].size \in Nat
<1>1. /\ Null \notin Addrs /\ PoolCount \in Nat \ {0} /\ PoolSizes \subseteq Nat
      /\ MiB \in Nat \ {0} /\ PageMod \in Nat \ {0}
  BY LifecyclesAssumption DEF Pool!ConstantsOK
<1>2. /\ heap \in [Addrs -> Pool!Extents] /\ left \subseteq Pool!Extents
      /\ i \in Pool!Indices /\ asked \in PoolSizes \cup {0}
      /\ \A p \in Pool!Indices : pools[p].size \in 0 .. PageMod - 1
  BY DEF Pools, Pool!TypeOK
<1>3. \A p \in Pool!Indices : p \in Nat /\ p < PoolCount
  BY <1>1 DEF Pool!Indices
<1>4. asked * MiB \in Nat
  BY <1>1, <1>2
<1>5. Pool!Bytes \in Nat /\ Pool!Bytes \in 0 .. PageMod - 1 /\ 0 \in 0 .. PageMod - 1
  BY <1>1, <1>4 DEF Pool!Bytes
<1>6. \A p \in Pool!Indices : pools[p].size \in Nat
  BY <1>1, <1>2
<1>7. Pool!Indices' = Pool!Indices
  BY DEF Pool!Indices
<1> QED BY <1>1, <1>2, <1>3, <1>5, <1>6, <1>7

\* A length and a kind make an extent of memory.
LEMMA PoolExtents ==
  ASSUME NEW n \in Nat, NEW kind \in PoolKinds
  PROVE  /\ Pool!Extent(kind, n) \in Pool!Extents
         /\ Pool!Extent(kind, n).kind = kind
         /\ "free" \notin RingKinds /\ kind \notin RingKinds
         /\ "free" \notin PoolKinds
BY DEF Pool!Extent, Pool!Extents, Pool!Kinds, PoolKinds, RingKinds

\* What the pools point to is of the kind they take it for.
LEMMA PoolsKinds ==
  ASSUME Pools
  PROVE  /\ HasPools => heap[cpu_pool].kind = "pools"
         /\ \A p \in WithBuf : heap[pools[p].buf].kind = "buf"
         /\ \A p \in WithBlocks : heap[pools[p].blocks].kind = "blocks"
<1>1. Pools => PoolsBacked
  BY DEF Pools
<1>2. \A x, n : Pool!Mapped(x, Pool!Extent("pools", n)) => heap[x].kind = "pools"
  BY DEF Pool!Mapped, Pool!Extent
<1>3. \A x, n : Pool!Mapped(x, Pool!Extent("buf", n)) => heap[x].kind = "buf"
  BY DEF Pool!Mapped, Pool!Extent
<1>4. \A x, n : Pool!Mapped(x, Pool!Extent("blocks", n)) => heap[x].kind = "blocks"
  BY DEF Pool!Mapped, Pool!Extent
<1> QED BY <1>1, <1>2, <1>3, <1>4 DEF PoolsBacked

LEMMA NothingChanges ==
  ASSUME heap \in [Addrs -> Pool!Extents], left \subseteq Pool!Extents,
         heap' = heap, left' = left
  PROVE  Leaves(RingKinds) /\ Leaves(PoolKinds)
BY DEF Leaves

LEMMA InitPoolsStep ==
  ASSUME Pools, NEW n \in PoolSizes, Pool!InitPools(n)
  PROVE  Pools' /\ Leaves(RingKinds)
<1> USE PoolFacts
<1>1. /\ poolPc = "idle" /\ status = "none" /\ asked' = n /\ n \in Nat
      /\ pools' = [p \in Pool!Indices |-> Pool!Empty]
  BY DEF Pool!InitPools
<1>2. \A p \in Pool!Indices : /\ pools'[p].buf = Null /\ pools'[p].blocks = Null
                              /\ pools'[p].size = 0
  BY <1>1 DEF Pool!Empty
<1>3. pools' \in [Pool!Indices -> [buf : Addrs \cup {Null}, size : 0 .. PageMod - 1,
                                   blocks : Addrs \cup {Null}]]
  BY <1>1 DEF Pool!Empty
<1>4. ~HasPools /\ WithBuf = {} /\ WithBlocks = {} /\ WithBuf' = {} /\ WithBlocks' = {}
  BY <1>1, <1>2 DEF HasPools, WithBuf, WithBlocks
<1>5. /\ \A a \in Addrs : heap[a].kind \notin PoolKinds
      /\ \A part \in left : part.kind \notin PoolKinds
  BY <1>4 DEF Pools, PoolsOwned, PoolKinds
<1>6. ASSUME NEW a \in Addrs, Pool!NumaAlloc(a, Pool!Extent("pools", PoolCount)),
             cpu_pool' = a, poolPc' = "buf", i' = 0, UNCHANGED status
      PROVE  Pools' /\ Leaves(RingKinds)
  <2>1. /\ heap' \in [Addrs -> Pool!Extents] /\ left' = left
        /\ heap'[a] = Pool!Extent("pools", PoolCount)
        /\ \A b \in Addrs \ {a} : heap'[b] = heap[b]
        /\ Leaves(RingKinds)
    BY <1>6, Allocates, PoolExtents DEF PoolKinds
  <2>2. Pool!TypeOK'
    BY <1>1, <1>3, <1>6, <2>1 DEF Pool!TypeOK, Pool!Indices
  <2>3. Reached'
    BY <1>1, <1>2, <1>6 DEF Reached, Untouched, Pool!Indices
  <2>4. PoolsBacked' /\ PoolsApart'
    BY <1>4, <1>6, <2>1 DEF PoolsBacked, PoolsApart, Pool!Mapped
  <2>5. PoolsOwned'
    BY <1>5, <1>6, <2>1, PoolExtents DEF PoolsOwned, PoolKinds, HasPools
  <2> QED BY <2>1, <2>2, <2>3, <2>4, <2>5 DEF Pools
<1>7. CASE /\ Pool!NumaAllocFails(Pool!Extent("pools", PoolCount))
           /\ cpu_pool' = Null /\ Pool!Return("failed")
  <2>1. /\ heap' = heap /\ left' = left
        /\ poolPc' = "idle" /\ i' = 0 /\ status' = "failed" /\ cpu_pool' = Null
    BY <1>7 DEF Pool!NumaAllocFails, Pool!memory, Pool!Return
  <2>2. Pool!TypeOK'
    BY <1>1, <1>3, <2>1 DEF Pools, Pool!TypeOK, Pool!Indices
  <2>3. Reached'
    BY <1>1, <1>2, <2>1 DEF Reached, Untouched, Pool!Indices
  <2>4. PoolsBacked' /\ PoolsApart' /\ PoolsOwned'
    BY <1>4, <1>5, <2>1 DEF PoolsBacked, PoolsApart, PoolsOwned, HasPools, PoolKinds
  <2> QED BY <2>1, <2>2, <2>3, <2>4, NothingChanges DEF Pools
<1> QED BY <1>6, <1>7 DEF Pool!InitPools

\* init returns at the first failure, and what it has got stays where it is.
LEMMA InitGivesUp ==
  ASSUME Pools, poolPc \in {"buf", "blocks"}, heap' = heap, left' = left, Pool!Return("failed"),
         UNCHANGED <<cpu_pool, pools, asked>>
  PROVE  Pools' /\ Leaves(RingKinds)
<1> USE PoolFacts
<1>1. poolPc' = "idle" /\ i' = 0 /\ status' = "failed"
  BY DEF Pool!Return
<1>2. HasPools' = HasPools /\ WithBuf' = WithBuf /\ WithBlocks' = WithBlocks
  BY <1>1 DEF HasPools, WithBuf, WithBlocks
<1>3. Pool!TypeOK'
  BY <1>1 DEF Pools, Pool!TypeOK, Pool!Indices
<1>4. Reached'
  BY <1>1 DEF Pools, Reached, Untouched, Pool!Indices, Pool!Bytes
<1>5. PoolsBacked' /\ PoolsApart' /\ PoolsOwned'
  BY <1>2 DEF Pools, PoolsBacked, PoolsApart, PoolsOwned, Pool!Mapped
<1> QED BY <1>3, <1>4, <1>5, NothingChanges DEF Pools

LEMMA InitBufStep ==
  ASSUME Pools, Pool!InitBuf
  PROVE  Pools' /\ Leaves(RingKinds)
<1> USE PoolFacts
<1>1. poolPc = "buf" /\ UNCHANGED <<cpu_pool, asked>>
  BY DEF Pool!InitBuf
<1>2. ASSUME NEW a \in Addrs, Pool!NumaAlloc(a, Pool!Extent("buf", Pool!Bytes)),
             pools' = [pools EXCEPT ![i].buf = a, ![i].size = Pool!Bytes],
             poolPc' = "blocks", UNCHANGED <<status, i>>
      PROVE  Pools' /\ Leaves(RingKinds)
  <2>1. /\ heap' \in [Addrs -> Pool!Extents] /\ left' = left
        /\ heap[a].kind = "free" /\ heap'[a] = Pool!Extent("buf", Pool!Bytes)
        /\ Pool!Bytes > 0
        /\ heap'[a].kind = "buf"
        /\ \A b \in Addrs \ {a} : heap'[b] = heap[b]
        /\ Leaves(RingKinds)
    <3>1. Pool!Extent("buf", Pool!Bytes).n = Pool!Bytes /\ "buf" \in PoolKinds
      BY DEF Pool!Extent, PoolKinds
    <3> QED BY <1>2, <3>1, Allocates, PoolExtents
  <2>2. /\ pools'[i].buf = a /\ pools'[i].size = Pool!Bytes /\ pools'[i].blocks = pools[i].blocks
        /\ \A p \in Pool!Indices \ {i} : pools'[p] = pools[p]
    BY <1>2 DEF Pools, Pool!TypeOK
  <2>3. Pool!TypeOK'
    BY <1>1, <1>2, <2>1 DEF Pools, Pool!TypeOK
  <2>4. Reached'
    <3>1. Pool!Bytes' = Pool!Bytes
      BY <1>1 DEF Pool!Bytes
    <3> QED BY <1>1, <1>2, <2>1, <2>2, <3>1 DEF Pools, Reached, Complete, Untouched
  <2>5. /\ HasPools /\ HasPools' /\ i \notin WithBuf /\ i \notin WithBlocks
        /\ WithBuf' = WithBuf \cup {i} /\ WithBlocks' = WithBlocks
    BY <1>1, <1>2, <2>2 DEF Pools, Reached, Untouched, HasPools, WithBuf, WithBlocks
  <2>6. /\ cpu_pool # a /\ \A p \in WithBuf : pools[p].buf # a
        /\ \A p \in WithBlocks : pools[p].blocks # a
    BY <2>1, <2>5, PoolsKinds
  <2>7. \A p \in WithBuf \cup WithBlocks : p \in Pool!Indices /\ p # i /\ pools'[p] = pools[p]
    BY <2>2, <2>5 DEF WithBuf, WithBlocks
  <2>8. PoolsBacked'
    BY <1>1, <2>1, <2>2, <2>5, <2>6, <2>7 DEF Pools, PoolsBacked, Pool!Mapped, Pool!Extent
  <2>9. PoolsApart'
    BY <2>2, <2>5, <2>6, <2>7 DEF Pools, PoolsApart
  <2>10. PoolsOwned'
    BY <1>1, <2>1, <2>2, <2>5, <2>7 DEF Pools, PoolsOwned
  <2> QED BY <2>1, <2>3, <2>4, <2>8, <2>9, <2>10 DEF Pools
<1>3. CASE /\ Pool!NumaAllocFails(Pool!Extent("buf", Pool!Bytes))
           /\ Pool!Return("failed")
           /\ UNCHANGED pools
  BY <1>1, <1>3, InitGivesUp DEF Pool!NumaAllocFails, Pool!memory
<1> QED BY <1>2, <1>3 DEF Pool!InitBuf

LEMMA InitBlocksStep ==
  ASSUME Pools, Pool!InitBlocks
  PROVE  Pools' /\ Leaves(RingKinds)
<1> USE PoolFacts
<1>1. poolPc = "blocks" /\ UNCHANGED <<cpu_pool, asked>>
  BY DEF Pool!InitBlocks
<1>2. ASSUME NEW a \in Addrs, Pool!NumaAlloc(a, Pool!Extent("blocks", pools[i].size)),
             pools' = [pools EXCEPT ![i].blocks = a], Pool!NextPool
      PROVE  Pools' /\ Leaves(RingKinds)
  <2>1. /\ heap' \in [Addrs -> Pool!Extents] /\ left' = left
        /\ heap[a].kind = "free" /\ heap'[a] = Pool!Extent("blocks", pools[i].size)
        /\ heap'[a].kind = "blocks"
        /\ \A b \in Addrs \ {a} : heap'[b] = heap[b]
        /\ Leaves(RingKinds)
    BY <1>2, Allocates, PoolExtents DEF PoolKinds
  <2>2. /\ pools'[i].blocks = a /\ pools'[i].size = pools[i].size
        /\ pools'[i].buf = pools[i].buf
        /\ \A p \in Pool!Indices \ {i} : pools'[p] = pools[p]
    BY <1>2 DEF Pools, Pool!TypeOK
  <2>3. \/ i + 1 = PoolCount /\ status' = "ready" /\ poolPc' = "idle" /\ i' = 0
        \/ i + 1 \in Pool!Indices /\ status' = status /\ poolPc' = "buf" /\ i' = i + 1
    BY <1>2 DEF Pool!NextPool, Pool!Return, Pool!Indices
  <2>4. Pool!TypeOK'
    <3>1. pools' \in [Pool!Indices -> [buf : Addrs \cup {Null}, size : 0 .. PageMod - 1,
                                       blocks : Addrs \cup {Null}]]
      BY <1>2 DEF Pools, Pool!TypeOK
    <3> QED BY <1>1, <2>1, <2>3, <3>1 DEF Pools, Pool!TypeOK, Pool!Indices
  <2>5. \A p \in Pool!Indices : p <= i => Complete(p)'
    BY <1>1, <2>2 DEF Pools, Reached, Complete
  <2>6. \A p \in Pool!Indices : p > i => Untouched(p)'
    BY <1>1, <2>2 DEF Pools, Reached, Untouched
  <2>7. \A p \in Pool!Indices :
          /\ pools'[p].buf # Null => pools'[p].size = Pool!Bytes' /\ Pool!Bytes' > 0
          /\ pools'[p].buf = Null => pools'[p].blocks = Null
    BY <1>1, <2>2 DEF Pools, Reached, Pool!Bytes
  <2>8. cpu_pool' # Null /\ status = "none"
    BY <1>1 DEF Pools, Reached
  <2>9. Reached'
    BY <2>3, <2>5, <2>6, <2>7, <2>8 DEF Reached
  <2>10. /\ HasPools /\ HasPools' /\ i \in WithBuf /\ i \notin WithBlocks
         /\ WithBuf' = WithBuf /\ WithBlocks' = WithBlocks \cup {i}
    BY <1>1, <2>2, <2>3, <2>8 DEF Pools, Reached, HasPools, WithBuf, WithBlocks
  <2>11. /\ cpu_pool # a /\ \A p \in WithBuf : pools[p].buf # a
         /\ \A p \in WithBlocks : pools[p].blocks # a
    BY <2>1, <2>10, PoolsKinds
  <2>12. /\ \A p \in WithBuf : pools'[p].buf = pools[p].buf /\ pools'[p].size = pools[p].size
         /\ \A p \in WithBlocks : pools'[p] = pools[p]
    BY <2>2, <2>10 DEF WithBuf, WithBlocks
  <2>13. PoolsBacked'
    BY <1>1, <2>1, <2>2, <2>10, <2>11, <2>12 DEF Pools, PoolsBacked, Pool!Mapped, Pool!Extent
  <2>14. PoolsApart'
    BY <2>2, <2>10, <2>11, <2>12 DEF Pools, PoolsApart
  <2>15. PoolsOwned'
    BY <1>1, <2>1, <2>2, <2>10, <2>12 DEF Pools, PoolsOwned
  <2> QED BY <2>1, <2>4, <2>9, <2>13, <2>14, <2>15 DEF Pools
<1>3. CASE Pool!BlocksFail
  BY <1>1, <1>3, InitGivesUp DEF Pool!BlocksFail, Pool!NumaAllocFails, Pool!memory
<1> QED BY <1>2, <1>3 DEF Pool!InitBlocks

LEMMA DestroyStep ==
  ASSUME Pools, Pool!Destroy
  PROVE  Pools' /\ Leaves(RingKinds)
<1> USE PoolFacts
<1>1. /\ poolPc = "idle" /\ status \in {"ready", "failed"} /\ heap' = heap /\ left' = left
      /\ UNCHANGED <<cpu_pool, pools>>
  BY DEF Pool!Destroy, Pool!memory
<1>2. \/ cpu_pool = Null /\ status' = "none" /\ poolPc' = "idle" /\ i' = 0 /\ asked' = 0
      \/ cpu_pool # Null /\ status' = status /\ poolPc' = "freeBuf" /\ i' = 0 /\ asked' = asked
  BY DEF Pool!Destroy, Pool!Return
<1>3. Pool!TypeOK'
  BY <1>1, <1>2 DEF Pools, Pool!TypeOK, Pool!Indices
<1>4. Reached'
  <2>1. CASE cpu_pool = Null /\ status' = "none" /\ poolPc' = "idle"
    BY <1>1, <2>1 DEF Pools, Reached, Complete, Untouched
  <2>2. CASE cpu_pool # Null /\ status' = status /\ poolPc' = "freeBuf" /\ i' = 0 /\ asked' = asked
    BY <1>1, <2>2 DEF Pools, Reached, Complete, Untouched, Pool!Indices, Pool!Bytes
  <2> QED BY <1>2, <2>1, <2>2
<1>5. HasPools' = HasPools /\ WithBuf' = WithBuf /\ WithBlocks' = WithBlocks
  BY <1>1, <1>2 DEF HasPools, WithBuf, WithBlocks
<1>6. PoolsBacked' /\ PoolsApart' /\ PoolsOwned'
  BY <1>1, <1>5 DEF Pools, PoolsBacked, PoolsApart, PoolsOwned, Pool!Mapped
<1> QED BY <1>1, <1>3, <1>4, <1>6, NothingChanges DEF Pools

\* destroy passes on to the next pool, or to the array of pools.
LEMMA FreeNextFacts ==
  ASSUME Pools, poolPc \in {"freeBuf", "freeBlocks"}, Pool!FreeNext,
         heap' \in [Addrs -> Pool!Extents], left' = left,
         UNCHANGED <<cpu_pool, pools, asked, status>>
  PROVE  /\ Pool!TypeOK' /\ Reached' /\ HasPools /\ HasPools'
         /\ WithBuf' = WithBuf \ {i} /\ WithBlocks' = WithBlocks \ {i}
<1> USE PoolFacts
<1>1. \/ i + 1 = PoolCount /\ poolPc' = "freePools" /\ i' = i
      \/ i + 1 \in Pool!Indices /\ poolPc' = "freeBuf" /\ i' = i + 1
  BY DEF Pool!FreeNext, Pool!Indices
<1>2. Pool!TypeOK'
  BY <1>1 DEF Pools, Pool!TypeOK
<1>3. Reached'
  BY <1>1 DEF Pools, Reached, Complete, Untouched, Pool!Bytes
<1>4. HasPools /\ HasPools'
  BY <1>1 DEF Pools, Reached, HasPools
<1>5. WithBuf' = WithBuf \ {i} /\ WithBlocks' = WithBlocks \ {i}
  <2>1. CASE i + 1 = PoolCount /\ poolPc' = "freePools" /\ i' = i
    <3>1. \A p \in Pool!Indices : p >= i => p = i
      BY <2>1
    <3> QED BY <1>4, <2>1, <3>1 DEF WithBuf, WithBlocks
  <2>2. CASE i + 1 \in Pool!Indices /\ poolPc' = "freeBuf" /\ i' = i + 1
    <3>1. \A p \in Pool!Indices : p >= i + 1 <=> p >= i /\ p # i
      BY <2>2
    <3>2. \A p \in Pool!Indices : p >= i + 1 <=> p > i
      BY <2>2
    <3> QED BY <1>4, <2>2, <3>1, <3>2 DEF WithBuf, WithBlocks
  <2> QED BY <1>1, <2>1, <2>2
<1> QED BY <1>2, <1>3, <1>4, <1>5

LEMMA FreeBufStep ==
  ASSUME Pools, Pool!FreeBuf
  PROVE  Pools' /\ Leaves(RingKinds)
<1> USE PoolFacts
<1>1. poolPc = "freeBuf" /\ UNCHANGED <<cpu_pool, pools, asked, status>>
  BY DEF Pool!FreeBuf
<1>2. CASE pools[i].buf # Null
  <2> DEFINE a == pools[i].buf
             e == Pool!Extent("buf", pools[i].size)
  <2>1. Pool!NumaFree(a, e) /\ poolPc' = "freeBlocks" /\ i' = i
    BY <1>2 DEF Pool!FreeBuf
  <2>2. HasPools /\ i \in WithBuf
    BY <1>1, <1>2 DEF Pools, Reached, HasPools, WithBuf
  <2>3. Pool!Mapped(a, e) /\ pools[i].size > 0 /\ "buf" \in PoolKinds
    BY <1>2, <2>2 DEF Pools, Reached, PoolsBacked, PoolKinds
  <2>4. /\ heap' \in [Addrs -> Pool!Extents] /\ left' = left
        /\ a \in Addrs /\ heap[a].kind = "buf" /\ heap'[a].kind = "free"
        /\ \A b \in Addrs \ {a} : heap'[b] = heap[b]
        /\ Leaves(RingKinds)
    <3> HIDE DEF a
    <3> QED BY <2>1, <2>3, PoolFrees
  <2>5. Pool!TypeOK'
    BY <1>1, <2>1, <2>4 DEF Pools, Pool!TypeOK
  <2>6. Reached'
    BY <1>1, <2>1 DEF Pools, Reached, Complete, Untouched, Pool!Bytes
  <2>7. HasPools' /\ WithBuf' = WithBuf \ {i} /\ WithBlocks' = WithBlocks
    BY <1>1, <2>1, <2>2 DEF HasPools, WithBuf, WithBlocks
  <2>8. /\ cpu_pool # a /\ \A p \in WithBuf \ {i} : pools[p].buf # a
        /\ \A p \in WithBlocks : pools[p].blocks # a
    BY <2>2, <2>4, PoolsKinds DEF Pools, PoolsApart
  <2>9. PoolsBacked' /\ PoolsApart'
    BY <1>1, <2>2, <2>4, <2>7, <2>8 DEF Pools, PoolsBacked, PoolsApart, Pool!Mapped
  <2>10. PoolsOwned'
    BY <1>1, <2>2, <2>4, <2>7, <2>8 DEF Pools, PoolsOwned
  <2> QED BY <2>4, <2>5, <2>6, <2>9, <2>10 DEF Pools
<1>3. CASE pools[i].buf = Null
  <2>1. Pool!FreeNext /\ heap' = heap /\ left' = left
    BY <1>3 DEF Pool!FreeBuf, Pool!memory
  <2>2. /\ Pool!TypeOK' /\ Reached' /\ HasPools /\ HasPools'
        /\ WithBuf' = WithBuf \ {i} /\ WithBlocks' = WithBlocks \ {i}
    BY <1>1, <2>1, FreeNextFacts
  <2>3. i \notin WithBuf /\ i \notin WithBlocks
    BY <1>3 DEF Pools, Reached, WithBuf, WithBlocks
  <2>4. WithBuf' = WithBuf /\ WithBlocks' = WithBlocks
    BY <2>2, <2>3
  <2>5. PoolsBacked' /\ PoolsApart' /\ PoolsOwned'
    BY <1>1, <2>1, <2>2, <2>4 DEF Pools, PoolsBacked, PoolsApart, PoolsOwned, Pool!Mapped
  <2> QED BY <2>1, <2>2, <2>5, NothingChanges DEF Pools
<1> QED BY <1>2, <1>3

LEMMA FreeBlocksStep ==
  ASSUME Pools, Pool!FreeBlocks
  PROVE  Pools' /\ Leaves(RingKinds)
<1> USE PoolFacts
<1> DEFINE a == pools[i].blocks
           e == Pool!Extent("blocks", pools[i].size)
<1>1. /\ poolPc = "freeBlocks" /\ UNCHANGED <<cpu_pool, pools, asked, status>>
      /\ Pool!NumaFree(a, e) /\ Pool!FreeNext
  BY DEF Pool!FreeBlocks
<1>2. i \notin WithBuf
  BY <1>1 DEF WithBuf
<1>3. CASE a # Null
  <2>1. HasPools /\ i \in WithBlocks
    BY <1>1, <1>3 DEF Pools, Reached, HasPools, WithBlocks
  <2>2. Pool!Mapped(a, e) /\ pools[i].size > 0 /\ "blocks" \in PoolKinds
    BY <1>3, <2>1 DEF Pools, Reached, PoolsBacked, PoolKinds
  <2>3. /\ heap' \in [Addrs -> Pool!Extents] /\ left' = left
        /\ a \in Addrs /\ heap[a].kind = "blocks" /\ heap'[a].kind = "free"
        /\ \A b \in Addrs \ {a} : heap'[b] = heap[b]
        /\ Leaves(RingKinds)
    <3> HIDE DEF a
    <3> QED BY <1>1, <2>2, PoolFrees
  <2>4. /\ Pool!TypeOK' /\ Reached' /\ HasPools'
        /\ WithBuf' = WithBuf /\ WithBlocks' = WithBlocks \ {i}
    BY <1>1, <1>2, <2>3, FreeNextFacts
  <2>5. /\ cpu_pool # a /\ \A p \in WithBlocks \ {i} : pools[p].blocks # a
        /\ \A p \in WithBuf : pools[p].buf # a
    BY <2>1, <2>3, PoolsKinds DEF Pools, PoolsApart
  <2>6. PoolsBacked' /\ PoolsApart'
    BY <1>1, <2>1, <2>3, <2>4, <2>5 DEF Pools, PoolsBacked, PoolsApart, Pool!Mapped
  <2>7. PoolsOwned'
    BY <1>1, <2>1, <2>3, <2>4, <2>5 DEF Pools, PoolsOwned
  <2> QED BY <2>3, <2>4, <2>6, <2>7 DEF Pools
<1>4. CASE a = Null
  <2>1. heap' = heap /\ left' = left
    BY <1>1, <1>4 DEF Pool!NumaFree, Pool!memory
  <2>2. /\ Pool!TypeOK' /\ Reached' /\ HasPools /\ HasPools'
        /\ WithBuf' = WithBuf \ {i} /\ WithBlocks' = WithBlocks \ {i}
    BY <1>1, <2>1, FreeNextFacts
  <2>3. i \notin WithBlocks
    BY <1>4 DEF WithBlocks
  <2>4. WithBuf' = WithBuf /\ WithBlocks' = WithBlocks
    BY <1>2, <2>2, <2>3
  <2>5. PoolsBacked' /\ PoolsApart' /\ PoolsOwned'
    BY <1>1, <2>1, <2>2, <2>4 DEF Pools, PoolsBacked, PoolsApart, PoolsOwned, Pool!Mapped
  <2> QED BY <2>1, <2>2, <2>5, NothingChanges DEF Pools
<1> QED BY <1>3, <1>4

LEMMA FreePoolsStep ==
  ASSUME Pools, Pool!FreePools
  PROVE  Pools' /\ Leaves(RingKinds)
<1> USE PoolFacts
<1>1. /\ poolPc = "freePools" /\ cpu_pool' = cpu_pool /\ asked' = 0
      /\ pools' = [p \in Pool!Indices |-> Pool!Empty]
      /\ Pool!NumaFree(cpu_pool, Pool!Extent("pools", PoolCount))
      /\ status' = "none" /\ poolPc' = "idle" /\ i' = 0
  BY DEF Pool!FreePools, Pool!Return
<1>2. HasPools /\ WithBuf = {} /\ WithBlocks = {}
  BY <1>1 DEF Pools, Reached, HasPools, WithBuf, WithBlocks
<1>3. ~HasPools' /\ WithBuf' = {} /\ WithBlocks' = {}
  BY <1>1 DEF HasPools, WithBuf, WithBlocks
<1>4. Pool!Mapped(cpu_pool, Pool!Extent("pools", PoolCount)) /\ "pools" \in PoolKinds
  BY <1>2 DEF Pools, PoolsBacked, PoolKinds
<1>5. /\ heap' \in [Addrs -> Pool!Extents] /\ left' = left
      /\ heap'[cpu_pool].kind = "free"
      /\ \A b \in Addrs \ {cpu_pool} : heap'[b] = heap[b]
      /\ Leaves(RingKinds)
  <2> DEFINE a == cpu_pool
             n == PoolCount
  <2>1. n \in Nat /\ n > 0 /\ Pool!Mapped(a, Pool!Extent("pools", n))
        /\ Pool!NumaFree(a, Pool!Extent("pools", n))
    BY <1>1, <1>4
  <2> HIDE DEF a, n
  <2>2. /\ heap' \in [Addrs -> Pool!Extents] /\ left' = left
        /\ a \in Addrs /\ heap[a].kind = "pools" /\ heap'[a].kind = "free"
        /\ \A b \in Addrs \ {a} : heap'[b] = heap[b]
        /\ Leaves(RingKinds)
    BY <1>4, <2>1, PoolFrees
  <2> QED BY <2>2 DEF a
<1>6. Pool!TypeOK'
  <2>1. pools' \in [Pool!Indices -> [buf : Addrs \cup {Null}, size : 0 .. PageMod - 1,
                                     blocks : Addrs \cup {Null}]]
    BY <1>1 DEF Pool!Empty
  <2> QED BY <1>1, <1>5, <2>1 DEF Pools, Pool!TypeOK, Pool!Indices
<1>7. Reached'
  BY <1>1 DEF Reached, Untouched, Pool!Empty
<1>8. PoolsBacked' /\ PoolsApart' /\ PoolsOwned'
  BY <1>1, <1>2, <1>3, <1>5 DEF Pools, PoolsBacked, PoolsApart, PoolsOwned
<1> QED BY <1>5, <1>6, <1>7, <1>8 DEF Pools

LEMMA PoolStep ==
  ASSUME Pools, Pool!Next
  PROVE  Pools' /\ Leaves(RingKinds)
BY InitPoolsStep, InitBufStep, InitBlocksStep, DestroyStep, FreeBufStep, FreeBlocksStep,
   FreePoolsStep DEF Pool!Next

-----------------------------------------------------------------------------
(***************************************************************************)
(* The steps of kbx_ring_init and kbx_ring_destroy.                        *)
(***************************************************************************)
LEMMA RingFacts ==
  ASSUME Arrays
  PROVE  /\ Null \notin Addrs /\ RingSizes \subseteq Nat
         /\ heap \in [Addrs -> Pool!Extents] /\ left \subseteq Pool!Extents
         /\ ring \in [Rings -> [tasks : Addrs \cup {Null}, data : Addrs \cup {Null},
                                size : 0 .. SizeMod - 1]]
         /\ life \in [Rings -> {"unset", "ready", "failed", "destroyed"}]
         /\ ringPc \in [Rings -> {"idle", "data", "destroyData"}]
         /\ size \in [Rings -> RingSizes \cup {0}]
         /\ \A r \in Rings : size[r] \in Nat
<1>1. Null \notin Addrs /\ RingSizes \subseteq Nat
  BY LifecyclesAssumption DEF Ring!ConstantsOK
<1>2. /\ heap \in [Addrs -> Pool!Extents] /\ left \subseteq Pool!Extents
      /\ ring \in [Rings -> [tasks : Addrs \cup {Null}, data : Addrs \cup {Null},
                             size : 0 .. SizeMod - 1]]
      /\ life \in [Rings -> {"unset", "ready", "failed", "destroyed"}]
      /\ ringPc \in [Rings -> {"idle", "data", "destroyData"}]
      /\ size \in [Rings -> RingSizes \cup {0}]
  BY DEF Arrays, Ring!TypeOK, Ring!Extents, Ring!Kinds, Pool!Extents, Pool!Kinds
<1>3. \A r \in Rings : size[r] \in Nat
  <2>1. RingSizes \cup {0} \subseteq Nat
    BY <1>1
  <2> QED BY <1>2, <2>1
<1> QED BY <1>1, <1>2, <1>3

LEMMA Quotient ==
  ASSUME NEW n \in Nat, NEW d \in Nat \ {0}
  PROVE  /\ n \div d \in Nat /\ n % d \in 0 .. d - 1
         /\ n = d * (n \div d) + (n % d)
OBVIOUS

LEMMA SmallRemainder ==
  ASSUME NEW n \in Nat, NEW d \in Nat \ {0}, n < d
  PROVE  n % d = n
OBVIOUS

\* The fewer low bits are kept of a number, the less is left of it.
LEMMA LowBits ==
  ASSUME NEW S \in Nat \ {0}, NEW L \in Nat \ {0}, L % S = 0, NEW n \in Nat
  PROVE  n % S <= n % L /\ S <= L
<1>1. PICK k \in Nat : L = S * k
  <2>1. L \in Nat
    OBVIOUS
  <2>2. L \div S \in Nat /\ L = S * (L \div S) + (L % S)
    BY <2>1, Quotient
  <2>3. S * (L \div S) \in Nat
    BY <2>2
  <2>4. L = S * (L \div S)
    BY <2>2, <2>3
  <2> QED BY <2>2, <2>4
<1>2. PICK q \in Nat, r \in 0 .. L - 1 : n = L * q + r /\ r = n % L
  <2>1. n \div L \in Nat /\ n % L \in 0 .. L - 1 /\ n = L * (n \div L) + (n % L)
    BY Quotient
  <2> QED BY <2>1
<1>3. PICK p \in Nat, t \in 0 .. S - 1 : n = S * p + t /\ t = n % S
  <2>1. n \div S \in Nat /\ n % S \in 0 .. S - 1 /\ n = S * (n \div S) + (n % S)
    BY Quotient
  <2> QED BY <2>1
<1>4. t <= r
  <2> SUFFICES ASSUME r < t PROVE FALSE
    BY <1>2, <1>3
  <2> DEFINE d == p - k * q
  <2>1. L * q = S * (k * q) /\ k * q \in Nat
    BY <1>1, <1>2
  <2>2. d \in Int /\ S * d = S * p - S * (k * q)
    BY <1>3, <2>1
  <2> HIDE DEF d
  <2>3. S * d = r - t
    <3>1. S * p \in Nat /\ S * (k * q) \in Nat /\ S * d \in Int
      BY <1>3, <2>1, <2>2
    <3> QED BY <1>2, <1>3, <2>1, <2>2, <3>1
  <2>4. r - t < 0 /\ r - t > -S
    BY <1>2, <1>3
  <2>5. \A e \in Int : (e >= 0 => S * e >= 0) /\ (e <= -1 => S * e <= -S)
    OBVIOUS
  <2>6. d >= 0 \/ d <= -1
    BY <2>2
  <2>7. S * d \in Int /\ (S * d >= 0 \/ S * d <= -S)
    BY <2>2, <2>5, <2>6
  <2> QED BY <1>2, <1>3, <2>3, <2>4, <2>7
<1>5. S <= L
  <2>1. k # 0
    BY <1>1
  <2> QED BY <1>1, <2>1
<1> QED BY <1>2, <1>3, <1>4, <1>5

\* What ring->size keeps of a size, however large it is: never more than there is
\* room for in the arrays, and all of it if it fits 32 bits.
LEMMA Truncation ==
  ASSUME NEW n \in Nat
  PROVE  /\ Ring!Stored(n) \in 0 .. SizeMod - 1 /\ Ring!Stored(n) \in Nat
         /\ Ring!Room(n) \in Nat
         /\ Ring!Stored(n) <= Ring!Room(n)
         /\ n < SizeMod => Ring!Stored(n) = n /\ Ring!Room(n) = n
<1>1. SizeMod \in Nat \ {0} /\ LongMod \in Nat \ {0} /\ LongMod % SizeMod = 0
  BY LifecyclesAssumption DEF Ring!ConstantsOK
<1>2. n % SizeMod \in 0 .. SizeMod - 1 /\ n % LongMod \in 0 .. LongMod - 1
  BY <1>1, Quotient
<1>3. n % SizeMod <= n % LongMod /\ SizeMod <= LongMod
  BY <1>1, LowBits
<1>4. n < SizeMod => n % SizeMod = n /\ n % LongMod = n
  BY <1>1, <1>3, SmallRemainder
<1> QED BY <1>1, <1>2, <1>3, <1>4 DEF Ring!Stored, Ring!Room

\* What a destroy leaves of an array is accounted for.
LEMMA WhatIsLost ==
  ASSUME NEW n \in RingSizes \cup {0}, Ring!Room(n) > 0
  PROVE  /\ Ring!Stored(n) = 0 => Ring!Room(n) \in WholeLost
         /\ 0 < Ring!Stored(n) /\ Ring!Stored(n) < Ring!Room(n)
              => Ring!Room(n) - Ring!Stored(n) \in EndLost
         /\ n \in Ring!TooLarge \/ (Ring!Stored(n) = n /\ Ring!Stored(n) > 0)
<1>1. SizeMod \in Nat \ {0} /\ n \in Nat
  BY LifecyclesAssumption DEF Ring!ConstantsOK
<1>2. /\ Ring!Stored(n) \in Nat /\ Ring!Room(n) \in Nat
      /\ n < SizeMod => Ring!Stored(n) = n /\ Ring!Room(n) = n
  BY <1>1, Truncation
<1>3. n \in RingSizes
  BY <1>1, <1>2
<1>4. n \in Ring!TooLarge \/ (Ring!Stored(n) = n /\ Ring!Room(n) = n)
  BY <1>1, <1>2, <1>3 DEF Ring!TooLarge
<1> QED BY <1>1, <1>2, <1>4 DEF WholeLost, EndLost

LEMMA RingExtents ==
  ASSUME NEW n \in Nat, NEW kind \in RingKinds
  PROVE  /\ Ring!Extent(kind, n) \in Pool!Extents
         /\ Ring!Extent(kind, n).kind = kind
         /\ "free" \notin RingKinds /\ kind \notin PoolKinds
         /\ "free" \notin PoolKinds
BY DEF Ring!Extent, Pool!Extents, Pool!Kinds, PoolKinds, RingKinds

LEMMA ArraysKinds ==
  ASSUME Arrays
  PROVE  /\ \A r \in WithTasks : heap[ring[r].tasks].kind = "tasks"
         /\ \A r \in WithData : heap[ring[r].data].kind = "data"
<1>1. ArraysBacked
  BY DEF Arrays
<1>2. \A x, n : Ring!Mapped(x, Ring!Extent("tasks", n)) => heap[x].kind = "tasks"
  BY DEF Ring!Mapped, Ring!Extent
<1>3. \A x, n : Ring!Mapped(x, Ring!Extent("data", n)) => heap[x].kind = "data"
  BY DEF Ring!Mapped, Ring!Extent
<1> QED BY <1>1, <1>2, <1>3 DEF ArraysBacked

\* An array that is freed leaves the others as they are.  The length passed to
\* numa_free may be too small: then the end of the array stays mapped, or all of
\* it if the length is 0.
LEMMA ArrayFreed ==
  ASSUME Arrays, NEW a, NEW kind \in RingKinds, NEW n \in Nat, NEW m \in Nat, n > 0, m <= n,
         Ring!Mapped(a, Ring!Extent(kind, n)), Ring!NumaFree(a, Ring!Extent(kind, m))
  PROVE  /\ heap' \in [Addrs -> Pool!Extents] /\ left' \subseteq Pool!Extents
         /\ a \in Addrs /\ heap[a].kind = kind /\ heap[a].n = n
         /\ m > 0 => heap'[a].kind = "free"
         /\ m = 0 => heap'[a] = heap[a]
         /\ \A b \in Addrs \ {a} : heap'[b] = heap[b]
         /\ \A part \in left' : part \in left \/ (0 < m /\ m < n /\ part.n = n - m)
         /\ Leaves(PoolKinds)
<1>1. a \in Addrs /\ heap[a] = [kind |-> kind, n |-> n]
  BY DEF Ring!Mapped, Ring!Extent
<1>2. Ring!NumaFree(a, [kind |-> kind, n |-> m])
  BY DEF Ring!Extent
<1>3. "free" \notin PoolKinds /\ kind \notin PoolKinds
  BY DEF RingKinds, PoolKinds
<1> QED BY <1>1, <1>2, <1>3, RingFacts, Frees

LEMMA InitTasksStep ==
  ASSUME Arrays, NEW r \in Rings, NEW n \in RingSizes, Ring!InitTasks(r, n)
  PROVE  Arrays' /\ Leaves(PoolKinds)
<1> USE RingFacts
<1>1. /\ ringPc[r] = "idle" /\ life[r] # "ready" /\ n \in Nat
  BY DEF Ring!InitTasks
<1>2. r \notin WithTasks /\ r \notin WithData
  BY <1>1 DEF WithTasks, WithData, Ring!HasTasks, Ring!HasData
<1>4. ASSUME NEW a \in Addrs, Ring!NumaAlloc(a, Ring!Extent("tasks", Ring!Room(n))),
             ring' = [ring EXCEPT ![r].tasks = a], size' = [size EXCEPT ![r] = n],
             Ring!Goto(r, "data"), UNCHANGED life
      PROVE  Arrays' /\ Leaves(PoolKinds)
  <2> DEFINE m == Ring!Room(n)
  <2>0. m \in Nat /\ "tasks" \in RingKinds
    BY <1>1, Truncation DEF RingKinds
  <2> HIDE DEF m
  <2>1. /\ heap' \in [Addrs -> Pool!Extents] /\ left' = left
        /\ heap[a].kind = "free" /\ heap'[a] = Ring!Extent("tasks", m)
        /\ heap'[a].kind = "tasks" /\ m > 0
        /\ \A b \in Addrs \ {a} : heap'[b] = heap[b]
        /\ Leaves(PoolKinds)
    <3>1. Ring!NumaAlloc(a, Ring!Extent("tasks", m)) /\ Ring!Extent("tasks", m).n = m
      BY <1>4 DEF m, Ring!Extent
    <3> QED BY <2>0, <3>1, Allocates, RingExtents
  <2>2. /\ ring' \in [Rings -> [tasks : Addrs \cup {Null}, data : Addrs \cup {Null},
                                size : 0 .. SizeMod - 1]]
        /\ ring'[r].tasks = a
        /\ \A s \in Rings \ {r} : ring'[s] = ring[s] /\ size'[s] = size[s]
        /\ size'[r] = n /\ size' \in [Rings -> RingSizes \cup {0}]
    BY <1>1, <1>4
  <2>3. ringPc' = [ringPc EXCEPT ![r] = "data"] /\ life' = life
    BY <1>4 DEF Ring!Goto
  <2>4. Ring!TypeOK' /\ Turns'
    BY <1>1, <2>1, <2>2, <2>3 DEF Arrays, Ring!TypeOK, Turns, Ring!Extents, Ring!Kinds,
       Pool!Extents, Pool!Kinds
  <2>5. WithTasks' = WithTasks \cup {r} /\ WithData' = WithData
    BY <1>1, <2>3 DEF WithTasks, WithData, Ring!HasTasks, Ring!HasData
  <2>6. /\ \A s \in WithTasks : ring[s].tasks # a
        /\ \A s \in WithData : ring[s].data # a
    BY <2>1, ArraysKinds
  <2>7. \A s \in WithTasks \cup WithData : s \in Rings \ {r}
    BY <1>2 DEF WithTasks, WithData
  <2>8. ArraysBacked'
    <3>1. \A s \in WithTasks \cup WithData : ring'[s] = ring[s] /\ size'[s] = size[s]
      BY <2>2, <2>7
    <3>2. Ring!Mapped(ring[r].tasks, Ring!Extent("tasks", Ring!Room(size[r])))'
      BY <2>1, <2>2 DEF Ring!Mapped, Ring!Extent, m
    <3>3. Ring!Room(size'[r]) > 0
      BY <2>1, <2>2 DEF m
    <3> QED BY <2>1, <2>5, <2>6, <3>1, <3>2, <3>3 DEF Arrays, ArraysBacked, Ring!Mapped, Ring!Extent
  <2>9. ArraysApart'
    BY <2>2, <2>5, <2>6, <2>7 DEF Arrays, ArraysApart
  <2>10. ArraysOwned'
    BY <2>1, <2>2, <2>5, <2>7 DEF Arrays, ArraysOwned
  <2> QED BY <2>1, <2>4, <2>8, <2>9, <2>10 DEF Arrays
<1>5. CASE /\ Ring!NumaAllocFails(Ring!Extent("tasks", Ring!Room(n)))
           /\ ring' = [ring EXCEPT ![r].tasks = Null]
           /\ Ring!Becomes(r, "failed")
           /\ UNCHANGED <<ringPc, size>>
  <2>1. /\ heap' = heap /\ left' = left /\ ringPc' = ringPc /\ size' = size
        /\ life' = [life EXCEPT ![r] = "failed"]
        /\ ring' = [ring EXCEPT ![r].tasks = Null]
    BY <1>5 DEF Ring!NumaAllocFails, Ring!memory, Ring!Becomes
  <2>2. /\ ring' \in [Rings -> [tasks : Addrs \cup {Null}, data : Addrs \cup {Null},
                                size : 0 .. SizeMod - 1]]
        /\ \A s \in Rings \ {r} : ring'[s] = ring[s]
    BY <2>1
  <2>3. Ring!TypeOK' /\ Turns'
    BY <1>1, <2>1, <2>2 DEF Arrays, Ring!TypeOK, Turns
  <2>4. WithTasks' = WithTasks /\ WithData' = WithData
    BY <1>1, <2>1 DEF WithTasks, WithData, Ring!HasTasks, Ring!HasData
  <2>5. \A s \in WithTasks \cup WithData : s \in Rings \ {r}
    BY <1>2 DEF WithTasks, WithData
  <2>6. ArraysBacked' /\ ArraysApart' /\ ArraysOwned'
    BY <2>1, <2>2, <2>4, <2>5 DEF Arrays, ArraysBacked, ArraysApart, ArraysOwned, Ring!Mapped
  <2> QED BY <2>1, <2>3, <2>6, NothingChanges DEF Arrays
<1> QED BY <1>4, <1>5 DEF Ring!InitTasks

LEMMA InitDataStep ==
  ASSUME Arrays, NEW r \in Rings, Ring!InitData(r)
  PROVE  Arrays' /\ Leaves(PoolKinds)
<1> USE RingFacts
<1> DEFINE n == Ring!Room(size[r])
<1>1. /\ ringPc[r] = "data" /\ ringPc' = [ringPc EXCEPT ![r] = "idle"]
      /\ life[r] # "ready"
  BY DEF Ring!InitData, Ring!Goto, Arrays, Turns
<1>2. r \in WithTasks /\ r \notin WithData
  BY <1>1 DEF WithTasks, WithData, Ring!HasTasks, Ring!HasData
<1>3. \A s \in WithTasks \cup WithData : s \in Rings
  BY DEF WithTasks, WithData
<1>0. n \in Nat /\ n > 0 /\ Ring!Stored(size[r]) \in 0 .. SizeMod - 1
  BY <1>2, Truncation DEF Arrays, ArraysBacked
<1>4. ASSUME NEW a \in Addrs, Ring!NumaAlloc(a, Ring!Extent("data", n)),
             ring' = [ring EXCEPT ![r].data = a, ![r].size = Ring!Stored(size[r])],
             Ring!Becomes(r, "ready"), UNCHANGED size
      PROVE  Arrays' /\ Leaves(PoolKinds)
  <2>0. "data" \in RingKinds
    BY DEF RingKinds
  <2>1. /\ heap' \in [Addrs -> Pool!Extents] /\ left' = left
        /\ heap[a].kind = "free" /\ heap'[a] = Ring!Extent("data", n)
        /\ heap'[a].kind = "data"
        /\ \A b \in Addrs \ {a} : heap'[b] = heap[b]
        /\ Leaves(PoolKinds)
    <3> HIDE DEF n
    <3> QED BY <1>0, <1>4, <2>0, Allocates, RingExtents
  <2>3. ring' \in [Rings -> [tasks : Addrs \cup {Null}, data : Addrs \cup {Null},
                             size : 0 .. SizeMod - 1]]
    BY <1>0, <1>4
  <2>4. /\ ring'[r].data = a /\ ring'[r].tasks = ring[r].tasks
        /\ ring'[r].size = Ring!Stored(size[r])
        /\ \A s \in Rings \ {r} : ring'[s] = ring[s]
    BY <1>4
  <2>5. life' = [life EXCEPT ![r] = "ready"]
    BY <1>4 DEF Ring!Becomes
  <2>6. Ring!TypeOK' /\ Turns'
    BY <1>1, <1>4, <2>1, <2>3, <2>5 DEF Arrays, Ring!TypeOK, Turns, Ring!Extents, Ring!Kinds,
       Pool!Extents, Pool!Kinds
  <2>7. WithTasks' = WithTasks /\ WithData' = WithData \cup {r}
    BY <1>1, <2>5 DEF WithTasks, WithData, Ring!HasTasks, Ring!HasData
  <2>8. /\ \A s \in WithTasks : ring[s].tasks # a /\ ring'[s].tasks = ring[s].tasks
        /\ \A s \in WithData : ring[s].data # a /\ ring'[s] = ring[s]
    BY <1>2, <1>3, <2>1, <2>4, ArraysKinds
  <2>9. ArraysBacked'
    <3>0. size' = size
      BY <1>4
    <3>1. Ring!Mapped(ring[r].data, Ring!Extent("data", Ring!Room(size[r])))'
      BY <1>4, <2>1, <2>4 DEF Ring!Mapped, Ring!Extent
    <3>2. \A s \in WithTasks :
            /\ Ring!Mapped(ring[s].tasks, Ring!Extent("tasks", Ring!Room(size[s])))'
            /\ Ring!Room(size'[s]) > 0
      BY <2>1, <2>8, <3>0 DEF Arrays, ArraysBacked, Ring!Mapped, Ring!Extent
    <3>3. \A s \in WithData :
            /\ Ring!Mapped(ring[s].data, Ring!Extent("data", Ring!Room(size[s])))'
            /\ Ring!Room(size'[s]) > 0 /\ ring'[s].size = Ring!Stored(size'[s])
      BY <2>1, <2>8, <3>0 DEF Arrays, ArraysBacked, Ring!Mapped, Ring!Extent
    <3>4. Ring!Room(size'[r]) > 0 /\ ring'[r].size = Ring!Stored(size'[r])
      BY <1>0, <1>4, <2>4
    <3> QED BY <2>7, <3>1, <3>2, <3>3, <3>4 DEF ArraysBacked, Ring!Mapped, Ring!Extent
  <2>10. ArraysApart'
    BY <2>4, <2>7, <2>8 DEF Arrays, ArraysApart
  <2>11. ArraysOwned'
    BY <2>1, <2>4, <2>7, <2>8 DEF Arrays, ArraysOwned
  <2> QED BY <2>1, <2>6, <2>9, <2>10, <2>11 DEF Arrays
<1>5. CASE Ring!DataFails(r)
  <2> DEFINE a == ring[r].tasks
  <2>1. Ring!Mapped(a, Ring!Extent("tasks", n)) /\ "tasks" \in RingKinds
    BY <1>2 DEF Arrays, ArraysBacked, RingKinds
  <2>2. /\ heap' \in [Addrs -> Pool!Extents] /\ left' \subseteq Pool!Extents
        /\ a \in Addrs /\ heap[a].kind = "tasks" /\ heap'[a].kind = "free"
        /\ \A b \in Addrs \ {a} : heap'[b] = heap[b]
        /\ \A part \in left' : part \in left
        /\ Leaves(PoolKinds)
    <3>1. Ring!NumaFree(a, Ring!Extent("tasks", n))
      BY <1>5 DEF Ring!DataFails
    <3>2. n <= n /\ ~(n < n)
      BY <1>0
    <3> HIDE DEF n, a
    <3>3. /\ heap' \in [Addrs -> Pool!Extents] /\ left' \subseteq Pool!Extents
          /\ a \in Addrs /\ heap[a].kind = "tasks" /\ heap[a].n = n
          /\ n > 0 => heap'[a].kind = "free"
          /\ \A b \in Addrs \ {a} : heap'[b] = heap[b]
          /\ \A part \in left' : part \in left \/ (0 < n /\ n < n /\ part.n = n - n)
          /\ Leaves(PoolKinds)
      BY <1>0, <2>1, <3>1, <3>2, ArrayFreed
    <3> QED BY <1>0, <3>2, <3>3
  <2>3. /\ ring' = [ring EXCEPT ![r].data = Null] /\ life' = [life EXCEPT ![r] = "failed"]
        /\ size' = [size EXCEPT ![r] = 0]
    BY <1>5 DEF Ring!DataFails, Ring!Becomes
  <2>4. /\ ring' \in [Rings -> [tasks : Addrs \cup {Null}, data : Addrs \cup {Null},
                                size : 0 .. SizeMod - 1]]
        /\ \A s \in Rings \ {r} : ring'[s] = ring[s] /\ size'[s] = size[s]
        /\ size' \in [Rings -> RingSizes \cup {0}]
    BY <2>3
  <2>5. Ring!TypeOK' /\ Turns'
    BY <1>1, <2>2, <2>3, <2>4 DEF Arrays, Ring!TypeOK, Turns, Ring!Extents, Ring!Kinds,
       Pool!Extents, Pool!Kinds
  <2>6. WithTasks' = WithTasks \ {r} /\ WithData' = WithData
    BY <1>1, <2>3 DEF WithTasks, WithData, Ring!HasTasks, Ring!HasData
  <2>7. /\ \A s \in WithTasks \ {r} :
             ring[s].tasks # a /\ ring'[s] = ring[s] /\ size'[s] = size[s]
        /\ \A s \in WithData : ring[s].data # a /\ ring'[s] = ring[s] /\ size'[s] = size[s]
    BY <1>2, <1>3, <2>2, <2>4, ArraysKinds DEF Arrays, ArraysApart
  <2>8. ArraysBacked'
    BY <2>2, <2>6, <2>7 DEF Arrays, ArraysBacked, Ring!Mapped
  <2>9. ArraysApart'
    BY <2>6, <2>7 DEF Arrays, ArraysApart
  <2>10. ArraysOwned'
    BY <2>2, <2>6, <2>7 DEF Arrays, ArraysOwned
  <2> QED BY <2>2, <2>5, <2>8, <2>9, <2>10 DEF Arrays
<1> QED BY <1>4, <1>5 DEF Ring!InitData

LEMMA DestroyTasksStep ==
  ASSUME Arrays, NEW r \in Rings, Ring!DestroyTasks(r)
  PROVE  Arrays' /\ Leaves(PoolKinds)
<1> USE RingFacts
<1> DEFINE a == ring[r].tasks
           n == Ring!Room(size[r])
           m == Ring!Stored(size[r])
<1>1. /\ ringPc[r] = "idle" /\ life[r] = "ready" /\ size' = size
      /\ ringPc' = [ringPc EXCEPT ![r] = "destroyData"]
      /\ life' = [life EXCEPT ![r] = "destroyed"]
  BY DEF Ring!DestroyTasks, Ring!Destroyable, Ring!Goto, Ring!Becomes
<1>2. r \in WithTasks /\ r \in WithData
  BY <1>1 DEF WithTasks, WithData, Ring!HasTasks, Ring!HasData
<1>3. \A s \in WithTasks \cup WithData : s \in Rings
  BY DEF WithTasks, WithData
<1>4. /\ Ring!Mapped(a, Ring!Extent("tasks", n)) /\ ring[r].size = m
      /\ "tasks" \in RingKinds /\ n > 0
  BY <1>2 DEF Arrays, ArraysBacked, RingKinds
<1>5. a # Null
  BY <1>4 DEF Ring!Mapped
<1>6. /\ Ring!NumaFree(a, Ring!Extent("tasks", m))
      /\ ring' = [ring EXCEPT ![r].tasks = Null]
  BY <1>4, <1>5 DEF Ring!DestroyTasks
<1>0. /\ n \in Nat /\ m \in Nat /\ m <= n
      /\ m = 0 => n \in WholeLost
      /\ 0 < m /\ m < n => n - m \in EndLost
  BY <1>4, Truncation, WhatIsLost
<1>7. /\ heap' \in [Addrs -> Pool!Extents] /\ left' \subseteq Pool!Extents
      /\ a \in Addrs /\ heap[a].kind = "tasks"
      /\ heap'[a].kind = "free" \/ (heap'[a] = heap[a] /\ heap[a].n \in WholeLost)
      /\ \A b \in Addrs \ {a} : heap'[b] = heap[b]
      /\ \A part \in left' : part \in left \/ part.n \in EndLost
      /\ Leaves(PoolKinds)
  <2> HIDE DEF n, m, a
  <2>1. /\ heap' \in [Addrs -> Pool!Extents] /\ left' \subseteq Pool!Extents
        /\ a \in Addrs /\ heap[a].kind = "tasks" /\ heap[a].n = n
        /\ m > 0 => heap'[a].kind = "free"
        /\ m = 0 => heap'[a] = heap[a]
        /\ \A b \in Addrs \ {a} : heap'[b] = heap[b]
        /\ \A part \in left' : part \in left \/ (0 < m /\ m < n /\ part.n = n - m)
        /\ Leaves(PoolKinds)
    BY <1>0, <1>4, <1>6, ArrayFreed, SMTT(60)
  <2> QED BY <1>0, <2>1
<1>8. /\ ring' \in [Rings -> [tasks : Addrs \cup {Null}, data : Addrs \cup {Null},
                              size : 0 .. SizeMod - 1]]
      /\ ring'[r].data = ring[r].data /\ ring'[r].size = ring[r].size
      /\ \A s \in Rings \ {r} : ring'[s] = ring[s]
  BY <1>6
<1>9. Ring!TypeOK' /\ Turns'
  BY <1>1, <1>7, <1>8 DEF Arrays, Ring!TypeOK, Turns, Ring!Extents, Ring!Kinds,
     Pool!Extents, Pool!Kinds
<1>10. WithTasks' = WithTasks \ {r} /\ WithData' = WithData
  BY <1>1 DEF WithTasks, WithData, Ring!HasTasks, Ring!HasData
<1>11. /\ \A s \in WithTasks \ {r} : ring[s].tasks # a /\ ring'[s] = ring[s]
       /\ \A s \in WithData : /\ ring[s].data # a
                              /\ ring'[s].data = ring[s].data /\ ring'[s].size = ring[s].size
  BY <1>2, <1>3, <1>7, <1>8, ArraysKinds DEF Arrays, ArraysApart
<1>12. ArraysBacked'
  <2>1. \A s \in WithTasks \ {r} :
          /\ Ring!Mapped(ring[s].tasks, Ring!Extent("tasks", Ring!Room(size[s])))'
          /\ Ring!Room(size'[s]) > 0
    BY <1>1, <1>7, <1>11 DEF Arrays, ArraysBacked, Ring!Mapped, Ring!Extent
  <2>2. \A s \in WithData :
          /\ Ring!Mapped(ring[s].data, Ring!Extent("data", Ring!Room(size[s])))'
          /\ Ring!Room(size'[s]) > 0
    BY <1>1, <1>7, <1>11 DEF Arrays, ArraysBacked, Ring!Mapped, Ring!Extent
  <2>3. \A s \in WithData : ring'[s].size = Ring!Stored(size'[s])
    BY <1>1, <1>11 DEF Arrays, ArraysBacked
  <2> QED BY <1>10, <2>1, <2>2, <2>3 DEF ArraysBacked, Ring!Mapped, Ring!Extent
<1>13. ArraysApart'
  <2> HIDE DEF a, n, m
  <2>1. ArraysApart
    BY DEF Arrays
  <2>2. \A s, t \in WithTasks \ {r} : s # t => ring'[s].tasks # ring'[t].tasks
    BY <1>11, <2>1 DEF ArraysApart
  <2>3. \A s, t \in WithData : s # t => ring'[s].data # ring'[t].data
    BY <1>11, <2>1 DEF ArraysApart
  <2> QED BY <1>10, <2>2, <2>3 DEF ArraysApart
<1>14. ArraysOwned'
  BY <1>7, <1>10, <1>11 DEF Arrays, ArraysOwned
<1> QED BY <1>7, <1>9, <1>12, <1>13, <1>14 DEF Arrays

LEMMA DestroyDataStep ==
  ASSUME Arrays, NEW r \in Rings, Ring!DestroyData(r)
  PROVE  Arrays' /\ Leaves(PoolKinds)
<1> USE RingFacts
<1> DEFINE a == ring[r].data
           n == Ring!Room(size[r])
           m == Ring!Stored(size[r])
<1>1. /\ ringPc[r] = "destroyData" /\ life[r] = "destroyed" /\ life' = life
      /\ ringPc' = [ringPc EXCEPT ![r] = "idle"] /\ size' = [size EXCEPT ![r] = 0]
  BY DEF Ring!DestroyData, Ring!Goto, Arrays, Turns
<1>2. r \notin WithTasks /\ r \in WithData
  BY <1>1 DEF WithTasks, WithData, Ring!HasTasks, Ring!HasData
<1>3. \A s \in WithTasks \cup WithData : s \in Rings
  BY DEF WithTasks, WithData
<1>4. /\ Ring!Mapped(a, Ring!Extent("data", n)) /\ ring[r].size = m
      /\ "data" \in RingKinds /\ n > 0
  BY <1>2 DEF Arrays, ArraysBacked, RingKinds
<1>5. a # Null
  BY <1>4 DEF Ring!Mapped
<1>6. /\ Ring!NumaFree(a, Ring!Extent("data", m))
      /\ ring' = [ring EXCEPT ![r].data = Null]
  BY <1>4, <1>5 DEF Ring!DestroyData
<1>0. /\ n \in Nat /\ m \in Nat /\ m <= n
      /\ m = 0 => n \in WholeLost
      /\ 0 < m /\ m < n => n - m \in EndLost
  BY <1>4, Truncation, WhatIsLost
<1>7. /\ heap' \in [Addrs -> Pool!Extents] /\ left' \subseteq Pool!Extents
      /\ a \in Addrs /\ heap[a].kind = "data"
      /\ heap'[a].kind = "free" \/ (heap'[a] = heap[a] /\ heap[a].n \in WholeLost)
      /\ \A b \in Addrs \ {a} : heap'[b] = heap[b]
      /\ \A part \in left' : part \in left \/ part.n \in EndLost
      /\ Leaves(PoolKinds)
  <2> HIDE DEF n, m, a
  <2>1. /\ heap' \in [Addrs -> Pool!Extents] /\ left' \subseteq Pool!Extents
        /\ a \in Addrs /\ heap[a].kind = "data" /\ heap[a].n = n
        /\ m > 0 => heap'[a].kind = "free"
        /\ m = 0 => heap'[a] = heap[a]
        /\ \A b \in Addrs \ {a} : heap'[b] = heap[b]
        /\ \A part \in left' : part \in left \/ (0 < m /\ m < n /\ part.n = n - m)
        /\ Leaves(PoolKinds)
    BY <1>0, <1>4, <1>6, ArrayFreed, SMTT(60)
  <2> QED BY <1>0, <2>1
<1>8. /\ ring' \in [Rings -> [tasks : Addrs \cup {Null}, data : Addrs \cup {Null},
                              size : 0 .. SizeMod - 1]]
      /\ size' \in [Rings -> RingSizes \cup {0}]
      /\ \A s \in Rings \ {r} : ring'[s] = ring[s] /\ size'[s] = size[s]
  BY <1>1, <1>6
<1>9. Ring!TypeOK' /\ Turns'
  BY <1>1, <1>7, <1>8 DEF Arrays, Ring!TypeOK, Turns, Ring!Extents, Ring!Kinds,
     Pool!Extents, Pool!Kinds
<1>10. WithTasks' = WithTasks /\ WithData' = WithData \ {r}
  BY <1>1 DEF WithTasks, WithData, Ring!HasTasks, Ring!HasData
<1>11. /\ \A s \in WithTasks : ring[s].tasks # a /\ ring'[s] = ring[s] /\ size'[s] = size[s]
       /\ \A s \in WithData \ {r} :
            ring[s].data # a /\ ring'[s] = ring[s] /\ size'[s] = size[s]
  BY <1>2, <1>3, <1>7, <1>8, ArraysKinds DEF Arrays, ArraysApart
<1>12. ArraysBacked' /\ ArraysApart'
  <2> HIDE DEF a, n, m
  <2>1. ArraysBacked /\ ArraysApart
    BY DEF Arrays
  <2>2. ArraysBacked'
    BY <1>7, <1>10, <1>11, <2>1 DEF ArraysBacked, Ring!Mapped
  <2>3. \A s, t \in WithTasks : s # t => ring'[s].tasks # ring'[t].tasks
    BY <1>11, <2>1 DEF ArraysApart
  <2>4. \A s, t \in WithData \ {r} : s # t => ring'[s].data # ring'[t].data
    BY <1>11, <2>1 DEF ArraysApart
  <2>5. ArraysApart'
    BY <1>10, <2>3, <2>4 DEF ArraysApart
  <2> QED BY <2>2, <2>5
<1>13. ArraysOwned'
  <2> HIDE DEF a
  <2>1. \A b \in Addrs : heap'[b].kind = "data" =>
          (\E s \in WithData \ {r} : ring'[s].data = b) \/ heap'[b].n \in WholeLost
    <3> SUFFICES ASSUME NEW b \in Addrs \ {a}, heap[b].kind = "data", heap[b].n \notin WholeLost
                 PROVE  \E s \in WithData \ {r} : ring'[s].data = b
      BY <1>7
    <3>1. PICK s \in WithData : ring[s].data = b
      BY DEF Arrays, ArraysOwned
    <3>2. s # r
      BY <3>1 DEF a
    <3> QED BY <1>11, <3>1, <3>2
  <2>2. \A b \in Addrs : heap'[b].kind = "tasks" =>
          (\E s \in WithTasks : ring'[s].tasks = b) \/ heap'[b].n \in WholeLost
    BY <1>7, <1>11 DEF Arrays, ArraysOwned
  <2>3. \A part \in left' : part.kind \in RingKinds => part.n \in EndLost
    BY <1>7 DEF Arrays, ArraysOwned
  <2> QED BY <1>10, <2>1, <2>2, <2>3 DEF ArraysOwned
<1> QED BY <1>7, <1>9, <1>12, <1>13 DEF Arrays

LEMMA RingStep ==
  ASSUME Arrays, Ring!Next
  PROVE  Arrays' /\ Leaves(PoolKinds)
BY InitTasksStep, InitDataStep, DestroyTasksStep, DestroyDataStep DEF Ring!Next

-----------------------------------------------------------------------------
(***************************************************************************)
(* Pools and rings together.                                               *)
(***************************************************************************)
LEMMA LInitially == Init => Pools /\ Arrays
<1> SUFFICES ASSUME Init PROVE Pools /\ Arrays
  OBVIOUS
<1>1. /\ heap = [a \in Addrs |-> [kind |-> "free", n |-> 0]] /\ left = {}
      /\ cpu_pool = Null /\ pools = [p \in Pool!Indices |-> Pool!Empty] /\ asked = 0
      /\ status = "none" /\ poolPc = "idle" /\ i = 0
      /\ ring = [r \in Rings |-> [tasks |-> Null, data |-> Null, size |-> 0]]
      /\ life = [r \in Rings |-> "unset"] /\ ringPc = [r \in Rings |-> "idle"]
      /\ size = [r \in Rings |-> 0]
  BY DEF Init, Pool!Init, Ring!Init, Pool!NothingMapped, Pool!Unmapped, Ring!NoRing
<1>2. /\ PoolCount \in Nat \ {0} /\ 0 \in Pool!Indices /\ PageMod \in Nat \ {0} /\ SizeMod \in Nat \ {0} /\ 0 \in 0 .. PageMod - 1
      /\ 0 \in 0 .. SizeMod - 1
  BY LifecyclesAssumption DEF Pool!ConstantsOK, Ring!ConstantsOK, Pool!Indices
<1>3. heap \in [Addrs -> Pool!Extents] /\ heap \in [Addrs -> Ring!Extents]
  BY <1>1 DEF Pool!Extents, Ring!Extents, Pool!Kinds, Ring!Kinds
<1>4. Pool!TypeOK
  BY <1>1, <1>2, <1>3 DEF Pool!TypeOK, Pool!Empty
<1>5. Reached
  BY <1>1 DEF Reached, Untouched, Pool!Empty
<1>6. WithBuf = {} /\ WithBlocks = {} /\ WithTasks = {} /\ WithData = {} /\ ~HasPools
  BY <1>1 DEF WithBuf, WithBlocks, WithTasks, WithData, HasPools, Ring!HasTasks, Ring!HasData
<1>7. PoolsBacked /\ PoolsApart /\ PoolsOwned
  BY <1>1, <1>6 DEF PoolsBacked, PoolsApart, PoolsOwned
<1>8. Ring!TypeOK /\ Turns
  BY <1>1, <1>2, <1>3 DEF Ring!TypeOK, Turns
<1>9. ArraysBacked /\ ArraysApart /\ ArraysOwned
  BY <1>1, <1>6 DEF ArraysBacked, ArraysApart, ArraysOwned
<1> QED BY <1>4, <1>5, <1>7, <1>8, <1>9 DEF Pools, Arrays

LEMMA LNext == Pools /\ Arrays /\ [Next]_vars => Pools' /\ Arrays'
<1> SUFFICES ASSUME Pools, Arrays, [Next]_vars PROVE Pools' /\ Arrays'
  OBVIOUS
<1>1. CASE Pool!Next /\ UNCHANGED ringVars
  BY <1>1, PoolStep, ArraysFramed
<1>2. CASE Ring!Next /\ UNCHANGED poolVars
  BY <1>2, RingStep, PoolsFramed
<1>3. CASE UNCHANGED vars
  BY <1>3, PoolFacts, NothingChanges, PoolsFramed, ArraysFramed DEF vars, memory
<1> QED BY <1>1, <1>2, <1>3 DEF Next

LEMMA LInvariance == Spec => [](Pools /\ Arrays)
BY LInitially, LNext, PTL DEF Spec

-----------------------------------------------------------------------------
\* The loops over the pools stay inside the array, and every pointer is NULL or
\* an address.
THEOREM TypeCorrect == Spec => []TypeOK
<1>1. Pools /\ Arrays => TypeOK
  BY DEF Pools, Arrays, TypeOK
<1> QED BY <1>1, LInvariance, PTL

\* What a successful init has set up stays mapped, at least as large as it
\* records, and shared with nobody until its own destroy, whatever the other inits
\* and destroys in the process do and whichever of them fail.  It records what was
\* asked for, and at least one slot, unless a pool's bytes wrap or a ring's size
\* does not fit 32 bits.
THEOREM ReadyStaysBacked == Spec => []ReadyIsBacked
<1>1. Pools => Pool!ReadyIsBacked
  <2> SUFFICES ASSUME Pools, status = "ready", poolPc = "idle"
               PROVE  /\ Pool!Mapped(cpu_pool, Pool!Extent("pools", PoolCount))
                      /\ \A p \in Pool!Indices : Pool!Backed(p)
    BY DEF Pool!ReadyIsBacked
  <2>1. HasPools /\ \A p \in Pool!Indices : Complete(p)
    BY DEF Pools, Reached, HasPools
  <2>2. \A p \in Pool!Indices : p \in WithBuf /\ p \in WithBlocks /\ pools[p].size = Pool!Bytes
    BY <2>1 DEF WithBuf, WithBlocks, Complete, Pools, Reached
  <2>3. Pool!Bytes = asked * MiB <=> asked * MiB < PageMod
    <3>1. PageMod \in Nat \ {0} /\ MiB \in Nat /\ asked \in Nat
      BY LifecyclesAssumption DEF Pool!ConstantsOK, Pools, Pool!TypeOK
    <3>2. asked * MiB \in Nat
      BY <3>1
    <3> QED BY <3>1, <3>2 DEF Pool!Bytes
  <2> QED BY <2>1, <2>2, <2>3 DEF Pools, PoolsBacked, Pool!Backed
<1>2. Arrays => Ring!ReadyIsBacked
  <2> SUFFICES ASSUME Arrays, NEW r \in Rings, life[r] = "ready", ringPc[r] = "idle"
               PROVE  /\ Ring!Covers(ring[r].tasks, Ring!Extent("tasks", ring[r].size))
                      /\ Ring!Covers(ring[r].data, Ring!Extent("data", ring[r].size))
                      /\ \/ size[r] \in Ring!TooLarge
                         \/ ring[r].size = size[r] /\ ring[r].size > 0
                      /\ \A s \in Rings \ {r} :
                           /\ Ring!HasTasks(s) => ring[s].tasks # ring[r].tasks
                           /\ Ring!HasData(s)  => ring[s].data  # ring[r].data
    BY DEF Ring!ReadyIsBacked
  <2>1. r \in WithTasks /\ r \in WithData
    BY DEF WithTasks, WithData, Ring!HasTasks, Ring!HasData
  <2>2. \A s \in Rings : /\ Ring!HasTasks(s) => s \in WithTasks
                         /\ Ring!HasData(s) => s \in WithData
    BY DEF WithTasks, WithData
  <2>3. /\ ring[r].size = Ring!Stored(size[r]) /\ Ring!Room(size[r]) > 0
        /\ Ring!Mapped(ring[r].tasks, Ring!Extent("tasks", Ring!Room(size[r])))
        /\ Ring!Mapped(ring[r].data, Ring!Extent("data", Ring!Room(size[r])))
    BY <2>1 DEF Arrays, ArraysBacked
  <2>4. Ring!Stored(size[r]) <= Ring!Room(size[r])
    BY RingFacts, Truncation
  <2>5. size[r] \in Ring!TooLarge \/ (ring[r].size = size[r] /\ ring[r].size > 0)
    BY <2>3, RingFacts, WhatIsLost
  <2> QED BY <2>1, <2>2, <2>3, <2>4, <2>5
          DEF Arrays, ArraysApart, Ring!Mapped, Ring!Covers, Ring!Extent
<1> QED BY <1>1, <1>2, LInvariance, PTL DEF ReadyIsBacked

LEMMA OnlyTheseLeak == Pools /\ Arrays => OnlyTooLargeLeaks
<1>1. Pools => Pool!DestroyLeavesNothing
  <2> SUFFICES ASSUME Pools
               PROVE  /\ status = "none" /\ poolPc = "idle" =>
                           \A a \in Addrs : heap[a].kind \notin {"pools", "buf", "blocks"}
                      /\ \A part \in left : part.kind \notin {"pools", "buf", "blocks"}
    BY DEF Pool!DestroyLeavesNothing
  <2>1. status = "none" /\ poolPc = "idle" => ~HasPools /\ WithBuf = {} /\ WithBlocks = {}
    BY DEF HasPools, WithBuf, WithBlocks
  <2> QED BY <2>1 DEF Pools, PoolsOwned, PoolKinds
<1>2. Arrays => Ring!OnlyTooLargeLeaks
  BY DEF Arrays, ArraysOwned, WithTasks, WithData, WholeLost, EndLost, RingKinds,
     Ring!OnlyTooLargeLeaks
<1> QED BY <1>1, <1>2 DEF OnlyTooLargeLeaks

\* Whichever allocation has failed: after kbx_mem_pool_destroy nothing of the pools
\* is mapped, and every array of tasks or data has its ring, but for what the
\* destroy of a ring has left whose size does not fit ring->size.
THEOREM OnlyTooLargeRingsLeak == Spec => []OnlyTooLargeLeaks
BY OnlyTheseLeak, LInvariance, PTL

\* In a process whose rings all have sizes that fit 32 bits no array, and no part
\* of one, stays mapped without a ring.
THEOREM FittingRingsLeakNothing ==
  ASSUME \A n \in RingSizes : n < SizeMod
  PROVE  Spec => [](/\ \A a \in Addrs : heap[a].kind \in {"tasks", "data"} =>
                         \E r \in Rings : \/ Ring!HasTasks(r) /\ ring[r].tasks = a
                                          \/ Ring!HasData(r) /\ ring[r].data = a
                    /\ \A part \in left : part.kind \notin {"tasks", "data"})
<1>1. Ring!TooLarge = {}
  <2>1. SizeMod \in Nat \ {0} /\ RingSizes \subseteq Nat
    BY LifecyclesAssumption DEF Ring!ConstantsOK
  <2>2. \A n \in RingSizes : ~(n >= SizeMod)
    BY <2>1
  <2> QED BY <2>2 DEF Ring!TooLarge
<1>2. OnlyTooLargeLeaks =>
        /\ \A a \in Addrs : heap[a].kind \in {"tasks", "data"} =>
             \E r \in Rings : \/ Ring!HasTasks(r) /\ ring[r].tasks = a
                              \/ Ring!HasData(r) /\ ring[r].data = a
        /\ \A part \in left : part.kind \notin {"tasks", "data"}
  <2> SUFFICES ASSUME Ring!OnlyTooLargeLeaks
               PROVE  /\ \A a \in Addrs : heap[a].kind \in {"tasks", "data"} =>
                           \E r \in Rings : \/ Ring!HasTasks(r) /\ ring[r].tasks = a
                                            \/ Ring!HasData(r) /\ ring[r].data = a
                      /\ \A part \in left : part.kind \notin {"tasks", "data"}
    BY DEF OnlyTooLargeLeaks
  <2>1. ~ \E n \in Ring!TooLarge : TRUE
    BY <1>1
  <2>2. \A part \in left : part.kind \notin {"tasks", "data"}
    BY <2>1 DEF Ring!OnlyTooLargeLeaks
  <2>3. \A a \in Addrs : heap[a].kind \in {"tasks", "data"} =>
          \E r \in Rings : \/ Ring!HasTasks(r) /\ ring[r].tasks = a
                           \/ Ring!HasData(r) /\ ring[r].data = a
    <3> TAKE a \in Addrs
    <3> HAVE heap[a].kind \in {"tasks", "data"}
    <3>1. \/ \E r \in Rings : \/ Ring!HasTasks(r) /\ ring[r].tasks = a
                              \/ Ring!HasData(r) /\ ring[r].data = a
          \/ \E n \in Ring!TooLarge : Ring!Stored(n) = 0 /\ heap[a].n = Ring!Room(n)
      BY DEF Ring!OnlyTooLargeLeaks
    <3> QED BY <2>1, <3>1
  <2> QED BY <2>2, <2>3
<1> QED BY <1>2, OnlyTooLargeRingsLeak, PTL

\* However far an init has come and whatever size it was asked for, what
\* kbx_mem_pool_destroy, kbx_ring_init and kbx_ring_destroy pass to numa_free is
\* mapped: the pools' with exactly that length, the rings' with no less.
THEOREM FreesAreLive == Spec => []FreesLive
<1>1. Pools => Pool!FreesLive
  <2> SUFFICES ASSUME Pools PROVE Pool!FreesLive
    OBVIOUS
  <2>1. poolPc \in {"freeBuf", "freeBlocks", "freePools"} => HasPools
    BY DEF Pools, Reached, HasPools
  <2>2. poolPc = "freeBuf" /\ pools[i].buf # Null => i \in WithBuf
    BY <2>1, PoolFacts DEF WithBuf
  <2>3. poolPc = "freeBlocks" /\ pools[i].blocks # Null => i \in WithBlocks
    BY <2>1, PoolFacts DEF WithBlocks
  <2> QED BY <2>1, <2>2, <2>3 DEF Pools, PoolsBacked, Pool!FreesLive
<1>2. Arrays => Ring!FreesWithin
  <2> SUFFICES ASSUME Arrays, NEW r \in Rings
               PROVE  /\ ringPc[r] = "data" =>
                           Ring!Mapped(ring[r].tasks, Ring!Extent("tasks", Ring!Room(size[r])))
                      /\ ringPc[r] = "idle" /\ life[r] = "ready" =>
                           Ring!Covers(ring[r].tasks, Ring!Extent("tasks", ring[r].size))
                      /\ ringPc[r] = "destroyData" =>
                           Ring!Covers(ring[r].data, Ring!Extent("data", ring[r].size))
    BY DEF Ring!FreesWithin, Ring!Destroyable
  <2>1. Ring!Stored(size[r]) <= Ring!Room(size[r])
    BY RingFacts, Truncation
  <2>2. /\ ringPc[r] = "data" => r \in WithTasks
        /\ ringPc[r] = "idle" /\ life[r] = "ready" => r \in WithTasks /\ r \in WithData
        /\ ringPc[r] = "destroyData" => r \in WithData
    BY DEF WithTasks, WithData, Ring!HasTasks, Ring!HasData
  <2>3. /\ r \in WithTasks =>
             Ring!Mapped(ring[r].tasks, Ring!Extent("tasks", Ring!Room(size[r])))
        /\ r \in WithData =>
             /\ Ring!Mapped(ring[r].data, Ring!Extent("data", Ring!Room(size[r])))
             /\ ring[r].size = Ring!Stored(size[r])
    BY DEF Arrays, ArraysBacked
  <2> QED BY <2>1, <2>2, <2>3 DEF Ring!Mapped, Ring!Covers, Ring!Extent
<1> QED BY <1>1, <1>2, LInvariance, PTL DEF FreesLive
=============================================================================
