------------------------------ MODULE CpuPool ------------------------------
(***************************************************************************)
(* kbx_mem_cpu_alloc and kbx_mem_cpu_free (src/src/mem/mem_pool.cc), the   *)
(* functions behind kbx_mem_alloc and kbx_mem_free, called by any number   *)
(* of threads at once.                                                     *)
(*                                                                         *)
(* The only synchronisation is one atomic_flag per page.  An allocation    *)
(* scans the pool of the node its thread runs on, claiming flags one by    *)
(* one; when it meets a page somebody else holds it gives back the run it  *)
(* gathered and goes on behind that page.  Each test-and-set and each      *)
(* clear is one step here, and so is each plain access to pool->used and   *)
(* pool->peak_used, which the code reads and writes without any lock.      *)
(*                                                                         *)
(* Left out: used_size of a block (written, never read), the pages'        *)
(* contents, and the calls that change nothing (a pool that is NULL, a     *)
(* pointer that is NULL or in no pool).                                    *)
(***************************************************************************)
EXTENDS PageExtents, FiniteSets

CONSTANTS
  Threads,     \* the threads that call the allocator
  PageSize,    \* KBX_PAGE_SIZE
  SizeMod,     \* size_t holds 0 .. SizeMod - 1
  Sizes        \* the byte counts the threads ask for

ASSUME PoolAssumption ==
  /\ PageSize \in Nat \ {0}
  /\ SizeMod \in Nat \ {0}
  /\ Sizes \subseteq Nat

VARIABLES
  isUsed,      \* the pages whose is_used flag is set
  used,        \* pool->used, per node
  peak,        \* pool->peak_used, per node
  live,        \* allocations returned to a caller and not yet passed to free
  pc,          \* per thread: the point it has reached inside a call
  node,        \* the locals of that call: node of the pool it works on,
  need,        \*   blocks_needed,
  j,           \*   j, the scan's position,
  start,       \*   start_idx,
  found,       \*   found,
  k,           \*   the next flag to clear (k of the undo loop, idx of free),
  reg          \*   the value of pool->used it has loaded

locals == <<pc, node, need, j, start, found, k, reg>>
vars   == <<isUsed, used, peak, live, locals>>

PCs == {"idle", "scan", "undo", "load", "store", "peak", "peakStore",
        "clear", "freeLoad", "freeStore"}

(***************************************************************************)
(* blocks_needed.  The addition is size_t arithmetic: for a size of the    *)
(* last page of the range it wraps and the result is 0, as for size 0.     *)
(***************************************************************************)
BlocksNeeded(size) == ((size + PageSize - 1) % SizeMod) \div PageSize

\* The loop condition of the scan, and the page it looks at.
InPoolLate(t) == j[t] <= NumBlocks                \* fault: one page too far
InPool(t) == j[t] < NumBlocks
Page(t) == <<node[t], j[t]>>

\* The answer of the test-and-set.
FlagIgnored(t) == TRUE                            \* fault: the answer is dropped
FlagClear(t) == Page(t) \notin isUsed

\* if (found == blocks_needed), found having just been incremented.
RunCompleteLate(t) == found[t] = need[t]          \* fault: tested before found++
RunComplete(t) == found[t] + 1 = need[t]

\* The undo loop: its first block, its last one, and where the scan goes next.
UndoFirstZero(t) == 0                             \* fault: clears from block 0
UndoFirst(t) == start[t]
UndoLastLate(t) == k[t] = start[t] + found[t]     \* fault: k <= start_idx + found
UndoLast(t) == k[t] + 1 = start[t] + found[t]
ScanNextSkips(t) == j[t] + 2                      \* fault: j advanced twice
ScanNextRestarts(t) == 0                          \* fault: the scan starts over
ScanNext(t) == j[t] + 1

\* pool->used after an allocation and after a free, in size_t arithmetic.
UsedGrownByOne(t) == (reg[t] + 1) % SizeMod       \* fault: used++
UsedGrown(t) == (reg[t] + need[t]) % SizeMod
UsedShrunk(t) == (reg[t] + SizeMod - 1) % SizeMod

(***************************************************************************)
(* The pages thread t has in its hands: the run it is gathering, what is   *)
(* left of a run it is giving back, a run it has won and not yet returned, *)
(* the page it is about to free.                                           *)
(***************************************************************************)
Held(t) ==
  IF pc[t] \in {"scan", "load", "store", "peak", "peakStore"}
    THEN Span(node[t], start[t], start[t] + found[t])
  ELSE IF pc[t] = "undo"  THEN Span(node[t], k[t], start[t] + found[t])
  ELSE IF pc[t] = "clear" THEN Span(node[t], k[t], k[t] + 1)
  ELSE {}

Init ==
  /\ isUsed = {}
  /\ used   = [n \in Nodes |-> 0]
  /\ peak   = [n \in Nodes |-> 0]
  /\ live   = {}
  /\ pc     = [t \in Threads |-> "idle"]
  /\ node   = [t \in Threads |-> 0]
  /\ need   = [t \in Threads |-> 0]
  /\ j      = [t \in Threads |-> 0]
  /\ start  = [t \in Threads |-> 0]
  /\ found  = [t \in Threads |-> 0]
  /\ k      = [t \in Threads |-> 0]
  /\ reg    = [t \in Threads |-> 0]

Goto(t, label) == pc' = [pc EXCEPT ![t] = label]

\* The call of t returns and its locals are gone.
Return(t) ==
  /\ Goto(t, "idle")
  /\ node'  = [node  EXCEPT ![t] = 0]
  /\ need'  = [need  EXCEPT ![t] = 0]
  /\ j'     = [j     EXCEPT ![t] = 0]
  /\ start' = [start EXCEPT ![t] = 0]
  /\ found' = [found EXCEPT ![t] = 0]
  /\ k'     = [k     EXCEPT ![t] = 0]
  /\ reg'   = [reg   EXCEPT ![t] = 0]

(***************************************************************************)
(* kbx_mem_cpu_alloc(size).                                                *)
(***************************************************************************)

\* The call starts on the CPU the scheduler has put t on, so on any node.
AllocCall(t, n, size) ==
  /\ pc[t] = "idle"
  /\ Goto(t, "scan")
  /\ node' = [node EXCEPT ![t] = n]
  /\ need' = [need EXCEPT ![t] = BlocksNeeded(size)]
  /\ UNCHANGED <<isUsed, used, peak, live, j, start, found, k, reg>>

\* The test-and-set found the flag clear: the page joins the run.
ScanTake(t) ==
  /\ pc[t] = "scan"
  /\ InPool(t)
  /\ FlagClear(t)
  /\ isUsed' = isUsed \cup {Page(t)}
  /\ start'  = [start EXCEPT ![t] = IF found[t] = 0 THEN j[t] ELSE @]
  /\ found'  = [found EXCEPT ![t] = @ + 1]
  /\ IF RunComplete(t)
       THEN Goto(t, "load") /\ UNCHANGED j
       ELSE j' = [j EXCEPT ![t] = @ + 1] /\ UNCHANGED pc
  /\ UNCHANGED <<used, peak, live, node, need, k, reg>>

\* The flag was set already: give back the run gathered so far, if any.
ScanBusy(t) ==
  /\ pc[t] = "scan"
  /\ InPool(t)
  /\ ~FlagClear(t)
  /\ IF found[t] = 0
       THEN j' = [j EXCEPT ![t] = @ + 1] /\ UNCHANGED <<pc, k>>
       ELSE Goto(t, "undo") /\ k' = [k EXCEPT ![t] = UndoFirst(t)] /\ UNCHANGED j
  /\ UNCHANGED <<isUsed, used, peak, live, node, need, start, found, reg>>

\* One flag of the undo loop; after the last one the scan goes on at j + 1.
Undo(t) ==
  /\ pc[t] = "undo"
  /\ isUsed' = isUsed \ {<<node[t], k[t]>>}
  /\ k' = [k EXCEPT ![t] = @ + 1]
  /\ IF UndoLast(t)
       THEN /\ Goto(t, "scan")
            /\ found' = [found EXCEPT ![t] = 0]
            /\ j' = [j EXCEPT ![t] = ScanNext(t)]
       ELSE UNCHANGED <<pc, found, j>>
  /\ UNCHANGED <<used, peak, live, node, need, start, reg>>

\* The end of the pool: NULL is returned, and a run that reached the end of
\* the pool without being long enough keeps its flags.
ScanExhausted(t) ==
  /\ pc[t] = "scan"
  /\ ~InPool(t)
  /\ Return(t)
  /\ UNCHANGED <<isUsed, used, peak, live>>

\* pool->used += blocks_needed, a load and a store.
AllocLoad(t) ==
  /\ pc[t] = "load"
  /\ Goto(t, "store")
  /\ reg' = [reg EXCEPT ![t] = used[node[t]]]
  /\ UNCHANGED <<isUsed, used, peak, live, node, need, j, start, found, k>>

AllocStore(t) ==
  /\ pc[t] = "store"
  /\ Goto(t, "peak")
  /\ reg'  = [reg EXCEPT ![t] = UsedGrown(t)]
  /\ used' = [used EXCEPT ![node[t]] = UsedGrown(t)]
  /\ UNCHANGED <<isUsed, peak, live, node, need, j, start, found, k>>

\* What an expression pool->used may yield after the store: the value still
\* in a register, or the one in memory, which another thread may have changed.
UsedSeen(t) == {reg[t], used[node[t]]}

\* return pool->blocks[start_idx].ptr
AllocReturn(t) ==
  /\ live' = live \cup {[node |-> node[t], start |-> start[t], len |-> need[t]]}
  /\ Return(t)

\* if (pool->used > pool->peak_used) pool->peak_used = pool->used
PeakTest(t) ==
  /\ pc[t] = "peak"
  /\ \/ /\ \E u \in UsedSeen(t) : u <= peak[node[t]]
        /\ AllocReturn(t)
     \/ /\ \E u \in UsedSeen(t) : u > peak[node[t]]
        /\ Goto(t, "peakStore")
        /\ UNCHANGED <<live, node, need, j, start, found, k, reg>>
  /\ UNCHANGED <<isUsed, used, peak>>

PeakStore(t) ==
  /\ pc[t] = "peakStore"
  /\ \E u \in UsedSeen(t) : peak' = [peak EXCEPT ![node[t]] = u]
  /\ AllocReturn(t)
  /\ UNCHANGED <<isUsed, used>>

(***************************************************************************)
(* kbx_mem_cpu_free(ptr).  Only a live allocation is passed to free, and   *)
(* only once; from then on it is no longer the caller's.                   *)
(***************************************************************************)

\* The pool is found by the address, whatever node t runs on now.
FreeCall(t, e) ==
  /\ pc[t] = "idle"
  /\ e \in live
  /\ live' = live \ {e}
  /\ Goto(t, "clear")
  /\ node' = [node EXCEPT ![t] = e.node]
  /\ k'    = [k EXCEPT ![t] = e.start]
  /\ UNCHANGED <<isUsed, used, peak, need, j, start, found, reg>>

\* The flag of the page ptr points to is cleared, and no other.
FreeClear(t) ==
  /\ pc[t] = "clear"
  /\ isUsed' = isUsed \ {<<node[t], k[t]>>}
  /\ Goto(t, "freeLoad")
  /\ UNCHANGED <<used, peak, live, node, need, j, start, found, k, reg>>

\* pool->used--, a load and a store.
FreeLoad(t) ==
  /\ pc[t] = "freeLoad"
  /\ Goto(t, "freeStore")
  /\ reg' = [reg EXCEPT ![t] = used[node[t]]]
  /\ UNCHANGED <<isUsed, used, peak, live, node, need, j, start, found, k>>

FreeStore(t) ==
  /\ pc[t] = "freeStore"
  /\ used' = [used EXCEPT ![node[t]] = UsedShrunk(t)]
  /\ Return(t)
  /\ UNCHANGED <<isUsed, peak, live>>

-----------------------------------------------------------------------------
\* A step inside a call of t, as opposed to the start of one.
Step(t) ==
  \/ ScanTake(t)   \/ ScanBusy(t)   \/ Undo(t)      \/ ScanExhausted(t)
  \/ AllocLoad(t)  \/ AllocStore(t) \/ PeakTest(t)  \/ PeakStore(t)
  \/ FreeClear(t)  \/ FreeLoad(t)   \/ FreeStore(t)

Call(t) ==
  \/ \E n \in Nodes, size \in Sizes : AllocCall(t, n, size)
  \/ \E e \in live : FreeCall(t, e)

Next == \E t \in Threads : Step(t) \/ Call(t)

Spec == Init /\ [][Next]_vars

\* A thread inside a call is never blocked, and the OS keeps scheduling it.
FairSpec == Spec /\ \A t \in Threads : WF_vars(Step(t))
-----------------------------------------------------------------------------
(***************************************************************************)
(* Properties.                                                             *)
(***************************************************************************)

\* Every variable stays in its range: the scan never leaves its pool, a run
\* being gathered or given back lies inside it.
TypeOK ==
  /\ isUsed \subseteq Nodes \X Blocks
  /\ used  \in [Nodes -> Nat]
  /\ peak  \in [Nodes -> Nat]
  /\ live  \subseteq Extents
  /\ pc    \in [Threads -> PCs]
  /\ node  \in [Threads -> Nodes]
  /\ need  \in [Threads -> Nat]
  /\ j     \in [Threads -> 0 .. NumBlocks]
  /\ start \in [Threads -> 0 .. NumBlocks]
  /\ found \in [Threads -> 0 .. NumBlocks]
  /\ k     \in [Threads -> 0 .. NumBlocks]
  /\ reg   \in [Threads -> Nat]

\* How far the call of each thread has come, as its locals record it: a call
\* starts with no run, the run being gathered ends where the scan stands, the
\* run being given back ends at the page that stopped the scan, a run that was
\* won has its full length.
Progress(t) ==
  /\ pc[t] = "idle" => found[t] = 0
  /\ pc[t] = "scan" /\ found[t] > 0 => start[t] + found[t] = j[t]
  /\ pc[t] = "undo" =>
       /\ start[t] <= k[t]
       /\ k[t] < start[t] + found[t]
       /\ start[t] + found[t] = j[t]
       /\ j[t] < NumBlocks
  /\ pc[t] \in {"load", "store", "peak", "peakStore"} =>
       /\ found[t] = need[t]
       /\ found[t] > 0
       /\ start[t] + found[t] <= NumBlocks
  /\ pc[t] = "clear" => k[t] < NumBlocks

\* Every page in a thread's hands or in a live allocation has its flag set.
Flagged ==
  /\ \A t \in Threads : Held(t) \subseteq isUsed
  /\ \A e \in live : Pages(e) \subseteq isUsed

\* No page is in two hands: two threads, two live allocations, or a thread
\* and a live allocation.
Exclusive ==
  /\ \A t, u \in Threads : t # u => Held(t) \cap Held(u) = {}
  /\ \A e, f \in live : e # f => Pages(e) \cap Pages(f) = {}
  /\ \A t \in Threads, e \in live : Held(t) \cap Pages(e) = {}

\* The inductive invariant: while threads scan, give back, win and free runs
\* in any interleaving, no page has two owners and no owned page looks free.
Ownership ==
  /\ \A t \in Threads : Progress(t)
  /\ Flagged
  /\ Exclusive

\* Pages whose flag is set although nobody owns them.
Unowned(p) == /\ \A t \in Threads : p \notin Held(t)
              /\ \A e \in live : p \notin Pages(e)
Orphans == {p \in isUsed : Unowned(p)}

\* A page that has lost its owner without losing its flag (every page but the
\* first of a freed allocation, the run of a scan that hit the end of the
\* pool) is never allocated again.
PagesStayLost == [][Orphans \subseteq Orphans']_vars

\* A step loses no other pages than the ones behind the first of an allocation
\* that is freed, and the run of a request for several (or, where the rounding
\* has wrapped, for no) pages that hits the end of the pool.
Rest(e) == Pages(e) \ {<<e.node, e.start>>}
GivenUp(t) == pc[t] = "scan" /\ pc'[t] = "idle" /\ need[t] # 1
LossesAccounted ==
  [][Orphans' \ Orphans \subseteq
       (UNION {Rest(e) : e \in live \ live'}) \cup
       (UNION {Held(t) : t \in {u \in Threads : GivenUp(u)}})]_vars

\* For calls that do not overlap, the scan is an exact first fit: it has left
\* no free run behind it that was long enough, so NULL means there is none.
FirstFit ==
  \A t \in Threads :
    LET taken(s) == Span(node[t], s, s + need[t]) \cap (isUsed \ Held(t)) # {}
    IN  /\ pc[t] = "scan" /\ need[t] > 0 =>
             \A s \in Blocks : s + need[t] <= j[t] => taken(s)
        /\ pc[t] = "load" => \A s \in Blocks : s < start[t] => taken(s)

\* For calls that do not overlap, pool->used lies between the pages in live
\* allocations and the pages whose flag is set, and below pool->peak_used.
CountsBracketed ==
  (\A t \in Threads : pc[t] = "idle") =>
    \A n \in Nodes :
      LET mine(S) == Cardinality({p \in S : p[1] = n})
      IN  /\ mine(UNION {Pages(e) : e \in live}) <= used[n]
          /\ used[n] <= mine(isUsed)
          /\ used[n] <= peak[n]
          /\ peak[n] <= NumBlocks

\* No call loops or waits: whatever the other threads do, a thread that has
\* entered kbx_mem_alloc or kbx_mem_free comes back.
CallsReturn == \A t \in Threads : pc[t] # "idle" ~> pc[t] = "idle"

\* The allocator keeps the promise of PageAllocator: every step of a thread is
\* a grant of pages nobody owns, a release, or invisible to the callers.
Promise == INSTANCE PageAllocator
KeepsPromise == Promise!Spec
=============================================================================
