--------------------------- MODULE CpuPoolProofs ---------------------------
(***************************************************************************)
(* Proofs about CpuPool, for any number of threads, nodes and pages, any   *)
(* page size and any set of request sizes.                                 *)
(*                                                                         *)
(* The invariant is TypeOK /\ Ownership.  Every step either leaves the     *)
(* pages in the hands of its thread alone or changes them in one of a few  *)
(* ways; the section on ownership shows that each of those ways keeps      *)
(* Flagged and Exclusive, and the section on steps says which step changes *)
(* them how.  The last two sections are about calls that do not overlap:   *)
(* what a scan has found out stays true, and the counters count.           *)
(***************************************************************************)
EXTENDS CpuPool, FiniteSetTheorems, TLAPS

IInv == TypeOK /\ Ownership

\* The pages the other threads hold stay as they are.
OthersKeep(t) == \A u \in Threads \ {t} : Held(u)' = Held(u)

-----------------------------------------------------------------------------
(***************************************************************************)
(* Ownership.                                                              *)
(***************************************************************************)

\* What each way of changing hands keeps: every page has its flag and at most
\* one owner, the lost pages stay lost, the callers see the abstract allocator.
Kept == Flagged' /\ Exclusive' /\ Orphans \subseteq Orphans' /\ [Promise!Next]_live

LEMMA PromisePages ==
  Promise!Extents = Extents /\ \A e : Promise!Pages(e) = Pages(e)
BY DEF Promise!Extents, Promise!Nodes, Promise!Blocks, Promise!Pages,
       Promise!Span, Extents, Nodes, Blocks, Pages, Span

\* A page is lost when its flag is set and it is in nobody's hands.
LEMMA OrphansStay ==
  ASSUME \A p \in isUsed \ isUsed' : ~Unowned(p),
         \A p : Unowned(p) /\ p \in isUsed => Unowned(p)'
  PROVE  Orphans \subseteq Orphans'
BY DEF Orphans

\* A thread drops pages, keeping their flags, and nothing else changes.
LEMMA DropKeeps ==
  ASSUME NEW t \in Threads, Flagged, Exclusive, OthersKeep(t),
         Held(t)' \subseteq Held(t), isUsed' = isUsed, live' = live
  PROVE  Kept
<1>1. Flagged' /\ Exclusive'
  BY DEF Flagged, Exclusive, OthersKeep, Pages, Span
<1>2. Orphans \subseteq Orphans'
  BY OrphansStay DEF Unowned, OthersKeep, Pages, Span
<1>3. [Promise!Next]_live
  OBVIOUS
<1> QED BY <1>1, <1>2, <1>3 DEF Kept

\* A thread sets the flag of a page that was clear, and holds it.
LEMMA TakeKeeps ==
  ASSUME NEW t \in Threads, NEW p, Flagged, Exclusive, OthersKeep(t),
         p \notin isUsed, isUsed' = isUsed \cup {p},
         Held(t)' = Held(t) \cup {p}, live' = live
  PROVE  Kept
<1>1. Flagged' /\ Exclusive'
  BY DEF Flagged, Exclusive, OthersKeep, Pages, Span
<1>2. Orphans \subseteq Orphans'
  BY OrphansStay DEF Unowned, OthersKeep, Pages, Span
<1>3. [Promise!Next]_live
  OBVIOUS
<1> QED BY <1>1, <1>2, <1>3 DEF Kept

\* A thread clears the flag of a page it holds, and lets go of it.
LEMMA ClearKeeps ==
  ASSUME NEW t \in Threads, NEW p \in Held(t), Flagged, Exclusive,
         OthersKeep(t), isUsed' = isUsed \ {p},
         Held(t)' = Held(t) \ {p}, live' = live
  PROVE  Kept
<1>1. Flagged' /\ Exclusive'
  BY DEF Flagged, Exclusive, OthersKeep, Pages, Span
<1>2. Orphans \subseteq Orphans'
  BY OrphansStay DEF Unowned, OthersKeep, Pages, Span
<1>3. [Promise!Next]_live
  OBVIOUS
<1> QED BY <1>1, <1>2, <1>3 DEF Kept

\* A thread turns the pages it holds into a live allocation.
LEMMA ReturnKeeps ==
  ASSUME NEW t \in Threads, NEW e \in Extents, Flagged, Exclusive,
         OthersKeep(t), Pages(e) = Held(t), Held(t)' = {},
         live' = live \cup {e}, isUsed' = isUsed
  PROVE  Kept
<1>1. Flagged' /\ Exclusive'
  BY DEF Flagged, Exclusive, OthersKeep, Pages, Span
<1>2. Orphans \subseteq Orphans'
  BY OrphansStay DEF Unowned, OthersKeep, Pages, Span
<1>3. [Promise!Next]_live
  <2>1. Promise!Grant(e)
    BY PromisePages DEF Promise!Grant, Exclusive
  <2> QED BY <2>1, PromisePages DEF Promise!Next
<1> QED BY <1>1, <1>2, <1>3 DEF Kept

\* A thread takes over pages of a live allocation, which ceases to be live.
LEMMA TakeOverKeeps ==
  ASSUME NEW t \in Threads, NEW e \in live, e \in Extents, Flagged,
         Exclusive, OthersKeep(t), Held(t)' \subseteq Pages(e),
         live' = live \ {e}, isUsed' = isUsed
  PROVE  Kept
<1>1. Flagged' /\ Exclusive'
  BY DEF Flagged, Exclusive, OthersKeep, Pages, Span
<1>2. Orphans \subseteq Orphans'
  BY OrphansStay DEF Unowned, OthersKeep, Pages, Span
<1>3. [Promise!Next]_live
  <2>1. Promise!Release(e)
    BY DEF Promise!Release
  <2> QED BY <2>1, PromisePages DEF Promise!Next
<1> QED BY <1>1, <1>2, <1>3 DEF Kept

-----------------------------------------------------------------------------
(***************************************************************************)
(* Steps.  A step of thread t leaves the locals of every other thread      *)
(* alone, and with them what those threads hold and how far they are.      *)
(***************************************************************************)
Apart(t) ==
  \A u \in Threads \ {t} :
    /\ pc'[u] = pc[u]       /\ node'[u] = node[u] /\ need'[u] = need[u]
    /\ j'[u] = j[u]         /\ start'[u] = start[u]
    /\ found'[u] = found[u] /\ k'[u] = k[u]

LEMMA ApartKeeps ==
  ASSUME NEW t \in Threads, Apart(t), \A u \in Threads : Progress(u)
  PROVE  OthersKeep(t) /\ \A u \in Threads \ {t} : Progress(u)'
<1>1. OthersKeep(t)
  BY DEF Apart, OthersKeep, Held
<1>2. \A u \in Threads \ {t} : Progress(u)'
  BY DEF Apart, Progress
<1> QED BY <1>1, <1>2

LEMMA NextApart ==
  ASSUME TypeOK, NEW t \in Threads, Step(t) \/ Call(t)
  PROVE  Apart(t)
<1> USE DEF TypeOK, Apart, Goto, Return, AllocReturn
<1>1. ASSUME NEW n \in Nodes, NEW size \in Sizes, AllocCall(t, n, size)
      PROVE  Apart(t)
  BY <1>1 DEF AllocCall
<1>2. CASE ScanTake(t)
  BY <1>2 DEF ScanTake
<1>3. CASE ScanBusy(t)
  BY <1>3 DEF ScanBusy
<1>4. CASE Undo(t)
  BY <1>4 DEF Undo
<1>5. CASE ScanExhausted(t)
  BY <1>5 DEF ScanExhausted
<1>6. CASE AllocLoad(t)
  BY <1>6 DEF AllocLoad
<1>7. CASE AllocStore(t)
  BY <1>7 DEF AllocStore
<1>8. CASE PeakTest(t)
  BY <1>8 DEF PeakTest
<1>9. CASE PeakStore(t)
  BY <1>9 DEF PeakStore
<1>10. ASSUME NEW e \in live, FreeCall(t, e)
       PROVE  Apart(t)
  BY <1>10 DEF FreeCall
<1>11. CASE FreeClear(t)
  BY <1>11 DEF FreeClear
<1>12. CASE FreeLoad(t)
  BY <1>12 DEF FreeLoad
<1>13. CASE FreeStore(t)
  BY <1>13 DEF FreeStore
<1> QED
  BY <1>1, <1>2, <1>3, <1>4, <1>5, <1>6, <1>7, <1>8, <1>9, <1>10, <1>11,
     <1>12, <1>13 DEF Step, Call

\* What remains to be shown of a step of t, given Apart(t).
Safe(t) == TypeOK' /\ Progress(t)' /\ Kept

\* The locals of t are in range.
LEMMA LocalTypes ==
  ASSUME TypeOK, NEW t \in Threads
  PROVE  /\ pc[t] \in PCs /\ node[t] \in Nodes /\ need[t] \in Nat
         /\ j[t] \in 0 .. NumBlocks /\ start[t] \in 0 .. NumBlocks
         /\ found[t] \in 0 .. NumBlocks /\ k[t] \in 0 .. NumBlocks
         /\ reg[t] \in Nat /\ NumBlocks \in Nat
         /\ used[node[t]] \in Nat /\ peak[node[t]] \in Nat
BY ExtentAssumption DEF TypeOK

LEMMA BlocksNeededType ==
  ASSUME NEW size \in Sizes
  PROVE  BlocksNeeded(size) \in Nat
<1>1. size \in Nat /\ PageSize \in Nat \ {0} /\ SizeMod \in Nat \ {0}
  BY PoolAssumption
<1>2. (size + PageSize - 1) % SizeMod \in Nat
  BY <1>1
<1> QED BY <1>1, <1>2 DEF BlocksNeeded

\* Growing a run at its end, shrinking it at its front, and the empty run.
LEMMA SpanGrow ==
  ASSUME NEW n, NEW lo \in Int, NEW hi \in Int, lo <= hi
  PROVE  Span(n, lo, hi + 1) = Span(n, lo, hi) \cup {<<n, hi>>}
BY DEF Span

LEMMA SpanShrink ==
  ASSUME NEW n, NEW lo \in Int, NEW hi \in Int, lo < hi
  PROVE  /\ <<n, lo>> \in Span(n, lo, hi)
         /\ Span(n, lo + 1, hi) = Span(n, lo, hi) \ {<<n, lo>>}
BY DEF Span

LEMMA SpanEmpty ==
  ASSUME NEW n, NEW lo \in Int
  PROVE  Span(n, lo, lo) = {}
BY DEF Span

\* Returning from a call leaves the locals in range and the hands empty.
LEMMA ReturnTypes ==
  ASSUME TypeOK, NEW t \in Threads, Return(t)
  PROVE  /\ pc' \in [Threads -> PCs] /\ node' \in [Threads -> Nodes]
         /\ need' \in [Threads -> Nat] /\ j' \in [Threads -> 0 .. NumBlocks]
         /\ start' \in [Threads -> 0 .. NumBlocks]
         /\ found' \in [Threads -> 0 .. NumBlocks]
         /\ k' \in [Threads -> 0 .. NumBlocks] /\ reg' \in [Threads -> Nat]
<1>1. 0 \in Nodes /\ 0 \in 0 .. NumBlocks
  BY ExtentAssumption DEF Nodes
<1> QED BY <1>1 DEF TypeOK, PCs, Return, Goto

LEMMA ReturnEmpties ==
  ASSUME TypeOK, NEW t \in Threads, Return(t)
  PROVE  Progress(t)' /\ Held(t)' = {}
BY DEF TypeOK, Progress, Held, Return, Goto

LEMMA AllocCallStep ==
  ASSUME IInv, NEW t \in Threads, NEW n \in Nodes, NEW size \in Sizes,
         AllocCall(t, n, size)
  PROVE  Safe(t)
<1> USE DEF IInv, Ownership
<1>0. OthersKeep(t)
  BY NextApart, ApartKeeps DEF Call
<1>1. TypeOK'
  BY BlocksNeededType DEF TypeOK, PCs, AllocCall, Goto
<1>2. pc[t] = "idle" /\ pc'[t] = "scan" /\ found[t] = 0 /\ found' = found
  BY DEF TypeOK, Progress, AllocCall, Goto
<1>3. Progress(t)'
  BY <1>2 DEF Progress
<1>4. Held(t)' = {}
  BY <1>2, LocalTypes, SpanEmpty DEF Held, AllocCall
<1>5. Kept
  BY <1>4, <1>0, DropKeeps DEF AllocCall
<1> QED BY <1>1, <1>3, <1>5 DEF Safe

LEMMA ScanTakeStep ==
  ASSUME IInv, NEW t \in Threads, ScanTake(t)
  PROVE  Safe(t) /\ Held(t)' = Held(t) \cup {Page(t)}
<1> USE DEF IInv, Ownership
<1>0. OthersKeep(t)
  BY NextApart, ApartKeeps DEF Step
<1>1. /\ j[t] \in 0 .. NumBlocks - 1 /\ start[t] \in 0 .. NumBlocks
      /\ found[t] \in 0 .. NumBlocks /\ node[t] \in Nodes
      /\ found[t] > 0 => start[t] + found[t] = j[t]
      /\ NumBlocks \in Nat
  BY LocalTypes DEF Progress, ScanTake, InPool
<1>2. found[t] + 1 \in 0 .. NumBlocks /\ j[t] + 1 \in 0 .. NumBlocks
  BY <1>1
<1>3. Page(t) \in Nodes \X Blocks
  BY <1>1 DEF Page, Blocks
<1>4. TypeOK'
  BY <1>1, <1>2, <1>3 DEF TypeOK, PCs, ScanTake, Goto
<1>5. Progress(t)'
  BY <1>1, <1>2 DEF TypeOK, Progress, ScanTake, Goto, RunComplete
<1>6. /\ node'[t] = node[t] /\ found'[t] = found[t] + 1
      /\ start'[t] + found[t] = j[t]
      /\ pc[t] = "scan" /\ pc'[t] \in {"scan", "load"}
  BY <1>1 DEF TypeOK, ScanTake, Goto
<1>7. Held(t) = Span(node[t], start'[t], j[t])
  <2>1. CASE found[t] = 0
    <3>1. start'[t] = j[t] /\ start[t] + found[t] = start[t]
      BY <2>1, <1>1, <1>4, <1>6 DEF TypeOK
    <3>2. Held(t) = {} /\ Span(node[t], start'[t], j[t]) = {}
      BY <3>1, <1>1, <1>6, SpanEmpty DEF Held
    <3> QED BY <3>2
  <2>2. CASE found[t] > 0
    <3>1. start'[t] = start[t]
      BY <2>2, <1>1 DEF TypeOK, ScanTake
    <3>2. start[t] + found[t] = j[t]
      BY <2>2, <1>1
    <3> QED BY <3>1, <3>2, <1>6 DEF Held
  <2> QED BY <2>1, <2>2, <1>1
<1>8. Held(t)' = Span(node[t], start'[t], j[t] + 1)
  <2>1. start'[t] + (found[t] + 1) = j[t] + 1
    BY <1>1, <1>4, <1>6 DEF TypeOK
  <2> QED BY <2>1, <1>6 DEF Held
<1>9. Held(t)' = Held(t) \cup {Page(t)}
  <2>1. start'[t] \in Int /\ j[t] \in Int /\ start'[t] <= j[t]
    BY <1>1, <1>4, <1>6 DEF TypeOK
  <2> QED BY <2>1, <1>7, <1>8, SpanGrow DEF Page
<1>10. Kept
  BY <1>9, <1>0, TakeKeeps DEF ScanTake, FlagClear
<1> QED BY <1>4, <1>5, <1>9, <1>10 DEF Safe

LEMMA ScanBusyStep ==
  ASSUME IInv, NEW t \in Threads, ScanBusy(t)
  PROVE  Safe(t) /\ Held(t)' = Held(t)
<1> USE DEF IInv, Ownership
<1>0. OthersKeep(t)
  BY NextApart, ApartKeeps DEF Step
<1>1. /\ j[t] \in 0 .. NumBlocks - 1 /\ start[t] \in 0 .. NumBlocks
      /\ found[t] \in 0 .. NumBlocks /\ NumBlocks \in Nat
      /\ found[t] > 0 => start[t] + found[t] = j[t]
      /\ j[t] + 1 \in 0 .. NumBlocks
  BY LocalTypes DEF Progress, ScanBusy, InPool
<1>2. TypeOK'
  BY <1>1 DEF TypeOK, PCs, ScanBusy, Goto, UndoFirst
<1>3. Progress(t)'
  BY <1>1 DEF TypeOK, Progress, ScanBusy, Goto, UndoFirst
<1>4. Held(t)' = Held(t)
  BY <1>1 DEF TypeOK, Held, ScanBusy, Goto, UndoFirst
<1>5. Kept
  BY <1>4, <1>0, DropKeeps DEF ScanBusy
<1> QED BY <1>2, <1>3, <1>4, <1>5 DEF Safe

LEMMA UndoStep ==
  ASSUME IInv, NEW t \in Threads, Undo(t)
  PROVE  Safe(t) /\ Held(t)' = Held(t) \ {<<node[t], k[t]>>}
<1> USE DEF IInv, Ownership
<1>0. OthersKeep(t)
  BY NextApart, ApartKeeps DEF Step
<1>1. /\ j[t] \in 0 .. NumBlocks - 1 /\ start[t] \in 0 .. NumBlocks
      /\ found[t] \in 0 .. NumBlocks /\ NumBlocks \in Nat
      /\ k[t] \in 0 .. NumBlocks - 1 /\ start[t] <= k[t]
      /\ k[t] < start[t] + found[t] /\ start[t] + found[t] = j[t]
  BY LocalTypes DEF Progress, Undo
<1>2. k[t] + 1 \in 0 .. NumBlocks /\ j[t] + 1 \in 0 .. NumBlocks
  BY <1>1
<1>3. TypeOK'
  BY <1>2, ExtentAssumption DEF TypeOK, PCs, Undo, Goto, ScanNext
<1>4. Progress(t)'
  BY <1>1, <1>2 DEF TypeOK, Progress, Undo, Goto, UndoLast
<1>5. Held(t) = Span(node[t], k[t], j[t])
  BY <1>1 DEF Held, Undo
<1>6. Held(t)' = Span(node[t], k[t] + 1, j[t])
  <2>1. CASE UndoLast(t)
    <3>1. Held(t)' = Span(node[t], start[t], start[t] + 0)
      BY <2>1 DEF TypeOK, Held, Undo, Goto
    <3>2. Held(t)' = {}
      BY <3>1, <1>1, SpanEmpty
    <3>3. k[t] + 1 = j[t] /\ k[t] + 1 \in Int
      BY <2>1, <1>1 DEF UndoLast
    <3> QED BY <3>2, <3>3, SpanEmpty
  <2>2. CASE ~UndoLast(t)
    BY <2>2, <1>1 DEF TypeOK, Held, Undo
  <2> QED BY <2>1, <2>2
<1>7. <<node[t], k[t]>> \in Held(t) /\ Held(t)' = Held(t) \ {<<node[t], k[t]>>}
  BY <1>1, <1>5, <1>6, SpanShrink
<1>8. Kept
  BY <1>7, <1>0, ClearKeeps DEF Undo
<1> QED BY <1>3, <1>4, <1>7, <1>8 DEF Safe

LEMMA ScanExhaustedStep ==
  ASSUME IInv, NEW t \in Threads, ScanExhausted(t)
  PROVE  Safe(t)
<1> USE DEF IInv, Ownership
<1>0. OthersKeep(t)
  BY NextApart, ApartKeeps DEF Step
<1>1. TypeOK'
  BY ReturnTypes DEF TypeOK, ScanExhausted
<1>2. Progress(t)' /\ Held(t)' = {}
  BY ReturnEmpties DEF ScanExhausted
<1>3. Kept
  BY <1>2, <1>0, DropKeeps DEF ScanExhausted
<1> QED BY <1>1, <1>2, <1>3 DEF Safe

\* The accesses to pool->used change no page's hands.
LEMMA AllocLoadStep ==
  ASSUME IInv, NEW t \in Threads, AllocLoad(t)
  PROVE  Safe(t)
<1> USE DEF IInv, Ownership
<1>0. OthersKeep(t)
  BY NextApart, ApartKeeps DEF Step
<1>1. TypeOK'
  BY LocalTypes DEF TypeOK, PCs, AllocLoad, Goto
<1>2. Progress(t)' /\ Held(t)' = Held(t)
  BY DEF TypeOK, Progress, Held, AllocLoad, Goto
<1>3. Kept
  BY <1>2, <1>0, DropKeeps DEF AllocLoad
<1> QED BY <1>1, <1>2, <1>3 DEF Safe

LEMMA AllocStoreStep ==
  ASSUME IInv, NEW t \in Threads, AllocStore(t)
  PROVE  Safe(t)
<1> USE DEF IInv, Ownership
<1>0. OthersKeep(t)
  BY NextApart, ApartKeeps DEF Step
<1>1. TypeOK'
  <2>1. UsedGrown(t) \in Nat
    BY LocalTypes, PoolAssumption DEF UsedGrown
  <2> QED BY <2>1, LocalTypes DEF TypeOK, PCs, AllocStore, Goto
<1>2. Progress(t)' /\ Held(t)' = Held(t)
  BY DEF TypeOK, Progress, Held, AllocStore, Goto
<1>3. Kept
  BY <1>2, <1>0, DropKeeps DEF AllocStore
<1> QED BY <1>1, <1>2, <1>3 DEF Safe

\* The pages of a run that was won become a live allocation.
LEMMA AllocReturnStep ==
  ASSUME IInv, NEW t \in Threads, OthersKeep(t),
         pc[t] \in {"peak", "peakStore"}, AllocReturn(t),
         isUsed' = isUsed, used' = used, peak' \in [Nodes -> Nat]
  PROVE  Safe(t)
<1> USE DEF IInv, Ownership
<1> DEFINE e == [node |-> node[t], start |-> start[t], len |-> need[t]]
<1>1. /\ found[t] = need[t] /\ found[t] > 0
      /\ start[t] + found[t] <= NumBlocks
  BY DEF Progress
<1>2. e \in Extents
  <2>1. need[t] \in 1 .. NumBlocks /\ start[t] \in Blocks
    BY <1>1, LocalTypes DEF Blocks
  <2> QED BY <2>1, <1>1, LocalTypes DEF Extents
<1>3. TypeOK'
  BY <1>2, ReturnTypes DEF TypeOK, AllocReturn
<1>4. Progress(t)' /\ Held(t)' = {}
  BY ReturnEmpties DEF AllocReturn
<1>5. Pages(e) = Held(t)
  BY <1>1 DEF Pages, Held
<1>6. Kept
  BY <1>2, <1>4, <1>5, ReturnKeeps DEF AllocReturn
<1> QED BY <1>3, <1>4, <1>6 DEF Safe

LEMMA PeakTestStep ==
  ASSUME IInv, NEW t \in Threads, PeakTest(t)
  PROVE  Safe(t)
<1> USE DEF IInv, Ownership
<1>0. OthersKeep(t)
  BY NextApart, ApartKeeps DEF Step
<1>1. CASE AllocReturn(t)
  BY <1>0, <1>1, AllocReturnStep DEF PeakTest, TypeOK
<1>2. CASE Goto(t, "peakStore") /\ UNCHANGED <<live, node, need, j, start, found, k, reg>>
  <2>1. TypeOK'
    BY <1>2 DEF TypeOK, PCs, PeakTest, Goto
  <2>2. Progress(t)' /\ Held(t)' = Held(t)
    BY <1>2 DEF TypeOK, Progress, Held, PeakTest, Goto
  <2>3. Kept
    BY <1>2, <2>2, <1>0, DropKeeps DEF PeakTest
  <2> QED BY <2>1, <2>2, <2>3 DEF Safe
<1> QED BY <1>1, <1>2 DEF PeakTest

LEMMA PeakStoreStep ==
  ASSUME IInv, NEW t \in Threads, PeakStore(t)
  PROVE  Safe(t)
<1> USE DEF IInv, Ownership
<1>0. OthersKeep(t)
  BY NextApart, ApartKeeps DEF Step
<1>1. peak' \in [Nodes -> Nat]
  <2>1. UsedSeen(t) \subseteq Nat
    BY LocalTypes DEF UsedSeen
  <2> QED BY <2>1 DEF PeakStore, TypeOK
<1> QED BY <1>0, <1>1, AllocReturnStep DEF PeakStore

LEMMA FreeCallStep ==
  ASSUME IInv, NEW t \in Threads, NEW e \in live, FreeCall(t, e)
  PROVE  Safe(t)
<1> USE DEF IInv, Ownership
<1>0. OthersKeep(t)
  BY NextApart, ApartKeeps DEF Call
<1>1. /\ e.node \in Nodes /\ e.start \in 0 .. NumBlocks - 1
      /\ e.len \in 1 .. NumBlocks /\ NumBlocks \in Nat
  BY LocalTypes DEF TypeOK, Extents, Blocks
<1>2. TypeOK'
  BY <1>1 DEF TypeOK, PCs, FreeCall, Goto
<1>3. Progress(t)'
  BY <1>1 DEF TypeOK, Progress, FreeCall, Goto
<1>4. Held(t)' = Span(e.node, e.start, e.start + 1)
  BY DEF TypeOK, Held, FreeCall, Goto
<1>5. Held(t)' \subseteq Pages(e)
  BY <1>1, <1>4 DEF Pages, Span
<1>6. Kept
  BY <1>5, <1>0, TakeOverKeeps DEF TypeOK, FreeCall
<1> QED BY <1>2, <1>3, <1>6 DEF Safe

LEMMA FreeClearStep ==
  ASSUME IInv, NEW t \in Threads, FreeClear(t)
  PROVE  Safe(t)
<1> USE DEF IInv, Ownership
<1>0. OthersKeep(t)
  BY NextApart, ApartKeeps DEF Step
<1>1. TypeOK'
  BY DEF TypeOK, PCs, FreeClear, Goto
<1>2. Progress(t)' /\ Held(t)' = {}
  BY DEF TypeOK, Progress, Held, FreeClear, Goto
<1>3. k[t] \in Int /\ Held(t) = Span(node[t], k[t], k[t] + 1)
  BY LocalTypes DEF Held, FreeClear
<1>4. Held(t) = {<<node[t], k[t]>>}
  BY <1>3 DEF Span
<1>5. Kept
  BY <1>2, <1>4, <1>0, ClearKeeps DEF FreeClear
<1> QED BY <1>1, <1>2, <1>5 DEF Safe

LEMMA FreeLoadStep ==
  ASSUME IInv, NEW t \in Threads, FreeLoad(t)
  PROVE  Safe(t)
<1> USE DEF IInv, Ownership
<1>0. OthersKeep(t)
  BY NextApart, ApartKeeps DEF Step
<1>1. TypeOK'
  BY LocalTypes DEF TypeOK, PCs, FreeLoad, Goto
<1>2. Progress(t)' /\ Held(t)' = Held(t)
  BY DEF TypeOK, Progress, Held, FreeLoad, Goto
<1>3. Kept
  BY <1>2, <1>0, DropKeeps DEF FreeLoad
<1> QED BY <1>1, <1>2, <1>3 DEF Safe

LEMMA FreeStoreStep ==
  ASSUME IInv, NEW t \in Threads, FreeStore(t)
  PROVE  Safe(t)
<1> USE DEF IInv, Ownership
<1>0. OthersKeep(t)
  BY NextApart, ApartKeeps DEF Step
<1>1. used' \in [Nodes -> Nat]
  <2>1. UsedShrunk(t) \in Nat
    BY LocalTypes, PoolAssumption DEF UsedShrunk
  <2> QED BY <2>1 DEF FreeStore, TypeOK
<1>2. TypeOK'
  BY <1>1, ReturnTypes DEF TypeOK, FreeStore
<1>3. Progress(t)' /\ Held(t)' = {}
  BY ReturnEmpties DEF FreeStore
<1>4. Kept
  BY <1>3, <1>0, DropKeeps DEF FreeStore
<1> QED BY <1>2, <1>3, <1>4 DEF Safe
-----------------------------------------------------------------------------
(***************************************************************************)
(* The invariant, and what follows from it.                                *)
(***************************************************************************)
LEMMA Initially == Init => IInv
<1> SUFFICES ASSUME Init PROVE IInv
  OBVIOUS
<1>1. TypeOK
  <2>1. 0 \in Nodes /\ 0 \in 0 .. NumBlocks /\ 0 \in Nat
    BY ExtentAssumption DEF Nodes
  <2> QED BY <2>1 DEF Init, TypeOK, PCs
<1>2. \A t \in Threads : Progress(t) /\ Held(t) = {}
  BY DEF Init, Progress, Held
<1>3. Flagged /\ Exclusive
  BY <1>2 DEF Init, Flagged, Exclusive
<1> QED BY <1>1, <1>2, <1>3 DEF IInv, Ownership

LEMMA NextKeeps ==
  ASSUME IInv, Next
  PROVE  IInv' /\ Orphans \subseteq Orphans' /\ [Promise!Next]_live
<1>1. PICK t \in Threads : Step(t) \/ Call(t)
  BY DEF Next
<1>2. Safe(t)
  <2>1. CASE Step(t)
    BY <2>1, ScanTakeStep, ScanBusyStep, UndoStep, ScanExhaustedStep,
       AllocLoadStep, AllocStoreStep, PeakTestStep, PeakStoreStep,
       FreeClearStep, FreeLoadStep, FreeStoreStep DEF Step
  <2>2. CASE Call(t)
    BY <2>2, AllocCallStep, FreeCallStep DEF Call
  <2> QED BY <1>1, <2>1, <2>2
<1>3. \A u \in Threads \ {t} : Progress(u)'
  BY <1>1, NextApart, ApartKeeps DEF IInv, Ownership
<1>4. \A u \in Threads : Progress(u)'
  BY <1>2, <1>3 DEF Safe
<1> QED BY <1>2, <1>4 DEF Safe, Kept, IInv, Ownership

LEMMA StutterKeeps ==
  ASSUME IInv, UNCHANGED vars
  PROVE  IInv' /\ Orphans' = Orphans /\ live' = live
<1> USE DEF vars, locals
<1>1. TypeOK' /\ live' = live
  BY DEF IInv, TypeOK
<1>2. \A t \in Threads : Progress(t)' = Progress(t) /\ Held(t)' = Held(t)
  BY DEF Progress, Held
<1>3. Flagged' /\ Exclusive' /\ Orphans' = Orphans
  BY <1>2 DEF IInv, Ownership, Flagged, Exclusive, Orphans, Unowned, Pages, Span
<1> QED BY <1>1, <1>2, <1>3 DEF IInv, Ownership

THEOREM Invariance == Spec => []IInv
<1>1. IInv /\ [Next]_vars => IInv'
  BY NextKeeps, StutterKeeps
<1> QED BY Initially, <1>1, PTL DEF Spec

\* Every variable stays in its range: the scan of kbx_mem_cpu_alloc never
\* reads a block outside its pool.
THEOREM TypeCorrect == Spec => []TypeOK
BY Invariance, PTL DEF IInv

\* Whatever the threads' interleaving, every page in someone's hands has its
\* flag set and nobody else has it.
THEOREM OwnershipHolds == Spec => []Ownership
BY Invariance, PTL DEF IInv

\* A page that has lost its owner and kept its flag is lost for good.
THEOREM LostForGood == Spec => PagesStayLost
<1>1. IInv /\ [Next]_vars => [Orphans \subseteq Orphans']_vars
  BY NextKeeps
<1> QED BY <1>1, Invariance, PTL DEF Spec, PagesStayLost

\* kbx_mem_alloc and kbx_mem_free implement the abstract allocator.
THEOREM Refines == Spec => KeepsPromise
<1>1. Init => Promise!Init
  BY DEF Init, Promise!Init
<1>2. IInv /\ [Next]_vars => [Promise!Next]_live
  BY NextKeeps, StutterKeeps
<1> QED BY <1>1, <1>2, Invariance, PTL DEF Spec, KeepsPromise, Promise!Spec

-----------------------------------------------------------------------------
(***************************************************************************)
(* Losses.  Three steps can take a page from its owner and leave its flag: *)
(* an allocation that returns, if the run it has won were longer than what *)
(* it asked for, a scan that ends with a run in its hands, and the call    *)
(* of free.  The first does not happen: a run is won as soon as it is long *)
(* enough, which is also why a request of one page never has a run in its  *)
(* hands when its scan ends.                                               *)
(***************************************************************************)
Short(t) == pc[t] \in {"scan", "undo"} /\ need[t] > 0 => found[t] < need[t]

\* The pages a step may lose.
Losses ==
  (UNION {Rest(e) : e \in live \ live'}) \cup
  (UNION {Held(t) : t \in {u \in Threads : GivenUp(u)}})

LEMMA ShortStep ==
  ASSUME IInv, NEW t \in Threads, Short(t), Step(t) \/ Call(t)
  PROVE  Short(t)'
<1> USE DEF IInv
<1>0. TypeOK /\ Progress(t)
  BY DEF Ownership
<1>r. Return(t) => Short(t)'
  BY <1>0 DEF TypeOK, Return, Goto, Short
<1>1. ASSUME NEW n \in Nodes, NEW size \in Sizes, AllocCall(t, n, size)
      PROVE  Short(t)'
  BY <1>0, <1>1, BlocksNeededType DEF TypeOK, AllocCall, Goto, Short, Progress
<1>2. CASE ScanTake(t)
  BY <1>0, <1>2, LocalTypes DEF TypeOK, ScanTake, Goto, Short, RunComplete
<1>3. CASE ScanBusy(t)
  BY <1>0, <1>3 DEF TypeOK, ScanBusy, Goto, Short
<1>4. CASE Undo(t)
  BY <1>0, <1>4 DEF TypeOK, Undo, Goto, Short
<1>5. CASE ScanExhausted(t)
  BY <1>r, <1>5 DEF ScanExhausted
<1>6. CASE AllocLoad(t) \/ AllocStore(t) \/ FreeClear(t) \/ FreeLoad(t)
  BY <1>0, <1>6 DEF TypeOK, AllocLoad, AllocStore, FreeClear, FreeLoad, Goto, Short
<1>7. CASE PeakTest(t)
  BY <1>0, <1>r, <1>7 DEF TypeOK, PeakTest, AllocReturn, Goto, Short
<1>8. CASE PeakStore(t)
  BY <1>r, <1>8 DEF PeakStore, AllocReturn
<1>9. ASSUME NEW e \in live, FreeCall(t, e) PROVE Short(t)'
  BY <1>0, <1>9 DEF TypeOK, FreeCall, Goto, Short
<1>10. CASE FreeStore(t)
  BY <1>r, <1>10 DEF FreeStore
<1> QED
  BY <1>1, <1>2, <1>3, <1>4, <1>5, <1>6, <1>7, <1>8, <1>9, <1>10 DEF Step, Call

\* A step of t loses the pages of L at most if every flag set after it belongs
\* to t or to a live allocation, or belonged to somebody else before, or is in L.
LEMMA LosesAtMost ==
  ASSUME NEW t \in Threads, OthersKeep(t), NEW L,
         \A p \in isUsed' :
           \/ p \in Held(t)' \/ p \in L
           \/ \E e \in live' : p \in Pages(e)
           \/ /\ p \in isUsed /\ p \notin Held(t)
              /\ \A e \in live \ live' : p \notin Pages(e)
  PROVE  Orphans' \ Orphans \subseteq L
<1>1. \A p : Unowned(p)' =>
        (\A u \in Threads : p \notin Held(u)') /\ \A e \in live' : p \notin Pages(e)
  BY DEF Unowned, Pages, Span
<1> SUFFICES ASSUME NEW p \in isUsed', Unowned(p)', p \notin Orphans PROVE p \in L
  BY DEF Orphans
<1>2. SUFFICES ASSUME p \notin L PROVE FALSE
  OBVIOUS
<1>3. p \in isUsed /\ p \notin Held(t) /\ \A e \in live \ live' : p \notin Pages(e)
  BY <1>1, <1>2
<1>4. Unowned(p)
  BY <1>1, <1>3 DEF Unowned, OthersKeep
<1> QED BY <1>3, <1>4 DEF Orphans

LEMMA LossStep ==
  ASSUME IInv, NEW t \in Threads, Short(t), Step(t) \/ Call(t)
  PROVE  Orphans' \ Orphans \subseteq Losses
<1> DEFINE Goal == Orphans' \ Orphans \subseteq Losses
<1> USE DEF IInv
<1>0. OthersKeep(t) /\ TypeOK /\ Progress(t)
  BY NextApart, ApartKeeps DEF Ownership
<1>r. ASSUME live' = live, isUsed' = isUsed, Held(t) = {} PROVE Goal
  BY <1>0, <1>r, LosesAtMost
<1>h. ASSUME Held(t)' = Held(t), live' = live, isUsed' = isUsed PROVE Goal
  BY <1>0, <1>h, LosesAtMost
<1>a. ASSUME AllocReturn(t), isUsed' = isUsed, pc[t] \in {"peak", "peakStore"}
      PROVE  Goal
  <2> DEFINE e == [node |-> node[t], start |-> start[t], len |-> need[t]]
  <2>1. live' = live \cup {e} /\ Pages(e) = Held(t)
    BY <1>0, <1>a DEF AllocReturn, Pages, Held, Progress
  <2> QED BY <1>0, <1>a, <2>1, LosesAtMost
<1>1. ASSUME NEW n \in Nodes, NEW size \in Sizes, AllocCall(t, n, size)
      PROVE  Goal
  BY <1>r, <1>1 DEF AllocCall, Held
<1>2. CASE ScanTake(t)
  <2>1. isUsed' = isUsed \cup {Page(t)} /\ live' = live
    BY <1>2 DEF ScanTake
  <2>2. Held(t)' = Held(t) \cup {Page(t)}
    BY <1>0, <1>2, ScanTakeStep
  <2> QED BY <1>0, <2>1, <2>2, LosesAtMost
<1>3. CASE ScanBusy(t)
  BY <1>0, <1>h, <1>3, ScanBusyStep DEF ScanBusy
<1>4. CASE Undo(t)
  BY <1>0, <1>4, LosesAtMost, UndoStep DEF Undo
<1>5. CASE ScanExhausted(t)
  <2>1. CASE need[t] = 1
    <3>1. Held(t) = {}
      BY <1>0, <1>5, <2>1, LocalTypes, SpanEmpty DEF Held, ScanExhausted, Short
    <3> QED BY <1>r, <1>5, <3>1 DEF ScanExhausted
  <2>2. CASE need[t] # 1
    <3>1. GivenUp(t)
      BY <1>0, <1>5, <2>2 DEF ScanExhausted, GivenUp, Return, Goto, TypeOK
    <3>2. Held(t) \subseteq Losses
      BY <3>1 DEF Losses
    <3> QED BY <1>0, <1>5, <3>2, LosesAtMost DEF ScanExhausted
  <2> QED BY <2>1, <2>2
<1>6. CASE AllocLoad(t)
  BY <1>0, <1>h, <1>6 DEF TypeOK, AllocLoad, Goto, Held
<1>7. CASE AllocStore(t)
  BY <1>0, <1>h, <1>7 DEF TypeOK, AllocStore, Goto, Held
<1>8. CASE PeakTest(t)
  <2>1. CASE AllocReturn(t)
    BY <1>a, <1>8, <2>1 DEF PeakTest
  <2>2. CASE Goto(t, "peakStore") /\ UNCHANGED <<live, node, need, j, start, found, k, reg>>
    BY <1>0, <1>h, <1>8, <2>2 DEF TypeOK, PeakTest, Goto, Held
  <2> QED BY <1>8, <2>1, <2>2 DEF PeakTest
<1>9. CASE PeakStore(t)
  BY <1>a, <1>9 DEF PeakStore
<1>10. ASSUME NEW e \in live, FreeCall(t, e)
       PROVE  Goal
  <2>1. Held(t)' = {<<e.node, e.start>>} /\ Held(t) = {}
    <3>1. k'[t] = e.start /\ node'[t] = e.node /\ pc'[t] = "clear" /\ pc[t] = "idle"
      BY <1>0, <1>10 DEF TypeOK, FreeCall, Goto
    <3>2. e.start \in Int
      BY <1>0 DEF TypeOK, Extents, Blocks
    <3> QED BY <3>1, <3>2 DEF Held, Span
  <2>2. live' = live \ {e} /\ isUsed' = isUsed
    BY <1>10 DEF FreeCall
  <2>3. Pages(e) \ Held(t)' \subseteq Losses
    BY <2>1, <2>2 DEF Losses, Rest
  <2> QED BY <1>0, <2>1, <2>2, <2>3, LosesAtMost
<1>11. CASE FreeClear(t)
  <2>1. k[t] \in Int /\ Held(t) = Span(node[t], k[t], k[t] + 1)
    BY LocalTypes, <1>11 DEF Held, FreeClear
  <2>2. Held(t) = {<<node[t], k[t]>>}
    BY <2>1 DEF Span
  <2> QED BY <1>0, <1>11, <2>2, LosesAtMost DEF FreeClear
<1>12. CASE FreeLoad(t)
  BY <1>0, <1>h, <1>12 DEF TypeOK, FreeLoad, Goto, Held
<1>13. CASE FreeStore(t)
  BY <1>r, <1>13 DEF FreeStore, Held
<1> QED
  BY <1>1, <1>2, <1>3, <1>4, <1>5, <1>6, <1>7, <1>8, <1>9, <1>10, <1>11,
     <1>12, <1>13 DEF Step, Call

\* Pages are lost in two places only, whatever the threads do: behind the first
\* page of an allocation that is freed, and at the end of the pool by a request
\* for several or for no pages.  So requests of one page lose none.
THEOREM LossesAreAccounted == Spec => LossesAccounted
<1> DEFINE SInv == \A t \in Threads : Short(t)
<1>1. Init => SInv
  BY DEF Init, Short
<1>2. IInv /\ SInv /\ [Next]_vars => SInv' /\ [Orphans' \ Orphans \subseteq Losses]_vars
  <2> SUFFICES ASSUME IInv, SInv, [Next]_vars
               PROVE  SInv' /\ [Orphans' \ Orphans \subseteq Losses]_vars
    OBVIOUS
  <2>1. CASE Next
    <3>1. PICK t \in Threads : Step(t) \/ Call(t)
      BY <2>1 DEF Next
    <3>2. Apart(t)
      BY <3>1, NextApart DEF IInv
    <3>3. SInv'
      BY <3>1, <3>2, ShortStep DEF Short, Apart
    <3> QED BY <3>1, <3>3, LossStep
  <2>2. CASE UNCHANGED vars
    BY <2>2 DEF vars, locals, Short
  <2> QED BY <2>1, <2>2
<1> QED BY <1>1, <1>2, Invariance, PTL DEF Spec, LossesAccounted, Losses

-----------------------------------------------------------------------------
(***************************************************************************)
(* First fit.  While one thread calls, every flag outside its hands stays  *)
(* as it is during a scan, so what the scan has found out stays true.      *)
(***************************************************************************)

\* A run of the length t asks for, starting at block s, has a page in use that
\* is not in the hands of t.
Blocked(t, s) == Span(node[t], s, s + need[t]) \cap (isUsed \ Held(t)) # {}

\* The page behind which t gathers its run.
Behind(t) == IF found[t] = 0 THEN j[t] ELSE start[t]

\* What the scan of t has found out.  The run it gathers starts at the pool's
\* start or behind a page in use, and the run it gives back ends at one: that
\* is why a run too short for the request lies in no run long enough.
Scanned(t) ==
  /\ pc[t] = "idle" => j[t] = 0
  /\ pc[t] = "scan" /\ Behind(t) > 0 =>
       <<node[t], Behind(t) - 1>> \in isUsed \ Held(t)
  /\ pc[t] = "undo" => Page(t) \in isUsed \ Held(t)
  /\ pc[t] \in {"scan", "undo"} /\ need[t] > 0 =>
       \A s \in Blocks : s + need[t] <= j[t] => Blocked(t, s)
  /\ pc[t] = "load" => \A s \in Blocks : s < start[t] => Blocked(t, s)

\* The scan moves on by one page: the runs that end there are blocked as well
\* if one of their pages is.
LEMMA ScanMovesOn ==
  ASSUME NEW t \in Threads, TypeOK, j[t] < NumBlocks, need[t] > 0,
         NEW c \in Blocks, c <= j[t], j[t] < c + need[t],
         <<node[t], c>> \in isUsed \ Held(t),
         \A s \in Blocks : s + need[t] <= j[t] => Blocked(t, s)
  PROVE  \A s \in Blocks : s + need[t] <= j[t] + 1 => Blocked(t, s)
<1> SUFFICES ASSUME NEW s \in Blocks, s + need[t] = j[t] + 1
             PROVE  Blocked(t, s)
  BY LocalTypes DEF Blocks
<1>1. s <= c /\ c <= s + need[t] - 1
  BY LocalTypes DEF Blocks
<1>2. <<node[t], c>> \in Span(node[t], s, s + need[t])
  BY <1>1, LocalTypes DEF Span, Blocks
<1> QED BY <1>2 DEF Blocked

LEMMA ScanTakeScans ==
  ASSUME IInv, NEW t \in Threads, Short(t), Scanned(t), ScanTake(t)
  PROVE  Scanned(t)'
<1> USE DEF IInv
<1>0. TypeOK /\ Progress(t) /\ Held(t) \subseteq isUsed
  BY DEF Ownership, Flagged
<1>1. isUsed' \ Held(t)' = isUsed \ Held(t)
  BY ScanTakeStep DEF ScanTake, FlagClear
<1>2. node' = node /\ need' = need /\ pc[t] = "scan" /\ j[t] < NumBlocks
  BY DEF ScanTake, InPool
<1>3. \A s : Blocked(t, s)' <=> Blocked(t, s)
  BY <1>1, <1>2 DEF Blocked
<1>4. start'[t] = Behind(t) /\ found'[t] = found[t] + 1 /\ Behind(t)' = Behind(t)
  BY <1>0, LocalTypes DEF ScanTake, Behind, TypeOK
<1>5. Behind(t) + found[t] = j[t] /\ Behind(t) \in Nat
  BY <1>0, <1>2, LocalTypes DEF Behind, Progress
<1>6. CASE RunComplete(t)
  <2>1. pc'[t] = "load"
    BY <1>0, <1>6 DEF ScanTake, Goto, TypeOK
  <2>2. ASSUME NEW s \in Blocks, s < start'[t] PROVE Blocked(t, s)'
    <3>1. s + need[t] <= j[t] /\ need[t] > 0
      BY <1>4, <1>5, <1>6, <2>2, LocalTypes DEF RunComplete, Blocks
    <3> QED BY <1>2, <1>3, <3>1 DEF Scanned
  <2> QED BY <2>1, <2>2 DEF Scanned
<1>7. CASE ~RunComplete(t)
  <2>1. pc'[t] = "scan" /\ j'[t] = j[t] + 1
    BY <1>0, <1>2, <1>7 DEF ScanTake, TypeOK
  <2>2. Behind(t)' > 0 => <<node'[t], Behind(t)' - 1>> \in isUsed' \ Held(t)'
    BY <1>1, <1>2, <1>4 DEF Scanned
  <2>3. ASSUME need[t] > 0, NEW s \in Blocks, s + need[t] <= j[t] + 1
        PROVE  Blocked(t, s)
    <3>1. CASE s + need[t] <= j[t]
      BY <1>2, <2>3, <3>1 DEF Scanned
    <3>2. CASE s + need[t] = j[t] + 1
      <4>1. found[t] + 1 < need[t]
        BY <1>2, <1>7, <2>3, LocalTypes DEF Short, RunComplete
      <4>2. Behind(t) > 0 /\ s <= Behind(t) - 1
        BY <1>5, <3>2, <4>1, LocalTypes DEF Blocks
      <4>3. Behind(t) - 1 <= j[t] /\ j[t] < Behind(t) - 1 + need[t] /\ Behind(t) - 1 \in Blocks
        BY <1>2, <1>5, <4>1, <4>2, LocalTypes DEF Blocks
      <4>4. <<node[t], Behind(t) - 1>> \in isUsed \ Held(t)
        BY <1>2, <4>2 DEF Scanned
      <4>5. \A r \in Blocks : r + need[t] <= j[t] => Blocked(t, r)
        BY <1>2, <2>3 DEF Scanned
      <4> QED BY <1>0, <1>2, <2>3, <3>2, <4>3, <4>4, <4>5, ScanMovesOn
    <3> QED BY <2>3, <3>1, <3>2, LocalTypes DEF Blocks
  <2>4. need'[t] > 0 => \A s \in Blocks : s + need'[t] <= j'[t] => Blocked(t, s)'
    BY <1>2, <1>3, <2>1, <2>3
  <2> QED BY <2>1, <2>2, <2>4 DEF Scanned
<1> QED BY <1>6, <1>7

LEMMA ScanBusyScans ==
  ASSUME IInv, NEW t \in Threads, Short(t), Scanned(t), ScanBusy(t)
  PROVE  Scanned(t)'
<1> USE DEF IInv
<1>0. TypeOK /\ Progress(t)
  BY DEF Ownership
<1>1. isUsed' \ Held(t)' = isUsed \ Held(t)
  BY ScanBusyStep DEF ScanBusy
<1>2. /\ node' = node /\ need' = need /\ found' = found /\ start' = start
      /\ pc[t] = "scan" /\ j[t] < NumBlocks
  BY DEF ScanBusy, InPool
<1>3. \A s : Blocked(t, s)' <=> Blocked(t, s)
  BY <1>1, <1>2 DEF Blocked
<1>4. Page(t) \in isUsed \ Held(t)
  <2>1. Page(t) \notin Held(t)
    <3>1. CASE found[t] = 0
      BY <1>2, <3>1, LocalTypes, SpanEmpty DEF Held
    <3>2. CASE found[t] # 0
      BY <1>0, <1>2, <3>2, LocalTypes DEF Held, Span, Page, Progress
    <3> QED BY <3>1, <3>2
  <2> QED BY <2>1 DEF ScanBusy, FlagClear
<1>5. CASE found[t] = 0
  <2>1. pc'[t] = "scan" /\ j'[t] = j[t] + 1 /\ Behind(t)' = j[t] + 1
    BY <1>0, <1>2, <1>5 DEF ScanBusy, TypeOK, Behind
  <2>2. <<node'[t], Behind(t)' - 1>> \in isUsed' \ Held(t)'
    BY <1>1, <1>2, <1>4, <2>1, LocalTypes DEF Page
  <2>3. ASSUME need[t] > 0 PROVE \A s \in Blocks : s + need[t] <= j[t] + 1 => Blocked(t, s)
    <3>1. j[t] \in Blocks /\ j[t] < j[t] + need[t]
      BY <1>2, <2>3, LocalTypes DEF Blocks
    <3>2. \A s \in Blocks : s + need[t] <= j[t] => Blocked(t, s)
      BY <1>2, <2>3 DEF Scanned
    <3> QED BY <1>0, <1>2, <1>4, <2>3, <3>1, <3>2, LocalTypes, ScanMovesOn DEF Page
  <2>4. need'[t] > 0 => \A s \in Blocks : s + need'[t] <= j'[t] => Blocked(t, s)'
    BY <1>2, <1>3, <2>1, <2>3
  <2> QED BY <2>1, <2>2, <2>4 DEF Scanned
<1>6. CASE found[t] # 0
  <2>1. pc'[t] = "undo" /\ j' = j
    BY <1>0, <1>6 DEF ScanBusy, Goto, TypeOK
  <2>2. Page(t)' \in isUsed' \ Held(t)'
    BY <1>1, <1>2, <1>4, <2>1 DEF Page
  <2>3. need'[t] > 0 => \A s \in Blocks : s + need'[t] <= j'[t] => Blocked(t, s)'
    BY <1>2, <1>3, <2>1 DEF Scanned
  <2> QED BY <2>1, <2>2, <2>3 DEF Scanned
<1> QED BY <1>5, <1>6

LEMMA UndoScans ==
  ASSUME IInv, NEW t \in Threads, Short(t), Scanned(t), Undo(t)
  PROVE  Scanned(t)'
<1> USE DEF IInv
<1>0. TypeOK /\ Progress(t) /\ Held(t) \subseteq isUsed
  BY DEF Ownership, Flagged
<1>1. isUsed' \ Held(t)' = isUsed \ Held(t)
  <2>1. <<node[t], k[t]>> \in Held(t)
    BY <1>0, LocalTypes DEF Held, Span, Progress, Undo
  <2> QED BY <2>1, UndoStep DEF Undo
<1>2. node' = node /\ need' = need /\ start' = start /\ pc[t] = "undo"
  BY DEF Undo
<1>3. \A s : Blocked(t, s)' <=> Blocked(t, s)
  BY <1>1, <1>2 DEF Blocked
<1>4. j[t] \in Blocks /\ Page(t) \in isUsed \ Held(t)
  BY <1>0, <1>2, LocalTypes DEF Progress, Scanned, Blocks
<1>5. CASE UndoLast(t)
  <2>1. pc'[t] = "scan" /\ j'[t] = j[t] + 1 /\ Behind(t)' = j[t] + 1
    BY <1>0, <1>5 DEF Undo, Goto, TypeOK, Behind, ScanNext
  <2>2. <<node'[t], Behind(t)' - 1>> \in isUsed' \ Held(t)'
    BY <1>1, <1>2, <1>4, <2>1, LocalTypes DEF Page
  <2>3. ASSUME need[t] > 0 PROVE \A s \in Blocks : s + need[t] <= j[t] + 1 => Blocked(t, s)
    <3>1. j[t] < j[t] + need[t] /\ j[t] < NumBlocks
      BY <1>4, <2>3, LocalTypes DEF Blocks
    <3>2. \A s \in Blocks : s + need[t] <= j[t] => Blocked(t, s)
      BY <1>2, <2>3 DEF Scanned
    <3> QED BY <1>0, <1>4, <2>3, <3>1, <3>2, LocalTypes, ScanMovesOn DEF Page
  <2>4. need'[t] > 0 => \A s \in Blocks : s + need'[t] <= j'[t] => Blocked(t, s)'
    BY <1>2, <1>3, <2>1, <2>3
  <2> QED BY <2>1, <2>2, <2>4 DEF Scanned
<1>6. CASE ~UndoLast(t)
  <2>1. pc'[t] = "undo" /\ j' = j
    BY <1>2, <1>6 DEF Undo
  <2>2. Page(t)' \in isUsed' \ Held(t)'
    BY <1>1, <1>2, <1>4, <2>1 DEF Page
  <2>3. need'[t] > 0 => \A s \in Blocks : s + need'[t] <= j'[t] => Blocked(t, s)'
    BY <1>2, <1>3, <2>1 DEF Scanned
  <2> QED BY <2>1, <2>2, <2>3 DEF Scanned
<1> QED BY <1>5, <1>6

LEMMA ScannedStep ==
  ASSUME IInv, NEW t \in Threads, Short(t), Scanned(t), Step(t) \/ Call(t)
  PROVE  Scanned(t)'
<1> USE DEF IInv
<1>0. TypeOK /\ Progress(t)
  BY DEF Ownership
<1>r. Return(t) => Scanned(t)'
  BY <1>0 DEF TypeOK, Return, Goto, Scanned
<1>1. ASSUME NEW n \in Nodes, NEW size \in Sizes, AllocCall(t, n, size)
      PROVE  Scanned(t)'
  <2>1. pc'[t] = "scan" /\ j'[t] = 0 /\ found'[t] = 0 /\ need'[t] \in Nat
    BY <1>0, <1>1, BlocksNeededType DEF TypeOK, AllocCall, Goto, Scanned, Progress
  <2>2. ~(Behind(t)' > 0)
    BY <2>1 DEF Behind
  <2>3. \A s \in Blocks : need'[t] > 0 => ~(s + need'[t] <= j'[t])
    BY <2>1, LocalTypes DEF Blocks
  <2> QED BY <2>1, <2>2, <2>3 DEF Scanned
<1>2. CASE AllocLoad(t) \/ AllocStore(t) \/ FreeClear(t) \/ FreeLoad(t)
  BY <1>0, <1>2 DEF TypeOK, AllocLoad, AllocStore, FreeClear, FreeLoad, Goto, Scanned
<1>3. CASE PeakTest(t)
  BY <1>0, <1>r, <1>3 DEF TypeOK, PeakTest, AllocReturn, Goto, Scanned
<1>4. ASSUME NEW e \in live, FreeCall(t, e) PROVE Scanned(t)'
  BY <1>0, <1>4 DEF TypeOK, FreeCall, Goto, Scanned
<1>5. CASE ScanExhausted(t) \/ PeakStore(t) \/ FreeStore(t)
  BY <1>r, <1>5 DEF ScanExhausted, PeakStore, AllocReturn, FreeStore
<1> QED
  BY <1>1, <1>2, <1>3, <1>4, <1>5, ScanTakeScans, ScanBusyScans, UndoScans
     DEF Step, Call

\* While one thread calls, kbx_mem_cpu_alloc is an exact first fit: it takes
\* the lowest free run that is long enough, and NULL means there is none.
THEOREM OneCallerFitsFirst ==
  ASSUME NEW caller, Threads = {caller}
  PROVE  Spec => []FirstFit
<1> DEFINE FInv == Short(caller) /\ Scanned(caller)
<1>1. Init => FInv
  BY DEF Init, Short, Scanned
<1>2. IInv /\ FInv /\ [Next]_vars => FInv'
  <2> SUFFICES ASSUME IInv, FInv, [Next]_vars PROVE FInv'
    OBVIOUS
  <2>1. CASE Next
    BY <2>1, ShortStep, ScannedStep DEF Next
  <2>2. CASE UNCHANGED vars
    BY <2>2 DEF vars, locals, Short, Scanned, Behind, Blocked, Held, Page
  <2> QED BY <2>1, <2>2
<1>3. FInv => FirstFit
  BY DEF FirstFit, Scanned, Blocked
<1> QED BY <1>1, <1>2, <1>3, Invariance, PTL DEF Spec

-----------------------------------------------------------------------------
(***************************************************************************)
(* Counting.  While one thread calls, pool->used counts the pages of live  *)
(* allocations and, in the middle of a call, the pages that are charged    *)
(* already (a run won) or still (a page being freed).  It misses none of   *)
(* these, and it counts no page whose flag is clear or pending.            *)
(***************************************************************************)

\* The pages of node n among those of S.
Count(n, S) == Cardinality({p \in S : p[1] = n})

PoolPages == Nodes \X Blocks
LivePages == UNION {Pages(e) : e \in live}

\* The pages the call of t has added to pool->used and not returned, or has
\* taken back from its caller and not subtracted from pool->used.
Charged(t) ==
  IF pc[t] \in {"peak", "peakStore"} THEN Held(t)
  ELSE IF pc[t] \in {"clear", "freeLoad", "freeStore"}
    THEN Span(node[t], k[t], k[t] + 1)
  ELSE {}

\* The pages whose flags it has set and has not added to pool->used.
Pending(t) == IF pc[t] \in {"scan", "undo", "load", "store"} THEN Held(t) ELSE {}

Lower(t) == LivePages \cup Charged(t)
Upper(t) == (isUsed \ Pending(t)) \cup Charged(t)

Bracketed(t) ==
  \A n \in Nodes : /\ Count(n, Lower(t)) <= used[n]
                   /\ used[n] <= Count(n, Upper(t))

\* The value t has loaded from pool->used is still there, and the page t frees
\* lies in its pool and has had its flag cleared.
Loaded(t) ==
  /\ pc[t] \in {"store", "peak", "peakStore", "freeStore"} => reg[t] = used[node[t]]
  /\ pc[t] \in {"freeLoad", "freeStore"} =>
       k[t] < NumBlocks /\ <<node[t], k[t]>> \notin isUsed

\* The peak is no lower than pool->used, except between the store to the one
\* and the store to the other.
Peaked(t) ==
  \A n \in Nodes :
    /\ peak[n] <= NumBlocks
    /\ used[n] <= peak[n] \/ (pc[t] \in {"peak", "peakStore"} /\ n = node[t])

Counted(t) == Bracketed(t) /\ Loaded(t) /\ Peaked(t)

LEMMA SpanCount ==
  ASSUME NEW n, NEW lo \in Int, NEW hi \in Int, lo <= hi
  PROVE  IsFiniteSet(Span(n, lo, hi)) /\ Cardinality(Span(n, lo, hi)) = hi - lo
<1> DEFINE f == [i \in lo .. hi - 1 |-> <<n, i>>]
<1>1. IsFiniteSet(lo .. hi - 1) /\ Cardinality(lo .. hi - 1) = hi - lo
  <2>1. hi - 1 \in Int
    OBVIOUS
  <2>2. Cardinality(lo .. hi - 1) = IF lo > hi - 1 THEN 0 ELSE (hi - 1) - lo + 1
    BY <2>1, FS_Interval
  <2>3. Cardinality(lo .. hi - 1) = hi - lo
    BY <2>2
  <2> QED BY <2>1, <2>3, FS_Interval
<1>2. f \in Bijection(lo .. hi - 1, Span(n, lo, hi))
  <2>1. f \in [lo .. hi - 1 -> Span(n, lo, hi)]
    BY DEF Span
  <2>2. f \in Injection(lo .. hi - 1, Span(n, lo, hi))
    BY <2>1 DEF Injection, IsInjective
  <2>3. f \in Surjection(lo .. hi - 1, Span(n, lo, hi))
    BY <2>1 DEF Surjection, Span
  <2> QED BY <2>2, <2>3 DEF Bijection
<1>3. ExistsBijection(lo .. hi - 1, Span(n, lo, hi))
  BY <1>2 DEF ExistsBijection
<1> QED BY <1>1, <1>3, FS_Bijection

\* Counts are natural numbers, bounded by the size of a pool, and monotone.
LEMMA CountBounds ==
  ASSUME NEW n \in Nodes, NEW T \in SUBSET PoolPages
  PROVE  /\ IsFiniteSet({p \in T : p[1] = n})
         /\ Count(n, T) \in Nat
         /\ Count(n, T) <= NumBlocks
         /\ \A S \in SUBSET T : Count(n, S) <= Count(n, T)
<1>1. IsFiniteSet(Span(n, 0, NumBlocks)) /\ Cardinality(Span(n, 0, NumBlocks)) = NumBlocks
  BY SpanCount, ExtentAssumption
<1>2. {p \in T : p[1] = n} \subseteq Span(n, 0, NumBlocks)
  BY ExtentAssumption DEF PoolPages, Span, Blocks
<1>3. /\ IsFiniteSet({p \in T : p[1] = n})
      /\ Cardinality({p \in T : p[1] = n}) <= NumBlocks
  BY <1>1, <1>2, FS_Subset
<1>4. Count(n, T) \in Nat
  BY <1>3, FS_CardinalityType DEF Count
<1>5. ASSUME NEW S \in SUBSET T PROVE Count(n, S) <= Count(n, T)
  <2>1. {p \in S : p[1] = n} \subseteq {p \in T : p[1] = n}
    OBVIOUS
  <2> QED BY <2>1, <1>3, FS_Subset DEF Count
<1> QED BY <1>3, <1>4, <1>5 DEF Count

\* Adding a run of pages of node m adds its length to the count of that node.
LEMMA CountGrows ==
  ASSUME NEW m \in Nodes, NEW lo \in Int, NEW hi \in Int, lo <= hi,
         NEW S \in SUBSET PoolPages, Span(m, lo, hi) \subseteq PoolPages,
         S \cap Span(m, lo, hi) = {}, NEW n \in Nodes
  PROVE  Count(n, S \cup Span(m, lo, hi)) =
           IF n = m THEN Count(n, S) + (hi - lo) ELSE Count(n, S)
<1> DEFINE A == {p \in S : p[1] = n}
           R == Span(m, lo, hi)
<1>1. IsFiniteSet(A) /\ Count(n, S) = Cardinality(A) /\ Cardinality(A) \in Nat
  BY CountBounds DEF Count
<1>2. CASE n = m
  <2>1. {p \in S \cup R : p[1] = n} = A \cup R
    BY <1>2 DEF Span
  <2>2. A \cap R = {}
    OBVIOUS
  <2>3. IsFiniteSet(R) /\ Cardinality(R) = hi - lo
    BY SpanCount
  <2>4. Cardinality(A \cup R) = Cardinality(A) + (hi - lo) - Cardinality(A \cap R)
    BY <1>1, <2>3, FS_Union
  <2>5. Cardinality(A \cap R) = 0
    BY <2>2, FS_EmptySet
  <2>6. Cardinality(A \cup R) = Cardinality(A) + (hi - lo)
    BY <1>1, <2>4, <2>5
  <2> QED BY <1>1, <1>2, <2>1, <2>6 DEF Count
<1>3. CASE n # m
  <2>1. {p \in S \cup R : p[1] = n} = A
    BY <1>3 DEF Span
  <2> QED BY <1>1, <1>3, <2>1 DEF Count
<1> QED BY <1>2, <1>3

LEMMA BoundsInPool ==
  ASSUME IInv, NEW t \in Threads, Loaded(t)
  PROVE  Lower(t) \subseteq PoolPages /\ Upper(t) \subseteq PoolPages
<1> USE DEF IInv
<1>1. isUsed \subseteq PoolPages /\ LivePages \subseteq isUsed /\ Held(t) \subseteq isUsed
  BY DEF TypeOK, Ownership, Flagged, PoolPages, LivePages
<1>2. ASSUME pc[t] \in {"clear", "freeLoad", "freeStore"}
      PROVE  Span(node[t], k[t], k[t] + 1) \subseteq PoolPages
  <2>1. k[t] \in Blocks /\ node[t] \in Nodes
    BY <1>2, LocalTypes DEF Ownership, Progress, Loaded, Blocks
  <2> QED BY <2>1 DEF Span, PoolPages, Blocks
<1> QED BY <1>1, <1>2 DEF Lower, Upper, Charged

\* A step that leaves pool->used alone, adds no page to the lower bound and
\* takes none from the upper one.
LEMMA StaysBracketed ==
  ASSUME IInv, IInv', NEW t \in Threads, Loaded(t), Loaded(t)', Bracketed(t),
         used' = used, Lower(t)' \subseteq Lower(t), Upper(t) \subseteq Upper(t)'
  PROVE  Bracketed(t)'
<1>1. Lower(t) \subseteq PoolPages /\ Upper(t) \subseteq PoolPages
  BY BoundsInPool
<1>2. Lower(t)' \subseteq PoolPages /\ Upper(t)' \subseteq PoolPages
  <2>1. (Lower(t) \subseteq PoolPages /\ Upper(t) \subseteq PoolPages)'
    BY BoundsInPool, PTL
  <2> QED BY <2>1 DEF PoolPages, Nodes, Blocks
<1>3. ASSUME NEW n \in Nodes
      PROVE  Count(n, Lower(t)') <= used'[n] /\ used'[n] <= Count(n, Upper(t)')
  <2>1. Count(n, Lower(t)') <= Count(n, Lower(t)) /\ Count(n, Upper(t)) <= Count(n, Upper(t)')
    BY <1>1, <1>2, CountBounds
  <2>2. /\ Count(n, Lower(t)') \in Nat /\ Count(n, Lower(t)) \in Nat
        /\ Count(n, Upper(t)) \in Nat /\ Count(n, Upper(t)') \in Nat
        /\ used[n] \in Nat
    BY <1>1, <1>2, CountBounds DEF IInv, TypeOK
  <2> QED BY <2>1, <2>2 DEF Bracketed
<1> QED BY <1>3 DEF Bracketed, Count, Nodes

LEMMA ModSmall ==
  ASSUME NEW m \in Nat \ {0}, NEW x \in Nat, x < m
  PROVE  x % m = x /\ (x + m) % m = x
OBVIOUS

\* The step that adds the run to pool->used: the sum does not wrap, as the run
\* and the pages counted so far fit in the pool together.
LEMMA AllocStoreCounts ==
  ASSUME IInv, NumBlocks < SizeMod, NEW t \in Threads, Counted(t), AllocStore(t)
  PROVE  Counted(t)'
<1> USE DEF IInv
<1>0. TypeOK /\ Progress(t) /\ Held(t) \subseteq isUsed /\ Held(t) \cap LivePages = {}
  BY DEF Ownership, Flagged, Exclusive, LivePages
<1>1. /\ isUsed' = isUsed /\ live' = live /\ node' = node /\ peak' = peak
      /\ pc[t] = "store" /\ pc'[t] = "peak"
  BY <1>0 DEF AllocStore, Goto, TypeOK
<1> DEFINE lo == start[t]
           hi == start[t] + need[t]
           m  == node[t]
<1>2. /\ m \in Nodes /\ lo \in Int /\ hi \in Int /\ lo <= hi /\ hi - lo = need[t]
      /\ Held(t) = Span(m, lo, hi)
  BY <1>0, <1>1, LocalTypes DEF Progress, Held
<1>3. Held(t)' = Held(t)
  BY <1>0 DEF AllocStore, Goto, Held, TypeOK
<1>4. /\ Lower(t) = LivePages /\ Lower(t)' = LivePages \cup Held(t)
      /\ Upper(t) = isUsed \ Held(t) /\ Upper(t)' = (isUsed \ Held(t)) \cup Held(t)
      /\ Upper(t)' = isUsed
  BY <1>0, <1>1, <1>3 DEF Lower, Upper, Charged, Pending, LivePages, Pages, Span
<1>5. LivePages \subseteq PoolPages /\ isUsed \subseteq PoolPages
  BY <1>0 DEF Ownership, Flagged, LivePages, TypeOK, PoolPages
<1>6. ASSUME NEW n \in Nodes
      PROVE  /\ Count(n, Lower(t)') = IF n = m THEN Count(n, Lower(t)) + need[t]
                                      ELSE Count(n, Lower(t))
             /\ Count(n, Upper(t)') = IF n = m THEN Count(n, Upper(t)) + need[t]
                                      ELSE Count(n, Upper(t))
             /\ Count(n, Lower(t)) \in Nat /\ Count(n, Upper(t)) \in Nat
             /\ Count(n, Upper(t)') \in Nat /\ Count(n, Upper(t)') <= NumBlocks
             /\ used[n] \in Nat /\ need[t] \in Nat /\ NumBlocks \in Nat
             /\ Count(n, Lower(t)) <= used[n] /\ used[n] <= Count(n, Upper(t))
  <2>1. isUsed \ Held(t) \subseteq PoolPages /\ Held(t) \subseteq PoolPages
    BY <1>0, <1>5
  <2>2. Count(n, LivePages \cup Held(t)) =
          IF n = m THEN Count(n, LivePages) + need[t] ELSE Count(n, LivePages)
    BY <1>0, <1>2, <1>5, <2>1, CountGrows
  <2>3. Count(n, (isUsed \ Held(t)) \cup Held(t)) =
          IF n = m THEN Count(n, isUsed \ Held(t)) + need[t]
          ELSE Count(n, isUsed \ Held(t))
    BY <1>2, <2>1, CountGrows
  <2>4. /\ Count(n, LivePages) \in Nat /\ Count(n, isUsed \ Held(t)) \in Nat
        /\ Count(n, isUsed) \in Nat /\ Count(n, isUsed) <= NumBlocks
    BY <1>5, <2>1, CountBounds
  <2>5. used[n] \in Nat /\ need[t] \in Nat /\ NumBlocks \in Nat
    BY <1>0, LocalTypes DEF TypeOK
  <2> QED BY <1>4, <2>2, <2>3, <2>4, <2>5 DEF Counted, Bracketed
<1>7. used[m] + need[t] <= NumBlocks /\ used[m] + need[t] \in Nat
  BY <1>2, <1>6
<1>8. UsedGrown(t) = used[m] + need[t]
  <2>1. reg[t] = used[m]
    BY <1>1 DEF Counted, Loaded
  <2>2. SizeMod \in Nat \ {0} /\ used[m] + need[t] < SizeMod
    BY <1>7, PoolAssumption, LocalTypes
  <2> QED BY <1>7, <2>1, <2>2, ModSmall DEF UsedGrown
<1>9. used' = [used EXCEPT ![m] = used[m] + need[t]] /\ reg'[t] = used[m] + need[t]
  BY <1>0, <1>8 DEF AllocStore, TypeOK
<1>10. ASSUME NEW n \in Nodes
       PROVE  Count(n, Lower(t)') <= used'[n] /\ used'[n] <= Count(n, Upper(t)')
  BY <1>0, <1>6, <1>9 DEF TypeOK
<1>11. Bracketed(t)'
  BY <1>10 DEF Bracketed, Count, Nodes
<1>12. Loaded(t)'
  BY <1>0, <1>1, <1>2, <1>9 DEF Loaded, TypeOK
<1>13. Peaked(t)'
  BY <1>0, <1>1, <1>9 DEF Counted, Peaked, TypeOK, Nodes
<1> QED BY <1>11, <1>12, <1>13 DEF Counted

\* The step that takes the freed page from pool->used, which counted it.
LEMMA FreeStoreCounts ==
  ASSUME IInv, NumBlocks < SizeMod, NEW t \in Threads, Counted(t), FreeStore(t)
  PROVE  Counted(t)'
<1> USE DEF IInv
<1>0. TypeOK /\ LivePages \subseteq isUsed /\ isUsed \subseteq PoolPages
  BY DEF Ownership, Flagged, LivePages, TypeOK, PoolPages
<1>1. /\ isUsed' = isUsed /\ live' = live /\ peak' = peak
      /\ pc[t] = "freeStore" /\ pc'[t] = "idle"
  BY <1>0 DEF FreeStore, Return, Goto, TypeOK
<1> DEFINE m == node[t]
           freed == Span(m, k[t], k[t] + 1)
<1>2. /\ m \in Nodes /\ k[t] \in Int /\ k[t] + 1 \in Int /\ k[t] <= k[t] + 1
      /\ (k[t] + 1) - k[t] = 1 /\ freed \subseteq PoolPages
      /\ isUsed \cap freed = {} /\ LivePages \cap freed = {}
  BY <1>0, <1>1, LocalTypes DEF Counted, Loaded, Span, PoolPages, Blocks
<1>3. /\ Lower(t) = LivePages \cup freed /\ Lower(t)' = LivePages
      /\ Upper(t) = isUsed \cup freed /\ Upper(t)' = isUsed
  BY <1>1 DEF Lower, Upper, Charged, Pending, LivePages, Pages, Span
<1>4. ASSUME NEW n \in Nodes
      PROVE  /\ Count(n, Lower(t)) = IF n = m THEN Count(n, LivePages) + 1
                                     ELSE Count(n, LivePages)
             /\ Count(n, Upper(t)) = IF n = m THEN Count(n, isUsed) + 1
                                     ELSE Count(n, isUsed)
             /\ Count(n, LivePages) \in Nat /\ Count(n, isUsed) \in Nat
             /\ Count(n, isUsed) <= NumBlocks
             /\ used[n] \in Nat /\ NumBlocks \in Nat
             /\ Count(n, Lower(t)) <= used[n] /\ used[n] <= Count(n, Upper(t))
             /\ Count(n, Upper(t)) <= NumBlocks
  <2>1. ASSUME NEW S \in SUBSET PoolPages, S \cap freed = {}
        PROVE  Count(n, S \cup freed) =
                 IF n = m THEN Count(n, S) + 1 ELSE Count(n, S)
    <3>1. Count(n, S \cup freed) =
            IF n = m THEN Count(n, S) + ((k[t] + 1) - k[t]) ELSE Count(n, S)
      BY <1>2, <2>1, CountGrows
    <3> QED BY <1>2, <3>1
  <2>2. /\ Count(n, LivePages \cup freed) =
             IF n = m THEN Count(n, LivePages) + 1 ELSE Count(n, LivePages)
        /\ Count(n, isUsed \cup freed) =
             IF n = m THEN Count(n, isUsed) + 1 ELSE Count(n, isUsed)
    <3> HIDE DEF freed
    <3> QED BY <1>0, <1>2, <2>1
  <2>3. /\ Count(n, LivePages) \in Nat /\ Count(n, isUsed) \in Nat
        /\ Count(n, isUsed) <= NumBlocks /\ Count(n, isUsed \cup freed) <= NumBlocks
    BY <1>0, <1>2, CountBounds
  <2>4. used[n] \in Nat /\ NumBlocks \in Nat
    BY <1>0, LocalTypes DEF TypeOK
  <2> QED BY <1>2, <1>3, <2>2, <2>3, <2>4 DEF Counted, Bracketed
<1>5. used[m] \in Nat /\ used[m] >= 1 /\ used[m] - 1 < NumBlocks
  BY <1>2, <1>4
<1>6. UsedShrunk(t) = used[m] - 1
  <2>1. reg[t] = used[m]
    BY <1>1 DEF Counted, Loaded
  <2>2. SizeMod \in Nat \ {0} /\ used[m] - 1 \in Nat /\ used[m] - 1 < SizeMod
    BY <1>5, PoolAssumption, LocalTypes
  <2>3. ((used[m] - 1) + SizeMod) % SizeMod = used[m] - 1
    BY <2>2, ModSmall
  <2>4. reg[t] + SizeMod - 1 = (used[m] - 1) + SizeMod
    BY <1>5, <2>1, <2>2
  <2> QED BY <2>3, <2>4 DEF UsedShrunk
<1>7. used' = [used EXCEPT ![m] = used[m] - 1]
  BY <1>6 DEF FreeStore
<1>8. ASSUME NEW n \in Nodes
      PROVE  Count(n, Lower(t)') <= used'[n] /\ used'[n] <= Count(n, Upper(t)')
  BY <1>0, <1>3, <1>4, <1>7 DEF TypeOK
<1>9. Bracketed(t)'
  BY <1>8 DEF Bracketed, Count, Nodes
<1>10. Loaded(t)'
  BY <1>1 DEF Loaded
<1>11. Peaked(t)'
  BY <1>0, <1>1, <1>5, <1>7 DEF Counted, Peaked, TypeOK, Nodes
<1> QED BY <1>9, <1>10, <1>11 DEF Counted

\* The test of the peak, which returns if the peak is high enough.
LEMMA AllocReturnCounts ==
  ASSUME IInv, IInv', NEW t \in Threads, Counted(t), AllocReturn(t),
         pc[t] \in {"peak", "peakStore"}, isUsed' = isUsed, used' = used,
         \A n \in Nodes : peak'[n] <= NumBlocks /\ used[n] <= peak'[n]
  PROVE  Counted(t)'
<1> USE DEF IInv
<1> DEFINE e == [node |-> node[t], start |-> start[t], len |-> need[t]]
<1>0. TypeOK /\ Progress(t) /\ Held(t) \subseteq isUsed
  BY DEF Ownership, Flagged
<1>1. pc'[t] = "idle" /\ live' = live \cup {e}
  BY <1>0 DEF AllocReturn, Return, Goto, TypeOK
<1>2. Pages(e) = Held(t)
  BY <1>0 DEF Progress, Pages, Held
<1>3. LivePages' = LivePages \cup Held(t)
  <2>1. LivePages' = LivePages \cup Pages(e)
    BY <1>1 DEF LivePages, Pages, Span
  <2> QED BY <1>2, <2>1
<1>4. Lower(t)' = Lower(t) /\ Upper(t)' = Upper(t)
  BY <1>0, <1>1, <1>3 DEF Lower, Upper, Charged, Pending
<1>5. Loaded(t)'
  BY <1>1 DEF Loaded
<1>6. Bracketed(t)'
  BY <1>4, <1>5, StaysBracketed DEF Counted
<1>7. Peaked(t)'
  BY DEF Peaked, Nodes
<1> QED BY <1>5, <1>6, <1>7 DEF Counted

LEMMA PeakCounts ==
  ASSUME IInv, IInv', NEW t \in Threads, Counted(t), PeakTest(t) \/ PeakStore(t)
  PROVE  Counted(t)'
<1> USE DEF IInv
<1>0. TypeOK /\ Progress(t)
  BY DEF Ownership
<1>1. /\ pc[t] \in {"peak", "peakStore"} /\ isUsed' = isUsed /\ used' = used
      /\ UsedSeen(t) = {used[node[t]]}
  BY DEF PeakTest, PeakStore, Counted, Loaded, UsedSeen
<1>2. ASSUME NEW n \in Nodes
      PROVE  /\ used[n] \in Nat /\ peak[n] \in Nat /\ used[n] <= NumBlocks
             /\ peak[n] <= NumBlocks /\ NumBlocks \in Nat
             /\ n # node[t] => used[n] <= peak[n]
  <2>1. Count(n, Upper(t)) \in Nat /\ Count(n, Upper(t)) <= NumBlocks
    BY BoundsInPool, CountBounds DEF Counted
  <2> QED BY <1>0, <2>1, LocalTypes DEF TypeOK, Counted, Bracketed, Peaked
<1>3. CASE PeakTest(t) /\ AllocReturn(t) /\ used[node[t]] <= peak[node[t]]
  <2>1. \A n \in Nodes : peak'[n] <= NumBlocks /\ used[n] <= peak'[n]
    BY <1>2, <1>3 DEF PeakTest
  <2> QED BY <1>1, <1>3, <2>1, AllocReturnCounts
<1>4. CASE /\ PeakTest(t) /\ Goto(t, "peakStore")
           /\ UNCHANGED <<live, node, need, j, start, found, k, reg>>
  <2>1. /\ pc[t] = "peak" /\ pc'[t] = "peakStore" /\ peak' = peak
        /\ Held(t)' = Held(t)
    BY <1>0, <1>4 DEF PeakTest, Goto, TypeOK, Held
  <2>2. Lower(t)' = Lower(t) /\ Upper(t)' = Upper(t)
    BY <1>1, <1>4, <2>1 DEF Lower, Upper, Charged, Pending, LivePages, Pages, Span
  <2>3. Loaded(t)' /\ Peaked(t)'
    BY <1>1, <1>4, <2>1 DEF Counted, Loaded, Peaked, Nodes
  <2>4. Bracketed(t)'
    BY <1>1, <2>2, <2>3, StaysBracketed DEF Counted
  <2> QED BY <2>3, <2>4 DEF Counted
<1>5. CASE PeakStore(t)
  <2>1. peak' = [peak EXCEPT ![node[t]] = used[node[t]]]
    BY <1>1, <1>5 DEF PeakStore
  <2>2. \A n \in Nodes : peak'[n] <= NumBlocks /\ used[n] <= peak'[n]
    BY <1>0, <1>2, <2>1 DEF TypeOK
  <2>3. AllocReturn(t)
    BY <1>5 DEF PeakStore
  <2> QED BY <1>1, <2>2, <2>3, AllocReturnCounts
<1>6. ASSUME PeakTest(t)
      PROVE  \/ AllocReturn(t) /\ used[node[t]] <= peak[node[t]]
             \/ /\ Goto(t, "peakStore")
                /\ UNCHANGED <<live, node, need, j, start, found, k, reg>>
  BY <1>1, <1>6 DEF PeakTest
<1> QED BY <1>3, <1>4, <1>5, <1>6

\* The steps of a scan and of a free that only move flags: what the flags
\* gain or lose is in the thread's hands.
LEMMA FlagsCount ==
  ASSUME IInv, IInv', NEW t \in Threads, Counted(t),
         ScanTake(t) \/ ScanBusy(t) \/ Undo(t) \/ ScanExhausted(t)
  PROVE  Counted(t)'
<1> USE DEF IInv
<1>0. TypeOK /\ Progress(t) /\ Held(t) \subseteq isUsed
  BY DEF Ownership, Flagged
<1>1. /\ used' = used /\ peak' = peak /\ live' = live
      /\ pc[t] \in {"scan", "undo"} /\ pc'[t] \in {"idle", "scan", "undo", "load"}
  BY <1>0 DEF ScanTake, ScanBusy, Undo, ScanExhausted, Return, Goto, TypeOK
<1>2. isUsed \ Held(t) \subseteq isUsed' \ Pending(t)'
  <2>1. CASE ScanTake(t)
    BY <1>0, <2>1, ScanTakeStep DEF ScanTake, FlagClear, Pending
  <2>2. CASE ScanBusy(t)
    BY <1>0, <2>2, ScanBusyStep DEF ScanBusy, Pending
  <2>3. CASE Undo(t)
    <3>1. Pending(t)' \subseteq Held(t)'
      BY DEF Pending
    <3>2. <<node[t], k[t]>> \in Held(t)
      BY <1>0, <2>3, LocalTypes DEF Held, Span, Progress, Undo
    <3> QED BY <2>3, <3>1, <3>2, UndoStep DEF Undo
  <2>4. CASE ScanExhausted(t)
    BY <1>0, <2>4 DEF ScanExhausted, Return, Goto, Pending, TypeOK
  <2> QED BY <2>1, <2>2, <2>3, <2>4
<1>3. Lower(t)' \subseteq Lower(t) /\ Upper(t) \subseteq Upper(t)'
  BY <1>1, <1>2 DEF Lower, Upper, Charged, Pending, LivePages, Pages, Span
<1>4. Loaded(t)' /\ Peaked(t)'
  BY <1>1 DEF Counted, Loaded, Peaked, Nodes
<1>5. Bracketed(t)'
  BY <1>1, <1>3, <1>4, StaysBracketed DEF Counted
<1> QED BY <1>4, <1>5 DEF Counted

LEMMA FreeCallCounts ==
  ASSUME IInv, IInv', NEW t \in Threads, Counted(t), NEW e \in live, FreeCall(t, e)
  PROVE  Counted(t)'
<1> USE DEF IInv
<1>0. TypeOK /\ LivePages \subseteq isUsed
  BY DEF Ownership, Flagged, LivePages
<1>1. /\ used' = used /\ peak' = peak /\ isUsed' = isUsed /\ live' = live \ {e}
      /\ pc[t] = "idle" /\ pc'[t] = "clear" /\ node'[t] = e.node /\ k'[t] = e.start
  BY <1>0 DEF FreeCall, Goto, TypeOK
<1>2. Charged(t)' \subseteq LivePages
  <2>1. Charged(t)' = Span(e.node, e.start, e.start + 1)
    BY <1>1 DEF Charged
  <2>2. Span(e.node, e.start, e.start + 1) \subseteq Pages(e)
    BY <1>0, LocalTypes DEF TypeOK, Extents, Blocks, Pages, Span
  <2> QED BY <2>1, <2>2 DEF LivePages
<1>3. LivePages' \subseteq LivePages
  BY <1>1 DEF LivePages, Pages, Span
<1>4. Lower(t)' \subseteq Lower(t) /\ Upper(t) \subseteq Upper(t)'
  BY <1>0, <1>1, <1>2, <1>3 DEF Lower, Upper, Charged, Pending
<1>5. Loaded(t)' /\ Peaked(t)'
  BY <1>1 DEF Counted, Loaded, Peaked, Nodes
<1>6. Bracketed(t)'
  BY <1>1, <1>4, <1>5, StaysBracketed DEF Counted
<1> QED BY <1>5, <1>6 DEF Counted

\* The remaining steps move neither bound.
LEMMA OthersCount ==
  ASSUME IInv, IInv', NEW t \in Threads, Counted(t),
         \/ \E n \in Nodes, size \in Sizes : AllocCall(t, n, size)
         \/ AllocLoad(t) \/ FreeClear(t) \/ FreeLoad(t)
  PROVE  Counted(t)'
<1> USE DEF IInv
<1>0. TypeOK /\ Progress(t) /\ Held(t) \subseteq isUsed
  BY DEF Ownership, Flagged
<1>1. CASE \E n \in Nodes, size \in Sizes : AllocCall(t, n, size)
  <2>1. /\ used' = used /\ peak' = peak /\ isUsed' = isUsed /\ live' = live
        /\ pc[t] = "idle" /\ pc'[t] = "scan" /\ found'[t] = 0 /\ start'[t] \in Int
    BY <1>0, <1>1, LocalTypes DEF AllocCall, Goto, TypeOK, Progress
  <2>2. Held(t)' = {}
    BY <2>1, SpanEmpty DEF Held
  <2>3. Lower(t)' = Lower(t) /\ Upper(t)' = Upper(t)
    BY <2>1, <2>2 DEF Lower, Upper, Charged, Pending, LivePages, Pages, Span
  <2>4. Loaded(t)' /\ Peaked(t)'
    BY <2>1 DEF Counted, Loaded, Peaked, Nodes
  <2> QED BY <2>1, <2>3, <2>4, StaysBracketed DEF Counted
<1>2. CASE AllocLoad(t)
  <2>1. /\ used' = used /\ peak' = peak /\ isUsed' = isUsed /\ live' = live
        /\ node' = node /\ pc[t] = "load" /\ pc'[t] = "store"
        /\ reg'[t] = used[node[t]] /\ Held(t)' = Held(t)
    BY <1>0, <1>2 DEF AllocLoad, Goto, TypeOK, Held
  <2>2. Lower(t)' = Lower(t) /\ Upper(t)' = Upper(t)
    BY <2>1 DEF Lower, Upper, Charged, Pending, LivePages, Pages, Span
  <2>3. Loaded(t)' /\ Peaked(t)'
    BY <2>1 DEF Counted, Loaded, Peaked, Nodes
  <2> QED BY <2>1, <2>2, <2>3, StaysBracketed DEF Counted
<1>3. CASE FreeClear(t)
  <2>1. /\ used' = used /\ peak' = peak /\ live' = live /\ node' = node /\ k' = k
        /\ isUsed' = isUsed \ {<<node[t], k[t]>>}
        /\ pc[t] = "clear" /\ pc'[t] = "freeLoad"
    BY <1>0, <1>3 DEF FreeClear, Goto, TypeOK
  <2>2. k[t] < NumBlocks /\ Span(node[t], k[t], k[t] + 1) = {<<node[t], k[t]>>}
    BY <1>0, <2>1, LocalTypes DEF Span, Progress
  <2>3. Lower(t)' = Lower(t) /\ Upper(t)' = Upper(t)
    BY <2>1, <2>2 DEF Lower, Upper, Charged, Pending, LivePages, Pages, Span
  <2>4. Loaded(t)' /\ Peaked(t)'
    BY <2>1, <2>2 DEF Counted, Loaded, Peaked, Nodes
  <2> QED BY <2>1, <2>3, <2>4, StaysBracketed DEF Counted
<1>4. CASE FreeLoad(t)
  <2>1. /\ used' = used /\ peak' = peak /\ isUsed' = isUsed /\ live' = live
        /\ node' = node /\ k' = k /\ reg'[t] = used[node[t]]
        /\ pc[t] = "freeLoad" /\ pc'[t] = "freeStore"
    BY <1>0, <1>4 DEF FreeLoad, Goto, TypeOK
  <2>2. Lower(t)' = Lower(t) /\ Upper(t)' = Upper(t)
    BY <2>1 DEF Lower, Upper, Charged, Pending, LivePages, Pages, Span
  <2>3. Loaded(t)' /\ Peaked(t)'
    BY <2>1 DEF Counted, Loaded, Peaked, Nodes
  <2> QED BY <2>1, <2>2, <2>3, StaysBracketed DEF Counted
<1> QED BY <1>1, <1>2, <1>3, <1>4

\* While one thread calls, and the number of a pool's pages fits in a size_t,
\* pool->used lies between the pages in live allocations and the pages whose
\* flag is set, and below the peak: no update is lost and nothing wraps.
THEOREM OneCallerCounts ==
  ASSUME NEW caller, Threads = {caller}, NumBlocks < SizeMod
  PROVE  Spec => []CountsBracketed
<1>1. Init => Counted(caller)
  <2> SUFFICES ASSUME Init PROVE Counted(caller)
    OBVIOUS
  <2>1. /\ pc[caller] = "idle" /\ isUsed = {} /\ live = {}
        /\ \A n \in Nodes : used[n] = 0 /\ peak[n] = 0
    BY DEF Init
  <2>2. Lower(caller) = {} /\ Upper(caller) = {}
    BY <2>1 DEF Lower, Upper, Charged, Pending, LivePages
  <2>3. \A n \in Nodes : Count(n, {}) = 0
    <3>1. \A n : {p \in {} : p[1] = n} = {}
      OBVIOUS
    <3> QED BY <3>1, FS_EmptySet DEF Count
  <2>4. Bracketed(caller)
    BY <2>1, <2>2, <2>3 DEF Bracketed
  <2>5. Loaded(caller) /\ Peaked(caller)
    BY <2>1, ExtentAssumption DEF Loaded, Peaked
  <2> QED BY <2>4, <2>5 DEF Counted
<1>2. IInv /\ IInv' /\ Counted(caller) /\ [Next]_vars => Counted(caller)'
  <2> SUFFICES ASSUME IInv, IInv', Counted(caller), [Next]_vars
               PROVE  Counted(caller)'
    OBVIOUS
  <2>1. CASE Step(caller)
    BY <2>1, AllocStoreCounts, FreeStoreCounts, PeakCounts, FlagsCount, OthersCount
       DEF Step
  <2>2. CASE Call(caller)
    BY <2>2, FreeCallCounts, OthersCount DEF Call
  <2>3. CASE UNCHANGED vars
    BY <2>3 DEF vars, locals, Counted, Bracketed, Loaded, Peaked, Lower, Upper,
                Charged, Pending, LivePages, Pages, Held, Span, Count
  <2> QED BY <2>1, <2>2, <2>3 DEF Next
<1>3. IInv /\ Counted(caller) => CountsBracketed
  <2> SUFFICES ASSUME IInv, Counted(caller), pc[caller] = "idle", NEW n \in Nodes
               PROVE  /\ Count(n, LivePages) <= used[n]
                      /\ used[n] <= Count(n, isUsed)
                      /\ used[n] <= peak[n]
                      /\ peak[n] <= NumBlocks
    BY DEF CountsBracketed, Count, LivePages
  <2>1. Lower(caller) = LivePages /\ Upper(caller) = isUsed
    BY DEF Lower, Upper, Charged, Pending
  <2> QED BY <2>1 DEF Counted, Bracketed, Peaked
<1> QED BY <1>1, <1>2, <1>3, Invariance, PTL DEF Spec
=============================================================================
