--------------------------- MODULE GpuAllocProofs ---------------------------
(***************************************************************************)
(* Proofs about GpuAlloc, for any number of threads, addresses and         *)
(* handles.  The invariant says who answers for each handle and each       *)
(* address at every moment: one thread, which has it in its locals, or     *)
(* g_gpu_allocs, never both and never nobody.                              *)
(***************************************************************************)
EXTENDS GpuAlloc, TLAPS

\* t is the one thread that will map, record or destroy its handle.
Grip(t) == pc[t] \in {"mapDumb", "mmap", "undo", "insert", "munmap", "destroy"}

\* t is at work on its address: about to record it, look it up or unmap it.
AtAddr(t) == pc[t] \in {"insert", "lookup", "munmap"}
Between(t) == pc[t] \in {"insert", "munmap"}

HandlesHeld ==
  /\ \A t \in Threads : Grip(t) => handle[t] \in handles
  /\ \A t, u \in Threads : t # u /\ Grip(t) /\ Grip(u) => handle[t] # handle[u]

Recorded ==
  \A a \in Addrs : allocs[a] # NoHandle =>
    /\ allocs[a] \in handles
    /\ mapped[a] = allocs[a]
    /\ \A b \in Addrs : allocs[b] = allocs[a] => b = a
    /\ \A t \in Threads : Grip(t) => handle[t] # allocs[a]

AddrsHeld ==
  /\ \A t \in Threads : AtAddr(t) => ptr[t] \in Addrs /\ ptr[t] \notin owned
  /\ \A t, u \in Threads : t # u /\ AtAddr(t) /\ AtAddr(u) => ptr[t] # ptr[u]
  /\ \A t \in Threads : Between(t) =>
       mapped[ptr[t]] = handle[t] /\ allocs[ptr[t]] = NoHandle
  /\ \A t \in Threads : pc[t] = "lookup" => allocs[ptr[t]] # NoHandle
  /\ \A a \in owned : allocs[a] # NoHandle

NoneLost ==
  /\ \A a \in Addrs : allocs[a] # NoHandle =>
       a \in owned \/ \E t \in Threads : pc[t] = "lookup" /\ ptr[t] = a
  /\ \A a \in Addrs : mapped[a] # NoHandle =>
       allocs[a] # NoHandle \/ \E t \in Threads : Between(t) /\ ptr[t] = a
  /\ \A h \in handles :
       \/ \E t \in Threads : Grip(t) /\ handle[t] = h
       \/ \E a \in Addrs : allocs[a] = h

\* A buffer is as long as the width it was created with.
Sized ==
  /\ \A t \in Threads : pc[t] \in {"mapDumb", "mmap", "insert"} =>
       length[handle[t]] = Width(size[t])
  /\ \A a \in owned : length[mapped[a]] = Width(asked[a])

GInv == TypeOK /\ HandlesHeld /\ Recorded /\ AddrsHeld /\ NoneLost /\ Sized

Stable == \A a \in owned \cap owned' : mapped'[a] = mapped[a] /\ mapped[a] \in handles'

-----------------------------------------------------------------------------
LEMMA Initially == Init => GInv
BY DEF Init, GInv, TypeOK, PCs, HandlesHeld, Recorded, AddrsHeld, NoneLost,
       Sized, Grip, AtAddr, Between

LEMMA WidthNat == ASSUME NEW n \in Nat PROVE Width(n) \in Nat
BY GpuAssumption DEF Width

LEMMA AllocCallStep ==
  ASSUME GInv, NEW t \in Threads, NEW n \in Sizes, AllocCall(t, n)
  PROVE  GInv' /\ Stable
<1> USE GpuAssumption DEF GInv, TypeOK, PCs, AllocCall, Goto
<1>1. TypeOK'
  OBVIOUS
<1>2. HandlesHeld'
  BY DEF HandlesHeld, Grip
<1>3. Recorded'
  BY DEF Recorded, Grip
<1>4. AddrsHeld'
  BY DEF AddrsHeld, AtAddr, Between
<1>5. NoneLost'
  BY DEF NoneLost, Grip, Between
<1>6. Sized'
  BY DEF Sized, HandlesHeld, Recorded, AddrsHeld, Grip, AtAddr
<1>7. Stable
  BY DEF Stable, AddrsHeld, Recorded
<1> QED BY <1>1, <1>2, <1>3, <1>4, <1>5, <1>6, <1>7

LEMMA CreateDumbStep ==
  ASSUME GInv, NEW t \in Threads, CreateDumb(t)
  PROVE  GInv' /\ Stable
<1> USE GpuAssumption DEF GInv, TypeOK, PCs, CreateDumb, Goto
<1>1. TypeOK'
  BY WidthNat
<1>2. HandlesHeld'
  BY DEF HandlesHeld, Grip
<1>3. Recorded'
  BY DEF Recorded, Grip
<1>4. AddrsHeld'
  BY DEF AddrsHeld, AtAddr, Between
<1>5. NoneLost'
  BY DEF NoneLost, Grip, Between
<1>6. Sized'
  BY DEF Sized, HandlesHeld, Recorded, AddrsHeld, Grip, AtAddr
<1>7. Stable
  BY DEF Stable, AddrsHeld, Recorded
<1> QED BY <1>1, <1>2, <1>3, <1>4, <1>5, <1>6, <1>7

LEMMA CreateFailsStep ==
  ASSUME GInv, NEW t \in Threads, CreateFails(t)
  PROVE  GInv' /\ Stable
<1> USE GpuAssumption DEF GInv, TypeOK, PCs, CreateFails, Goto, Return
<1>1. TypeOK'
  OBVIOUS
<1>2. HandlesHeld'
  BY DEF HandlesHeld, Grip
<1>3. Recorded'
  BY DEF Recorded, Grip
<1>4. AddrsHeld'
  BY DEF AddrsHeld, AtAddr, Between
<1>5. NoneLost'
  BY DEF NoneLost, Grip, Between
<1>6. Sized'
  BY DEF Sized, HandlesHeld, Recorded, AddrsHeld, Grip, AtAddr
<1>7. Stable
  BY DEF Stable, AddrsHeld, Recorded
<1> QED BY <1>1, <1>2, <1>3, <1>4, <1>5, <1>6, <1>7

LEMMA MapDumbStep ==
  ASSUME GInv, NEW t \in Threads, MapDumb(t)
  PROVE  GInv' /\ Stable
<1> USE GpuAssumption DEF GInv, TypeOK, PCs, MapDumb, Goto
<1>1. TypeOK'
  OBVIOUS
<1>2. HandlesHeld'
  BY DEF HandlesHeld, Grip
<1>3. Recorded'
  BY DEF Recorded, Grip
<1>4. AddrsHeld'
  BY DEF AddrsHeld, AtAddr, Between
<1>5. NoneLost'
  BY DEF NoneLost, Grip, Between
<1>6. Sized'
  BY DEF Sized, HandlesHeld, Recorded, AddrsHeld, Grip, AtAddr
<1>7. Stable
  BY DEF Stable, AddrsHeld, Recorded
<1> QED BY <1>1, <1>2, <1>3, <1>4, <1>5, <1>6, <1>7

LEMMA MmapStep ==
  ASSUME GInv, NEW t \in Threads, Mmap(t)
  PROVE  GInv' /\ Stable
<1> USE GpuAssumption DEF GInv, TypeOK, PCs, Mmap, Goto
<1>1. TypeOK'
  OBVIOUS
<1>2. HandlesHeld'
  BY DEF HandlesHeld, Grip
<1>3. Recorded'
  BY DEF Recorded, Grip
<1>4. AddrsHeld'
  <2>1. PICK a \in Addrs : /\ mapped[a] = NoHandle
                          /\ mapped' = [mapped EXCEPT ![a] = handle[t]]
                          /\ ptr' = [ptr EXCEPT ![t] = a]
    OBVIOUS
  <2>2. a \notin owned /\ allocs[a] = NoHandle
    BY <2>1 DEF Recorded, AddrsHeld
  <2>3. \A u \in Threads \ {t} : AtAddr(u) => ptr[u] # a
    BY <2>1, <2>2 DEF AddrsHeld, HandlesHeld, Grip, AtAddr, Between
  <2> QED BY <2>1, <2>2, <2>3 DEF AddrsHeld, AtAddr, Between
<1>5. NoneLost'
  BY DEF NoneLost, Grip, Between
<1>6. Sized'
  BY DEF Sized, HandlesHeld, Recorded, AddrsHeld, Grip, AtAddr
<1>7. Stable
  BY DEF Stable, AddrsHeld, Recorded
<1> QED BY <1>1, <1>2, <1>3, <1>4, <1>5, <1>6, <1>7

LEMMA MapFailsStep ==
  ASSUME GInv, NEW t \in Threads, MapFails(t)
  PROVE  GInv' /\ Stable
<1> USE GpuAssumption DEF GInv, TypeOK, PCs, MapFails, Goto, GiveBack
<1>1. TypeOK'
  OBVIOUS
<1>2. HandlesHeld'
  BY DEF HandlesHeld, Grip
<1>3. Recorded'
  BY DEF Recorded, Grip
<1>4. AddrsHeld'
  BY DEF AddrsHeld, AtAddr, Between
<1>5. NoneLost'
  BY DEF NoneLost, Grip, Between
<1>6. Sized'
  BY DEF Sized, HandlesHeld, Recorded, AddrsHeld, Grip, AtAddr
<1>7. Stable
  BY DEF Stable, AddrsHeld, Recorded
<1> QED BY <1>1, <1>2, <1>3, <1>4, <1>5, <1>6, <1>7

LEMMA UndoStep ==
  ASSUME GInv, NEW t \in Threads, Undo(t)
  PROVE  GInv' /\ Stable
<1> USE GpuAssumption DEF GInv, TypeOK, PCs, Undo, Goto, Return, Destroy
<1>1. TypeOK'
  OBVIOUS
<1>2. HandlesHeld'
  BY DEF HandlesHeld, Grip
<1>3. Recorded'
  BY DEF Recorded, Grip
<1>4. AddrsHeld'
  BY DEF AddrsHeld, AtAddr, Between
<1>5. NoneLost'
  BY DEF NoneLost, Grip, Between
<1>6. Sized'
  BY DEF Sized, HandlesHeld, Recorded, AddrsHeld, Grip, AtAddr
<1>7. Stable
  BY DEF Stable, AddrsHeld, Recorded, Grip
<1> QED BY <1>1, <1>2, <1>3, <1>4, <1>5, <1>6, <1>7

LEMMA InsertStep ==
  ASSUME GInv, NEW t \in Threads, Insert(t)
  PROVE  GInv' /\ Stable
<1> USE GpuAssumption DEF GInv, TypeOK, PCs, Insert, Goto, Return
<1>1. TypeOK'
  BY DEF AddrsHeld, AtAddr
<1>2. HandlesHeld'
  BY DEF HandlesHeld, Grip
<1>3. Recorded'
  BY DEF Recorded, Grip, HandlesHeld, AddrsHeld, Between
<1>4. AddrsHeld'
  <2>1. handle[t] # NoHandle /\ ptr[t] \in Addrs
    BY DEF HandlesHeld, AddrsHeld, Grip, AtAddr
  <2>2. \A u \in Threads \ {t} : AtAddr(u) => ptr[u] # ptr[t]
    BY DEF AddrsHeld, AtAddr
  <2> QED BY <2>1, <2>2 DEF AddrsHeld, AtAddr, Between
<1>5. NoneLost'
  BY DEF NoneLost, Grip, Between, AddrsHeld, AtAddr
<1>6. Sized'
  <2>1. ptr[t] \in Addrs /\ ptr[t] \notin owned /\ mapped[ptr[t]] = handle[t]
    BY DEF AddrsHeld, AtAddr, Between
  <2>2. length[mapped[ptr[t]]] = Width(size[t])
    BY <2>1 DEF Sized
  <2>3. asked'[ptr[t]] = size[t] /\ \A a \in owned : asked'[a] = asked[a]
    BY <2>1
  <2>4. \A a \in owned' : length'[mapped'[a]] = Width(asked'[a])
    BY <2>2, <2>3 DEF Sized
  <2> QED BY <2>4 DEF Sized
<1>7. Stable
  BY DEF Stable, AddrsHeld, Recorded
<1> QED BY <1>1, <1>2, <1>3, <1>4, <1>5, <1>6, <1>7

LEMMA FreeCallStep ==
  ASSUME GInv, NEW t \in Threads, NEW x \in Addrs, FreeCall(t, x)
  PROVE  GInv' /\ Stable
<1> USE GpuAssumption DEF GInv, TypeOK, PCs, FreeCall, Goto, FreeNext
<1>1. TypeOK'
  OBVIOUS
<1>2. HandlesHeld'
  BY DEF HandlesHeld, Grip
<1>3. Recorded'
  BY DEF Recorded, Grip
<1>4. AddrsHeld'
  BY DEF AddrsHeld, AtAddr, Between
<1>5. NoneLost'
  BY DEF NoneLost, Grip, Between
<1>6. Sized'
  BY DEF Sized, HandlesHeld, Recorded, AddrsHeld, Grip, AtAddr
<1>7. Stable
  BY DEF Stable, AddrsHeld, Recorded
<1> QED BY <1>1, <1>2, <1>3, <1>4, <1>5, <1>6, <1>7

LEMMA LookupStep ==
  ASSUME GInv, NEW t \in Threads, Lookup(t)
  PROVE  GInv' /\ Stable
<1> USE GpuAssumption DEF GInv, TypeOK, PCs, Lookup, Goto, Return, FreeNext
<1>1. TypeOK'
  BY DEF AddrsHeld, AtAddr
<1>2. HandlesHeld'
  BY DEF HandlesHeld, Grip, AddrsHeld, Recorded, AtAddr
<1>3. Recorded'
  BY DEF Recorded, Grip, AddrsHeld, AtAddr
<1>4. AddrsHeld'
  BY DEF AddrsHeld, AtAddr, Between, Recorded
<1>5. NoneLost'
  BY DEF NoneLost, Grip, Between
<1>6. Sized'
  BY DEF Sized, HandlesHeld, Recorded, AddrsHeld, Grip, AtAddr
<1>7. Stable
  BY DEF Stable, AddrsHeld, Recorded
<1> QED BY <1>1, <1>2, <1>3, <1>4, <1>5, <1>6, <1>7

LEMMA MunmapStep ==
  ASSUME GInv, NEW t \in Threads, Munmap(t)
  PROVE  GInv' /\ Stable
<1> USE GpuAssumption DEF GInv, TypeOK, PCs, Munmap, Goto, FreeNext
<1>1. TypeOK'
  OBVIOUS
<1>2. HandlesHeld'
  BY DEF HandlesHeld, Grip
<1>3. Recorded'
  BY DEF Recorded, Grip, AddrsHeld, Between
<1>4. AddrsHeld'
  BY DEF AddrsHeld, AtAddr, Between
<1>5. NoneLost'
  BY DEF NoneLost, Grip, Between
<1>6. Sized'
  BY DEF Sized, HandlesHeld, Recorded, AddrsHeld, Grip, AtAddr
<1>7. Stable
  BY DEF Stable, AddrsHeld, Recorded, AtAddr
<1> QED BY <1>1, <1>2, <1>3, <1>4, <1>5, <1>6, <1>7

LEMMA DestroyDumbStep ==
  ASSUME GInv, NEW t \in Threads, DestroyDumb(t)
  PROVE  GInv' /\ Stable
<1> USE GpuAssumption DEF GInv, TypeOK, PCs, DestroyDumb, Goto, Return, Destroy
<1>1. TypeOK'
  OBVIOUS
<1>2. HandlesHeld'
  BY DEF HandlesHeld, Grip
<1>3. Recorded'
  BY DEF Recorded, Grip
<1>4. AddrsHeld'
  BY DEF AddrsHeld, AtAddr, Between
<1>5. NoneLost'
  BY DEF NoneLost, Grip, Between
<1>6. Sized'
  BY DEF Sized, HandlesHeld, Recorded, AddrsHeld, Grip, AtAddr
<1>7. Stable
  BY DEF Stable, AddrsHeld, Recorded, Grip
<1> QED BY <1>1, <1>2, <1>3, <1>4, <1>5, <1>6, <1>7

LEMMA NextKeeps == GInv /\ [Next]_vars => GInv' /\ (Next => Stable)
<1> SUFFICES ASSUME GInv, [Next]_vars PROVE GInv' /\ (Next => Stable)
  OBVIOUS
<1>1. CASE Next
  <2>1. PICK t \in Threads : Alloc(t) \/ Free(t)
    BY <1>1 DEF Next
  <2>2. CASE Alloc(t)
    BY <2>2, AllocCallStep, CreateDumbStep, CreateFailsStep, MapDumbStep,
       MmapStep, MapFailsStep, UndoStep, InsertStep DEF Alloc
  <2>3. CASE Free(t)
    BY <2>3, FreeCallStep, LookupStep, MunmapStep, DestroyDumbStep DEF Free
  <2> QED BY <2>1, <2>2, <2>3
<1>2. CASE UNCHANGED vars
  <2>1. GInv'
    BY <1>2 DEF vars, GInv, TypeOK, HandlesHeld, Recorded, AddrsHeld, NoneLost,
                Sized, Grip, AtAddr, Between
  <2>2. Stable
    BY <1>2 DEF vars, Stable, GInv, AddrsHeld, Recorded, TypeOK
  <2> QED BY <2>1, <2>2
<1> QED BY <1>1, <1>2

LEMMA Invariance == Spec => []GInv
BY Initially, NextKeeps, PTL DEF Spec

-----------------------------------------------------------------------------
\* Every variable stays in its range.
THEOREM TypeCorrect == Spec => []TypeOK
BY Invariance, PTL DEF GInv

\* Every buffer in a caller's hands is mapped, with the open handle that
\* g_gpu_allocs records for it, and shares that handle with no other.
THEOREM OwnedAreBacked == Spec => []OwnedBacked
<1>1. GInv => OwnedBacked
  BY DEF GInv, TypeOK, AddrsHeld, Recorded, OwnedBacked
<1> QED BY <1>1, Invariance, PTL

\* A live buffer keeps its memory whatever the other threads do.
THEOREM OwnedAreStable == Spec => OwnedStable
<1>1. GInv /\ [Next]_vars => [Stable]_vars
  BY NextKeeps
<1> QED BY <1>1, Invariance, PTL DEF Spec, OwnedStable, Stable

\* Between calls the kernel holds exactly the live buffers: no path through
\* kbx_mem_gpu_alloc and kbx_mem_gpu_free leaks a handle or a mapping.
THEOREM NothingLeaks == Spec => []AtRest
<1>1. GInv => AtRest
  <2> SUFFICES ASSUME GInv, \A t \in Threads : pc[t] = "idle"
               PROVE  /\ {a \in Addrs : allocs[a] # NoHandle} = owned
                      /\ {a \in Addrs : mapped[a] # NoHandle} = owned
                      /\ handles = {mapped[a] : a \in owned}
    BY DEF AtRest
  <2> USE GpuAssumption DEF GInv, TypeOK
  <2>1. \A a \in Addrs : allocs[a] # NoHandle <=> a \in owned
    BY DEF AddrsHeld, NoneLost
  <2>2. \A a \in Addrs : mapped[a] # NoHandle <=> a \in owned
    BY <2>1 DEF Recorded, NoneLost, Between
  <2>3. \A h \in handles : \E a \in owned : mapped[a] = h
    BY <2>1 DEF Recorded, NoneLost, Grip
  <2>4. \A a \in owned : mapped[a] \in handles
    BY <2>1 DEF Recorded
  <2> QED BY <2>1, <2>2, <2>3, <2>4
<1> QED BY <1>1, Invariance, PTL
\* A live buffer has the length that was asked for exactly if that fits a dumb
\* buffer's width, whichever buffers come and go on its handle before and after.
THEOREM LengthsAreKept == Spec => []LongEnoughUnlessCut
<1>1. ASSUME NEW n \in Nat PROVE Width(n) >= n <=> n < WidthMod
  BY GpuAssumption DEF Width
<1>2. GInv => LongEnoughUnlessCut
  BY <1>1 DEF GInv, TypeOK, Sized, LongEnoughUnlessCut
<1> QED BY <1>2, Invariance, PTL
=============================================================================
