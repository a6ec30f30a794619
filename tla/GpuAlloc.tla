------------------------------ MODULE GpuAlloc ------------------------------
(***************************************************************************)
(* kbx_mem_gpu_alloc and kbx_mem_gpu_free (src/src/mem/mem_pool.cc): GPU   *)
(* buffers as DRM dumb buffers, called by any number of threads.           *)
(*                                                                         *)
(* A buffer is a kernel handle plus a mapping of it into the process.      *)
(* g_gpu_allocs remembers which handle is behind which address; its mutex  *)
(* protects the map alone, so the ioctls and the mmap of one thread        *)
(* interleave with those of the others.  The kernel gives out addresses    *)
(* and handles again as soon as they have been given back, which is why    *)
(* the order of the steps of free matters.                                 *)
(*                                                                         *)
(* The DRM device and the address space are the kernel's: handles, length  *)
(* and mapped below, modelled from how this code uses them.  The size of a *)
(* request is a size_t, the width of a dumb buffer has 32 bits; a buffer   *)
(* is mapped and unmapped with the length the device reports, which is the *)
(* one g_gpu_allocs records beside the handle.  Left out: that the device  *)
(* rounds lengths up to pages, and the calls that change nothing (no       *)
(* device, a NULL pointer, a pointer that is not in g_gpu_allocs).         *)
(***************************************************************************)
EXTENDS Naturals

CONSTANTS
  Threads,
  Addrs,       \* the addresses mmap may return
  Handles,     \* the handles CREATE_DUMB may return
  NoHandle,    \* handle 0, which the kernel never returns
  NoAddr,      \* NULL
  Sizes,       \* the sizes asked for
  WidthMod     \* one more than the largest create_dumb.width

ASSUME GpuAssumption ==
  /\ NoHandle \notin Handles
  /\ NoAddr \notin Addrs
  /\ Sizes \subseteq Nat
  /\ WidthMod \in Nat \ {0}

VARIABLES
  handles,     \* kernel: the handles open on drm_fd
  length,      \* kernel: how long the buffer of a handle is
  mapped,      \* kernel: the handle whose buffer is mapped at an address
  allocs,      \* g_gpu_allocs: the handle recorded for an address
  owned,       \* the addresses returned to a caller and not passed to free
  asked,       \* the sizes those were asked for with
  pc,          \* per thread: the next step of its call
  size,        \* its argument
  handle,      \* its local: create_dumb.handle, or the handle found by free
  ptr          \* its local: the address

vars == <<handles, length, mapped, allocs, owned, asked, pc, size, handle, ptr>>

PCs == {"idle", "create", "mapDumb", "mmap", "undo", "insert",
        "lookup", "munmap", "destroy"}

Init ==
  /\ handles = {}
  /\ length = [h \in Handles |-> 0]
  /\ mapped = [a \in Addrs |-> NoHandle]
  /\ allocs = [a \in Addrs |-> NoHandle]
  /\ owned  = {}
  /\ asked  = [a \in Addrs |-> 0]
  /\ pc     = [t \in Threads |-> "idle"]
  /\ size   = [t \in Threads |-> 0]
  /\ handle = [t \in Threads |-> NoHandle]
  /\ ptr    = [t \in Threads |-> NoAddr]

Goto(t, label) == pc' = [pc EXCEPT ![t] = label]

Return(t) ==
  /\ Goto(t, "idle")
  /\ size' = [size EXCEPT ![t] = 0]
  /\ handle' = [handle EXCEPT ![t] = NoHandle]
  /\ ptr' = [ptr EXCEPT ![t] = NoAddr]

\* The step after a failing MAP_DUMB or mmap: the handle goes back first.
GiveBackNothing == "idle"                         \* fault: return NULL at once
GiveBack == "undo"

\* What the steps of free are followed by.
FreeNextUnmapFirst ==                             \* fault: munmap, then lookup
  [call |-> "munmap", munmap |-> "lookup", lookup |-> "destroy"]
FreeNext == [call |-> "lookup", lookup |-> "munmap", munmap |-> "destroy"]

\* create_dumb.width = size; a pixel has 8 bits and there is one row of them.
WidthInWords(n) == (n \div 4) % WidthMod          \* fault: 32 bits to a pixel
Width(n) == n % WidthMod

\* DESTROY_DUMB.
Destroy(h) ==
  /\ handles' = handles \ {h}
  /\ length' = [length EXCEPT ![h] = 0]

(***************************************************************************)
(* kbx_mem_gpu_alloc.                                                      *)
(***************************************************************************)
AllocCall(t, n) ==
  /\ pc[t] = "idle"
  /\ Goto(t, "create")
  /\ size' = [size EXCEPT ![t] = n]
  /\ UNCHANGED <<handles, length, mapped, allocs, owned, asked, handle, ptr>>

\* A buffer without pixels is refused.
CreateDumb(t) ==
  /\ pc[t] = "create"
  /\ Width(size[t]) > 0
  /\ \E h \in Handles \ handles :
       /\ handles' = handles \cup {h}
       /\ length' = [length EXCEPT ![h] = Width(size[t])]
       /\ handle' = [handle EXCEPT ![t] = h]
  /\ Goto(t, "mapDumb")
  /\ UNCHANGED <<mapped, allocs, owned, asked, size, ptr>>

\* The device refuses.
CreateFails(t) ==
  /\ pc[t] = "create"
  /\ Return(t)
  /\ UNCHANGED <<handles, length, mapped, allocs, owned, asked>>

MapDumb(t) ==
  /\ pc[t] = "mapDumb"
  /\ Goto(t, "mmap")
  /\ UNCHANGED <<handles, length, mapped, allocs, owned, asked, size, handle, ptr>>

Mmap(t) ==
  /\ pc[t] = "mmap"
  /\ \E a \in {b \in Addrs : mapped[b] = NoHandle} :
       /\ mapped' = [mapped EXCEPT ![a] = handle[t]]
       /\ ptr' = [ptr EXCEPT ![t] = a]
  /\ Goto(t, "insert")
  /\ UNCHANGED <<handles, length, allocs, owned, asked, size, handle>>

MapFails(t) ==
  /\ pc[t] \in {"mapDumb", "mmap"}
  /\ Goto(t, GiveBack)
  /\ UNCHANGED <<handles, length, mapped, allocs, owned, asked, size, handle, ptr>>

\* The error path, and NULL is returned.
Undo(t) ==
  /\ pc[t] = "undo"
  /\ Destroy(handle[t])
  /\ Return(t)
  /\ UNCHANGED <<mapped, allocs, owned, asked>>

\* g_gpu_allocs[ptr] = handle under the mutex, and ptr is returned.
InsertSwapped(t) ==                               \* fault: the pair the wrong way round
  /\ pc[t] = "insert"
  /\ allocs' = [allocs EXCEPT ![ptr[t]] = ptr[t]]
  /\ owned' = owned \cup {ptr[t]}
  /\ asked' = [asked EXCEPT ![ptr[t]] = size[t]]
  /\ Return(t)
  /\ UNCHANGED <<handles, length, mapped>>
Insert(t) ==
  /\ pc[t] = "insert"
  /\ allocs' = [allocs EXCEPT ![ptr[t]] = handle[t]]
  /\ owned' = owned \cup {ptr[t]}
  /\ asked' = [asked EXCEPT ![ptr[t]] = size[t]]
  /\ Return(t)
  /\ UNCHANGED <<handles, length, mapped>>

(***************************************************************************)
(* kbx_mem_gpu_free(ptr).  Only a live buffer is passed to free, and only  *)
(* once; from then on it is no longer the caller's.                        *)
(***************************************************************************)
FreeCall(t, a) ==
  /\ pc[t] = "idle"
  /\ a \in owned
  /\ owned' = owned \ {a}
  /\ asked' = [asked EXCEPT ![a] = 0]
  /\ ptr' = [ptr EXCEPT ![t] = a]
  /\ Goto(t, FreeNext.call)
  /\ UNCHANGED <<handles, length, mapped, allocs, size, handle>>

\* find and erase under the mutex; without an entry there is nothing to free.
Lookup(t) ==
  /\ pc[t] = "lookup"
  /\ allocs' = [allocs EXCEPT ![ptr[t]] = NoHandle]
  /\ IF allocs[ptr[t]] = NoHandle
       THEN Return(t)
       ELSE /\ handle' = [handle EXCEPT ![t] = allocs[ptr[t]]]
            /\ Goto(t, FreeNext.lookup)
            /\ UNCHANGED <<size, ptr>>
  /\ UNCHANGED <<handles, length, mapped, owned, asked>>

Munmap(t) ==
  /\ pc[t] = "munmap"
  /\ mapped' = [mapped EXCEPT ![ptr[t]] = NoHandle]
  /\ Goto(t, FreeNext.munmap)
  /\ UNCHANGED <<handles, length, allocs, owned, asked, size, handle, ptr>>

DestroyDumb(t) ==
  /\ pc[t] = "destroy"
  /\ Destroy(handle[t])
  /\ Return(t)
  /\ UNCHANGED <<mapped, allocs, owned, asked>>

-----------------------------------------------------------------------------
Alloc(t) == \/ \E n \in Sizes : AllocCall(t, n)
            \/ CreateDumb(t) \/ CreateFails(t) \/ MapDumb(t)
            \/ Mmap(t) \/ MapFails(t) \/ Undo(t) \/ Insert(t)
Free(t)  == \/ \E a \in Addrs : FreeCall(t, a)
            \/ Lookup(t) \/ Munmap(t) \/ DestroyDumb(t)

Next == \E t \in Threads : Alloc(t) \/ Free(t)
Spec == Init /\ [][Next]_vars
-----------------------------------------------------------------------------
(***************************************************************************)
(* Properties.                                                             *)
(***************************************************************************)
TypeOK ==
  /\ handles \subseteq Handles
  /\ length \in [Handles -> Nat]
  /\ mapped \in [Addrs -> Handles \cup {NoHandle}]
  /\ allocs \in [Addrs -> Handles \cup {NoHandle}]
  /\ owned \subseteq Addrs
  /\ asked \in [Addrs -> Nat]
  /\ pc     \in [Threads -> PCs]
  /\ size   \in [Threads -> Nat]
  /\ handle \in [Threads -> Handles \cup {NoHandle}]
  /\ ptr    \in [Threads -> Addrs \cup {NoAddr}]

\* Every buffer in a caller's hands is mapped, with the handle g_gpu_allocs
\* records for it, and that handle is open and backs no second buffer.
OwnedBacked ==
  \A a \in owned :
    /\ allocs[a] = mapped[a]
    /\ mapped[a] \in handles
    /\ \A b \in owned : mapped[b] = mapped[a] => b = a

\* From grant to free a buffer keeps its memory, whatever the other threads
\* allocate and free: no free of another buffer unmaps it, maps something
\* else in its place or destroys its handle.
OwnedStable ==
  [][\A a \in owned \cap owned' : mapped'[a] = mapped[a] /\ mapped[a] \in handles']_vars

\* When no call is in progress the kernel holds exactly the live buffers: no
\* failure and no interleaving has leaked a handle, a mapping or an entry.
AtRest ==
  (\A t \in Threads : pc[t] = "idle") =>
    /\ {a \in Addrs : allocs[a] # NoHandle} = owned
    /\ {a \in Addrs : mapped[a] # NoHandle} = owned
    /\ handles = {mapped[a] : a \in owned}

\* A buffer in a caller's hands is as long as was asked for exactly if the size
\* fits the width of a dumb buffer: a larger size is cut off in silence.
LongEnoughUnlessCut ==
  \A a \in owned : length[mapped[a]] >= asked[a] <=> asked[a] < WidthMod
=============================================================================
