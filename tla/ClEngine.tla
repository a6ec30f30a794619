------------------------------ MODULE ClEngine ------------------------------
(***************************************************************************)
(* The OpenCL engine (src/src/compute/lo_engine.cc): kbx_cl_init,          *)
(* kbx_cl_load_kernels, kbx_cl_import_dmabuf, kbx_cl_convert_nv12_to_rgb,  *)
(* called one after the other by one thread, any of which may fail.        *)
(*                                                                         *)
(* The OpenCL runtime is external: object says which objects exist, and a  *)
(* handle is given out again once its object has been released.  Scratch   *)
(* memory comes from kbx_mem_alloc, of which the engine relies on what     *)
(* PageAllocator promises (CpuPool implements it): pages holds the         *)
(* allocations the engine has.                                             *)
(*                                                                         *)
(* A client ignores what kbx_cl_init returns, as main.cc does, and calls   *)
(* it again only while there is no context: a second success would leave   *)
(* the first context behind.  It passes to convert only buffers that       *)
(* exist, of images whose bytes an int can count (see Nv12).               *)
(*                                                                         *)
(* Left out: calls refused at once for their arguments, the texts that are *)
(* logged, and what a kernel is compiled from.  Left out of Import is the  *)
(* query of the device's extensions (lines 207-236): the answer is printed *)
(* and no state depends on it, but it is read into exts, of 1024 bytes,    *)
(* whatever its length, and exts[ext_size] is written behind it.  Imports  *)
(* that fail return before anything has changed.                           *)
(***************************************************************************)
EXTENDS PageExtents, Nv12, Sequences

CONSTANTS
  Objects,      \* the handles the OpenCL runtime may give out
  None,         \* a handle that is NULL
  Garbage,      \* what an uninitialised field holds
  Zeroed,       \* does the client zero its kbx_cl_ctx?  main.cc does not
  MaxDevices,   \* bound: how many devices a machine has
  SourcePages,  \* the lengths of a source or a build log, in pages
  Sides         \* the widths and heights of images

ASSUME EngineAssumption ==
  /\ None \notin Objects /\ Garbage \notin Objects /\ Garbage # None
  /\ Zeroed \in BOOLEAN
  /\ MaxDevices \in Nat
  /\ SourcePages \subseteq 1 .. NumBlocks
  /\ Sides \subseteq Nat \ {0}

VARIABLES
  object,       \* OpenCL: what each handle stands for, or "free"
  pages,        \* the allocations the engine has from kbx_mem_alloc
  ctx,          \* the caller's kbx_cl_ctx
  managed,      \* ctx->mem_manager is set
  pc,           \* the next step of the call in progress
  machine,      \* locals of init: the devices, platform by platform,
  next,         \*   the one to look at next,
  best,         \*   the best one so far (0: none),
  fresh,        \* locals: an object not yet stored in ctx, or the event,
  source, log,  \*   the allocations of load_kernels,
  job           \*   the size of the image being converted

locals == <<machine, next, best, fresh, source, log, job>>
vars   == <<object, pages, ctx, managed, pc, locals>>

Pool == INSTANCE PageAllocator WITH live <- pages

Kinds   == {"context", "queue", "program", "built", "kernel", "image", "event"}
Devices == [intel : BOOLEAN, type : {"gpu", "accelerator", "cpu", "other"}]
NoPages == {}
NoJob   == [w |-> 0, h |-> 0]
Unset(x) == [context |-> x, queue |-> x, program |-> x, kernel |-> x, image |-> x]

Before == IF Zeroed THEN None ELSE Garbage

Init ==
  /\ object = [o \in Objects |-> "free"] /\ pages = {}
  /\ ctx = Unset(Before) /\ managed = FALSE
  /\ pc = "idle"
  /\ machine = <<>> /\ next = 1 /\ best = 0
  /\ fresh = None /\ source = NoPages /\ log = NoPages /\ job = NoJob

Is(o, kind) == o \in Objects /\ object[o] = kind
Create(o, kind) == object[o] = "free" /\ object' = [object EXCEPT ![o] = kind]
Without(o) == [x \in Objects |-> IF x = o THEN "free" ELSE object[x]]

Return ==
  /\ pc' = "idle"
  /\ machine' = <<>> /\ next' = 1 /\ best' = 0
  /\ fresh' = None /\ source' = NoPages /\ log' = NoPages /\ job' = NoJob

(***************************************************************************)
(* kbx_cl_init.                                                            *)
(***************************************************************************)
Score(d) ==
  CASE d.type = "gpu" -> IF d.intel THEN 100 ELSE 50
    [] d.type = "accelerator" -> 20
    [] d.type = "cpu" -> 10
    [] OTHER -> 0
BestScore == IF best = 0 THEN -1 ELSE Score(machine[best])

\* Platforms without a device contribute nothing.
InitCall ==
  /\ pc = "idle"
  /\ ~ Is(ctx.context, "context")
  /\ managed' = TRUE
  /\ \E n \in 0 .. MaxDevices : machine' \in [1 .. n -> Devices]
  /\ pc' = "pick"
  /\ UNCHANGED <<object, pages, ctx, next, best, fresh, source, log, job>>

BetterOrEqual == Score(machine[next]) >= BestScore        \* fault: the last of equals
Better == Score(machine[next]) > BestScore

Consider ==
  /\ pc = "pick"
  /\ next <= Len(machine)
  /\ best' = IF Better THEN next ELSE best
  /\ next' = next + 1
  /\ UNCHANGED <<object, pages, ctx, managed, pc, machine, fresh, source, log, job>>

Picked ==
  /\ pc = "pick"
  /\ next > Len(machine)
  /\ IF best = 0 THEN Return ELSE pc' = "context" /\ UNCHANGED locals
  /\ UNCHANGED <<object, pages, ctx, managed>>

CreateContext ==
  /\ pc = "context"
  /\ \/ \E o \in Objects :
          /\ Create(o, "context")
          /\ fresh' = o
          /\ pc' = "queue"
          /\ UNCHANGED <<machine, next, best, source, log, job>>
     \/ Return /\ UNCHANGED object
  /\ UNCHANGED <<pages, ctx, managed>>

\* An out-of-order queue, or, if that is refused, an in-order one.
CreateQueue ==
  /\ pc \in {"queue", "fallback"}
  /\ \E o \in Objects :
       /\ Create(o, "queue")
       /\ ctx' = [ctx EXCEPT !.context = fresh, !.queue = o]
  /\ Return
  /\ UNCHANGED <<pages, managed>>

TryInOrder ==
  /\ pc = "queue"
  /\ pc' = "fallback"
  /\ UNCHANGED <<object, pages, ctx, managed, locals>>

QueueFails ==
  /\ pc = "fallback"
  /\ object' = Without(fresh)
  /\ Return
  /\ UNCHANGED <<pages, ctx, managed>>

(***************************************************************************)
(* kbx_cl_load_kernels.                                                    *)
(***************************************************************************)
LoadCall(n) ==
  /\ pc = "idle"
  /\ managed
  /\ \E e \in Extents : e.len = n /\ Pool!Grant(e) /\ source' = {e}
  /\ pc' = "create"
  /\ UNCHANGED <<object, ctx, managed, machine, next, best, fresh, log, job>>

\* The program needs the context of a successful init.
CreateProgram ==
  /\ pc = "create"
  /\ Is(ctx.context, "context")
  /\ \E o \in Objects :
       /\ Create(o, "program")
       /\ ctx' = [ctx EXCEPT !.program = o]
  /\ pc' = "build"
  /\ UNCHANGED <<pages, managed, locals>>

CreateFails ==
  /\ pc = "create"
  /\ ctx' = [ctx EXCEPT !.program = None]
  /\ pages' = pages \ source
  /\ Return
  /\ UNCHANGED <<object, managed>>

BuildFreesEarly ==              \* fault: source_mem is freed before the log is read
  /\ pc = "build"
  /\ \/ pc' = "kernel" /\ object' = [object EXCEPT ![ctx.program] = "built"] /\ UNCHANGED pages
     \/ pc' = "log" /\ pages' = pages \ source /\ UNCHANGED object
  /\ UNCHANGED <<ctx, managed, locals>>
Build ==
  /\ pc = "build"
  /\ \/ pc' = "kernel" /\ object' = [object EXCEPT ![ctx.program] = "built"]
     \/ pc' = "log" /\ UNCHANGED object
  /\ UNCHANGED <<pages, ctx, managed, locals>>

\* The build log, if there is memory for it.
GetLog(n) ==
  /\ pc = "log"
  /\ \/ /\ \E e \in Extents : e.len = n /\ Pool!Grant(e) /\ log' = {e}
        /\ pc' = "printed"
     \/ pc' = "printed" /\ UNCHANGED <<pages, log>>
  /\ UNCHANGED <<object, ctx, managed, machine, next, best, fresh, source, job>>

BuildFailsLogKept ==            \* fault: the log is not freed
  /\ pc = "printed"
  /\ pages' = pages \ source
  /\ object' = Without(ctx.program)
  /\ ctx' = [ctx EXCEPT !.program = None]
  /\ Return
  /\ UNCHANGED managed
BuildFails ==
  /\ pc = "printed"
  /\ pages' = pages \ (source \cup log)
  /\ object' = Without(ctx.program)
  /\ ctx' = [ctx EXCEPT !.program = None]
  /\ Return
  /\ UNCHANGED managed

\* A kernel that cannot be created is logged, and the call succeeds all the
\* same.  The program and the kernel of an earlier load are not released.
CreateKernel ==
  /\ pc = "kernel"
  /\ \/ \E o \in Objects :
          Create(o, "kernel") /\ ctx' = [ctx EXCEPT !.kernel = o]
     \/ ctx' = [ctx EXCEPT !.kernel = None] /\ UNCHANGED object
  /\ pages' = pages \ source
  /\ Return
  /\ UNCHANGED managed

(***************************************************************************)
(* kbx_cl_import_dmabuf.                                                   *)
(***************************************************************************)
Import ==
  /\ pc = "idle"
  /\ Is(ctx.context, "context")
  /\ \E o \in Objects : Create(o, "image") /\ fresh' = o
  /\ pc' = "swap"
  /\ UNCHANGED <<pages, ctx, managed, machine, next, best, source, log, job>>

\* What is released of the image imported before, if there is one.
ReleasedImported == fresh       \* fault: the new image is released
Released == ctx.image
SwapImage ==
  /\ pc = "swap"
  /\ object' = Without(Released)
  /\ ctx' = [ctx EXCEPT !.image = fresh]
  /\ Return
  /\ UNCHANGED <<pages, managed>>

(***************************************************************************)
(* kbx_cl_convert_nv12_to_rgb.                                             *)
(***************************************************************************)
KernelTestDropped == TRUE       \* fault: there need not be a kernel
KernelTest == ctx.kernel # None

ConvertCall(w, h) ==
  /\ pc = "idle"
  /\ KernelTest
  /\ job' = [w |-> w, h |-> h]
  /\ pc' = "enqueue"
  /\ UNCHANGED <<object, pages, ctx, managed, machine, next, best, fresh, source, log>>

Enqueue ==
  /\ pc = "enqueue"
  /\ \/ /\ \E o \in Objects : Create(o, "event") /\ fresh' = o
        /\ pc' = "finish"
        /\ UNCHANGED <<machine, next, best, source, log, job>>
     \/ Return /\ UNCHANGED object
  /\ UNCHANGED <<pages, ctx, managed>>

\* When clFinish fails the event is not released.
Finish ==
  /\ pc = "finish"
  /\ object' \in {Without(fresh), object}
  /\ Return
  /\ UNCHANGED <<pages, ctx, managed>>

-----------------------------------------------------------------------------
Next ==
  \/ InitCall \/ Consider \/ Picked \/ CreateContext \/ CreateQueue \/ TryInOrder
  \/ QueueFails
  \/ \E n \in SourcePages : LoadCall(n) \/ GetLog(n)
  \/ CreateProgram \/ CreateFails \/ Build \/ BuildFails \/ CreateKernel
  \/ Import \/ SwapImage
  \/ \E w, h \in Sides : ConvertCall(w, h)
  \/ Enqueue \/ Finish

Spec == Init /\ [][Next]_vars
-----------------------------------------------------------------------------
(***************************************************************************)
(* Properties.                                                             *)
(***************************************************************************)
Handles == Objects \cup {None}

TypeOK ==
  /\ object \in [Objects -> Kinds \cup {"free"}]
  /\ pages \subseteq Extents
  /\ ctx \in [context : Handles, queue : Handles, program : Handles,
             kernel : Handles, image : Handles]
  /\ managed \in BOOLEAN
  /\ pc \in {"idle", "pick", "context", "queue", "fallback", "create", "build",
             "log", "printed", "kernel", "swap", "enqueue", "finish"}
  /\ machine \in Seq(Devices) /\ Len(machine) <= MaxDevices
  /\ next \in 1 .. MaxDevices + 1 /\ best \in 0 .. MaxDevices
  /\ fresh \in Handles
  /\ source \subseteq pages /\ log \subseteq pages
  /\ job \in [w : Nat, h : Nat]

\* The device kbx_cl_init settles on: none of the machine's scores higher, and
\* of those that score as high it is the first.
PicksBest ==
  pc \in {"context", "queue", "fallback"} =>
    /\ best \in DOMAIN machine
    /\ \A d \in DOMAIN machine :
         /\ Score(machine[d]) <= Score(machine[best])
         /\ d < best => Score(machine[d]) < Score(machine[best])

\* No field of the context points to an object that is gone or is of another
\* kind, whatever failed and however often sources were loaded and buffers
\* imported, and what a conversion hands to OpenCL is a kernel: after a load
\* that could create none, and before any load, nothing is enqueued.
FieldsLive ==
  /\ ctx.context # None => Is(ctx.context, "context")
  /\ ctx.queue # None => Is(ctx.queue, "queue")
  /\ ctx.program # None => Is(ctx.program, "program") \/ Is(ctx.program, "built")
  /\ ctx.kernel # None => Is(ctx.kernel, "kernel")
  /\ ctx.image # None => Is(ctx.image, "image")
NothingDangles ==
  FieldsLive /\ (pc \in {"enqueue", "finish"} => Is(ctx.kernel, "kernel"))

\* When a call returns the engine has no scratch memory, and of the contexts,
\* queues, images and programs that were not built only those in the context
\* are left.
Tidy ==
  /\ pages = {}
  /\ \A o \in Objects :
       /\ object[o] = "context" => o = ctx.context
       /\ object[o] = "queue" => o = ctx.queue
       /\ object[o] = "image" => o = ctx.image
       /\ object[o] # "program"

\* What the engine can still get at, and what it may lose hold of without
\* releasing it: the program and the kernel of an earlier load, when a later
\* one overwrites them or fails, and the event of a clFinish that fails.
Held == {ctx.context, ctx.queue, ctx.program, ctx.kernel, ctx.image, fresh}
MayBeLost(o) ==
  \/ pc = "create" /\ o = ctx.program /\ Is(o, "built")
  \/ pc = "kernel" /\ o = ctx.kernel
  \/ pc = "finish" /\ o = fresh

\* Every return of a call, of one that fails too, is tidy, and no step loses
\* hold of an object it does not release, those of MayBeLost excepted.
LeavesNothing ==
  [][/\ pc' = "idle" => Tidy'
     /\ \A o \in (Held \ Held') \cap Objects : object'[o] = "free" \/ MayBeLost(o)]_vars

\* What is enqueued for an image touches what ManualNV12ToRGB touches, writes
\* every byte of the result once, and reads bytes outside the planes exactly if
\* one of the image's sides is odd, which kbx_cl_convert_nv12_to_rgb accepts.
Running == pc = "finish"
ConvertsLikeManual == Running => KernelIsManual(job.w, job.h)
ConvertsEachOnce   == Running => WritesEachOnce(job.w, job.h)
ReadsInPlanes      == Running => ReadsPlanes(job.w, job.h)
=============================================================================
