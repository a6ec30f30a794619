# TLA+ models of the KBX userspace runtime

KBX is a small C++ runtime that moves camera frames to the GPU: memory
allocators and a task ring (`src/src/mem`), a V4L2 camera (`src/src/io`), an
OpenCL engine (`src/src/compute`, `src/src/kernels`) and a Vulkan context
(`src/src/gfx`), tied together by `src/main.cc`. This directory holds
specifications of its stateful parts, the TLC configurations that check them
on small instances, and proofs for every value of the constants.

    tlc -config cpu_pool.cfg MCCpuPool      # one run; PROJECT.json lists all
    tlapm CpuPoolProofs.tla                 # one proof module

## Inventory

| Component | State | Operations | What makes it hard | What makes it correct |
|---|---|---|---|---|
| CPU page pool (`mem_pool.cc:75-126`) | one pool per NUMA node: a flag per page, `used`, `peak_used` | alloc, free | any number of threads, one `atomic_flag` per page and no lock; a scan holds pages it may give back; counters are unprotected | no page has two owners; a call ends; a refused or freed allocation takes no page away (it does: see below) |
| Pool lifecycle (`:16-73`) | `cpu_pool` and its buffers | init, destroy | each of three allocations per node may fail half way; the number of bytes wraps | what init reports as ready is complete; destroy frees what init got, once, wherever init has stopped |
| GPU buffers (`:128-190`) | `g_gpu_allocs`, kernel handles, mappings | alloc, free | the mutex protects the map only; addresses and handles are reused at once; every ioctl may fail | a live buffer keeps its memory; nothing leaks |
| Shared allocator (`:192-209`) | the length of a mapping in the page in front of the block | alloc, free | size arithmetic at the end of `size_t` | the mapping is as long as the block; free unmaps all of it and nothing else |
| System allocator (`:211-223`) | none | alloc, free | nothing: it forwards to `posix_memalign` and `free` | -- |
| Task ring (`mem_ring.cc`) | `head`, `tail`, `tasks`, `data` | push, pop, init, destroy | two threads and no atomics: only the order of the accesses separates them; the size is a `size_t` at first and then a `uint32_t` | a FIFO; no slot shared, no item torn; destroy frees what init got |
| V4L2 camera (`v4l2_camera.cc`) | descriptor, mapped buffers; in the kernel the buffer queue | init, start, stop, read, write, export, destroy | endless capture stopped by another thread; buffers must go round; a dozen error paths in init | a frame in use is not overwritten; the stream never runs dry; stop ends capture; failures leave nothing |
| OpenCL engine (`lo_engine.cc`) | platform, context, queue, program, kernel, imported image | init, load_kernels, import_dmabuf, convert | partial failures; the page pool underneath; a context nobody has zeroed; the import replaces the previous one | no field points to what is gone; failures leave nothing; the best device is taken |
| NV12 conversion (`nv12_to_rgb.cl`, `lo_engine.cc:381`) | none | pure function | sizes that are no multiple of a work group; odd sizes | each byte of the result is written once, from the bytes the reference function reads, and inside the planes |
| Vulkan (`drm_vk_renderer.cc`) | instance, device, pool, command buffer | init, deinit | a different unwinding after every step; handles not reset | each object destroyed once and inside out; after a failure nothing is left |
| Program (`main.cc`) | all of the above on the stack | main | statuses ignored, uninitialised structures | only initialised parts are used |
| Telemetry, inference, DRM display, drawing | -- | -- | the files are empty | -- |

Interaction: `main` initialises the page pool and hands it to the OpenCL
engine, which takes its scratch memory from `kbx_mem_alloc`. The camera, the
ring, the GPU allocator and the Vulkan context are called by clients of the
library; the program itself does not use them yet (`while (false)`), so the
models take the client to be any sequence of legal calls, from any number of
threads where the code has synchronisation or needs it. Between the components
nothing is shared but memory pages and, in the roadmap, DMA-BUF descriptors.

PROJECT.json lists the hazards line by line with the properties aimed at each.

## Modules

| Module | Models |
|---|---|
| `PageExtents` | pages as `<<node, block>>` and runs of pages |
| `PageAllocator` | what the page pool promises: grants of free runs, releases |
| `CpuPool` | `kbx_mem_cpu_alloc` and `kbx_mem_cpu_free`; implements `PageAllocator` |
| `CpuPoolProofs` | theorems about `CpuPool` |
| `GpuAlloc` | `kbx_mem_gpu_alloc`, `kbx_mem_gpu_free` |
| `GpuAllocProofs` | theorems about `GpuAlloc` |
| `BoundedFifo` | a bounded FIFO queue with one producer |
| `TaskRing` | `kbx_ring_push`, `kbx_ring_pop`; implements `BoundedFifo` |
| `TaskRingProofs` | theorems about `TaskRing` |
| `NumaHeap` | the process's memory, `numa_alloc_onnode`, `numa_free` |
| `PoolLifecycle` | `kbx_mem_pool_init`, `kbx_mem_pool_destroy` |
| `RingLifecycle` | `kbx_ring_init`, `kbx_ring_destroy` of several rings |
| `Lifecycles` | both in one process: a shared `NumaHeap` |
| `LifecyclesProofs` | theorems about `Lifecycles` |
| `V4L2Camera` | the camera and the driver's buffer queue |
| `V4L2CameraProofs` | theorems about `V4L2Camera` |
| `Nv12` | the work items of the conversion, the bytes of the kernel `nv12_to_rgb` and of `ManualNV12ToRGB` |
| `ClEngine` | `kbx_cl_init`, `kbx_cl_load_kernels`, `kbx_cl_import_dmabuf`, `kbx_cl_convert_nv12_to_rgb`; uses `PageAllocator` and `Nv12` |
| `ClEngineProofs` | theorems about `ClEngine` and `Nv12` |
| `VulkanContext` | `kbx_vulkan_init`, `kbx_vulkan_deinit` |
| `SharedAlloc` | `kbx_mem_shared_alloc`, `kbx_mem_shared_free` |
| `SharedAllocProofs` | theorems about `SharedAlloc` |
| `Runtime` | one thread that calls engine, Vulkan context and shared allocator |
| `RuntimeProofs` | theorems about the Vulkan context and about the three together in `Runtime` |
| `MC*` | the same, with the symmetry sets TLC uses |

### CpuPool

`isUsed` is the set of pages whose flag is set; a thread's call is `pc` and its
locals `node`, `need` (`blocks_needed`), `j`, `start`, `found`, `k` and `reg`.
Each test-and-set (`ScanTake`, `ScanBusy`), each clear (`Undo`, `FreeClear`)
and each access to a counter (`AllocLoad`, `AllocStore`, `PeakTest`,
`PeakStore`, `FreeLoad`, `FreeStore`) is one step. `pool->used` is a data race
in the code; after its own store a thread may see the value in its register or
the one in memory (`UsedSeen`). The size arithmetic wraps at `SizeMod`.
`live` is not in the code: it holds what has been returned and not yet passed
to free, and clients free live allocations only, once.

What the code does with pages it cannot account for is part of the model:
`ScanExhausted` returns NULL and leaves the flags of the run at the end of the
pool, and `FreeClear` clears the first page only. `PagesStayLost` states that
such pages never come back, and `LossesAccounted` that no step loses any other:
only a refused scan for several pages (or for none, where the rounding has
wrapped) gives up the run it has gathered at the end of its pool, and only the
free of an allocation of several pages loses those behind the first. Requests
of one page lose none.

### GpuAlloc

`handles` and `mapped` are the kernel's, `allocs` is `g_gpu_allocs`, `owned`
what clients hold and `asked` the sizes they asked for. `Width` cuts a size off
to the 32 bits of `create_dumb.width`; the code does not look whether it
fits, and `LongEnoughUnlessCut` says exactly which buffers are shorter than
their owners believe. Addresses and handles are reused as soon as they are given
back, which is what makes the order lookup, munmap, destroy in
`kbx_mem_gpu_free` matter.

### TaskRing

An item has two words (task and data pointer) that are stored and loaded one at
a time. `ProgramOrder = TRUE` keeps the accesses of a call in the order of the
statements; `FALSE` allows any order, which plain `uint32_t` indices permit. A
push takes effect at the store to `head`, a pop at the store to `tail`: that is
the refinement mapping to `BoundedFifo`.

### PoolLifecycle, RingLifecycle and Lifecycles

`heap` says what is mapped at each address, with its kind and length, so that a
free with the wrong length or of an address that is no longer the caller's
shows. Each allocation is a step with its failure. The two components want
opposite things of a client after a failed init: the pools must be destroyed
(init frees nothing, destroy finds out how far it has come), a ring must not
(init has freed `tasks` and left the pointer, so destroy would free it again).
The models' clients do what each of them wants; both demands are in the
hazards. `kbx_mem_pool_destroy` leaves `cpu_pool` as it is and is called once.

Sizes wrap where they do in the code. The bytes of a pool are a product in
`size_t` (`Bytes`, modulo `PageMod` pages): a size whose bytes wrap gets a
smaller pool, or none, and init succeeds with it. The bytes of a ring's arrays
are such products too (`Room`), and `ring->size` keeps the low 32 bits of the
size (`Stored`, modulo `SizeMod`). What `kbx_ring_destroy` frees it computes from
those, so that a ring of 2^32 slots or more leaves the rest of both arrays
mapped, and one whose low bits are 0, in which no slot can be used, leaves them
altogether. `left` keeps the parts that frees have left behind, and
`OnlyTooLargeLeaks` says that there are no others, of exactly those lengths.
`Lifecycles` runs both over one heap, where an address given up by a ring may
become a pool's, and the other way round.

### V4L2Camera

The kernel's side (`open`, `owner`, `streaming`, `buffer`, `done`, `image`,
`Fill`) is modelled from the ioctls the code issues; the frame number in
`image` tells frames apart. `camera` holds the locals of `kbx_v4l2_init`,
`device` what it fills in. Calls on an open device run concurrently; init and
destroy run alone, and destroy only on a device that init has filled in.
`exit(EXIT_FAILURE)` inside init (`Exit`) is a restart of the program: the
kernel closes everything. The negotiation of formats is one step that may fail,
select's EINTR retry is no step at all.

### ClEngine and Nv12

`object` says which OpenCL objects exist, and of which kind; a handle may be
given out again after its release, so that a stale field of `ctx` is seen to
point to something else. Every OpenCL call is a step with its failure. The
scratch memory of `kbx_cl_load_kernels` is granted by `PageAllocator`, which
`CpuPool` is shown to implement: the engine relies on nothing else of the page
pool. What the code does about failures is kept as it is: a kernel that cannot
be created is a success, an event is not released when `clFinish` fails, and
the program and the kernel of an earlier load stay behind when sources are
loaded again. `LeavesNothing` names these: at a return there is no page, no unbuilt
program, and no context, queue or image but those in the context, and no step
loses hold of an object it does not release but those of `MayBeLost`.
Left out of `Import` is the query of the device's extensions
(`lo_engine.cc:207-236`): what it finds is printed and nothing depends on it.
That the string is read into a buffer of 1024 bytes whatever its length is a
hazard no property covers.

`Zeroed` is an assumption on the client: `kbx_cl_init` writes neither the
program nor the kernel nor the image, so that a client has to zero its
`kbx_cl_ctx` first. `main.cc` does not, and is spared by ending after
`kbx_cl_init`; with `Zeroed = FALSE` even the first state has a field that
points to nothing (`NothingDangles`), and the first conversion could run on it.
`NothingDangles` says as well that a conversion enqueues only kernels that
`kbx_cl_load_kernels` has created. The client also calls
init again only while it has no context (a second one would leave the first
behind) and converts only buffers that exist.

`Nv12` gives the bytes a work item of the kernel reads and writes, the work
items that pass the bounds check, and the bytes of one turn of
`ManualNV12ToRGB`. A conversion in progress has its `job`, about which
`KernelIsManual`, `WritesEachOnce` and `ReadsPlanes` are stated. The last one is
exact: with two even sides no byte outside the planes is read, with an odd one
some byte is, and `kbx_cl_convert_nv12_to_rgb` accepts both. Indices are plain
integers: the statements are about images whose `3 * w * h` bytes fit an `int`.
Above that `y_idx * 3` overflows in `ManualNV12ToRGB`, and from two thirds of
2^32 pixels on the kernel's `uv_idx` wraps.

### VulkanContext

`exists` is Vulkan's, `handle` the fields of the context that are set. What a
failing step destroys is a table (`Undo`), for each error path of
`kbx_vulkan_init` has its own list; the destroying calls are steps. Since no
path resets a handle, deinit after a failed init would destroy objects a second
time; the client of this model (`DeinitAlways = FALSE`) does not do that.

### SharedAlloc

Pages of an address space, the mapping each belongs to, and the `size_t` in
front of each mapping. Sizes wrap at `SizeMod`. The size handed to `mmap` may be
smaller than the size asked for, and then the block is handed out all the same:
`BackedUnlessWrapped` says for which sizes. What callers write is not modelled.
A block whose size wraps has only the page with its length mapped, and its first
byte may lie on the first page of another mapping; that no two blocks share a
page (`MappedIsOwned`) is about mapped pages, and about free finding the lengths
that alloc wrote.

### Runtime

The three share no state; `Runtime` lets one thread drive them in any order, a
call at a time, ignoring what was returned, as `main.cc` does.

## Runs

| Run | Instance | Shows |
|---|---|---|
| `cpu_pool` | 2 threads, 1 node, 3 pages; sizes of 1 page, 2 pages, and one that wraps to 0 | types, ownership (live runs and runs in the making never overlap), lost pages stay lost, every loss is accounted for, implements `PageAllocator` |
| `cpu_pool_seq` | 1 thread, 5 pages, sizes 0 to 3 pages and wrapping | exact first fit, counters between live and flagged pages |
| `cpu_pool_returns` | 2 threads, 2 pages, weak fairness | every call returns |
| `gpu_alloc` | 3 threads, 4 addresses, 4 handles; sizes that fit the width, are cut off, and are cut off to 0 | live buffers keep their memory, no leak, only sizes that do not fit get shorter buffers |
| `task_ring` | 3 slots, 3 items, program order | no slot shared, no torn item, implements `BoundedFifo` |
| `task_ring_reordered` | the same, any order | **violation** of `PopsWhole` |
| `lifecycles` | pools on 2 nodes, of 1 and 3 MiB of 2 pages in a `size_t` of 5; 2 rings of 1, 5 and 12 slots, `ring->size` modulo 4, array bytes modulo 8 elements; 5 addresses, every allocation may fail | what is ready is backed and stays so, nothing is freed twice or too long, only rings that are too large leak |
| `camera_session` | 2 threads, 2 descriptors, 3 buffers, 4 frames, everything may fail | a filled-in device is complete, only failed inits leak, a frame in use is private, frames are saved in order and once |
| `camera_circulation` | 2 threads, 3 buffers, 5 frames, no stop, no failing ioctl | no buffer stranded: each is queued, filled or in a call's hands; a capture ends complete or after a timeout, also when it loses a frame to another call |
| `camera_stop` | 2 threads, 2 buffers, 3 frames, weak fairness | stop ends every capture |
| `camera_restart` | capture and stop | **violation** of `NeverStarved` |
| `runtime` | 5 OpenCL handles, up to 2 devices, sources and logs of 1 or 2 of 3 pages, images of 1 to 4 by 1 to 4 pixels with work groups of 2 by 2; 3 pages of 2 bytes and a `size_t` modulo 8 for shared blocks | best device, nothing dangling, nothing left behind but what `MayBeLost` names, the conversion; Vulkan objects inside out, all or nothing; shared blocks backed unless their size wraps, and unmapped completely |

Bounds. Two threads suffice for every pairwise race of the pool, whose threads
only interact through single pages; three pages let a run be blocked at its
front, in its middle and at its end, and the proofs cover any number. Ring
indices wrap within two rounds of 3 slots. Three threads let one GPU free race
with two allocations that reuse its address and its handle. Two nodes and
five addresses, as many as the pools need, let an init fail behind a pool that is
complete while rings come and go on the addresses it leaves. Of the sizes there,
one of the pools fits and one wraps to a smaller pool; of the rings one fits, one
is cut off to a shorter one and one to 0, with arrays whose bytes have wrapped. For the camera,
three buffers let two threads hold one each while one is with the driver, and
`MaxFrames` frames make every buffer go round at least once; the driver then
delivers no more, which is the timeout of select. `SizeMod` and `PageSize` are
small so that the wrap of the rounding addition happens. In `runtime` five
handles are enough for a context, a queue, a program and a kernel with an image
or an event, and few enough that creating calls also fail because there is none
left; two devices are enough for a tie and for either order; a source of two
pages leaves no room for a log of two, so that `kbx_mem_alloc` refuses it.
Images of up to two work groups each way, with odd and even sides, contain every
case of the rounding, and sizes 6 and 7 of a block wrap. Every action of the
engine, the context and the allocator fires in it.

Fairness. The only assumption is weak fairness of each thread inside a call: it
is never blocked (test-and-set does not wait, select returns after two seconds
at the latest), and the operating system keeps scheduling it. Nothing is
assumed of clients starting calls or of the driver delivering frames.

Deadlock is checked in every run: a client can always make another call.

### What the violations show

`task_ring_reordered`: the roadmap describes lock-free queues with
acquire/release atomics (`src/roadmap.md:93`, `:238-250`); the code has plain
`uint32_t` indices. In program order the ring is a correct FIFO
(`task_ring`, and proved); if the store to `head` becomes visible first, a pop
returns a torn item.

`camera_restart`: buffers are queued by `kbx_v4l2_init` only. STREAMOFF in
`kbx_v4l2_stop_capture` takes them all out, so a second
`kbx_v4l2_start_capture` streams without any buffer and can capture nothing.

## Proofs

All theorems hold for every value of the constants that satisfies the named
assumptions of the modules.

`CpuPoolProofs`. The inductive invariant is `TypeOK /\ Ownership`. `Ownership`
has three parts: `Progress` ties the locals of a call to the point it has
reached (the run being gathered ends at the scan position, so it stays inside
the pool), `Flagged` says that everything owned has its flag set, `Exclusive`
that nobody shares a page. That live allocations share none would not be
inductive: it does not exclude a thread that is about to clear a flag of a page
another one owns. From the invariant follow `TypeCorrect`, `OwnershipHolds`, the
action properties `LostForGood` and `LossesAreAccounted` (from a lemma for each
action that says which pages may lose their owner in it) and the refinement
`Refines` (only the two returning steps grant, only `FreeCall` releases).

Two theorems are about calls that do not overlap and assume one thread
(`Threads = {caller}`); with more they are false. `OneCallerFitsFirst` rests on
`Scanned`: every run the scan has passed that is long enough has a page in use,
and the run being gathered starts behind one. The second half is why giving up a
short run loses nothing: no window long enough fits between two pages in use.
`OneCallerCounts` rests on `Counted`: at every point of a call `pool->used` lies
between the live pages and the flagged ones, where the pages of a run that is won
move from one side to the other with the store, and a page being freed counts
until its own. It assumes that the number of a pool's pages fits in a `size_t`
(`NumBlocks < SizeMod`), as in the code, which computes it as one; that is what
keeps the sum from wrapping. Its lemmas about `Count` carry the cardinalities.

`TaskRingProofs`. `TypeCorrect` needs no assumption. `SlotsNeverShared` and
`PopsAreWhole` assume `ProgramOrder` and rest on an invariant that says which
accesses of the calls are still to come and that every occupied slot holds
whole items. `RingIsFifo` is the refinement of `BoundedFifo` under
`ProgramOrder`: the queue is read off the slots from `tail` to `head`, the store
to `head` appends an item, the store to `tail` takes the first one off, and every
other access is a stutter because the slots between the indices are nobody's to
write. The lemmas on the sequence of the occupied slots deal with the wrap of the
indices.

`GpuAllocProofs`. The invariant ties each thread's handle and address to the
kernel's state at each `pc`, and says that the handles and addresses of
threads and of live buffers are pairwise different; `OwnedAreBacked`,
`OwnedAreStable` and `NothingLeaks` follow. `Sized` adds that a buffer is as long
as the width it was created with, from which `LengthsAreKept` follows.

`V4L2CameraProofs`. The invariant `CInv` adds four parts to the types and to
`DeviceReady` and `HeldExclusive`: `Alone` (init runs by itself, on a closed
device), `Building` (how far init has come: what it owns, mapped and queued),
`Queue` (the filled buffers are the ones in the state "done") and `Fresh`, the
order of the frames: those waiting are newer than those in a call's hands,
which are newer than what that call saved before. `SavesFresh` needs `Fresh`:
the buffers go round, so a buffer's number says nothing about its frame. The
theorems hold whichever operations fail and however captures, reads and stops
interleave.

`OnlyFailuresLeak` adds `Leaks`: what is open and neither the device's nor the
running init's was `Abandoned` by a failed init, and there are as many of these
as inits have failed. `BuffersCirculate` and `CapturesAreFed` assume that nobody
calls `kbx_v4l2_stop_capture` and that QBUF does not fail. They rest on `Fed`:
init queues every buffer the driver has granted before it fills in the device.
With a stop `NeverStarved` is false, as `camera_restart` shows; the theorem says
that nothing but a stop or a failing QBUF can starve a capture.
`CapturesAreComplete` assumes further that STREAMON, select and DQBUF do not fail
by themselves (`Unfailing`), and rests on `Counting`: the stream of a capture
stays on, so an empty queue is EAGAIN to it, and its counter stays below the
number of frames asked for.

`ClEngineProofs`. First the arithmetic of `Nv12`: the work items behind the
bounds check are the pixels, the kernel's expressions and those of the
reference function agree, pixels are numbered one to one (`PixelUnique`,
`PixelOnto`), with even sides the last chroma pair ends with its plane
(`EvenRow`), and with an odd side that of the last pixel does not (`OddSide`).
Then the invariant `EInv`: `Choosing` (the search has kept the best of the
devices it has seen), `Scratch` (whose the pages are), `InHand` (what a call
has in its locals at each point) and `Accounted` (every object that must not be
left behind is in the context or in the call's hands). `LeavesNothing` is about
steps: its first half is `Scratch` and `Accounted` at a return, and for the
second the lemmas `InitKeepsHold`, `LoadKeepsHold` and `UseKeepsHold` look at
what each step overwrites. The theorems assume `Zeroed`.

`LifecyclesProofs`. The invariant is `Pools /\ Arrays`. Both say which pointers
their owners have a right to at each point of an init and a destroy, that two
such pointers are never equal, and that an address is mapped as a kind of theirs
exactly if one of them has a right to it, but for what the destroys of rings that
are too large have left. `ReadyIsBacked` and `OnlyTooLargeLeaks` are the two
directions of that, between calls; alone neither is inductive. The lemma
`Truncation` compares what a ring of any size has mapped with what it records:
the latter is never more, because 2^32 divides the number of elements that make
2^64 bytes (`LongMod % SizeMod = 0`). `FittingRingsLeakNothing` is the case of
sizes that fit. Pools and
rings share the heap and nothing else: because each part speaks of its own kinds
of memory only, a step of one leaves the other's alone, whatever addresses are
used again. The theorems assume nothing but `LifecyclesAssumption`.

`SharedAllocProofs`. The invariant `Mapped` says that the pages of the mapping of
each block are exactly those that the length in front of it describes; the
rounding to pages is dealt with in lemmas about `PagesOf` and `Total`.

`RuntimeProofs`. Every step of `RuntimeSpec` is, to the engine, to the context
and to the allocator, a step of their own or a stutter, so what holds of each by
itself holds in the program; `RuntimeTypeCorrect` puts the types of the three
together. The Vulkan part is proved here: the invariant `Built` says that what
exists is a chain from the instance on, and that a call which destroys has the
rest of that chain ahead of it, innermost first. Assumed: `~DeinitAlways` for the
context, `Zeroed` for the engine.

Every safety property that a passing run checks is stated by a theorem. Model-checked
only: liveness (`CallsReturn`, `StopEnds`), which is out of this prover's reach.

## Not modelled

- `kbx_mem_system_alloc`, `kbx_mem_system_free`: one call each to
  `posix_memalign` and `free`, no state and no arithmetic.
- `kbx_v4l2_export_dmabuf`, `kbx_v4l2_write`: pass-through system calls that
  touch no buffer of the queue. File names, JPEG encoding and logging.
- The floating-point colour formula; images whose `3 * w * h` bytes do not fit an
  `int`, that is of 2^31 / 3 pixels or more.
- The query of the device's extensions in `kbx_cl_import_dmabuf`.
- What clients write into their memory, blocks that are shorter than asked for
  included.
- Concurrent calls on one OpenCL context, and what several Vulkan contexts do to
  each other: the code gives no sign of either.
- `main`: it makes two calls and ends. What a main that uses the library meets is
  in `Runtime` and `Lifecycles`.
- Empty files, functions declared without a body (`kbx_cl_deinit`,
  `kbx_vulkan_import_dma` and the others of its header), and the vendored
  OpenVINO SDK, which is by far the most of the repository's lines and none of
  this program's.

## Plan

All components with code of their own are modelled. What is left:

1. Proofs: the bounds the runs' properties leave open, such as how many pages
   a pool can lose.
2. The camera's `kbx_v4l2_export_dmabuf` together with the engine's import, once
   the program connects them.
