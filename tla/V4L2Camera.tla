----------------------------- MODULE V4L2Camera -----------------------------
(***************************************************************************)
(* The camera (src/src/io/v4l2_camera.cc): opening it, capturing frames to *)
(* files, reading single frames, stopping, closing.                        *)
(*                                                                         *)
(* The kernel's side is a set of buffers that go round: queued by the      *)
(* program, filled by the driver, dequeued by the program, and queued      *)
(* again once the frame in them has been used.  It is external, modelled   *)
(* from the ioctls this code issues: REQBUFS makes the descriptor the      *)
(* owner of the queue and fails for every other one until that is closed;  *)
(* STREAMOFF hands every buffer back to the program; DQBUF returns the     *)
(* oldest filled buffer, EAGAIN when there is none, and fails when the     *)
(* device is not streaming, in which case select reports it as ready.      *)
(*                                                                         *)
(* An endless capture (frame_count 0) can only be ended from another       *)
(* thread, so the calls on an open device run concurrently; kbx_v4l2_init  *)
(* and kbx_v4l2_destroy are called when no other call is in progress, and  *)
(* destroy only on a device that init has filled in.                       *)
(*                                                                         *)
(* Left out: the negotiation of standard, frame rate and format (one step  *)
(* that may fail), file names and encoders, kbx_v4l2_write, which touches  *)
(* no buffer, kbx_v4l2_export_dmabuf, a STREAMOFF that fails, which changes *)
(* nothing, and a kbx_v4l2_read that wants no data, which copies none.     *)
(***************************************************************************)
EXTENDS Naturals, Sequences, FiniteSets

CONSTANTS
  Threads,
  Fds,          \* the descriptors open() may return
  None,         \* no descriptor (-1)
  MaxBuffers,   \* the most buffers the driver grants (the code asks for 4)
  FrameCounts,  \* the values of params->frame_count
  MaxFrames,    \* bound: how many frames the driver delivers
  Calls,        \* which calls the client makes: "capture", "read", "stop"
  Faults        \* which operations may fail

ASSUME CameraAssumption ==
  /\ None \notin Fds
  /\ MaxBuffers \in Nat \ {0}
  /\ FrameCounts \subseteq Nat
  /\ MaxFrames \in Nat
  /\ Calls \subseteq {"capture", "read", "stop"}
  /\ Faults \subseteq {"open", "setup", "reqbufs", "calloc", "mmap", "qbufInit",
                       "streamon", "select", "dqbuf", "qbuf"}

VARIABLES
  open,         \* kernel: the open descriptors of the camera
  owner,        \* kernel: the descriptor whose buffers the queue holds
  streaming,    \* kernel: between STREAMON and STREAMOFF
  buffer,       \* kernel: "none", "user", "queued" or "done", per buffer
  done,         \* kernel: the filled buffers, oldest first
  image,        \* kernel: the number of the frame in each buffer
  frames,       \* kernel: how many frames have been delivered
  mapped,       \* the <<descriptor, buffer>> pairs mapped into the process
  device,       \* the caller's kbx_v4l2_device: its fd and its n_buffers
  camera,       \* the locals of kbx_v4l2_init: descriptor, granted, next buffer
  failed,       \* how many inits have failed with their descriptor open
  pc,           \* per thread: the next step of its call
  op,           \*   which call it is in
  todo,         \*   frame_count, and i of the capture loop:
  i,            \*     frames captured so far
  index,        \*   buffer_info.index
  saved         \*   the number of the last frame it has saved or copied

kernel == <<open, owner, streaming, buffer, done, image, frames>>
setup  == <<mapped, device, camera, failed>>
calls  == <<pc, op, todo, i, index, saved>>
vars   == <<kernel, setup, calls>>

Buffers == 0 .. MaxBuffers - 1
InitPCs == {"setup", "reqbufs", "calloc", "mmap", "qbufInit", "commit"}
PCs     == InitPCs \cup {"idle", "streamon", "select", "dqbuf", "save", "qbuf"}

Closed == [fd |-> None, n |-> 0]
NoCamera == [fd |-> None, n |-> 0, next |-> 0]

Init ==
  /\ open = {} /\ owner = None /\ streaming = FALSE
  /\ buffer = [b \in Buffers |-> "none"] /\ done = <<>>
  /\ image = [b \in Buffers |-> 0] /\ frames = 0
  /\ mapped = {} /\ device = Closed /\ camera = NoCamera /\ failed = 0
  /\ pc = [t \in Threads |-> "idle"] /\ op = [t \in Threads |-> "none"]
  /\ todo = [t \in Threads |-> 0] /\ i = [t \in Threads |-> 0]
  /\ index = [t \in Threads |-> 0] /\ saved = [t \in Threads |-> 0]

MayFail(what) == what \in Faults
Goto(t, label) == pc' = [pc EXCEPT ![t] = label]
Return(t) ==
  /\ Goto(t, "idle")
  /\ op' = [op EXCEPT ![t] = "none"]
  /\ todo'  = [todo  EXCEPT ![t] = 0]
  /\ i'     = [i     EXCEPT ![t] = 0]
  /\ index' = [index EXCEPT ![t] = 0]
  /\ saved' = [saved EXCEPT ![t] = 0]
AtRest == \A t \in Threads : pc[t] = "idle"

(***************************************************************************)
(* kbx_v4l2_init.  No error path closes the descriptor, unmaps a buffer or *)
(* frees the array; the device is filled in only at the very end.          *)
(***************************************************************************)
InitFails(t) ==
  /\ failed' = failed + 1
  /\ camera' = NoCamera
  /\ Return(t)
  /\ UNCHANGED <<mapped, device>>

Open(t) ==
  /\ AtRest
  /\ device = Closed
  /\ \E fd \in Fds \ open :
       /\ open' = open \cup {fd}
       /\ camera' = [fd |-> fd, n |-> 0, next |-> 0]
  /\ Goto(t, "setup")
  /\ UNCHANGED <<owner, streaming, buffer, done, image, frames,
                 mapped, device, failed, op, todo, i, index, saved>>

OpenFails(t) ==
  /\ AtRest
  /\ device = Closed
  /\ open = Fds \/ MayFail("open")
  /\ UNCHANGED vars

\* QUERYCAP, the capability tests, S_FMT and G_FMT.
Negotiate(t) ==
  /\ pc[t] = "setup"
  /\ \/ Goto(t, "reqbufs") /\ UNCHANGED <<setup, op, todo, i, index, saved>>
     \/ MayFail("setup") /\ InitFails(t)
  /\ UNCHANGED kernel

\* The driver grants n buffers, which need not be as many as were asked for.
ReqBufs(t, n) ==
  /\ pc[t] = "reqbufs"
  /\ owner = None
  /\ n >= 2
  /\ owner' = camera.fd
  /\ buffer' = [b \in Buffers |-> IF b < n THEN "user" ELSE "none"]
  /\ camera' = [camera EXCEPT !.n = n]
  /\ Goto(t, "calloc")
  /\ UNCHANGED <<open, streaming, done, image, frames, mapped, device, failed,
                 op, todo, i, index, saved>>

ReqBufsFails(t) ==
  /\ pc[t] = "reqbufs"
  /\ owner # None \/ MayFail("reqbufs")
  /\ InitFails(t)
  /\ UNCHANGED kernel

\* Fewer than two buffers: exit(EXIT_FAILURE).  The kernel closes everything
\* the process had, and the program may be started again.
Exit(t) ==
  /\ pc[t] = "reqbufs"
  /\ owner = None
  /\ MayFail("reqbufs")
  /\ open' = {} /\ owner' = None /\ streaming' = FALSE
  /\ buffer' = [b \in Buffers |-> "none"] /\ done' = <<>>
  /\ image' = [b \in Buffers |-> 0] /\ frames' = 0
  /\ mapped' = {} /\ device' = Closed /\ camera' = NoCamera /\ failed' = 0
  /\ Return(t)

Calloc(t) ==
  /\ pc[t] = "calloc"
  /\ \/ Goto(t, "mmap") /\ UNCHANGED <<setup, op, todo, i, index, saved>>
     \/ MayFail("calloc") /\ InitFails(t)
  /\ UNCHANGED kernel

\* The end of the loops over the buffers: n_buffers < count.
LastBufferLate == camera.next = camera.n          \* fault: one buffer too many
LastBuffer == camera.next + 1 = camera.n

NextBuffer(t, after) ==
  IF LastBuffer
    THEN camera' = [camera EXCEPT !.next = 0] /\ Goto(t, after)
    ELSE camera' = [camera EXCEPT !.next = @ + 1] /\ UNCHANGED pc

\* QUERYBUF and mmap of one buffer; a failing QUERYBUF leaves a length of 0,
\* which makes mmap fail.
Mmap(t) ==
  /\ pc[t] = "mmap"
  /\ \/ /\ mapped' = mapped \cup {<<camera.fd, camera.next>>}
        /\ NextBuffer(t, "qbufInit")
        /\ UNCHANGED <<device, failed, op, todo, i, index, saved>>
     \/ MayFail("mmap") /\ InitFails(t)
  /\ UNCHANGED kernel

QbufInit(t) ==
  /\ pc[t] = "qbufInit"
  /\ buffer' = [buffer EXCEPT ![camera.next] = "queued"]
  /\ NextBuffer(t, "commit")
  /\ UNCHANGED <<open, owner, streaming, done, image, frames, mapped, device,
                 failed, op, todo, i, index, saved>>

QbufInitFails(t) ==
  /\ pc[t] = "qbufInit"
  /\ MayFail("qbufInit")
  /\ InitFails(t)
  /\ UNCHANGED kernel

Commit(t) ==
  /\ pc[t] = "commit"
  /\ device' = [fd |-> camera.fd, n |-> camera.n]
  /\ camera' = NoCamera
  /\ Return(t)
  /\ UNCHANGED <<kernel, mapped, failed>>

(***************************************************************************)
(* kbx_v4l2_destroy: unmap the buffers, close the descriptor.              *)
(***************************************************************************)
DestroyNoClose ==                                 \* fault: the descriptor stays
  /\ AtRest
  /\ device # Closed
  /\ mapped' = mapped \ ({device.fd} \X (0 .. device.n - 1))
  /\ device' = Closed
  /\ UNCHANGED <<kernel, camera, failed, calls>>
DestroyKeepsFd ==                                 \* fault: device->fd is not reset
  /\ AtRest
  /\ device # Closed
  /\ mapped' = mapped \ ({device.fd} \X (0 .. device.n - 1))
  /\ open' = open \ {device.fd}
  /\ owner' = None /\ streaming' = FALSE
  /\ buffer' = [b \in Buffers |-> "none"] /\ done' = <<>>
  /\ UNCHANGED <<image, frames, device, camera, failed, calls>>
Destroy ==
  /\ AtRest
  /\ device # Closed
  /\ mapped' = mapped \ ({device.fd} \X (0 .. device.n - 1))
  /\ device' = Closed
  /\ open' = open \ {device.fd}
  /\ owner' = None /\ streaming' = FALSE
  /\ buffer' = [b \in Buffers |-> "none"] /\ done' = <<>>
  /\ UNCHANGED <<image, frames, camera, failed, calls>>

(***************************************************************************)
(* kbx_v4l2_start_capture.                                                 *)
(***************************************************************************)
Ready(t, call) ==
  /\ call \in Calls
  /\ pc[t] = "idle"
  /\ device # Closed

StartCapture(t, count) ==
  /\ Ready(t, "capture")
  /\ op' = [op EXCEPT ![t] = "capture"]
  /\ todo' = [todo EXCEPT ![t] = count]
  /\ Goto(t, "streamon")
  /\ UNCHANGED <<kernel, setup, i, index, saved>>

\* STREAMON on a queue that is streaming already succeeds.
StreamOn(t) ==
  /\ pc[t] = "streamon"
  /\ \/ streaming' = TRUE /\ Goto(t, "select") /\ UNCHANGED <<op, todo, i, index, saved>>
     \/ MayFail("streamon") /\ Return(t) /\ UNCHANGED streaming
  /\ UNCHANGED <<open, owner, buffer, done, image, frames, setup>>

\* select reports the descriptor as readable: there is a frame, or an error
\* for DQBUF to report.  A queue the driver holds no buffer of may be
\* reported as well.
NothingQueued == \A b \in Buffers : buffer[b] # "queued"
SelectReady(t) ==
  /\ pc[t] = "select"
  /\ done # <<>> \/ ~streaming \/ NothingQueued
  /\ Goto(t, "dqbuf")
  /\ UNCHANGED <<kernel, setup, op, todo, i, index, saved>>

\* Two seconds have gone by without a frame, or select has failed.
SelectGivesUp(t) ==
  /\ pc[t] = "select"
  /\ (streaming /\ done = <<>>) \/ MayFail("select")
  /\ Return(t)
  /\ UNCHANGED <<kernel, setup>>

Dqbuf(t) ==
  /\ pc[t] = "dqbuf"
  /\ streaming
  /\ done # <<>>
  /\ index' = [index EXCEPT ![t] = Head(done)]
  /\ done' = Tail(done)
  /\ buffer' = [buffer EXCEPT ![Head(done)] = "user"]
  /\ Goto(t, "save")
  /\ UNCHANGED <<open, owner, streaming, image, frames, setup, op, todo, i, saved>>

\* EAGAIN: the frame select saw has been taken by another thread.  Only the
\* capture loop tries again.
AgainOnAnyError(t) == op[t] = "capture"           \* fault: errno is not looked at
AgainNever(t) == FALSE                            \* fault: EAGAIN is an error like the others
Again(t) == op[t] = "capture" /\ streaming

DqbufFails(t) ==
  /\ pc[t] = "dqbuf"
  /\ ~streaming \/ done = <<>> \/ MayFail("dqbuf")
  /\ \/ Again(t) /\ done = <<>> /\ Goto(t, "select") /\ UNCHANGED <<op, todo, i, index, saved>>
     \/ (~Again(t) \/ MayFail("dqbuf")) /\ Return(t)
  /\ UNCHANGED <<kernel, setup>>

\* Which buffer is saved, and which one is queued again.
SourceByCount(t) == i[t] % device.n               \* fault: the loop's counter
Source(t) == index[t]
RequeuedByCount(t) == i[t] % device.n             \* fault: the loop's counter
Requeued(t) == index[t]

\* What follows the copy of a frame.
AfterSaveReadDone(t) ==                           \* fault: read keeps the buffer
  IF op[t] = "read" THEN "idle" ELSE "qbuf"
AfterSave(t) == "qbuf"

\* The frame is written to a file, or copied to the caller's image.
Save(t) ==
  /\ pc[t] = "save"
  /\ saved' = [saved EXCEPT ![t] = image[Source(t)]]
  /\ Goto(t, AfterSave(t))
  /\ UNCHANGED <<kernel, setup, op, todo, i, index>>

\* QBUF, which also works on a queue that is not streaming; then the next
\* round of the capture loop, or the end of the call.
Qbuf(t) ==
  /\ pc[t] = "qbuf"
  /\ buffer[Requeued(t)] = "user"
  /\ buffer' = [buffer EXCEPT ![Requeued(t)] = "queued"]
  /\ IF op[t] = "capture" /\ (todo[t] = 0 \/ i[t] + 1 < todo[t])
       THEN /\ i' = [i EXCEPT ![t] = @ + 1]
            /\ Goto(t, "select")
            /\ UNCHANGED <<op, todo, index, saved>>
       ELSE Return(t)
  /\ UNCHANGED <<open, owner, streaming, done, image, frames, setup>>

QbufFails(t) ==
  /\ pc[t] = "qbuf"
  /\ buffer[Requeued(t)] # "user" \/ MayFail("qbuf")
  /\ Return(t)
  /\ UNCHANGED <<kernel, setup>>

(***************************************************************************)
(* kbx_v4l2_read and kbx_v4l2_stop_capture.                                *)
(***************************************************************************)
Read(t) ==
  /\ Ready(t, "read")
  /\ op' = [op EXCEPT ![t] = "read"]
  /\ Goto(t, "dqbuf")
  /\ UNCHANGED <<kernel, setup, todo, i, index, saved>>

\* STREAMOFF takes every buffer out of the queue.
StopCapture(t) ==
  /\ Ready(t, "stop")
  /\ streaming' = FALSE
  /\ done' = <<>>
  /\ buffer' = [b \in Buffers |-> IF buffer[b] = "none" THEN "none" ELSE "user"]
  /\ UNCHANGED <<open, owner, image, frames, setup, calls>>

\* The driver fills a queued buffer.
Fill(b) ==
  /\ streaming
  /\ buffer[b] = "queued"
  /\ frames < MaxFrames
  /\ frames' = frames + 1
  /\ image' = [image EXCEPT ![b] = frames + 1]
  /\ buffer' = [buffer EXCEPT ![b] = "done"]
  /\ done' = Append(done, b)
  /\ UNCHANGED <<open, owner, streaming, setup, calls>>

-----------------------------------------------------------------------------
Opening(t) ==
  \/ Open(t) \/ OpenFails(t) \/ Negotiate(t) \/ (\E n \in 2 .. MaxBuffers : ReqBufs(t, n))
  \/ ReqBufsFails(t) \/ Exit(t) \/ Calloc(t) \/ Mmap(t) \/ QbufInit(t)
  \/ QbufInitFails(t) \/ Commit(t)

\* A step inside a call on an open device.
Step(t) ==
  \/ StreamOn(t) \/ SelectReady(t) \/ SelectGivesUp(t) \/ Dqbuf(t)
  \/ DqbufFails(t) \/ Save(t) \/ Qbuf(t) \/ QbufFails(t)

Client(t) ==
  \/ (\E count \in FrameCounts : StartCapture(t, count))
  \/ Read(t) \/ StopCapture(t)

Next ==
  \/ \E t \in Threads : Opening(t) \/ Step(t) \/ Client(t)
  \/ \E b \in Buffers : Fill(b)
  \/ Destroy

Spec == Init /\ [][Next]_vars

\* A thread inside a call is scheduled again and again; select comes back
\* after two seconds at the latest.  Nothing is assumed of the driver.
FairSpec == Spec /\ \A t \in Threads : WF_vars(Step(t))
-----------------------------------------------------------------------------
(***************************************************************************)
(* Properties.                                                             *)
(***************************************************************************)
KernelOK ==
  /\ open \subseteq Fds
  /\ owner \in Fds \cup {None}
  /\ streaming \in BOOLEAN
  /\ buffer \in [Buffers -> {"none", "user", "queued", "done"}]
  /\ done \in Seq(Buffers)
  /\ image \in [Buffers -> 0 .. MaxFrames]
  /\ frames \in 0 .. MaxFrames
SetupOK ==
  /\ mapped \subseteq Fds \X Buffers
  /\ device \in [fd : Fds \cup {None}, n : 0 .. MaxBuffers]
  /\ camera \in [fd : Fds \cup {None}, n : 0 .. MaxBuffers, next : Buffers]
  /\ failed \in Nat
CallsOK ==
  /\ pc \in [Threads -> PCs]
  /\ op \in [Threads -> {"none", "capture", "read"}]
  /\ todo \in [Threads -> FrameCounts \cup {0}]
  /\ i \in [Threads -> Nat]
  /\ index \in [Threads -> Buffers]
  /\ saved \in [Threads -> 0 .. MaxFrames]
TypeOK == KernelOK /\ SetupOK /\ CallsOK

\* A call between DQBUF and QBUF has its buffer to itself: no other call uses
\* it and the driver cannot be writing into it, even when another thread has
\* stopped and restarted the stream in between.
Holding(t) == pc[t] \in {"save", "qbuf"}
HeldExclusive ==
  \A t \in Threads : Holding(t) =>
    /\ buffer[index[t]] = "user"
    /\ \A u \in Threads \ {t} : Holding(u) => index[u] # index[t]

\* Every frame a call saves or copies is a later one than the one it saved
\* before: a capture never saves a frame twice or out of order, although it
\* shares the stream with readers and the buffers go round.
SavesFresh ==
  [][\A t \in Threads : pc[t] = "save" /\ pc'[t] # "save" => saved'[t] > saved[t]]_vars

\* A device that init has filled in is complete: its descriptor is open and
\* owns the queue and every buffer of it is mapped.
DeviceReady ==
  device # Closed =>
    /\ device.fd \in open
    /\ owner = device.fd
    /\ {device.fd} \X (0 .. device.n - 1) \subseteq mapped
    /\ \A b \in Buffers : buffer[b] # "none" <=> b < device.n

\* Between calls the only descriptors and mappings beside those of the device
\* are what failed inits have left behind, one descriptor each; without a
\* failed init, destroying the device leaves nothing.
OnlyFailedInitsLeak ==
  AtRest =>
    LET kept == open \ {device.fd}
    IN  /\ Cardinality(kept) = failed
        /\ \A m \in mapped : m[1] = device.fd \/ m[1] \in kept
        /\ owner = None \/ owner = device.fd \/ owner \in kept

\* As long as nobody stops the stream and no ioctl fails, every buffer of an
\* open device is with the driver or in the hands of a call.
NoneStranded ==
  device # Closed =>
    \A b \in 0 .. device.n - 1 :
      buffer[b] = "user" => \E t \in Threads : Holding(t) /\ index[t] = b

\* A capture that waits for a frame can get one: some buffer is with the
\* driver or will be given back to it.
NeverStarved ==
  (streaming /\ \E t \in Threads : pc[t] = "select") =>
    \/ \E b \in Buffers : buffer[b] \in {"queued", "done"}
    \/ \E t \in Threads : Holding(t)

\* As long as nobody stops the stream and no ioctl fails, a capture ends only
\* with the QBUF of its last frame, or with two seconds without one: losing to
\* another thread the frame that select has announced does not end it, and an
\* endless capture is never complete.
CapturesComplete ==
  [][\A t \in Threads : op[t] = "capture" /\ pc'[t] = "idle" =>
       \/ pc[t] = "qbuf" /\ i[t] + 1 = todo[t]
       \/ pc[t] = "select" /\ done = <<>>]_vars

\* Stopping the stream ends every capture, the endless one included, unless
\* somebody starts the stream again.
Capturing(t) == op[t] = "capture" /\ pc[t] # "streamon"
StopEnds ==
  \A t \in Threads : (Capturing(t) /\ ~streaming) ~> (~Capturing(t) \/ streaming)
=============================================================================
