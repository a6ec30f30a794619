-------------------------- MODULE V4L2CameraProofs --------------------------
(***************************************************************************)
(* Proofs about V4L2Camera, for any number of threads, descriptors,        *)
(* buffers and frames, whichever operations fail and whichever calls the   *)
(* client makes.                                                           *)
(*                                                                         *)
(* Alone and Building follow kbx_v4l2_init up to the device it fills in.   *)
(* Queue ties the driver's list of filled buffers to the state of each     *)
(* buffer, and Fresh orders the frames: those waiting in the queue are     *)
(* newer than those in a call's hands, and these newer than the ones saved *)
(* before.  Leaks counts what failed inits have left open, Circulates says *)
(* where each buffer is while nothing is stopped, and Counting how far the *)
(* captures are.                                                           *)
(***************************************************************************)
EXTENDS V4L2Camera, FiniteSetTheorems, TLAPS

Initing(t) == pc[t] \in InitPCs
Granted(t) == pc[t] \in {"calloc", "mmap", "qbufInit", "commit"}

Alone ==
  /\ \A t \in Threads : Initing(t) =>
       /\ device = Closed
       /\ camera.fd \in open
       /\ \A u \in Threads \ {t} : pc[u] = "idle"
  /\ device = Closed => \A t \in Threads : Initing(t) \/ pc[t] = "idle"

Building ==
  \A t \in Threads :
    /\ Granted(t) => /\ owner = camera.fd
                     /\ camera.n >= 2
                     /\ \A b \in Buffers : buffer[b] # "none" <=> b < camera.n
    /\ pc[t] \in {"setup", "reqbufs", "calloc"} => camera.next = 0
    /\ pc[t] \in {"mmap", "qbufInit"} => camera.next < camera.n
    /\ pc[t] = "mmap" =>
         \A b \in Buffers : b < camera.next => <<camera.fd, b>> \in mapped
    /\ pc[t] \in {"qbufInit", "commit"} =>
         \A b \in Buffers : b < camera.n => <<camera.fd, b>> \in mapped

Queue ==
  /\ \A k \in 1 .. Len(done) : buffer[done[k]] = "done"
  /\ device = Closed => done = <<>> /\ streaming = FALSE

Fresh ==
  /\ \A t \in Threads : pc[t] = "idle" => saved[t] = 0
  /\ \A b \in Buffers : image[b] <= frames
  /\ \A t \in Threads : saved[t] <= frames
  /\ \A k, l \in 1 .. Len(done) : k < l => image[done[k]] < image[done[l]]
  /\ \A t \in Threads, k \in 1 .. Len(done) : saved[t] < image[done[k]]
  /\ \A t \in Threads, k \in 1 .. Len(done) :
       Holding(t) => image[index[t]] < image[done[k]]
  /\ \A t \in Threads : pc[t] = "save" => saved[t] < image[index[t]]

CInv == TypeOK /\ Alone /\ Building /\ DeviceReady /\ Queue /\ HeldExclusive /\ Fresh

\* SavesFresh, as a formula about one step.
Newer == \A t \in Threads : pc[t] = "save" /\ pc'[t] # "save" => saved'[t] > saved[t]

-----------------------------------------------------------------------------
LEMMA EmptyQueue == <<>> \in Seq(Buffers) /\ Len(<<>>) = 0
OBVIOUS

LEMMA Initially == Init => CInv
<1> SUFFICES ASSUME Init PROVE CInv
  OBVIOUS
<1> USE CameraAssumption, EmptyQueue DEF Init
<1>1. KernelOK
  <2>1. done \in Seq(Buffers) /\ buffer \in [Buffers -> {"none", "user", "queued", "done"}]
    OBVIOUS
  <2>2. image \in [Buffers -> 0 .. MaxFrames] /\ frames \in 0 .. MaxFrames
    OBVIOUS
  <2> QED BY <2>1, <2>2 DEF KernelOK
<1>2. SetupOK /\ CallsOK
  BY DEF SetupOK, CallsOK, PCs, Buffers, Closed, NoCamera
<1>3. Alone /\ Building /\ DeviceReady
  BY DEF Alone, Building, Initing, Granted, InitPCs, DeviceReady
<1>4. Queue /\ HeldExclusive /\ Fresh
  BY DEF Queue, HeldExclusive, Holding, Fresh
<1> QED BY <1>1, <1>2, <1>3, <1>4 DEF CInv, TypeOK

\* What the driver has filled, as far as arithmetic is concerned.
LEMMA Filled ==
  ASSUME CInv
  PROVE  /\ Len(done) \in Nat /\ frames \in Nat
         /\ \A k \in 1 .. Len(done) : done[k] \in Buffers /\ image[done[k]] \in Nat
         /\ \A t \in Threads, k \in 1 .. Len(done) : 0 < image[done[k]]
BY CameraAssumption DEF CInv, TypeOK, KernelOK, CallsOK, Fresh

\* An init that fails, at whichever step, leaves a closed device.
LEMMA InitFailsKeeps ==
  ASSUME CInv, NEW t \in Threads, Initing(t), InitFails(t), UNCHANGED kernel
  PROVE  CInv' /\ Newer
<1> USE CameraAssumption, EmptyQueue
      DEF CInv, TypeOK, KernelOK, SetupOK, CallsOK, InitFails, Return, Goto,
          kernel
<1>1. KernelOK'
  OBVIOUS
<1>2. SetupOK'
  BY DEF Buffers, NoCamera
<1>3. CallsOK'
  BY DEF PCs, Buffers
<1>4. Alone'
  BY DEF Alone, Initing, InitPCs
<1>5. Building'
  BY DEF Building, Granted, Alone, AtRest
<1>6. DeviceReady'
  BY DEF DeviceReady
<1>7. Queue'
  BY DEF Queue
<1>8. HeldExclusive'
  BY DEF HeldExclusive, Holding
<1>9. Fresh'
  BY DEF Fresh, Holding
<1>10. Newer
  BY DEF Initing, InitPCs, Newer
<1> QED BY <1>1, <1>2, <1>3, <1>4, <1>5, <1>6, <1>7, <1>8, <1>9, <1>10

\* A call on an open device returns.
LEMMA CallEnds ==
  ASSUME CInv, NEW t \in Threads, ~Initing(t), pc[t] # "save", Return(t),
         UNCHANGED <<kernel, setup>>
  PROVE  CInv' /\ Newer
<1> USE CameraAssumption, EmptyQueue
      DEF CInv, TypeOK, KernelOK, SetupOK, CallsOK, Return, Goto, kernel, setup
<1>1. KernelOK'
  OBVIOUS
<1>2. SetupOK'
  OBVIOUS
<1>3. CallsOK'
  BY DEF PCs, Buffers
<1>4. Alone'
  BY DEF Alone, Initing, InitPCs
<1>5. Building'
  BY DEF Building, Granted
<1>6. DeviceReady'
  BY DEF DeviceReady
<1>7. Queue'
  BY DEF Queue
<1>8. HeldExclusive'
  BY DEF HeldExclusive, Holding
<1>9. Fresh'
  <2>1. \A u \in Threads : u # t => pc'[u] = pc[u] /\ index'[u] = index[u] /\ saved'[u] = saved[u]
    OBVIOUS
  <2>2. pc'[t] = "idle" /\ saved'[t] = 0
    OBVIOUS
  <2>3. \A b \in Buffers : image'[b] <= frames'
    BY DEF Fresh
  <2>4. \A u \in Threads : (pc'[u] = "idle" => saved'[u] = 0) /\ saved'[u] <= frames'
    BY <2>1, <2>2, Filled DEF Fresh
  <2>5. \A k, l \in 1 .. Len(done') : k < l => image'[done'[k]] < image'[done'[l]]
    BY DEF Fresh
  <2>6. \A u \in Threads, k \in 1 .. Len(done') : saved'[u] < image'[done'[k]]
    BY <2>1, <2>2, Filled DEF Fresh
  <2>7. \A u \in Threads, k \in 1 .. Len(done') :
         Holding(u)' => image'[index'[u]] < image'[done'[k]]
    BY <2>1, <2>2 DEF Fresh, Holding
  <2>8. \A u \in Threads : pc'[u] = "save" => saved'[u] < image'[index'[u]]
    BY <2>1, <2>2 DEF Fresh
  <2> QED BY <2>3, <2>4, <2>5, <2>6, <2>7, <2>8 DEF Fresh
<1>10. Newer
  BY DEF Newer
<1> QED BY <1>1, <1>2, <1>3, <1>4, <1>5, <1>6, <1>7, <1>8, <1>9, <1>10

\* A capture goes on to wait for a frame.
LEMMA CallWaits ==
  ASSUME CInv, NEW t \in Threads, pc[t] \in {"streamon", "dqbuf"}, Goto(t,
         "select"),
         streaming' \in BOOLEAN, UNCHANGED <<open, owner, buffer, done, image, frames>>,
         UNCHANGED setup, UNCHANGED <<op, todo, i, index, saved>>
  PROVE  CInv' /\ Newer
<1> USE CameraAssumption, EmptyQueue
      DEF CInv, TypeOK, KernelOK, SetupOK, CallsOK, Goto, setup
<1>1. KernelOK'
  OBVIOUS
<1>2. SetupOK'
  OBVIOUS
<1>3. CallsOK'
  BY DEF PCs
<1>4. Alone'
  BY DEF Alone, Initing, InitPCs
<1>5. Building'
  BY DEF Building, Granted
<1>6. DeviceReady'
  BY DEF DeviceReady
<1>7. Queue'
  BY DEF Queue, Alone, Initing, InitPCs
<1>8. HeldExclusive'
  BY DEF HeldExclusive, Holding
<1>9. Fresh'
  BY DEF Fresh, Holding
<1>10. Newer
  BY DEF Newer
<1> QED BY <1>1, <1>2, <1>3, <1>4, <1>5, <1>6, <1>7, <1>8, <1>9, <1>10

LEMMA OpenStep ==
  ASSUME CInv, NEW t \in Threads, Open(t)
  PROVE  CInv' /\ Newer
<1> USE CameraAssumption, EmptyQueue
      DEF CInv, TypeOK, KernelOK, SetupOK, CallsOK, Open, Goto, kernel, setup,
          calls
<1>1. KernelOK'
  OBVIOUS
<1>2. SetupOK'
  BY DEF Buffers
<1>3. CallsOK'
  BY DEF PCs, InitPCs
<1>4. Alone'
  BY DEF Alone, Initing, InitPCs, AtRest
<1>5. Building'
  <2>1. camera'.next = 0
    OBVIOUS
  <2>2. \A u \in Threads : pc'[u] \in {"idle", "setup"}
    BY DEF AtRest
  <2> QED BY <2>1, <2>2 DEF Building, Granted
<1>6. DeviceReady'
  BY DEF DeviceReady
<1>7. Queue'
  BY DEF Queue
<1>8. HeldExclusive'
  BY DEF HeldExclusive, Holding
<1>9. Fresh'
  BY DEF Fresh, Holding
<1>10. Newer
  BY DEF Alone, Initing, InitPCs, Newer
<1> QED BY <1>1, <1>2, <1>3, <1>4, <1>5, <1>6, <1>7, <1>8, <1>9, <1>10

LEMMA OpenFailsStep ==
  ASSUME CInv, NEW t \in Threads, OpenFails(t)
  PROVE  CInv' /\ Newer
<1> USE CameraAssumption, EmptyQueue
      DEF CInv, TypeOK, KernelOK, SetupOK, CallsOK, OpenFails, vars, kernel,
          setup, calls
<1>1. KernelOK'
  OBVIOUS
<1>2. SetupOK'
  OBVIOUS
<1>3. CallsOK'
  OBVIOUS
<1>4. Alone'
  BY DEF Alone, Initing
<1>5. Building'
  BY DEF Building, Granted
<1>6. DeviceReady'
  BY DEF DeviceReady
<1>7. Queue'
  BY DEF Queue
<1>8. HeldExclusive'
  BY DEF HeldExclusive, Holding
<1>9. Fresh'
  BY DEF Fresh, Holding
<1>10. Newer
  BY DEF Newer
<1> QED BY <1>1, <1>2, <1>3, <1>4, <1>5, <1>6, <1>7, <1>8, <1>9, <1>10

LEMMA NegotiateStep ==
  ASSUME CInv, NEW t \in Threads, Negotiate(t)
  PROVE  CInv' /\ Newer
<1>1. CASE Goto(t, "reqbufs") /\ UNCHANGED <<setup, op, todo, i, index, saved>>
  <2> USE CameraAssumption, <1>1
        DEF CInv, TypeOK, KernelOK, SetupOK, CallsOK, Negotiate, Goto, kernel,
            setup, calls
  <2>1. KernelOK'
    OBVIOUS
  <2>2. SetupOK'
    OBVIOUS
  <2>3. CallsOK'
    BY DEF PCs, InitPCs
  <2>4. Alone'
    BY DEF Alone, Initing, InitPCs
  <2>5. Building'
    BY DEF Building, Granted
  <2>6. DeviceReady'
    BY DEF DeviceReady
  <2>7. Queue'
    BY DEF Queue
  <2>8. HeldExclusive'
    BY DEF HeldExclusive, Holding
  <2>9. Fresh'
    BY DEF Fresh, Holding
  <2>10. Newer
    BY DEF Newer
  <2> QED BY <2>1, <2>2, <2>3, <2>4, <2>5, <2>6, <2>7, <2>8, <2>9, <2>10
<1>2. CASE InitFails(t)
  BY <1>2, InitFailsKeeps DEF Negotiate, Initing, InitPCs
<1> QED BY <1>1, <1>2 DEF Negotiate

LEMMA ReqBufsStep ==
  ASSUME CInv, NEW t \in Threads, NEW n \in 2 .. MaxBuffers, ReqBufs(t, n)
  PROVE  CInv' /\ Newer
<1> USE CameraAssumption, EmptyQueue
      DEF CInv, TypeOK, KernelOK, SetupOK, CallsOK, ReqBufs, Goto, kernel, setup,
          calls
<1>1. KernelOK'
  OBVIOUS
<1>2. SetupOK'
  <2>1. n \in 0 .. MaxBuffers
    OBVIOUS
  <2> QED BY <2>1
<1>3. CallsOK'
  BY DEF PCs, InitPCs
<1>4. Alone'
  BY DEF Alone, Initing, InitPCs
<1>5. Building'
  <2>1. \A u \in Threads : u # t => pc'[u] = "idle"
    BY DEF Alone, Initing, InitPCs
  <2>2. pc'[t] = "calloc" /\ owner' = camera'.fd /\ camera'.n = n /\ camera'.next = 0
    BY DEF Building
  <2>3. \A b \in Buffers : buffer'[b] # "none" <=> b < n
    OBVIOUS
  <2> QED BY <2>1, <2>2, <2>3 DEF Building, Granted
<1>6. DeviceReady'
  BY DEF DeviceReady
<1>7. Queue'
  BY DEF Queue, Alone, Initing, InitPCs
<1>8. HeldExclusive'
  BY DEF HeldExclusive, Holding, Alone, Initing, InitPCs
<1>9. Fresh'
  BY DEF Fresh, Queue, Alone, Initing, InitPCs
<1>10. Newer
  BY DEF Newer
<1> QED BY <1>1, <1>2, <1>3, <1>4, <1>5, <1>6, <1>7, <1>8, <1>9, <1>10

LEMMA ReqBufsFailsStep ==
  ASSUME CInv, NEW t \in Threads, ReqBufsFails(t)
  PROVE  CInv' /\ Newer
BY InitFailsKeeps DEF ReqBufsFails, Initing, InitPCs

LEMMA ExitStep ==
  ASSUME CInv, NEW t \in Threads, Exit(t)
  PROVE  CInv' /\ Newer
<1> USE CameraAssumption, EmptyQueue
      DEF CInv, TypeOK, KernelOK, SetupOK, CallsOK, Exit, Return, Goto, kernel,
          setup, calls
<1>1. KernelOK'
  <2>1. done' \in Seq(Buffers)
    BY EmptyQueue
  <2>2. buffer' \in [Buffers -> {"none", "user", "queued", "done"}]
    OBVIOUS
  <2>3. image' \in [Buffers -> 0 .. MaxFrames] /\ frames' \in 0 .. MaxFrames
    OBVIOUS
  <2> QED BY <2>1, <2>2, <2>3
<1>2. SetupOK'
  BY DEF Buffers, Closed, NoCamera
<1>3. CallsOK'
  BY DEF PCs, Buffers
<1>4. Alone'
  BY DEF Alone, Initing, InitPCs
<1>5. Building'
  BY DEF Building, Granted, Alone, Initing, InitPCs
<1>6. DeviceReady'
  BY DEF DeviceReady
<1>7. Queue'
  BY DEF Queue
<1>8. HeldExclusive'
  BY DEF HeldExclusive, Holding, Alone, Initing, InitPCs
<1>9. Fresh'
  <2>1. Len(done') = 0 /\ 1 .. Len(done') = {}
    BY EmptyQueue
  <2>2. \A u \in Threads : pc'[u] = "idle" /\ saved'[u] = 0
    BY DEF Alone, Initing, InitPCs, Fresh
  <2>3. \A b \in Buffers : image'[b] = 0
    OBVIOUS
  <2> QED BY <2>1, <2>2, <2>3 DEF Fresh, Holding
<1>10. Newer
  BY DEF Newer
<1> QED BY <1>1, <1>2, <1>3, <1>4, <1>5, <1>6, <1>7, <1>8, <1>9, <1>10

LEMMA CallocStep ==
  ASSUME CInv, NEW t \in Threads, Calloc(t)
  PROVE  CInv' /\ Newer
<1>1. CASE Goto(t, "mmap") /\ UNCHANGED <<setup, op, todo, i, index, saved>>
  <2> USE CameraAssumption, <1>1
        DEF CInv, TypeOK, KernelOK, SetupOK, CallsOK, Calloc, Goto, kernel, setup,
            calls
  <2>1. KernelOK'
    OBVIOUS
  <2>2. SetupOK'
    OBVIOUS
  <2>3. CallsOK'
    BY DEF PCs, InitPCs
  <2>4. Alone'
    BY DEF Alone, Initing, InitPCs
  <2>5. Building'
    BY DEF Building, Granted, Buffers
  <2>6. DeviceReady'
    BY DEF DeviceReady
  <2>7. Queue'
    BY DEF Queue
  <2>8. HeldExclusive'
    BY DEF HeldExclusive, Holding
  <2>9. Fresh'
    BY DEF Fresh, Holding
  <2>10. Newer
    BY DEF Newer
  <2> QED BY <2>1, <2>2, <2>3, <2>4, <2>5, <2>6, <2>7, <2>8, <2>9, <2>10
<1>2. CASE InitFails(t)
  BY <1>2, InitFailsKeeps DEF Calloc, Initing, InitPCs
<1> QED BY <1>1, <1>2 DEF Calloc

LEMMA MmapMaps ==
  ASSUME CInv, NEW t \in Threads, pc[t] = "mmap", NextBuffer(t, "qbufInit"),
         mapped' = mapped \cup {<<camera.fd, camera.next>>},
         UNCHANGED <<kernel, device, failed, op, todo, i, index, saved>>
  PROVE  CInv' /\ Newer
<1> USE CameraAssumption, EmptyQueue
      DEF CInv, TypeOK, KernelOK, SetupOK, CallsOK, NextBuffer, LastBuffer, Goto,
          kernel
<1>1. KernelOK'
  OBVIOUS
<1>2. SetupOK'
  <2>1. camera.next \in Nat /\ camera.n \in 0 .. MaxBuffers /\ camera.next < camera.n
    BY DEF Building, Buffers
  <2>2. <<camera.fd, camera.next>> \in Fds \X Buffers
    BY DEF Alone, Initing, InitPCs
  <2>3. CASE LastBuffer
    <3>1. camera' = [camera EXCEPT !.next = 0] /\ 0 \in Buffers
      BY <2>3 DEF Buffers
    <3> QED BY <3>1, <2>2
  <2>4. CASE ~LastBuffer
    <3>1. camera' = [camera EXCEPT !.next = camera.next + 1] /\ camera.next + 1 \in Buffers
      BY <2>1, <2>4 DEF Buffers
    <3> QED BY <3>1, <2>2
  <2> QED BY <2>3, <2>4
<1>3. CallsOK'
  BY DEF PCs, InitPCs
<1>4. Alone'
  <2>1. camera'.fd = camera.fd
    OBVIOUS
  <2>2. \A u \in Threads : u # t => pc'[u] = "idle"
    BY DEF Alone, Initing, InitPCs
  <2>3. device = Closed /\ camera.fd \in open /\ pc'[t] \in InitPCs
    BY DEF Alone, Initing, InitPCs
  <2> QED BY <2>1, <2>2, <2>3 DEF Alone, Initing, InitPCs
<1>5. Building'
  <2>1. \A u \in Threads : u # t => pc'[u] = "idle"
    BY DEF Alone, Initing, InitPCs
  <2>2. camera.next \in Nat /\ camera.n \in 2 .. MaxBuffers /\ camera.next < camera.n
    BY DEF Building, Granted, Buffers
  <2>3. camera'.fd = camera.fd /\ camera'.n = camera.n /\ owner' = camera.fd
    BY DEF Building, Granted
  <2>4. \A b \in Buffers : buffer'[b] # "none" <=> b < camera.n
    BY <2>2 DEF Building, Granted
  <2>5. \A b \in Buffers : b < camera.next => <<camera.fd, b>> \in mapped
    BY DEF Building
  <2>6. CASE LastBuffer
    <3>1. pc'[t] = "qbufInit" /\ camera'.next = 0 /\ camera.next + 1 = camera.n
      BY <2>6
    <3>2. \A b \in Buffers : b < camera.n => <<camera.fd, b>> \in mapped'
      BY <2>2, <2>5, <3>1 DEF Buffers
    <3>3. camera'.n >= 2 /\ camera'.next < camera'.n
      BY <2>2, <2>3, <3>1
    <3> QED BY ONLY <2>1, <2>3, <2>4, <3>1, <3>2, <3>3 DEF Building, Granted
  <2>7. CASE ~LastBuffer
    <3>1. pc'[t] = "mmap" /\ camera'.next = camera.next + 1 /\ camera'.next < camera.n
      BY <2>2, <2>7
    <3>2. \A b \in Buffers : b < camera.next + 1 => <<camera.fd, b>> \in mapped'
      BY <2>2, <2>5 DEF Buffers
    <3>3. camera'.n >= 2 /\ camera'.next < camera'.n
      BY <2>2, <2>3, <3>1
    <3> QED BY ONLY <2>1, <2>3, <2>4, <3>1, <3>2, <3>3 DEF Building, Granted
  <2> QED BY <2>6, <2>7
<1>6. DeviceReady'
  BY DEF DeviceReady
<1>7. Queue'
  BY DEF Queue
<1>8. HeldExclusive'
  BY DEF HeldExclusive, Holding
<1>9. Fresh'
  BY DEF Fresh, Queue, Alone, Initing, InitPCs
<1>10. Newer
  BY DEF Newer
<1> QED BY <1>1, <1>2, <1>3, <1>4, <1>5, <1>6, <1>7, <1>8, <1>9, <1>10

LEMMA MmapStep ==
  ASSUME CInv, NEW t \in Threads, Mmap(t)
  PROVE  CInv' /\ Newer
<1>1. CASE mapped' = mapped \cup {<<camera.fd, camera.next>>} /\ NextBuffer(t, "qbufInit")
          /\ UNCHANGED <<device, failed, op, todo, i, index, saved>>
  BY <1>1, MmapMaps DEF Mmap
<1>2. CASE InitFails(t)
  BY <1>2, InitFailsKeeps DEF Mmap, Initing, InitPCs
<1> QED BY <1>1, <1>2 DEF Mmap

LEMMA QbufInitStep ==
  ASSUME CInv, NEW t \in Threads, QbufInit(t)
  PROVE  CInv' /\ Newer
<1> USE CameraAssumption, EmptyQueue
      DEF CInv, TypeOK, KernelOK, SetupOK, CallsOK, QbufInit, NextBuffer,
          LastBuffer, Goto, kernel, setup, calls
<1>1. KernelOK'
  OBVIOUS
<1>2. SetupOK'
  <2>1. camera.next \in Nat /\ camera.n \in 0 .. MaxBuffers /\ camera.next < camera.n
    BY DEF Building, Buffers
  <2>2. <<camera.fd, camera.next>> \in Fds \X Buffers
    BY DEF Alone, Initing, InitPCs
  <2>3. CASE LastBuffer
    <3>1. camera' = [camera EXCEPT !.next = 0] /\ 0 \in Buffers
      BY <2>3 DEF Buffers
    <3> QED BY <3>1, <2>2
  <2>4. CASE ~LastBuffer
    <3>1. camera' = [camera EXCEPT !.next = camera.next + 1] /\ camera.next + 1 \in Buffers
      BY <2>1, <2>4 DEF Buffers
    <3> QED BY <3>1, <2>2
  <2> QED BY <2>3, <2>4
<1>3. CallsOK'
  BY DEF PCs, InitPCs
<1>4. Alone'
  <2>1. camera'.fd = camera.fd
    OBVIOUS
  <2>2. \A u \in Threads : u # t => pc'[u] = "idle"
    BY DEF Alone, Initing, InitPCs
  <2>3. device = Closed /\ camera.fd \in open /\ pc'[t] \in InitPCs
    BY DEF Alone, Initing, InitPCs
  <2> QED BY <2>1, <2>2, <2>3 DEF Alone, Initing, InitPCs
<1>5. Building'
  <2>1. \A u \in Threads : u # t => pc'[u] = "idle"
    BY DEF Alone, Initing, InitPCs
  <2>2. camera.next \in Nat /\ camera.n \in 2 .. MaxBuffers /\ camera.next < camera.n
    BY DEF Building, Granted, Buffers
  <2>3. camera'.fd = camera.fd /\ camera'.n = camera.n /\ owner' = camera.fd
    BY DEF Building, Granted
  <2>4. \A b \in Buffers : buffer'[b] # "none" <=> b < camera.n
    BY <2>2 DEF Building, Granted
  <2>5. \A b \in Buffers : b < camera.n => <<camera.fd, b>> \in mapped
    BY DEF Building
  <2>6. CASE LastBuffer
    <3>1. pc'[t] = "commit" /\ camera'.next = 0 /\ camera.next + 1 = camera.n
      BY <2>6
    <3>2. \A b \in Buffers : b < camera.n => <<camera.fd, b>> \in mapped'
      BY <2>2, <2>5, <3>1
    <3>3. camera'.n >= 2 /\ camera'.next < camera'.n
      BY <2>2, <2>3, <3>1
    <3> QED BY ONLY <2>1, <2>3, <2>4, <3>1, <3>2, <3>3 DEF Building, Granted
  <2>7. CASE ~LastBuffer
    <3>1. pc'[t] = "qbufInit" /\ camera'.next = camera.next + 1
      BY <2>7
    <3>4. camera'.next < camera.n
      BY <2>2, <2>7, <3>1
    <3>2. \A b \in Buffers : b < camera.n => <<camera.fd, b>> \in mapped'
      BY <2>2, <2>5
    <3>3. camera'.n >= 2 /\ camera'.next < camera'.n
      BY <2>2, <2>3, <3>4
    <3> QED BY ONLY <2>1, <2>3, <2>4, <3>1, <3>2, <3>3 DEF Building, Granted
  <2> QED BY <2>6, <2>7
<1>6. DeviceReady'
  BY DEF DeviceReady, Building, Granted
<1>7. Queue'
  BY DEF Queue, Alone, Initing, InitPCs
<1>8. HeldExclusive'
  BY DEF HeldExclusive, Holding, Alone, Initing, InitPCs
<1>9. Fresh'
  BY DEF Fresh, Queue, Alone, Initing, InitPCs
<1>10. Newer
  BY DEF Newer
<1> QED BY <1>1, <1>2, <1>3, <1>4, <1>5, <1>6, <1>7, <1>8, <1>9, <1>10

LEMMA QbufInitFailsStep ==
  ASSUME CInv, NEW t \in Threads, QbufInitFails(t)
  PROVE  CInv' /\ Newer
BY InitFailsKeeps DEF QbufInitFails, Initing, InitPCs

LEMMA CommitStep ==
  ASSUME CInv, NEW t \in Threads, Commit(t)
  PROVE  CInv' /\ Newer
<1> USE CameraAssumption, EmptyQueue
      DEF CInv, TypeOK, KernelOK, SetupOK, CallsOK, Commit, Return, Goto, kernel,
          setup, calls
<1>1. KernelOK'
  OBVIOUS
<1>2. SetupOK'
  BY DEF Buffers, NoCamera
<1>3. CallsOK'
  BY DEF PCs, Buffers
<1>4. Alone'
  BY DEF Alone, Initing, InitPCs
<1>5. Building'
  BY DEF Building, Granted, Alone, Initing, InitPCs
<1>6. DeviceReady'
  <2>1. device' = [fd |-> camera.fd, n |-> camera.n]
    OBVIOUS
  <2>2. Initing(t) /\ Granted(t)
    BY DEF Initing, Granted, InitPCs
  <2>3. camera.fd \in open /\ owner = camera.fd
    BY <2>2 DEF Alone, Building
  <2>4. \A b \in 0 .. camera.n - 1 : b \in Buffers /\ <<camera.fd, b>> \in mapped
    BY DEF Building, Buffers
  <2>5. \A b \in Buffers : buffer[b] # "none" <=> b < camera.n
    BY <2>2 DEF Building
  <2> QED BY <2>1, <2>3, <2>4, <2>5 DEF DeviceReady
<1>7. Queue'
  BY DEF Queue, Alone, Initing, InitPCs
<1>8. HeldExclusive'
  BY DEF HeldExclusive, Holding
<1>9. Fresh'
  BY DEF Fresh, Holding
<1>10. Newer
  BY DEF Newer
<1> QED BY <1>1, <1>2, <1>3, <1>4, <1>5, <1>6, <1>7, <1>8, <1>9, <1>10

LEMMA DestroyStep ==
  ASSUME CInv, Destroy
  PROVE  CInv' /\ Newer
<1> USE CameraAssumption, EmptyQueue
      DEF CInv, TypeOK, KernelOK, SetupOK, CallsOK, Destroy, kernel, setup, calls
<1>1. KernelOK'
  OBVIOUS
<1>2. SetupOK'
  BY DEF Closed
<1>3. CallsOK'
  OBVIOUS
<1>4. Alone'
  BY DEF Alone, Initing, AtRest
<1>5. Building'
  BY DEF Building, Granted, Alone, Initing, InitPCs
<1>6. DeviceReady'
  BY DEF DeviceReady
<1>7. Queue'
  BY DEF Queue
<1>8. HeldExclusive'
  BY DEF HeldExclusive, Holding, AtRest
<1>9. Fresh'
  BY DEF Fresh
<1>10. Newer
  BY DEF Newer
<1> QED BY <1>1, <1>2, <1>3, <1>4, <1>5, <1>6, <1>7, <1>8, <1>9, <1>10

LEMMA StartCaptureStep ==
  ASSUME CInv, NEW t \in Threads, NEW count \in FrameCounts, StartCapture(t,
         count)
  PROVE  CInv' /\ Newer
<1> USE CameraAssumption, EmptyQueue
      DEF CInv, TypeOK, KernelOK, SetupOK, CallsOK, StartCapture, Ready, Goto,
          kernel, setup, calls
<1>1. KernelOK'
  OBVIOUS
<1>2. SetupOK'
  OBVIOUS
<1>3. CallsOK'
  BY DEF PCs
<1>4. Alone'
  BY DEF Alone, Initing, InitPCs
<1>5. Building'
  BY DEF Building, Granted
<1>6. DeviceReady'
  BY DEF DeviceReady
<1>7. Queue'
  BY DEF Queue
<1>8. HeldExclusive'
  BY DEF HeldExclusive, Holding
<1>9. Fresh'
  BY DEF Fresh, Holding
<1>10. Newer
  BY DEF Newer
<1> QED BY <1>1, <1>2, <1>3, <1>4, <1>5, <1>6, <1>7, <1>8, <1>9, <1>10

LEMMA StreamOnStep ==
  ASSUME CInv, NEW t \in Threads, StreamOn(t)
  PROVE  CInv' /\ Newer
<1>1. CASE streaming' = TRUE /\ Goto(t, "select") /\ UNCHANGED <<op, todo, i, index, saved>>
  BY <1>1, CallWaits DEF StreamOn
<1>2. CASE Return(t) /\ UNCHANGED streaming
  BY <1>2, CallEnds DEF StreamOn, kernel, Initing, InitPCs
<1> QED BY <1>1, <1>2 DEF StreamOn

LEMMA SelectReadyStep ==
  ASSUME CInv, NEW t \in Threads, SelectReady(t)
  PROVE  CInv' /\ Newer
<1> USE CameraAssumption, EmptyQueue
      DEF CInv, TypeOK, KernelOK, SetupOK, CallsOK, SelectReady, Goto, kernel,
          setup, calls
<1>1. KernelOK'
  OBVIOUS
<1>2. SetupOK'
  OBVIOUS
<1>3. CallsOK'
  BY DEF PCs
<1>4. Alone'
  BY DEF Alone, Initing, InitPCs
<1>5. Building'
  BY DEF Building, Granted
<1>6. DeviceReady'
  BY DEF DeviceReady
<1>7. Queue'
  BY DEF Queue
<1>8. HeldExclusive'
  BY DEF HeldExclusive, Holding
<1>9. Fresh'
  BY DEF Fresh, Holding
<1>10. Newer
  BY DEF Newer
<1> QED BY <1>1, <1>2, <1>3, <1>4, <1>5, <1>6, <1>7, <1>8, <1>9, <1>10

LEMMA SelectGivesUpStep ==
  ASSUME CInv, NEW t \in Threads, SelectGivesUp(t)
  PROVE  CInv' /\ Newer
BY CallEnds DEF SelectGivesUp, Initing, InitPCs

\* DQBUF takes the oldest frame and leaves the others in their order.
LEMMA Dequeued ==
  ASSUME CInv, NEW t \in Threads, Dqbuf(t)
  PROVE  /\ 1 \in 1 .. Len(done) /\ done[1] \in Buffers /\ Head(done) = done[1]
         /\ Len(done') = Len(done) - 1
         /\ \A k \in 1 .. Len(done') :
              k + 1 \in 1 .. Len(done) /\ done'[k] = done[k + 1]
<1>1. done \in Seq(Buffers) /\ done # <<>> /\ done' = Tail(done)
  BY DEF CInv, TypeOK, KernelOK, Dqbuf
<1>2. Len(done) \in Nat /\ Len(done) > 0 /\ Len(done') = Len(done) - 1
  BY <1>1
<1> QED BY <1>1, <1>2

LEMMA DqbufStep ==
  ASSUME CInv, NEW t \in Threads, Dqbuf(t)
  PROVE  CInv' /\ Newer
<1>0. /\ 1 \in 1 .. Len(done) /\ done[1] \in Buffers /\ Head(done) = done[1]
      /\ Len(done') = Len(done) - 1
      /\ \A k \in 1 .. Len(done') :
           k + 1 \in 1 .. Len(done) /\ done'[k] = done[k + 1]
  BY Dequeued
<1> USE CameraAssumption, EmptyQueue
      DEF CInv, TypeOK, KernelOK, SetupOK, CallsOK, Dqbuf, Goto, kernel, setup,
          calls
<1>1. KernelOK'
  <2>1. Tail(done) \in Seq(Buffers) /\ Head(done) \in Buffers
    OBVIOUS
  <2> QED BY <2>1
<1>2. SetupOK'
  OBVIOUS
<1>3. CallsOK'
  <2>1. Head(done) \in Buffers
    OBVIOUS
  <2> QED BY <2>1 DEF PCs
<1>4. Alone'
  BY DEF Alone, Initing, InitPCs
<1>5. Building'
  BY DEF Building, Granted, Alone, Initing, InitPCs
<1>6. DeviceReady'
  BY <1>0 DEF DeviceReady, Queue
<1>7. Queue'
  <2>1. \A k \in 1 .. Len(done') : done[k + 1] # done[1]
    BY <1>0, Filled DEF Fresh
  <2> QED BY <2>1, <1>0, Filled DEF Queue, Alone, Initing, InitPCs
<1>8. HeldExclusive'
  BY <1>0 DEF HeldExclusive, Holding, Queue
<1>9. Fresh'
  <2>1. /\ index'[t] = done[1] /\ pc'[t] = "save"
        /\ \A u \in Threads \ {t} : index'[u] = index[u] /\ pc'[u] = pc[u]
    BY <1>0
  <2>2. \A u \in Threads : saved[u] < image[done[1]]
    BY <1>0 DEF Fresh
  <2>3. \A k \in 1 .. Len(done') : image[done[1]] < image[done'[k]]
    <3>1. TAKE k \in 1 .. Len(done')
    <3>2. 1 < k + 1 /\ k + 1 \in 1 .. Len(done)
      BY <1>0
    <3> QED BY <1>0, <3>2 DEF Fresh
  <2>4. \A k, l \in 1 .. Len(done') : k < l => image[done'[k]] < image[done'[l]]
    <3>1. TAKE k, l \in 1 .. Len(done')
    <3>2. k < l => k + 1 < l + 1 /\ k + 1 \in 1 .. Len(done) /\ l + 1 \in 1 .. Len(done)
      BY <1>0
    <3> QED BY <1>0, <3>2 DEF Fresh
  <2>5. \A u \in Threads, k \in 1 .. Len(done') :
         saved[u] < image[done'[k]] /\ (Holding(u) => image[index[u]] < image[done'[k]])
    BY <1>0 DEF Fresh
  <2>6. \A u \in Threads, k \in 1 .. Len(done') :
         Holding(u)' => image[index'[u]] < image[done'[k]]
    BY <2>1, <2>3, <2>5 DEF Holding
  <2>7. \A u \in Threads : pc'[u] = "save" => saved[u] < image[index'[u]]
    BY <2>1, <2>2 DEF Fresh
  <2>8. /\ \A b \in Buffers : image[b] <= frames
         /\ \A u \in Threads : (pc'[u] = "idle" => saved[u] = 0) /\ saved[u] <= frames
    BY <2>1 DEF Fresh
  <2> QED BY <2>4, <2>5, <2>6, <2>7, <2>8 DEF Fresh
<1>10. Newer
  BY DEF Newer
<1> QED BY <1>1, <1>2, <1>3, <1>4, <1>5, <1>6, <1>7, <1>8, <1>9, <1>10

LEMMA DqbufFailsStep ==
  ASSUME CInv, NEW t \in Threads, DqbufFails(t)
  PROVE  CInv' /\ Newer
<1>1. CASE Goto(t, "select") /\ UNCHANGED <<op, todo, i, index, saved>>
  <2>1. pc[t] = "dqbuf" /\ UNCHANGED <<open, owner, streaming, buffer, done, image, frames>>
    BY DEF DqbufFails, kernel
  <2>2. UNCHANGED setup
    BY DEF DqbufFails
  <2>3. streaming' \in BOOLEAN
    BY <2>1 DEF CInv, TypeOK, KernelOK
  <2> QED BY <1>1, <2>1, <2>2, <2>3, CallWaits
<1>2. CASE Return(t)
  <2>1. pc[t] = "dqbuf" /\ UNCHANGED <<kernel, setup>>
    BY DEF DqbufFails
  <2>2. ~Initing(t) /\ pc[t] # "save"
    BY <2>1 DEF Initing, InitPCs
  <2> QED BY <1>2, <2>1, <2>2, CallEnds
<1> QED BY <1>1, <1>2 DEF DqbufFails

LEMMA SaveStep ==
  ASSUME CInv, NEW t \in Threads, Save(t)
  PROVE  CInv' /\ Newer
<1> USE CameraAssumption, EmptyQueue
      DEF CInv, TypeOK, KernelOK, SetupOK, CallsOK, Save, Source, AfterSave, Goto,
          kernel, setup, calls
<1>1. KernelOK'
  OBVIOUS
<1>2. SetupOK'
  OBVIOUS
<1>3. CallsOK'
  <2>1. image[index[t]] \in 0 .. MaxFrames
    OBVIOUS
  <2> QED BY <2>1 DEF PCs
<1>4. Alone'
  BY DEF Alone, Initing, InitPCs
<1>5. Building'
  BY DEF Building, Granted
<1>6. DeviceReady'
  BY DEF DeviceReady
<1>7. Queue'
  BY DEF Queue
<1>8. HeldExclusive'
  BY DEF HeldExclusive, Holding
<1>9. Fresh'
  BY DEF Fresh, Holding
<1>10. Newer
  BY DEF Fresh, Newer
<1> QED BY <1>1, <1>2, <1>3, <1>4, <1>5, <1>6, <1>7, <1>8, <1>9, <1>10

LEMMA QbufStep ==
  ASSUME CInv, NEW t \in Threads, Qbuf(t)
  PROVE  CInv' /\ Newer
<1> USE CameraAssumption, EmptyQueue
      DEF CInv, TypeOK, KernelOK, SetupOK, CallsOK, Qbuf, Requeued, Return, Goto,
          kernel, setup, calls
<1>1. KernelOK'
  OBVIOUS
<1>2. SetupOK'
  OBVIOUS
<1>3. CallsOK'
  <2>1. CASE op[t] = "capture" /\ (todo[t] = 0 \/ i[t] + 1 < todo[t])
    <3>1. i' = [i EXCEPT ![t] = i[t] + 1] /\ pc' = [pc EXCEPT ![t] = "select"]
      BY <2>1
    <3>2. i[t] + 1 \in Nat
      OBVIOUS
    <3>3. UNCHANGED <<op, todo, index, saved>>
      BY <2>1
    <3> QED BY <3>1, <3>2, <3>3 DEF PCs
  <2>2. CASE ~(op[t] = "capture" /\ (todo[t] = 0 \/ i[t] + 1 < todo[t]))
    <3>1. Return(t)
      BY <2>2
    <3>2. 0 \in Buffers
      BY DEF Buffers
    <3> QED BY <3>1, <3>2 DEF PCs
  <2> QED BY <2>1, <2>2
<1>4. Alone'
  BY DEF Alone, Initing, InitPCs
<1>5. Building'
  <2>1. ~Initing(t) /\ pc'[t] \notin InitPCs
    BY DEF Initing, InitPCs
  <2>2. \A u \in Threads : u # t => pc'[u] = pc[u]
    OBVIOUS
  <2>3. \A b \in Buffers : buffer'[b] # "none" <=> buffer[b] # "none"
    OBVIOUS
  <2> QED BY <2>1, <2>2, <2>3 DEF Building, Granted, InitPCs
<1>6. DeviceReady'
  BY DEF DeviceReady
<1>7. Queue'
  BY DEF Queue
<1>8. HeldExclusive'
  <2>1. \A u \in Threads : u # t => pc'[u] = pc[u] /\ index'[u] = index[u] /\ saved'[u] = saved[u]
    OBVIOUS
  <2>2. pc'[t] \in {"idle", "select"}
    OBVIOUS
  <2>3. \A u \in Threads : u # t /\ Holding(u) => buffer'[index[u]] = buffer[index[u]]
    BY DEF HeldExclusive, Holding
  <2>4. \A u \in Threads : Holding(u)' => u # t /\ Holding(u) /\ index'[u] = index[u]
    BY <2>1, <2>2 DEF Holding
  <2>5. \A u \in Threads : Holding(u)' => buffer'[index'[u]] = "user"
    BY <2>3, <2>4 DEF HeldExclusive
  <2>6. \A u, v \in Threads : Holding(u)' /\ Holding(v)' /\ u # v => index'[u] # index'[v]
    BY <2>4 DEF HeldExclusive
  <2> HIDE DEF CInv, Qbuf
  <2> QED BY <2>5, <2>6 DEF HeldExclusive
<1>9. Fresh'
  <2>1. \A u \in Threads : u # t => pc'[u] = pc[u] /\ index'[u] = index[u] /\ saved'[u] = saved[u]
    OBVIOUS
  <2>2. \/ pc'[t] = "idle" /\ saved'[t] = 0
        \/ pc'[t] = "select" /\ saved'[t] = saved[t]
    <3>1. CASE op[t] = "capture" /\ (todo[t] = 0 \/ i[t] + 1 < todo[t])
      BY <3>1
    <3>2. CASE ~(op[t] = "capture" /\ (todo[t] = 0 \/ i[t] + 1 < todo[t]))
      BY <3>2
    <3> QED BY <3>1, <3>2
  <2>3. \A b \in Buffers : image'[b] <= frames'
    BY DEF Fresh
  <2>4. \A u \in Threads : saved'[u] = saved[u] \/ (pc'[u] = "idle" /\ saved'[u] = 0)
    BY <2>1, <2>2
  <2>5. \A u \in Threads : pc'[u] = "idle" => saved'[u] = 0
    BY <2>1, <2>2 DEF Fresh
  <2>6. \A u \in Threads : (pc'[u] = "idle" => saved'[u] = 0) /\ saved'[u] <= frames'
    BY <2>4, <2>5, Filled DEF Fresh
  <2>7. \A k, l \in 1 .. Len(done') : k < l => image'[done'[k]] < image'[done'[l]]
    BY DEF Fresh
  <2>8. \A u \in Threads, k \in 1 .. Len(done') : saved'[u] < image'[done'[k]]
    <3>1. TAKE u \in Threads, k \in 1 .. Len(done')
    <3>2. image' = image /\ done' = done
      OBVIOUS
    <3>3. saved[u] < image[done[k]] /\ 0 < image[done[k]]
      BY <3>2, Filled DEF Fresh
    <3> QED BY <2>4, <3>2, <3>3
  <2>9. \A u \in Threads, k \in 1 .. Len(done') :
         Holding(u)' => image'[index'[u]] < image'[done'[k]]
    BY <2>1, <2>2 DEF Fresh, Holding
  <2>10. \A u \in Threads : pc'[u] = "save" => saved'[u] < image'[index'[u]]
    BY <2>1, <2>2 DEF Fresh
  <2> QED BY <2>3, <2>6, <2>7, <2>8, <2>9, <2>10 DEF Fresh
<1>10. Newer
  BY DEF Newer
<1> QED BY <1>1, <1>2, <1>3, <1>4, <1>5, <1>6, <1>7, <1>8, <1>9, <1>10

LEMMA QbufFailsStep ==
  ASSUME CInv, NEW t \in Threads, QbufFails(t)
  PROVE  CInv' /\ Newer
BY CallEnds DEF QbufFails, Initing, InitPCs

LEMMA ReadStep ==
  ASSUME CInv, NEW t \in Threads, Read(t)
  PROVE  CInv' /\ Newer
<1> USE CameraAssumption, EmptyQueue
      DEF CInv, TypeOK, KernelOK, SetupOK, CallsOK, Read, Ready, Goto, kernel,
          setup, calls
<1>1. KernelOK'
  OBVIOUS
<1>2. SetupOK'
  OBVIOUS
<1>3. CallsOK'
  BY DEF PCs
<1>4. Alone'
  BY DEF Alone, Initing, InitPCs
<1>5. Building'
  BY DEF Building, Granted
<1>6. DeviceReady'
  BY DEF DeviceReady
<1>7. Queue'
  BY DEF Queue
<1>8. HeldExclusive'
  BY DEF HeldExclusive, Holding
<1>9. Fresh'
  BY DEF Fresh, Holding
<1>10. Newer
  BY DEF Newer
<1> QED BY <1>1, <1>2, <1>3, <1>4, <1>5, <1>6, <1>7, <1>8, <1>9, <1>10

LEMMA StopCaptureStep ==
  ASSUME CInv, NEW t \in Threads, StopCapture(t)
  PROVE  CInv' /\ Newer
<1> USE CameraAssumption, EmptyQueue
      DEF CInv, TypeOK, KernelOK, SetupOK, CallsOK, StopCapture, Ready, kernel,
          setup, calls
<1>1. KernelOK'
  OBVIOUS
<1>2. SetupOK'
  OBVIOUS
<1>3. CallsOK'
  OBVIOUS
<1>4. Alone'
  BY DEF Alone, Initing
<1>5. Building'
  BY DEF Building, Granted
<1>6. DeviceReady'
  BY DEF DeviceReady
<1>7. Queue'
  BY DEF Queue
<1>8. HeldExclusive'
  BY DEF HeldExclusive, Holding
<1>9. Fresh'
  BY DEF Fresh
<1>10. Newer
  BY DEF Newer
<1> QED BY <1>1, <1>2, <1>3, <1>4, <1>5, <1>6, <1>7, <1>8, <1>9, <1>10

LEMMA FillStep ==
  ASSUME CInv, NEW c \in Buffers, Fill(c)
  PROVE  CInv' /\ Newer
<1> USE CameraAssumption, EmptyQueue
      DEF CInv, TypeOK, KernelOK, SetupOK, CallsOK, Fill, kernel, setup, calls
<1>1. KernelOK'
  OBVIOUS
<1>2. SetupOK'
  OBVIOUS
<1>3. CallsOK'
  OBVIOUS
<1>4. Alone'
  BY DEF Alone, Initing
<1>5. Building'
  BY DEF Building, Granted
<1>6. DeviceReady'
  BY DEF DeviceReady
<1>7. Queue'
  BY DEF Queue
<1>8. HeldExclusive'
  BY DEF HeldExclusive, Holding
<1>9. Fresh'
  <2>1. Len(done') = Len(done) + 1 /\ done'[Len(done) + 1] = c
    BY Filled
  <2>2. \A k \in 1 .. Len(done) : done'[k] = done[k] /\ done[k] # c
    BY Filled DEF Queue
  <2>3. \A b \in Buffers \ {c} : image'[b] = image[b]
    OBVIOUS
  <2>4. image'[c] = frames + 1 /\ frames' = frames + 1
    OBVIOUS
  <2>5. \A k \in 1 .. Len(done) : image'[done'[k]] = image[done[k]] /\ image[done[k]] <= frames
    BY <2>2, <2>3, Filled DEF Fresh
  <2>6. \A u \in Threads : Holding(u) => index[u] # c /\ image'[index[u]] = image[index[u]]
    BY <2>3 DEF HeldExclusive
  <2>7. \A k \in 1 .. Len(done') : k = Len(done) + 1 \/ k \in 1 .. Len(done)
    BY <2>1, Filled
  <2>8. \A k, l \in 1 .. Len(done') : k < l => image'[done'[k]] < image'[done'[l]]
    <3>1. TAKE k, l \in 1 .. Len(done')
    <3>2. HAVE k < l
    <3>3. k \in 1 .. Len(done)
      BY <2>1, <3>2, Filled
    <3>4. CASE l \in 1 .. Len(done)
      BY <2>5, <3>2, <3>3, <3>4 DEF Fresh
    <3>5. CASE l = Len(done) + 1
      BY <2>1, <2>4, <2>5, <3>3, <3>5, Filled
    <3> QED BY <2>7, <3>4, <3>5
  <2>9. \A u \in Threads, k \in 1 .. Len(done') : saved[u] < image'[done'[k]]
    BY <2>1, <2>4, <2>5, <2>7 DEF Fresh
  <2>10. \A u \in Threads, k \in 1 .. Len(done') :
          Holding(u) => image'[index[u]] < image'[done'[k]]
    BY <2>1, <2>4, <2>5, <2>6, <2>7 DEF Fresh
  <2>11. \A b \in Buffers : image'[b] <= frames'
    BY <2>3, <2>4 DEF Fresh
  <2>12. \A u \in Threads : saved'[u] <= frames' /\ (pc'[u] = "save" => saved'[u] < image'[index'[u]])
    BY <2>4, <2>6 DEF Fresh
  <2> QED BY <2>8, <2>9, <2>10, <2>11, <2>12 DEF Fresh, Holding
<1>10. Newer
  BY DEF Newer
<1> QED BY <1>1, <1>2, <1>3, <1>4, <1>5, <1>6, <1>7, <1>8, <1>9, <1>10

LEMMA NextKeeps == CInv /\ [Next]_vars => CInv' /\ [Newer]_vars
<1> SUFFICES ASSUME CInv, [Next]_vars PROVE CInv' /\ [Newer]_vars
  OBVIOUS
<1>1. CASE \E t \in Threads : Opening(t)
  BY <1>1, OpenStep, OpenFailsStep, NegotiateStep, ReqBufsStep, ReqBufsFailsStep,
     ExitStep, CallocStep, MmapStep, QbufInitStep, QbufInitFailsStep, CommitStep
     DEF Opening
<1>2. CASE \E t \in Threads : Step(t)
  BY <1>2, StreamOnStep, SelectReadyStep, SelectGivesUpStep, DqbufStep,
     DqbufFailsStep, SaveStep, QbufStep, QbufFailsStep DEF Step
<1>3. CASE \E t \in Threads : Client(t)
  BY <1>3, StartCaptureStep, ReadStep, StopCaptureStep DEF Client
<1>4. CASE \E b \in Buffers : Fill(b)
  BY <1>4, FillStep
<1>5. CASE Destroy
  BY <1>5, DestroyStep
<1>6. CASE UNCHANGED vars
  BY <1>6 DEF vars, kernel, setup, calls, CInv, TypeOK, KernelOK, SetupOK,
     CallsOK, Alone, Initing, Building,
     Granted, DeviceReady, Queue, HeldExclusive, Holding, Fresh
<1> QED BY <1>1, <1>2, <1>3, <1>4, <1>5, <1>6 DEF Next

LEMMA Invariance == Spec => []CInv
BY Initially, NextKeeps, PTL DEF Spec

-----------------------------------------------------------------------------
\* Every variable stays in its range: init never goes past the buffers the
\* driver granted, and DQBUF only yields buffers of the device.
THEOREM TypeCorrect == Spec => []TypeOK
BY Invariance, PTL DEF CInv

\* A device that kbx_v4l2_init has filled in is complete, whichever inits have
\* failed before.
THEOREM FilledInIsReady == Spec => []DeviceReady
BY Invariance, PTL DEF CInv

\* A frame between DQBUF and QBUF is in the hands of one call and out of the
\* driver's reach, however captures, reads, stops and restarts interleave.
THEOREM HeldAreExclusive == Spec => []HeldExclusive
BY Invariance, PTL DEF CInv

\* Each call saves every frame once and in the order of the stream.
THEOREM SavedAreFresh == Spec => SavesFresh
<1>1. CInv /\ [Next]_vars => [Newer]_vars
  BY NextKeeps
<1> QED BY <1>1, Invariance, PTL DEF Spec, SavesFresh, Newer

-----------------------------------------------------------------------------
(***************************************************************************)
(* What failed inits leave behind.  A descriptor is the device's, that of  *)
(* an init in progress, or abandoned by an init that has failed; every     *)
(* mapping and the ownership of the queue go with an open descriptor.      *)
(***************************************************************************)
Abandoned == open \ {device.fd, camera.fd}

Leaks ==
  /\ IsFiniteSet(Abandoned) /\ Cardinality(Abandoned) = failed
  /\ owner # None => owner \in open
  /\ \A m \in mapped : /\ m[1] \in open
                       /\ m[1] = device.fd => m[2] < device.n
                       /\ m[1] = camera.fd => m[2] < camera.n
  /\ \A t \in Threads : pc[t] \in {"setup", "reqbufs"} => camera.n = 0
  /\ (\A t \in Threads : ~Initing(t)) => camera = NoCamera

LEMMA NothingAbandoned ==
  ASSUME open = {}, failed = 0
  PROVE  IsFiniteSet(Abandoned) /\ Cardinality(Abandoned) = failed
BY FS_EmptySet DEF Abandoned

\* Calls on an open device, and the driver, leave all of this alone.
LEMMA CallsKeepLeaks ==
  ASSUME CInv, Leaks, UNCHANGED <<open, owner, setup>>,
         \A t \in Threads : pc'[t] # pc[t] =>
           pc[t] \notin InitPCs /\ pc'[t] \notin InitPCs
  PROVE  Leaks'
BY DEF Leaks, Abandoned, Initing, InitPCs, setup

LEMMA StepKeepsSetup ==
  ASSUME CInv, NEW t \in Threads, Step(t) \/ Client(t)
  PROVE  /\ UNCHANGED <<open, owner, setup>>
         /\ \A u \in Threads : pc'[u] # pc[u] =>
              pc[u] \notin InitPCs /\ pc'[u] \notin InitPCs
<1> USE DEF CInv, TypeOK, CallsOK, InitPCs, Goto, Return, kernel, setup, calls
<1>1. CASE StreamOn(t)
  BY <1>1 DEF StreamOn
<1>2. CASE SelectReady(t)
  BY <1>2 DEF SelectReady
<1>3. CASE SelectGivesUp(t)
  BY <1>3 DEF SelectGivesUp
<1>4. CASE Dqbuf(t)
  BY <1>4 DEF Dqbuf
<1>5. CASE DqbufFails(t)
  BY <1>5 DEF DqbufFails
<1>6. CASE Save(t)
  BY <1>6 DEF Save, AfterSave
<1>7. CASE Qbuf(t)
  BY <1>7 DEF Qbuf
<1>8. CASE QbufFails(t)
  BY <1>8 DEF QbufFails
<1>9. ASSUME NEW count \in FrameCounts, StartCapture(t, count)
      PROVE  /\ UNCHANGED <<open, owner, setup>>
             /\ \A u \in Threads : pc'[u] # pc[u] =>
                  pc[u] \notin InitPCs /\ pc'[u] \notin InitPCs
  BY <1>9 DEF StartCapture, Ready
<1>10. CASE Read(t)
  BY <1>10 DEF Read, Ready
<1>11. CASE StopCapture(t)
  BY <1>11 DEF StopCapture, Ready
<1> QED
  BY <1>1, <1>2, <1>3, <1>4, <1>5, <1>6, <1>7, <1>8, <1>9, <1>10, <1>11
     DEF Step, Client

\* The descriptor of an init that fails is one more of those left behind.
LEMMA FailureAbandons ==
  ASSUME CInv, Leaks, NEW t \in Threads, Initing(t), InitFails(t), UNCHANGED kernel
  PROVE  Leaks'
<1>1. /\ open' = open /\ owner' = owner /\ mapped' = mapped /\ device' = device
      /\ camera' = NoCamera /\ failed' = failed + 1
  BY DEF InitFails, kernel
<1>2. camera.fd \in open /\ device = Closed /\ open \subseteq Fds
  BY DEF CInv, TypeOK, KernelOK, Alone
<1>3. None \notin open
  BY <1>2, CameraAssumption
<1>4. Abandoned' = Abandoned \cup {camera.fd} /\ camera.fd \notin Abandoned
  BY <1>1, <1>2, <1>3 DEF Abandoned, Closed, NoCamera
<1>5. IsFiniteSet(Abandoned)' /\ Cardinality(Abandoned)' = failed'
  BY <1>1, <1>4, FS_AddElement DEF Leaks
<1>6. \A u \in Threads : pc'[u] = "idle"
  BY DEF InitFails, Return, Goto, CInv, TypeOK, CallsOK, Alone
<1> QED BY <1>1, <1>2, <1>3, <1>5, <1>6 DEF Leaks, NoCamera, Closed

LEMMA OpenLeaks ==
  ASSUME CInv, Leaks, NEW t \in Threads, Open(t)
  PROVE  Leaks'
<1>1. camera = NoCamera /\ device = Closed
  BY DEF Open, AtRest, Leaks, Initing, InitPCs
<1>2. PICK fd \in Fds \ open :
        open' = open \cup {fd} /\ camera' = [fd |-> fd, n |-> 0, next |-> 0]
  BY DEF Open
<1>3. UNCHANGED <<owner, mapped, device, failed>>
  BY DEF Open
<1>4. open \subseteq Fds /\ None \notin Fds
  BY CameraAssumption DEF CInv, TypeOK, KernelOK
<1>5. Abandoned' = Abandoned
  BY <1>1, <1>2, <1>3, <1>4 DEF Abandoned, Closed, NoCamera
<1>6. \E u \in Threads : Initing(u)'
  BY DEF Open, Goto, Initing, InitPCs, CInv, TypeOK, CallsOK
<1> QED BY <1>1, <1>2, <1>3, <1>4, <1>5, <1>6 DEF Leaks, Closed, NoCamera

\* A step of init that succeeds, up to the last one.
LEMMA BuildingLeaks ==
  ASSUME CInv, Leaks, NEW t \in Threads, Initing(t), Initing(t)',
         UNCHANGED <<open, device, failed>>, camera'.fd = camera.fd,
         owner' \in {owner, camera.fd},
         \A m \in mapped' : m \in mapped \/ (m[1] = camera.fd /\ m[2] < camera'.n),
         camera'.n = camera.n \/ pc[t] = "reqbufs",
         pc'[t] \in {"setup", "reqbufs"} => pc[t] \in {"setup", "reqbufs"} /\ camera'.n = camera.n,
         \A u \in Threads \ {t} : pc'[u] = pc[u]
  PROVE  Leaks'
<1>1. /\ camera.fd \in open /\ device = Closed
      /\ \A u \in Threads \ {t} : pc'[u] = "idle"
  BY DEF CInv, Alone
<1>2. None \notin open
  BY CameraAssumption DEF CInv, TypeOK, KernelOK
<1>3. \A m \in mapped : m[1] = camera.fd => m[2] < camera'.n
  <2>1. CASE camera'.n = camera.n
    BY <2>1 DEF Leaks
  <2>2. CASE pc[t] = "reqbufs"
    <3>1. \A m \in mapped : m[1] = camera.fd => m[2] < 0
      BY <2>2 DEF Leaks
    <3>2. \A m \in mapped : m[2] \in Nat
      BY DEF CInv, TypeOK, SetupOK, Buffers
    <3> QED BY <3>1, <3>2
  <2> QED BY <2>1, <2>2
<1>4. Abandoned' = Abandoned
  BY DEF Abandoned
<1>5. \A m \in mapped' : /\ m[1] \in open
                         /\ m[1] = camera.fd => m[2] < camera'.n
                         /\ m[1] # device.fd
  BY <1>1, <1>2, <1>3 DEF Leaks, Closed
<1>6. \A u \in Threads : pc'[u] \in {"setup", "reqbufs"} => camera'.n = 0
  BY <1>1 DEF Leaks
<1> QED BY <1>1, <1>4, <1>5, <1>6 DEF Leaks

LEMMA CommitLeaks ==
  ASSUME CInv, Leaks, NEW t \in Threads, Commit(t)
  PROVE  Leaks'
<1>1. /\ device' = [fd |-> camera.fd, n |-> camera.n] /\ camera' = NoCamera
      /\ UNCHANGED <<open, owner, mapped, failed>>
  BY DEF Commit, kernel
<1>2. device = Closed /\ None \notin open
  BY CameraAssumption DEF Commit, CInv, TypeOK, KernelOK, Alone, Initing, InitPCs
<1>3. Abandoned' = Abandoned
  BY <1>1, <1>2 DEF Abandoned, Closed, NoCamera
<1>4. \A u \in Threads : pc'[u] = "idle"
  BY DEF Commit, Return, Goto, CInv, TypeOK, CallsOK, Alone, Initing, InitPCs
<1> QED BY <1>1, <1>2, <1>3, <1>4 DEF Leaks, NoCamera

LEMMA DestroyLeaks ==
  ASSUME CInv, Leaks, Destroy
  PROVE  Leaks'
<1>1. /\ open' = open \ {device.fd} /\ owner' = None /\ device' = Closed
      /\ mapped' = mapped \ ({device.fd} \X (0 .. device.n - 1))
      /\ UNCHANGED <<camera, failed, pc>>
  BY DEF Destroy, calls
<1>2. camera = NoCamera /\ None \notin open
  BY CameraAssumption DEF Destroy, AtRest, Leaks, Initing, InitPCs, CInv, TypeOK, KernelOK
<1>3. Abandoned' = Abandoned
  BY <1>1, <1>2 DEF Abandoned, Closed, NoCamera
<1>4. \A m \in mapped' : m \in mapped /\ m[1] # device.fd
  <2> SUFFICES ASSUME NEW m \in mapped', m[1] = device.fd PROVE FALSE
    BY <1>1
  <2>1. m \in mapped /\ m[2] < device.n /\ device.n \in Nat /\ m[2] \in Nat
        /\ m = <<m[1], m[2]>>
    BY <1>1, CameraAssumption DEF Leaks, CInv, TypeOK, SetupOK, Buffers
  <2>2. m[2] \in 0 .. device.n - 1
    BY <2>1
  <2>3. m \in {device.fd} \X (0 .. device.n - 1)
    BY <2>1, <2>2
  <2> QED BY <1>1, <2>3
<1> QED BY <1>1, <1>2, <1>3, <1>4 DEF Leaks, Closed, NoCamera, Initing

\* exit(EXIT_FAILURE): the kernel takes back whatever the process had.
LEMMA ExitLeaks ==
  ASSUME CInv, NEW t \in Threads, Exit(t)
  PROVE  Leaks'
<1>1. /\ open' = {} /\ owner' = None /\ mapped' = {} /\ camera' = NoCamera /\ failed' = 0
  BY DEF Exit
<1>2. IsFiniteSet(Abandoned)' /\ Cardinality(Abandoned)' = failed'
  BY <1>1, FS_EmptySet DEF Abandoned
<1> QED BY <1>1, <1>2 DEF Leaks, NoCamera

LEMMA OpeningLeaks ==
  ASSUME CInv, Leaks, NEW t \in Threads, Opening(t)
  PROVE  Leaks'
<1> USE DEF CInv, TypeOK, CallsOK, Goto
<1>1. CASE Open(t)
  BY <1>1, OpenLeaks
<1>2. CASE OpenFails(t)
  BY <1>2 DEF OpenFails, vars, kernel, setup, calls, Leaks, Abandoned, Initing
<1>3. CASE Negotiate(t)
  <2>1. Initing(t)
    BY <1>3 DEF Negotiate, Initing, InitPCs
  <2>2. CASE Goto(t, "reqbufs") /\ UNCHANGED <<setup, op, todo, i, index, saved>>
    <3>1. pc[t] = "setup" /\ pc'[t] = "reqbufs" /\ \A u \in Threads \ {t} : pc'[u] = pc[u]
      BY <1>3, <2>2 DEF Negotiate
    <3>2. UNCHANGED <<open, owner, mapped, device, camera, failed>>
      BY <1>3, <2>2 DEF Negotiate, kernel, setup
    <3>3. Initing(t)'
      BY <3>1 DEF Initing, InitPCs
    <3> QED BY <2>1, <3>1, <3>2, <3>3, BuildingLeaks
  <2>3. CASE InitFails(t)
    BY <1>3, <2>1, <2>3, FailureAbandons DEF Negotiate
  <2> QED BY <1>3, <2>2, <2>3 DEF Negotiate
<1>4. ASSUME NEW n \in 2 .. MaxBuffers, ReqBufs(t, n) PROVE Leaks'
  <2>1. Initing(t)
    BY <1>4 DEF ReqBufs, Initing, InitPCs
  <2>2. pc[t] = "reqbufs" /\ pc'[t] = "calloc" /\ \A u \in Threads \ {t} : pc'[u] = pc[u]
    BY <1>4 DEF ReqBufs
  <2>3. UNCHANGED <<open, mapped, device, failed>> /\ owner' = camera.fd
    BY <1>4 DEF ReqBufs
  <2>4. camera'.fd = camera.fd /\ \A m \in mapped' : m \in mapped
    BY <1>4, <2>3 DEF ReqBufs, SetupOK
  <2>5. Initing(t)'
    BY <2>2 DEF Initing, InitPCs
  <2> QED BY <2>1, <2>2, <2>3, <2>4, <2>5, BuildingLeaks
<1>5. CASE ReqBufsFails(t)
  BY <1>5, FailureAbandons DEF ReqBufsFails, Initing, InitPCs
<1>6. CASE Exit(t)
  BY <1>6, ExitLeaks
<1>7. CASE Calloc(t)
  <2>1. Initing(t)
    BY <1>7 DEF Calloc, Initing, InitPCs
  <2>2. CASE Goto(t, "mmap") /\ UNCHANGED <<setup, op, todo, i, index, saved>>
    <3>1. pc[t] = "calloc" /\ pc'[t] = "mmap" /\ \A u \in Threads \ {t} : pc'[u] = pc[u]
      BY <1>7, <2>2 DEF Calloc
    <3>2. UNCHANGED <<open, owner, mapped, device, camera, failed>>
      BY <1>7, <2>2 DEF Calloc, kernel, setup
    <3>3. Initing(t)'
      BY <3>1 DEF Initing, InitPCs
    <3> QED BY <2>1, <3>1, <3>2, <3>3, BuildingLeaks
  <2>3. CASE InitFails(t)
    BY <1>7, <2>1, <2>3, FailureAbandons DEF Calloc
  <2> QED BY <1>7, <2>2, <2>3 DEF Calloc
<1>8. CASE Mmap(t)
  <2>1. Initing(t)
    BY <1>8 DEF Mmap, Initing, InitPCs
  <2>2. CASE /\ mapped' = mapped \cup {<<camera.fd, camera.next>>}
             /\ NextBuffer(t, "qbufInit")
             /\ UNCHANGED <<device, failed, op, todo, i, index, saved>>
    <3>1. /\ pc[t] = "mmap" /\ pc'[t] \in {"mmap", "qbufInit"}
          /\ \A u \in Threads \ {t} : pc'[u] = pc[u]
      BY <1>8, <2>2 DEF Mmap, NextBuffer
    <3>2. UNCHANGED <<open, owner, device, failed>>
      BY <1>8, <2>2 DEF Mmap, kernel
    <3>3. camera'.fd = camera.fd /\ camera'.n = camera.n
      BY <2>2 DEF NextBuffer, SetupOK
    <3>4. camera.next < camera.n
      BY <3>1 DEF Building
    <3>5. \A m \in mapped' : m \in mapped \/ (m[1] = camera.fd /\ m[2] < camera'.n)
      BY <2>2, <3>3, <3>4
    <3>6. Initing(t)'
      BY <3>1 DEF Initing, InitPCs
    <3> QED BY <2>1, <3>1, <3>2, <3>3, <3>5, <3>6, BuildingLeaks
  <2>3. CASE InitFails(t)
    BY <1>8, <2>1, <2>3, FailureAbandons DEF Mmap
  <2> QED BY <1>8, <2>2, <2>3 DEF Mmap
<1>9. CASE QbufInit(t)
  <2>1. Initing(t)
    BY <1>9 DEF QbufInit, Initing, InitPCs
  <2>2. /\ pc[t] = "qbufInit" /\ pc'[t] \in {"qbufInit", "commit"}
        /\ \A u \in Threads \ {t} : pc'[u] = pc[u]
    BY <1>9 DEF QbufInit, NextBuffer
  <2>3. UNCHANGED <<open, owner, mapped, device, failed>>
    BY <1>9 DEF QbufInit
  <2>4. camera'.fd = camera.fd /\ camera'.n = camera.n
    BY <1>9 DEF QbufInit, NextBuffer, SetupOK
  <2>5. Initing(t)'
    BY <2>2 DEF Initing, InitPCs
  <2> QED BY <2>1, <2>2, <2>3, <2>4, <2>5, BuildingLeaks
<1>10. CASE QbufInitFails(t)
  BY <1>10, FailureAbandons DEF QbufInitFails, Initing, InitPCs
<1>11. CASE Commit(t)
  BY <1>11, CommitLeaks
<1> QED
  BY <1>1, <1>2, <1>3, <1>4, <1>5, <1>6, <1>7, <1>8, <1>9, <1>10, <1>11 DEF Opening

LEMMA LeaksInitially == Init => Leaks
<1> SUFFICES ASSUME Init PROVE Leaks
  OBVIOUS
<1>1. IsFiniteSet(Abandoned) /\ Cardinality(Abandoned) = failed
  BY NothingAbandoned DEF Init
<1> QED BY <1>1 DEF Init, Leaks, NoCamera

LEMMA LeaksNext == CInv /\ Leaks /\ [Next]_vars => Leaks'
<1> SUFFICES ASSUME CInv, Leaks, [Next]_vars PROVE Leaks'
  OBVIOUS
<1>1. ASSUME NEW t \in Threads, Opening(t) PROVE Leaks'
  BY <1>1, OpeningLeaks
<1>2. ASSUME NEW t \in Threads, Step(t) \/ Client(t) PROVE Leaks'
  BY <1>2, StepKeepsSetup, CallsKeepLeaks
<1>3. CASE \E b \in Buffers : Fill(b)
  BY <1>3, CallsKeepLeaks DEF Fill, calls
<1>4. CASE Destroy
  BY <1>4, DestroyLeaks
<1>5. CASE UNCHANGED vars
  BY <1>5, CallsKeepLeaks DEF vars, kernel, calls
<1> QED BY <1>1, <1>2, <1>3, <1>4, <1>5 DEF Next

\* Each failed init leaves one descriptor open, with the queue it owns and
\* the buffers it has mapped; a device that is destroyed leaves nothing.
THEOREM OnlyFailuresLeak == Spec => []OnlyFailedInitsLeak
<1>1. CInv /\ Leaks => OnlyFailedInitsLeak
  <2> SUFFICES ASSUME CInv, Leaks, AtRest PROVE OnlyFailedInitsLeak
    BY DEF OnlyFailedInitsLeak
  <2>1. camera = NoCamera
    BY DEF AtRest, Leaks, Initing, InitPCs
  <2>2. None \notin open
    BY CameraAssumption DEF CInv, TypeOK, KernelOK
  <2>3. open \ {device.fd} = Abandoned
    BY <2>1, <2>2 DEF Abandoned, NoCamera
  <2>4. Cardinality(open \ {device.fd}) = failed
    BY <2>3 DEF Leaks
  <2> QED BY <2>4 DEF Leaks, OnlyFailedInitsLeak
<1> QED BY <1>1, LeaksInitially, LeaksNext, Invariance, PTL DEF Spec

-----------------------------------------------------------------------------
(***************************************************************************)
(* The buffers go round.  init queues every buffer the driver has granted, *)
(* and as long as nobody stops the stream and QBUF does not fail, a buffer *)
(* leaves the driver only into the hands of a call, which gives it back.   *)
(***************************************************************************)
Fed ==
  /\ \A t \in Threads : pc[t] = "qbufInit" =>
       \A b \in Buffers : b < camera.next => buffer[b] # "user"
  /\ \A t \in Threads : pc[t] = "commit" =>
       \A b \in Buffers : b < camera.n => buffer[b] # "user"
  /\ device # Closed => device.n >= 2

Circulates == Fed /\ NoneStranded

\* While the device is closed only Fed says anything.
LEMMA ClosedCirculates ==
  ASSUME CInv', Fed', device' = Closed
  PROVE  Circulates'
BY DEF Circulates, NoneStranded

LEMMA OpeningCirculates ==
  ASSUME CInv, CInv', Circulates, NEW t \in Threads, Opening(t)
  PROVE  Circulates'
<1> USE DEF CInv, TypeOK, CallsOK, Goto
<1>1. CASE OpenFails(t)
  BY <1>1 DEF OpenFails, vars, kernel, setup, calls, Circulates, Fed, NoneStranded, Holding
<1>2. ASSUME \/ \E n \in 2 .. MaxBuffers : ReqBufs(t, n)
             \/ ReqBufsFails(t) \/ Exit(t) \/ Calloc(t) \/ Negotiate(t) \/ QbufInitFails(t)
             \/ Open(t)
      PROVE  Circulates'
  <2>1. device' = Closed
    BY <1>2 DEF ReqBufs, ReqBufsFails, Exit, Calloc, Negotiate, QbufInitFails, Open,
       InitFails, setup, Alone, Initing, InitPCs
  <2>2. pc'[t] \notin {"qbufInit", "commit"}
    BY <1>2 DEF ReqBufs, ReqBufsFails, Exit, Calloc, Negotiate, QbufInitFails, Open,
       InitFails, Return
  <2>3. \A u \in Threads \ {t} : pc'[u] = "idle"
    BY <1>2 DEF ReqBufs, ReqBufsFails, Exit, Calloc, Negotiate, QbufInitFails, Open,
       InitFails, Return, Alone, Initing, InitPCs, AtRest
  <2>4. Fed'
    BY <2>1, <2>2, <2>3 DEF Fed
  <2> QED BY <2>1, <2>4, ClosedCirculates
<1>3. CASE Mmap(t)
  <2>1. device' = Closed /\ buffer' = buffer
    BY <1>3 DEF Mmap, InitFails, kernel, Alone, Initing, InitPCs
  <2>2. \A u \in Threads \ {t} : pc'[u] = "idle"
    BY <1>3 DEF Mmap, NextBuffer, InitFails, Return, Alone, Initing, InitPCs
  <2>3. pc'[t] # "commit" /\ (pc'[t] = "qbufInit" => camera'.next = 0)
    BY <1>3 DEF Mmap, NextBuffer, InitFails, Return, SetupOK
  <2>4. Fed'
    BY <2>1, <2>2, <2>3 DEF Fed, Buffers
  <2> QED BY <2>1, <2>4, ClosedCirculates
<1>4. CASE QbufInit(t)
  <2>1. device' = Closed /\ buffer' = [buffer EXCEPT ![camera.next] = "queued"]
    BY <1>4 DEF QbufInit, Alone, Initing, InitPCs
  <2>2. \A u \in Threads \ {t} : pc'[u] = "idle"
    BY <1>4 DEF QbufInit, NextBuffer, Alone, Initing, InitPCs
  <2>3. /\ camera.next \in Nat /\ camera.n \in Nat /\ camera.next < camera.n
        /\ \A b \in Buffers : b < camera.next => buffer[b] # "user"
    BY <1>4 DEF QbufInit, Building, SetupOK, Buffers, Circulates, Fed
  <2>4. \A b \in Buffers : b < camera.next + 1 => buffer'[b] # "user"
    BY <2>1, <2>3 DEF KernelOK, Buffers
  <2>5. CASE LastBuffer
    <3>1. pc'[t] = "commit" /\ camera'.n = camera.next + 1
      BY <1>4, <2>5 DEF QbufInit, NextBuffer, LastBuffer, SetupOK
    <3>2. Fed'
      BY <2>1, <2>2, <2>4, <3>1 DEF Fed
    <3> QED BY <2>1, <3>2, ClosedCirculates
  <2>6. CASE ~LastBuffer
    <3>1. pc'[t] = "qbufInit" /\ camera'.next = camera.next + 1
      BY <1>4, <2>6 DEF QbufInit, NextBuffer, SetupOK
    <3>2. Fed'
      BY <2>1, <2>2, <2>4, <3>1 DEF Fed
    <3> QED BY <2>1, <3>2, ClosedCirculates
  <2> QED BY <2>5, <2>6
<1>5. CASE Commit(t)
  <2>1. /\ device'.n = camera.n /\ camera.n >= 2 /\ buffer' = buffer
        /\ camera.n \in 0 .. MaxBuffers
    BY <1>5 DEF Commit, kernel, Building, Granted, SetupOK
  <2>2. \A b \in Buffers : b < camera.n => buffer[b] # "user"
    BY <1>5 DEF Commit, Circulates, Fed
  <2>3. \A u \in Threads : pc'[u] = "idle"
    BY <1>5 DEF Commit, Return, Alone, Initing, InitPCs
  <2>4. Fed'
    BY <2>1, <2>3 DEF Fed
  <2>5. NoneStranded'
    BY <2>1, <2>2, CameraAssumption DEF NoneStranded, Buffers
  <2> QED BY <2>4, <2>5 DEF Circulates
<1> QED BY <1>1, <1>2, <1>3, <1>4, <1>5 DEF Opening

\* A call that neither takes nor gives back a buffer.
LEMMA UntouchedCirculates ==
  ASSUME CInv, Circulates, UNCHANGED <<buffer, setup>>,
         \A u \in Threads : pc'[u] # pc[u] =>
           pc[u] \notin InitPCs /\ pc'[u] \notin InitPCs,
         \A u \in Threads : Holding(u) => Holding(u)' /\ index'[u] = index[u]
  PROVE  Circulates'
BY DEF Circulates, Fed, NoneStranded, Holding, InitPCs, setup

LEMMA StepCirculates ==
  ASSUME "stop" \notin Calls, "qbuf" \notin Faults,
         CInv, Circulates, NEW t \in Threads, Step(t) \/ Client(t)
  PROVE  Circulates'
<1> USE DEF CInv, TypeOK, CallsOK, Goto
<1>1. /\ UNCHANGED setup
      /\ \A u \in Threads : pc'[u] # pc[u] =>
           pc[u] \notin InitPCs /\ pc'[u] \notin InitPCs
  BY StepKeepsSetup
<1>2. ASSUME \/ StreamOn(t) \/ SelectReady(t) \/ SelectGivesUp(t) \/ DqbufFails(t)
             \/ Save(t) \/ Read(t) \/ \E count \in FrameCounts : StartCapture(t, count)
      PROVE  Circulates'
  <2>1. buffer' = buffer
    BY <1>2 DEF StreamOn, SelectReady, SelectGivesUp, DqbufFails, Save, Read, StartCapture,
       kernel
  <2>2. \A u \in Threads \ {t} : pc'[u] = pc[u] /\ index'[u] = index[u]
    BY <1>2 DEF StreamOn, SelectReady, SelectGivesUp, DqbufFails, Save, Read, StartCapture,
       Return
  <2>3. Holding(t) => pc'[t] = "qbuf" /\ index'[t] = index[t]
    BY <1>2 DEF StreamOn, SelectReady, SelectGivesUp, DqbufFails, Save, Read, StartCapture,
       Holding, Ready, AfterSave
  <2>4. \A u \in Threads : Holding(u) => Holding(u)' /\ index'[u] = index[u]
    BY <2>2, <2>3 DEF Holding
  <2> QED BY <1>1, <2>1, <2>4, UntouchedCirculates
<1>3. CASE Dqbuf(t)
  <2>1. /\ pc[t] = "dqbuf" /\ pc'[t] = "save" /\ index'[t] = Head(done)
        /\ buffer' = [buffer EXCEPT ![Head(done)] = "user"]
        /\ \A u \in Threads \ {t} : pc'[u] = pc[u] /\ index'[u] = index[u]
    BY <1>3 DEF Dqbuf
  <2>2. \A b \in Buffers : buffer'[b] = "user" => b = Head(done) \/ buffer[b] = "user"
    BY <2>1 DEF KernelOK
  <2>3. \A u \in Threads : Holding(u) => Holding(u)' /\ index'[u] = index[u]
    BY <2>1 DEF Holding
  <2>4. Holding(t)' /\ device' = device /\ device.n \in 0 .. MaxBuffers
    BY <1>1, <2>1 DEF Holding, setup, SetupOK
  <2>5. NoneStranded'
    BY <2>1, <2>2, <2>3, <2>4, CameraAssumption DEF Circulates, NoneStranded, Buffers
  <2>6. \A u \in Threads : ~Initing(u)
    BY <2>1 DEF Alone, Initing, InitPCs
  <2>7. Fed'
    BY <1>1, <2>4, <2>6 DEF Circulates, Fed, Initing, InitPCs
  <2> QED BY <2>5, <2>7 DEF Circulates
<1>4. CASE Qbuf(t)
  <2>1. /\ pc[t] = "qbuf" /\ pc'[t] \notin InitPCs
        /\ buffer' = [buffer EXCEPT ![index[t]] = "queued"]
        /\ \A u \in Threads \ {t} : pc'[u] = pc[u] /\ index'[u] = index[u]
    BY <1>4 DEF Qbuf, Return, Requeued, InitPCs
  <2>2. \A b \in Buffers : buffer'[b] = "user" => b # index[t] /\ buffer[b] = "user"
    BY <2>1 DEF KernelOK
  <2>3. device' = device /\ device.n \in 0 .. MaxBuffers
    BY <1>1 DEF setup, SetupOK
  <2>4. NoneStranded'
    <3> SUFFICES ASSUME device # Closed, NEW b \in 0 .. device.n - 1, buffer'[b] = "user"
                 PROVE  \E u \in Threads : Holding(u)' /\ index'[u] = b
      BY <2>3 DEF NoneStranded
    <3>1. b \in Buffers
      BY <2>3, CameraAssumption DEF Buffers
    <3>2. b # index[t] /\ buffer[b] = "user"
      BY <2>2, <3>1
    <3>3. PICK u \in Threads : Holding(u) /\ index[u] = b
      BY <3>2 DEF Circulates, NoneStranded
    <3> QED BY <2>1, <3>2, <3>3 DEF Holding
  <2>5. \A u \in Threads : ~Initing(u)
    BY <2>1 DEF Alone, Initing, InitPCs
  <2>6. Fed'
    BY <1>1, <2>3, <2>5 DEF Circulates, Fed, Initing, InitPCs
  <2> QED BY <2>4, <2>6 DEF Circulates
<1>5. ~QbufFails(t)
  BY DEF QbufFails, MayFail, Requeued, HeldExclusive, Holding
<1>6. ~StopCapture(t)
  BY DEF StopCapture, Ready
<1> QED BY <1>2, <1>3, <1>4, <1>5, <1>6 DEF Step, Client

LEMMA CirculatesNext ==
  ASSUME "stop" \notin Calls, "qbuf" \notin Faults
  PROVE  CInv /\ CInv' /\ Circulates /\ [Next]_vars => Circulates'
<1> SUFFICES ASSUME CInv, CInv', Circulates, [Next]_vars PROVE Circulates'
  OBVIOUS
<1>1. ASSUME NEW t \in Threads, Opening(t) PROVE Circulates'
  BY <1>1, OpeningCirculates
<1>2. ASSUME NEW t \in Threads, Step(t) \/ Client(t) PROVE Circulates'
  BY <1>2, StepCirculates
<1>3. ASSUME NEW c \in Buffers, Fill(c) PROVE Circulates'
  <2>1. \A u \in Threads : ~Initing(u)
    BY <1>3 DEF Fill, CInv, Queue, Alone
  <2>2. UNCHANGED <<setup, calls>> /\ \A b \in Buffers : buffer'[b] = "user" => buffer[b] = "user"
    BY <1>3 DEF Fill, CInv, TypeOK, KernelOK
  <2>3. Fed'
    BY <2>1, <2>2 DEF Circulates, Fed, Initing, InitPCs, setup, calls
  <2>4. device.n \in 0 .. MaxBuffers
    BY DEF CInv, TypeOK, SetupOK
  <2>5. NoneStranded'
    BY <2>2, <2>4, CameraAssumption DEF Circulates, NoneStranded, Holding, Buffers, setup, calls
  <2> QED BY <2>3, <2>5 DEF Circulates
<1>4. CASE Destroy
  <2>1. device' = Closed /\ \A u \in Threads : pc'[u] = "idle"
    BY <1>4 DEF Destroy, AtRest, calls
  <2> QED BY <2>1, ClosedCirculates DEF Fed
<1>5. CASE UNCHANGED vars
  BY <1>5 DEF vars, kernel, setup, calls, Circulates, Fed, NoneStranded, Holding
<1> QED BY <1>1, <1>2, <1>3, <1>4, <1>5 DEF Next

LEMMA Circulation ==
  ASSUME "stop" \notin Calls, "qbuf" \notin Faults
  PROVE  Spec => [](CInv /\ Circulates)
<1>1. Init => Circulates
  BY DEF Init, Circulates, Fed, NoneStranded
<1> QED BY <1>1, CirculatesNext, Initially, NextKeeps, PTL DEF Spec

\* Whatever else fails, as long as the stream is not stopped and QBUF succeeds
\* no buffer of an open device is forgotten: what a call has taken it queues
\* again on every path.
THEOREM BuffersCirculate ==
  ASSUME "stop" \notin Calls, "qbuf" \notin Faults
  PROVE  Spec => []NoneStranded
BY Circulation, PTL DEF Circulates

\* On the same conditions a capture that waits in select always has a buffer
\* the driver can fill or another call will give back.
THEOREM CapturesAreFed ==
  ASSUME "stop" \notin Calls, "qbuf" \notin Faults
  PROVE  Spec => []NeverStarved
<1>1. CInv /\ Circulates => NeverStarved
  <2> SUFFICES ASSUME CInv, Circulates, NEW t \in Threads, pc[t] = "select"
               PROVE  \/ \E b \in Buffers : buffer[b] \in {"queued", "done"}
                      \/ \E u \in Threads : Holding(u)
    BY DEF NeverStarved
  <2>1. device # Closed
    BY DEF CInv, Alone, Initing, InitPCs
  <2>2. device.n >= 2 /\ device.n \in 0 .. MaxBuffers
    BY <2>1 DEF Circulates, Fed, CInv, TypeOK, SetupOK
  <2>3. 0 \in Buffers /\ 0 \in 0 .. device.n - 1
    BY <2>2, CameraAssumption DEF Buffers
  <2>4. buffer[0] \in {"user", "queued", "done"}
    BY <2>1, <2>2, <2>3 DEF CInv, DeviceReady, TypeOK, KernelOK
  <2> QED BY <2>1, <2>3, <2>4 DEF Circulates, NoneStranded
<1> QED BY <1>1, Circulation, PTL

-----------------------------------------------------------------------------
(***************************************************************************)
(* A capture that nothing disturbs.  Its stream stays on, and its counter  *)
(* stays below the number of frames that were asked for.                   *)
(***************************************************************************)
Unfailing == Faults \cap {"streamon", "select", "dqbuf", "qbuf"} = {}

Counting ==
  \A t \in Threads :
    /\ pc[t] \in InitPCs \cup {"idle"} => op[t] = "none" /\ i[t] = 0
    /\ op[t] = "capture" /\ todo[t] # 0 => i[t] < todo[t]
    /\ op[t] = "capture" /\ pc[t] # "streamon" => streaming

\* CapturesComplete, as a formula about one step.
Completes ==
  \A t \in Threads : op[t] = "capture" /\ pc'[t] = "idle" =>
    \/ pc[t] = "qbuf" /\ i[t] + 1 = todo[t]
    \/ pc[t] = "select" /\ done = <<>>

\* A step of one thread that leaves the stream as it is disturbs no other.
LEMMA OthersCount ==
  ASSUME CInv, Counting, NEW t \in Threads, streaming => streaming',
         \A u \in Threads \ {t} :
           pc'[u] = pc[u] /\ op'[u] = op[u] /\ todo'[u] = todo[u] /\ i'[u] = i[u],
         pc'[t] \in InitPCs \cup {"idle"} => op'[t] = "none" /\ i'[t] = 0,
         op'[t] = "capture" /\ todo'[t] # 0 => i'[t] < todo'[t],
         op'[t] = "capture" /\ pc'[t] # "streamon" => streaming',
         op[t] = "capture" /\ pc'[t] = "idle" =>
           \/ pc[t] = "qbuf" /\ i[t] + 1 = todo[t]
           \/ pc[t] = "select" /\ done = <<>>
  PROVE  Counting' /\ Completes
BY DEF Counting, Completes

LEMMA OpeningCounts ==
  ASSUME CInv, Counting, NEW t \in Threads, Opening(t)
  PROVE  Counting' /\ Completes
<1> USE DEF CInv, TypeOK, CallsOK, Goto, NextBuffer, InitFails, Return
<1>1. CASE OpenFails(t)
  BY <1>1 DEF OpenFails, vars, kernel, calls, Counting, Completes
<1>2. CASE Exit(t)
  <2>1. \A u \in Threads : pc[u] \in InitPCs \cup {"idle"}
    BY <1>2 DEF Exit, Alone, Initing, InitPCs
  <2>2. \A u \in Threads : op'[u] = "none" /\ (pc'[u] \in InitPCs \cup {"idle"} => i'[u] = 0)
    BY <1>2, <2>1 DEF Exit, Counting
  <2> QED BY <2>1, <2>2 DEF Counting, Completes
<1>3. ASSUME \/ Open(t) \/ Negotiate(t) \/ (\E n \in 2 .. MaxBuffers : ReqBufs(t, n))
             \/ ReqBufsFails(t) \/ Calloc(t) \/ Mmap(t) \/ QbufInit(t)
             \/ QbufInitFails(t) \/ Commit(t)
      PROVE  Counting' /\ Completes
  <2>1. pc[t] \in InitPCs \cup {"idle"} /\ op[t] = "none" /\ i[t] = 0
    BY <1>3 DEF Open, Negotiate, ReqBufs, ReqBufsFails, Calloc, Mmap, QbufInit,
       QbufInitFails, Commit, AtRest, InitPCs, Counting
  <2>2. op'[t] = "none" /\ i'[t] = 0 /\ streaming' = streaming
    BY <1>3, <2>1 DEF Open, Negotiate, ReqBufs, ReqBufsFails, Calloc, Mmap, QbufInit,
       QbufInitFails, Commit, kernel, setup
  <2>3. \A u \in Threads \ {t} :
          pc'[u] = pc[u] /\ op'[u] = op[u] /\ todo'[u] = todo[u] /\ i'[u] = i[u]
    BY <1>3 DEF Open, Negotiate, ReqBufs, ReqBufsFails, Calloc, Mmap, QbufInit,
       QbufInitFails, Commit, kernel, setup
  <2> QED BY <2>1, <2>2, <2>3, OthersCount
<1> QED BY <1>1, <1>2, <1>3 DEF Opening

LEMMA StepCounts ==
  ASSUME "stop" \notin Calls, Unfailing,
         CInv, Counting, NEW t \in Threads, Step(t) \/ Client(t)
  PROVE  Counting' /\ Completes
<1> USE DEF CInv, TypeOK, CallsOK, Goto, Return, MayFail, Unfailing
<1>1. \A u \in Threads \ {t} :
        pc'[u] = pc[u] /\ op'[u] = op[u] /\ todo'[u] = todo[u] /\ i'[u] = i[u]
  BY DEF Step, Client, StreamOn, SelectReady, SelectGivesUp, Dqbuf, DqbufFails, Save,
     Qbuf, QbufFails, StartCapture, Read, StopCapture, Ready, calls
<1>2. CASE StreamOn(t)
  <2>1. streaming' /\ pc'[t] = "select" /\ UNCHANGED <<op, todo, i>>
    BY <1>2 DEF StreamOn
  <2> QED BY <1>1, <2>1, OthersCount DEF Counting, InitPCs
<1>3. CASE SelectReady(t) \/ Dqbuf(t) \/ Save(t)
  <2>1. /\ pc[t] \in {"select", "dqbuf", "save"} /\ pc'[t] \in {"dqbuf", "save", "qbuf"}
        /\ UNCHANGED <<streaming, op, todo, i>>
    BY <1>3 DEF SelectReady, Dqbuf, Save, AfterSave, kernel
  <2> QED BY <1>1, <2>1, OthersCount DEF Counting, InitPCs
<1>4. CASE SelectGivesUp(t)
  <2>1. pc[t] = "select" /\ done = <<>> /\ streaming' = streaming
    BY <1>4 DEF SelectGivesUp, kernel
  <2>2. op'[t] = "none" /\ i'[t] = 0
    BY <1>4 DEF SelectGivesUp
  <2> QED BY <1>1, <2>1, <2>2, OthersCount
<1>5. CASE DqbufFails(t)
  <2>1. pc[t] = "dqbuf" /\ streaming' = streaming
    BY <1>5 DEF DqbufFails, kernel
  <2>2. CASE pc'[t] = "select" /\ UNCHANGED <<op, todo, i>>
    BY <1>1, <2>1, <2>2, OthersCount DEF Counting, InitPCs
  <2>3. CASE ~Again(t) /\ Return(t)
    <3>1. op[t] # "capture"
      BY <2>1, <2>3 DEF Again, Counting
    <3>2. op'[t] = "none" /\ i'[t] = 0
      BY <2>3
    <3> QED BY <1>1, <2>1, <3>1, <3>2, OthersCount
  <2> QED BY <1>5, <2>2, <2>3 DEF DqbufFails
<1>6. CASE Qbuf(t)
  <2>1. pc[t] = "qbuf" /\ streaming' = streaming
    BY <1>6 DEF Qbuf
  <2>0. todo[t] \in Nat /\ i[t] \in Nat
    <3>1. todo[t] \in FrameCounts \cup {0} /\ i[t] \in Nat
      OBVIOUS
    <3>2. FrameCounts \cup {0} \subseteq Nat
      BY CameraAssumption
    <3> HIDE DEF CInv, TypeOK, CallsOK
    <3> QED BY <3>1, <3>2
  <2>2. CASE op[t] = "capture" /\ (todo[t] = 0 \/ i[t] + 1 < todo[t])
    <3>1. /\ i'[t] = i[t] + 1 /\ pc'[t] = "select"
          /\ UNCHANGED <<op, todo>>
      BY <1>6, <2>2 DEF Qbuf
    <3>2. streaming /\ (todo'[t] # 0 => i'[t] < todo'[t])
      BY <2>0, <2>1, <2>2, <3>1 DEF Counting
    <3>3. pc'[t] \notin InitPCs \cup {"idle"}
      BY <3>1 DEF InitPCs
    <3> HIDE DEF CInv, TypeOK, CallsOK, Goto, Return, MayFail, Unfailing
    <3> QED BY <1>1, <2>1, <3>1, <3>2, <3>3, OthersCount
  <2>3. CASE ~(op[t] = "capture" /\ (todo[t] = 0 \/ i[t] + 1 < todo[t]))
    <3>1. op'[t] = "none" /\ i'[t] = 0
      BY <1>6, <2>3 DEF Qbuf
    <3>2. op[t] = "capture" => i[t] + 1 = todo[t]
      BY <2>0, <2>1, <2>3 DEF Counting
    <3> QED BY <1>1, <2>1, <3>1, <3>2, OthersCount
  <2> QED BY <2>2, <2>3
<1>7. ~QbufFails(t)
  BY DEF QbufFails, Requeued, HeldExclusive, Holding
<1>8. ASSUME NEW count \in FrameCounts, StartCapture(t, count) PROVE Counting' /\ Completes
  <2>1. /\ pc[t] = "idle" /\ pc'[t] = "streamon" /\ op'[t] = "capture" /\ todo'[t] = count
        /\ UNCHANGED <<streaming, i>>
    BY <1>8 DEF StartCapture, Ready, kernel
  <2>2. op[t] = "none" /\ i'[t] = 0 /\ count \in Nat
    BY <2>1, CameraAssumption DEF Counting
  <2> QED BY <1>1, <2>1, <2>2, OthersCount DEF InitPCs
<1>9. CASE Read(t)
  <2>1. /\ pc[t] = "idle" /\ pc'[t] = "dqbuf" /\ op'[t] = "read"
        /\ streaming' = streaming
    BY <1>9 DEF Read, Ready, kernel
  <2>2. op[t] = "none"
    BY <2>1 DEF Counting
  <2> QED BY <1>1, <2>1, <2>2, OthersCount DEF InitPCs
<1>10. ~StopCapture(t)
  BY DEF StopCapture, Ready
<1> QED
  BY <1>2, <1>3, <1>4, <1>5, <1>6, <1>7, <1>8, <1>9, <1>10 DEF Step, Client

LEMMA CountingNext ==
  ASSUME "stop" \notin Calls, Unfailing
  PROVE  CInv /\ Counting /\ [Next]_vars => Counting' /\ Completes
<1> SUFFICES ASSUME CInv, Counting, [Next]_vars PROVE Counting' /\ Completes
  OBVIOUS
<1>1. ASSUME NEW t \in Threads, Opening(t) PROVE Counting' /\ Completes
  BY <1>1, OpeningCounts
<1>2. ASSUME NEW t \in Threads, Step(t) \/ Client(t) PROVE Counting' /\ Completes
  BY <1>2, StepCounts
<1>3. CASE \E b \in Buffers : Fill(b)
  BY <1>3 DEF Fill, calls, Counting, Completes, InitPCs
<1>4. CASE Destroy
  BY <1>4 DEF Destroy, AtRest, calls, Counting, Completes
<1>5. CASE UNCHANGED vars
  BY <1>5 DEF vars, kernel, calls, Counting, Completes
<1> QED BY <1>1, <1>2, <1>3, <1>4, <1>5 DEF Next

\* Whoever else captures or reads at the same time, a capture whose stream
\* nobody stops and whose ioctls do not fail saves all the frames it was asked
\* for, unless two seconds go by without one: EAGAIN never ends it.
THEOREM CapturesAreComplete ==
  ASSUME "stop" \notin Calls, Unfailing
  PROVE  Spec => CapturesComplete
<1>1. Init => Counting
  BY DEF Init, Counting
<1>2. CInv /\ Counting /\ [Next]_vars =>
        [\A t \in Threads : op[t] = "capture" /\ pc'[t] = "idle" =>
           \/ pc[t] = "qbuf" /\ i[t] + 1 = todo[t]
           \/ pc[t] = "select" /\ done = <<>>]_vars
  BY CountingNext DEF Completes
<1> QED BY <1>1, <1>2, CountingNext, Invariance, PTL DEF Spec, CapturesComplete
=============================================================================
