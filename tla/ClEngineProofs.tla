--------------------------- MODULE ClEngineProofs ---------------------------
(***************************************************************************)
(* Proofs about ClEngine and Nv12, for every number of OpenCL objects and  *)
(* devices, every size of a work group and all images whose indices do not *)
(* wrap (see Nv12: below 2^31 / 3 pixels); the client is assumed to zero   *)
(* its context before it calls kbx_cl_init.                                *)
(*                                                                         *)
(* About Nv12 everything is arithmetic.  The engine's invariant says of    *)
(* each point of a call what the call has in hand and whose every object   *)
(* and every page is.                                                      *)
(***************************************************************************)
EXTENDS ClEngine, TLAPS

-----------------------------------------------------------------------------
(***************************************************************************)
(* The conversion.                                                         *)
(***************************************************************************)
LEMMA Quotient ==
  ASSUME NEW n \in Nat, NEW d \in Nat \ {0}
  PROVE  /\ n \div d \in Nat /\ n % d \in 0 .. d - 1
         /\ n = d * (n \div d) + (n % d)
OBVIOUS

\* A multiple of the group size that is large enough.
LEMMA RoundedUp ==
  ASSUME NEW n \in Nat
  PROVE  Rounded(n) \in Nat /\ Rounded(n) >= n
<1>1. /\ (n + GroupSize - 1) \div GroupSize \in Nat
      /\ n + GroupSize - 1 < GroupSize * ((n + GroupSize - 1) \div GroupSize) + GroupSize
  BY GroupAssumption, Quotient
<1> QED BY <1>1, GroupAssumption DEF Rounded

\* Behind the bounds check there is one work item for each pixel.
LEMMA ActivePixels ==
  ASSUME NEW w \in Nat, NEW h \in Nat
  PROVE  Active(w, h) = (0 .. w - 1) \X (0 .. h - 1)
BY RoundedUp DEF Active, WorkItems

LEMMA SameAccess ==
  ASSUME NEW w \in Nat, NEW h \in Nat, NEW x \in 0 .. w - 1, NEW y \in 0 .. h - 1
  PROVE  KernelAccess(<<x, y>>, w, h) = ManualAccess(x, y, w, h)
<1>1. x - (x % 2) = 2 * (x \div 2)
  OBVIOUS
<1>2. w * h \in Nat /\ (y \div 2) * w \in Nat /\ 2 * (x \div 2) \in Nat
  OBVIOUS
<1>3. w * h + (y \div 2) * w + 2 * (x \div 2) = w * h + ((y \div 2) * w + 2 * (x \div 2))
  BY <1>2
<1> QED BY <1>1, <1>3 DEF KernelAccess, ManualAccess, UvCol, UvRow

LEMMA KernelIsManualAlways ==
  ASSUME NEW w \in Nat, NEW h \in Nat
  PROVE  KernelIsManual(w, h)
<1>1. \A p \in Active(w, h) : \E x \in 0 .. w - 1, y \in 0 .. h - 1 :
        KernelAccess(p, w, h) = ManualAccess(x, y, w, h)
  BY ActivePixels, SameAccess
<1>2. \A x \in 0 .. w - 1, y \in 0 .. h - 1 : \E p \in Active(w, h) :
        KernelAccess(p, w, h) = ManualAccess(x, y, w, h)
  BY ActivePixels, SameAccess
<1> QED BY <1>1, <1>2 DEF KernelIsManual

\* Pixels are numbered row by row.
LEMMA PixelInImage ==
  ASSUME NEW w \in Nat, NEW h \in Nat, NEW x \in 0 .. w - 1, NEW y \in 0 .. h - 1
  PROVE  y * w + x \in 0 .. w * h - 1
<1>1. y + 1 <= h => (y + 1) * w <= h * w
  OBVIOUS
<1>2. (y + 1) * w = y * w + w /\ h * w = w * h /\ y * w \in Nat /\ w * h \in Nat
  OBVIOUS
<1> QED BY <1>1, <1>2

LEMMA PixelUnique ==
  ASSUME NEW w \in Nat, NEW h \in Nat,
         NEW x \in 0 .. w - 1, NEW y \in 0 .. h - 1,
         NEW u \in 0 .. w - 1, NEW v \in 0 .. h - 1,
         y * w + x = v * w + u
  PROVE  x = u /\ y = v
<1>1. \A a, b \in Nat : a + 1 <= b => a * w + w <= b * w
  OBVIOUS
<1>2. y * w \in Nat /\ v * w \in Nat
  OBVIOUS
<1>3. y = v
  BY <1>1, <1>2
<1> QED BY <1>2, <1>3

LEMMA PixelOnto ==
  ASSUME NEW w \in Nat \ {0}, NEW h \in Nat, NEW i \in 0 .. w * h - 1
  PROVE  \E x \in 0 .. w - 1, y \in 0 .. h - 1 : i = y * w + x
<1> DEFINE y == i \div w
           x == i % w
<1>1. i \in Nat /\ w * h \in Nat
  OBVIOUS
<1>q. y \in Nat /\ x \in 0 .. w - 1 /\ i = w * y + x
  BY <1>1, Quotient
<1> HIDE DEF x, y
<1>2. /\ y \in Nat /\ x \in 0 .. w - 1
      /\ i = w * y + x /\ w * y = y * w /\ w * y \in Nat
  BY <1>q
<1>3. y < h
  <2>1. SUFFICES ASSUME h <= y PROVE FALSE
    BY <1>2
  <2>2. w * h <= w * y
    BY <1>2, <2>1
  <2> QED BY <1>1, <1>2, <2>2
<1>4. i = y * w + x /\ y \in 0 .. h - 1
  BY <1>2, <1>3
<1> QED BY <1>2, <1>4

LEMMA WritesEachOnceAlways ==
  ASSUME NEW w \in Nat \ {0}, NEW h \in Nat
  PROVE  WritesEachOnce(w, h)
<1> DEFINE at(p) == p[2] * w + p[1]
           written(p) == KernelAccess(p, w, h).rgb .. KernelAccess(p, w, h).rgb + 2
<1>a. \A p \in Active(w, h) : p[1] \in 0 .. w - 1 /\ p[2] \in 0 .. h - 1 /\ p = <<p[1], p[2]>>
  BY ActivePixels
<1>1. \A p \in Active(w, h) : at(p) \in 0 .. w * h - 1
  BY <1>a, PixelInImage
<1>2. \A p : written(p) = 3 * at(p) .. 3 * at(p) + 2
  BY DEF KernelAccess
<1>3. \A p, q \in Active(w, h) : at(p) = at(q) => p = q
  <2> SUFFICES ASSUME NEW p \in Active(w, h), NEW q \in Active(w, h), at(p) = at(q)
               PROVE  p = q
    OBVIOUS
  <2>1. p[1] = q[1] /\ p[2] = q[2]
    BY <1>a, PixelUnique
  <2> QED BY <1>a, <2>1
<1>4. \A i \in 0 .. w * h - 1 : \E p \in Active(w, h) : at(p) = i
  <2> SUFFICES ASSUME NEW i \in 0 .. w * h - 1 PROVE \E p \in Active(w, h) : at(p) = i
    OBVIOUS
  <2>1. PICK x \in 0 .. w - 1, y \in 0 .. h - 1 : i = y * w + x
    BY PixelOnto
  <2>2. <<x, y>> \in Active(w, h) /\ at(<<x, y>>) = i
    BY <2>1, ActivePixels
  <2> QED BY <2>2
<1>5. w * h \in Nat
  OBVIOUS
<1> HIDE DEF at, written
<1>6. \A p, q \in Active(w, h) : p # q => written(p) \cap written(q) = {}
  BY <1>1, <1>2, <1>3
<1>7. UNION {written(p) : p \in Active(w, h)} = 0 .. 3 * w * h - 1
  <2>1. ASSUME NEW p \in Active(w, h), NEW b \in written(p) PROVE b \in 0 .. 3 * w * h - 1
    BY <1>1, <1>2, <1>5, <2>1
  <2>2. ASSUME NEW b \in 0 .. 3 * w * h - 1 PROVE \E p \in Active(w, h) : b \in written(p)
    <3>1. b \in Nat /\ b < 3 * (w * h)
      BY <1>5
    <3>2. b \div 3 \in 0 .. w * h - 1 /\ b \in 3 * (b \div 3) .. 3 * (b \div 3) + 2
      BY <1>5, <3>1
    <3> QED BY <1>2, <1>4, <3>2
  <2> QED BY <2>1, <2>2
<1> QED BY <1>6, <1>7 DEF WritesEachOnce, written

\* One pixel of an image with even rows.
LEMMA EvenRow ==
  ASSUME NEW w \in Nat, NEW h \in Nat, w % 2 = 0,
         NEW x \in 0 .. w - 1, NEW y \in 0 .. h - 1
  PROVE  LET a == KernelAccess(<<x, y>>, w, h)
         IN  /\ a.y < w * h /\ a.u >= w * h
             /\ (a.u - w * h) % 2 = 0
             /\ h % 2 = 0 => a.v < w * h + ((w * h) \div 2)
<1> DEFINE m == w \div 2
           c == x \div 2
           r == y \div 2
<1>1. w = 2 * m /\ m \in Nat
  OBVIOUS
<1>2. c \in Nat /\ r \in Nat /\ c + 1 <= m /\ 2 * r <= y /\ UvCol(x) = 2 * c /\ UvRow(y) = r
  BY <1>1 DEF UvCol, UvRow
<1>3. h % 2 = 0 => \E n \in Nat : h = 2 * n /\ r + 1 <= n
  <2>1. h % 2 = 0 => h = 2 * (h \div 2) /\ h \div 2 \in Nat /\ r + 1 <= h \div 2
    OBVIOUS
  <2> QED BY <2>1
<1> HIDE DEF m, c, r
<1>4. w * h \in Nat /\ r * w = 2 * (r * m) /\ r * m \in Nat
  BY <1>1, <1>2
<1>5. y * w + x \in 0 .. w * h - 1
  BY PixelInImage
<1>6. KernelAccess(<<x, y>>, w, h) =
        [y |-> y * w + x, u |-> w * h + 2 * (r * m) + 2 * c,
         v |-> w * h + 2 * (r * m) + 2 * c + 1, rgb |-> 3 * (y * w + x)]
  BY <1>2, <1>4 DEF KernelAccess
<1>7. ASSUME h % 2 = 0
      PROVE  2 * (r * m) + 2 * c + 1 < (w * h) \div 2
  <2>1. PICK n \in Nat : h = 2 * n /\ r + 1 <= n
    BY <1>3, <1>7
  <2>2. w * h = 4 * (m * n) /\ (w * h) \div 2 = 2 * (m * n) /\ m * n \in Nat
    BY <1>1, <2>1
  <2>3. r * m + m <= m * n
    <3>1. (r + 1) * m <= n * m
      BY <1>1, <1>2, <2>1
    <3> QED BY <1>1, <1>2, <2>1, <3>1
  <2> QED BY <1>1, <1>2, <1>4, <2>2, <2>3
<1>8. (w * h + 2 * (r * m) + 2 * c - w * h) % 2 = 0
  <2>1. w * h + 2 * (r * m) + 2 * c - w * h = 2 * (r * m + c) /\ r * m + c \in Nat
    BY <1>2, <1>4
  <2> QED BY <2>1
<1>9. (w * h) \div 2 \in Nat
  BY <1>4
<1> QED BY <1>2, <1>4, <1>5, <1>6, <1>7, <1>8, <1>9

\* The last pixel of an image with an odd side.
LEMMA OddSide ==
  ASSUME NEW w \in Nat \ {0}, NEW h \in Nat \ {0}, w % 2 = 1 \/ h % 2 = 1
  PROVE  KernelAccess(<<w - 1, h - 1>>, w, h).v >= w * h + ((w * h) \div 2)
<1> DEFINE r == (h - 1) \div 2
           v == r * w + UvCol(w - 1) + 1
<1>1. r \in Nat /\ (h = 2 * r + 1 \/ h = 2 * r + 2) /\ UvRow(h - 1) = r
  BY DEF UvRow
<1>2. h % 2 = 1 => h = 2 * r + 1
  OBVIOUS
<1>3. /\ w % 2 = 1 => UvCol(w - 1) = w - 1
      /\ w % 2 = 0 => UvCol(w - 1) = w - 2 /\ w >= 2
      /\ UvCol(w - 1) \in Nat
  BY DEF UvCol
<1> HIDE DEF r
<1>4. r * w \in Nat /\ w * h \in Nat /\ (w * h) \div 2 \in Nat /\ 2 * ((w * h) \div 2) <= w * h
  BY <1>1
<1>5. /\ h = 2 * r + 1 => w * h = 2 * (r * w) + w
      /\ h = 2 * r + 2 => w * h = 2 * (r * w) + 2 * w
  BY <1>1
<1>6. 2 * v >= w * h /\ v \in Nat
  <2>1. CASE w % 2 = 1
    BY <1>1, <1>3, <1>4, <1>5, <2>1
  <2>2. CASE w % 2 = 0
    BY <1>2, <1>3, <1>4, <1>5, <2>2
  <2> QED BY <2>1, <2>2
<1>7. v >= (w * h) \div 2
  <2> HIDE DEF v
  <2> QED BY <1>4, <1>6
<1>8. KernelAccess(<<w - 1, h - 1>>, w, h).v = w * h + v
  <2>1. KernelAccess(<<w - 1, h - 1>>, w, h).v = w * h + UvRow(h - 1) * w + UvCol(w - 1) + 1
    BY DEF KernelAccess
  <2> QED BY <1>1, <1>3, <1>4, <2>1
<1> HIDE DEF v
<1> QED BY <1>4, <1>6, <1>7, <1>8

LEMMA ReadsPlanesAlways ==
  ASSUME NEW w \in Nat \ {0}, NEW h \in Nat \ {0}
  PROVE  ReadsPlanes(w, h)
<1> DEFINE inside(a) == a.y < w * h /\ a.u >= w * h /\ a.v < w * h + ((w * h) \div 2)
<1>1. \A p \in Active(w, h) : p[1] \in 0 .. w - 1 /\ p[2] \in 0 .. h - 1 /\ p = <<p[1], p[2]>>
  BY ActivePixels
<1>2. ASSUME w % 2 = 0, NEW p \in Active(w, h)
      PROVE  /\ (KernelAccess(p, w, h).u - w * h) % 2 = 0
             /\ h % 2 = 0 => inside(KernelAccess(p, w, h))
  BY <1>1, <1>2, EvenRow
<1>3. ASSUME ~ (w % 2 = 0 /\ h % 2 = 0)
      PROVE  \E p \in Active(w, h) : ~ inside(KernelAccess(p, w, h))
  <2>1. w % 2 = 1 \/ h % 2 = 1
    BY <1>3
  <2>2. <<w - 1, h - 1>> \in Active(w, h)
    BY ActivePixels
  <2>3. /\ KernelAccess(<<w - 1, h - 1>>, w, h).v >= w * h + ((w * h) \div 2)
        /\ KernelAccess(<<w - 1, h - 1>>, w, h).v \in Int
        /\ w * h + ((w * h) \div 2) \in Int
    BY <2>1, OddSide DEF KernelAccess, UvRow, UvCol
  <2>4. ~ (KernelAccess(<<w - 1, h - 1>>, w, h).v < w * h + ((w * h) \div 2))
    <3>1. \A s, t \in Int : s >= t => ~ (s < t)
      OBVIOUS
    <3> QED BY <2>3, <3>1
  <2> QED BY <2>2, <2>4
<1> HIDE DEF inside
<1>4. (\A p \in Active(w, h) : inside(KernelAccess(p, w, h))) <=> (w % 2 = 0 /\ h % 2 = 0)
  BY <1>2, <1>3
<1> QED BY <1>2, <1>4 DEF ReadsPlanes, inside

-----------------------------------------------------------------------------
(***************************************************************************)
(* The engine's invariant.                                                 *)
(***************************************************************************)
Initing == pc \in {"pick", "context", "queue", "fallback"}

\* The devices looked at so far and the best of them.
Choosing ==
  /\ pc = "pick" =>
       /\ next <= Len(machine) + 1 /\ best < next
       /\ best = 0 => next = 1
       /\ \A d \in 1 .. next - 1 :
            /\ Score(machine[d]) <= Score(machine[best])
            /\ d < best => Score(machine[d]) < Score(machine[best])
  /\ ~ Initing => next = 1 /\ best = 0
  /\ PicksBest

\* The scratch memory a call has, and nobody else.
Scratch ==
  /\ pages = source \cup log
  /\ pc \notin {"create", "build", "log", "printed", "kernel"} => source = {}
  /\ pc # "printed" => log = {}

\* What the call in progress works with.
InHand ==
  /\ Initing => ctx.context = None /\ ctx.queue = None
  /\ ctx.context = None => ctx.queue = None
  /\ pc \in {"queue", "fallback"} => Is(fresh, "context")
  /\ pc = "swap" => Is(fresh, "image") /\ fresh # ctx.image
  /\ pc = "finish" => Is(fresh, "event")
  /\ pc \notin {"queue", "fallback", "swap", "finish"} => fresh = None
  /\ pc \in {"build", "log", "printed"} => Is(ctx.program, "program")
  /\ pc = "kernel" => Is(ctx.program, "built")
  /\ pc \in {"enqueue", "finish"} =>
       Is(ctx.kernel, "kernel") /\ job.w \in Sides /\ job.h \in Sides

\* Whose the objects are that may not be left behind.
Accounted ==
  \A o \in Objects :
    /\ object[o] = "context" =>
         o = ctx.context \/ (pc \in {"queue", "fallback"} /\ o = fresh)
    /\ object[o] = "queue" => o = ctx.queue
    /\ object[o] = "image" => o = ctx.image \/ (pc = "swap" /\ o = fresh)
    /\ object[o] = "program" => pc \in {"build", "log", "printed"} /\ o = ctx.program

EInv == TypeOK /\ Choosing /\ Scratch /\ InHand /\ Accounted /\ FieldsLive

LEMMA EInitially == ASSUME Zeroed PROVE Init => EInv
<1> SUFFICES ASSUME Init PROVE EInv
  OBVIOUS
<1> USE EngineAssumption DEF Init, Unset, Before, NoPages, NoJob
<1>0. ctx \in [context : Handles, queue : Handles, program : Handles,
              kernel : Handles, image : Handles]
  BY DEF Handles
<1>m. machine \in Seq(Devices) /\ Len(machine) = 0
  OBVIOUS
<1>o. object \in [Objects -> Kinds \cup {"free"}] /\ job \in [w : Nat, h : Nat]
  OBVIOUS
<1>n. next \in 1 .. MaxDevices + 1 /\ best \in 0 .. MaxDevices /\ Len(machine) <= MaxDevices
  BY <1>m
<1>1. TypeOK
  BY <1>0, <1>m, <1>o, <1>n DEF TypeOK, Handles
<1>2. Choosing
  BY DEF Choosing, PicksBest
<1>3. Scratch /\ InHand
  BY DEF Scratch, InHand, Initing
<1>4. Accounted /\ FieldsLive
  BY DEF Accounted, FieldsLive
<1> QED BY <1>1, <1>2, <1>3, <1>4 DEF EInv

\* A return leaves no locals behind, whatever else the step does.
LEMMA ReturnLocals ==
  ASSUME Return
  PROVE  /\ pc' = "idle" /\ Choosing' /\ ~ Initing'
         /\ machine' \in Seq(Devices) /\ Len(machine') <= MaxDevices
         /\ next' \in 1 .. MaxDevices + 1 /\ best' \in 0 .. MaxDevices
         /\ fresh' = None /\ fresh' \in Handles
         /\ source' = {} /\ log' = {} /\ job' \in [w : Nat, h : Nat]
BY EngineAssumption DEF Return, Choosing, PicksBest, Initing, Handles, NoPages, NoJob

-----------------------------------------------------------------------------
(***************************************************************************)
(* One step of the engine at a time.                                       *)
(***************************************************************************)
LEMMA ScoreNat == ASSUME NEW d PROVE Score(d) \in Nat
BY DEF Score

LEMMA InitCallStep ==
  ASSUME EInv, InitCall
  PROVE  EInv'
<1> USE EngineAssumption DEF EInv, InitCall, Is, Create, Without
<1>1. TypeOK'
  BY ReturnLocals DEF TypeOK, Handles, Kinds, Pool!Grant
<1>2. Choosing'
  BY ReturnLocals DEF Choosing, PicksBest, Initing
<1>3. Scratch'
  BY ReturnLocals DEF Scratch, Pool!Grant
<1>4. InHand'
  BY ReturnLocals DEF InHand, Initing, FieldsLive, TypeOK, Handles
<1>5. Accounted'
  BY ReturnLocals DEF Accounted, InHand, FieldsLive, TypeOK, Handles
<1>6. FieldsLive'
  BY ReturnLocals DEF FieldsLive, InHand, Accounted, TypeOK, Handles
<1> QED BY <1>1, <1>2, <1>3, <1>4, <1>5, <1>6

LEMMA ConsiderStep ==
  ASSUME EInv, Consider
  PROVE  EInv'
<1> USE EngineAssumption DEF EInv, Consider, Is, Create, Without
<1>1. TypeOK'
  BY ReturnLocals DEF TypeOK, Handles, Kinds, Pool!Grant
<1>2. Choosing'
  <2>1. /\ next \in 1 .. Len(machine) /\ best \in 0 .. next - 1 /\ next' = next + 1
        /\ machine' = machine /\ pc' = "pick" /\ pc = "pick"
        /\ \A d : Score(machine[d]) \in Nat
    BY ScoreNat DEF Choosing, TypeOK
  <2>2. best' \in 1 .. next /\ best' < next'
    BY <2>1 DEF Better, BestScore, Choosing
  <2>3. ASSUME NEW d \in 1 .. next
        PROVE  /\ Score(machine[d]) <= Score(machine[best'])
               /\ d < best' => Score(machine[d]) < Score(machine[best'])
    <3>1. CASE Better
      <4>1. best' = next
        BY <2>1, <3>1
      <4>2. CASE d = next
        BY <2>1, <4>1, <4>2
      <4>3. CASE d < next
        <5>1. d \in 1 .. next - 1 /\ best # 0
          BY <2>1, <4>3 DEF Choosing
        <5>2. Score(machine[d]) <= Score(machine[best])
          BY <2>1, <5>1 DEF Choosing
        <5>3. Score(machine[next]) > Score(machine[best])
          BY <3>1, <5>1 DEF Better, BestScore
        <5> QED BY <2>1, <4>1, <5>2, <5>3
      <4> QED BY <2>1, <4>2, <4>3
    <3>2. CASE ~ Better
      <4>1. best' = best /\ best # 0
        BY <2>1, <2>2, <3>2
      <4>2. Score(machine[next]) <= Score(machine[best])
        BY <2>1, <3>2, <4>1 DEF Better, BestScore
      <4>3. CASE d = next
        BY <2>1, <4>1, <4>2, <4>3
      <4>4. CASE d < next
        BY <2>1, <4>1, <4>4 DEF Choosing
      <4> QED BY <2>1, <4>3, <4>4
    <3> QED BY <3>1, <3>2
  <2> HIDE DEF Consider
  <2> QED BY <2>1, <2>2, <2>3 DEF Choosing, PicksBest, Initing
<1>3. Scratch'
  BY ReturnLocals DEF Scratch, Pool!Grant
<1>4. InHand'
  BY ReturnLocals DEF InHand, Initing, FieldsLive, TypeOK, Handles
<1>5. Accounted'
  BY ReturnLocals DEF Accounted, InHand, FieldsLive, TypeOK, Handles
<1>6. FieldsLive'
  BY ReturnLocals DEF FieldsLive, InHand, Accounted, TypeOK, Handles
<1> QED BY <1>1, <1>2, <1>3, <1>4, <1>5, <1>6

LEMMA PickedStep ==
  ASSUME EInv, Picked
  PROVE  EInv'
<1> USE EngineAssumption DEF EInv, Picked, Is, Create, Without, locals
<1>1. TypeOK'
  BY ReturnLocals DEF TypeOK, Handles, Kinds, Pool!Grant
<1>2. Choosing'
  <2>1. CASE best = 0
    BY <2>1, ReturnLocals
  <2>2. CASE best # 0
    <3>1. DOMAIN machine = 1 .. Len(machine) /\ Len(machine) \in Nat
      BY DEF TypeOK
    <3>2. next = Len(machine) + 1 /\ best \in 1 .. Len(machine)
      BY <2>2, <3>1 DEF Choosing, TypeOK
    <3>3. \A d \in DOMAIN machine :
            /\ Score(machine[d]) <= Score(machine[best])
            /\ d < best => Score(machine[d]) < Score(machine[best])
      BY <3>1, <3>2 DEF Choosing
    <3> QED BY <2>2, <3>1, <3>2, <3>3 DEF Choosing, PicksBest, Initing
  <2> QED BY <2>1, <2>2
<1>3. Scratch'
  BY ReturnLocals DEF Scratch, Pool!Grant
<1>4. InHand'
  BY ReturnLocals DEF InHand, Initing, FieldsLive, TypeOK, Handles
<1>5. Accounted'
  BY ReturnLocals DEF Accounted, InHand, FieldsLive, TypeOK, Handles
<1>6. FieldsLive'
  BY ReturnLocals DEF FieldsLive, InHand, Accounted, TypeOK, Handles
<1> QED BY <1>1, <1>2, <1>3, <1>4, <1>5, <1>6

LEMMA CreateContextStep ==
  ASSUME EInv, CreateContext
  PROVE  EInv'
<1> USE EngineAssumption DEF EInv, CreateContext, Is, Create, Without
<1>1. TypeOK'
  BY ReturnLocals DEF TypeOK, Handles, Kinds, Pool!Grant
<1>2. Choosing'
  BY ReturnLocals DEF Choosing, PicksBest, Initing
<1>3. Scratch'
  BY ReturnLocals DEF Scratch, Pool!Grant
<1>4. InHand'
  BY ReturnLocals DEF InHand, Initing, FieldsLive, TypeOK, Handles
<1>5. Accounted'
  BY ReturnLocals DEF Accounted, InHand, FieldsLive, TypeOK, Handles
<1>6. FieldsLive'
  BY ReturnLocals DEF FieldsLive, InHand, Accounted, TypeOK, Handles
<1> QED BY <1>1, <1>2, <1>3, <1>4, <1>5, <1>6

LEMMA CreateQueueStep ==
  ASSUME EInv, CreateQueue
  PROVE  EInv'
<1> USE EngineAssumption DEF EInv, CreateQueue, Is, Create, Without
<1>1. TypeOK'
  BY ReturnLocals DEF TypeOK, Handles, Kinds, Pool!Grant
<1>2. Choosing'
  BY ReturnLocals DEF Choosing, PicksBest, Initing
<1>3. Scratch'
  BY ReturnLocals DEF Scratch, Pool!Grant
<1>4. InHand'
  BY ReturnLocals DEF InHand, Initing, FieldsLive, TypeOK, Handles
<1>5. Accounted'
  <2>1. PICK o \in Objects :
          /\ object[o] = "free" /\ object' = [object EXCEPT ![o] = "queue"]
          /\ ctx' = [ctx EXCEPT !.context = fresh, !.queue = o]
    OBVIOUS
  <2>2. ctx'.context = fresh /\ ctx'.queue = o /\ ctx'.program = ctx.program
        /\ ctx'.image = ctx.image /\ pc \in {"queue", "fallback"} /\ pc' = "idle"
        /\ ctx.context = None /\ ctx.queue = None
    BY <2>1, ReturnLocals DEF TypeOK, InHand, Initing
  <2>3. ASSUME NEW x \in Objects
        PROVE  /\ object'[x] = "context" => x = fresh
               /\ object'[x] = "queue" => x = o
               /\ object'[x] = "image" => x = ctx.image
               /\ object'[x] # "program"
    <3>1. CASE x = o
      BY <2>1, <3>1 DEF TypeOK
    <3>2. CASE x # o
      <4>1. object'[x] = object[x]
        BY <2>1, <3>2 DEF TypeOK
      <4> QED BY <2>2, <4>1 DEF Accounted
    <3> QED BY <3>1, <3>2
  <2> QED BY <2>2, <2>3 DEF Accounted
<1>6. FieldsLive'
  BY ReturnLocals DEF FieldsLive, InHand, Accounted, TypeOK, Handles
<1> QED BY <1>1, <1>2, <1>3, <1>4, <1>5, <1>6

LEMMA TryInOrderStep ==
  ASSUME EInv, TryInOrder
  PROVE  EInv'
<1> USE EngineAssumption DEF EInv, TryInOrder, Is, Create, Without, locals
<1>1. TypeOK'
  BY ReturnLocals DEF TypeOK, Handles, Kinds, Pool!Grant
<1>2. Choosing'
  BY ReturnLocals DEF Choosing, PicksBest, Initing
<1>3. Scratch'
  BY ReturnLocals DEF Scratch, Pool!Grant
<1>4. InHand'
  BY ReturnLocals DEF InHand, Initing, FieldsLive, TypeOK, Handles
<1>5. Accounted'
  BY ReturnLocals DEF Accounted, InHand, FieldsLive, TypeOK, Handles
<1>6. FieldsLive'
  BY ReturnLocals DEF FieldsLive, InHand, Accounted, TypeOK, Handles
<1> QED BY <1>1, <1>2, <1>3, <1>4, <1>5, <1>6

LEMMA QueueFailsStep ==
  ASSUME EInv, QueueFails
  PROVE  EInv'
<1> USE EngineAssumption DEF EInv, QueueFails, Is, Create, Without
<1>1. TypeOK'
  BY ReturnLocals DEF TypeOK, Handles, Kinds, Pool!Grant
<1>2. Choosing'
  BY ReturnLocals DEF Choosing, PicksBest, Initing
<1>3. Scratch'
  BY ReturnLocals DEF Scratch, Pool!Grant
<1>4. InHand'
  BY ReturnLocals DEF InHand, Initing, FieldsLive, TypeOK, Handles
<1>5. Accounted'
  BY ReturnLocals DEF Accounted, InHand, FieldsLive, TypeOK, Handles
<1>6. FieldsLive'
  <2>1. /\ object[fresh] = "context" /\ ctx.context = None /\ ctx' = ctx
        /\ \A x \in Objects : x # fresh => object'[x] = object[x]
    BY DEF InHand, Initing
  <2> HIDE DEF QueueFails
  <2> QED BY <2>1 DEF FieldsLive
<1> QED BY <1>1, <1>2, <1>3, <1>4, <1>5, <1>6

LEMMA LoadCallStep ==
  ASSUME EInv, NEW n \in SourcePages, LoadCall(n)
  PROVE  EInv'
<1> USE EngineAssumption DEF EInv, LoadCall, Is, Create, Without
<1>1. TypeOK'
  BY ReturnLocals DEF TypeOK, Handles, Kinds, Pool!Grant
<1>2. Choosing'
  BY ReturnLocals DEF Choosing, PicksBest, Initing
<1>3. Scratch'
  BY ReturnLocals DEF Scratch, Pool!Grant
<1>4. InHand'
  BY ReturnLocals DEF InHand, Initing, FieldsLive, TypeOK, Handles
<1>5. Accounted'
  BY ReturnLocals DEF Accounted, InHand, FieldsLive, TypeOK, Handles
<1>6. FieldsLive'
  BY ReturnLocals DEF FieldsLive, InHand, Accounted, TypeOK, Handles
<1> QED BY <1>1, <1>2, <1>3, <1>4, <1>5, <1>6

LEMMA CreateProgramStep ==
  ASSUME EInv, CreateProgram
  PROVE  EInv'
<1> USE EngineAssumption DEF EInv, CreateProgram, Is, Create, Without, locals
<1>1. TypeOK'
  BY ReturnLocals DEF TypeOK, Handles, Kinds, Pool!Grant
<1>2. Choosing'
  BY ReturnLocals DEF Choosing, PicksBest, Initing
<1>3. Scratch'
  BY ReturnLocals DEF Scratch, Pool!Grant
<1>4. InHand'
  BY ReturnLocals DEF InHand, Initing, FieldsLive, TypeOK, Handles
<1>5. Accounted'
  BY ReturnLocals DEF Accounted, InHand, FieldsLive, TypeOK, Handles
<1>6. FieldsLive'
  BY ReturnLocals DEF FieldsLive, InHand, Accounted, TypeOK, Handles
<1> QED BY <1>1, <1>2, <1>3, <1>4, <1>5, <1>6

LEMMA CreateFailsStep ==
  ASSUME EInv, CreateFails
  PROVE  EInv'
<1> USE EngineAssumption DEF EInv, CreateFails, Is, Create, Without
<1>1. TypeOK'
  BY ReturnLocals DEF TypeOK, Handles, Kinds, Pool!Grant
<1>2. Choosing'
  BY ReturnLocals DEF Choosing, PicksBest, Initing
<1>3. Scratch'
  BY ReturnLocals DEF Scratch, Pool!Grant
<1>4. InHand'
  BY ReturnLocals DEF InHand, Initing, FieldsLive, TypeOK, Handles
<1>5. Accounted'
  BY ReturnLocals DEF Accounted, InHand, FieldsLive, TypeOK, Handles
<1>6. FieldsLive'
  BY ReturnLocals DEF FieldsLive, InHand, Accounted, TypeOK, Handles
<1> QED BY <1>1, <1>2, <1>3, <1>4, <1>5, <1>6

LEMMA BuildStep ==
  ASSUME EInv, Build
  PROVE  EInv'
<1> USE EngineAssumption DEF EInv, Build, Is, Create, Without, locals
<1>1. TypeOK'
  BY ReturnLocals DEF TypeOK, Handles, Kinds, Pool!Grant
<1>2. Choosing'
  BY ReturnLocals DEF Choosing, PicksBest, Initing
<1>3. Scratch'
  BY ReturnLocals DEF Scratch, Pool!Grant
<1>4. InHand'
  BY ReturnLocals DEF InHand, Initing, FieldsLive, TypeOK, Handles
<1>5. Accounted'
  BY ReturnLocals DEF Accounted, InHand, FieldsLive, TypeOK, Handles
<1>6. FieldsLive'
  BY ReturnLocals DEF FieldsLive, InHand, Accounted, TypeOK, Handles
<1> QED BY <1>1, <1>2, <1>3, <1>4, <1>5, <1>6

LEMMA GetLogStep ==
  ASSUME EInv, NEW n \in SourcePages, GetLog(n)
  PROVE  EInv'
<1> USE EngineAssumption DEF EInv, GetLog, Is, Create, Without
<1>1. TypeOK'
  BY ReturnLocals DEF TypeOK, Handles, Kinds, Pool!Grant
<1>2. Choosing'
  BY ReturnLocals DEF Choosing, PicksBest, Initing
<1>3. Scratch'
  BY ReturnLocals DEF Scratch, Pool!Grant
<1>4. InHand'
  BY ReturnLocals DEF InHand, Initing, FieldsLive, TypeOK, Handles
<1>5. Accounted'
  BY ReturnLocals DEF Accounted, InHand, FieldsLive, TypeOK, Handles
<1>6. FieldsLive'
  BY ReturnLocals DEF FieldsLive, InHand, Accounted, TypeOK, Handles
<1> QED BY <1>1, <1>2, <1>3, <1>4, <1>5, <1>6

LEMMA BuildFailsStep ==
  ASSUME EInv, BuildFails
  PROVE  EInv'
<1> USE EngineAssumption DEF EInv, BuildFails, Is, Create, Without
<1>1. TypeOK'
  BY ReturnLocals DEF TypeOK, Handles, Kinds, Pool!Grant
<1>2. Choosing'
  BY ReturnLocals DEF Choosing, PicksBest, Initing
<1>3. Scratch'
  BY ReturnLocals DEF Scratch, Pool!Grant
<1>4. InHand'
  BY ReturnLocals DEF InHand, Initing, FieldsLive, TypeOK, Handles
<1>5. Accounted'
  BY ReturnLocals DEF Accounted, InHand, FieldsLive, TypeOK, Handles
<1>6. FieldsLive'
  BY ReturnLocals DEF FieldsLive, InHand, Accounted, TypeOK, Handles
<1> QED BY <1>1, <1>2, <1>3, <1>4, <1>5, <1>6

LEMMA CreateKernelStep ==
  ASSUME EInv, CreateKernel
  PROVE  EInv'
<1> USE EngineAssumption DEF EInv, CreateKernel, Is, Create, Without
<1>1. TypeOK'
  BY ReturnLocals DEF TypeOK, Handles, Kinds, Pool!Grant
<1>2. Choosing'
  BY ReturnLocals DEF Choosing, PicksBest, Initing
<1>3. Scratch'
  BY ReturnLocals DEF Scratch, Pool!Grant
<1>4. InHand'
  BY ReturnLocals DEF InHand, Initing, FieldsLive, TypeOK, Handles
<1>5. Accounted'
  BY ReturnLocals DEF Accounted, InHand, FieldsLive, TypeOK, Handles
<1>6. FieldsLive'
  <2>1. CASE ctx' = [ctx EXCEPT !.kernel = None] /\ UNCHANGED object
    BY <2>1 DEF FieldsLive, TypeOK
  <2>2. ASSUME NEW o \in Objects, object[o] = "free",
               object' = [object EXCEPT ![o] = "kernel"], ctx' = [ctx EXCEPT !.kernel = o]
        PROVE  FieldsLive'
    <3>1. /\ ctx'.context = ctx.context /\ ctx'.queue = ctx.queue
          /\ ctx'.program = ctx.program /\ ctx'.image = ctx.image /\ ctx'.kernel = o
          /\ object'[o] = "kernel"
          /\ \A x \in Objects : x # o => object'[x] = object[x]
      BY <2>2 DEF TypeOK
    <3> HIDE DEF CreateKernel
    <3> QED BY <2>2, <3>1 DEF FieldsLive
  <2> QED BY <2>1, <2>2
<1> QED BY <1>1, <1>2, <1>3, <1>4, <1>5, <1>6

LEMMA ImportStep ==
  ASSUME EInv, Import
  PROVE  EInv'
<1> USE EngineAssumption DEF EInv, Import, Is, Create, Without
<1>1. TypeOK'
  BY ReturnLocals DEF TypeOK, Handles, Kinds, Pool!Grant
<1>2. Choosing'
  BY ReturnLocals DEF Choosing, PicksBest, Initing
<1>3. Scratch'
  BY ReturnLocals DEF Scratch, Pool!Grant
<1>4. InHand'
  BY ReturnLocals DEF InHand, Initing, FieldsLive, TypeOK, Handles
<1>5. Accounted'
  BY ReturnLocals DEF Accounted, InHand, FieldsLive, TypeOK, Handles
<1>6. FieldsLive'
  BY ReturnLocals DEF FieldsLive, InHand, Accounted, TypeOK, Handles
<1> QED BY <1>1, <1>2, <1>3, <1>4, <1>5, <1>6

LEMMA SwapImageStep ==
  ASSUME EInv, SwapImage
  PROVE  EInv'
<1> USE EngineAssumption DEF EInv, SwapImage, Is, Create, Without
<1>1. TypeOK'
  BY ReturnLocals DEF TypeOK, Handles, Kinds, Pool!Grant
<1>2. Choosing'
  BY ReturnLocals DEF Choosing, PicksBest, Initing
<1>3. Scratch'
  BY ReturnLocals DEF Scratch, Pool!Grant
<1>4. InHand'
  BY ReturnLocals DEF InHand, Initing, FieldsLive, TypeOK, Handles
<1>5. Accounted'
  <2>1. /\ ctx'.context = ctx.context /\ ctx'.queue = ctx.queue
        /\ ctx'.program = ctx.program /\ ctx'.kernel = ctx.kernel /\ ctx'.image = fresh
        /\ pc = "swap" /\ pc' = "idle"
    BY ReturnLocals DEF TypeOK
  <2>2. object' = [x \in Objects |-> IF x = ctx.image THEN "free" ELSE object[x]]
    BY DEF Released
  <2>3. ctx.image # None => object[ctx.image] = "image"
    BY DEF FieldsLive
  <2> HIDE DEF SwapImage
  <2> QED BY <2>1, <2>2, <2>3 DEF Accounted, InHand
<1>6. FieldsLive'
  <2>1. /\ ctx'.context = ctx.context /\ ctx'.queue = ctx.queue
        /\ ctx'.program = ctx.program /\ ctx'.kernel = ctx.kernel /\ ctx'.image = fresh
        /\ pc = "swap" /\ pc' = "idle"
    BY ReturnLocals DEF TypeOK
  <2>2. object' = [x \in Objects |-> IF x = ctx.image THEN "free" ELSE object[x]]
    BY DEF Released
  <2>3. ctx.image # None => object[ctx.image] = "image"
    BY DEF FieldsLive
  <2> HIDE DEF SwapImage
  <2> QED BY <2>1, <2>2, <2>3 DEF FieldsLive, InHand
<1> QED BY <1>1, <1>2, <1>3, <1>4, <1>5, <1>6

LEMMA ConvertCallStep ==
  ASSUME EInv, NEW w \in Sides, NEW h \in Sides, ConvertCall(w, h)
  PROVE  EInv'
<1> USE EngineAssumption DEF EInv, ConvertCall, Is, Create, Without
<1>1. TypeOK'
  BY ReturnLocals DEF TypeOK, Handles, Kinds, Pool!Grant
<1>2. Choosing'
  BY ReturnLocals DEF Choosing, PicksBest, Initing
<1>3. Scratch'
  BY ReturnLocals DEF Scratch, Pool!Grant
<1>4. InHand'
  <2>1. Is(ctx.kernel, "kernel") /\ job'.w = w /\ job'.h = h
    BY DEF KernelTest, FieldsLive
  <2> QED BY <2>1 DEF InHand, Initing
<1>5. Accounted'
  BY ReturnLocals DEF Accounted, InHand, FieldsLive, TypeOK, Handles
<1>6. FieldsLive'
  BY ReturnLocals DEF FieldsLive, InHand, Accounted, TypeOK, Handles
<1> QED BY <1>1, <1>2, <1>3, <1>4, <1>5, <1>6

LEMMA EnqueueStep ==
  ASSUME EInv, Enqueue
  PROVE  EInv'
<1> USE EngineAssumption DEF EInv, Enqueue, Is, Create, Without
<1>1. TypeOK'
  BY ReturnLocals DEF TypeOK, Handles, Kinds, Pool!Grant
<1>2. Choosing'
  BY ReturnLocals DEF Choosing, PicksBest, Initing
<1>3. Scratch'
  BY ReturnLocals DEF Scratch, Pool!Grant
<1>4. InHand'
  BY ReturnLocals DEF InHand, Initing, FieldsLive, TypeOK, Handles
<1>5. Accounted'
  BY ReturnLocals DEF Accounted, InHand, FieldsLive, TypeOK, Handles
<1>6. FieldsLive'
  BY ReturnLocals DEF FieldsLive, InHand, Accounted, TypeOK, Handles
<1> QED BY <1>1, <1>2, <1>3, <1>4, <1>5, <1>6

LEMMA FinishStep ==
  ASSUME EInv, Finish
  PROVE  EInv'
<1> USE EngineAssumption DEF EInv, Finish, Is, Create, Without
<1>1. TypeOK'
  BY ReturnLocals DEF TypeOK, Handles, Kinds, Pool!Grant
<1>2. Choosing'
  BY ReturnLocals DEF Choosing, PicksBest, Initing
<1>3. Scratch'
  BY ReturnLocals DEF Scratch, Pool!Grant
<1>4. InHand'
  BY ReturnLocals DEF InHand, Initing, FieldsLive, TypeOK, Handles
<1>5. Accounted'
  BY ReturnLocals DEF Accounted, InHand, FieldsLive, TypeOK, Handles
<1>6. FieldsLive'
  BY ReturnLocals DEF FieldsLive, InHand, Accounted, TypeOK, Handles
<1> QED BY <1>1, <1>2, <1>3, <1>4, <1>5, <1>6

-----------------------------------------------------------------------------
(***************************************************************************)
(* The invariant holds, and what follows from it.                          *)
(***************************************************************************)
LEMMA Steps == EInv /\ [Next]_vars => EInv'
<1> SUFFICES ASSUME EInv, [Next]_vars PROVE EInv'
  OBVIOUS
<1>1. CASE InitCall \/ Consider \/ Picked \/ CreateContext \/ CreateQueue
           \/ TryInOrder \/ QueueFails
  BY <1>1, InitCallStep, ConsiderStep, PickedStep, CreateContextStep,
     CreateQueueStep, TryInOrderStep, QueueFailsStep
<1>2. CASE \E n \in SourcePages : LoadCall(n) \/ GetLog(n)
  BY <1>2, LoadCallStep, GetLogStep
<1>3. CASE CreateProgram \/ CreateFails \/ Build \/ BuildFails \/ CreateKernel
  BY <1>3, CreateProgramStep, CreateFailsStep, BuildStep, BuildFailsStep, CreateKernelStep
<1>4. CASE Import \/ SwapImage
  BY <1>4, ImportStep, SwapImageStep
<1>5. CASE \E w, h \in Sides : ConvertCall(w, h)
  BY <1>5, ConvertCallStep
<1>6. CASE Enqueue \/ Finish
  BY <1>6, EnqueueStep, FinishStep
<1>7. CASE UNCHANGED vars
  <2>1. /\ UNCHANGED <<object, pages, ctx, managed, pc>>
        /\ UNCHANGED <<machine, next, best, fresh, source, log, job>>
    BY <1>7 DEF vars, locals
  <2>2. TypeOK' /\ Choosing' /\ Scratch'
    BY <2>1 DEF EInv, TypeOK, Choosing, PicksBest, Initing, Scratch, BestScore
  <2>3. InHand' /\ Accounted' /\ FieldsLive'
    BY <2>1 DEF EInv, InHand, Initing, Accounted, FieldsLive, Is
  <2> QED BY <2>2, <2>3 DEF EInv
<1> QED BY <1>1, <1>2, <1>3, <1>4, <1>5, <1>6, <1>7 DEF Next

LEMMA Invariance == ASSUME Zeroed PROVE Spec => []EInv
BY EInitially, Steps, PTL DEF Spec
-----------------------------------------------------------------------------
\* The fields of the context and the locals of every call stay in their ranges;
\* the search for a device never runs past the last one.
THEOREM TypeCorrect ==
  ASSUME Zeroed
  PROVE  Spec => []TypeOK
<1>1. EInv => TypeOK
  BY DEF EInv
<1> QED BY <1>1, Invariance, PTL

\* kbx_cl_init takes the first of the devices with the highest score, however
\* many there are and in whatever order they are listed.
THEOREM BestIsPicked ==
  ASSUME Zeroed
  PROVE  Spec => []PicksBest
<1>1. EInv => PicksBest
  BY DEF EInv, Choosing
<1> QED BY <1>1, Invariance, PTL

\* No field of the context ever points to an object that has been released or
\* is of another kind, whichever calls fail, and what is enqueued is a kernel.
THEOREM FieldsNeverDangle ==
  ASSUME Zeroed
  PROVE  Spec => []NothingDangles
<1>1. EInv => NothingDangles
  BY DEF EInv, InHand, NothingDangles
<1> QED BY <1>1, Invariance, PTL

-----------------------------------------------------------------------------
(***************************************************************************)
(* What is left behind.                                                    *)
(***************************************************************************)
\* The contents of the context and of fresh, while nobody changes either.
LEMMA SameHeld ==
  ASSUME ctx' = ctx, fresh' = fresh
  PROVE  Held' = Held
BY DEF Held

LEMMA InitKeepsHold ==
  ASSUME EInv, NEW o \in Objects, o \in Held \ Held',
         \/ InitCall \/ Consider \/ Picked \/ CreateContext \/ CreateQueue
         \/ TryInOrder \/ QueueFails
  PROVE  object'[o] = "free"
<1> USE DEF EInv
<1>1. CASE InitCall \/ Consider \/ TryInOrder
  BY <1>1, SameHeld DEF InitCall, Consider, TryInOrder, locals
<1>2. CASE Picked \/ CreateContext
  <2>1. ctx' = ctx /\ fresh = None
    BY <1>2 DEF Picked, CreateContext, InHand
  <2> QED BY <2>1, EngineAssumption DEF Held
<1>3. CASE CreateQueue
  <2>1. PICK q \in Objects : ctx' = [ctx EXCEPT !.context = fresh, !.queue = q]
    BY <1>3 DEF CreateQueue
  <2>2. ctx.context = None /\ ctx.queue = None
    BY <1>3 DEF CreateQueue, InHand, Initing
  <2>3. /\ ctx'.context = fresh /\ ctx'.program = ctx.program
        /\ ctx'.kernel = ctx.kernel /\ ctx'.image = ctx.image
    BY <2>1 DEF TypeOK
  <2> QED BY <2>2, <2>3, EngineAssumption DEF Held
<1>4. CASE QueueFails
  <2>1. ctx' = ctx /\ object' = Without(fresh)
    BY <1>4 DEF QueueFails
  <2>2. o = fresh
    BY <2>1 DEF Held
  <2> QED BY <2>1, <2>2 DEF Without
<1> QED BY <1>1, <1>2, <1>3, <1>4

LEMMA LoadKeepsHold ==
  ASSUME EInv, NEW o \in Objects, o \in Held \ Held',
         \/ \E n \in SourcePages : LoadCall(n) \/ GetLog(n)
         \/ CreateProgram \/ CreateFails \/ Build \/ BuildFails \/ CreateKernel
  PROVE  object'[o] = "free" \/ MayBeLost(o)
<1> USE DEF EInv
<1>1. CASE (\E n \in SourcePages : LoadCall(n) \/ GetLog(n)) \/ Build
  BY <1>1, SameHeld DEF LoadCall, GetLog, Build, locals
<1>2. CASE CreateProgram \/ CreateFails
  <2>1. pc = "create" /\ fresh = None
    BY <1>2 DEF CreateProgram, CreateFails, InHand
  <2>2. /\ ctx'.context = ctx.context /\ ctx'.queue = ctx.queue
        /\ ctx'.kernel = ctx.kernel /\ ctx'.image = ctx.image
    BY <1>2 DEF CreateProgram, CreateFails, TypeOK
  <2>3. o = ctx.program
    BY <2>1, <2>2, EngineAssumption DEF Held
  <2>4. Is(o, "built")
    BY <2>1, <2>3, EngineAssumption DEF FieldsLive, Accounted, Is
  <2> QED BY <2>1, <2>3, <2>4 DEF MayBeLost
<1>3. CASE BuildFails
  <2>1. pc = "printed" /\ fresh = None /\ object' = Without(ctx.program)
    BY <1>3 DEF BuildFails, InHand
  <2>2. /\ ctx'.context = ctx.context /\ ctx'.queue = ctx.queue
        /\ ctx'.kernel = ctx.kernel /\ ctx'.image = ctx.image
    BY <1>3 DEF BuildFails, TypeOK
  <2>3. o = ctx.program
    BY <2>1, <2>2, EngineAssumption DEF Held
  <2> QED BY <2>1, <2>3 DEF Without
<1>4. CASE CreateKernel
  <2>1. pc = "kernel" /\ fresh = None
    BY <1>4 DEF CreateKernel, InHand
  <2>2. /\ ctx'.context = ctx.context /\ ctx'.queue = ctx.queue
        /\ ctx'.program = ctx.program /\ ctx'.image = ctx.image
    BY <1>4 DEF CreateKernel, TypeOK
  <2>3. o = ctx.kernel
    BY <2>1, <2>2, EngineAssumption DEF Held
  <2> QED BY <2>1, <2>3 DEF MayBeLost
<1> QED BY <1>1, <1>2, <1>3, <1>4

LEMMA UseKeepsHold ==
  ASSUME EInv, NEW o \in Objects, o \in Held \ Held',
         \/ Import \/ SwapImage
         \/ \E w, h \in Sides : ConvertCall(w, h)
         \/ Enqueue \/ Finish
  PROVE  object'[o] = "free" \/ MayBeLost(o)
<1> USE DEF EInv
<1>1. CASE \E w, h \in Sides : ConvertCall(w, h)
  BY <1>1, SameHeld DEF ConvertCall
<1>2. CASE Import \/ Enqueue
  <2>1. ctx' = ctx /\ fresh = None
    BY <1>2 DEF Import, Enqueue, InHand
  <2> QED BY <2>1, EngineAssumption DEF Held
<1>3. CASE SwapImage
  <2>1. /\ ctx'.context = ctx.context /\ ctx'.queue = ctx.queue /\ ctx'.image = fresh
        /\ ctx'.program = ctx.program /\ ctx'.kernel = ctx.kernel
        /\ object' = Without(ctx.image)
    BY <1>3 DEF SwapImage, TypeOK, Released
  <2>2. o = ctx.image
    BY <2>1 DEF Held
  <2> QED BY <2>1, <2>2 DEF Without
<1>4. CASE Finish
  <2>1. pc = "finish" /\ ctx' = ctx
    BY <1>4 DEF Finish
  <2>2. o = fresh
    BY <2>1 DEF Held
  <2> QED BY <2>1, <2>2 DEF MayBeLost
<1> QED BY <1>1, <1>2, <1>3, <1>4

\* Whenever a call returns the engine has no scratch pages, no image but the
\* last one imported, no unbuilt program, and no context or queue but its own;
\* and what no field of the context leads to any more has been released, but
\* for the program and the kernel of an earlier load, which a later one
\* overwrites, and the event of a clFinish that fails.
THEOREM NothingIsLeft ==
  ASSUME Zeroed
  PROVE  Spec => LeavesNothing
<1>1. EInv /\ [Next]_vars /\ EInv' =>
        [/\ pc' = "idle" => Tidy'
         /\ \A o \in (Held \ Held') \cap Objects : object'[o] = "free" \/ MayBeLost(o)]_vars
  <2>1. EInv' /\ pc' = "idle" => Tidy'
    BY DEF EInv, Tidy, Scratch, Accounted
  <2>2. ASSUME EInv, Next, NEW o \in Objects, o \in Held \ Held'
        PROVE  object'[o] = "free" \/ MayBeLost(o)
    BY <2>2, InitKeepsHold, LoadKeepsHold, UseKeepsHold DEF Next
  <2> QED BY <2>1, <2>2
<1> QED BY <1>1, Invariance, Steps, PTL DEF Spec, LeavesNothing

LEMMA JobSides ==
  ASSUME EInv, Running
  PROVE  job.w \in Nat \ {0} /\ job.h \in Nat \ {0}
BY EngineAssumption DEF EInv, InHand, Running

\* For work groups of every size and all images whose indices do not wrap, those
\* with odd sides too, the kernel touches the bytes ManualNV12ToRGB touches.
THEOREM ConversionIsManual ==
  ASSUME Zeroed
  PROVE  Spec => []ConvertsLikeManual
<1>1. EInv => ConvertsLikeManual
  BY JobSides, KernelIsManualAlways DEF ConvertsLikeManual
<1> QED BY <1>1, Invariance, PTL

\* The global size, rounded up and cut by the kernel's bounds check, gives each
\* byte of the result exactly one writer, in all images whose indices do not
\* wrap.
THEOREM ConversionWritesOnce ==
  ASSUME Zeroed
  PROVE  Spec => []ConvertsEachOnce
<1>1. EInv => ConvertsEachOnce
  BY JobSides, WritesEachOnceAlways DEF ConvertsEachOnce
<1> QED BY <1>1, Invariance, PTL

\* As long as no index wraps, the kernel reads no byte outside the two planes of
\* an image if both its sides are even, and does so if one of them is odd.
THEOREM ConversionStaysInPlanes ==
  ASSUME Zeroed
  PROVE  Spec => []ReadsInPlanes
<1>1. EInv => ReadsInPlanes
  BY JobSides, ReadsPlanesAlways DEF ReadsInPlanes
<1> QED BY <1>1, Invariance, PTL
=============================================================================
