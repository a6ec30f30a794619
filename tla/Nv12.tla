-------------------------------- MODULE Nv12 --------------------------------
(***************************************************************************)
(* Which bytes the conversion of an NV12 image touches: the OpenCL kernel  *)
(* nv12_to_rgb (src/src/kernels/nv12_to_rgb.cl), the work items            *)
(* kbx_cl_convert_nv12_to_rgb starts for it, and ManualNV12ToRGB           *)
(* (src/src/compute/lo_engine.cc), which does the same in two loops.       *)
(*                                                                         *)
(* An image of w x h pixels is a plane of w * h luma bytes and behind it   *)
(* half as many bytes of U and V in turn; the result has three bytes a     *)
(* pixel.  Left out: the colour formula, which is floating-point, and      *)
(* images whose 3 * w * h bytes do not fit an int (2^31 / 3 pixels): there *)
(* y_idx * 3 overflows in ManualNV12ToRGB, and from 2/3 of 2^32 pixels on  *)
(* the kernel's uint uv_idx wraps.  Indices are plain integers here.       *)
(***************************************************************************)
EXTENDS Integers

CONSTANT GroupSize    \* local[0] = local[1], 16 in the code

ASSUME GroupAssumption == GroupSize \in Nat \ {0}

\* The global size: a multiple of the size of a work group.
RoundedDown(n) == (n \div GroupSize) * GroupSize  \* fault: the remainder is lost
Rounded(n) == ((n + GroupSize - 1) \div GroupSize) * GroupSize
WorkItems(w, h) == (0 .. Rounded(w) - 1) \X (0 .. Rounded(h) - 1)

\* The work items that pass the kernel's bounds check.
Active(w, h) == {p \in WorkItems(w, h) : p[1] < w /\ p[2] < h}

\* The bytes the kernel reads and writes for its pixel.
UvColOdd(x) == x                                  \* fault: x is not made even
UvCol(x) == x - (x % 2)
UvRowFull(y) == y                                 \* fault: y is not halved
UvRow(y) == y \div 2
KernelAccess(p, w, h) ==
  LET pixel == p[2] * w + p[1]
      uv    == w * h + UvRow(p[2]) * w + UvCol(p[1])
  IN  [y |-> pixel, u |-> uv, v |-> uv + 1, rgb |-> 3 * pixel]

\* The same for ManualNV12ToRGB, whose uv_plane starts behind the luma bytes.
ManualAccess(x, y, w, h) ==
  LET y_idx  == y * w + x
      uv_idx == (y \div 2) * w + 2 * (x \div 2)
  IN  [y |-> y_idx, u |-> w * h + uv_idx, v |-> w * h + uv_idx + 1, rgb |-> 3 * y_idx]
-----------------------------------------------------------------------------
\* The kernel and ManualNV12ToRGB touch the same bytes, for odd sizes too.
KernelIsManual(w, h) ==
  {KernelAccess(p, w, h) : p \in Active(w, h)} =
    {ManualAccess(x, y, w, h) : x \in 0 .. w - 1, y \in 0 .. h - 1}

\* Every byte of the result is written, and by one work item only.
WritesEachOnce(w, h) ==
  LET written(p) == KernelAccess(p, w, h).rgb .. KernelAccess(p, w, h).rgb + 2
  IN  /\ UNION {written(p) : p \in Active(w, h)} = 0 .. 3 * w * h - 1
      /\ \A p, q \in Active(w, h) : p # q => written(p) \cap written(q) = {}

\* The reads of all pixels stay inside the two planes exactly if both sides of
\* the image are even: along an odd side the last ones lie behind the chroma
\* plane, and nothing refuses such an image.  In rows of an even length each U
\* has an even offset in its plane, with its V behind it.
ReadsPlanes(w, h) ==
  LET inside(a) == a.y < w * h /\ a.u >= w * h /\ a.v < w * h + ((w * h) \div 2)
  IN  /\ (\A p \in Active(w, h) : inside(KernelAccess(p, w, h)))
           <=> (w % 2 = 0 /\ h % 2 = 0)
      /\ w % 2 = 0 =>
           \A p \in Active(w, h) : (KernelAccess(p, w, h).u - w * h) % 2 = 0
=============================================================================
