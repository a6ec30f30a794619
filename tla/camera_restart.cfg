SPECIFICATION Spec
CONSTANTS
  Threads = {t1, t2}
  Fds = {f1, f2}
  None = None
  MaxBuffers = 3
  FrameCounts = {0, 1}
  MaxFrames = 3
  Calls = {"capture", "stop"}
  Faults = {}
SYMMETRY ThreadSymmetry
INVARIANTS
  NeverStarved
