SPECIFICATION Spec
CONSTANTS
  Threads = {t1, t2}
  Fds = {f1, f2}
  None = None
  MaxBuffers = 3
  FrameCounts = {0, 1, 2}
  MaxFrames = 5
  Calls = {"capture", "read"}
  Faults = {}
SYMMETRY ThreadSymmetry
INVARIANTS
  NoneStranded
PROPERTIES
  CapturesComplete
