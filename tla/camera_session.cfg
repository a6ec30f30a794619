SPECIFICATION Spec
CONSTANTS
  Threads = {t1, t2}
  Fds = {f1, f2}
  None = None
  MaxBuffers = 3
  FrameCounts = {0, 1, 2}
  MaxFrames = 4
  Calls = {"capture", "read", "stop"}
  Faults = {"open", "setup", "reqbufs", "calloc", "mmap", "qbufInit",
            "streamon", "select", "dqbuf", "qbuf"}
SYMMETRY ThreadSymmetry
INVARIANTS
  TypeOK
  HeldExclusive
  DeviceReady
  OnlyFailedInitsLeak
PROPERTIES
  SavesFresh
