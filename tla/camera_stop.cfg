SPECIFICATION FairSpec
CONSTANTS
  Threads = {t1, t2}
  Fds = {f1}
  None = None
  MaxBuffers = 2
  FrameCounts = {0, 2}
  MaxFrames = 3
  Calls = {"capture", "read", "stop"}
  Faults = {}
PROPERTIES
  StopEnds
