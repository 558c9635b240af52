\* Two threads of the dispatcher and two files open at a time.
CONSTANTS
  Threads = {t1, t2}
  t1 = t1
  t2 = t2
  Places = {1, 2}
  Requests <- SomeRequests
  Contents <- OneTree
  Blocks = 3
  BlockSize = 4
  Untrue = {"list", "read"}
  DeviceBytes = {0}
  Word = 16
  AllocationUnit = 4
  NsPerSecond = 6
  WindowsTick = 3
  SecToUnixEpoch = 5
SYMMETRY Symmetry
SPECIFICATION Spec
INVARIANT TypeOK
PROPERTY ImplementsDrive
