\* One thread of the dispatcher, over a volume that answers every call truly.
CONSTANTS
  Threads = {t1}
  t1 = t1
  Places = {1}
  Requests <- SomeRequests
  Contents <- OneTree
  Blocks = 3
  BlockSize = 4
  Untrue = {}
  DeviceBytes = {0}
  Word = 16
  AllocationUnit = 4
  NsPerSecond = 6
  WindowsTick = 3
  SecToUnixEpoch = 5
SPECIFICATION Spec
PROPERTY ListsDirectories
