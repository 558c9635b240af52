\* Reads that begin inside an extent.
CONSTANTS
  Threads = {t1}
  Images <- FlatImage
  Calls <- AlignedReads
  BlockSize = 2
  Garbage <- SomeGarbage
SPECIFICATION Spec
PROPERTY ServesReads
