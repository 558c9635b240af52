\* Reads of more than one block.
CONSTANTS
  Threads = {t1}
  Images <- FlatImage
  Calls <- AllReads
  BlockSize = 2
  Garbage <- SomeGarbage
SPECIFICATION Spec
INVARIANT ReadsFileBytes
