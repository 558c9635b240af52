\* Every call, on trees of one and two levels, with and without unreadable blocks.
CONSTANTS
  Threads = {t1}
  Images <- AllImages
  Calls <- AllCalls
  BlockSize = 2
  Garbage <- SomeGarbage
SPECIFICATION Spec
INVARIANTS TypeOK ReadsStayInFile
PROPERTIES ImplementsFileStore CallsReturn ServesOneNodeTrees
