\* Containers with blocks of every kind of size, any of which may fail to be read.
\* The program ends when init() fails, and has no next step after a fault.
CONSTANTS
  Images <- SomeImages
  Objects = {1, 2, 3}
  Indices = {0, 1, 2, 5}
  NxMaxFileSystems = 3
  ApfsBlockSize = 4
  NxSuperblockSize = 2
  OmapSize = 1
  ApfsSuperblockSize = 2
  Garbage <- SomeGarbage
  Word = 256
SPECIFICATION Spec
INVARIANT TypeOK
PROPERTIES ImplementsCatalog ServesSoundVolumes
CHECK_DEADLOCK FALSE
