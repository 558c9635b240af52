--------------------------- MODULE ContainerProofs ---------------------------
(***************************************************************************)
(* Proofs about Container, for any images, addresses and indices, any      *)
(* number of slots and any sizes of blocks and structures.                 *)
(***************************************************************************)
EXTENDS Container, TLAPS

Volumes == [volume_oid_ : Nat, superblock_ : Structures, root_tree_ : Nat]

Typed ==
  /\ image \in Images
  /\ step \in {"superblock", "object_map", "ready", "volume_superblock",
               "volume_object_map", "failed", "fault"}
  /\ superblock_ \in Structures
  /\ block_size_ \in {0, superblock_.nx_block_size}
  /\ volumes_ \in Seq(Objects \union {0}) /\ Len(volumes_) <= NxMaxFileSystems
  /\ heap \in [Objects -> Volumes]
  /\ index \in SUBSET Indices
  /\ volume \in Objects \union {0}
  /\ result \in Objects \union {0}

\* Outside of getVolume, no volume is under way.
Idle ==
  step \in {"superblock", "object_map", "ready", "failed"} => volume = 0 /\ index = {}

\* init() starts from nothing and leaves what the device says.
Opened ==
  /\ step = "superblock" => block_size_ = 0
  /\ step \in {"object_map", "ready", "volume_superblock", "volume_object_map"} =>
       superblock_ = At(image, 0) /\ block_size_ = superblock_.nx_block_size

\* The volume that getVolume(i) is loading: it is the one that slot i names, and
\* the slot in volumes_ is there, empty.
Loading(i) ==
  /\ index = {i} /\ i \in Indices /\ i < Len(volumes_) /\ volumes_[i + 1] = 0
  /\ volume \in Objects
  /\ heap[volume].volume_oid_ = superblock_.nx_fs_oid[i]
  /\ superblock_.nx_fs_oid[i] # 0 /\ heap[volume].root_tree_ = 0

\* The superblock of that volume is the one on the device, if it fits its block.
SuperblockTrue ==
  step = "volume_object_map" /\ WellFormed =>
    LET oid == heap[volume].volume_oid_
        s   == heap[volume].superblock_
    IN  /\ Offset(oid, block_size_) + block_size_ <= image.size
        /\ s = At(image, Offset(oid, block_size_))
        /\ s.magic = "APSB" /\ s.apfs_omap_oid # 0

\* volumes_ holds initialised volumes, each once, and not the one under way.
Stored ==
  \A j \in DOMAIN volumes_ :
    volumes_[j] # 0 =>
      /\ heap[volumes_[j]].root_tree_ # 0 /\ volumes_[j] # volume
      /\ \A k \in DOMAIN volumes_ : volumes_[j] = volumes_[k] => j = k

IInv ==
  /\ Typed /\ Idle /\ Opened /\ SuperblockTrue /\ Stored
  /\ step \in {"volume_superblock", "volume_object_map"} => \E i \in Indices : Loading(i)
  /\ result # 0 => \E j \in DOMAIN volumes_ : volumes_[j] = result

-----------------------------------------------------------------------------
(* What the definitions give.                                              *)

\* What lies at an offset is a structure, if only of zeros.
LEMMA AtType ==
  ASSUME NEW im \in Images, NEW offset PROVE At(im, offset) \in Structures
<1>1. Blank \in Structures
  BY SizesAssumption DEF Blank, Structures
<1>2. QED
  BY <1>1, ImagesAssumption DEF At

\* A well-formed container's blocks hold both structures.
LEMMA WellFormedBlocks ==
  ASSUME image \in Images, WellFormed
  PROVE  At(image, 0).nx_block_size >= OmapSize
         /\ At(image, 0).nx_block_size >= ApfsSuperblockSize
<1>1. OmapSize \in Nat /\ ApfsSuperblockSize \in Nat
  BY SizesAssumption
<1>2. At(image, 0).nx_block_size \in Nat
  BY AtType DEF Structures
<1>3. \E m \in {OmapSize, ApfsSuperblockSize} : m >= OmapSize /\ m >= ApfsSuperblockSize
  BY <1>1
<1>4. /\ Max({OmapSize, ApfsSuperblockSize}) \in {OmapSize, ApfsSuperblockSize}
      /\ Max({OmapSize, ApfsSuperblockSize}) >= OmapSize
      /\ Max({OmapSize, ApfsSuperblockSize}) >= ApfsSuperblockSize
  BY <1>1, <1>3 DEF Max
<1>5. QED
  BY <1>1, <1>2, <1>4 DEF WellFormed, BlockSize

\* The resize makes room for slot i and changes nothing that is there.
LEMMA ResizedGrows ==
  ASSUME Typed, NEW i \in Nat, NEW o, i < NxMaxFileSystems
  PROVE  /\ Resized(i, o) \in Seq(Objects \union {0})
         /\ i < Len(Resized(i, o)) /\ Len(Resized(i, o)) <= NxMaxFileSystems
         /\ Len(Resized(i, o)) >= Len(volumes_)
         /\ \A j \in 1 .. Len(Resized(i, o)) :
              Resized(i, o)[j] = IF j <= Len(volumes_) THEN volumes_[j] ELSE 0
<1>1. CASE i < Len(volumes_)
  BY <1>1 DEF Resized, Typed
<1>2. CASE Len(volumes_) <= i
  <2> DEFINE n == i + 1 - Len(volumes_)
             zeros == [j \in 1 .. n |-> 0]
  <2>1. n \in Nat /\ Len(volumes_) + n = i + 1
    BY <1>2 DEF Typed
  <2>2. Resized(i, o) = volumes_ \o zeros
    BY <1>2 DEF Resized, Typed
  <2> HIDE DEF n
  <2>3. zeros \in Seq(Objects \union {0}) /\ Len(zeros) = n
    BY <2>1
  <2>4. \A j \in 1 .. n : zeros[j] = 0
    OBVIOUS
  <2> HIDE DEF zeros
  <2>5. /\ volumes_ \o zeros \in Seq(Objects \union {0})
        /\ Len(volumes_ \o zeros) = i + 1
    BY <2>1, <2>3 DEF Typed
  <2>6. ASSUME NEW j \in 1 .. i + 1
        PROVE  (volumes_ \o zeros)[j] = IF j <= Len(volumes_) THEN volumes_[j] ELSE 0
    BY <2>1, <2>3, <2>4 DEF Typed
  <2>7. QED
    BY <1>2, <2>2, <2>5, <2>6, SizesAssumption DEF Typed
<1>3. QED
  BY <1>1, <1>2 DEF Typed

-----------------------------------------------------------------------------
(* Every step keeps IInv.                                                  *)

\* IInv holds before init() has read anything.
LEMMA InitIInv == Init => IInv
<1>1. Blank \in Structures /\ Free \in Volumes
  BY SizesAssumption DEF Blank, Structures, Free, Volumes
<1>2. QED
  BY <1>1, SizesAssumption
  DEF Init, IInv, Typed, Idle, Opened, SuperblockTrue, Stored

\* init() gives up before getVolume is ever called.
LEMMA InitFailsIInv ==
  ASSUME IInv, InitFails, volume = 0, index = {}, superblock_' \in Structures,
         block_size_' \in {0, superblock_'.nx_block_size}
  PROVE  IInv'
BY DEF InitFails, IInv, Typed, Idle, Opened, SuperblockTrue, Stored, loading

\* getVolume gives up a volume that it has not stored.
LEMMA ReturnNullIInv ==
  ASSUME IInv, ReturnNull, step \in {"volume_superblock", "volume_object_map"}
  PROVE  IInv'
<1>1. volume \in Objects
  BY DEF IInv, Loading
<1>2. Free \in Volumes
  BY SizesAssumption DEF Free, Volumes, Blank, Structures
<1>3. /\ step' = "ready" /\ index' = {} /\ volume' = 0 /\ result' = 0
      /\ heap' = [heap EXCEPT ![volume] = Free]
      /\ UNCHANGED <<image, superblock_, block_size_, volumes_>>
  BY DEF ReturnNull, Return, container
<1>4. Typed'
  BY <1>1, <1>2, <1>3 DEF IInv, Typed
<1>5. Stored'
  BY <1>1, <1>3 DEF IInv, Typed, Stored
<1>6. Opened' /\ Idle' /\ SuperblockTrue'
  BY <1>3 DEF IInv, Opened, Idle, SuperblockTrue, At
<1>7. QED
  BY <1>3, <1>4, <1>5, <1>6 DEF IInv

\* A step that goes on with init() or ends it.
LEMMA InitStepsIInv ==
  ASSUME IInv, ReadSuperblock \/ ReadObjectMap PROVE IInv'
<1>1. CASE ReadSuperblock
  <2>1. step = "superblock" /\ volume = 0 /\ index = {}
    BY <1>1 DEF ReadSuperblock, IInv, Idle
  <2>2. Copied = {At(image, 0)}
    <3>1. Offset(0, ApfsBlockSize) = 0
      BY SizesAssumption, WordAssumption DEF Offset
    <3>2. QED
      BY <2>1, <3>1, SizesAssumption DEF Copied, Needs
  <2>3. At(image, 0) \in Structures
    BY AtType DEF IInv, Typed
  <2>4. superblock_' = At(image, 0)
    BY <1>1, <2>2 DEF ReadSuperblock
  <2>5. CASE InitFails /\ block_size_' \in {block_size_, At(image, 0).nx_block_size}
    <3>1. block_size_ = 0
      BY <2>1 DEF IInv, Opened
    <3>2. QED
      BY <2>1, <2>3, <2>4, <2>5, <3>1, InitFailsIInv
  <2>6. CASE /\ block_size_' = At(image, 0).nx_block_size /\ step' = "object_map"
             /\ UNCHANGED <<image, volumes_, heap, loading, result>>
    <3>1. Typed'
      BY <2>3, <2>4, <2>6 DEF IInv, Typed, loading
    <3>2. Opened' /\ Idle' /\ SuperblockTrue' /\ Stored'
      BY <2>1, <2>4, <2>6
      DEF IInv, Opened, Idle, SuperblockTrue, Stored, loading, At
    <3>3. QED
      BY <2>6, <3>1, <3>2 DEF IInv
  <2>7. QED
    BY <1>1, <2>2, <2>5, <2>6 DEF ReadSuperblock
<1>2. CASE ReadObjectMap
  <2>1. /\ step = "object_map" /\ step' = "ready"
        /\ UNCHANGED <<image, superblock_, block_size_, volumes_, heap, index, volume, result>>
    BY <1>2 DEF ReadObjectMap, container, loading
  <2>2. QED
    BY <2>1 DEF IInv, Typed, Idle, Opened, SuperblockTrue, Stored, At
<1>3. QED
  BY <1>1, <1>2

\* getVolume answers from what it has.
LEMMA ReturnAtOnceIInv ==
  ASSUME IInv, NEW i \in Indices, ReturnAtOnce(i) PROVE IInv'
<1>1. /\ step = "ready" /\ step' = "ready" /\ index' = {} /\ volume' = 0
      /\ UNCHANGED <<image, superblock_, block_size_, volumes_, heap>>
  BY DEF ReturnAtOnce, Return, container
<1>2. result' = 0 \/ \E j \in DOMAIN volumes_ : volumes_[j] = result'
  <2>1. CASE NoVolume(i)
    BY <2>1 DEF ReturnAtOnce, Return
  <2>2. CASE ~NoVolume(i) /\ Cached(i)
    <3>1. i + 1 \in DOMAIN volumes_
      BY <2>2, IndicesAssumption DEF Cached, IInv, Typed
    <3>2. QED
      BY <2>2, <3>1 DEF ReturnAtOnce, Return
  <2>3. QED
    BY <2>1, <2>2 DEF ReturnAtOnce
<1>3. result' \in Objects \union {0}
  BY <1>2 DEF IInv, Typed
<1>4. QED
  BY <1>1, <1>2, <1>3 DEF IInv, Typed, Idle, Opened, SuperblockTrue, Stored, At

\* getVolume makes a volume, at an address no stored volume has.
LEMMA CreateVolumeIInv ==
  ASSUME IInv, NEW i \in Indices, CreateVolume(i) PROVE IInv'
<1>1. PICK o \in Objects :
        /\ heap[o] = Free
        /\ heap' = [heap EXCEPT ![o] = NewVolume(superblock_.nx_fs_oid[i])]
        /\ volume' = o
        /\ volumes_' = Resized(i, o)
  BY DEF CreateVolume
<1>2. /\ step = "ready" /\ ~NoVolume(i) /\ ~Cached(i)
      /\ step' = "volume_superblock" /\ index' = {i} /\ result' = 0
      /\ UNCHANGED <<image, superblock_, block_size_>>
  BY DEF CreateVolume, container
<1>3. i \in Nat /\ i < NxMaxFileSystems /\ superblock_.nx_fs_oid[i] # 0
  BY <1>2, IndicesAssumption, SizesAssumption DEF NoVolume
<1>4. superblock_.nx_fs_oid[i] \in Nat
  BY <1>3, SizesAssumption DEF IInv, Typed, Structures
<1>5. /\ volumes_' \in Seq(Objects \union {0}) /\ i < Len(volumes_')
      /\ Len(volumes_') <= NxMaxFileSystems /\ Len(volumes_') >= Len(volumes_)
      /\ \A j \in 1 .. Len(volumes_') :
           volumes_'[j] = IF j <= Len(volumes_) THEN volumes_[j] ELSE 0
  BY <1>1, <1>3, ResizedGrows DEF IInv
<1>6. o # 0
  BY ObjectsAssumption
<1>7. /\ NewVolume(superblock_.nx_fs_oid[i]) \in Volumes
      /\ NewVolume(superblock_.nx_fs_oid[i]).volume_oid_ = superblock_.nx_fs_oid[i]
      /\ NewVolume(superblock_.nx_fs_oid[i]).root_tree_ = 0
      /\ Free.root_tree_ = 0
  <2>1. Blank \in Structures
    BY SizesAssumption DEF Blank, Structures
  <2>2. QED
    BY <1>4, <2>1 DEF NewVolume, Free, Volumes
<1>8. Typed'
  BY <1>1, <1>2, <1>5, <1>7 DEF IInv, Typed
<1>9. Loading(i)'
  <2>1. volumes_'[i + 1] = 0
    BY <1>2, <1>3, <1>5 DEF Cached, IInv, Typed
  <2>2. QED
    BY <1>1, <1>2, <1>3, <1>5, <1>7, <2>1 DEF Loading, IInv, Typed
<1>10. Stored'
  <2>1. ASSUME NEW j \in DOMAIN volumes_', volumes_'[j] # 0
        PROVE  /\ heap'[volumes_'[j]].root_tree_ # 0 /\ volumes_'[j] # volume'
               /\ \A k \in DOMAIN volumes_' : volumes_'[j] = volumes_'[k] => j = k
    <3>1. j \in DOMAIN volumes_ /\ volumes_'[j] = volumes_[j]
      BY <1>5, <2>1 DEF IInv, Typed
    <3>2. heap[volumes_[j]].root_tree_ # 0 /\ volumes_[j] \in Objects
      BY <2>1, <3>1 DEF IInv, Typed, Stored
    <3>3. volumes_[j] # o
      BY <1>1, <1>7, <3>2
    <3>4. ASSUME NEW k \in DOMAIN volumes_', volumes_'[j] = volumes_'[k] PROVE j = k
      <4>1. k \in DOMAIN volumes_ /\ volumes_'[k] = volumes_[k]
        BY <1>5, <2>1, <3>4 DEF IInv, Typed
      <4>2. QED
        BY <2>1, <3>1, <3>4, <4>1 DEF IInv, Stored
    <3>5. QED
      BY <1>1, <3>1, <3>2, <3>3, <3>4 DEF IInv, Typed
  <2>2. QED
    BY <2>1 DEF Stored
<1>11. Idle' /\ Opened' /\ SuperblockTrue'
  BY <1>2 DEF IInv, Idle, Opened, SuperblockTrue, At
<1>12. QED
  BY <1>2, <1>8, <1>9, <1>10, <1>11 DEF IInv

\* What a block of a well-formed container gives is what is there; a block that
\* is too small may give anything of its type.
LEMMA CopiedType ==
  ASSUME IInv, step \in {"volume_superblock", "volume_object_map"}, OnDevice, NEW s \in Copied
  PROVE  /\ s \in Structures
         /\ WellFormed /\ step = "volume_superblock" =>
              s = At(image, Offset(heap[volume].volume_oid_, block_size_))
<1>1. Copied \subseteq Structures
  BY AtType, GarbageAssumption DEF Copied, IInv, Typed
<1>2. ASSUME WellFormed, step = "volume_superblock"
      PROVE  s = At(image, Offset(heap[volume].volume_oid_, block_size_))
  <2>1. block_size_ >= ApfsSuperblockSize /\ block_size_ \in Nat
    BY <1>2, WellFormedBlocks, AtType DEF IInv, Typed, Opened, Structures
  <2>2. /\ Needs.block = heap[volume].volume_oid_ /\ Needs.size = block_size_
        /\ Needs.buffer = block_size_ /\ Needs.struct = ApfsSuperblockSize
    BY <1>2 DEF Needs
  <2>3. Needs.struct <= Needs.buffer
    BY <2>1, <2>2, SizesAssumption
  <2>4. QED
    BY <2>2, <2>3 DEF Copied
<1>3. QED
  BY <1>1, <1>2

\* The volume's superblock is copied into it.
LEMMA ReadVolumeSuperblockIInv ==
  ASSUME IInv, ReadVolumeSuperblock PROVE IInv'
<1>1. PICK s \in Copied :
        IF s.magic # "APSB" \/ s.apfs_omap_oid = 0
          THEN ReturnNull
          ELSE /\ heap' = [heap EXCEPT ![volume].superblock_ = s]
               /\ step' = "volume_object_map"
               /\ UNCHANGED <<image, container, volumes_, loading, result>>
  BY DEF ReadVolumeSuperblock
<1>2. step = "volume_superblock" /\ OnDevice
  BY DEF ReadVolumeSuperblock
<1>3. CASE ReturnNull
  BY <1>2, <1>3, ReturnNullIInv
<1>4. CASE ~(s.magic # "APSB" \/ s.apfs_omap_oid = 0)
  <2>1. /\ heap' = [heap EXCEPT ![volume].superblock_ = s]
        /\ step' = "volume_object_map"
        /\ UNCHANGED <<image, superblock_, block_size_, volumes_, index, volume, result>>
    BY <1>1, <1>4 DEF container, loading
  <2>2. PICK i \in Indices : Loading(i)
    BY <1>2 DEF IInv
  <2>3. volume \in Objects
    BY <2>2 DEF Loading
  <2>4. s \in Structures
    BY <1>2, CopiedType
  <2>5. heap' \in [Objects -> Volumes] /\ heap'[volume].superblock_ = s
        /\ heap'[volume].volume_oid_ = heap[volume].volume_oid_
        /\ heap'[volume].root_tree_ = heap[volume].root_tree_
        /\ \A o \in Objects : heap'[o].root_tree_ = heap[o].root_tree_
    BY <2>1, <2>3, <2>4 DEF IInv, Typed, Volumes
  <2>6. Typed'
    BY <2>1, <2>5 DEF IInv, Typed
  <2>7. Loading(i)'
    BY <2>1, <2>2, <2>5 DEF Loading
  <2>8. Stored'
    BY <2>1, <2>5 DEF IInv, Typed, Stored
  <2>9. SuperblockTrue'
    <3>1. SUFFICES ASSUME WellFormed
                   PROVE  LET offset == Offset(heap[volume].volume_oid_, block_size_)
                          IN  offset + block_size_ <= image.size /\ s = At(image, offset)
      BY <1>4, <2>1, <2>5 DEF SuperblockTrue, WellFormed, BlockSize, At
    <3>2. Needs.block = heap[volume].volume_oid_ /\ Needs.size = block_size_
      BY <1>2 DEF Needs
    <3>3. QED
      BY <1>2, <3>1, <3>2, CopiedType DEF OnDevice
  <2>10. Idle' /\ Opened'
    BY <1>2, <2>1 DEF IInv, Idle, Opened, At
  <2>11. QED
    BY <2>1, <2>6, <2>7, <2>8, <2>9, <2>10 DEF IInv
<1>5. QED
  BY <1>1, <1>3, <1>4

\* getVolume stores the volume that it has initialised.
LEMMA ReadVolumeObjectMapIInv ==
  ASSUME IInv, ReadVolumeObjectMap PROVE IInv'
<1> DEFINE root == heap[volume].superblock_.apfs_root_tree_oid
<1>1. step = "volume_object_map"
  BY DEF ReadVolumeObjectMap
<1>2. CASE root = 0
  BY <1>1, <1>2, ReturnNullIInv DEF ReadVolumeObjectMap
<1>3. CASE root # 0
  <2>1. PICK i \in Indices : Loading(i)
    BY <1>1 DEF IInv
  <2>2. /\ heap' = [heap EXCEPT ![volume].root_tree_ = root]
        /\ volumes_' = [volumes_ EXCEPT ![i + 1] = volume]
        /\ step' = "ready" /\ index' = {} /\ volume' = 0 /\ result' = volume
        /\ UNCHANGED <<image, superblock_, block_size_>>
    BY <1>3, <2>1 DEF ReadVolumeObjectMap, Loading, Return, container
  <2>3. volume \in Objects /\ volume # 0 /\ i + 1 \in DOMAIN volumes_ /\ volumes_[i + 1] = 0
    BY <2>1, ObjectsAssumption, IndicesAssumption DEF Loading, IInv, Typed
  <2>4. root \in Nat
    BY <2>3 DEF IInv, Typed, Volumes, Structures
  <2> HIDE DEF root
  <2>5. heap' \in [Objects -> Volumes] /\ heap'[volume].root_tree_ = root
        /\ \A o \in Objects \ {volume} : heap'[o] = heap[o]
    BY <2>2, <2>3, <2>4 DEF IInv, Typed, Volumes
  <2>6. /\ volumes_' \in Seq(Objects \union {0}) /\ Len(volumes_') = Len(volumes_)
        /\ DOMAIN volumes_' = DOMAIN volumes_ /\ volumes_'[i + 1] = volume
        /\ \A j \in DOMAIN volumes_ \ {i + 1} : volumes_'[j] = volumes_[j]
    BY <2>2, <2>3 DEF IInv, Typed
  <2>7. Typed'
    BY <2>2, <2>3, <2>5, <2>6 DEF IInv, Typed
  <2>8. Stored'
    <3>1. ASSUME NEW j \in DOMAIN volumes_', volumes_'[j] # 0
          PROVE  /\ heap'[volumes_'[j]].root_tree_ # 0 /\ volumes_'[j] # 0
                 /\ \A k \in DOMAIN volumes_' : volumes_'[j] = volumes_'[k] => j = k
      <4>1. CASE j = i + 1
        BY <1>3, <2>3, <2>5, <2>6, <3>1, <4>1 DEF IInv, Stored
      <4>2. CASE j # i + 1
        <5>1. /\ volumes_'[j] = volumes_[j] /\ volumes_[j] \in Objects \ {volume}
              /\ heap[volumes_[j]].root_tree_ # 0
          BY <2>6, <3>1, <4>2 DEF IInv, Typed, Stored
        <5>2. ASSUME NEW k \in DOMAIN volumes_, volumes_'[j] = volumes_'[k] PROVE j = k
          <6>1. k # i + 1
            BY <2>6, <5>1, <5>2
          <6>2. volumes_[j] = volumes_[k]
            BY <2>6, <5>1, <5>2, <6>1
          <6>3. QED
            BY <2>6, <3>1, <5>1, <6>2 DEF IInv, Stored
        <5>3. QED
          BY <2>5, <2>6, <3>1, <5>1, <5>2
      <4>3. QED
        BY <4>1, <4>2
    <3>2. QED
      BY <2>2, <3>1 DEF Stored
  <2>9. Idle' /\ Opened' /\ SuperblockTrue'
    BY <1>1, <2>2 DEF IInv, Idle, Opened, SuperblockTrue, At
  <2>10. QED
    BY <2>2, <2>3, <2>6, <2>7, <2>8, <2>9 DEF IInv
<1>4. QED
  BY <1>2, <1>3

\* No step breaks IInv.
LEMMA StepIInv == ASSUME IInv, [Next]_vars PROVE IInv'
<1>1. CASE ReadFails
  <2>1. CASE volume = 0
    <3>1. index = {}
      BY <1>1, <2>1, ObjectsAssumption DEF ReadFails, Reading, IInv, Idle, Loading
    <3>2. QED
      BY <1>1, <2>1, <3>1, InitFailsIInv DEF ReadFails, container, IInv, Typed
  <2>2. CASE volume # 0
    <3>1. step \in {"volume_superblock", "volume_object_map"}
      BY <1>1, <2>2 DEF ReadFails, Reading, IInv, Idle
    <3>2. QED
      BY <1>1, <2>2, <3>1, ReturnNullIInv DEF ReadFails
  <2>3. QED
    BY <2>1, <2>2
<1>2. CASE Fault
  BY <1>2 DEF Fault, IInv, Typed, Idle, Opened, SuperblockTrue, Stored, container, loading
<1>3. CASE UNCHANGED vars
  BY <1>3 DEF vars, container, loading, IInv, Typed, Idle, Opened, SuperblockTrue,
     Stored, Loading, At, WellFormed, BlockSize
<1>4. QED
  BY <1>1, <1>2, <1>3, InitStepsIInv, ReturnAtOnceIInv, CreateVolumeIInv,
     ReadVolumeSuperblockIInv, ReadVolumeObjectMapIInv DEF Next

\* IInv is an invariant.
LEMMA AlwaysIInv == Spec => []IInv
<1>1. IInv /\ [Next]_vars => IInv'
  BY StepIInv
<1>2. QED
  BY InitIInv, <1>1, PTL DEF Spec

\* The cache never grows past the slots there are, holds initialised volumes only,
\* no two slots the same, and never the one that is being initialised.
THEOREM TypeCorrect == Spec => []TypeOK
<1>1. IInv => TypeOK
  BY DEF IInv, Typed, Stored, TypeOK
<1>2. QED
  BY AlwaysIInv, <1>1, PTL

-----------------------------------------------------------------------------
(* The action properties.                                                  *)

\* A slot whose volume is there names it.
LEMMA SlotNames ==
  ASSUME NEW i \in Indices, Slot(i) # {}
  PROVE  /\ i < NxMaxFileSystems /\ Oid(i) = At(image, 0).nx_fs_oid[i] /\ Oid(i) # 0
         /\ Apfs(i).magic = "APSB" /\ Apfs(i).apfs_omap_oid # 0
         /\ Apfs(i).apfs_root_tree_oid # 0
BY IndicesAssumption, SizesAssumption DEF Slot, Has, Oid

\* If a volume is there, a request for it that returns, and not because a read
\* failed, returns a volume.
LEMMA ServesStep ==
  ASSUME IInv, [Next]_vars, ~ReadFails, NEW i \in Indices,
         WellFormed, Slot(i) # {}, Returns(i)
  PROVE  result' # 0
<1> DEFINE oid  == At(image, 0).nx_fs_oid[i]
           apfs == At(image, Offset(oid, At(image, 0).nx_block_size))
<1>1. /\ i < NxMaxFileSystems /\ oid # 0
      /\ apfs.magic = "APSB" /\ apfs.apfs_omap_oid # 0
      /\ apfs.apfs_root_tree_oid # 0
  BY SlotNames DEF Apfs, BlockSize
<1>2. i \in Nat /\ NxMaxFileSystems \in Nat
  BY IndicesAssumption, SizesAssumption
<1>3. CASE ReturnAtOnce(i)
  <2>1. ~NoVolume(i)
    BY <1>1, <1>2, <1>3 DEF NoVolume, ReturnAtOnce, IInv, Opened
  <2>2. QED
    BY <1>3, <2>1 DEF ReturnAtOnce, Return, Cached
<1>4. CASE index = {i} /\ index' = {} /\ step' # "fault"
  <2>1. step \in {"volume_superblock", "volume_object_map"}
    <3>1. step \notin {"superblock", "object_map", "ready", "failed"}
      BY <1>4 DEF IInv, Idle
    <3>2. step # "fault"
      BY <1>4 DEF Next, Fault, Reading, ReadSuperblock, ReadObjectMap, ReturnAtOnce,
         CreateVolume, ReadVolumeSuperblock, ReadVolumeObjectMap, vars, loading
    <3>3. QED
      BY <3>1, <3>2 DEF IInv, Typed
  <2>2. /\ Loading(i) /\ volume \in Objects
        /\ superblock_ = At(image, 0) /\ block_size_ = At(image, 0).nx_block_size
    BY <1>4, <2>1 DEF IInv, Loading, Opened
  <2>3. heap[volume].volume_oid_ = oid
    BY <2>2 DEF Loading
  <2>4. ReadVolumeSuperblock \/ ReadVolumeObjectMap
    BY <1>4, <2>1 DEF Next, Fault, ReadSuperblock, ReadObjectMap, ReturnAtOnce,
       CreateVolume, vars, loading
  <2>5. CASE ReadVolumeSuperblock
    <3>1. step = "volume_superblock" /\ OnDevice
      BY <2>5 DEF ReadVolumeSuperblock
    <3>2. \A s \in Copied : s = apfs
      BY <2>1, <2>2, <2>3, <3>1, CopiedType
    <3>3. index' = index
      BY <1>1, <2>5, <3>2 DEF ReadVolumeSuperblock, loading
    <3>4. QED
      BY <1>4, <3>3
  <2>6. CASE ReadVolumeObjectMap
    <3>1. step = "volume_object_map"
      BY <2>6 DEF ReadVolumeObjectMap
    <3>2. heap[volume].superblock_ = apfs
      BY <2>2, <2>3, <3>1 DEF IInv, SuperblockTrue
    <3>3. result' = volume
      BY <1>1, <2>6, <3>2 DEF ReadVolumeObjectMap, Return
    <3>4. QED
      BY <2>2, <3>3, ObjectsAssumption
  <2>7. QED
    BY <2>4, <2>5, <2>6
<1>5. QED
  BY <1>3, <1>4 DEF Returns

\* A volume that is on a well-formed device is served unless one of its own reads
\* fails, whatever was asked for, or failed, before.
THEOREM SoundVolumesAreServed == Spec => ServesSoundVolumes
<1>1. IInv /\ [Next]_vars =>
        [\A i \in Indices :
           WellFormed /\ Slot(i) # {} /\ Returns(i) => result' # 0 \/ ReadFails]_vars
  BY ServesStep
<1>2. QED
  BY AlwaysIInv, <1>1, PTL DEF Spec, ServesSoundVolumes

-----------------------------------------------------------------------------
(* The refinement of VolumeCatalog.                                        *)

\* What slot i has been found to be.
Catalog == [i \in Indices |-> IF Cached(i) THEN Describe(volumes_[i + 1]) ELSE {}]

\* A step that changes no stored volume leaves the catalog as it is.
LEMMA CatalogKept ==
  ASSUME IInv,
         volumes_' \in Seq(Objects \union {0}), Len(volumes_) <= Len(volumes_'),
         \A j \in DOMAIN volumes_' :
           volumes_'[j] = IF j <= Len(volumes_) THEN volumes_[j] ELSE 0,
         \A j \in DOMAIN volumes_ : volumes_[j] # 0 => heap'[volumes_[j]] = heap[volumes_[j]]
  PROVE  /\ Catalog' = Catalog
         /\ result' = result => Describe(result)' = Describe(result)
<1>1. ASSUME NEW i \in Indices PROVE Catalog'[i] = Catalog[i]
  <2>1. i \in Nat
    BY IndicesAssumption
  <2>2. Cached(i)' <=> Cached(i)
    BY <2>1 DEF Cached, IInv, Typed
  <2>3. Cached(i) => /\ i + 1 \in DOMAIN volumes_ /\ volumes_[i + 1] # 0
                     /\ volumes_'[i + 1] = volumes_[i + 1]
    BY <2>1 DEF Cached, IInv, Typed
  <2>4. Cached(i) => Describe(volumes_[i + 1])' = Describe(volumes_[i + 1])
    BY <2>3 DEF Describe
  <2>5. QED
    BY <2>2, <2>4 DEF Catalog
<1>2. Catalog' = Catalog
  BY <1>1 DEF Catalog
<1>3. result' = result => Describe(result)' = Describe(result)
  BY DEF IInv, Describe
<1>4. QED
  BY <1>2, <1>3

\* Slots are what the device says, and nobody writes to it.
LEMMA SlotsKept == ASSUME image' = image PROVE \A i \in Indices : Slot(i)' = Slot(i)
BY DEF Slot, Has, Oid, Apfs, BlockSize, At

\* Giving up slot i's volume.
LEMMA FailRefines ==
  ASSUME IInv, ReturnNull, step \in {"volume_superblock", "volume_object_map"}
  PROVE  VC!Next
<1>1. PICK i \in Indices : Loading(i)
  BY DEF IInv
<1>2. /\ index = {i} /\ index' = {} /\ result' = 0 /\ volumes_' = volumes_
      /\ image' = image /\ heap' = [heap EXCEPT ![volume] = Free]
  BY <1>1 DEF Loading, ReturnNull, Return
<1>3. \A j \in DOMAIN volumes_ : volumes_[j] # 0 => heap'[volumes_[j]] = heap[volumes_[j]]
  BY <1>2 DEF IInv, Typed, Stored
<1>4. Catalog' = Catalog
  BY <1>2, <1>3, CatalogKept DEF IInv, Typed
<1>5. Describe(result)' = {}
  BY <1>2 DEF Describe
<1>6. VC!Fail(i)
  BY <1>2, <1>4, <1>5, SlotsKept DEF VC!Fail, Catalog
<1>7. QED
  BY <1>6 DEF VC!Next

\* A block that is read and whose OID does not wrap is on the device.
LEMMA ReadIsThere ==
  ASSUME image \in Images, NEW n \in Nat, n # 0,
         Offset(n, BlockSize) + BlockSize <= image.size, ~Wraps(n)
  PROVE  Has(n)
<1>1. BlockSize \in Nat
  BY AtType DEF BlockSize, Structures
<1>2. n * BlockSize \in Nat /\ n * BlockSize < Word
  <2>1. \A a, b \in Nat : a * b \in Nat
    OBVIOUS
  <2>2. n * BlockSize \in Nat
    BY <1>1, <2>1
  <2>3. QED
    BY <2>2, WordAssumption DEF Wraps
<1>3. Offset(n, BlockSize) = n * BlockSize
  <2>1. ASSUME NEW m \in Nat, m < Word PROVE m % Word = m
    BY <2>1, WordAssumption
  <2>2. QED
    BY <1>2, <2>1 DEF Offset
<1>4. (n + 1) * BlockSize = n * BlockSize + BlockSize
  BY <1>1
<1>5. QED
  BY <1>3, <1>4 DEF Has

\* Finding slot i's volume, or one that an OID of slot i wraps to.
LEMMA FindRefines ==
  ASSUME IInv, WellFormed, ReadVolumeObjectMap,
         heap[volume].superblock_.apfs_root_tree_oid # 0
  PROVE  VC!Next \/ \E i \in Indices : FindsWrapped(i)
<1> DEFINE root == heap[volume].superblock_.apfs_root_tree_oid
<1>1. step = "volume_object_map" /\ OnDevice
  BY DEF ReadVolumeObjectMap
<1>2. PICK i \in Indices : Loading(i)
  BY <1>1 DEF IInv
<1>3. /\ index = {i} /\ index' = {} /\ result' = volume /\ image' = image
      /\ heap' = [heap EXCEPT ![volume].root_tree_ = root]
      /\ volumes_' = [volumes_ EXCEPT ![i + 1] = volume]
      /\ volume \in Objects /\ volume # 0
  BY <1>2, ObjectsAssumption DEF Loading, ReadVolumeObjectMap, Return
<1>4. i \in Nat /\ i + 1 \in DOMAIN volumes_ /\ volumes_[i + 1] = 0 /\ i < NxMaxFileSystems
  BY <1>2, IndicesAssumption, SizesAssumption DEF Loading, IInv, Typed
<1>5. /\ Apfs(i).apfs_root_tree_oid = root
      /\ Wraps(Oid(i)) \/ Wraps(Apfs(i).apfs_omap_oid) \/ Slot(i) = {root}
  <2>1. /\ superblock_ = At(image, 0) /\ block_size_ = BlockSize
        /\ heap[volume].volume_oid_ = Oid(i) /\ Oid(i) # 0
    BY <1>1, <1>2, <1>4 DEF IInv, Opened, Loading, BlockSize, Oid
  <2>2. LET oid == heap[volume].volume_oid_
            s   == heap[volume].superblock_
        IN  /\ Offset(oid, block_size_) + block_size_ <= image.size
            /\ s = At(image, Offset(oid, block_size_))
            /\ s.magic = "APSB" /\ s.apfs_omap_oid # 0
    BY <1>1 DEF IInv, SuperblockTrue
  <2>3. heap[volume].superblock_ = Apfs(i)
    BY <2>1, <2>2 DEF Apfs
  <2>4. /\ Needs.block = Apfs(i).apfs_omap_oid
        /\ Needs.size = BlockSize
    BY <1>1, <2>1, <2>3 DEF Needs
  <2>5. /\ Offset(Oid(i), BlockSize) + BlockSize <= image.size
        /\ Offset(Apfs(i).apfs_omap_oid, BlockSize) + BlockSize <= image.size
    BY <1>1, <2>1, <2>2, <2>4 DEF OnDevice
  <2>6. Oid(i) \in Nat /\ Apfs(i).apfs_omap_oid \in Nat /\ image \in Images
    <3>1. image \in Images /\ Apfs(i) \in Structures
      BY AtType DEF IInv, Typed, Apfs
    <3>2. heap[volume] \in Volumes
      BY <1>3 DEF IInv, Typed
    <3>3. QED
      BY <2>1, <3>1, <3>2 DEF Structures, Volumes
  <2>7. ~Wraps(Oid(i)) => Has(Oid(i))
    BY <2>1, <2>5, <2>6, ReadIsThere
  <2>8. ~Wraps(Apfs(i).apfs_omap_oid) => Has(Apfs(i).apfs_omap_oid)
    BY <2>2, <2>3, <2>5, <2>6, ReadIsThere
  <2>9. QED
    BY <2>2, <2>3, <2>7, <2>8 DEF Slot
<1>6. heap'[volume].root_tree_ = root /\ \A o \in Objects \ {volume} : heap'[o] = heap[o]
  BY <1>3 DEF IInv, Typed, Volumes
<1> HIDE DEF root
<1>7. Describe(result)' = {[object |-> volume, root |-> root]}
  BY <1>3, <1>6 DEF Describe
<1>8. Catalog' = [Catalog EXCEPT ![i] = {[object |-> volume, root |-> root]}]
  <2>1. ASSUME NEW j \in Indices
        PROVE  Catalog'[j] = IF j = i THEN {[object |-> volume, root |-> root]} ELSE Catalog[j]
    <3>1. j \in Nat
      BY IndicesAssumption
    <3>2. CASE j = i
      <4>1. Cached(j)' /\ volumes_'[j + 1] = volume
        BY <1>3, <1>4, <3>2 DEF Cached, IInv, Typed
      <4>2. QED
        BY <1>3, <1>6, <3>2, <4>1 DEF Catalog, Describe
    <3>3. CASE j # i
      <4>1. /\ Cached(j)' <=> Cached(j)
            /\ Cached(j) => volumes_'[j + 1] = volumes_[j + 1]
        BY <1>3, <1>4, <3>1, <3>3 DEF Cached, IInv, Typed
      <4>2. Cached(j) => volumes_[j + 1] \in Objects \ {volume}
        BY <3>1 DEF Cached, IInv, Typed, Stored
      <4>3. Cached(j) => Describe(volumes_[j + 1])' = Describe(volumes_[j + 1])
        BY <1>6, <4>1, <4>2 DEF Describe
      <4>4. QED
        BY <3>3, <4>1, <4>3 DEF Catalog
    <3>4. QED
      BY <3>2, <3>3
  <2>2. QED
    BY <2>1 DEF Catalog
<1>9. \A j \in Indices : \A v \in Catalog[j] : v.object # volume
  <2>1. ASSUME NEW j \in Indices, NEW v \in Catalog[j] PROVE v.object # volume
    <3>1. Cached(j) /\ v.object = volumes_[j + 1]
      BY <2>1 DEF Catalog, Describe
    <3>2. j \in Nat
      BY IndicesAssumption
    <3>3. j + 1 \in DOMAIN volumes_
      BY <3>1, <3>2 DEF Cached, IInv, Typed
    <3>4. QED
      BY <3>1, <3>3 DEF Cached, IInv, Stored
  <2>2. QED
    BY <2>1
<1>10. VC!FindRoot(i, root)
  BY <1>3, <1>7, <1>8, <1>9, SlotsKept DEF VC!FindRoot, Catalog
<1>11. QED
  BY <1>5, <1>10 DEF VC!Find, VC!Next, FindsWrapped

\* Every step on a well-formed container is one of the catalog, or finds a volume
\* by an OID that wraps, or does not show.
LEMMA CatalogStep ==
  ASSUME IInv, [Next]_vars
  PROVE [WellFormed => VC!Next \/ \E i \in Indices : FindsWrapped(i)]_(VC!vars)
<1>1. ASSUME UNCHANGED <<image, volumes_, heap, index, result>>
      PROVE  UNCHANGED VC!vars
  BY <1>1, CatalogKept, SlotsKept DEF VC!vars, Catalog, IInv, Typed
<1>2. CASE ReadFails
  <2>1. CASE volume = 0
    BY <1>1, <1>2, <2>1 DEF ReadFails, InitFails, loading
  <2>2. CASE volume # 0
    BY <1>2, <2>2, FailRefines DEF ReadFails, Reading, IInv, Idle
  <2>3. QED
    BY <2>1, <2>2
<1>3. CASE Fault \/ ReadSuperblock \/ ReadObjectMap
  BY <1>1, <1>3 DEF Fault, ReadSuperblock, ReadObjectMap, InitFails, loading
<1>4. CASE ReadVolumeSuperblock
  <2>1. step = "volume_superblock"
    BY <1>4 DEF ReadVolumeSuperblock
  <2>2. CASE ReturnNull
    BY <2>1, <2>2, FailRefines
  <2>3. PICK s : \/ ReturnNull
                 \/ /\ heap' = [heap EXCEPT ![volume].superblock_ = s]
                    /\ UNCHANGED <<image, container, volumes_, loading, result>>
    BY <1>4 DEF ReadVolumeSuperblock
  <2>4. CASE /\ heap' = [heap EXCEPT ![volume].superblock_ = s]
             /\ UNCHANGED <<image, container, volumes_, loading, result>>
    <3>1. \A j \in DOMAIN volumes_ :
            volumes_[j] # 0 => heap'[volumes_[j]] = heap[volumes_[j]]
      BY <2>4 DEF IInv, Typed, Stored
    <3>2. Catalog' = Catalog /\ Describe(result)' = Describe(result)
      BY <2>4, <3>1, CatalogKept DEF IInv, Typed
    <3>3. UNCHANGED VC!vars
      BY <2>4, <3>2, SlotsKept DEF VC!vars, Catalog, loading
    <3>4. QED
      BY <3>3
  <2>5. QED
    BY <2>2, <2>3, <2>4
<1>5. CASE ReadVolumeObjectMap
  BY <1>5, FindRefines, FailRefines DEF ReadVolumeObjectMap
<1>6. ASSUME NEW i \in Indices, ReturnAtOnce(i), WellFormed PROVE VC!Next
  <2>1. /\ step = "ready" /\ index' = {} /\ index = {}
        /\ UNCHANGED <<image, volumes_, heap>>
        /\ superblock_ = At(image, 0)
    BY <1>6 DEF ReturnAtOnce, Return, IInv, Idle, Opened
  <2>2. Catalog' = Catalog
    BY <2>1, CatalogKept DEF IInv, Typed
  <2>3. CASE NoVolume(i)
    <3>1. Slot(i) = {}
      BY <2>1, <2>3, SlotNames, IndicesAssumption, SizesAssumption DEF NoVolume
    <3>2. Describe(result)' = {}
      BY <1>6, <2>3 DEF ReturnAtOnce, Return, Describe
    <3>3. VC!Refuse(i)
      BY <2>1, <2>2, <3>1, <3>2, SlotsKept DEF VC!Refuse, Catalog
    <3>4. QED
      BY <3>3 DEF VC!Next
  <2>4. CASE ~NoVolume(i)
    <3>1. Cached(i) /\ result' = volumes_[i + 1]
      BY <1>6, <2>4 DEF ReturnAtOnce, Return
    <3>2. Catalog[i] = Describe(volumes_[i + 1]) /\ Catalog[i] # {}
      BY <3>1 DEF Catalog, Describe, Cached
    <3>3. Describe(result)' = Catalog[i]
      BY <2>1, <3>1, <3>2 DEF Describe
    <3>4. VC!ServeAgain(i)
      BY <2>1, <2>2, <3>2, <3>3, SlotsKept DEF VC!ServeAgain, Catalog
    <3>5. QED
      BY <3>4 DEF VC!Next
  <2>5. QED
    BY <2>3, <2>4
<1>7. ASSUME NEW i \in Indices, CreateVolume(i) PROVE VC!Next
  <2>1. PICK o \in Objects :
          /\ heap[o] = Free
          /\ heap' = [heap EXCEPT ![o] = NewVolume(superblock_.nx_fs_oid[i])]
          /\ volumes_' = Resized(i, o)
    BY <1>7 DEF CreateVolume
  <2>2. /\ step = "ready" /\ ~Cached(i) /\ ~NoVolume(i) /\ index = {} /\ index' = {i}
        /\ image' = image /\ result' = 0
    BY <1>7 DEF CreateVolume, IInv, Idle
  <2>3. \A j \in DOMAIN volumes_ : volumes_[j] # 0 => heap'[volumes_[j]] = heap[volumes_[j]]
    BY <2>1 DEF IInv, Typed, Stored, Free
  <2>4. i \in Nat /\ i < NxMaxFileSystems
    BY <2>2, IndicesAssumption, SizesAssumption DEF NoVolume
  <2>5. /\ volumes_' \in Seq(Objects \union {0}) /\ Len(volumes_) <= Len(volumes_')
        /\ \A j \in DOMAIN volumes_' :
             volumes_'[j] = IF j <= Len(volumes_) THEN volumes_[j] ELSE 0
    BY <2>1, <2>4, ResizedGrows DEF IInv, Typed
  <2>6. Catalog' = Catalog
    BY <2>3, <2>5, CatalogKept
  <2>7. Catalog[i] = {} /\ Describe(result)' = {}
    BY <2>2 DEF Catalog, Describe
  <2>8. VC!Ask(i)
    BY <2>2, <2>6, <2>7, SlotsKept DEF VC!Ask, Catalog
  <2>9. QED
    BY <2>8 DEF VC!Next
<1>8. CASE UNCHANGED vars
  BY <1>1, <1>8 DEF vars, loading
<1>9. QED
  BY <1>2, <1>3, <1>4, <1>5, <1>6, <1>7, <1>8 DEF Next

\* getVolume gives the volume of the slot or nothing, but for OIDs that wrap, the
\* same object ever after, and keeps nothing of a volume that could not be
\* initialised.
THEOREM CatalogRefinement == Spec => ImplementsCatalog
<1>1. Init => VC!Init
  <2>1. ASSUME Init PROVE VC!Init
    <3>1. ASSUME NEW i \in Indices PROVE Catalog[i] = {}
      <4>1. i \in Nat /\ Len(volumes_) = 0
        BY <2>1, IndicesAssumption DEF Init
      <4>2. ~Cached(i)
        BY <4>1 DEF Cached
      <4>3. QED
        BY <4>2 DEF Catalog
    <3>2. Catalog = [i \in Indices |-> {}]
      BY <3>1 DEF Catalog
    <3>3. index = {} /\ Describe(result) = {}
      BY <2>1 DEF Init, Describe
    <3>4. QED
      BY <3>2, <3>3 DEF VC!Init, Catalog
  <2>2. QED
    BY <2>1
<1>2. IInv /\ [Next]_vars =>
        [WellFormed => VC!Next \/ \E i \in Indices : FindsWrapped(i)]_(VC!vars)
  BY CatalogStep
<1>3. QED
  BY AlwaysIInv, <1>1, <1>2, PTL DEF Spec, ImplementsCatalog
=============================================================================
