----------------------------- MODULE Container -----------------------------
(***************************************************************************)
(* APFSContainer (src/apfs/container.cpp): init(), and getVolume() with    *)
(* its cache of volumes and with APFSVolume::init() (src/apfs/volume.cpp), *)
(* block read by block read.                                               *)
(*                                                                         *)
(* The device holds structures at byte offsets.  A buffer is only as good  *)
(* as the read it is given and the structure that is copied out of it:     *)
(* past its end the outcome is undefined, which is here a fault, or going  *)
(* on with whatever happens to lie there.                                  *)
(***************************************************************************)
EXTENDS Integers, SequencesExt

CONSTANTS
  Images,             \* records [size, at, reliable]: the device's length, the
                      \* structures at its offsets, whether every block can be read
  Objects,            \* addresses of APFSVolume objects, positive numbers
  Indices,            \* what getVolume is called with
  NxMaxFileSystems,   \* NX_MAX_FILE_SYSTEMS
  ApfsBlockSize,      \* APFS_BLOCK_SIZE
  NxSuperblockSize, OmapSize, ApfsSuperblockSize,
                      \* sizeof(nx_superblock_t), omap_phys_t, apfs_superblock_t
  Garbage,            \* what may lie behind a buffer: structures
  Word                \* 2^64: the range of uint64_t

ASSUME ObjectsAssumption == Objects \subseteq Nat \ {0}
ASSUME IndicesAssumption == Indices \subseteq Nat
ASSUME SizesAssumption ==
  {NxMaxFileSystems, ApfsBlockSize, NxSuperblockSize, OmapSize, ApfsSuperblockSize}
    \subseteq Nat \ {0}

ASSUME WordAssumption == Word \in Nat \ {0}

\* What the code takes out of a block, whatever it is meant to be.
Structures ==
  [magic : {"none", "NXSB", "APSB"}, nx_block_size : Nat, nx_omap_oid : Nat,
   nx_fs_oid : [0 .. NxMaxFileSystems - 1 -> Nat],
   apfs_omap_oid : Nat, apfs_root_tree_oid : Nat]

\* Windows gives the length of a device as a signed 64-bit number.
ASSUME ImagesAssumption ==
  \A im \in Images :
    /\ im.size \in Nat /\ im.size < Word \div 2 /\ im.reliable \in BOOLEAN
    /\ \A offset \in DOMAIN im.at : im.at[offset] \in Structures
ASSUME GarbageAssumption == Garbage \subseteq Structures

VARIABLES
  image,        \* what is on the device
  step,         \* the block the code waits for, or "ready", "failed" or "fault"
  superblock_,  \* APFSContainer::superblock_
  block_size_,  \* APFSContainer::block_size_
  volumes_,     \* APFSContainer::volumes_, 0 for a null pointer
  heap,         \* the APFSVolume at each address
  index,        \* getVolume's argument while it loads a volume, at most one
  volume,       \* getVolume's local volume, 0 outside of it
  result        \* what the last getVolume returned, 0 for a null pointer

vars == <<image, step, superblock_, block_size_, volumes_, heap, index, volume, result>>
container == <<superblock_, block_size_>>
loading == <<index, volume>>

\* A structure of zeros.  The magic numbers of both superblocks are at one place.
Blank ==
  [magic |-> "none", nx_block_size |-> 0, nx_omap_oid |-> 0,
   nx_fs_oid |-> [i \in 0 .. NxMaxFileSystems - 1 |-> 0],
   apfs_omap_oid |-> 0, apfs_root_tree_oid |-> 0]

At(im, offset) == IF offset \in DOMAIN im.at THEN im.at[offset] ELSE Blank

\* An address that holds no object, and a new APFSVolume.
Free == [volume_oid_ |-> 0, superblock_ |-> Blank, root_tree_ |-> 0]
NewVolume(oid) == [Free EXCEPT !.volume_oid_ = oid]

-----------------------------------------------------------------------------
(* The block reads.                                                        *)

\* Where readBlocks finds a block: the product is one of uint64_t.
Offset(block, size) == (block * size) % Word

\* What each step reads: a block, how many bytes of it, into a buffer of which
\* size, and the size of the structure that is copied out of the buffer.
Needs ==
  CASE step = "superblock" ->
         [block |-> 0, size |-> ApfsBlockSize,
          buffer |-> NxSuperblockSize, struct |-> NxSuperblockSize]
    [] step = "object_map" ->
         [block |-> superblock_.nx_omap_oid, size |-> block_size_,
          buffer |-> block_size_, struct |-> OmapSize]
    [] step = "volume_superblock" ->
         [block |-> heap[volume].volume_oid_, size |-> block_size_,
          buffer |-> block_size_, struct |-> ApfsSuperblockSize]
    [] step = "volume_object_map" ->
         [block |-> heap[volume].superblock_.apfs_omap_oid, size |-> block_size_,
          buffer |-> block_size_, struct |-> OmapSize]

Reading == step \in {"superblock", "object_map", "volume_superblock", "volume_object_map"}

\* readBytes succeeds.  Its sum may wrap as well and pass the bound check; then
\* SetFilePointerEx refuses the offset, or ReadFile does not return every byte.
OnDevice == Offset(Needs.block, Needs.size) + Needs.size <= image.size

\* What the structure holds after the read has succeeded.
Copied ==
  IF Needs.struct <= Needs.buffer THEN {At(image, Offset(Needs.block, Needs.size))}
                                  ELSE Garbage

-----------------------------------------------------------------------------
Init ==
  /\ image \in Images
  /\ step = "superblock"
  /\ superblock_ = Blank
  /\ block_size_ = 0
  /\ volumes_ = <<>>
  /\ heap = [o \in Objects |-> Free]
  /\ index = {}
  /\ volume = 0
  /\ result = 0

\* getVolume returns; a volume that was not stored is destroyed.
Return(v) ==
  /\ step' = "ready"
  /\ index' = {}
  /\ volume' = 0
  /\ result' = v

ReturnNull ==
  /\ Return(0)
  /\ heap' = [heap EXCEPT ![volume] = Free]
  /\ UNCHANGED <<image, container, volumes_>>

\* init() returns false, and main gives up.
InitFails ==
  /\ step' = "failed"
  /\ UNCHANGED <<image, volumes_, heap, loading, result>>

\* readBlock returns false.
ReadFails ==
  /\ Reading
  /\ ~OnDevice \/ ~image.reliable
  /\ IF volume = 0 THEN InitFails /\ UNCHANGED container ELSE ReturnNull

\* The read goes past its buffer, or the copy does.
Fault ==
  /\ Reading /\ OnDevice
  /\ Needs.size > Needs.buffer \/ Needs.struct > Needs.buffer
  /\ step' = "fault"
  /\ UNCHANGED <<image, container, volumes_, heap, loading, result>>

\* APFSContainer::readSuperblock, and the test at the top of readObjectMap.
\* superblock_ is overwritten before it is validated.
ReadSuperblock ==
  /\ step = "superblock" /\ OnDevice
  /\ \E s \in Copied :
       /\ superblock_' = s
       /\ IF s.magic # "NXSB"
            THEN InitFails /\ UNCHANGED block_size_
            ELSE /\ block_size_' = s.nx_block_size
                 /\ IF s.nx_omap_oid = 0
                      THEN InitFails
                      ELSE /\ step' = "object_map"
                           /\ UNCHANGED <<image, volumes_, heap, loading, result>>

\* APFSContainer::readObjectMap: what the object map holds only gets logged.
ReadObjectMap ==
  /\ step = "object_map" /\ OnDevice
  /\ step' = "ready"
  /\ UNCHANGED <<image, container, volumes_, heap, loading, result>>

\* Defect: the new volume is stored before it is initialised.
ResizedWith(i, o) ==
  [j \in 1 .. (IF Len(volumes_) <= i THEN i + 1 ELSE Len(volumes_)) |->
     IF j = i + 1 THEN o ELSE IF j <= Len(volumes_) THEN volumes_[j] ELSE 0]

\* volumes_, made long enough for slot i; o is the new volume.
Resized(i, o) ==
  IF Len(volumes_) <= i THEN volumes_ \o [j \in 1 .. i + 1 - Len(volumes_) |-> 0]
                        ELSE volumes_

\* Defect: a null pointer in volumes_ is taken for a volume.
HasEntry(i) == i < Len(volumes_)

\* getVolume has the volume already.
Cached(i) == i < Len(volumes_) /\ volumes_[i + 1] # 0

\* There is no volume in the slot, or no such slot.
NoVolume(i) == IF i >= NxMaxFileSystems THEN TRUE ELSE superblock_.nx_fs_oid[i] = 0

\* getVolume that reads nothing.
ReturnAtOnce(i) ==
  /\ step = "ready"
  /\ NoVolume(i) \/ Cached(i)
  /\ Return(IF NoVolume(i) THEN 0 ELSE volumes_[i + 1])
  /\ UNCHANGED <<image, container, volumes_, heap>>

\* getVolume makes a volume at some address that is not in use.
CreateVolume(i) ==
  /\ step = "ready"
  /\ ~NoVolume(i) /\ ~Cached(i)
  /\ \E o \in {p \in Objects : heap[p] = Free} :
       /\ heap' = [heap EXCEPT ![o] = NewVolume(superblock_.nx_fs_oid[i])]
       /\ volume' = o
       /\ volumes_' = Resized(i, o)
  /\ step' = "volume_superblock"
  /\ index' = {i}
  /\ result' = 0
  /\ UNCHANGED <<image, container>>

\* APFSVolume::readSuperblock, and the test at the top of its readObjectMap.
ReadVolumeSuperblock ==
  /\ step = "volume_superblock" /\ OnDevice
  /\ \E s \in Copied :
       IF s.magic # "APSB" \/ s.apfs_omap_oid = 0
         THEN ReturnNull
         ELSE /\ heap' = [heap EXCEPT ![volume].superblock_ = s]
              /\ step' = "volume_object_map"
              /\ UNCHANGED <<image, container, volumes_, loading, result>>

\* APFSVolume::readObjectMap, whose map is not used, and initRootTree; then
\* getVolume stores the volume.
ReadVolumeObjectMap ==
  /\ step = "volume_object_map" /\ OnDevice
  /\ LET root == heap[volume].superblock_.apfs_root_tree_oid
     IN  IF root = 0
           THEN ReturnNull
           ELSE /\ heap' = [heap EXCEPT ![volume].root_tree_ = root]
                /\ \E i \in index : volumes_' = [volumes_ EXCEPT ![i + 1] = volume]
                /\ Return(volume)
                /\ UNCHANGED <<image, container>>

Next ==
  \/ ReadFails \/ Fault
  \/ ReadSuperblock \/ ReadObjectMap
  \/ ReadVolumeSuperblock \/ ReadVolumeObjectMap
  \/ \E i \in Indices : ReturnAtOnce(i) \/ CreateVolume(i)

Spec == Init /\ [][Next]_vars

-----------------------------------------------------------------------------
\* What the device says, whatever the code finds of it.

BlockSize == At(image, 0).nx_block_size

WellFormed == BlockSize >= Max({OmapSize, ApfsSuperblockSize})

\* The OID in slot i, and the structure that readBlock finds by it.
Oid(i)  == IF i < NxMaxFileSystems THEN At(image, 0).nx_fs_oid[i] ELSE 0
Apfs(i) == At(image, Offset(Oid(i), BlockSize))

\* Block n is on the device, and is not block 0.
Has(n) == n # 0 /\ (n + 1) * BlockSize <= image.size

\* Block n lies past what a uint64_t can say: readBlock finds another one.
Wraps(n) == n * BlockSize >= Word

\* The root of slot i's volume: none unless both its blocks are on the device.
Slot(i) ==
  IF /\ Has(Oid(i)) /\ Apfs(i).magic = "APSB"
     /\ Has(Apfs(i).apfs_omap_oid) /\ Apfs(i).apfs_root_tree_oid # 0
    THEN {Apfs(i).apfs_root_tree_oid}
    ELSE {}

Describe(o) == IF o = 0 THEN {} ELSE {[object |-> o, root |-> heap[o].root_tree_]}

VC == INSTANCE VolumeCatalog WITH
        slots   <- [i \in Indices |-> Slot(i)],
        catalog <- [i \in Indices |-> IF Cached(i) THEN Describe(volumes_[i + 1]) ELSE {}],
        asked   <- index,
        reply   <- Describe(result)

\* Every variable keeps its type; volumes_ never grows past the slots there are
\* and holds initialised volumes only, no two slots the same one; the object
\* that is being initialised is not among them.
TypeOK ==
  /\ image \in Images
  /\ step \in {"superblock", "object_map", "ready", "volume_superblock",
               "volume_object_map", "failed", "fault"}
  /\ block_size_ \in {0, superblock_.nx_block_size}
  /\ Len(volumes_) <= NxMaxFileSystems
  /\ \A i, j \in DOMAIN volumes_ :
       volumes_[i] # 0 =>
         /\ volumes_[i] \in Objects /\ heap[volumes_[i]].root_tree_ # 0
         /\ volumes_[i] # volume
         /\ volumes_[i] = volumes_[j] => i = j

\* The exception: nobody checks the OIDs of a volume and of its object map, and
\* one that wraps finds the block it wraps to, which may pass for the volume's.
FindsWrapped(i) ==
  /\ Wraps(Oid(i)) \/ Wraps(Apfs(i).apfs_omap_oid)
  /\ VC!FindRoot(i, Apfs(i).apfs_root_tree_oid)

\* On a container whose blocks hold the structures, getVolume gives the volume
\* of the slot or nothing, gives the same object ever after, and stores nothing
\* of a volume that could not be initialised, whichever of its reads failed; but
\* for the volumes that it finds by an OID that wraps.
ImplementsCatalog ==
  VC!Init /\ [][WellFormed => VC!Next \/ \E i \in Indices : FindsWrapped(i)]_(VC!vars)

\* A request for a slot's volume returns in this step.
Returns(i) ==
  \/ index = {i} /\ index' = {} /\ step' # "fault"
  \/ ReturnAtOnce(i)

\* A volume that is there is served unless one of its own reads fails: failures
\* of earlier requests, for this slot or another, do not count.
ServesSoundVolumes ==
  [][\A i \in Indices :
       WellFormed /\ Slot(i) # {} /\ Returns(i) => result' # 0 \/ ReadFails]_vars
=============================================================================
