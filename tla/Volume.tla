------------------------------- MODULE Volume -------------------------------
(***************************************************************************)
(* APFSVolume (src/apfs/volume.cpp) once it is initialised: getFileInfo,   *)
(* lookupPath, readDirectory and readFile, each a sequence of block reads  *)
(* through the container.  A step ends where the next block is needed: it  *)
(* leaves in ask[t] what t asks the device for, and the step that takes    *)
(* the answer runs the code up to the next read or to the return.          *)
(*                                                                         *)
(* The device is BlockDevice here, so a byte is named by its offset and a  *)
(* read names the bytes it delivers; image tells what is at a place.       *)
(***************************************************************************)
EXTENDS BTree, Functions

CONSTANTS
  Threads,    \* threads that call the volume: WinFsp's dispatcher
  Images,     \* records [count, nodes, root, reliable]: the number of blocks, the
              \* B-tree nodes among them, root_tree_'s OID, and whether every block
              \* on the device can be read
  Calls,      \* records [op, inode, path, offset, size]
  BlockSize,  \* the container's block size
  Garbage     \* what a FileInfo that nobody filled may hold

\* What getFileInfo fills.
FileInfos ==
  [inode : Nat, size : Nat, create_time : Nat, mod_time : Nat, is_directory : BOOLEAN]

\* What the code takes out of a record's value, whichever structure it casts it to.
Values ==
  [size : Nat, is_directory : BOOLEAN, create_time : Nat, mod_time : Nat,
   xfields : Seq([x_type : Nat, x_size : Nat, stream_size : Nat]),
   phys_block_num : Nat, len : Nat, file_id : Nat, child : Nat]

IsImage(im) ==
  /\ DOMAIN im = {"count", "nodes", "root", "reliable"}
  /\ im.count \in Nat /\ im.root \in Nat /\ im.reliable \in BOOLEAN
  /\ \A node \in Range(im.nodes) :
       /\ node.type \in {"btree", "btree_node"} /\ node.level \in Nat /\ node.nkeys \in Nat
       /\ \A i \in 1 .. node.nkeys :
            GetKeyValue(node, i) \in [key : Seq(Nat), val : Values]

ASSUME BlockSizeAssumption == BlockSize \in Nat \ {0}
ASSUME ImagesAssumption == \A im \in Images : IsImage(im)
ASSUME GarbageAssumption == Garbage \subseteq FileInfos
ASSUME CallsAssumption ==
  /\ Calls # {}
  /\ Calls \subseteq [op : {"info", "path", "list", "read"}, inode : Nat,
                      path : Seq(Nat), offset : Nat, size : Nat]

VARIABLES
  image,  \* what is on the device
  stage,  \* stage[t]: "idle", or the block t waits for
  call,   \* call[t]: t's current or last call
  info,   \* info[t]: readFile's local FileInfo, once it is filled
  ask,    \* ask[t]: the read t waits for, as BlockDevice is asked for it
  out     \* out[t]: what t's last call returned

vars == <<image, stage, call, info, ask, out>>

-----------------------------------------------------------------------------
(* What the image holds, whatever the code finds of it.                    *)

\* Block n of an image: a node, or something else.
BlockOf(im, n) ==
  IF n \in DOMAIN im.nodes THEN im.nodes[n]
                           ELSE [type |-> "other", level |-> 0, nkeys |-> 0, toc |-> <<>>]

TypeInode == 3
TypeFileExtent == 8
TypeDirRec == 9
TypeDstream == 8

InodeKey(i) == <<i, TypeInode>>
ExtentKey(i, offset) == <<i, TypeFileExtent, offset>>

\* sizeof(j_inode_val_t), j_file_extent_val_t, x_field_t and j_dstream_t.
InodeValSize == 92
ExtentValSize == 24
XFieldSize == 4
DstreamSize == 40

\* The nodes of the file-system tree, of three levels at most: the root, and what
\* the nodes above the leaves point at.
Children(node) == {GetKeyValue(node, i).val.child : i \in 1 .. node.nkeys}
AndBelow(im, blocks) ==
  blocks \union UNION {Children(BlockOf(im, n)) :
                         n \in {m \in blocks : BlockOf(im, m).level > 0}}
TreeNodes(im) == {BlockOf(im, n) : n \in AndBelow(im, AndBelow(im, {im.root}))}

\* The records of the tree, which are those of its leaves.
Records(im) ==
  UNION {{GetKeyValue(n, i) : i \in 1 .. n.nkeys} :
           n \in {m \in TreeNodes(im) : m.level = 0}}

\* Inode i's records of a type that has a third field in its keys.
RecordsOf(im, i, type) ==
  {r \in Records(im) : Len(r.key) = 3 /\ r.key[1] = i /\ r.key[2] = type}

\* The byte of inode i at position p: the extent that covers p says where.
ByteAt(im, i, p) ==
  LET r == CHOOSE r \in RecordsOf(im, i, TypeFileExtent) :
             r.key[3] <= p /\ p < r.key[3] + r.val.len
  IN  r.val.phys_block_num * BlockSize + (p - r.key[3])

StreamSize(v) ==
  LET fields == {k \in DOMAIN v.xfields : v.xfields[k].x_type = TypeDstream}
  IN  IF fields = {} THEN 0 ELSE v.xfields[CHOOSE k \in fields : TRUE].stream_size

FileIn(im, i) ==
  LET v     == (CHOOSE r \in Records(im) : r.key = InodeKey(i)).val
      names == RecordsOf(im, i, TypeDirRec)
  IN  [is_directory |-> v.is_directory,
       create_time |-> v.create_time,
       mod_time |-> v.mod_time,
       bytes |-> [p \in 1 .. StreamSize(v) |-> ByteAt(im, i, p - 1)],
       children |-> [n \in {r.key[3] : r \in names} |->
                       (CHOOSE r \in names : r.key[3] = n).val.file_id]]

\* The files of each image.
FilesIn ==
  [im \in Images |->
     [i \in {r.key[1] : r \in {s \in Records(im) : s.key[2] = TypeInode}} |->
        FileIn(im, i)]]

FS == INSTANCE FileStore WITH
        files <- FilesIn[image],
        busy  <- [t \in Threads |-> stage[t] # "idle"]

BD == INSTANCE BlockDevice WITH
        phase    <- [t \in Threads |-> IF stage[t] = "idle" THEN "idle" ELSE "busy"],
        req      <- ask,
        ret      <- ask,
        Requests <- {}

DeviceSize == image.count * BlockSize
Block(n) == BlockOf(image, n)

Nothing == FS!Nothing
RootInode == FS!RootInode

-----------------------------------------------------------------------------
(* The pieces of getFileInfo and readFile.                                 *)

\* Where the k-th extended field starts: the headers and data before it.
XFieldAt(v, k) ==
  InodeValSize + FoldFunctionOnSet(+, 0,
                   [j \in DOMAIN v.xfields |-> XFieldSize + v.xfields[j].x_size],
                   1 .. k - 1)

\* The scan over the extended fields: the size in the first data stream whose
\* header lies inside the value, if the stream does too; otherwise 0.
SizeInXFields(v) ==
  LET streams == {k \in DOMAIN v.xfields :
                    /\ v.xfields[k].x_type = TypeDstream
                    /\ XFieldAt(v, k) + XFieldSize <= v.size}
      first   == Min(streams)
  IN  IF streams # {} /\ XFieldAt(v, first) + XFieldSize + DstreamSize <= v.size
        THEN v.xfields[first].stream_size
        ELSE 0

\* Defect: the length of the value is not checked.
AnyValue(v) == TRUE

\* Defect: a value without extended fields is taken for too small.
MoreThanInode(v) == v.size > InodeValSize

\* getFileInfo takes no value that is too small for an inode.
InodeValue(v) == v.size >= InodeValSize

\* What getFileInfo makes of an inode's value.
FileInfo(i, v) ==
  [inode |-> i, size |-> SizeInXFields(v), create_time |-> v.create_time,
   mod_time |-> v.mod_time, is_directory |-> v.is_directory]

\* Defect: an offset at the end of the file is taken for one inside it.
PastEnd(offset, size) == offset > size

\* readFile has nothing to deliver from this offset on.
AtEnd(offset, size) == offset >= size

\* Defect: the end of the file is forgotten.
WholeRequest(t) == call[t].size

\* Defect: the size of the caller's buffer is forgotten.
ToTheEnd(t) == info[t].size - call[t].offset

\* readFile's read_size: what is asked for, or what there is before the end.
ReadSize(t) == Min({call[t].size, info[t].size - call[t].offset})

BlockOffset(t) == call[t].offset % BlockSize

BlocksToRead(t) == (ReadSize(t) + BlockOffset(t) + BlockSize - 1) \div BlockSize

\* readFile reads them with one readBlock whose size is that of all of them.
DataRequest(t, v) ==
  [start |-> v.phys_block_num, count |-> 1, size |-> BlocksToRead(t) * BlockSize]

\* A node is read with its OID for the block number.
NodeRequest == [start |-> image.root, count |-> 1, size |-> BlockSize]

\* lookup() in the block that answer a brought: the values found, one at most.
Lookup(a, key) ==
  IF a.ok THEN SearchNode(Block(a.from \div BlockSize), key) ELSE {}

\* lookupPath's components: what is between the slashes, empty strings dropped.
Components(path) == SelectSeq(path, LAMBDA n : n # FS!Slash)

IsRootPath(path) == path \in {<<>>, <<FS!Slash>>}
-----------------------------------------------------------------------------
(* A sound image, which the truth of an answer may need.                   *)

\* The extended fields lie inside the value, and one at most is a stream.
SoundInode(v) ==
  /\ v.size >= InodeValSize
  /\ \A k \in DOMAIN v.xfields :
       /\ XFieldAt(v, k) + XFieldSize <= v.size
       /\ XFieldAt(v, k) + XFieldSize + v.xfields[k].x_size <= v.size
       /\ v.xfields[k].x_type = TypeDstream => v.xfields[k].x_size = DstreamSize
  /\ \A j, k \in DOMAIN v.xfields :
       v.xfields[j].x_type = TypeDstream /\ v.xfields[k].x_type = TypeDstream => j = k

\* An extent is of whole blocks of the device.
SoundExtent(im, r) ==
  /\ r.val.size >= ExtentValSize /\ r.val.len > 0
  /\ r.key[3] % BlockSize = 0 /\ r.val.len % BlockSize = 0
  /\ r.val.phys_block_num + r.val.len \div BlockSize <= im.count

\* A key names one record, a file's extents do not overlap, and what stands above
\* the leaves is too small for an inode or an extent.
Sound(im) ==
  /\ im.root < im.count
  /\ \A r, s \in Records(im) : r.key = s.key => r = s
  /\ \A r \in Records(im) :
       r.key[2] = TypeInode => r.key = InodeKey(r.key[1]) /\ SoundInode(r.val)
  /\ \A i \in DOMAIN FilesIn[im] :
       /\ \A r \in RecordsOf(im, i, TypeFileExtent) : SoundExtent(im, r)
       /\ \A r, s \in RecordsOf(im, i, TypeFileExtent) :
            r.key[3] <= s.key[3] /\ s.key[3] < r.key[3] + r.val.len => r = s
  /\ \A node \in TreeNodes(im) :
       node.level > 0 => \A i \in 1 .. node.nkeys :
                           GetKeyValue(node, i).val.size < ExtentValSize

-----------------------------------------------------------------------------
Init ==
  /\ image \in Images
  /\ stage = [t \in Threads |-> "idle"]
  /\ call = [t \in Threads |-> CHOOSE c \in Calls : TRUE]
  /\ info = [t \in Threads |-> FS!NoInfo]
  /\ ask = [t \in Threads |-> NodeRequest]
  /\ out = [t \in Threads |-> Nothing]

\* The inode t's call is about.
Target(t) == IF call[t].op = "path" THEN RootInode ELSE call[t].inode

\* The next block is needed; readFile's local FileInfo is known from now on.
WaitFor(t, s, request, known) ==
  /\ stage' = [stage EXCEPT ![t] = s]
  /\ ask' = [ask EXCEPT ![t] = request]
  /\ info' = [info EXCEPT ![t] = known]
  /\ out' = [out EXCEPT ![t] = Nothing]

\* The call returns, and its local variables are gone.
Return(t, result) ==
  /\ stage' = [stage EXCEPT ![t] = "idle"]
  /\ out' = [out EXCEPT ![t] = result]
  /\ info' = [info EXCEPT ![t] = FS!NoInfo]
  /\ UNCHANGED ask

Call(t, c) ==
  /\ stage[t] = "idle"
  /\ call' = [call EXCEPT ![t] = c]
  /\ UNCHANGED image

\* getFileInfo, lookupPath of the root, and readFile begin with an inode.
CallForInode(t, c) ==
  /\ c.op \in {"info", "read"} \/ (c.op = "path" /\ IsRootPath(c.path))
  /\ Call(t, c)
  /\ WaitFor(t, "inode", NodeRequest, FS!NoInfo)

\* What readDirectory makes entries of: the pairs between the directory's first
\* record and the next directory's.
Entries(inode) == LookupRange(<<inode, TypeDirRec>>, <<inode + 1, TypeDirRec>>)

ReadDirectory(t, c) ==
  /\ c.op = "list"
  /\ Call(t, c)
  /\ Return(t, [Nothing EXCEPT !.ok = TRUE, !.entries = Entries(c.inode)])

\* lookupPath stops at a component that is not among the entries, and as there
\* are none that is the first; a path with no component at all succeeds with a
\* FileInfo that nobody has filled.
LookupPath(t, c) ==
  /\ c.op = "path" /\ ~IsRootPath(c.path)
  /\ Call(t, c)
  /\ IF Components(c.path) = <<>>
       THEN \E unfilled \in Garbage :
              Return(t, [Nothing EXCEPT !.ok = TRUE, !.info = unfilled])
       ELSE /\ \A e \in Range(Entries(RootInode)) : e.name # Head(Components(c.path))
            /\ Return(t, Nothing)

\* Defect: lookup() without its break reads the root again when it has no hit.
SearchOn(t, a) ==
  /\ stage[t] = "inode"
  /\ \A v \in Lookup(a, InodeKey(Target(t))) : ~InodeValue(v)
  /\ IF a.ok THEN WaitFor(t, "inode", NodeRequest, FS!NoInfo) ELSE Return(t, Nothing)
  /\ UNCHANGED <<image, call>>

\* getFileInfo has its node: it fails, or it has a FileInfo v describes.
NoInode(t, a) ==
  /\ stage[t] = "inode"
  /\ \A v \in Lookup(a, InodeKey(Target(t))) : ~InodeValue(v)
  /\ Return(t, Nothing)
  /\ UNCHANGED <<image, call>>

ReturnInfo(t, a) ==
  /\ stage[t] = "inode" /\ call[t].op \in {"info", "path"}
  /\ \E v \in Lookup(a, InodeKey(Target(t))) :
       /\ InodeValue(v)
       /\ Return(t, [Nothing EXCEPT !.ok = TRUE, !.info = FileInfo(Target(t), v)])
  /\ UNCHANGED <<image, call>>

\* readFile refuses a directory, returns no byte at or past the end of the
\* file, and otherwise looks for an extent that starts at the offset.
ReadInode(t, a) ==
  /\ stage[t] = "inode" /\ call[t].op = "read"
  /\ \E v \in Lookup(a, InodeKey(Target(t))) :
       /\ InodeValue(v)
       /\ LET found == FileInfo(Target(t), v)
          IN  IF found.is_directory
                THEN Return(t, Nothing)
              ELSE IF AtEnd(call[t].offset, found.size)
                THEN Return(t, [Nothing EXCEPT !.ok = TRUE])
              ELSE WaitFor(t, "extent", NodeRequest, found)
  /\ UNCHANGED <<image, call>>

NoExtent(t, a) ==
  /\ stage[t] = "extent"
  /\ \A v \in Lookup(a, ExtentKey(call[t].inode, call[t].offset)) :
       v.size < ExtentValSize
  /\ Return(t, Nothing)
  /\ UNCHANGED <<image, call>>

ReadExtent(t, a) ==
  /\ stage[t] = "extent"
  /\ \E v \in Lookup(a, ExtentKey(call[t].inode, call[t].offset)) :
       /\ v.size >= ExtentValSize
       /\ WaitFor(t, "data", DataRequest(t, v), info[t])
  /\ UNCHANGED <<image, call>>

\* The blocks are in temp_buffer: the caller gets read_size bytes of them.
ReadData(t, a) ==
  /\ stage[t] = "data"
  /\ Return(t, IF a.ok
                 THEN [Nothing EXCEPT !.ok = TRUE,
                         !.bytes = [p \in 1 .. ReadSize(t) |->
                                      a.from + BlockOffset(t) + p - 1]]
                 ELSE Nothing)
  /\ UNCHANGED <<image, call>>

Take(t, a) ==
  \/ NoInode(t, a) \/ ReturnInfo(t, a) \/ ReadInode(t, a)
  \/ NoExtent(t, a) \/ ReadExtent(t, a) \/ ReadData(t, a)

\* What the device may answer to r: the bytes, unless they are not all there.
Answers(r) ==
  (IF (r.start + r.count) * r.size <= DeviceSize THEN {BD!Asked(r)} ELSE {BD!Failed})
  \union (IF image.reliable THEN {} ELSE {BD!Failed})

\* A call goes on once the device has answered.
Resume(t) == stage[t] # "idle" /\ \E a \in Answers(ask[t]) : Take(t, a)

Next ==
  \E t \in Threads :
    \/ \E c \in Calls : CallForInode(t, c) \/ ReadDirectory(t, c) \/ LookupPath(t, c)
    \/ Resume(t)

\* The device answers, by a failure if by nothing else.
Spec == Init /\ [][Next]_vars /\ \A t \in Threads : WF_vars(Resume(t))

-----------------------------------------------------------------------------
\* What the volume's code itself holds, whatever is on the device.
LocalsOK ==
  /\ stage \in [Threads -> {"idle", "inode", "extent", "data"}]
  /\ call \in [Threads -> Calls]
  /\ info \in [Threads -> FileInfos]
  /\ ask \in [Threads -> [start : Nat, count : Nat, size : Nat]]
  /\ out \in [Threads -> [ok : BOOLEAN, info : FileInfos, bytes : Seq(Nat), entries : {<<>>}]]
  /\ \A t \in Threads :
       stage[t] \in {"extent", "data"} =>
         call[t].op = "read" /\ call[t].offset < info[t].size

\* Every variable keeps its type, and a read that has gone past its inode is
\* inside the file: info.size - offset does not wrap.
TypeOK ==
  /\ image \in Images
  /\ LocalsOK

\* t's call is answered, and it is one whose answers are known not to be true: a
\* read of several blocks, a listing, or the lookup of a path of slashes only.
KnownDivergence(t) ==
  \/ stage[t] = "data" /\ BlocksToRead(t) > 1
  \/ stage[t] = "idle" /\ call'[t].op = "list"
  \/ stage[t] = "idle" /\ call'[t].op = "path"
     /\ ~IsRootPath(call'[t].path) /\ Components(call'[t].path) = <<>>

\* The volume answers every other call with the truth about its files or with a
\* failure, whatever blocks cannot be read: readFile delivers bytes of the file
\* asked for, up to its end, and a key that stands in a node above the leaves
\* is not taken for a record.
ImplementsFileStore ==
  FS!Init /\ [][FS!Next \/ \E t \in Threads : KnownDivergence(t)]_FS!vars

\* Every call returns: MountLifecycle counts on it when it lets every callback
\* end, and unmount() waits for that.
CallsReturn == \A t \in Threads : stage[t] # "idle" ~> stage[t] = "idle"

\* A read that succeeds has delivered the bytes of the file from the offset on.
ReadsFileBytes ==
  \A t \in Threads :
    stage[t] = "idle" /\ call[t].op = "read" /\ out[t].ok =>
      out[t] \in FS!Truth(call[t])

\* Where the bytes come from aside, a read that succeeds has exactly as many as
\* were asked for or as are left before the end of the file, 0 from there on.
ReadsStayInFile ==
  \A t \in Threads :
    stage[t] = "idle" /\ call[t].op = "read" /\ out[t].ok =>
      \E r \in FS!Truth(call[t]) : Len(out[t].bytes) = Len(r.bytes)

\* t's call returns in this step.
Returns(t) ==
  stage'[t] = "idle" /\ (stage[t] # "idle" \/ call'[t] # call[t])

\* The volume has an answer to t's call.
HasAnswer(t) == FS!Truth(call'[t]) # {}

\* The read begins where one of the file's extents does and stays in one block,
\* or begins at or after the end of the file.
StartsAnExtent(c) ==
  \/ \E r \in Records(image) : r.key = ExtentKey(c.inode, c.offset) /\ c.size <= BlockSize
  \/ c.offset >= Len(FilesIn[image][c.inode].bytes)

\* With a reliable device and a tree of one node, an inode that is there is found
\* and a read from the start of an extent succeeds.
ServesOneNodeTrees ==
  [][\A t \in Threads :
       /\ Returns(t) /\ call'[t].op \in {"info", "read"}
       /\ HasAnswer(t) /\ image.reliable /\ Block(image.root).level = 0
       /\ call'[t].op = "read" => StartsAnExtent(call'[t])
       => out'[t].ok]_vars

\* With a reliable device, any part of a file can be read.
ServesReads ==
  [][\A t \in Threads :
       Returns(t) /\ call'[t].op = "read" /\ HasAnswer(t) => out'[t].ok]_vars
=============================================================================
