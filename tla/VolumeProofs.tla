---------------------------- MODULE VolumeProofs ----------------------------
(***************************************************************************)
(* Proofs about Volume, for any threads, calls, images and block size.     *)
(***************************************************************************)
EXTENDS Volume, WellFoundedInduction, SequenceTheorems, TLAPS

-----------------------------------------------------------------------------
(* The search of a node.                                                   *)

\* Min is the least element of a set of numbers.
LEMMA MinIsLeast ==
  ASSUME NEW S, S \subseteq Nat, S # {}
  PROVE  Min(S) \in S /\ \A n \in S : Min(S) <= n
<1> DEFINE Less == {pair \in Nat \X Nat : pair[1] < pair[2]}
<1>1. IsWellFoundedOn(Less, Nat)
  BY NatLessThanWellFounded, Zenon DEF OpToRel
<1>2. PICK least \in S : \A n \in S : <<n, least>> \notin Less
  <2> HIDE DEF Less
  <2> QED
    BY <1>1, WFMin
<1>3. ASSUME NEW n \in S PROVE least <= n
  <2>1. n \in Nat /\ least \in Nat /\ <<n, least>> \in Nat \X Nat
    OBVIOUS
  <2>2. <<n, least>> \in Less <=> n < least
    BY <2>1
  <2>3. QED
    BY <1>2, <2>1, <2>2
<1>4. QED
  BY <1>3 DEF Min

\* The same for the lesser of two numbers.
LEMMA MinOfTwo ==
  ASSUME NEW m \in Nat, NEW n \in Nat
  PROVE  Min({m, n}) \in {m, n} /\ Min({m, n}) <= m /\ Min({m, n}) <= n
<1>1. {m, n} \subseteq Nat /\ {m, n} # {}
  OBVIOUS
<1>2. QED
  BY <1>1, MinIsLeast

\* compareKeys finds two keys equal when they are, and only then.
LEMMA EqualKeys ==
  ASSUME NEW k1 \in Seq(Nat), NEW k2 \in Seq(Nat)
  PROVE  CompareKeys(k1, k2) = 0 <=> k1 = k2
<1> DEFINE shorter == Min({Len(k1), Len(k2)})
           differ  == {i \in 1 .. shorter : k1[i] # k2[i]}
<1>1. shorter \in {Len(k1), Len(k2)} /\ shorter <= Len(k1) /\ shorter <= Len(k2)
  <2>1. Len(k1) \in Nat /\ Len(k2) \in Nat
    OBVIOUS
  <2>2. QED
    BY <2>1, MinOfTwo
<1>2. CompareKeys(k1, k2) =
        CASE differ # {} -> IF k1[Min(differ)] < k2[Min(differ)] THEN -1 ELSE 1
          [] differ = {} /\ Len(k1) < Len(k2) -> -1
          [] differ = {} /\ Len(k1) > Len(k2) -> 1
          [] OTHER -> 0
  BY DEF CompareKeys
<1>3. CompareKeys(k1, k2) = 0 <=> differ = {} /\ Len(k1) = Len(k2)
  <2> HIDE DEF differ, shorter
  <2> QED
    BY <1>2
<1>4. k1 = k2 => differ = {} /\ Len(k1) = Len(k2)
  OBVIOUS
<1>5. ASSUME differ = {}, Len(k1) = Len(k2) PROVE k1 = k2
  <2>1. shorter = Len(k1)
    BY <1>1, <1>5
  <2>2. \A i \in 1 .. Len(k1) : k1[i] = k2[i]
    BY <1>5, <2>1
  <2>3. QED
    BY <1>5, <2>2, SeqEqual
<1>6. QED
  BY <1>3, <1>4, <1>5

\* A block of an image is a node or has no entry; where it is a node its entries
\* are keys and values.
LEMMA BlockIs ==
  ASSUME NEW im, IsImage(im), NEW n
  PROVE  /\ BlockOf(im, n).nkeys \in Nat /\ BlockOf(im, n).level \in Nat
         /\ \A i \in 1 .. BlockOf(im, n).nkeys :
              /\ BlockOf(im, n).type \in {"btree", "btree_node"}
              /\ GetKeyValue(BlockOf(im, n), i) \in [key : Seq(Nat), val : Values]
BY DEF BlockOf, IsImage, Range

\* lookup() finds the value of an entry with the key, and finds one if there is
\* any.
LEMMA SearchFinds ==
  ASSUME NEW im, IsImage(im), NEW n, NEW key \in Seq(Nat)
  PROVE  LET node == BlockOf(im, n) IN
         /\ SearchNode(node, key) \subseteq Values
         /\ \A v \in SearchNode(node, key) :
              \E i \in 1 .. node.nkeys : GetKeyValue(node, i) = [key |-> key, val |-> v]
         /\ \A i \in 1 .. node.nkeys :
              GetKeyValue(node, i).key = key => SearchNode(node, key) # {}
<1> DEFINE node == BlockOf(im, n)
<1>1. node.nkeys \in Nat
  BY BlockIs
<1>2. \A i \in 1 .. node.nkeys :
        /\ node.type \in {"btree", "btree_node"}
        /\ GetKeyValue(node, i) \in [key : Seq(Nat), val : Values]
  BY BlockIs
<1> HIDE DEF node
<1>3. \A i \in 1 .. node.nkeys : i \in Hits(node, key) <=> GetKeyValue(node, i).key = key
  BY <1>2, EqualKeys DEF Hits
<1>4. Hits(node, key) \subseteq 1 .. node.nkeys
  BY DEF Hits
<1>5. ASSUME Hits(node, key) # {} PROVE Min(Hits(node, key)) \in Hits(node, key)
  BY <1>1, <1>4, <1>5, MinIsLeast
<1>6. ASSUME NEW v \in SearchNode(node, key)
      PROVE  \E i \in 1 .. node.nkeys : GetKeyValue(node, i) = [key |-> key, val |-> v]
  <2>1. Hits(node, key) # {} /\ v = GetKeyValue(node, Min(Hits(node, key))).val
    BY <1>6 DEF SearchNode
  <2>2. PICK i \in 1 .. node.nkeys : i = Min(Hits(node, key)) /\ i \in Hits(node, key)
    BY <1>4, <1>5, <2>1
  <2>3. GetKeyValue(node, i).key = key /\ GetKeyValue(node, i).val = v
    BY <1>3, <2>1, <2>2
  <2>4. QED
    BY <1>2, <2>3
<1>7. SearchNode(node, key) \subseteq Values
  BY <1>2, <1>6
<1>8. ASSUME NEW i \in 1 .. node.nkeys, GetKeyValue(node, i).key = key
      PROVE  SearchNode(node, key) # {}
  BY <1>3, <1>8 DEF SearchNode
<1>9. QED
  BY <1>6, <1>7, <1>8 DEF node

-----------------------------------------------------------------------------
(* Type correctness.                                                       *)

\* The size found in the extended fields, and what getFileInfo makes of a value.
LEMMA FileInfoType ==
  ASSUME NEW i \in Nat, NEW v \in Values PROVE FileInfo(i, v) \in FileInfos
<1>1. SizeInXFields(v) \in Nat
  <2> DEFINE streams == {k \in DOMAIN v.xfields :
                           /\ v.xfields[k].x_type = TypeDstream
                           /\ XFieldAt(v, k) + XFieldSize <= v.size}
  <2>1. v.xfields \in Seq([x_type : Nat, x_size : Nat, stream_size : Nat])
    BY DEF Values
  <2>2. ASSUME streams # {} PROVE v.xfields[Min(streams)].stream_size \in Nat
    <3>1. streams \subseteq 1 .. Len(v.xfields)
      BY <2>1
    <3> HIDE DEF streams
    <3>2. streams \subseteq Nat
      BY <2>1, <3>1
    <3>3. Min(streams) \in 1 .. Len(v.xfields)
      BY <2>2, <3>1, <3>2, MinIsLeast
    <3>4. v.xfields[Min(streams)] \in [x_type : Nat, x_size : Nat, stream_size : Nat]
      BY <2>1, <3>3, ElementOfSeq
    <3>5. QED
      BY <3>4
  <2>3. QED
    BY <2>2 DEF SizeInXFields
<1>2. QED
  BY <1>1 DEF FileInfo, Values, FileInfos

\* Every call starts as a record of these fields.
LEMMA CallFields ==
  ASSUME NEW c \in Calls
  PROVE  c.inode \in Nat /\ c.offset \in Nat /\ c.size \in Nat /\ c.path \in Seq(Nat)
BY CallsAssumption

\* readFile's arithmetic, on a read whose offset is inside its file.
LEMMA ReadSizeBounds ==
  ASSUME LocalsOK, NEW t \in Threads, stage[t] \in {"extent", "data"}
  PROVE  /\ ReadSize(t) \in Nat /\ ReadSize(t) <= call[t].size
         /\ ReadSize(t) <= info[t].size - call[t].offset
         /\ ReadSize(t) \in {call[t].size, info[t].size - call[t].offset}
         /\ BlockOffset(t) \in 0 .. BlockSize - 1
         /\ BlocksToRead(t) \in Nat
<1>1. call[t].size \in Nat /\ call[t].offset \in Nat /\ info[t].size - call[t].offset \in Nat
  <2>1. call[t] \in Calls /\ info[t] \in FileInfos /\ call[t].offset < info[t].size
    BY DEF LocalsOK
  <2>2. info[t].size \in Nat
    BY <2>1 DEF FileInfos
  <2>3. QED
    BY <2>1, <2>2, CallFields
<1>2. /\ ReadSize(t) \in {call[t].size, info[t].size - call[t].offset}
      /\ ReadSize(t) <= call[t].size /\ ReadSize(t) <= info[t].size - call[t].offset
  BY <1>1, MinOfTwo DEF ReadSize
<1>3. BlockOffset(t) \in 0 .. BlockSize - 1
  BY <1>1, BlockSizeAssumption DEF BlockOffset
<1>4. BlocksToRead(t) \in Nat
  <2>1. ReadSize(t) + BlockOffset(t) + BlockSize - 1 \in Nat
    BY <1>1, <1>2, <1>3, BlockSizeAssumption
  <2>2. QED
    BY <2>1, BlockSizeAssumption DEF BlocksToRead
<1>5. QED
  BY <1>1, <1>2, <1>3, <1>4

\* The empty answer and the empty FileInfo are typed.
LEMMA NothingType ==
  /\ FS!NoInfo \in FileInfos
  /\ Nothing \in [ok : BOOLEAN, info : FileInfos, bytes : Seq(Nat), entries : {<<>>}]
  /\ NodeRequest = [start |-> image.root, count |-> 1, size |-> BlockSize]
BY DEF FS!NoInfo, FS!Nothing, Nothing, FileInfos, NodeRequest

\* The records of the image's nodes hold what the calls' keys ask for.
LEMMA KeyTypes ==
  ASSUME NEW i \in Nat, NEW offset \in Nat
  PROVE  InodeKey(i) \in Seq(Nat) /\ ExtentKey(i, offset) \in Seq(Nat)
BY DEF InodeKey, ExtentKey, TypeInode, TypeFileExtent

\* t's call is about an inode.
LEMMA TargetType ==
  ASSUME LocalsOK, NEW t \in Threads
  PROVE  Target(t) \in Nat /\ call[t].inode \in Nat /\ call[t].offset \in Nat
<1>1. call[t] \in Calls
  BY DEF LocalsOK
<1>2. QED
  BY <1>1, CallFields DEF Target, RootInode, FS!RootInode

\* What lookup() finds in any block is a value.
LEMMA LookupType ==
  ASSUME IsImage(image), NEW a, NEW key \in Seq(Nat)
  PROVE  Lookup(a, key) \subseteq Values
BY SearchFinds DEF Lookup, Block

\* A step that ends in Return leaves the locals typed.
LEMMA ReturnType ==
  ASSUME LocalsOK, NEW t \in Threads, call' \in [Threads -> Calls],
         \A u \in Threads \ {t} : call'[u] = call[u],
         NEW result \in [ok : BOOLEAN, info : FileInfos, bytes : Seq(Nat), entries : {<<>>}],
         Return(t, result)
  PROVE  LocalsOK'
BY NothingType DEF LocalsOK, Return

\* So does one that ends in WaitFor, if what it asks for and knows is typed.
LEMMA WaitType ==
  ASSUME LocalsOK, NEW t \in Threads, call' \in [Threads -> Calls],
         \A u \in Threads \ {t} : call'[u] = call[u],
         NEW s \in {"inode", "extent", "data"}, NEW known \in FileInfos,
         NEW request \in [start : Nat, count : Nat, size : Nat],
         s # "inode" => call'[t].op = "read" /\ call'[t].offset < known.size,
         WaitFor(t, s, request, known)
  PROVE  LocalsOK'
BY NothingType DEF LocalsOK, WaitFor

\* Every step inside a call keeps the locals typed, whatever bytes it is given.
LEMMA TakeType ==
  ASSUME LocalsOK, IsImage(image), NEW t \in Threads, NEW a, a.from \in Nat, Take(t, a)
  PROVE  LocalsOK'
<1> DEFINE Results == [ok : BOOLEAN, info : FileInfos, bytes : Seq(Nat), entries : {<<>>}]
<1>1. call' = call /\ call' \in [Threads -> Calls] /\ call[t] \in Calls
  BY DEF LocalsOK, Take, NoInode, ReturnInfo, ReadInode, NoExtent, ReadExtent, ReadData
<1>2. Nothing \in Results
  BY NothingType
<1>3. CASE NoInode(t, a) \/ NoExtent(t, a)
  BY <1>1, <1>2, <1>3, ReturnType DEF NoInode, NoExtent
<1>4. ASSUME NEW v \in Lookup(a, InodeKey(Target(t)))
      PROVE  FileInfo(Target(t), v) \in FileInfos
  BY <1>4, TargetType, KeyTypes, LookupType, FileInfoType
<1>5. CASE ReturnInfo(t, a)
  <2>1. PICK v \in Lookup(a, InodeKey(Target(t))) :
          Return(t, [Nothing EXCEPT !.ok = TRUE, !.info = FileInfo(Target(t), v)])
    BY <1>5 DEF ReturnInfo
  <2>2. [Nothing EXCEPT !.ok = TRUE, !.info = FileInfo(Target(t), v)] \in Results
    BY <1>2, <1>4
  <2>3. QED
    BY <1>1, <2>1, <2>2, ReturnType
<1>6. CASE ReadInode(t, a)
  <2>1. PICK v \in Lookup(a, InodeKey(Target(t))) :
          LET found == FileInfo(Target(t), v)
          IN  IF found.is_directory
                THEN Return(t, Nothing)
              ELSE IF AtEnd(call[t].offset, found.size)
                THEN Return(t, [Nothing EXCEPT !.ok = TRUE])
              ELSE WaitFor(t, "extent", NodeRequest, found)
    BY <1>6 DEF ReadInode
  <2>2. [Nothing EXCEPT !.ok = TRUE] \in Results
    BY <1>2
  <2>3. ASSUME ~AtEnd(call[t].offset, FileInfo(Target(t), v).size)
        PROVE  call[t].offset < FileInfo(Target(t), v).size
    BY <1>4, <2>3, TargetType DEF AtEnd, FileInfos
  <2>4. NodeRequest \in [start : Nat, count : Nat, size : Nat]
    BY NothingType, BlockSizeAssumption DEF IsImage
  <2>5. call[t].op = "read"
    BY <1>6 DEF ReadInode
  <2>6. CASE FileInfo(Target(t), v).is_directory
    BY <1>1, <1>2, <2>1, <2>6, ReturnType
  <2>7. CASE /\ ~FileInfo(Target(t), v).is_directory
             /\ AtEnd(call[t].offset, FileInfo(Target(t), v).size)
    BY <1>1, <2>1, <2>2, <2>7, ReturnType
  <2>8. CASE /\ ~FileInfo(Target(t), v).is_directory
             /\ ~AtEnd(call[t].offset, FileInfo(Target(t), v).size)
    <3>1. WaitFor(t, "extent", NodeRequest, FileInfo(Target(t), v))
      BY <2>1, <2>8
    <3>2. QED
      BY <1>1, <1>4, <2>3, <2>4, <2>5, <2>8, <3>1, WaitType
  <2>9. QED
    BY <2>6, <2>7, <2>8
<1>7. CASE ReadExtent(t, a)
  <2>1. PICK v \in Lookup(a, ExtentKey(call[t].inode, call[t].offset)) :
          WaitFor(t, "data", DataRequest(t, v), info[t])
    BY <1>7 DEF ReadExtent
  <2>2. /\ stage[t] = "extent" /\ info[t] \in FileInfos
        /\ call[t].op = "read" /\ call[t].offset < info[t].size
    BY <1>7 DEF ReadExtent, LocalsOK
  <2>3. v.phys_block_num \in Nat
    <3>1. v \in Values
      BY <2>1, TargetType, KeyTypes, LookupType
    <3>2. QED
      BY <3>1 DEF Values
  <2>4. BlocksToRead(t) * BlockSize \in Nat
    BY <2>2, ReadSizeBounds, BlockSizeAssumption
  <2>5. DataRequest(t, v) \in [start : Nat, count : Nat, size : Nat]
    BY <2>3, <2>4 DEF DataRequest
  <2>6. QED
    BY <1>1, <2>1, <2>2, <2>5, WaitType
<1>8. CASE ReadData(t, a)
  <2> DEFINE bytes == [p \in 1 .. ReadSize(t) |-> a.from + BlockOffset(t) + p - 1]
  <2>1. /\ stage[t] = "data"
        /\ Return(t, IF a.ok THEN [Nothing EXCEPT !.ok = TRUE, !.bytes = bytes] ELSE Nothing)
    BY <1>8 DEF ReadData
  <2>2. ReadSize(t) \in Nat /\ BlockOffset(t) \in Nat
    BY <2>1, ReadSizeBounds, BlockSizeAssumption
  <2>3. bytes \in Seq(Nat)
    BY <2>2
  <2> HIDE DEF bytes
  <2>4. [Nothing EXCEPT !.ok = TRUE, !.bytes = bytes] \in Results
    BY <1>2, <2>3
  <2>5. QED
    BY <1>1, <1>2, <2>1, <2>4, ReturnType
<1>9. QED
  BY <1>3, <1>5, <1>6, <1>7, <1>8 DEF Take

\* So does the beginning of a call.
LEMMA BeginType ==
  ASSUME LocalsOK, IsImage(image), NEW t \in Threads, NEW c \in Calls,
         CallForInode(t, c) \/ ReadDirectory(t, c) \/ LookupPath(t, c)
  PROVE  LocalsOK'
<1> DEFINE Results == [ok : BOOLEAN, info : FileInfos, bytes : Seq(Nat), entries : {<<>>}]
<1>1. call' = [call EXCEPT ![t] = c] /\ call' \in [Threads -> Calls]
  BY DEF LocalsOK, CallForInode, ReadDirectory, LookupPath, Call
<1>2. Nothing \in Results
  BY NothingType
<1>3. CASE CallForInode(t, c)
  <2>1. NodeRequest \in [start : Nat, count : Nat, size : Nat]
    BY NothingType, BlockSizeAssumption DEF IsImage
  <2>2. WaitFor(t, "inode", NodeRequest, FS!NoInfo)
    BY <1>3 DEF CallForInode
  <2>3. QED
    BY <1>1, <2>1, <2>2, NothingType, WaitType DEF LocalsOK
<1>4. CASE ReadDirectory(t, c)
  <2>1. [Nothing EXCEPT !.ok = TRUE, !.entries = Entries(c.inode)] \in Results
    BY <1>2 DEF Entries, LookupRange
  <2>2. QED
    BY <1>1, <1>4, <2>1, ReturnType DEF ReadDirectory, LocalsOK
<1>5. CASE LookupPath(t, c)
  <2>1. ASSUME NEW unfilled \in Garbage
        PROVE  [Nothing EXCEPT !.ok = TRUE, !.info = unfilled] \in Results
    BY <1>2, GarbageAssumption
  <2>2. \E result \in Results : Return(t, result)
    BY <1>2, <1>5, <2>1 DEF LookupPath
  <2>3. QED
    BY <1>1, <2>2, ReturnType DEF LocalsOK
<1>6. QED
  BY <1>3, <1>4, <1>5

\* The steps of the volume, and which of them leave the image alone: all.
LEMMA StepImage ==
  ASSUME [Next]_vars PROVE image' = image
BY DEF Next, CallForInode, ReadDirectory, LookupPath, Call, Resume, Take, NoInode,
   ReturnInfo, ReadInode, NoExtent, ReadExtent, ReadData, vars

\* What the device answers to a typed request is typed.
LEMMA AnswerType ==
  ASSUME LocalsOK, NEW t \in Threads, NEW a \in Answers(ask[t])
  PROVE  a.from \in Nat /\ (a.ok => a.from = ask[t].start * ask[t].size)
<1>1. ask[t].start \in Nat /\ ask[t].size \in Nat
  BY DEF LocalsOK
<1>2. ask[t].start * ask[t].size \in Nat
  BY <1>1
<1>3. a \in {BD!Asked(ask[t]), BD!Failed}
  BY DEF Answers
<1>4. QED
  BY <1>2, <1>3 DEF BD!Asked, BD!Failed

LEMMA InitType == ASSUME Init PROVE TypeOK
<1>1. \A t \in Threads : call[t] \in Calls
  BY CallsAssumption DEF Init
<1>2. IsImage(image)
  BY ImagesAssumption DEF Init
<1>3. NodeRequest \in [start : Nat, count : Nat, size : Nat]
  BY <1>2, NothingType, BlockSizeAssumption DEF IsImage
<1>4. QED
  BY <1>1, <1>3, NothingType DEF Init, TypeOK, LocalsOK

LEMMA StepType == ASSUME TypeOK, [Next]_vars PROVE TypeOK'
<1>1. image' = image /\ image \in Images /\ IsImage(image) /\ LocalsOK
  BY StepImage, ImagesAssumption DEF TypeOK
<1>2. ASSUME NEW t \in Threads, NEW c \in Calls,
             CallForInode(t, c) \/ ReadDirectory(t, c) \/ LookupPath(t, c)
      PROVE  LocalsOK'
  BY <1>1, <1>2, BeginType
<1>3. ASSUME NEW t \in Threads, Resume(t) PROVE LocalsOK'
  <2>1. PICK a \in Answers(ask[t]) : Take(t, a)
    BY <1>3 DEF Resume
  <2>2. QED
    BY <1>1, <2>1, AnswerType, TakeType
<1>4. CASE UNCHANGED vars
  BY <1>1, <1>4 DEF vars, TypeOK, LocalsOK
<1>5. QED
  BY <1>1, <1>2, <1>3, <1>4 DEF Next, TypeOK

\* Every reachable state is well typed, and a read that has gone past its inode
\* is inside the file: readFile's info.size - offset does not wrap.
THEOREM TypeCorrect == Spec => []TypeOK
BY InitType, StepType, PTL DEF Spec

-----------------------------------------------------------------------------
(* What is found in the root node of a sound image is true.                *)

AllSound == \A im \in Images : Sound(im)

RootNode == BlockOf(image, image.root)

\* The image of every state, when all are sound.
LEMMA ImageFacts ==
  ASSUME AllSound, TypeOK
  PROVE  image \in Images /\ IsImage(image) /\ Sound(image)
BY ImagesAssumption DEF TypeOK, AllSound

\* The records of an image's tree are keys and values.
LEMMA RecordType ==
  ASSUME NEW im, IsImage(im), NEW r \in Records(im)
  PROVE  r \in [key : Seq(Nat), val : Values]
<1>1. PICK node \in TreeNodes(im) : \E i \in 1 .. node.nkeys : r = GetKeyValue(node, i)
  BY DEF Records
<1>2. PICK n : node = BlockOf(im, n)
  BY <1>1 DEF TreeNodes
<1>3. QED
  BY <1>1, <1>2, BlockIs

\* What is found in the root and is no child pointer is a record of the tree.
LEMMA FoundIsRecord ==
  ASSUME IsImage(image), Sound(image), NEW key \in Seq(Nat),
         NEW v \in SearchNode(RootNode, key), v.size >= ExtentValSize
  PROVE  v \in Values /\ [key |-> key, val |-> v] \in Records(image)
<1>1. v \in Values
  BY SearchFinds DEF RootNode
<1>2. PICK i \in 1 .. RootNode.nkeys : GetKeyValue(RootNode, i) = [key |-> key, val |-> v]
  BY SearchFinds DEF RootNode
<1>3. RootNode \in TreeNodes(image)
  BY DEF TreeNodes, AndBelow, RootNode
<1>4. RootNode.level \in Nat
  BY BlockIs DEF RootNode
<1>5. RootNode.level = 0
  <2>1. ASSUME RootNode.level > 0 PROVE GetKeyValue(RootNode, i).val.size < ExtentValSize
    BY <1>3, <2>1 DEF Sound
  <2>2. v.size \in Nat
    BY <1>1 DEF Values
  <2>3. QED
    BY <1>2, <1>4, <2>1, <2>2 DEF ExtentValSize
<1>6. QED
  BY <1>1, <1>2, <1>3, <1>5 DEF Records

\* In an inode's value whose fields lie inside it, the scan finds the stream.
LEMMA StreamFound ==
  ASSUME NEW v \in Values, SoundInode(v)
  PROVE  SizeInXFields(v) = StreamSize(v)
<1> DEFINE fields  == {k \in DOMAIN v.xfields : v.xfields[k].x_type = TypeDstream}
           streams == {k \in DOMAIN v.xfields :
                         /\ v.xfields[k].x_type = TypeDstream
                         /\ XFieldAt(v, k) + XFieldSize <= v.size}
<1>1. streams = fields
  BY DEF SoundInode
<1>2. CASE fields = {}
  BY <1>1, <1>2 DEF SizeInXFields, StreamSize
<1>3. ASSUME NEW k \in fields
      PROVE  SizeInXFields(v) = v.xfields[k].stream_size
  <2>1. fields = {k}
    BY <1>3 DEF SoundInode
  <2>2. k \in Nat
    <3>1. DOMAIN v.xfields = 1 .. Len(v.xfields)
      BY DEF Values
    <3>2. k \in DOMAIN v.xfields
      BY <1>3
    <3>3. QED
      BY <3>1, <3>2
  <2>3. Min(streams) = k
    <3> HIDE DEF fields, streams
    <3>1. {k} \subseteq Nat /\ {k} # {}
      BY <2>2
    <3>2. Min({k}) = k
      BY <3>1, MinIsLeast
    <3>3. QED
      BY <1>1, <2>1, <3>2
  <2>4. XFieldAt(v, k) + XFieldSize + DstreamSize <= v.size
    BY <1>3 DEF SoundInode
  <2>5. streams # {}
    BY <1>1, <2>1
  <2>6. QED
    BY <2>3, <2>4, <2>5 DEF SizeInXFields
<1>4. CASE fields # {}
  <2>1. (CHOOSE k \in fields : TRUE) \in fields
    BY <1>4
  <2>2. QED
    BY <1>3, <1>4, <2>1 DEF StreamSize
<1>5. QED
  BY <1>2, <1>4

\* The inode that lookup() finds in the root describes the file of that number.
LEMMA FoundInode ==
  ASSUME image \in Images, IsImage(image), Sound(image), NEW i \in Nat,
         NEW v \in SearchNode(RootNode, InodeKey(i)), InodeValue(v)
  PROVE  /\ v \in Values /\ i \in DOMAIN FilesIn[image]
         /\ FS!Info(i) = FileInfo(i, v)
         /\ FilesIn[image][i].is_directory = v.is_directory
         /\ FilesIn[image][i].bytes =
              [p \in 1 .. SizeInXFields(v) |-> ByteAt(image, i, p - 1)]
         /\ SizeInXFields(v) \in Nat /\ Len(FilesIn[image][i].bytes) = SizeInXFields(v)
<1> DEFINE record == [key |-> InodeKey(i), val |-> v]
<1>1. v \in Values /\ record \in Records(image)
  <2>1. v \in Values
    BY SearchFinds, KeyTypes DEF RootNode
  <2>2. v.size >= ExtentValSize
    BY <2>1 DEF Values, InodeValue, InodeValSize, ExtentValSize
  <2>3. QED
    BY <2>2, KeyTypes, FoundIsRecord
<1>2. record.key[1] = i /\ record.key[2] = TypeInode
  BY DEF InodeKey
<1>3. i \in DOMAIN FilesIn[image] /\ FilesIn[image][i] = FileIn(image, i)
  BY <1>1, <1>2 DEF FilesIn
<1>4. SoundInode(v)
  BY <1>1, <1>2 DEF Sound
<1>5. (CHOOSE r \in Records(image) : r.key = InodeKey(i)) = record
  BY <1>1 DEF Sound
<1>6. SizeInXFields(v) = StreamSize(v) /\ SizeInXFields(v) \in Nat
  <2>1. FileInfo(i, v) \in FileInfos
    BY <1>1, FileInfoType
  <2>2. QED
    BY <1>1, <1>4, <2>1, StreamFound DEF FileInfo, FileInfos
<1>7. /\ FileIn(image, i).is_directory = v.is_directory
      /\ FileIn(image, i).create_time = v.create_time
      /\ FileIn(image, i).mod_time = v.mod_time
      /\ FileIn(image, i).bytes = [p \in 1 .. SizeInXFields(v) |-> ByteAt(image, i, p - 1)]
  <2> DEFINE chosen == (CHOOSE r \in Records(image) : r.key = InodeKey(i)).val
  <2>1. chosen = v
    <3>1. record.val = v
      OBVIOUS
    <3> HIDE DEF record
    <3>2. QED
      BY <1>5, <3>1, Zenon
  <2>2. /\ FileIn(image, i).is_directory = chosen.is_directory
        /\ FileIn(image, i).create_time = chosen.create_time
        /\ FileIn(image, i).mod_time = chosen.mod_time
    BY DEF FileIn
  <2>3. FileIn(image, i).bytes = [p \in 1 .. StreamSize(chosen) |-> ByteAt(image, i, p - 1)]
    BY DEF FileIn
  <2> HIDE DEF chosen
  <2>4. QED
    BY <1>6, <2>1, <2>2, <2>3
<1>8. Len(FileIn(image, i).bytes) = SizeInXFields(v)
  BY <1>6, <1>7
<1>9. QED
  BY <1>1, <1>3, <1>6, <1>7, <1>8 DEF FS!Info, FileInfo

\* The extent that lookup() finds in the root holds the file's bytes from the
\* offset on, for a block at least.
LEMMA FoundExtent ==
  ASSUME image \in Images, IsImage(image), Sound(image), NEW i \in DOMAIN FilesIn[image],
         i \in Nat, NEW offset \in Nat,
         NEW v \in SearchNode(RootNode, ExtentKey(i, offset)), v.size >= ExtentValSize
  PROVE  /\ v.phys_block_num \in Nat /\ v.phys_block_num < image.count
         /\ offset % BlockSize = 0
         /\ \A p \in offset .. offset + BlockSize - 1 :
              ByteAt(image, i, p) = v.phys_block_num * BlockSize + (p - offset)
<1> DEFINE record == [key |-> ExtentKey(i, offset), val |-> v]
           extents == RecordsOf(image, i, TypeFileExtent)
<1>1. v \in Values /\ record \in Records(image)
  BY KeyTypes, FoundIsRecord
<1>2. record \in extents /\ record.key[3] = offset
  BY <1>1 DEF RecordsOf, ExtentKey
<1>3. SoundExtent(image, record)
  BY <1>2 DEF Sound
<1>4. /\ v.phys_block_num \in Nat /\ v.len \in Nat /\ v.len > 0
      /\ offset % BlockSize = 0 /\ v.len % BlockSize = 0
      /\ v.phys_block_num + v.len \div BlockSize <= image.count
  BY <1>1, <1>2, <1>3 DEF SoundExtent, Values
<1>5. v.len >= BlockSize /\ v.len \div BlockSize \in Nat \ {0}
  BY <1>4, BlockSizeAssumption
<1>6. v.phys_block_num < image.count
  BY <1>4, <1>5 DEF IsImage
<1>7. ASSUME NEW r \in extents PROVE r.key[3] \in Nat /\ r.val.len \in Nat
  <2>1. r \in [key : Seq(Nat), val : Values] /\ Len(r.key) = 3
    BY <1>7, RecordType DEF RecordsOf
  <2>2. QED
    BY <2>1 DEF Values
<1>8. ASSUME NEW p \in offset .. offset + BlockSize - 1
      PROVE  ByteAt(image, i, p) = v.phys_block_num * BlockSize + (p - offset)
  <2> DEFINE Covers(r) == r.key[3] <= p /\ p < r.key[3] + r.val.len
  <2>1. Covers(record)
    BY <1>2, <1>4, <1>5, BlockSizeAssumption
  <2>2. ASSUME NEW r \in extents, Covers(r) PROVE r = record
    <3>1. r.key[3] \in Nat /\ r.val.len \in Nat /\ p \in Nat
      BY <1>7, BlockSizeAssumption
    <3>2. \/ r.key[3] <= offset /\ offset < r.key[3] + r.val.len
          \/ offset <= r.key[3] /\ r.key[3] < offset + v.len
      BY <1>4, <1>5, <2>1, <2>2, <3>1, BlockSizeAssumption
    <3>3. QED
      BY <1>2, <3>2 DEF Sound
  <2>3. (CHOOSE r \in extents : Covers(r)) = record
    BY <1>2, <2>1, <2>2
  <2>4. ByteAt(image, i, p) =
          LET r == CHOOSE r \in extents : Covers(r)
          IN  r.val.phys_block_num * BlockSize + (p - r.key[3])
    BY DEF ByteAt
  <2> HIDE DEF Covers, extents
  <2>5. record.val.phys_block_num = v.phys_block_num /\ record.key[3] = offset
    BY <1>2
  <2> HIDE DEF record
  <2>6. QED
    BY <2>3, <2>4, <2>5
<1>9. QED
  BY <1>4, <1>5, <1>6, <1>8

-----------------------------------------------------------------------------
(* The inductive invariant: what a thread inside a call has read so far.   *)

\* The value of t's inode, and of the extent at t's offset, in the root.
InodeOf(t) == {v \in SearchNode(RootNode, InodeKey(Target(t))) : InodeValue(v)}

ExtentOf(t) ==
  {v \in SearchNode(RootNode, ExtentKey(call[t].inode, call[t].offset)) :
     v.size >= ExtentValSize}

Knows(t) ==
  /\ stage[t] # "idle" =>
       /\ out[t] = Nothing
       /\ call[t].op \in {"info", "read"} \/ (call[t].op = "path" /\ IsRootPath(call[t].path))
  /\ stage[t] \in {"inode", "extent"} => ask[t] = NodeRequest
  /\ stage[t] \in {"extent", "data"} =>
       \E v \in InodeOf(t) : ~v.is_directory /\ info[t] = FileInfo(Target(t), v)
  /\ stage[t] = "data" => \E v \in ExtentOf(t) : ask[t] = DataRequest(t, v)

IInv == TypeOK /\ \A t \in Threads : Knows(t)

\* A step of another thread changes nothing of what t knows.
LEMMA KnowsKept ==
  ASSUME NEW t \in Threads, Knows(t), image' = image, stage'[t] = stage[t],
         call'[t] = call[t], info'[t] = info[t], ask'[t] = ask[t], out'[t] = out[t]
  PROVE  Knows(t)'
BY DEF Knows, InodeOf, ExtentOf, RootNode, Target, NodeRequest, DataRequest, BlocksToRead,
   ReadSize, BlockOffset

\* When a node is asked for, what comes is the root node or nothing, and what
\* lookup() finds in it is found in the root.
LEMMA NodeAnswer ==
  ASSUME IInv, NEW t \in Threads, stage[t] \in {"inode", "extent"},
         NEW a \in Answers(ask[t]), NEW key \in Seq(Nat)
  PROVE  Lookup(a, key) = IF a.ok THEN SearchNode(RootNode, key) ELSE {}
<1>1. image.root \in Nat
  BY ImagesAssumption DEF IInv, TypeOK, IsImage
<1>2. ask[t].start = image.root /\ ask[t].size = BlockSize
  BY DEF IInv, Knows, NodeRequest
<1>3. a.ok => a.from = image.root * BlockSize
  BY <1>2, AnswerType DEF IInv, TypeOK
<1>4. (image.root * BlockSize) \div BlockSize = image.root
  BY <1>1, BlockSizeAssumption
<1>5. QED
  BY <1>3, <1>4 DEF Lookup, Block, RootNode

LEMMA InitIInv == ASSUME Init PROVE IInv
BY InitType DEF Init, IInv, Knows

\* The step that ends a call leaves nothing to know.
LEMMA ReturnKnows ==
  ASSUME IInv, NEW t \in Threads, NEW result, Return(t, result)
  PROVE  Knows(t)'
BY DEF IInv, TypeOK, LocalsOK, Return, Knows

\* A call in progress keeps its invariant, and each step of it leads on.
LEMMA TakeKnows ==
  ASSUME IInv, NEW t \in Threads, NEW a \in Answers(ask[t]), Take(t, a)
  PROVE  Knows(t)'
<1>1. /\ image' = image /\ call' = call
      /\ Target(t) \in Nat /\ call[t].inode \in Nat /\ call[t].offset \in Nat
      /\ IsImage(image)
  BY TargetType, ImagesAssumption DEF IInv, TypeOK, Take, NoInode, ReturnInfo, ReadInode,
     NoExtent, ReadExtent, ReadData
<1>2. CASE NoInode(t, a) \/ ReturnInfo(t, a) \/ NoExtent(t, a) \/ ReadData(t, a)
  BY <1>2, ReturnKnows DEF NoInode, ReturnInfo, NoExtent, ReadData
<1>3. CASE ReadInode(t, a)
  <2>1. stage[t] = "inode" /\ call[t].op = "read"
    BY <1>3 DEF ReadInode
  <2>2. PICK v \in Lookup(a, InodeKey(Target(t))) :
          /\ InodeValue(v)
          /\ LET found == FileInfo(Target(t), v)
             IN  IF found.is_directory
                   THEN Return(t, Nothing)
                 ELSE IF AtEnd(call[t].offset, found.size)
                   THEN Return(t, [Nothing EXCEPT !.ok = TRUE])
                 ELSE WaitFor(t, "extent", NodeRequest, found)
    BY <1>3 DEF ReadInode
  <2>3. v \in InodeOf(t)
    BY <1>1, <2>1, <2>2, NodeAnswer, KeyTypes, LookupType DEF InodeOf
  <2>4. CASE /\ ~FileInfo(Target(t), v).is_directory
             /\ ~AtEnd(call[t].offset, FileInfo(Target(t), v).size)
    <3>1. WaitFor(t, "extent", NodeRequest, FileInfo(Target(t), v))
      BY <2>2, <2>4
    <3>2. /\ stage'[t] = "extent" /\ ask'[t] = NodeRequest /\ out'[t] = Nothing
          /\ info'[t] = FileInfo(Target(t), v)
      BY <3>1 DEF WaitFor, IInv, TypeOK, LocalsOK
    <3>3. ~v.is_directory
      BY <2>4 DEF FileInfo
    <3>4. v \in InodeOf(t)' /\ Target(t)' = Target(t) /\ NodeRequest' = NodeRequest
      BY <1>1, <2>3 DEF InodeOf, RootNode, Target, NodeRequest
    <3>5. QED
      BY <1>1, <2>1, <2>3, <3>2, <3>3, <3>4 DEF Knows
  <2>5. QED
    BY <2>2, <2>4, ReturnKnows
<1>4. CASE ReadExtent(t, a)
  <2>1. stage[t] = "extent"
    BY <1>4 DEF ReadExtent
  <2>2. PICK v \in Lookup(a, ExtentKey(call[t].inode, call[t].offset)) :
          /\ v.size >= ExtentValSize
          /\ WaitFor(t, "data", DataRequest(t, v), info[t])
    BY <1>4 DEF ReadExtent
  <2>3. v \in ExtentOf(t)
    BY <1>1, <2>1, <2>2, NodeAnswer, KeyTypes, LookupType DEF ExtentOf
  <2>4. /\ stage'[t] = "data" /\ ask'[t] = DataRequest(t, v) /\ out'[t] = Nothing
        /\ info'[t] = info[t]
    BY <2>2 DEF WaitFor, IInv, TypeOK, LocalsOK
  <2>5. PICK w \in InodeOf(t) : ~w.is_directory /\ info[t] = FileInfo(Target(t), w)
    BY <2>1 DEF IInv, Knows
  <2>6. /\ w \in InodeOf(t)' /\ v \in ExtentOf(t)' /\ Target(t)' = Target(t)
        /\ DataRequest(t, v)' = DataRequest(t, v)
    BY <1>1, <2>3, <2>4, <2>5 DEF InodeOf, ExtentOf, RootNode, Target, DataRequest, BlocksToRead,
       ReadSize, BlockOffset
  <2>7. call[t].op = "read"
    BY <2>1 DEF IInv, TypeOK, LocalsOK
  <2>8. QED
    BY <1>1, <2>3, <2>4, <2>5, <2>6, <2>7 DEF Knows
<1>5. QED
  BY <1>2, <1>3, <1>4 DEF Take

LEMMA StepIInv == ASSUME IInv, [Next]_vars PROVE IInv'
<1>1. TypeOK' /\ image' = image
  BY StepType, StepImage DEF IInv
<1>2. ASSUME NEW t \in Threads,
             \A u \in Threads \ {t} :
               /\ stage'[u] = stage[u] /\ call'[u] = call[u] /\ info'[u] = info[u]
               /\ ask'[u] = ask[u] /\ out'[u] = out[u],
             Knows(t)'
      PROVE  IInv'
  BY <1>1, <1>2, KnowsKept DEF IInv
<1>3. ASSUME NEW t \in Threads, NEW c \in Calls, CallForInode(t, c)
      PROVE  IInv'
  <2>1. /\ stage'[t] = "inode" /\ call'[t] = c /\ ask'[t] = NodeRequest /\ out'[t] = Nothing
        /\ c.op \in {"info", "read"} \/ (c.op = "path" /\ IsRootPath(c.path))
    BY <1>3 DEF CallForInode, Call, WaitFor, IInv, TypeOK, LocalsOK
  <2>2. Knows(t)'
    BY <1>1, <2>1 DEF Knows, NodeRequest
  <2>3. QED
    BY <1>2, <1>3, <2>2 DEF CallForInode, Call, WaitFor, IInv, TypeOK, LocalsOK
<1>4. ASSUME NEW t \in Threads, NEW c \in Calls, ReadDirectory(t, c) \/ LookupPath(t, c)
      PROVE  IInv'
  <2>1. PICK result : Return(t, result)
    BY <1>4 DEF ReadDirectory, LookupPath
  <2>2. Knows(t)'
    BY <2>1, ReturnKnows
  <2>3. QED
    BY <1>2, <1>4, <2>1, <2>2 DEF ReadDirectory, LookupPath, Call, Return, IInv, TypeOK, LocalsOK
<1>5. ASSUME NEW t \in Threads, Resume(t) PROVE IInv'
  <2>1. PICK a \in Answers(ask[t]) : Take(t, a)
    BY <1>5 DEF Resume
  <2>2. \/ \E result : Return(t, result)
        \/ \E s, request, known : WaitFor(t, s, request, known)
    BY <2>1 DEF Take, NoInode, ReturnInfo, ReadInode, NoExtent, ReadExtent, ReadData
  <2>3. call' = call
    BY <2>1 DEF Take, NoInode, ReturnInfo, ReadInode, NoExtent, ReadExtent, ReadData
  <2>4. QED
    BY <1>2, <2>1, <2>2, <2>3, TakeKnows DEF Return, WaitFor, IInv, TypeOK, LocalsOK
<1>6. CASE UNCHANGED vars
  BY <1>1, <1>6, KnowsKept DEF vars, IInv
<1>7. QED
  BY <1>3, <1>4, <1>5, <1>6 DEF Next

LEMMA AlwaysIInv == Spec => []IInv
BY InitIInv, StepIInv, PTL DEF Spec

-----------------------------------------------------------------------------
(* The truth that FileStore tells.                                         *)

\* How many of n bytes a read of this size from the offset on delivers.
Left(n, offset, size) == IF n <= offset THEN 0 ELSE Min({size, n - offset})

\* The m bytes after the offset.
Slice(bytes, offset, m) == [p \in 1 .. m |-> bytes[offset + p]]

\* The part of a file that a read means: up to the file's end.
LEMMA PortionIs ==
  ASSUME NEW S, NEW bytes \in Seq(S), NEW offset \in Nat, NEW size \in Nat
  PROVE  LET m == Left(Len(bytes), offset, size) IN
         /\ m \in Nat
         /\ FS!Portion(bytes, offset, size) = Slice(bytes, offset, m)
         /\ Len(FS!Portion(bytes, offset, size)) = m
<1> DEFINE m == Left(Len(bytes), offset, size)
<1> DEFINE n == Len(bytes)
           last == IF offset + size <= n THEN offset + size ELSE n
           portion == SubSeq(bytes, offset + 1, last)
<1>1. n \in Nat /\ last \in Nat /\ last <= n
  OBVIOUS
<1>2. FS!Portion(bytes, offset, size) = portion
  BY DEF FS!Portion
<1> HIDE DEF n
<1>3. n > offset => n - offset \in Nat
  BY <1>1
<1>4. m \in Nat /\ m = IF offset + 1 <= last THEN last - offset ELSE 0
  <2>1. CASE n <= offset
    BY <1>1, <2>1 DEF n, Left
  <2>2. CASE n > offset
    <3> DEFINE least == Min({size, n - offset})
    <3>1. least \in {size, n - offset} /\ least <= size /\ least <= n - offset
      BY <1>3, <2>2, MinOfTwo
    <3>2. m = least
      BY <1>1, <2>2 DEF n, Left
    <3> HIDE DEF least
    <3>3. QED
      BY <1>1, <2>2, <3>1, <3>2
  <2>3. QED
    BY <1>1, <2>1, <2>2
<1> HIDE DEF m
<1>5. \A i \in offset + 1 .. last : bytes[i] \in S
  BY <1>1 DEF n
<1> HIDE DEF last
<1>6. /\ portion \in Seq(S) /\ Len(portion) = m
      /\ \A p \in 1 .. m : portion[p] = bytes[offset + p]
  <2>1. offset + 1 \in Int /\ last \in Int
    BY <1>1
  <2>2. /\ portion \in Seq(S)
        /\ Len(portion) = IF offset + 1 <= last THEN last - (offset + 1) + 1 ELSE 0
        /\ \A i \in 1 .. last - (offset + 1) + 1 : portion[i] = bytes[(offset + 1) + i - 1]
    BY <1>5, <2>1, SubSeqProperties
  <2> HIDE DEF portion
  <2>3. Len(portion) = m
    BY <1>1, <1>4, <2>2
  <2>4. ASSUME NEW p \in 1 .. m PROVE portion[p] = bytes[offset + p]
    <3>1. p \in 1 .. last - (offset + 1) + 1 /\ (offset + 1) + p - 1 = offset + p
      BY <1>1, <1>4
    <3>2. QED
      BY <2>2, <3>1
  <2>5. QED
    BY <2>2, <2>3, <2>4
<1> HIDE DEF portion
<1>7. portion = [p \in 1 .. m |-> bytes[offset + p]]
  <2>1. portion \in [1 .. m -> S]
    BY <1>6, LenProperties
  <2>2. QED
    BY <1>6, <2>1
<1>8. QED
  BY <1>2, <1>4, <1>6, <1>7 DEF Slice, m

\* The paths that lookupPath takes for the root lead to it.
LEMMA RootPath ==
  ASSUME NEW path, IsRootPath(path)
  PROVE  FS!Resolve(FS!Names(path)) = RootInode
<1>1. FS!Names(path) = <<>>
  <2>1. path = <<>> \/ path = <<FS!Slash>>
    BY DEF IsRootPath
  <2>2. FS!Range(path) \subseteq {FS!Slash}
    BY <2>1 DEF FS!Range
  <2>3. QED
    BY <2>2 DEF FS!Names
<1>2. FS!Resolve(<<>>) = RootInode
  <2> DEFINE Next1(at) == [n \in 0 .. Len(<<>>) |->
                 IF n = 0 THEN FS!RootInode
                 ELSE IF at[n - 1] = 0 THEN 0
                 ELSE LET children == FilesIn[image][at[n - 1]].children
                      IN  IF <<>>[n] \in DOMAIN children THEN children[<<>>[n]] ELSE 0]
             at == CHOOSE at : at = Next1(at)
  <2>1. FS!Resolve(<<>>) = at[Len(<<>>)]
    BY DEF FS!Resolve
  <2>2. Len(<<>>) = 0 /\ 0 .. 0 = {0}
    OBVIOUS
  <2>3. \A f : Next1(f) = [n \in {0} |-> FS!RootInode]
    BY <2>2
  <2> HIDE DEF Next1
  <2>4. at = Next1(at)
    <3>1. \E f : f = Next1(f)
      BY <2>3
    <3>2. QED
      BY <3>1
  <2>5. QED
    BY <2>1, <2>2, <2>3, <2>4 DEF RootInode
<1>3. QED
  BY <1>1, <1>2

\* In a sound image the inode a call is about, once it is found, makes its answer.
LEMMA InfoIsTruth ==
  ASSUME AllSound, IInv, NEW t \in Threads, NEW v \in InodeOf(t),
         call[t].op = "info" \/ (call[t].op = "path" /\ IsRootPath(call[t].path))
  PROVE  [Nothing EXCEPT !.ok = TRUE, !.info = FileInfo(Target(t), v)] \in FS!Truth(call[t])
<1>1. /\ Target(t) \in Nat /\ image \in Images /\ IsImage(image) /\ Sound(image)
      /\ v \in SearchNode(RootNode, InodeKey(Target(t))) /\ InodeValue(v)
  BY TargetType, ImageFacts DEF IInv, TypeOK, InodeOf
<1>2. Target(t) \in DOMAIN FilesIn[image] /\ FS!Info(Target(t)) = FileInfo(Target(t), v)
  BY <1>1, FoundInode
<1>3. CASE call[t].op = "info"
  BY <1>2, <1>3 DEF FS!Truth, Target, Nothing
<1>4. CASE call[t].op = "path" /\ IsRootPath(call[t].path)
  <2>1. Target(t) = RootInode /\ FS!Resolve(FS!Names(call[t].path)) = RootInode
    BY <1>4, RootPath DEF Target
  <2>2. QED
    BY <1>2, <1>4, <2>1 DEF FS!Truth, Nothing
<1>5. QED
  BY <1>3, <1>4

LEMMA ReadIsTruth ==
  ASSUME AllSound, IInv, NEW t \in Threads, NEW v \in InodeOf(t), ~v.is_directory,
         call[t].op = "read"
  PROVE  LET bytes == FilesIn[image][call[t].inode].bytes
             size == FileInfo(Target(t), v).size
             length == Left(size, call[t].offset, call[t].size)
         IN  /\ call[t].inode \in DOMAIN FilesIn[image]
             /\ size \in Nat /\ length \in Nat
             /\ bytes = [p \in 1 .. size |-> ByteAt(image, call[t].inode, p - 1)]
             /\ [Nothing EXCEPT !.ok = TRUE, !.bytes = Slice(bytes, call[t].offset, length)]
                  \in FS!Truth(call[t])
<1> DEFINE bytes == FilesIn[image][call[t].inode].bytes
           size == FileInfo(Target(t), v).size
<1>1. /\ Target(t) = call[t].inode /\ Target(t) \in Nat
      /\ call[t].offset \in Nat /\ call[t].size \in Nat
      /\ image \in Images /\ IsImage(image) /\ Sound(image)
      /\ v \in SearchNode(RootNode, InodeKey(Target(t))) /\ InodeValue(v)
  BY TargetType, ImageFacts, CallFields DEF IInv, TypeOK, LocalsOK, InodeOf, Target
<1>2. /\ call[t].inode \in DOMAIN FilesIn[image]
      /\ ~FilesIn[image][call[t].inode].is_directory
      /\ bytes = [p \in 1 .. size |-> ByteAt(image, call[t].inode, p - 1)]
      /\ size \in Nat
  BY <1>1, FoundInode DEF FileInfo
<1> HIDE DEF size
<1>3. \E S : bytes \in Seq(S) /\ Len(bytes) = size
  <2> DEFINE S == {ByteAt(image, call[t].inode, p - 1) : p \in 1 .. size}
             f == [p \in 1 .. size |-> ByteAt(image, call[t].inode, p - 1)]
  <2>1. f \in [1 .. size -> S]
    OBVIOUS
  <2> HIDE DEF f, S
  <2>2. f \in Seq(S) /\ Len(f) = size
    BY <1>2, <2>1
  <2>3. QED
    BY <1>2, <2>2 DEF f
<1> HIDE DEF bytes
<1>4. /\ Left(size, call[t].offset, call[t].size) \in Nat
      /\ FS!Portion(bytes, call[t].offset, call[t].size) =
           Slice(bytes, call[t].offset, Left(size, call[t].offset, call[t].size))
  <2> DEFINE offset == call[t].offset
             asked == call[t].size
  <2>1. PICK S : bytes \in Seq(S) /\ Len(bytes) = size
    BY <1>3
  <2>2. offset \in Nat /\ asked \in Nat
    BY <1>1
  <2> HIDE DEF offset, asked
  <2>3. Left(Len(bytes), offset, asked) \in Nat
    BY <2>1, <2>2, PortionIs
  <2>4. FS!Portion(bytes, offset, asked) = Slice(bytes, offset, Left(Len(bytes), offset, asked))
    BY <2>1, <2>2, PortionIs
  <2>5. QED
    BY <2>1, <2>3, <2>4 DEF offset, asked
<1>5. [Nothing EXCEPT !.ok = TRUE, !.bytes = FS!Portion(bytes, call[t].offset, call[t].size)]
        \in FS!Truth(call[t])
  BY <1>2 DEF FS!Truth, Nothing, bytes
<1>6. QED
  BY <1>2, <1>4, <1>5 DEF size, bytes

-----------------------------------------------------------------------------
(* readFile's blocks.                                                      *)

\* A read of one block at most stays inside it.
LEMMA OneBlock ==
  ASSUME LocalsOK, NEW t \in Threads, stage[t] \in {"extent", "data"}
  PROVE  /\ BlocksToRead(t) <= 1 /\ ReadSize(t) >= 1 =>
              BlocksToRead(t) = 1 /\ ReadSize(t) + BlockOffset(t) <= BlockSize
         /\ BlockOffset(t) = 0 /\ ReadSize(t) <= BlockSize => BlocksToRead(t) <= 1
<1> DEFINE n == ReadSize(t) + BlockOffset(t) + BlockSize - 1
<1>1. ReadSize(t) \in Nat /\ BlockOffset(t) \in Nat /\ BlocksToRead(t) \in Nat /\ n \in Nat
  BY ReadSizeBounds, BlockSizeAssumption
<1>2. BlocksToRead(t) * BlockSize <= n /\ n < BlocksToRead(t) * BlockSize + BlockSize
  <2> HIDE DEF n
  <2>1. (n \div BlockSize) * BlockSize <= n /\ n < (n \div BlockSize) * BlockSize + BlockSize
    BY <1>1, BlockSizeAssumption
  <2>2. QED
    BY <2>1 DEF BlocksToRead, n
<1>3. ASSUME BlocksToRead(t) <= 1, ReadSize(t) >= 1
      PROVE  BlocksToRead(t) = 1 /\ ReadSize(t) + BlockOffset(t) <= BlockSize
  <2>1. BlocksToRead(t) # 0
    BY <1>1, <1>2, <1>3, BlockSizeAssumption
  <2>2. BlocksToRead(t) = 1
    BY <1>1, <1>3, <2>1
  <2>3. QED
    BY <1>1, <1>2, <2>2, BlockSizeAssumption
<1>4. ASSUME BlockOffset(t) = 0, ReadSize(t) <= BlockSize PROVE BlocksToRead(t) <= 1
  <2>1. BlocksToRead(t) * BlockSize < 2 * BlockSize
    BY <1>1, <1>2, <1>4, BlockSizeAssumption
  <2>2. QED
    BY <1>1, <2>1, BlockSizeAssumption
<1>5. QED
  BY <1>3, <1>4

\* What t has asked for when it waits for its data: blocks that begin where the
\* extent of its offset does.
LEMMA DataAsked ==
  ASSUME AllSound, IInv, NEW t \in Threads, stage[t] = "data"
  PROVE  \E phys \in Nat :
           /\ phys < image.count /\ BlockOffset(t) = 0
           /\ ask[t] = [start |-> phys, count |-> 1, size |-> BlocksToRead(t) * BlockSize]
           /\ \A p \in call[t].offset .. call[t].offset + BlockSize - 1 :
                ByteAt(image, call[t].inode, p) = phys * BlockSize + (p - call[t].offset)
<1>1. call[t].op = "read" /\ call[t].offset \in Nat /\ call[t].inode \in Nat
  BY TargetType DEF IInv, TypeOK, LocalsOK
<1>2. PICK w \in InodeOf(t) : ~w.is_directory
  BY DEF IInv, Knows
<1>3. call[t].inode \in DOMAIN FilesIn[image]
  BY <1>1, <1>2, ReadIsTruth
<1>4. PICK v \in ExtentOf(t) : ask[t] = DataRequest(t, v)
  BY DEF IInv, Knows
<1>5. /\ v \in SearchNode(RootNode, ExtentKey(call[t].inode, call[t].offset))
      /\ v.size >= ExtentValSize
  BY <1>4 DEF ExtentOf
<1>6. /\ v.phys_block_num \in Nat /\ v.phys_block_num < image.count
      /\ call[t].offset % BlockSize = 0
      /\ \A p \in call[t].offset .. call[t].offset + BlockSize - 1 :
           ByteAt(image, call[t].inode, p) =
             v.phys_block_num * BlockSize + (p - call[t].offset)
  BY <1>1, <1>3, <1>5, ImageFacts, FoundExtent DEF IInv
<1>7. QED
  BY <1>4, <1>6 DEF DataRequest, BlockOffset

\* The bytes of a read that stays in a block are those of the file.
LEMMA DataIsTruth ==
  ASSUME AllSound, IInv, NEW t \in Threads, stage[t] = "data", BlocksToRead(t) <= 1,
         NEW a \in Answers(ask[t]), a.ok
  PROVE  [Nothing EXCEPT !.ok = TRUE,
            !.bytes = [p \in 1 .. ReadSize(t) |-> a.from + BlockOffset(t) + p - 1]]
           \in FS!Truth(call[t])
<1> DEFINE offset == call[t].offset
           bytes  == FilesIn[image][call[t].inode].bytes
           read   == [p \in 1 .. ReadSize(t) |-> a.from + BlockOffset(t) + p - 1]
<1>1. /\ call[t].op = "read" /\ offset \in Nat /\ LocalsOK /\ call[t].size \in Nat
      /\ offset < info[t].size
  BY TargetType, CallFields DEF IInv, TypeOK, LocalsOK
<1>2. PICK w \in InodeOf(t) : ~w.is_directory /\ info[t] = FileInfo(Target(t), w)
  BY DEF IInv, Knows
<1>3. /\ info[t].size \in Nat
      /\ bytes = [p \in 1 .. info[t].size |-> ByteAt(image, call[t].inode, p - 1)]
      /\ [Nothing EXCEPT !.ok = TRUE,
            !.bytes = Slice(bytes, offset, Left(info[t].size, offset, call[t].size))]
           \in FS!Truth(call[t])
  BY <1>1, <1>2, ReadIsTruth
<1>4. ReadSize(t) = Left(info[t].size, offset, call[t].size)
  BY <1>1, <1>3 DEF ReadSize, Left
<1>5. /\ ReadSize(t) \in Nat /\ BlockOffset(t) \in Nat
      /\ ReadSize(t) <= info[t].size - offset
  BY <1>1, ReadSizeBounds, BlockSizeAssumption
<1>6. ASSUME NEW p \in 1 .. ReadSize(t) PROVE read[p] = bytes[offset + p]
  <2>1. /\ ReadSize(t) >= 1
        /\ BlocksToRead(t) = 1 /\ ReadSize(t) + BlockOffset(t) <= BlockSize
    BY <1>1, <1>5, OneBlock
  <2>2. PICK phys \in Nat :
          /\ BlockOffset(t) = 0
          /\ ask[t] = [start |-> phys, count |-> 1, size |-> BlocksToRead(t) * BlockSize]
          /\ \A q \in offset .. offset + BlockSize - 1 :
               ByteAt(image, call[t].inode, q) = phys * BlockSize + (q - offset)
    BY DataAsked
  <2>3. a.from = phys * BlockSize
    BY <1>1, <2>1, <2>2, AnswerType, BlockSizeAssumption
  <2>4. offset + p \in 1 .. info[t].size
    BY <1>1, <1>3, <1>5
  <2>5. bytes[offset + p] = ByteAt(image, call[t].inode, (offset + p) - 1)
    BY <1>3, <2>4
  <2>6. (offset + p) - 1 \in offset .. offset + BlockSize - 1
    BY <1>1, <1>5, <2>1, <2>2, BlockSizeAssumption
  <2>7. bytes[offset + p] = phys * BlockSize + (((offset + p) - 1) - offset)
    BY <2>2, <2>5, <2>6
  <2>8. phys * BlockSize \in Nat
    BY <2>2, BlockSizeAssumption
  <2>9. read[p] = a.from + 0 + p - 1
    BY <2>2
  <2> HIDE DEF read, bytes
  <2>10. QED
    BY <1>1, <1>5, <2>3, <2>7, <2>8, <2>9
<1>7. read = Slice(bytes, offset, ReadSize(t))
  BY <1>6 DEF Slice
<1>8. QED
  BY <1>3, <1>4, <1>7

-----------------------------------------------------------------------------
(* Every step is one of FileStore, or none that shows.                     *)

\* A read that delivers nothing succeeds with no bytes.
LEMMA NoBytes ==
  [Nothing EXCEPT !.ok = TRUE, !.bytes = <<>>] = [Nothing EXCEPT !.ok = TRUE]
<1> DEFINE Results == [ok : BOOLEAN, info : FileInfos, bytes : Seq(Nat), entries : {<<>>}]
           x == [Nothing EXCEPT !.ok = TRUE, !.bytes = <<>>]
           y == [Nothing EXCEPT !.ok = TRUE]
<1>1. Nothing \in Results /\ Nothing.bytes = <<>>
  BY NothingType DEF Nothing, FS!Nothing
<1>2. x \in Results /\ x.ok = TRUE /\ x.bytes = <<>> /\ x.info = Nothing.info
  BY <1>1
<1>3. y \in Results /\ y.ok = TRUE /\ y.bytes = <<>> /\ y.info = Nothing.info
  BY <1>1
<1> HIDE DEF x, y
<1>4. x = y
  BY <1>2, <1>3
<1>5. QED
  BY <1>4 DEF x, y

\* The end of a call with a true answer or a failure.
LEMMA ReturnRefines ==
  ASSUME IInv, NEW t \in Threads, stage[t] # "idle", image' = image, call' = call,
         NEW result, result \in FS!Truth(call[t]) \union {Nothing}, Return(t, result)
  PROVE  FS!Next
<1>1. FilesIn[image]' = FilesIn[image]
  BY DEF FilesIn
<1>2. /\ stage' = [stage EXCEPT ![t] = "idle"] /\ out' = [out EXCEPT ![t] = result]
      /\ stage \in [Threads -> {"idle", "inode", "extent", "data"}]
  BY DEF Return, IInv, TypeOK, LocalsOK
<1>3. [u \in Threads |-> stage'[u] # "idle"] =
        [[u \in Threads |-> stage[u] # "idle"] EXCEPT ![t] = FALSE]
  BY <1>2
<1>4. result \in FS!Answers(call[t])
  BY DEF FS!Answers, Nothing
<1>5. FS!Answer(t)
  BY <1>1, <1>2, <1>3, <1>4 DEF FS!Answer
<1>6. QED
  BY <1>5 DEF FS!Next

\* Asking for a further block does not show.
LEMMA WaitStutters ==
  ASSUME IInv, NEW t \in Threads, stage[t] # "idle", image' = image, call' = call,
         NEW s \in {"inode", "extent", "data"}, NEW request, NEW known,
         WaitFor(t, s, request, known)
  PROVE  UNCHANGED FS!vars
<1>1. FilesIn[image]' = FilesIn[image]
  BY DEF FilesIn
<1>2. /\ stage' = [stage EXCEPT ![t] = s] /\ out' = [out EXCEPT ![t] = Nothing]
      /\ stage \in [Threads -> {"idle", "inode", "extent", "data"}]
      /\ out[t] = Nothing
      /\ out \in [Threads -> [ok : BOOLEAN, info : FileInfos, bytes : Seq(Nat), entries : {<<>>}]]
  BY DEF WaitFor, IInv, TypeOK, LocalsOK, Knows
<1>3. out' = out
  BY <1>2
<1>4. [u \in Threads |-> stage'[u] # "idle"] = [u \in Threads |-> stage[u] # "idle"]
  BY <1>2
<1>5. QED
  BY <1>1, <1>3, <1>4 DEF FS!vars

LEMMA BeginRefines ==
  ASSUME IInv, NEW t \in Threads, NEW c \in Calls,
         CallForInode(t, c) \/ ReadDirectory(t, c) \/ LookupPath(t, c)
  PROVE  FS!Next \/ KnownDivergence(t)
<1>1. /\ stage[t] = "idle" /\ call' = [call EXCEPT ![t] = c] /\ image' = image
      /\ stage \in [Threads -> {"idle", "inode", "extent", "data"}]
      /\ call'[t] = c
  BY DEF CallForInode, ReadDirectory, LookupPath, Call, IInv, TypeOK, LocalsOK
<1>2. FilesIn[image]' = FilesIn[image]
  BY <1>1 DEF FilesIn
<1>3. CASE CallForInode(t, c)
  <2>1. stage' = [stage EXCEPT ![t] = "inode"] /\ out' = [out EXCEPT ![t] = Nothing]
    BY <1>3 DEF CallForInode, WaitFor
  <2>2. [u \in Threads |-> stage'[u] # "idle"] =
          [[u \in Threads |-> stage[u] # "idle"] EXCEPT ![t] = TRUE]
    BY <1>1, <2>1
  <2>3. FS!Ask(t, c)
    BY <1>1, <1>2, <2>1, <2>2 DEF FS!Ask, Nothing
  <2>4. QED
    BY <2>3 DEF FS!Next
<1>4. CASE ReadDirectory(t, c)
  BY <1>1, <1>4 DEF ReadDirectory, KnownDivergence
<1>5. CASE LookupPath(t, c) /\ Components(c.path) = <<>>
  BY <1>1, <1>5 DEF LookupPath, KnownDivergence
<1>6. CASE LookupPath(t, c) /\ Components(c.path) # <<>>
  <2>1. Return(t, Nothing)
    BY <1>6 DEF LookupPath
  <2>2. stage' = [stage EXCEPT ![t] = "idle"] /\ out' = [out EXCEPT ![t] = Nothing]
    BY <2>1 DEF Return
  <2>3. [u \in Threads |-> stage'[u] # "idle"] = [u \in Threads |-> stage[u] # "idle"]
    BY <1>1, <2>2
  <2>4. Nothing \in FS!Answers(c)
    BY DEF FS!Answers, Nothing
  <2>5. FS!AnswerAtOnce(t, c)
    BY <1>1, <1>2, <2>2, <2>3, <2>4 DEF FS!AnswerAtOnce
  <2>6. QED
    BY <2>5 DEF FS!Next
<1>7. QED
  BY <1>3, <1>4, <1>5, <1>6

LEMMA TakeRefines ==
  ASSUME AllSound, IInv, NEW t \in Threads, NEW a \in Answers(ask[t]), stage[t] # "idle",
         Take(t, a)
  PROVE  FS!Next \/ UNCHANGED FS!vars \/ KnownDivergence(t)
<1>1. image' = image /\ call' = call /\ Target(t) \in Nat
  BY TargetType DEF IInv, TypeOK, Take, NoInode, ReturnInfo, ReadInode,
     NoExtent, ReadExtent, ReadData
<1>2. ASSUME NEW v \in Lookup(a, InodeKey(Target(t))), InodeValue(v), stage[t] = "inode"
      PROVE  v \in InodeOf(t)
  BY <1>1, <1>2, NodeAnswer, KeyTypes DEF InodeOf
<1>3. CASE NoInode(t, a) \/ NoExtent(t, a)
  BY <1>1, <1>3, ReturnRefines DEF NoInode, NoExtent
<1>4. CASE ReturnInfo(t, a)
  <2>1. PICK v \in Lookup(a, InodeKey(Target(t))) :
          /\ InodeValue(v)
          /\ Return(t, [Nothing EXCEPT !.ok = TRUE, !.info = FileInfo(Target(t), v)])
    BY <1>4 DEF ReturnInfo
  <2>2. stage[t] = "inode" /\ call[t].op \in {"info", "path"}
    BY <1>4 DEF ReturnInfo
  <2>3. v \in InodeOf(t)
    BY <1>2, <2>1, <2>2
  <2>4. call[t].op = "info" \/ (call[t].op = "path" /\ IsRootPath(call[t].path))
    BY <2>2 DEF IInv, Knows
  <2>5. [Nothing EXCEPT !.ok = TRUE, !.info = FileInfo(Target(t), v)] \in FS!Truth(call[t])
    BY <2>3, <2>4, InfoIsTruth
  <2>6. QED
    BY <1>1, <2>1, <2>5, ReturnRefines
<1>5. CASE ReadInode(t, a)
  <2>1. stage[t] = "inode" /\ call[t].op = "read"
    BY <1>5 DEF ReadInode
  <2>2. PICK v \in Lookup(a, InodeKey(Target(t))) :
          /\ InodeValue(v)
          /\ LET found == FileInfo(Target(t), v)
             IN  IF found.is_directory
                   THEN Return(t, Nothing)
                 ELSE IF AtEnd(call[t].offset, found.size)
                   THEN Return(t, [Nothing EXCEPT !.ok = TRUE])
                 ELSE WaitFor(t, "extent", NodeRequest, found)
    BY <1>5 DEF ReadInode
  <2> DEFINE size == FileInfo(Target(t), v).size
  <2>3. v \in InodeOf(t)
    BY <1>2, <2>1, <2>2
  <2>4. CASE FileInfo(Target(t), v).is_directory
    BY <1>1, <2>2, <2>4, ReturnRefines
  <2>5. CASE ~FileInfo(Target(t), v).is_directory /\ AtEnd(call[t].offset, size)
    <3>1. ~v.is_directory /\ call[t].offset \in Nat
      BY <2>5, TargetType DEF FileInfo, IInv, TypeOK
    <3> DEFINE bytes == FilesIn[image][call[t].inode].bytes
               length == Left(size, call[t].offset, call[t].size)
    <3>2. /\ size \in Nat
          /\ [Nothing EXCEPT !.ok = TRUE, !.bytes = Slice(bytes, call[t].offset, length)]
               \in FS!Truth(call[t])
      BY <2>1, <2>3, <3>1, ReadIsTruth
    <3>3. length = 0
      BY <2>5, <3>1, <3>2 DEF AtEnd, Left
    <3>4. Slice(bytes, call[t].offset, length) = <<>>
      BY <3>3 DEF Slice
    <3>5. [Nothing EXCEPT !.ok = TRUE, !.bytes = <<>>] = [Nothing EXCEPT !.ok = TRUE]
      BY NoBytes
    <3>6. Return(t, [Nothing EXCEPT !.ok = TRUE])
      BY <2>2, <2>5
    <3>7. QED
      BY <1>1, <3>2, <3>4, <3>5, <3>6, ReturnRefines
  <2>6. CASE ~FileInfo(Target(t), v).is_directory /\ ~AtEnd(call[t].offset, size)
    <3>1. WaitFor(t, "extent", NodeRequest, FileInfo(Target(t), v))
      BY <2>2, <2>6
    <3>2. QED
      BY <1>1, <3>1, WaitStutters
  <2>7. QED
    BY <2>4, <2>5, <2>6
<1>6. CASE ReadExtent(t, a)
  <2>1. \E request, known : WaitFor(t, "data", request, known)
    BY <1>6 DEF ReadExtent
  <2>2. QED
    BY <1>1, <2>1, WaitStutters
<1>7. CASE ReadData(t, a)
  <2> DEFINE result == [Nothing EXCEPT !.ok = TRUE,
                          !.bytes = [p \in 1 .. ReadSize(t) |-> a.from + BlockOffset(t) + p - 1]]
  <2>1. stage[t] = "data" /\ Return(t, IF a.ok THEN result ELSE Nothing)
    BY <1>7 DEF ReadData
  <2>2. CASE BlocksToRead(t) > 1
    BY <2>1, <2>2 DEF KnownDivergence
  <2>3. CASE BlocksToRead(t) <= 1
    <3>1. a.ok => result \in FS!Truth(call[t])
      BY <2>1, <2>3, DataIsTruth
    <3> HIDE DEF result
    <3>2. QED
      BY <1>1, <2>1, <3>1, ReturnRefines
  <2>4. BlocksToRead(t) \in Nat
    BY <2>1, ReadSizeBounds DEF IInv, TypeOK
  <2>5. QED
    BY <2>2, <2>3, <2>4
<1>8. QED
  BY <1>3, <1>4, <1>5, <1>6, <1>7 DEF Take

LEMMA StepRefines ==
  ASSUME AllSound, IInv, [Next]_vars
  PROVE  [FS!Next \/ \E t \in Threads : KnownDivergence(t)]_FS!vars
<1>1. ASSUME NEW t \in Threads, NEW c \in Calls,
             CallForInode(t, c) \/ ReadDirectory(t, c) \/ LookupPath(t, c)
      PROVE  FS!Next \/ \E u \in Threads : KnownDivergence(u)
  BY <1>1, BeginRefines
<1>2. ASSUME NEW t \in Threads, Resume(t)
      PROVE  FS!Next \/ UNCHANGED FS!vars \/ \E u \in Threads : KnownDivergence(u)
  BY <1>2, TakeRefines DEF Resume
<1>3. CASE UNCHANGED vars
  BY <1>3 DEF vars, FS!vars, FilesIn
<1>4. QED
  BY <1>1, <1>2, <1>3 DEF Next

\* On sound images the volume answers every call with the truth or a failure,
\* except for the calls that KnownDivergence names: what getFileInfo, lookupPath
\* and readFile read block by block is one answer from the files.
THEOREM FileStoreRefinement == ASSUME AllSound PROVE Spec => ImplementsFileStore
<1>1. Init => FS!Init
  <2> SUFFICES ASSUME Init PROVE FS!Init
    OBVIOUS
  <2>1. call \in [Threads -> Calls]
    BY InitType DEF TypeOK, LocalsOK
  <2>2. [t \in Threads |-> stage[t] # "idle"] = [t \in Threads |-> FALSE]
    BY DEF Init
  <2>3. QED
    BY <2>1, <2>2 DEF Init, FS!Init, Nothing
<1>2. IInv /\ [Next]_vars => [FS!Next \/ \E t \in Threads : KnownDivergence(t)]_FS!vars
  BY StepRefines
<1>3. QED
  BY AlwaysIInv, <1>1, <1>2, PTL DEF Spec, ImplementsFileStore

-----------------------------------------------------------------------------
(* The length of what readFile delivers.                                   *)

StaysInFile(t) ==
  stage[t] = "idle" /\ call[t].op = "read" /\ out[t].ok =>
    \E r \in FS!Truth(call[t]) : Len(out[t].bytes) = Len(r.bytes)

\* The step that ends a read keeps StaysInFile, however many blocks it was of.
LEMMA TakeStays ==
  ASSUME AllSound, IInv, NEW t \in Threads, NEW a \in Answers(ask[t]), Take(t, a)
  PROVE  StaysInFile(t)'
<1>1. image' = image /\ call' = call /\ Target(t) \in Nat
  BY TargetType DEF IInv, TypeOK, Take, NoInode, ReturnInfo, ReadInode,
     NoExtent, ReadExtent, ReadData
<1>2. FS!Truth(call[t])' = FS!Truth(call[t])
  BY <1>1 DEF FS!Truth, FS!Info, FS!Listing, FS!Resolve, FilesIn
<1>3. ASSUME NEW result, Return(t, result)
      PROVE  out'[t] = result
  BY <1>3 DEF Return, IInv, TypeOK, LocalsOK
<1>4. ASSUME NEW s, NEW request, NEW known, WaitFor(t, s, request, known), s # "idle"
      PROVE  StaysInFile(t)'
  BY <1>4 DEF WaitFor, IInv, TypeOK, LocalsOK, StaysInFile
<1>5. ASSUME NEW result, Return(t, result), result.ok => call[t].op # "read"
      PROVE  StaysInFile(t)'
  BY <1>1, <1>3, <1>5 DEF StaysInFile
<1>6. ~Nothing.ok
  BY DEF Nothing, FS!Nothing
<1>7. CASE NoInode(t, a) \/ NoExtent(t, a)
  BY <1>5, <1>6, <1>7 DEF NoInode, NoExtent
<1>8. CASE ReturnInfo(t, a)
  BY <1>5, <1>8 DEF ReturnInfo
<1>9. CASE ReadInode(t, a)
  <2>1. stage[t] = "inode" /\ call[t].op = "read"
    BY <1>9 DEF ReadInode
  <2>2. PICK v \in Lookup(a, InodeKey(Target(t))) :
          /\ InodeValue(v)
          /\ LET found == FileInfo(Target(t), v)
             IN  IF found.is_directory
                   THEN Return(t, Nothing)
                 ELSE IF AtEnd(call[t].offset, found.size)
                   THEN Return(t, [Nothing EXCEPT !.ok = TRUE])
                 ELSE WaitFor(t, "extent", NodeRequest, found)
    BY <1>9 DEF ReadInode
  <2> DEFINE size == FileInfo(Target(t), v).size
             bytes == FilesIn[image][call[t].inode].bytes
             length == Left(size, call[t].offset, call[t].size)
  <2>3. v \in InodeOf(t)
    BY <1>1, <2>1, <2>2, NodeAnswer, KeyTypes DEF InodeOf
  <2>4. CASE FileInfo(Target(t), v).is_directory
    BY <1>5, <1>6, <2>2, <2>4
  <2>5. CASE ~FileInfo(Target(t), v).is_directory /\ AtEnd(call[t].offset, size)
    <3>1. ~v.is_directory /\ call[t].offset \in Nat
      BY <2>5, TargetType DEF FileInfo, IInv, TypeOK
    <3>2. /\ size \in Nat
          /\ [Nothing EXCEPT !.ok = TRUE, !.bytes = Slice(bytes, call[t].offset, length)]
               \in FS!Truth(call[t])
      BY <2>1, <2>3, <3>1, ReadIsTruth
    <3>3. length = 0
      BY <2>5, <3>1, <3>2 DEF AtEnd, Left
    <3>4. Slice(bytes, call[t].offset, length) = <<>>
      BY <3>3 DEF Slice
    <3>5. out'[t] = [Nothing EXCEPT !.ok = TRUE, !.bytes = <<>>]
      BY <1>3, <2>2, <2>5, NoBytes
    <3>6. QED
      BY <1>1, <1>2, <3>2, <3>4, <3>5 DEF StaysInFile
  <2>6. CASE ~FileInfo(Target(t), v).is_directory /\ ~AtEnd(call[t].offset, size)
    BY <1>4, <2>2, <2>6
  <2>7. QED
    BY <2>4, <2>5, <2>6
<1>10. CASE ReadExtent(t, a)
  BY <1>4, <1>10 DEF ReadExtent
<1>11. CASE ReadData(t, a)
  <2> DEFINE read == [p \in 1 .. ReadSize(t) |-> a.from + BlockOffset(t) + p - 1]
             result == [Nothing EXCEPT !.ok = TRUE, !.bytes = read]
             bytes == FilesIn[image][call[t].inode].bytes
             length == Left(info[t].size, call[t].offset, call[t].size)
             truth == [Nothing EXCEPT !.ok = TRUE,
                                      !.bytes = Slice(bytes, call[t].offset, length)]
  <2>1. stage[t] = "data" /\ Return(t, IF a.ok THEN result ELSE Nothing)
    BY <1>11 DEF ReadData
  <2>2. /\ call[t].op = "read" /\ call[t].offset \in Nat /\ LocalsOK
        /\ call[t].offset < info[t].size /\ ReadSize(t) \in Nat
    BY <2>1, TargetType, ReadSizeBounds DEF IInv, TypeOK, LocalsOK
  <2>3. PICK w \in InodeOf(t) : ~w.is_directory /\ info[t] = FileInfo(Target(t), w)
    BY <2>1 DEF IInv, Knows
  <2>4. info[t].size \in Nat /\ truth \in FS!Truth(call[t])
    BY <2>2, <2>3, ReadIsTruth
  <2>5. ReadSize(t) = length
    BY <2>2, <2>4 DEF ReadSize, Left
  <2>6. Len(read) = ReadSize(t) /\ Len(Slice(bytes, call[t].offset, length)) = ReadSize(t)
    BY <2>2, <2>5 DEF Slice
  <2>7. result.bytes = read /\ truth.bytes = Slice(bytes, call[t].offset, length)
    BY DEF Nothing, FS!Nothing
  <2> HIDE DEF read, result, truth
  <2>8. CASE a.ok
    <3>1. out'[t] = result
      BY <1>3, <2>1, <2>8
    <3>2. QED
      BY <1>1, <1>2, <2>4, <2>6, <2>7, <3>1 DEF StaysInFile
  <2>9. CASE ~a.ok
    BY <1>5, <1>6, <2>1, <2>9
  <2>10. QED
    BY <2>8, <2>9
<1>12. QED
  BY <1>7, <1>8, <1>9, <1>10, <1>11 DEF Take

LEMMA StepStays ==
  ASSUME AllSound, IInv, ReadsStayInFile, [Next]_vars
  PROVE  ReadsStayInFile'
<1>1. image' = image
  BY StepImage
<1>2. ASSUME NEW t \in Threads, stage'[t] = stage[t], call'[t] = call[t], out'[t] = out[t]
      PROVE  StaysInFile(t)'
  <2>1. FS!Truth(call[t])' = FS!Truth(call[t])
    BY <1>1, <1>2 DEF FS!Truth, FS!Info, FS!Listing, FS!Resolve, FilesIn
  <2>2. StaysInFile(t)
    BY DEF ReadsStayInFile, StaysInFile
  <2>3. QED
    BY <1>2, <2>1, <2>2 DEF StaysInFile
<1>3. ASSUME NEW t \in Threads, StaysInFile(t)',
             \A u \in Threads \ {t} :
               stage'[u] = stage[u] /\ call'[u] = call[u] /\ out'[u] = out[u]
      PROVE  ReadsStayInFile'
  BY <1>2, <1>3 DEF ReadsStayInFile, StaysInFile
<1>4. ASSUME NEW t \in Threads, NEW c \in Calls,
             CallForInode(t, c) \/ ReadDirectory(t, c) \/ LookupPath(t, c)
      PROVE  ReadsStayInFile'
  <2>1. stage'[t] # "idle" \/ call'[t].op # "read"
    BY <1>4 DEF CallForInode, ReadDirectory, LookupPath, Call, WaitFor, IInv, TypeOK, LocalsOK
  <2>2. \A u \in Threads \ {t} :
          stage'[u] = stage[u] /\ call'[u] = call[u] /\ out'[u] = out[u]
    BY <1>4 DEF CallForInode, ReadDirectory, LookupPath, Call, WaitFor, Return,
       IInv, TypeOK, LocalsOK
  <2>3. QED
    BY <1>3, <2>1, <2>2 DEF StaysInFile
<1>5. ASSUME NEW t \in Threads, Resume(t) PROVE ReadsStayInFile'
  <2>1. PICK a \in Answers(ask[t]) : Take(t, a)
    BY <1>5 DEF Resume
  <2>2. \/ \E result : Return(t, result)
        \/ \E s, request, known : WaitFor(t, s, request, known)
    BY <2>1 DEF Take, NoInode, ReturnInfo, ReadInode, NoExtent, ReadExtent, ReadData
  <2>3. call' = call
    BY <2>1 DEF Take, NoInode, ReturnInfo, ReadInode, NoExtent, ReadExtent, ReadData
  <2>4. QED
    BY <1>3, <2>1, <2>2, <2>3, TakeStays DEF Return, WaitFor, IInv, TypeOK, LocalsOK
<1>6. CASE UNCHANGED vars
  BY <1>2, <1>6 DEF vars, ReadsStayInFile, StaysInFile
<1>7. QED
  BY <1>4, <1>5, <1>6 DEF Next

\* On sound images a read that succeeds has delivered as many bytes as the file
\* has for it, whatever blocks they came from.
THEOREM ReadsStay == ASSUME AllSound PROVE Spec => []ReadsStayInFile
<1>1. Init => ReadsStayInFile
  BY DEF Init, ReadsStayInFile, Nothing, FS!Nothing
<1>2. IInv /\ ReadsStayInFile /\ [Next]_vars => ReadsStayInFile'
  BY StepStays
<1>3. QED
  BY AlwaysIInv, <1>1, <1>2, PTL DEF Spec

-----------------------------------------------------------------------------
(* What is there is found.                                                 *)

\* In a tree of one node, lookup() finds every record.
LEMMA RecordIsFound ==
  ASSUME IsImage(image), RootNode.level = 0, NEW key \in Seq(Nat),
         NEW r \in Records(image), r.key = key
  PROVE  SearchNode(RootNode, key) # {}
<1>1. AndBelow(image, {image.root}) = {image.root}
  BY DEF AndBelow, RootNode
<1>2. TreeNodes(image) = {RootNode}
  <2>1. AndBelow(image, AndBelow(image, {image.root})) = {image.root}
    BY <1>1
  <2>2. TreeNodes(image) = {BlockOf(image, n) : n \in {image.root}}
    BY <2>1 DEF TreeNodes
  <2>3. QED
    BY <2>2 DEF RootNode
<1>3. PICK i \in 1 .. RootNode.nkeys : r = GetKeyValue(RootNode, i)
  BY <1>2 DEF Records
<1>4. QED
  BY <1>3, SearchFinds DEF RootNode

\* So it finds a file's inode, whose value is large enough to be one.
LEMMA InodeIsFound ==
  ASSUME IsImage(image), Sound(image), image \in Images, RootNode.level = 0,
         NEW i \in Nat, i \in DOMAIN FilesIn[image]
  PROVE  \E v \in SearchNode(RootNode, InodeKey(i)) : InodeValue(v)
<1>1. PICK r \in Records(image) : r.key[2] = TypeInode /\ r.key[1] = i
  BY DEF FilesIn
<1>2. r.key = InodeKey(i) /\ SoundInode(r.val)
  BY <1>1 DEF Sound
<1>3. PICK v : v \in SearchNode(RootNode, InodeKey(i))
  BY <1>2, KeyTypes, RecordIsFound
<1>4. v \in Values
  BY <1>3, KeyTypes, SearchFinds DEF RootNode
<1>5. PICK k \in 1 .. RootNode.nkeys : GetKeyValue(RootNode, k) = [key |-> InodeKey(i), val |-> v]
  BY <1>3, KeyTypes, SearchFinds DEF RootNode
<1>6. [key |-> InodeKey(i), val |-> v] \in Records(image)
  BY <1>5 DEF Records, TreeNodes, AndBelow, RootNode
<1>7. r = [key |-> InodeKey(i), val |-> v]
  BY <1>2, <1>6 DEF Sound
<1>8. QED
  BY <1>2, <1>3, <1>7 DEF SoundInode, InodeValue

\* And the extent that a record is for.
LEMMA ExtentIsFound ==
  ASSUME IsImage(image), Sound(image), image \in Images, RootNode.level = 0,
         NEW i \in Nat, i \in DOMAIN FilesIn[image], NEW offset \in Nat,
         NEW r \in Records(image), r.key = ExtentKey(i, offset)
  PROVE  \E v \in SearchNode(RootNode, ExtentKey(i, offset)) : v.size >= ExtentValSize
<1>1. PICK v : v \in SearchNode(RootNode, ExtentKey(i, offset))
  BY KeyTypes, RecordIsFound
<1>2. PICK k \in 1 .. RootNode.nkeys :
        GetKeyValue(RootNode, k) = [key |-> ExtentKey(i, offset), val |-> v]
  BY <1>1, KeyTypes, SearchFinds DEF RootNode
<1>3. [key |-> ExtentKey(i, offset), val |-> v] \in Records(image)
  BY <1>2 DEF Records, TreeNodes, AndBelow, RootNode
<1>4. r = [key |-> ExtentKey(i, offset), val |-> v]
  BY <1>3 DEF Sound
<1>5. r \in RecordsOf(image, i, TypeFileExtent)
  BY DEF RecordsOf, ExtentKey
<1>6. r.val.size >= ExtentValSize
  BY <1>5 DEF Sound, SoundExtent
<1>7. QED
  BY <1>1, <1>4, <1>6

\* The volume could have answered t's call with more than a failure.
Answerable(t) ==
  /\ call[t].op \in {"info", "read"} /\ FS!Truth(call[t]) # {}
  /\ image.reliable /\ RootNode.level = 0
  /\ call[t].op = "read" => StartsAnExtent(call[t])

\* An answer that exists is about a file; a read's is not about a directory.
LEMMA TruthHasFile ==
  ASSUME NEW c, c.op \in {"info", "read"}, FS!Truth(c) # {}
  PROVE  /\ c.inode \in DOMAIN FilesIn[image]
         /\ c.op = "read" => ~FilesIn[image][c.inode].is_directory
BY DEF FS!Truth

\* What is asked of the device for a node is a block of it.
LEMMA NodeInside ==
  ASSUME AllSound, IInv, NEW t \in Threads, stage[t] \in {"inode", "extent"}
  PROVE  /\ ask[t] = [start |-> image.root, count |-> 1, size |-> BlockSize]
         /\ (ask[t].start + ask[t].count) * ask[t].size <= DeviceSize
<1>1. /\ image.root \in Nat /\ image.count \in Nat /\ image.root < image.count
      /\ ask[t] = [start |-> image.root, count |-> 1, size |-> BlockSize]
  BY ImageFacts DEF IInv, Sound, IsImage, Knows, NodeRequest
<1>2. (image.root + 1) * BlockSize <= image.count * BlockSize
  BY <1>1, BlockSizeAssumption
<1>3. QED
  BY <1>1, <1>2 DEF DeviceSize

\* What is asked of it for a read that begins with its extent and is no larger than
\* a block is at most a block of it, too.
LEMMA DataInside ==
  ASSUME AllSound, IInv, NEW t \in Threads, stage[t] = "data", call[t].size <= BlockSize
  PROVE  /\ BlocksToRead(t) \in {0, 1}
         /\ ask[t].count = 1 /\ ask[t].size = BlocksToRead(t) * BlockSize
         /\ (ask[t].start + ask[t].count) * ask[t].size <= DeviceSize
<1>1. PICK phys \in Nat :
        /\ phys < image.count /\ BlockOffset(t) = 0
        /\ ask[t] = [start |-> phys, count |-> 1, size |-> BlocksToRead(t) * BlockSize]
  BY DataAsked
<1>2. /\ ReadSize(t) \in Nat /\ ReadSize(t) <= call[t].size /\ BlocksToRead(t) \in Nat
      /\ call[t].size \in Nat /\ image.count \in Nat /\ LocalsOK
  BY ReadSizeBounds, CallFields, ImageFacts DEF IInv, TypeOK, LocalsOK, IsImage
<1>3. BlocksToRead(t) \in {0, 1}
  <2>1. ReadSize(t) <= BlockSize
    BY <1>2, BlockSizeAssumption
  <2>2. BlocksToRead(t) <= 1
    BY <1>1, <1>2, <2>1, OneBlock
  <2>3. QED
    BY <1>2, <2>2
<1>4. (phys + 1) * (BlocksToRead(t) * BlockSize) <= image.count * BlockSize
  <2>1. (phys + 1) * BlockSize <= image.count * BlockSize
    BY <1>1, <1>2, BlockSizeAssumption
  <2>2. image.count * BlockSize \in Nat
    BY <1>2, BlockSizeAssumption
  <2>3. CASE BlocksToRead(t) = 0
    BY <2>2, <2>3, BlockSizeAssumption
  <2>4. CASE BlocksToRead(t) = 1
    BY <2>1, <2>4, BlockSizeAssumption
  <2>5. QED
    BY <1>3, <2>3, <2>4
<1>5. QED
  BY <1>1, <1>3, <1>4 DEF DeviceSize

\* So a reliable device brings it.
LEMMA BlocksCome ==
  ASSUME AllSound, IInv, NEW t \in Threads, image.reliable,
         \/ stage[t] \in {"inode", "extent"}
         \/ stage[t] = "data" /\ call[t].size <= BlockSize,
         NEW a \in Answers(ask[t])
  PROVE  a.ok
<1>1. (ask[t].start + ask[t].count) * ask[t].size <= DeviceSize
  BY NodeInside, DataInside
<1>2. a = BD!Asked(ask[t])
  BY <1>1 DEF Answers
<1>3. QED
  BY <1>2 DEF BD!Asked

\* No step ends a call without success that could have had an answer.
LEMMA TakeServes ==
  ASSUME AllSound, IInv, NEW t \in Threads, NEW a \in Answers(ask[t]), Take(t, a),
         Answerable(t), stage'[t] = "idle"
  PROVE  out'[t].ok
<1>1. /\ Target(t) = call[t].inode /\ Target(t) \in Nat /\ call[t].offset \in Nat
      /\ image \in Images /\ IsImage(image) /\ Sound(image) /\ image.reliable
      /\ RootNode.level = 0 /\ Target(t) \in DOMAIN FilesIn[image]
      /\ call[t].op = "read" => ~FilesIn[image][call[t].inode].is_directory
  BY TargetType, ImageFacts, TruthHasFile DEF IInv, TypeOK, Target, Answerable
<1>2. ASSUME NEW result, Return(t, result) PROVE out'[t] = result
  BY <1>2 DEF Return, IInv, TypeOK, LocalsOK
<1>3. ASSUME NEW s, NEW request, NEW known, WaitFor(t, s, request, known), s # "idle"
      PROVE  FALSE
  BY <1>3 DEF WaitFor, IInv, TypeOK, LocalsOK
<1>4. ASSUME stage[t] \in {"inode", "extent"}, NEW key \in Seq(Nat)
      PROVE  Lookup(a, key) = SearchNode(RootNode, key)
  BY <1>1, <1>4, NodeAnswer, BlocksCome
<1>5. ASSUME NoInode(t, a) PROVE FALSE
  <2>1. stage[t] = "inode" /\ \A v \in Lookup(a, InodeKey(Target(t))) : ~InodeValue(v)
    BY <1>5 DEF NoInode
  <2>2. \A v \in SearchNode(RootNode, InodeKey(Target(t))) : ~InodeValue(v)
    BY <1>1, <1>4, <2>1, KeyTypes
  <2>3. QED
    BY <1>1, <2>2, InodeIsFound
<1>6. CASE ReturnInfo(t, a)
  <2>1. PICK v : Return(t, [Nothing EXCEPT !.ok = TRUE, !.info = FileInfo(Target(t), v)])
    BY <1>6 DEF ReturnInfo
  <2>2. QED
    BY <1>2, <2>1 DEF Nothing, FS!Nothing
<1>7. CASE ReadInode(t, a)
  <2>1. stage[t] = "inode" /\ call[t].op = "read"
    BY <1>7 DEF ReadInode
  <2>2. PICK v \in Lookup(a, InodeKey(Target(t))) :
          /\ InodeValue(v)
          /\ LET found == FileInfo(Target(t), v)
             IN  IF found.is_directory
                   THEN Return(t, Nothing)
                 ELSE IF AtEnd(call[t].offset, found.size)
                   THEN Return(t, [Nothing EXCEPT !.ok = TRUE])
                 ELSE WaitFor(t, "extent", NodeRequest, found)
    BY <1>7 DEF ReadInode
  <2>3. v \in SearchNode(RootNode, InodeKey(Target(t)))
    BY <1>1, <1>4, <2>1, <2>2, KeyTypes
  <2>4. ~FileInfo(Target(t), v).is_directory
    BY <1>1, <2>1, <2>2, <2>3, FoundInode DEF FileInfo
  <2>5. Return(t, [Nothing EXCEPT !.ok = TRUE])
    BY <1>3, <2>2, <2>4
  <2>6. QED
    BY <1>2, <2>5 DEF Nothing, FS!Nothing
<1>8. ASSUME stage[t] \in {"extent", "data"}
      PROVE  /\ call[t].size <= BlockSize
             /\ \E r \in Records(image) : r.key = ExtentKey(call[t].inode, call[t].offset)
  <2>1. call[t].op = "read" /\ call[t].offset < info[t].size
    BY <1>8 DEF IInv, TypeOK, LocalsOK
  <2>2. PICK w \in InodeOf(t) : info[t] = FileInfo(Target(t), w)
    BY <1>8 DEF IInv, Knows
  <2>3. w \in SearchNode(RootNode, InodeKey(Target(t))) /\ InodeValue(w)
    BY <2>2 DEF InodeOf
  <2>4. info[t].size = Len(FilesIn[image][call[t].inode].bytes) /\ info[t].size \in Nat
    <3>1. /\ SizeInXFields(w) = Len(FilesIn[image][Target(t)].bytes)
          /\ SizeInXFields(w) \in Nat
      BY <1>1, <2>3, FoundInode
    <3>2. info[t].size = SizeInXFields(w)
      BY <2>2 DEF FileInfo
    <3>3. QED
      BY <1>1, <3>1, <3>2
  <2>5. ~(call[t].offset >= Len(FilesIn[image][call[t].inode].bytes))
    BY <1>1, <2>1, <2>4
  <2>6. QED
    BY <2>1, <2>5 DEF Answerable, StartsAnExtent
<1>9. ASSUME NoExtent(t, a) PROVE FALSE
  <2>1. /\ stage[t] = "extent"
        /\ \A v \in Lookup(a, ExtentKey(call[t].inode, call[t].offset)) : v.size < ExtentValSize
    BY <1>9 DEF NoExtent
  <2>2. PICK v \in SearchNode(RootNode, ExtentKey(call[t].inode, call[t].offset)) :
          v.size >= ExtentValSize
    BY <1>1, <1>8, <2>1, ExtentIsFound
  <2>3. v \in Lookup(a, ExtentKey(call[t].inode, call[t].offset)) /\ v.size \in Nat
    <3>1. v \in Values
      BY <1>1, <2>2, KeyTypes, SearchFinds DEF RootNode
    <3>2. QED
      BY <1>1, <1>4, <2>1, <2>2, <3>1, KeyTypes DEF Values
  <2>4. QED
    BY <2>1, <2>2, <2>3 DEF ExtentValSize
<1>10. CASE ReadExtent(t, a)
  BY <1>3, <1>10 DEF ReadExtent
<1>11. CASE ReadData(t, a)
  <2>1. stage[t] = "data"
    BY <1>11 DEF ReadData
  <2>2. a.ok
    BY <1>1, <1>8, <2>1, BlocksCome
  <2>3. \E bytes : Return(t, [Nothing EXCEPT !.ok = TRUE, !.bytes = bytes])
    BY <1>11, <2>2 DEF ReadData
  <2>4. QED
    BY <1>2, <2>3 DEF Nothing, FS!Nothing
<1>12. QED
  BY <1>5, <1>6, <1>7, <1>9, <1>10, <1>11 DEF Take

Serves ==
  \A t \in Threads :
    /\ Returns(t) /\ call'[t].op \in {"info", "read"}
    /\ HasAnswer(t) /\ image.reliable /\ Block(image.root).level = 0
    /\ call'[t].op = "read" => StartsAnExtent(call'[t])
    => out'[t].ok

LEMMA StepServes == ASSUME AllSound, IInv, Next PROVE Serves
<1> SUFFICES ASSUME NEW t \in Threads, Returns(t), call'[t].op \in {"info", "read"},
                    HasAnswer(t), image.reliable, Block(image.root).level = 0,
                    call'[t].op = "read" => StartsAnExtent(call'[t])
             PROVE  out'[t].ok
  BY DEF Serves
<1>1. ASSUME NEW u \in Threads, NEW c \in Calls,
             CallForInode(u, c) \/ ReadDirectory(u, c) \/ LookupPath(u, c)
      PROVE  FALSE
  <2>1. /\ stage[u] = "idle" /\ call' = [call EXCEPT ![u] = c]
        /\ \/ stage' = [stage EXCEPT ![u] = "inode"]
           \/ stage' = [stage EXCEPT ![u] = "idle"] /\ c.op \notin {"info", "read"}
    BY <1>1 DEF CallForInode, ReadDirectory, LookupPath, Call, WaitFor, Return
  <2>2. stage'[t] = "idle" /\ (stage[t] # "idle" \/ call'[t] # call[t])
    BY DEF Returns
  <2>3. t = u
    BY <2>1, <2>2 DEF IInv, TypeOK, LocalsOK
  <2>4. QED
    BY <2>1, <2>2, <2>3 DEF IInv, TypeOK, LocalsOK
<1>2. ASSUME NEW u \in Threads, Resume(u) PROVE out'[t].ok
  <2>1. PICK a \in Answers(ask[u]) : Take(u, a)
    BY <1>2 DEF Resume
  <2>2. /\ call' = call
        /\ \E s : stage' = [stage EXCEPT ![u] = s]
    BY <2>1 DEF Take, NoInode, ReturnInfo, ReadInode, NoExtent, ReadExtent, ReadData,
       WaitFor, Return
  <2>3. t = u /\ stage'[t] = "idle"
    BY <2>2 DEF Returns, IInv, TypeOK, LocalsOK
  <2>4. Answerable(t)
    BY <2>2 DEF Answerable, HasAnswer, Block, RootNode
  <2>5. QED
    BY <2>1, <2>3, <2>4, TakeServes
<1>3. QED
  BY <1>1, <1>2 DEF Next

\* On sound images whose tree is one node, and with a reliable device, an inode
\* that is there is found and a read from the start of an extent succeeds.
THEOREM OneNodeTreesAreServed == ASSUME AllSound PROVE Spec => ServesOneNodeTrees
<1>1. IInv /\ [Next]_vars => [Serves]_vars
  BY StepServes
<1>2. [Serves]_vars =>
        [\A t \in Threads :
           /\ Returns(t) /\ call'[t].op \in {"info", "read"}
           /\ HasAnswer(t) /\ image.reliable /\ Block(image.root).level = 0
           /\ call'[t].op = "read" => StartsAnExtent(call'[t])
           => out'[t].ok]_vars
  BY DEF Serves
<1>3. QED
  BY AlwaysIInv, <1>1, <1>2, PTL DEF Spec, ServesOneNodeTrees

=============================================================================
