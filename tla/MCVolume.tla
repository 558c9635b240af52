------------------------------ MODULE MCVolume ------------------------------
(* Small images for Volume: 24 blocks of 2 bytes.                          *)
EXTENDS Volume, TLC

\* A value as each of the structures it may be cast to reads it.
Val(size, is_directory, xfields, phys_block_num, len, file_id, child) ==
  [size |-> size, is_directory |-> is_directory, xfields |-> xfields,
   create_time |-> 5, mod_time |-> 8,
   phys_block_num |-> phys_block_num, len |-> len, file_id |-> file_id,
   child |-> child]

Name(x_size) == [x_type |-> 4, x_size |-> x_size, stream_size |-> 0]
Stream(size) == [x_type |-> TypeDstream, x_size |-> DstreamSize, stream_size |-> size]

Directory == Val(InodeValSize, TRUE, <<>>, 0, 0, 0, 0)

\* A file's inode, its stream after a name field.
File(size) == Val(InodeValSize + 2 * XFieldSize + 6 + DstreamSize, FALSE,
                  <<Name(6), Stream(size)>>, 0, 0, 0, 0)
EmptyFile == Val(InodeValSize + XFieldSize + 6, FALSE, <<Name(6)>>, 0, 0, 0, 0)
Extent(phys, len) == Val(ExtentValSize, FALSE, <<>>, phys, len, 0, 0)
Entry(inode) == Val(18, FALSE, <<>>, 0, 0, inode, 0)
Child(oid) == Val(8, FALSE, <<>>, 0, 0, 0, oid)

\* A node with these <<key, value>> pairs.
Node(type, level, pairs) ==
  [type |-> type, level |-> level, nkeys |-> Len(pairs),
   toc |-> [i \in 1 .. 2 * Len(pairs) |->
              IF i <= Len(pairs) THEN pairs[i][1] ELSE pairs[i - Len(pairs)][2]]]

\* Directory 2 with file 5, of 3 bytes in blocks 3 and 4, and file 6, of 6 bytes
\* in blocks 6, 2 and 5; file 7 is empty.
First == << <<InodeKey(2), Directory>>, <<<<2, TypeDirRec, 1>>, Entry(5)>>,
            <<<<2, TypeDirRec, 2>>, Entry(6)>> >>
Second == << <<InodeKey(5), File(3)>>, <<ExtentKey(5, 0), Extent(3, 4)>>,
             <<InodeKey(6), File(6)>>, <<ExtentKey(6, 0), Extent(6, 2)>>,
             <<ExtentKey(6, 2), Extent(2, 2)>>, <<ExtentKey(6, 4), Extent(5, 2)>>,
             <<InodeKey(7), EmptyFile>> >>

\* The root's block; the blocks after the last that is used keep the reads of
\* readFile, wherever they go, on the device.
Root == 1
Image(nodes) == [root |-> Root, reliable |-> TRUE, count |-> 24, nodes |-> nodes]

\* All of it in the root, which is a leaf.
Flat == Image((Root :> Node("btree", 0, First \o Second)))

\* The same files in two leaves, under a root whose keys are their first keys.
Deep == Image((Root :> Node("btree", 1, << <<InodeKey(2), Child(7)>>,
                                          <<InodeKey(5), Child(8)>> >>))
              @@ (7 :> Node("btree_node", 0, First))
              @@ (8 :> Node("btree_node", 0, Second)))

FlatImage == {Flat}
\* The same with blocks that cannot be read.
Unreliable(im) == [im EXCEPT !.reliable = FALSE]
AllImages == {Flat, Deep, Unreliable(Flat), Unreliable(Deep)}

\* Every image on which the runs check what needs one is sound.
ASSUME SoundImages == \A im \in Images : Sound(im)

\* A FileInfo of zeros, and one of another inode.
SomeGarbage ==
  {FS!NoInfo, [FS!NoInfo EXCEPT !.inode = 6, !.size = 1, !.is_directory = TRUE]}

Make(op, inode, path, offset, size) ==
  [op |-> op, inode |-> inode, path |-> path, offset |-> offset, size |-> size]

Inodes == {2, 5, 6, 7, 9}
InfoCalls == {Make("info", i, <<>>, 0, 0) : i \in Inodes}
ListCalls == {Make("list", i, <<>>, 0, 0) : i \in {2}}
PathCalls == {Make("path", 0, p, 0, 0) : p \in {<<>>, <<0>>, <<0, 1>>, <<0, 2, 0>>, <<0, 1, 0, 1>>}}
EmptyPaths == {Make("path", 0, p, 0, 0) : p \in {<<0, 0>>}}

\* Reads that stay inside one block, and reads of any length.
BlockReads == {Make("read", i, <<>>, o, n) : i \in Inodes, o \in 0 .. 7, n \in 1 .. 2}
AlignedReads == {c \in BlockReads : (c.offset % BlockSize) + c.size <= BlockSize}
AllReads == {Make("read", i, <<>>, o, n) : i \in Inodes, o \in 0 .. 7, n \in {1, 2, 3, 7}}

AllCalls == InfoCalls \union ListCalls \union PathCalls \union EmptyPaths \union AllReads
=============================================================================
