---------------------------- MODULE MCSharedVolume ----------------------------
(* Two files on a device with an older version of the tree's node next to it. *)
EXTENDS SharedVolumeHistory, MCVolume

\* The older node: file 5 was of one byte, in a block that is
\* gone, and file 6 a directory.
Older == Node("btree", 0,
  << <<InodeKey(2), Directory>>, <<InodeKey(5), File(1)>>,
     <<ExtentKey(5, 0), Extent(9, 2)>>, <<InodeKey(6), Directory>> >>)

\* The newer one, in the block before it.
Newer == Node("btree", 0,
  << <<InodeKey(2), Directory>>, <<InodeKey(5), File(3)>>,
     <<ExtentKey(5, 0), Extent(3, 4)>>, <<InodeKey(6), File(2)>>,
     <<ExtentKey(6, 0), Extent(5, 2)>> >>)

Versions == [root |-> 1, reliable |-> TRUE, count |-> 8, nodes |-> (1 :> Newer) @@ (2 :> Older)]
Swapped  == [Versions EXCEPT !.nodes = (1 :> Older) @@ (2 :> Newer)]

TheImage == {Unreliable(Versions)}
\* Another process swaps the two nodes, and may swap them back.
Rewritten == {Unreliable(Swapped), Unreliable(Versions)}

SomeCalls == {Make("path", 0, <<0>>, 0, 0), Make("read", 5, <<>>, 0, 2),
              Make("read", 6, <<>>, 0, 1)}

\* What RightUnderALock needs for any constants is so in these.
ASSUME LockHypotheses == OrdinaryCalls /\ DeviceFits /\ WritesShow
===============================================================================
