---------------------------- MODULE MCContainer ----------------------------
(* Small containers: superblocks of 2, object maps of 1, a default block of 4. *)
EXTENDS Container, TLC

Superblock(block_size, fs_oid) ==
  [Blank EXCEPT !.magic = "NXSB", !.nx_block_size = block_size, !.nx_omap_oid = 1,
                !.nx_fs_oid = [i \in 0 .. NxMaxFileSystems - 1 |-> fs_oid[i + 1]]]

Volume(omap, root) ==
  [Blank EXCEPT !.magic = "APSB", !.apfs_omap_oid = omap, !.apfs_root_tree_oid = root]

\* Twelve blocks: volumes in blocks 3 and 5, and in block 10 one whose object map
\* wraps to block 4, or 36; what is no volume in the others.
Sized(block_size, fs_oid, reliable) ==
  [size |-> 4 + 12 * block_size, reliable |-> reliable,
   at |-> (0 :> Superblock(block_size, fs_oid))
          @@ (3 * block_size :> Volume(4, 9)) @@ (5 * block_size :> Volume(6, 10))
          @@ (7 * block_size :> Volume(0, 9)) @@ (8 * block_size :> Volume(4, 0))
          @@ (9 * block_size :> Volume(90, 9)) @@ (10 * block_size :> Volume(68, 9))]

\* Slots with a volume each, a slot that is empty, and slots with a volume whose
\* object map or root is missing or whose block is something else; blocks 67 and
\* 35 wrap to block 3 where blocks have 4 or 8 bytes.
SlotLists == {<<3, 5, 0>>, <<0, 3, 7>>, <<8, 9, 5>>, <<2, 40, 3>>, <<67, 35, 10>>}

WithMap(im, oid) == [im EXCEPT !.at[0].nx_omap_oid = oid]

SomeImages ==
  {Sized(b, l, r) : b \in {2, 4, 8}, l \in SlotLists, r \in BOOLEAN}
    \union {Sized(b, <<3, 5, 0>>, TRUE) : b \in {0, 1}}
    \union {[size |-> n, at |-> <<>>, reliable |-> TRUE] : n \in {3, 4}}
    \union {WithMap(Sized(4, <<3, 5, 0>>, TRUE), oid) : oid \in {0, 50}}

SomeGarbage == {Blank, Volume(4, 11)}
=============================================================================
