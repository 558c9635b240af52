-------------------------------- MODULE BTree --------------------------------
(***************************************************************************)
(* The B-tree search of src/apfs/btree.cpp, on one node at a time.         *)
(*                                                                         *)
(* A key is the sequence of its fixed-width fields, so two keys have the   *)
(* same bytes when they are the same sequence.  A node is a record with a  *)
(* type, a level, nkeys and its table of contents toc: nkeys key locations *)
(* and, after them, as many value locations.                               *)
(***************************************************************************)
EXTENDS Integers, Sequences, FiniteSetsExt

\* memcmp over the common length; then the shorter key comes first.
CompareKeys(k1, k2) ==
  LET shorter == Min({Len(k1), Len(k2)})
      differ  == {i \in 1 .. shorter : k1[i] # k2[i]}
  IN  CASE differ # {} -> IF k1[Min(differ)] < k2[Min(differ)] THEN -1 ELSE 1
        [] differ = {} /\ Len(k1) < Len(k2) -> -1
        [] differ = {} /\ Len(k1) > Len(k2) -> 1
        [] OTHER -> 0

\* The i-th key of a node and its value, from 1 to nkeys.
GetKeyValue(node, i) ==
  [key |-> node.toc[i], val |-> node.toc[node.nkeys + i]]

\* searchNode: the entries whose key is the one sought; none in a block that is
\* not a B-tree node.  It looks at a node the same way whatever its level.
Hits(node, key) ==
  IF node.type \in {"btree", "btree_node"}
    THEN {i \in 1 .. node.nkeys : CompareKeys(key, GetKeyValue(node, i).key) = 0}
    ELSE {}

\* The value lookup() finds in the node: a set of at most one, the first hit.
SearchNode(node, key) ==
  IF Hits(node, key) = {} THEN {}
                          ELSE {GetKeyValue(node, Min(Hits(node, key))).val}

\* lookupRange() always succeeds, with no entry.
LookupRange(key_min, key_max) == <<>>
=============================================================================
