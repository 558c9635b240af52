------------------------------- MODULE Files -------------------------------
(***************************************************************************)
(* The files of a volume, as FileStore and Drive speak of them.            *)
(*                                                                         *)
(* files[i] describes inode i: whether it is a directory, its times, its   *)
(* bytes (each named by its place on the device), and the inodes that its  *)
(* entries name.                                                           *)
(***************************************************************************)
EXTENDS Naturals, SequencesExt

VARIABLE files  \* what the volume holds

RootInode == 2

\* A path is a sequence of names and slashes; names are not 0.
Slash == 0
Names(path) ==
  IF Range(path) \subseteq {Slash} THEN <<>> ELSE SelectSeq(path, LAMBDA n : n # Slash)

NoInfo ==
  [inode |-> 0, size |-> 0, create_time |-> 0, mod_time |-> 0, is_directory |-> FALSE]

\* The inode the path's components lead to from the root, or 0.
Resolve(components) ==
  LET at[n \in 0 .. Len(components)] ==
        IF n = 0 THEN RootInode
        ELSE IF at[n - 1] = 0 THEN 0
        ELSE LET children == files[at[n - 1]].children
             IN  IF components[n] \in DOMAIN children THEN children[components[n]] ELSE 0
  IN  at[Len(components)]

Info(i) ==
  [inode |-> i, size |-> Len(files[i].bytes), create_time |-> files[i].create_time,
   mod_time |-> files[i].mod_time, is_directory |-> files[i].is_directory]

\* The names in their order: the n-th has n - 1 others before it.
InOrder(names) ==
  [n \in 1 .. Cardinality(names) |->
     CHOOSE name \in names : Cardinality({m \in names : m < name}) = n - 1]

\* What is in directory i, in the order of the names.
Listing(i) ==
  LET children == files[i].children
      names    == InOrder(DOMAIN children)
  IN  [n \in 1 .. Len(names) |-> [name |-> names[n], info |-> Info(children[names[n]])]]

\* From the offset on, at most size bytes, stopping at the end of the file.
Portion(bytes, offset, size) ==
  IF offset + size <= Len(bytes) THEN SubSeq(bytes, offset + 1, offset + size)
                                 ELSE SubSeq(bytes, offset + 1, Len(bytes))

\* What a call returns that fails.
Nothing == [ok |-> FALSE, info |-> NoInfo, bytes |-> <<>>, entries |-> <<>>]

\* The true answers to a call of the volume, a record [op, inode, path, offset,
\* size]: one, or none if what it names does not exist.  A read delivers as many
\* bytes as were asked for or as there are before the end of the file.
Truth(c) ==
  CASE c.op = "info" ->
         {[Nothing EXCEPT !.ok = TRUE, !.info = Info(i)] :
            i \in {c.inode} \intersect DOMAIN files}
    [] c.op = "path" ->
         {[Nothing EXCEPT !.ok = TRUE, !.info = Info(i)] :
            i \in {Resolve(Names(c.path))} \intersect DOMAIN files}
    [] c.op = "list" ->
         {[Nothing EXCEPT !.ok = TRUE, !.entries = Listing(i)] :
            i \in {j \in {c.inode} \intersect DOMAIN files : files[j].is_directory}}
    [] c.op = "read" ->
         {[Nothing EXCEPT !.ok = TRUE,
                          !.bytes = Portion(files[i].bytes, c.offset, c.size)] :
            i \in {j \in {c.inode} \intersect DOMAIN files : ~files[j].is_directory}}

Answers(c) == Truth(c) \union {Nothing}
=============================================================================
