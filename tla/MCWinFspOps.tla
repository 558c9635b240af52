---------------------------- MODULE MCWinFspOps ----------------------------
(***************************************************************************)
(* WinFspOps on one tree, with its arithmetic scaled down: words of 4 bits *)
(* for sizes, allocation units of 4 bytes, and seconds of 6 nanoseconds    *)
(* and 3 ticks.                                                            *)
(***************************************************************************)
EXTENDS WinFspOps

File(size, created, modified) ==
  [is_directory |-> FALSE, create_time |-> created, mod_time |-> modified,
   bytes |-> [n \in 1 .. size |-> n], children |-> <<>>]

Directory(created, modified, children) ==
  [is_directory |-> TRUE, create_time |-> created, mod_time |-> modified,
   bytes |-> <<>>, children |-> children]

\* The root holds a file that does not fill its blocks, a file whose size cannot
\* be rounded up in a word, and an empty directory.
OneTree ==
  {(RootInode :> Directory(0, 17, (1 :> 5) @@ (2 :> 6) @@ (3 :> 7)))
     @@ (5 :> File(5, 7, 23)) @@ (6 :> File(13, 6, 11)) @@ (7 :> Directory(5, 12, <<>>))}

Request(op) ==
  [op |-> op, path |-> <<>>, handle |-> 0, offset |-> 0, length |-> 0, marker |-> 0]

OfName(op) ==
  {[Request(op) EXCEPT !.path = path] : path \in {<<0>>, <<0, 1>>, <<0, 2>>, <<0, 3>>, <<0, 4>>}}

OfHandle(op) == {[Request(op) EXCEPT !.handle = p] : p \in Places}

\* Reads inside the first block, across its end, and inside the second block, of
\* which the shorter file has one byte.
Reads ==
  {[r EXCEPT !.offset = part[1], !.length = part[2]] :
     r \in OfHandle("Read"), part \in {<<0, 2>>, <<3, 4>>, <<4, 4>>}}

\* Listings with room for two entries, from the start and continued, and for all.
Listings ==
  {[r EXCEPT !.length = part[1], !.marker = part[2]] :
     r \in OfHandle("ReadDirectory"), part \in {<<2, 0>>, <<2, 2>>, <<5, 0>>}}

SomeRequests ==
  {Request("GetVolumeInfo")}
    \union {[Request("GetSecurityByName") EXCEPT !.path = path] :
              path \in {<<0, 3>>, <<0, 4>>}}
    \union OfName("Open") \union OfHandle("Close") \union OfHandle("GetFileInfo")
    \union Reads \union Listings

\* Any two threads are interchangeable.
Symmetry == Permutations(Threads)
=============================================================================
