------------------------ MODULE SharedVolumeHistory ------------------------
(***************************************************************************)
(* SharedVolume with a history variable that tells which calls have had    *)
(* the file position moved under one of their reads, or the image          *)
(* rewritten while they were under way, and what the volume promises to    *)
(* the others.                                                             *)
(*                                                                         *)
(* torn[t] is only ever written: it forbids no step of SharedVolume.       *)
(***************************************************************************)
EXTENDS SharedVolume

VARIABLE
  torn       \* torn[t]: something came into t's call

historyVars == <<sharedVars, torn>>

\* While t waits between its two Windows calls, any move is another thread's.
Watch ==
  torn' = [t \in Threads |->
             /\ stage[t] # "idle"
             /\ \/ torn[t]
                \/ image' # image
                \/ pc[t] = "read" /\ pc'[t] = "read" /\ filePos' # filePos]

EnterH(t, c)  == Enter(t, c) /\ Watch
AskDiskH(t)   == AskDisk(t) /\ Watch
SeekDiskH(t)  == SeekDisk(t) /\ Watch
ReadDiskH(t)  == ReadDisk(t) /\ Watch
DiskErrorH(t) == DiskError(t) /\ Watch
RewriteH      == Rewrite /\ Watch

InitH == SharedInit /\ torn = [t \in Threads |-> FALSE]

NextH ==
  \/ \E t \in Threads :
       \/ \E c \in Calls : EnterH(t, c)
       \/ AskDiskH(t) \/ SeekDiskH(t) \/ ReadDiskH(t) \/ DiskErrorH(t)
  \/ RewriteH

SpecH == InitH /\ [][NextH]_historyVars

-----------------------------------------------------------------------------
\* The files of each image that may be on the device, as its root's OID finds them.
FilesSeen ==
  [im \in Images \union {[im EXCEPT !.root = old.root] : im \in Rewrites, old \in Images} |->
     [i \in {r.key[1] : r \in {s \in Records(im) : s.key[2] = TypeInode}} |->
        FileIn(im, i)]]

Seen == INSTANCE Files WITH files <- FilesSeen[image]

\* A race or a writer spoils only the calls it comes into: a call that returns
\* true, and in which no position was moved between its seeks and its reads nor
\* the image rewritten, tells the truth about the image as it is now, whatever
\* other calls were given and whatever versions the device has had before
\* (volume.cpp:133-330 keep nothing of an answer from one call to the next).
TrueUnlessTorn ==
  [][\A t \in Threads :
       Returns(t) /\ out'[t].ok /\ ~torn'[t] => out'[t] \in Seen!Truth(call'[t])]_historyVars
=============================================================================
