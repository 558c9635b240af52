------------------------- MODULE DiskReaderHistory -------------------------
(***************************************************************************)
(* DiskReader with a history variable that tells which reads have had the  *)
(* file position moved under them, and what the reader promises in those   *)
(* terms: it is an atomic block device but for the reads it misplaces.     *)
(*                                                                         *)
(* moved[t] is only ever written: it forbids no step of DiskReader.        *)
(***************************************************************************)
EXTENDS DiskReader

VARIABLE
  moved      \* moved[t]: another thread moved filePos since t's seek

historyVars == <<vars, moved>>

\* While t waits between its two Windows calls, any move is another thread's.
Watch ==
  moved' = [t \in Threads |-> /\ pc[t] = "read" /\ pc'[t] = "read"
                              /\ moved[t] \/ filePos' # filePos]

OpenH          == Open /\ Watch
OpenFailsH     == OpenFails /\ Watch
CloseH         == Close /\ Watch
ShrinkH        == Shrink /\ Watch
CallReadH(t,r) == CallRead(t, r) /\ Watch
SeekH(t)       == Seek(t) /\ Watch
ReadH(t)       == Read(t) /\ Watch
IOErrorH(t)    == IOError(t) /\ Watch

InitH == Init /\ moved = [t \in Threads |-> FALSE]

NextH ==
  \/ OpenH \/ OpenFailsH \/ CloseH \/ ShrinkH
  \/ \E t \in Threads :
       \/ \E r \in Requests : CallReadH(t, r)
       \/ SeekH(t) \/ ReadH(t) \/ IOErrorH(t)

SpecH == InitH /\ [][NextH]_historyVars

-----------------------------------------------------------------------------
\* t is answered with the bytes at a position that is not where its caller's
\* blocks are: their product wrapped, or another thread's seek or ReadFile came
\* between t's seek and t's ReadFile.
Misplaced(t) ==
  /\ phase[t] = "busy"
  /\ Wraps(req[t]) \/ moved[t]
  /\ phase' = [phase EXCEPT ![t] = "idle"]
  /\ ret' = [ret EXCEPT ![t] = [ok |-> TRUE, from |-> filePos, len |-> Total(req[t])]]
  /\ UNCHANGED req

\* The handle, its position and the two Windows calls of a read are one atomic
\* block device, but for the two ways in which an answer is misplaced: whatever
\* the threads do, a call whose position nobody moved answers as promised.
ImplementsBlockDevice ==
  BD!Init /\ [][BD!Next \/ \E t \in Threads : Misplaced(t)]_(BD!vars)
=============================================================================
