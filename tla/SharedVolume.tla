---------------------------- MODULE SharedVolume ----------------------------
(***************************************************************************)
(* APFSVolume over the DiskReader it really has, for the threads of        *)
(* WinFsp's dispatcher: each block that Volume asks for is a seek and a    *)
(* ReadFile on the one handle, between which other threads run.  The disk  *)
(* was opened with FILE_SHARE_WRITE, so another process may rewrite the    *)
(* image under the volume, which keeps the root OID it was initialised     *)
(* with.                                                                   *)
(***************************************************************************)
EXTENDS Volume

CONSTANTS
  Rewrites,  \* what another process may make of the image
  Word,      \* 2^64
  DWord      \* 2^32

\* What is on a rewritten device is typed like any image, and widths are positive.
ASSUME RewritesAssumption == \A im \in Rewrites : IsImage(im)
ASSUME WidthAssumption == Word \in Nat \ {0} /\ DWord \in Nat \ {0}

VARIABLES handle_, disk_size_, filePos, device, pc, req, ret

disk == <<handle_, disk_size_, filePos, device, pc, req, ret>>
sharedVars == <<vars, disk>>

D == INSTANCE DiskReader WITH
       Requests <- [start : Nat, count : Nat, size : Nat],
       Sizes    <- Nat

\* The volume is initialised and its disk open.
SharedInit ==
  /\ Init
  /\ handle_ = "open"
  /\ disk_size_ = DeviceSize
  /\ device = DeviceSize
  /\ filePos = 0
  /\ pc = [t \in Threads |-> "idle"]
  /\ req = ask
  /\ ret = [t \in Threads |-> D!Failed]

\* A callback calls the volume.
Enter(t, c) ==
  /\ CallForInode(t, c) \/ ReadDirectory(t, c) \/ LookupPath(t, c)
  /\ UNCHANGED disk

\* Defect: the result of readBlock is not looked at.
BroughtAnyway(t) == [ret'[t] EXCEPT !.ok = TRUE]

\* What the volume's code is given once the read of a block has returned.
Brought(t) == ret'[t]

\* Volume's code takes the block as soon as the reader returns.
TakeIfReturned(t) ==
  IF pc'[t] = "idle" THEN Take(t, Brought(t)) ELSE UNCHANGED vars

\* readBlock is called for the block that t needs.
AskDisk(t) ==
  /\ stage[t] # "idle"
  /\ D!CallRead(t, ask[t])
  /\ TakeIfReturned(t)

SeekDisk(t) == D!Seek(t) /\ TakeIfReturned(t)

ReadDisk(t) == D!Read(t) /\ TakeIfReturned(t)

DiskError(t) == ~image.reliable /\ D!IOError(t) /\ TakeIfReturned(t)

\* Another process writes the blocks; what the volume has in memory stays.
Rewrite ==
  /\ \E im \in Rewrites : image' = [im EXCEPT !.root = image.root]
  /\ UNCHANGED <<stage, call, info, ask, out, disk>>

\* A step of t inside a call.
Continue(t) == AskDisk(t) \/ SeekDisk(t) \/ ReadDisk(t) \/ DiskError(t)

SharedNext ==
  \/ \E t \in Threads : Continue(t) \/ \E c \in Calls : Enter(t, c)
  \/ Rewrite

SharedSpec == SharedInit /\ [][SharedNext]_sharedVars

-----------------------------------------------------------------------------
\* The volume still has the image it was initialised with.
Original == image \in Images

\* Every call that has succeeded has been told the truth about the files.
AnswersAreTrue ==
  Original => \A t \in Threads :
                stage[t] = "idle" /\ out[t].ok => out[t] \in FS!Truth(call[t])

\* The calls are ones that Volume alone answers with the truth.
OrdinaryCalls ==
  \A c \in Calls :
    /\ c.op # "list"
    /\ c.op = "read" => c.size <= BlockSize
    /\ c.op = "path" => IsRootPath(c.path) \/ Components(c.path) # <<>>

\* A device's size fits 64 bits, and a block's a DWORD.
DeviceFits == BlockSize < DWord /\ \A im \in Images : im.count * BlockSize < Word

\* What another process writes makes the image a different one.
WritesShow ==
  \A im \in Rewrites, old \in Images :
    [im EXCEPT !.root = old.root] \in Images => [im EXCEPT !.root = old.root] = old

\* A lock around the two Windows calls of readBytes is all that two threads in
\* getFileInfo, lookupPath and readFile lack: if no seek comes between another
\* thread's seek and its read, and nobody writes the image, every answer that
\* one call alone would get right is true.
RightUnderALock == [](D!Exclusive /\ Original) => []AnswersAreTrue

\* How many steps t's call has left at most: three for every block.
StepsLeft(t) ==
  3 * (CASE stage[t] = "inode" -> 3 [] stage[t] = "extent" -> 2
         [] stage[t] = "data" -> 1 [] stage[t] = "idle" -> 0)
  - (CASE pc[t] = "idle" -> 0 [] pc[t] = "seek" -> 1 [] pc[t] = "read" -> 2)

\* Whatever it is given for a node, no search goes back to a block: each step of
\* a thread inside a call leaves it fewer steps, and no other thread adds any.
CallsAdvance ==
  [][\A t \in Threads :
       stage[t] # "idle" =>
         \/ StepsLeft(t)' < StepsLeft(t)
         \/ UNCHANGED <<stage[t], pc[t], call[t]>>]_sharedVars
=============================================================================
