----------------------------- MODULE DiskReader -----------------------------
(***************************************************************************)
(* DiskReader (src/utils/disk_reader.cpp): one Windows file handle, its    *)
(* size, and reads made of a seek followed by a ReadFile at the handle's   *)
(* current position.  The position belongs to the handle, so all threads   *)
(* share it; the class takes no lock.                                      *)
(*                                                                         *)
(* A byte of the device is identified with its offset, as in BlockDevice.  *)
(* Arithmetic on uint64_t is modulo Word and a DWORD is modulo DWord, the  *)
(* two scaled down for model checking.                                     *)
(***************************************************************************)
EXTENDS Naturals

CONSTANTS
  Threads,   \* threads that read: main, then the WinFsp dispatcher threads
  Requests,  \* records [start, count, size] given to readBlocks
  Sizes,     \* sizes a device may have
  Word,      \* 2^64: the range of uint64_t and size_t
  DWord      \* 2^32: the range of a DWORD

\* Widths are positive, and what is passed as a uint64_t is a natural number.
ASSUME WidthAssumption == Word \in Nat \ {0} /\ DWord \in Nat \ {0}
ASSUME RequestAssumption ==
  /\ Requests \subseteq [start : Nat, count : Nat, size : Nat]
  /\ Requests # {}
ASSUME SizeAssumption == Sizes \subseteq Nat

VARIABLES
  handle_,    \* "open" or INVALID_HANDLE_VALUE
  disk_size_, \* the size asked for once, by open()
  filePos,    \* the handle's file position, kept by Windows
  device,     \* the device's length now: open() shares it with writers
  pc,         \* pc[t]: "idle", or the next Windows call inside readBytes
  req,        \* req[t]: the arguments of t's current or last call
  ret         \* ret[t]: what t's last call returned and left in its buffer

vars == <<handle_, disk_size_, filePos, device, pc, req, ret>>

phase == [t \in Threads |-> IF pc[t] = "idle" THEN "idle" ELSE "busy"]

BD == INSTANCE BlockDevice

Failed == BD!Failed

-----------------------------------------------------------------------------
(* readBlocks turns blocks into bytes with 64-bit products.                *)

\* Defect: the block number is scaled by the whole transfer, not by one block.
OffsetOfTransfer(r) == (r.start * (r.count * r.size)) % Word

Offset(r) == (r.start * r.size) % Word

Total(r)  == (r.count * r.size) % Word

\* The bytes the caller means end where a uint64_t can no longer say it.
Wraps(r) == (r.start + r.count) * r.size >= Word

\* The two early returns of readBytes, the sum being 64 bits wide as well.
Refused(r) ==
  \/ handle_ = "INVALID"
  \/ (Offset(r) + Total(r)) % Word > disk_size_

\* SetFilePointerEx takes a signed offset and refuses a negative one.
Seekable(offset) == offset < Word \div 2

\* ReadFile is asked for the size cast to a DWORD and stops at the end of the
\* device as it is now.
BytesRead(size) ==
  LET asked == size % DWord
      left  == IF filePos < device THEN device - filePos ELSE 0
  IN  IF asked < left THEN asked ELSE left

Return(t, answer) ==
  /\ pc'  = [pc EXCEPT ![t] = "idle"]
  /\ ret' = [ret EXCEPT ![t] = answer]

-----------------------------------------------------------------------------
Init ==
  /\ handle_ = "INVALID"
  /\ disk_size_ = 0
  /\ filePos = 0
  /\ device = 0
  /\ pc = [t \in Threads |-> "idle"]
  /\ req \in [Threads -> Requests]
  /\ ret = [t \in Threads |-> Failed]

\* main opens the device before anything reads it and only a destructor closes
\* it, when its last user is gone: neither overlaps a read.
Quiet == \A t \in Threads : pc[t] = "idle"

\* open(): the handle of an earlier open() is closed first.  The size comes
\* from the disk geometry or, when that fails, from the file size.
Open ==
  /\ Quiet
  /\ \E s \in Sizes :
       /\ handle_' = "open"
       /\ disk_size_' = s
       /\ device' = s
       /\ filePos' = 0
  /\ UNCHANGED <<pc, req, ret>>

\* open() when CreateFileA fails: disk_size_ is reset only by the close() of
\* the handle that was open.
OpenFails ==
  /\ Quiet
  /\ handle_' = "INVALID"
  /\ disk_size_' = IF handle_ = "INVALID" THEN disk_size_ ELSE 0
  /\ device' = 0
  /\ UNCHANGED <<filePos, pc, req, ret>>

\* Defect: close() leaves the size of the device it closed.
CloseKeepsSize ==
  /\ Quiet
  /\ handle_ # "INVALID"
  /\ handle_' = "INVALID"
  /\ device' = 0
  /\ UNCHANGED <<disk_size_, filePos, pc, req, ret>>

\* close(), and open() when neither size query answers (it calls close()).
Close ==
  /\ Quiet
  /\ handle_ # "INVALID"
  /\ handle_' = "INVALID"
  /\ disk_size_' = 0
  /\ device' = 0
  /\ UNCHANGED <<filePos, pc, req, ret>>

\* Entry of readBlock and readBlocks, and the checks at the top of readBytes.
CallRead(t, r) ==
  /\ pc[t] = "idle"
  /\ req' = [req EXCEPT ![t] = r]
  /\ IF Refused(r)
       THEN Return(t, Failed)
       ELSE pc' = [pc EXCEPT ![t] = "seek"] /\ UNCHANGED ret
  /\ UNCHANGED <<handle_, disk_size_, filePos, device>>

\* Defect: a read at offset 0 takes the position to be there already.
SeekUnlessZero(t) ==
  /\ pc[t] = "seek"
  /\ Seekable(Offset(req[t]))
  /\ filePos' = IF Offset(req[t]) = 0 THEN filePos ELSE Offset(req[t])
  /\ pc' = [pc EXCEPT ![t] = "read"]
  /\ UNCHANGED <<handle_, disk_size_, device, req, ret>>

\* SetFilePointerEx moves the position every thread shares.
Seek(t) ==
  /\ pc[t] = "seek"
  /\ Seekable(Offset(req[t]))
  /\ filePos' = Offset(req[t])
  /\ pc' = [pc EXCEPT ![t] = "read"]
  /\ UNCHANGED <<handle_, disk_size_, device, req, ret>>

\* Defect: bytes_read is not compared with size.
ReadIgnoresCount(t) ==
  /\ pc[t] = "read"
  /\ filePos' = filePos + BytesRead(Total(req[t]))
  /\ Return(t, [ok |-> TRUE, from |-> filePos, len |-> Total(req[t])])
  /\ UNCHANGED <<handle_, disk_size_, device, req>>

\* ReadFile reads from wherever the position is and advances it; readBytes
\* succeeds only if every byte arrived.
Read(t) ==
  LET size == Total(req[t])
      n    == BytesRead(size)
  IN  /\ pc[t] = "read"
      /\ filePos' = filePos + n
      /\ Return(t, IF n = size THEN [ok |-> TRUE, from |-> filePos, len |-> size]
                               ELSE Failed)
      /\ UNCHANGED <<handle_, disk_size_, device, req>>

\* SetFilePointerEx or ReadFile reports an error: readBytes returns false.
IOError(t) ==
  /\ pc[t] \in {"seek", "read"}
  /\ Return(t, Failed)
  /\ UNCHANGED <<handle_, disk_size_, filePos, device, req>>

\* FILE_SHARE_WRITE: whoever else has the image open may truncate it.
Shrink ==
  /\ handle_ = "open"
  /\ \E s \in 0 .. device : device' = s
  /\ UNCHANGED <<handle_, disk_size_, filePos, pc, req, ret>>

Step(t) ==
  \/ \E r \in Requests : CallRead(t, r)
  \/ Seek(t)
  \/ Read(t)
  \/ IOError(t)

Next ==
  \/ Open
  \/ OpenFails
  \/ Close
  \/ Shrink
  \/ \E t \in Threads : Step(t)

Spec == Init /\ [][Next]_vars

-----------------------------------------------------------------------------
\* Every variable keeps its type; a handle that is not open has no size.
TypeOK ==
  /\ handle_ \in {"INVALID", "open"}
  /\ disk_size_ \in Nat
  /\ filePos \in Nat
  /\ device \in Nat
  /\ pc \in [Threads -> {"idle", "seek", "read"}]
  /\ req \in [Threads -> Requests]
  /\ ret \in [Threads -> [ok : BOOLEAN, from : Nat, len : Nat]]
  /\ handle_ = "INVALID" => disk_size_ = 0 /\ device = 0

\* A read that returned true left in the caller's buffer the bytes at the
\* blocks the caller named (readBlock, readBlocks, readBytes), if the place of
\* those blocks can be said in 64 bits.
ReadsWhatWasAsked ==
  \A t \in Threads :
    pc[t] = "idle" /\ ret[t].ok /\ ~Wraps(req[t]) => ret[t] = BD!Asked(req[t])

\* At most one thread is between its SetFilePointerEx and its ReadFile.  The
\* class does nothing to make it so: its users would have to.
Exclusive ==
  \A t, u \in Threads : pc[t] = "read" /\ pc[u] = "read" => t = u

\* Wrapped products apart, the lack of a lock in readBytes is the only thing
\* that can make a read deliver the wrong bytes: if seeks and reads never
\* interleave, none does.
RightWhenExclusive == []Exclusive => []ReadsWhatWasAsked

\* t's ReadFile succeeds and readBytes returns true in this step.
Succeeds(t) == pc[t] = "read" /\ pc'[t] = "idle" /\ ret'[t].ok

\* disk_size_ is stale once the device shrinks and the bound check of
\* readBytes then lets reads through that it should not; the count returned by
\* ReadFile still keeps any call from reporting bytes the device does not have.
NoPhantomBytes ==
  [][\A t \in Threads :
       Succeeds(t) /\ ret'[t].len > 0 =>
         ret'[t].from + ret'[t].len <= device]_vars

\* What the bound check of readBytes says it refuses ("Read beyond disk size"):
\* no call succeeds whose blocks lie past the size the disk had at open().
RefusesBeyondDisk ==
  [][\A t \in Threads :
       Succeeds(t) => (req[t].start + req[t].count) * req[t].size <= disk_size_]_vars
=============================================================================
