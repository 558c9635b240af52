-------------------------------- MODULE Drive --------------------------------
(***************************************************************************)
(* What a user of the mounted drive counts on: a handle is one file from   *)
(* the open that gave it to the close that ends it; what is read, listed   *)
(* or told through it is the truth about that file; a request that fails   *)
(* leaves nothing behind.                                                  *)
(***************************************************************************)
EXTENDS Files

CONSTANTS
  Threads,        \* WinFsp's dispatcher
  Handles,        \* positive numbers
  Requests,       \* records [op, path, handle, offset, length, marker]
  TotalSize,      \* the size of the volume
  Word,           \* 2^64
  AllocationUnit, \* what space on the drive is counted in
  NsPerTick,      \* nanoseconds in one unit of a FILETIME
  TicksPerSecond,
  EpochSeconds    \* from the beginning of FILETIMEs to that of APFS times

VARIABLES
  handles,  \* handles[h]: the inode that is open at h, at most one
  serving,  \* serving[t]: the request t serves
  reply     \* reply[t]: what t's last request gave; nothing yet while it is served

vars == <<files, handles, serving, reply>>

NoRequest ==
  [op |-> "none", path |-> <<>>, handle |-> 0, offset |-> 0, length |-> 0, marker |-> 0]

NoAttributes ==
  [is_directory |-> FALSE, FileSize |-> 0, AllocationSize |-> 0, CreationTime |-> 0,
   LastWriteTime |-> 0, IndexNumber |-> 0]

NoReply ==
  [status |-> "none", info |-> NoAttributes, handle |-> 0, bytes |-> <<>>,
   entries |-> <<>>, total |-> 0]

\* The space a file takes is the least multiple of the unit that holds it, as
\* long as there is one that 64 bits can say.
Covers(allocated, size) ==
  size <= Word - AllocationUnit =>
    /\ allocated % AllocationUnit = 0
    /\ size <= allocated /\ allocated < size + AllocationUnit

\* The reported time is at most a second before the true one.
Tells(time, ns) ==
  LET true == ns \div NsPerTick + EpochSeconds * TicksPerSecond
  IN  time <= true /\ true < time + TicksPerSecond

\* a is a fair description of a file of which the volume says info.
Describes(a, info) ==
  /\ a.is_directory = info.is_directory
  /\ a.FileSize = info.size
  /\ a.IndexNumber = info.inode
  /\ Covers(a.AllocationSize, info.size)
  /\ Tells(a.CreationTime, info.create_time)
  /\ Tells(a.LastWriteTime, info.mod_time)

\* What a listing has left after the entry that marker names, 0 for none.
After(listing, marker) ==
  IF marker = 0 THEN listing ELSE SelectSeq(listing, LAMBDA e : e.name > marker)

-----------------------------------------------------------------------------
Init ==
  /\ handles = [h \in Handles |-> {}]
  /\ serving = [t \in Threads |-> NoRequest]
  /\ reply = [t \in Threads |-> NoReply]

Begin(t, r) ==
  /\ serving[t] = NoRequest
  /\ r.handle # 0 => handles[r.handle] # {}
  /\ serving' = [serving EXCEPT ![t] = r]
  /\ reply' = [reply EXCEPT ![t] = NoReply]
  /\ UNCHANGED <<files, handles>>

\* t's request, an op, is over and its reply is r.
Reply(t, op, r) ==
  /\ serving[t].op = op
  /\ serving' = [serving EXCEPT ![t] = NoRequest]
  /\ reply' = [reply EXCEPT ![t] = r]
  /\ UNCHANGED files

Succeeds(t, op) ==
  reply'[t].status = "SUCCESS" /\ Reply(t, op, reply'[t])

Fail(t) ==
  /\ serving[t] # NoRequest
  /\ reply'[t].status # "SUCCESS"
  /\ Reply(t, serving[t].op, reply'[t])
  /\ UNCHANGED handles

\* A name leads to a file, whose description is given.
FileAt(t) == Resolve(Names(serving[t].path))

GetSecurityByName(t) ==
  /\ Succeeds(t, "GetSecurityByName")
  /\ FileAt(t) \in DOMAIN files
  /\ reply'[t].info.is_directory = files[FileAt(t)].is_directory
  /\ UNCHANGED handles

Open(t) ==
  /\ Succeeds(t, "Open")
  /\ FileAt(t) \in DOMAIN files
  /\ Describes(reply'[t].info, Info(FileAt(t)))
  /\ handles[reply'[t].handle] = {}
  /\ handles' = [handles EXCEPT ![reply'[t].handle] = {FileAt(t)}]

Close(t) ==
  /\ Succeeds(t, "Close")
  /\ handles' = [handles EXCEPT ![serving[t].handle] = {}]

\* The file that t's handle is.
Read(t) ==
  /\ Succeeds(t, "Read")
  /\ \E i \in handles[serving[t].handle] :
       /\ ~files[i].is_directory
       /\ reply'[t].bytes = Portion(files[i].bytes, serving[t].offset, serving[t].length)
  /\ UNCHANGED handles

\* As many entries, with their names, as the buffer has room for.
ReadDirectory(t) ==
  /\ Succeeds(t, "ReadDirectory")
  /\ \E i \in handles[serving[t].handle] :
       /\ files[i].is_directory
       /\ LET entries == After(Listing(i), serving[t].marker)
          IN  /\ Len(reply'[t].entries) = Min({serving[t].length, Len(entries)})
              /\ \A n \in DOMAIN reply'[t].entries :
                   /\ reply'[t].entries[n].name = entries[n].name
                   /\ Describes(reply'[t].entries[n].info, entries[n].info)
  /\ UNCHANGED handles

GetFileInfo(t) ==
  /\ Succeeds(t, "GetFileInfo")
  /\ \E i \in handles[serving[t].handle] : Describes(reply'[t].info, Info(i))
  /\ UNCHANGED handles

GetVolumeInfo(t) ==
  /\ Succeeds(t, "GetVolumeInfo")
  /\ reply'[t].total = TotalSize
  /\ UNCHANGED handles

Next ==
  \E t \in Threads :
    \/ \E r \in Requests : Begin(t, r)
    \/ Fail(t)
    \/ GetSecurityByName(t) \/ Open(t) \/ Close(t) \/ Read(t)
    \/ ReadDirectory(t) \/ GetFileInfo(t) \/ GetVolumeInfo(t)
=============================================================================
