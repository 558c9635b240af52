------------------------------ MODULE WinFspOps ------------------------------
(***************************************************************************)
(* The callbacks of WinFspAPFS (src/winfsp/winfsp_ops.cpp), run by the     *)
(* threads of WinFsp's dispatcher, over a volume that answers as Volume    *)
(* does: with the truth, with a failure, or with one of its known untrue   *)
(* answers.  A callback that needs the volume is two steps, up to its      *)
(* call of the volume and from the volume's answer to its end; between     *)
(* them other threads run.  What they share are the FileContext objects.   *)
(*                                                                         *)
(* WinFsp is external: a context is given back to the callbacks of the     *)
(* handle that it was returned for, until Close, which comes when no other *)
(* callback uses the handle.                                               *)
(***************************************************************************)
EXTENDS Files

CONSTANTS
  Threads,        \* WinFsp's dispatcher
  Places,         \* addresses a FileContext may have, positive numbers
  Requests,       \* records [op, path, handle, offset, length, marker]
  Contents,       \* values of files
  Blocks,         \* apfs_total_blocks_alloced
  BlockSize,      \* the container's block size
  Untrue,         \* the calls of the volume whose answers may be untrue
  DeviceBytes,    \* what bytes from another place on the device may be
  Word,           \* 2^64, for sizes
  AllocationUnit, \* 4096, which fillFileInfo rounds to
  NsPerSecond,    \* 1000000000
  WindowsTick,    \* WINDOWS_TICK, units of a FILETIME in a second
  SecToUnixEpoch  \* SEC_TO_UNIX_EPOCH

\* The callbacks on a name and on a handle; GetVolumeInfo has neither.
NameOps == {"GetSecurityByName", "Open"}
HandleOps == {"Close", "Read", "ReadDirectory", "GetFileInfo"}

ASSUME PlacesAssumption == Places \subseteq Nat \ {0}
ASSUME RequestsAssumption ==
  /\ Requests \subseteq [op : {"GetVolumeInfo"} \union NameOps \union HandleOps,
                        path : Seq(Nat), handle : Places \union {0},
                        offset : Nat, length : Nat, marker : Nat]
  /\ \A r \in Requests : (r.op \in HandleOps <=> r.handle # 0)

\* WinFsp passes no name of slashes only, but the root's.
ASSUME PathsAssumption ==
  \A r \in Requests : Range(r.path) \subseteq {Slash} => r.path \in {<<>>, <<Slash>>}

\* A volume is a finite tree: its directories name files that are there.
ASSUME ContentsAssumption ==
  \A f \in Contents :
    /\ DOMAIN f \subseteq Nat \ {0}
    /\ \A i \in DOMAIN f :
         /\ f[i].is_directory \in BOOLEAN
         /\ f[i].create_time \in Nat /\ f[i].mod_time \in Nat
         /\ f[i].bytes \in Seq(Nat)
         /\ DOMAIN f[i].children \subseteq Nat /\ IsFiniteSet(DOMAIN f[i].children)
         /\ \A name \in DOMAIN f[i].children : f[i].children[name] \in DOMAIN f
ASSUME SizeAssumption == Blocks \in Nat /\ BlockSize \in Nat \ {0}
ASSUME UntrueAssumption == Untrue \subseteq {"list", "read"} /\ DeviceBytes \subseteq Nat
ASSUME UnitAssumption ==
  /\ AllocationUnit \in Nat \ {0} /\ Word \in Nat \ {0} /\ Word % AllocationUnit = 0
ASSUME TimeAssumption ==
  /\ NsPerSecond \in Nat \ {0} /\ WindowsTick \in Nat \ {0} /\ SecToUnixEpoch \in Nat
  /\ NsPerSecond % WindowsTick = 0

VARIABLES
  call,     \* call[t]: the call of the volume that t waits for
  context,  \* the FileContext at each address
  serving,  \* serving[t]: the callback t is in, with its arguments
  reply     \* reply[t]: what t's last callback returned

\* getVolumeSize
VolumeSize == (Blocks * BlockSize) % Word

vars == <<files, call, context, serving, reply>>

D == INSTANCE Drive WITH
  Handles        <- Places,
  handles        <- [p \in Places |-> {context[p].inode} \ {0}],
  TotalSize      <- Blocks * BlockSize,
  NsPerTick      <- NsPerSecond \div WindowsTick,
  TicksPerSecond <- WindowsTick,
  EpochSeconds   <- SecToUnixEpoch

NoRequest == D!NoRequest
NoReply == D!NoReply

\* An address without a FileContext, which is no inode's.
Free == [inode |-> 0, is_directory |-> FALSE, size |-> 0]

NoCall == [op |-> "none", inode |-> 0, path |-> <<>>, offset |-> 0, size |-> 0]

-----------------------------------------------------------------------------
(* fillFileInfo                                                            *)

\* Defect: the size is rounded up past a multiple of the unit.
NextUnit(size) == (size + AllocationUnit - (size % AllocationUnit)) % Word

\* (size + 4095) & ~4095 in 64 bits
RoundUp(size) ==
  LET sum == (size + AllocationUnit - 1) % Word
  IN  sum - (sum % AllocationUnit)

\* Defect: the time is left to count from 1970.
FileTimeSince1970(ns) == (ns \div NsPerSecond) * WindowsTick

\* Whole seconds of APFS's nanoseconds, in ticks since 1601.
FileTime(ns) == (ns \div NsPerSecond) * WindowsTick + SecToUnixEpoch * WindowsTick

FillFileInfo(info) ==
  [is_directory   |-> info.is_directory,
   FileSize       |-> info.size,
   AllocationSize |-> RoundUp(info.size),
   CreationTime   |-> FileTime(info.create_time),
   LastWriteTime  |-> FileTime(info.mod_time),
   IndexNumber    |-> info.inode]

-----------------------------------------------------------------------------
(* What the volume answers.                                                *)

\* A read of several blocks, which readFile reads from another place.
SeveralBlocks(c, bytes) ==
  (Len(bytes) + (c.offset % BlockSize) + BlockSize - 1) \div BlockSize > 1

\* Of a read of several blocks as many bytes as there should be, but others; of
\* every directory no entry.
UntrueAnswers(c) ==
  CASE c.op \notin Untrue -> {}
    [] c.op \in Untrue /\ c.op = "read" ->
         UNION {{[r EXCEPT !.bytes = elsewhere] :
                   elsewhere \in [DOMAIN r.bytes -> DeviceBytes]} :
                  r \in {true \in Truth(c) : SeveralBlocks(c, true.bytes)}}
    [] c.op \in Untrue /\ c.op = "list" -> {[Nothing EXCEPT !.ok = TRUE]}

VolumeAnswers(c) == Answers(c) \union UntrueAnswers(c)

-----------------------------------------------------------------------------
\* A callback is under way on the handle.
InUse(p) == \E t \in Threads : serving[t].handle = p

Closing(p) == \E t \in Threads : serving[t].op = "Close" /\ serving[t].handle = p

Opening == {t \in Threads : serving[t].op = "Open"}

FreePlaces == {p \in Places : context[p] = Free}

Init ==
  /\ files \in Contents
  /\ call = [t \in Threads |-> NoCall]
  /\ context = [p \in Places |-> Free]
  /\ serving = [t \in Threads |-> NoRequest]
  /\ reply = [t \in Threads |-> NoReply]

\* A handle's callbacks come between its Open and its Close, and its Close when
\* they are over.  Places bounds the handles that are open at a time.
MayBegin(r) ==
  /\ r.handle # 0 => context[r.handle] # Free /\ ~Closing(r.handle)
  /\ r.op = "Close" => ~InUse(r.handle)
  /\ r.op = "Open" => Cardinality(FreePlaces) > Cardinality(Opening)

\* WinFsp calls a callback on thread t.
Begin(t, r) ==
  /\ serving[t] = NoRequest
  /\ MayBegin(r)
  /\ serving' = [serving EXCEPT ![t] = r]
  /\ reply' = [reply EXCEPT ![t] = NoReply]
  /\ UNCHANGED <<files, call, context>>

\* The callback returns r.
Return(t, r) ==
  /\ serving' = [serving EXCEPT ![t] = NoRequest]
  /\ reply' = [reply EXCEPT ![t] = r]

ReturnStatus(t, status) == Return(t, [NoReply EXCEPT !.status = status])

\* t is in the callback op, and has not called the volume yet.
Serves(t, op) == serving[t].op = op /\ call[t] = NoCall

\* The callback calls the volume, and goes on once the volume has answered (with
\* one of VolumeAnswers(call[t])).
Calls(t, volume_call) ==
  /\ call' = [call EXCEPT ![t] = volume_call]
  /\ UNCHANGED <<files, context, serving, reply>>

Continues(t, op) ==
  /\ serving[t].op = op /\ call[t] # NoCall
  /\ call' = [call EXCEPT ![t] = NoCall]
  /\ UNCHANGED files

Context(t) == context[serving[t].handle]

GetVolumeInfo(t) ==
  /\ Serves(t, "GetVolumeInfo")
  /\ Return(t, [NoReply EXCEPT !.status = "SUCCESS", !.total = VolumeSize])
  /\ UNCHANGED <<files, call, context>>

\* Both begin with lookupPath.
CallLookupPath(t) ==
  /\ Serves(t, "GetSecurityByName") \/ Serves(t, "Open")
  /\ Calls(t, [NoCall EXCEPT !.op = "path", !.path = serving[t].path])

GetSecurityByName(t) ==
  /\ Continues(t, "GetSecurityByName")
  /\ \E answer \in VolumeAnswers(call[t]) :
       IF answer.ok
         THEN Return(t, [NoReply EXCEPT !.status = "SUCCESS",
                           !.info.is_directory = answer.info.is_directory])
         ELSE ReturnStatus(t, "OBJECT_NAME_NOT_FOUND")
  /\ UNCHANGED context

NewContext(info) ==
  [inode |-> info.inode, is_directory |-> info.is_directory, size |-> info.size]

\* Defect: the FileContext is allocated before the lookup, and kept if it fails.
OpenKeepsContext(t) ==
  /\ Continues(t, "Open")
  /\ \E answer \in VolumeAnswers(call[t]), p \in FreePlaces :
       /\ context' = [context EXCEPT ![p] =
                        IF answer.ok THEN NewContext(answer.info)
                                     ELSE [Free EXCEPT !.inode = RootInode]]
       /\ IF answer.ok
            THEN Return(t, [NoReply EXCEPT !.status = "SUCCESS", !.handle = p,
                              !.info = FillFileInfo(answer.info)])
            ELSE ReturnStatus(t, "OBJECT_NAME_NOT_FOUND")

\* Open allocates a FileContext once the path has been found.
Open(t) ==
  /\ Continues(t, "Open")
  /\ \E answer \in VolumeAnswers(call[t]) :
       IF answer.ok
         THEN \E p \in FreePlaces :
                /\ context' = [context EXCEPT ![p] = NewContext(answer.info)]
                /\ Return(t, [NoReply EXCEPT !.status = "SUCCESS", !.handle = p,
                                !.info = FillFileInfo(answer.info)])
         ELSE ReturnStatus(t, "OBJECT_NAME_NOT_FOUND") /\ UNCHANGED context

Close(t) ==
  /\ Serves(t, "Close")
  /\ context' = [context EXCEPT ![serving[t].handle] = Free]
  /\ ReturnStatus(t, "SUCCESS")
  /\ UNCHANGED <<files, call>>

\* Read and ReadDirectory test what kind of file the context is for.
RefuseRead(t) ==
  /\ Serves(t, "Read") /\ Context(t).is_directory
  /\ ReturnStatus(t, "INVALID_DEVICE_REQUEST")
  /\ UNCHANGED <<files, call, context>>

CallReadFile(t) ==
  /\ Serves(t, "Read") /\ ~Context(t).is_directory
  /\ Calls(t, [op |-> "read", inode |-> Context(t).inode, path |-> <<>>,
               offset |-> serving[t].offset, size |-> serving[t].length])

Read(t) ==
  /\ Continues(t, "Read")
  /\ \E answer \in VolumeAnswers(call[t]) :
       IF answer.ok
         THEN Return(t, [NoReply EXCEPT !.status = "SUCCESS", !.bytes = answer.bytes])
         ELSE ReturnStatus(t, "UNSUCCESSFUL")
  /\ UNCHANGED context

RefuseReadDirectory(t) ==
  /\ Serves(t, "ReadDirectory") /\ ~Context(t).is_directory
  /\ ReturnStatus(t, "NOT_A_DIRECTORY")
  /\ UNCHANGED <<files, call, context>>

CallReadDirectory(t) ==
  /\ Serves(t, "ReadDirectory") /\ Context(t).is_directory
  /\ Calls(t, [NoCall EXCEPT !.op = "list", !.inode = Context(t).inode])

\* Defect: Size is set, but to that of a DirInfo with no name.
SizeWithoutName == 1

\* DirInfo.Size, in entries: the initializer's 0, which ReadDirectory leaves.
DirInfoSize == 0

\* A DirInfo has a file's attributes; the name that was converted for it is not
\* put into it, and the one it has is empty.
DirInfo(entry) == [name |-> 0, info |-> FillFileInfo(entry.info)]

\* FspFileSystemAddDirInfo appends the first Size bytes of a DirInfo, and says
\* that the buffer is full when they do not fit; the marker is ignored.
Transferred(entries, room) ==
  LET count == IF DirInfoSize = 0 THEN 0 ELSE Min({room \div DirInfoSize, Len(entries)})
  IN  [n \in 1 .. count |-> DirInfo(entries[n])]

ReadDirectory(t) ==
  /\ Continues(t, "ReadDirectory")
  /\ \E answer \in VolumeAnswers(call[t]) :
       IF answer.ok
         THEN Return(t, [NoReply EXCEPT !.status = "SUCCESS",
                           !.entries = Transferred(answer.entries, serving[t].length)])
         ELSE ReturnStatus(t, "UNSUCCESSFUL")
  /\ UNCHANGED context

CallGetFileInfo(t) ==
  /\ Serves(t, "GetFileInfo")
  /\ Calls(t, [NoCall EXCEPT !.op = "info", !.inode = Context(t).inode])

GetFileInfo(t) ==
  /\ Continues(t, "GetFileInfo")
  /\ \E answer \in VolumeAnswers(call[t]) :
       IF answer.ok
         THEN Return(t, [NoReply EXCEPT !.status = "SUCCESS", !.info = FillFileInfo(answer.info)])
         ELSE ReturnStatus(t, "UNSUCCESSFUL")
  /\ UNCHANGED context

Step(t) ==
  \/ GetVolumeInfo(t)
  \/ CallLookupPath(t) \/ GetSecurityByName(t) \/ Open(t) \/ Close(t)
  \/ RefuseRead(t) \/ CallReadFile(t) \/ Read(t)
  \/ RefuseReadDirectory(t) \/ CallReadDirectory(t) \/ ReadDirectory(t)
  \/ CallGetFileInfo(t) \/ GetFileInfo(t)

Next == \E t \in Threads : Step(t) \/ \E r \in Requests : Begin(t, r)

Spec == Init /\ [][Next]_vars
-----------------------------------------------------------------------------
(* Properties                                                              *)

Attributes ==
  [is_directory : BOOLEAN, FileSize : Nat, AllocationSize : 0 .. Word - 1,
   CreationTime : Nat, LastWriteTime : Nat, IndexNumber : Nat]

Statuses ==
  {"none", "SUCCESS", "UNSUCCESSFUL", "OBJECT_NAME_NOT_FOUND", "NOT_A_DIRECTORY",
   "INVALID_DEVICE_REQUEST"}

Replies ==
  [status : Statuses, info : Attributes, handle : Places \union {0},
   bytes : Seq(Nat), entries : Seq([name : Nat, info : Attributes]),
   total : 0 .. Word - 1]

\* Everything has its type; a FileContext says of its file what the volume says
\* of it (winfsp_ops.cpp:171-174), and every callback on a handle finds the
\* context there until it returns (winfsp_ops.cpp:190): Read and ReadDirectory
\* trust what it says.
TypeOK ==
  /\ \A t \in Threads : call[t] # NoCall => serving[t] # NoRequest
  /\ serving \in [Threads -> Requests \union {NoRequest}]
  /\ reply \in [Threads -> Replies]
  /\ \A p \in Places :
       context[p] # Free =>
         /\ context[p].inode \in DOMAIN files
         /\ context[p].is_directory = files[context[p].inode].is_directory
         /\ context[p].size = Len(files[context[p].inode].bytes)
  /\ \A t \in Threads : serving[t].handle # 0 => context[serving[t].handle] # Free

\* t's listing succeeds without an entry.
ListsNothing(t) ==
  /\ D!Reply(t, "ReadDirectory", [NoReply EXCEPT !.status = "SUCCESS"])
  /\ Context(t).is_directory /\ UNCHANGED context

\* t's read of several blocks succeeds, with as many bytes as there should be.
ReadsElsewhere(t) ==
  /\ serving[t].op = "Read" /\ "read" \in Untrue
  /\ ~Context(t).is_directory /\ UNCHANGED context
  /\ LET bytes == Portion(files[Context(t).inode].bytes, serving[t].offset, serving[t].length)
     IN  /\ SeveralBlocks(serving[t], bytes)
         /\ \E elsewhere \in [DOMAIN bytes -> DeviceBytes] :
              D!Reply(t, "Read", [NoReply EXCEPT !.status = "SUCCESS", !.bytes = elsewhere])

\* The callbacks show a true drive (Drive.tla), except that listings are empty
\* and that a read of several blocks may bring other bytes: whatever callbacks are
\* under way on other handles, or on the same one, a handle is the file it was
\* opened for until its Close, what else is read or told through it is that
\* file's, times and space are reported without overflow wherever 64 bits can
\* say them, and a callback that fails leaves no FileContext behind
\* (winfsp_ops.cpp:110-309).
ImplementsDrive ==
  D!Init /\ [][D!Next \/ \E t \in Threads : ListsNothing(t) \/ ReadsElsewhere(t)]_(D!vars)

\* A listing that succeeds, with room for an entry, of a directory that has one
\* left shows one (QUICKSTART.md:193, "Read files and folders").
ListsDirectories ==
  [][\A t \in Threads :
       /\ serving[t].op = "ReadDirectory" /\ reply'[t].status = "SUCCESS"
       /\ serving[t].length > 0
       /\ D!After(Listing(Context(t).inode), serving[t].marker) # <<>>
       => reply'[t].entries # <<>>]_vars
=============================================================================
