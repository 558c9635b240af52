# Models and proofs of WAMount

TLA+ models of WAMount, a read-only APFS file system for Windows built on
WinFsp. The models are translated from the C++ sources; TLC checks them on
small instances and TLAPS proves the main results for every value of the
constants. `PROJECT.json` lists the runs, what each definition models (file and
lines), the hazards in the code, the findings and the theorems.

Run a model with `tlc -config DiskReader.cfg MCDiskReader.tla` and check
a proof with `tlapm DiskReaderProofs.tla`. The sources do not compile exactly
as they stand (some types are used before they are declared, and `FileContext`
is both a type and a parameter in the callbacks); the models take the meaning
the code clearly intends there.

## The system

    main ── owns ──> DiskReader <── APFSContainer <── APFSVolume <── WinFspAPFS
      │                  ▲  one handle,   │ weak_ptr      │ BTree (root node)   ▲
      │                  └─ one position ─┴── readBlock ──┘                     │
      └── g_mounted_fs ──> signalHandler (own thread)      WinFsp dispatcher threads

| Component | State | Operations | What is hard |
|---|---|---|---|
| `DiskReader` | handle, size at open, and the handle's file position kept by Windows | open, close, readBlock(s), readBytes | a read is a seek and a `ReadFile`; all dispatcher threads share the position and no lock is taken; 64-bit products; the image may be truncated by others |
| `APFSContainer` | superblock, block size, object map block, cache of volumes | init, getVolume, readBlock | a volume's init fails at four points after the cache was resized; unchecked superblock fields, a read longer than its buffer |
| `APFSVolume` | volume superblock, object map block, root tree | init, getFileInfo, readDirectory, lookupPath, readFile | three dependent block reads per file read, six Windows calls that other threads come between; offsets, ends of files, extents; an image that is rewritten |
| `BTree` | root OID | lookup, lookupRange, searchNode, getKeyValue, compareKeys | only the root is searched; ranges are always empty |
| `WinFspAPFS` | `file_system_`, mount point, `FileContext` objects | mount, unmount, seven callbacks | callbacks run on several threads; mount and unmount share `file_system_` with no lock |
| `main`, `signalHandler` | locals, `g_mounted_fs` | startup, wait, shutdown | the handler runs on its own thread and may run at any time after it is registered |
| `Logger`, build files | - | - | nothing to model |

What makes each component correct:

* **DiskReader** - a read that succeeds delivers the bytes that were asked for;
  no read succeeds past the end of the disk; a closed reader has no size.
* **Container** - a volume is served only if its superblock, object map and root
  tree were read; a failed volume is not cached; a cached one is not replaced.
* **Volume, BTree** - a call is answered by the truth about the files of the
  image or by a failure, never by something else; what is there is found.
* **Mount lifecycle** - no call on a file system that is not there; a failed
  startup leaves nothing behind; exit status 0 means unmounted; callbacks see
  live objects; Ctrl+C ends the process.
* **Callbacks** - a `FileContext` is used between its Open and its Close only;
  what is reported about a file agrees with what is read from it; a directory
  that has files lists them.

## The modules

| Module | What it is |
|---|---|
| `BlockDevice` | Abstract: a read is asked for and answered, with exactly the bytes meant or a failure. No position, nothing shared. |
| `DiskReader` | `disk_reader.cpp`. `CallRead` is the entry of readBlock(s) and the checks of readBytes, `Seek` and `Read` its two Windows calls, `IOError` their failures; `Open`, `OpenFails`, `Close`; `Shrink` is another process truncating the image. `pc[t]` is where thread t stands, `filePos` the position all threads share. |
| `DiskReaderHistory` | `DiskReader` with a history variable, `moved[t]`: another thread moved the position between t's seek and t's `ReadFile`. In its terms the reader is a `BlockDevice` but for the answers it names. |
| `MCDiskReader` | Requests for TLC. |
| `DiskReaderProofs` | Theorems about `DiskReader`. |
| `ServedDrive` | Abstract: a drive that appears once, serves requests, and vanishes only when none is being served. |
| `MountLifecycle` | `main.cpp`, and mount, unmount and the destructor of `winfsp_ops.cpp`. Each use of `file_system_` is a step of main's thread or the handler's (`pc`); a callback is a pair of steps of a dispatcher thread. The history variable `early` says whether the handler was started before main slept. |
| `MountLifecycleProofs` | Theorems about `MountLifecycle`. |
| `Files` | Operators on the files of a volume: paths, listings, parts of a file, and `Answers`, the answers to a call of the volume that are true or a failure. |
| `FileStore` | Abstract: what the callbacks expect of a volume. Every call is answered by one of its `Answers`. |
| `BTree` | `btree.cpp`: the search of one node, and compareKeys. Operators only. |
| `Volume` | `volume.cpp` after init: getFileInfo, lookupPath, readDirectory and readFile. `stage[t]` names the block thread t waits for, `ask[t]` the read as the container passes it on; a `Take` action runs the code from the answer to the next read or the return. |
| `MCVolume` | Images and calls for TLC; that the images are `Sound`. |
| `VolumeProofs` | Theorems about `Volume`. |
| `SharedVolume` | `Volume` composed with `DiskReader`: each block a volume call asks for is a seek and a `ReadFile` of the one handle, with other threads in between, on an image another process may rewrite. |
| `SharedVolumeHistory` | `SharedVolume` with a history variable, `torn[t]`: another thread came between a seek and a `ReadFile` of t's call, or the image was rewritten during it. |
| `MCSharedVolume` | Two versions of an image, and calls; that the hypotheses of `RightUnderALock` hold of them. |
| `SharedVolumeProofs` | Theorems about `SharedVolume`. |
| `VolumeCatalog` | Abstract: a slot asked for gives its volume or nothing, the same object for good once it was given; a failure leaves no trace. |
| `Container` | `container.cpp`, and `APFSVolume::init` of `volume.cpp`. `step` names the block the code waits for; every read has a size, a buffer and a structure that is copied out of it. |
| `MCContainer` | Small containers. |
| `ContainerProofs` | Theorems about `Container`. |
| `Drive` | Abstract: what a user of the mounted drive counts on. A handle is one file from open to close; what is read, listed (names and attributes) or told through it is true; a request that fails leaves nothing. |
| `WinFspOps` | The callbacks of `winfsp_ops.cpp`, over a volume that answers as `Volume` does: with one of its `Answers`, or, for the calls in `Untrue`, with the empty listings and the bytes from elsewhere that `KnownDivergence` allows. Names of slashes only are not among its requests (`PathsAssumption`). A callback is a step up to its call of the volume and one from the answer to its return. |
| `MCWinFspOps` | A tree of files and the requests for TLC. |
| `WinFspOpsProofs` | Theorems about `WinFspOps`. |

They stack up: `DiskReader` implements `BlockDevice` but for the reads that wrap
or that another thread overtakes; `Volume` runs over `BlockDevice` and implements
`FileStore` (with exceptions it names); `WinFspOps` runs over what `FileStore`
promises and what `Volume` delivers instead, and implements `Drive` (with two
exceptions); `SharedVolume` puts the real reader under the volume and shows what
the missing lock costs; `MountLifecycle` surrounds the callbacks, and `Container`
is how main comes by the volume.

Three conventions hold everywhere. A byte of a device or a file is named by its
offset on the device, so a buffer is where its bytes came from and "the right
bytes" is an equation between offsets. A definition under a comment that begins
with *Defect* is not part of any specification: it is a plausible mistake, used
to see that the properties notice it. A use of an object or a WinFsp file system
that is not there has no defined outcome; `MountLifecycle` stops in `exit =
"fault"` at it.

### How state and actions correspond to the code

`DiskReader`: `handle_` and `disk_size_` are the members; `pc[t] = "seek"`
stands before `SetFilePointerEx` (disk_reader.cpp:101), `"read"` before
`ReadFile` (108). `Word` and `DWord` stand for 2^64 and 2^32. The size open()
finds is the size of the device at that moment.

`MountLifecycle`: the labels of `pc["main"]` follow main.cpp from top to bottom
and then mount(): `create`, `context`, `point`, `start`, with `undo` and
`undone` for its failures; `unmount`, `stop`, `join`, `delete`, `forget` are the
steps of unmount(), run by the handler or by `~WinFspAPFS` (main); `destroy` and
`release` are main's return. The Windows C runtime runs a SIGINT handler on a
new thread, after setting SIGINT back to its default: `CtrlC`.

`Volume`: an image has a number of blocks, the nodes among them, the OID of the
root and whether every block can be read. A node's value is a record with what
each structure it may be cast to would read in it (`Values`). `Records`,
`FilesIn` and what they use are the reference: they walk the whole tree, which
the code does not. `info[t]` is readFile's local `FileInfo`. A `FileInfo` that
nobody filled holds one of `Garbage`.

`SharedVolume`: `Enter` is a callback's call, `AskDisk`, `SeekDisk`, `ReadDisk`
and `DiskError` are the steps of `DiskReader` for the block in `ask[t]`, and the
volume's code runs in the step in which the reader returns (`TakeIfReturned`).
What the code finds in the block is what lies at the place the bytes came from.
`Rewrite` changes `image` and leaves the root OID, which the `BTree` object
keeps.

`Container`: `superblock_`, `block_size_` and `volumes_` are the members, `heap`
the `APFSVolume` objects, 0 a null pointer; `volume` and `index` are getVolume's
while it loads one. The tests at the top of a function that reads a block belong
to the step before the read. A read or a copy past the end of a buffer is
undefined: it faults (`Fault`) or goes on with what lies behind the buffer
(`Garbage`). A block is read where the product of its number and the block size,
modulo 2^64, points (`Offset`). The object maps are read and forgotten, as the
code does.

`WinFspOps`: `context[p]` is the `FileContext` at address p, `call[t]` the call
of the volume that thread t waits for. WinFsp is external: it gives a context
back to the callbacks of the handle it was returned for, calls Close last and
when no other callback uses the handle, and appends the first `DirInfo.Size`
bytes of an entry to a listing's buffer until they do not fit. ReadDirectory leaves
`Size` 0 and the name empty (`DirInfoSize`, `DirInfo`), so nothing is appended. The
room of a listing is counted in entries.

## What TLC checks

| Run | Instance | Result |
|---|---|---|
| `disk` | two threads; reads inside, across and past the end, of a block and of several, that wrap, that a DWORD cannot say; sizes 4 and 8, truncation at any time | `DiskReader` implements `BlockDevice` but for reads that wrap or are overtaken; no successful read has bytes the device lacks (`NoPhantomBytes`); if seeks and reads do not interleave reads are right (`RightWhenExclusive`) |
| `disk_race` | two threads, no request that wraps | **violated**: a read delivers another thread's bytes |
| `disk_wrap` | one thread, one block at a time | **violated**: block 9 of 2 bytes, in a word of 16 values, passes the bound check of a disk of 4 bytes and is read from byte 2 |
| `mount` | three workers, Ctrl+C at any time | a failed startup leaves nothing and Ctrl+C ends the process, whenever it comes; the other properties of `MountLifecycle`, the refinement of `ServedDrive` among them, unless it comes before main sleeps |
| `mount_early_fault` | two workers, the same | **violated**: `FspFileSystemCreate` fails, main destroys the `WinFspAPFS` object, and the handler calls unmount() on it through `g_mounted_fs` |
| `volume` | images with one and two levels, with and without unreadable blocks; inode queries, paths, a listing, reads of 1 to 7 bytes at 0 to 7 | `Volume` implements `FileStore` but for three kinds of calls; the count of bytes is exact at every boundary; every call returns; one-node trees are served |
| `volume_shared` | two threads, inode queries and reads, an image that is swapped for an older one and back | a call that no other thread and no writer came into tells the truth about the image as it is (`TrueUnlessTorn`); with a lock around seek and read every answer that one call alone would get right is true (`RightUnderALock`); no call loops, whatever it is given (`CallsAdvance`) |
| `volume_wide` | reads of several blocks | **violated**: the bytes come from another place |
| `volume_inside` | reads inside one block, inside an extent | **violated**: they fail |
| `container` | block sizes 0, 1, 2, 4 and 8 against structures of 1 and 2; slots with good volumes, broken ones, none, and ones whose OIDs wrap onto another block; a device that is too short, blocks that may fail to be read; any sequence of getVolume | `Container` implements `VolumeCatalog` but for volumes found by an OID that wraps; a volume that is there is served whatever failed before |
| `callbacks` | two dispatcher threads, two files open, a tree with two directories and files of 5 and 13 bytes, a volume with its known untrue answers | `WinFspOps` implements `Drive`, but for listings and for reads of several blocks |
| `callbacks_listing` | one thread, a volume that answers every call truly | **violated**: the listing of a directory with files shows none |

Each violated run checks one sentence of the repository's documents, comments or
messages against the code; `findings` in `PROJECT.json` quotes it.

**Exceptions.** A refinement that holds but for known cases names them, and they
are as narrow as the code allows.

* `Misplaced` of `DiskReaderHistory`: a read succeeds with the bytes at the
  position it finds, if its products wrapped or if `moved[t]`. `disk_wrap` and
  `disk_race` show the two.
* `KnownDivergence` of `Volume`: the answer to a read of several blocks
  (`volume_wide`), to a listing (lookupRange is a stub that succeeds with no
  entries, btree.cpp:156, so every directory is listed as empty and no path but
  the root's is found), and to the lookup of a path of slashes only, which
  succeeds with a `FileInfo` nobody filled (volume.cpp:265).
* `FindsWrapped` of `Container`: OIDs are not checked, and one whose product with
  the block size wraps onto a volume's block gives that volume.
  `ImplementsCatalog` also leaves out containers whose block size is smaller than
  the structures (`WellFormed`): there the copies pass their buffers.
* `ListsNothing` of `WinFspOps`: a listing succeeds without entries, whatever the
  volume has answered (`callbacks_listing`). `ReadsElsewhere`: what `Volume` does to
  a read of several blocks reaches the user, in the right number of bytes.
* `early` of `MountLifecycle`: the handler is registered before anything is
  mounted. One that runs before main sleeps may use the object that main has
  destroyed (`mount_early_fault`), race with mount() for `file_system_` and hand
  WinFsp a file system that the other has deleted (a step longer, and the same
  property), or find nothing to unmount and exit with 0 while main mounts the drive.

**Bounds.** *Threads*: the race needs two; workers in `MountLifecycle` share
nothing but the set they are in, and two already make "one still serving" differ
from "none". *Requests*: starts, counts and sizes put the end of a read before,
at and behind the end of the device, the length of a read at what a DWORD cannot
say, and products below, at and above what a word can say, whose remainders lie
inside the device and outside. *Images* of `Volume`: files of
0, 3 and 6 bytes in blocks of 2 give a partial last block, several extents out
of order on the device, and an empty file; the two-level image has separator
keys equal to record keys. A read passes the end of the longest file by more than
a block. *One thread in the volume run*: over an atomic device calls share
nothing; `volume_shared` has two over the shared position, each with at most
three blocks to read, so that every pair of their steps meets. *Container*: three
slots where the code has 100 and an index beyond them, three objects, sizes on
both sides of each structure's, a word of 8 bits onto which two of the OIDs and an
object map's wrap. *Callbacks*: two threads and two handles give
every overlap of two callbacks on one handle and on two, and an address that is
used again; reads lie inside the first block, across its end and in the second;
with words of 4 bits the size 13 is one that cannot be rounded up,
and the times have a part of a second that is cut.

**Deadlock** is checked in every run but `container`: there a failed init() ends
the program, and a fault has no next step. In `MountLifecycle` a process that
has ended stutters (`Ended`).

**Fairness.** `CtrlCEndsProcess` and `CallsReturn` need it. A thread of the
process that can run is scheduled (`WF_vars(Main)`, `WF_vars(Handler)`), and a
callback that has begun returns (`WF_vars(EndCallback(w))`). The last is not
taken on trust: a callback waits for nothing but its call of the volume, and
`CallsReturn` shows that such a call returns if the device answers each read, by
a failure if by nothing else (`WF_vars(Resume(t))`); `CallsAdvance` says the
same for two threads as a measure that every step of a call lowers. A process
that faulted or was killed has ended too, for `CtrlCEndsProcess`; that it has
not faulted, unless the handler was early, is what `NoFaultUnlessEarly` says. No
fairness is assumed of Ctrl+C, of new requests or of the choice between success
and failure.

## What is proved

**DiskReader**, for any threads, requests, device sizes and word widths, from
the assumptions named in the module. `TypeCorrect` carries with it that a closed
reader has no size. `NoReadInventsBytes` holds because `Read` compares the count
with the size at the position it reads from, under any interleaving.
`BlockDeviceRefinement` needs no hypothesis either: `MineUnlessMoved` - a thread
about to read finds the position where its own seek put it, or `moved[t]` - is
an invariant, and each step is one of `BlockDevice`'s, shows nothing, or is
`Misplaced`. `ExclusiveReadsAreRight` is about executions where `[]Exclusive`:
then `PositionMine`, the same without the exception, is preserved, and with it
the right bytes; `SerialReadsAreRight` is the case of one thread.
`ReadsWhatWasAsked` speaks of reads whose products do not wrap. Nothing is said
of the bound check with products that do: `disk_wrap` shows that it fails.

**MountLifecycle**, for any set of dispatcher threads. Whenever Ctrl+C is
pressed, `TypeCorrect` and `FailureUndoesMount` hold; their invariant, `AnyInv`,
keeps what the race between mount() and unmount() cannot break: WinFsp's file
system is never alive behind a null `file_system_`, it is created once, and only
a main that sleeps has a dispatcher. The rest holds until a handler is started
early (`early`; `mount_early_fault` shows that the exception is needed): the
invariant is `early \/ IInv`, and `early` stays. The properties are not
inductive: that `unmount()` finds a usable file system depends on how far main
got. The invariant `IInv` therefore adds `Built` (what exists at each of main's
labels), `MainPart` (`file_system_` agrees with the label; nothing of the
handler or the dispatcher exists before the mount) and `HandlerPart` (how far
unmount() is says what is left; the handler runs once). `NoFaultOnceMounted`,
`ExitZeroUnmounts` and `CallbacksAreSafe` follow from it, and with it each step
is one of `ServedDrive`'s or shows nothing (`DriveRefinement`).

**Container**, for any device, sizes of structures and requests. `IInv` says
that `superblock_` and `block_size_` are what the device says once init() has
read them (`Opened`), that the volume getVolume loads is the one its slot names,
in no slot of `volumes_` yet (`Loading`) and true to the device once its
superblock is read (`SuperblockTrue`), and that `volumes_` holds initialised
volumes only, each once (`Stored`). `CatalogRefinement` and
`SoundVolumesAreServed` need nothing else: what lies on the device is
unrestricted, OIDs that wrap included. That a block which is read by an OID that
does not wrap is on the device is `ReadIsThere`.

**Volume**, for any threads, calls, images and block size. `TypeCorrect` makes no
assumption about the image: lookup() finds one of the node's values or nothing,
and a read that has gone past its inode is inside its file. The other three
theorems assume `AllSound`: every image is `Sound` - a key names one record,
extended fields lie inside their value, extents are of whole blocks of the device
and do not overlap, and no value above the leaves is large enough for an inode or
an extent. That is a format's promise, and the code counts on it; the images of
the runs are sound (`SoundImages`, which TLC evaluates), those of two levels too.
`IInv` adds `Knows`: what thread t has read so far - that the FileInfo in `info`
is the inode in the root that its call is about, and the request for data that of
the extent at the call's offset. The lemmas beneath it are about the search: the
node's search finds a value of the key and finds one if there is any
(`SearchFinds`, from `EqualKeys`: compareKeys gives 0 for equal keys and only for
them), what it finds describes the file (`FoundInode`, `FoundExtent`), and the
scan of the extended fields finds the stream (`StreamFound`). Each step is then
one of `FileStore`'s, shows nothing, or is a `KnownDivergence`
(`FileStoreRefinement`). `volume_wide` shows that this exception is needed, and
`volume_inside` that `OneNodeTreesAreServed` says no more than is so.

**SharedVolume**, for any threads, images and rewritten images.
`CallsAlwaysAdvance` assumes nothing about the bytes: whatever the reader brings,
each step of a call goes on to the next block or ends. `LockMakesAnswersTrue` and
`LockMakesReadsAtomic` are about executions in which no two threads are between
seek and `ReadFile` and the image stays: then the reader brings what the atomic
device may answer (`BroughtIsAnswer`, from `LockInv`: the position is where the
thread's own seek put it, the request is the one its call made), so each step is
one of `Volume`'s, and what is proved of `Volume` applies. They assume, besides
`AllSound`, `OrdinaryCalls` (no call is of the kinds Volume alone gets wrong),
`DeviceFits` (the device's size fits 64 bits, a block's a DWORD) and `WritesShow`
(a write makes the image a different one; otherwise the formula's hypothesis
would not exclude it). The instance of `volume_shared` meets all of them
(`LockHypotheses`, which TLC evaluates). That `Exclusive` is needed is what
`disk_race` shows of the reader itself.

**WinFspOps**, for any files, requests, threads and addresses. `RoundUpCovers` and
`FileTimeTells` are the arithmetic of fillFileInfo for every size and time. `IInv`
says that a context that is in use is of the inode its handle was opened for
(`ContextTrue`), that a callback in progress calls the volume with what its
context and its request say (`CallFits`), and that Close overlaps no other
callback on its handle (`ClosesAlone`, WinFsp's promise). From it follow
`TypeCorrect` and, if the volume's size fits 64 bits, `DriveRefinement`, whatever
`Untrue` is: each step is one of `Drive`'s, shows nothing, is a listing without
entries (`ListsNothing`) or a read of several blocks (`ReadsElsewhere`).

**Assumptions.** The modules name what the proofs need of the constants, and TLC
evaluates all of it in the runs: what is read from a device or passed by WinFsp
is typed (`ImagesAssumption`, `CallsAssumption`, `RequestsAssumption`, ...),
widths and block sizes are positive, the files of `WinFspOps` are a tree whose
entries name files that are there (`ContentsAssumption`).

**Two definitions** have the form they have because of the prover, for which the
library's filtering of sequences is opaque: `Names` of `Files` treats a path of
slashes by itself, and `Volume` walks the reference tree level by level, three at
most, instead of recursively.

**Only model-checked:** the two liveness properties, `CtrlCEndsProcess` and
`CallsReturn`: liveness under fairness is beyond the prover. `CallsAlwaysAdvance`
is the part of `CallsReturn` that is safety. `TrueUnlessTorn` is model-checked only,
too. Every other property of a run that passes is the subject of a theorem.

## What is left out

* The object maps: the code reads them and never consults them; every OID is a
  block number. Nothing depends on their content.
* The encoding of nodes: a key is the sequence of its fields and a table of
  contents lists keys and values themselves, not where their bytes are. A node
  whose table points outside of it is not an input of the model.
* Inode numbers wider than the 60 bits a key has for them.
* A `FileInfo`'s mode and parent only pass through, and its name is part of a
  listing only.
* `Marker`, with which WinFsp continues a listing: ReadDirectory ignores it, which
  no one sees as long as listings are empty.
* In every run of the program, the first read of readSuperblock writes 4096
  bytes into a buffer of `sizeof(nx_superblock_t)`, which is less: `Container`
  has the fault as one outcome and going on as the other. No property is about it, or
  about block sizes that are smaller than the structures copied out of a block.
* The backslashes of the names WinFsp passes. lookupPath splits at `/` only, so
  that every such name but the empty one is a single component and is not found;
  the models take paths with slashes, as the code reads them.
* `FileContext` objects of files that are open at unmount are not deleted; the
  process ends there.
* The main program's single call of getVolume is one of those that `Container`
  allows; the model has any sequence, as the class does.
* The command line: a sequential loop. The `-r` that src/README.md:113 documents
  is an unknown option to main.cpp:79-82.
* Exceptions of string conversion inside callbacks, logging, and the text of
  messages.

## Plan

1. *Done:* `DiskReader`, `MountLifecycle`, their abstractions and proofs; `BTree`
   and `Volume` over an atomic device; `SharedVolume`; `Container` with
   `VolumeCatalog`; `WinFspOps` with `Drive`.
2. *Done:* proofs of every safety and action property and every refinement that a
   passing run checks, but `TrueUnlessTorn`.
3. Next: one theorem about the callbacks over the volume (`FileStore` is what one
   implements and the other assumes); `TrueUnlessTorn` for every image, from
   `MineUnlessMoved` and `Volume`'s `Knows`, kept for the calls that are not torn; a
   theorem that says of `Volume` on trees of several levels what is never found.
