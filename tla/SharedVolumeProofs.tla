-------------------------- MODULE SharedVolumeProofs --------------------------
(***************************************************************************)
(* Proofs about SharedVolume, for any threads, calls, images, rewritten    *)
(* images, block size and widths.                                          *)
(***************************************************************************)
EXTENDS SharedVolume, VolumeProofs

-----------------------------------------------------------------------------
(* What holds whatever threads and other processes do to the reads.        *)

\* The reader's variables keep their types; a thread that is in the reader has
\* come there from inside a call.
ReaderOK ==
  /\ filePos \in Nat /\ device \in Nat
  /\ pc \in [Threads -> {"idle", "seek", "read"}]
  /\ req \in [Threads -> [start : Nat, count : Nat, size : Nat]]
  /\ ret \in [Threads -> [ok : BOOLEAN, from : Nat, len : Nat]]
  /\ \A t \in Threads : pc[t] # "idle" => stage[t] # "idle"

AnyInv == IsImage(image) /\ LocalsOK /\ ReaderOK

\* Offsets and lengths are natural numbers, wrapped or not.
LEMMA DiskArithmetic ==
  ASSUME NEW r \in [start : Nat, count : Nat, size : Nat]
  PROVE  D!Offset(r) \in Nat /\ D!Total(r) \in Nat
<1>1. r.start * r.size \in Nat /\ r.count * r.size \in Nat
  OBVIOUS
<1>2. ASSUME NEW n \in Nat PROVE n % Word \in Nat
  BY WidthAssumption
<1>3. QED
  BY <1>1, <1>2 DEF D!Offset, D!Total

\* A step of t in the reader leaves it between two Windows calls, or brings its
\* call an answer that is typed whatever its bytes.
LEMMA ReaderStep ==
  ASSUME AnyInv, NEW t \in Threads, Continue(t)
  PROVE  /\ stage[t] # "idle"
         /\ \E p \in {"idle", "seek", "read"} :
              /\ pc' = [pc EXCEPT ![t] = p] /\ pc'[t] = p
              /\ p = "idle" => Take(t, ret'[t])
              /\ p # "idle" =>
                   /\ UNCHANGED vars
                   /\ <<pc[t], p>> \in {<<"idle", "seek">>, <<"seek", "read">>}
         /\ filePos' \in Nat
         /\ req' \in [Threads -> [start : Nat, count : Nat, size : Nat]]
         /\ ret' \in [Threads -> [ok : BOOLEAN, from : Nat, len : Nat]]
         /\ ret'[t].from \in Nat
         /\ UNCHANGED <<handle_, disk_size_, device>>
<1> DEFINE Replies == [ok : BOOLEAN, from : Nat, len : Nat]
<1>1. D!Failed \in Replies
  BY DEF D!Failed, D!BD!Failed
<1>2. pc'[t] = "idle" => (TakeIfReturned(t) => Take(t, ret'[t]))
  BY DEF TakeIfReturned, Brought
<1>3. pc'[t] # "idle" => (TakeIfReturned(t) => UNCHANGED vars)
  BY DEF TakeIfReturned
<1>4. ask[t] \in [start : Nat, count : Nat, size : Nat]
  BY DEF AnyInv, LocalsOK
<1>5. ASSUME NEW answer \in Replies, D!Return(t, answer)
      PROVE  /\ pc' = [pc EXCEPT ![t] = "idle"] /\ pc'[t] = "idle"
             /\ ret' \in [Threads -> Replies] /\ ret'[t].from \in Nat
  BY <1>5 DEF D!Return, AnyInv, ReaderOK
<1>6. CASE AskDisk(t)
  <2>1. CASE D!Refused(ask[t])
    BY <1>1, <1>2, <1>4, <1>5, <1>6, <2>1 DEF AskDisk, D!CallRead, AnyInv, ReaderOK
  <2>2. CASE ~D!Refused(ask[t])
    BY <1>3, <1>4, <1>6, <2>2 DEF AskDisk, D!CallRead, AnyInv, ReaderOK
  <2>3. QED
    BY <2>1, <2>2
<1>7. CASE SeekDisk(t)
  <2>1. D!Offset(req[t]) \in Nat
    BY DiskArithmetic DEF AnyInv, ReaderOK
  <2>2. QED
    BY <1>3, <1>7, <2>1 DEF SeekDisk, D!Seek, AnyInv, ReaderOK
<1>8. CASE ReadDisk(t)
  <2> DEFINE size == D!Total(req[t])
             n    == D!BytesRead(size)
  <2>1. size \in Nat /\ filePos \in Nat /\ device \in Nat
    BY DiskArithmetic DEF AnyInv, ReaderOK
  <2>2. size % DWord \in Nat
    BY <2>1, WidthAssumption
  <2> HIDE DEF size
  <2>3. n \in Nat /\ filePos + n \in Nat
    BY <2>1, <2>2 DEF D!BytesRead
  <2> DEFINE answer == IF n = size THEN [ok |-> TRUE, from |-> filePos, len |-> size]
                                   ELSE D!Failed
  <2>4. answer \in Replies
    BY <1>1, <2>1
  <2>5. /\ pc[t] = "read" /\ filePos' = filePos + n /\ D!Return(t, answer)
        /\ UNCHANGED <<handle_, disk_size_, device, req>> /\ TakeIfReturned(t)
    BY <1>8 DEF ReadDisk, D!Read, size
  <2> HIDE DEF answer, n
  <2>6. QED
    BY <1>2, <1>5, <2>3, <2>4, <2>5 DEF AnyInv, ReaderOK
<1>9. CASE DiskError(t)
  BY <1>1, <1>2, <1>5, <1>9 DEF DiskError, D!IOError, AnyInv, ReaderOK
<1>10. QED
  BY <1>6, <1>7, <1>8, <1>9 DEF Continue

\* The volume's step that takes an answer ends its thread's call or goes on to the
\* next block, never back.
LEMMA TakeAdvances ==
  ASSUME LocalsOK, NEW t \in Threads, NEW a, Take(t, a)
  PROVE  /\ image' = image /\ call' = call
         /\ \E s : /\ stage' = [stage EXCEPT ![t] = s] /\ stage'[t] = s
                  /\ <<stage[t], s>> \in {<<"inode", "idle">>, <<"inode", "extent">>,
                                         <<"extent", "idle">>, <<"extent", "data">>,
                                         <<"data", "idle">>}
<1>1. image' = image /\ call' = call
  BY DEF Take, NoInode, ReturnInfo, ReadInode, NoExtent, ReadExtent, ReadData
<1>2. ASSUME NEW result, Return(t, result)
      PROVE  stage' = [stage EXCEPT ![t] = "idle"] /\ stage'[t] = "idle"
  BY <1>2 DEF Return, LocalsOK
<1>3. ASSUME NEW s, NEW request, NEW known, WaitFor(t, s, request, known)
      PROVE  stage' = [stage EXCEPT ![t] = s] /\ stage'[t] = s
  BY <1>3 DEF WaitFor, LocalsOK
<1>4. CASE NoInode(t, a) \/ ReturnInfo(t, a) \/ NoExtent(t, a) \/ ReadData(t, a)
  <2>1. \E result : Return(t, result)
    BY <1>4 DEF NoInode, ReturnInfo, NoExtent, ReadData
  <2>2. stage[t] \in {"inode", "extent", "data"}
    BY <1>4 DEF NoInode, ReturnInfo, NoExtent, ReadData
  <2>3. QED
    BY <1>1, <1>2, <2>1, <2>2
<1>5. CASE ReadInode(t, a)
  <2>1. /\ stage[t] = "inode"
        /\ \/ \E result : Return(t, result)
           \/ \E request, known : WaitFor(t, "extent", request, known)
    BY <1>5 DEF ReadInode
  <2>2. QED
    BY <1>1, <1>2, <1>3, <2>1
<1>6. CASE ReadExtent(t, a)
  <2>1. stage[t] = "extent" /\ \E request, known : WaitFor(t, "data", request, known)
    BY <1>6 DEF ReadExtent
  <2>2. QED
    BY <1>1, <1>3, <2>1
<1>7. QED
  BY <1>4, <1>5, <1>6 DEF Take

LEMMA InitAnyInv == ASSUME SharedInit PROVE AnyInv
<1>1. IsImage(image) /\ LocalsOK
  BY InitType, ImagesAssumption DEF SharedInit, Init, TypeOK
<1>2. DeviceSize \in Nat
  BY <1>1, BlockSizeAssumption DEF DeviceSize, IsImage
<1>3. D!Failed \in [ok : BOOLEAN, from : Nat, len : Nat]
  BY DEF D!Failed, D!BD!Failed
<1>4. QED
  BY <1>1, <1>2, <1>3 DEF SharedInit, AnyInv, ReaderOK, LocalsOK

\* The beginning of a call is a step of its thread alone.
LEMMA EnterIs ==
  ASSUME LocalsOK, NEW t \in Threads, NEW c \in Calls, Enter(t, c)
  PROVE  /\ stage[t] = "idle" /\ call' = [call EXCEPT ![t] = c] /\ image' = image
         /\ UNCHANGED disk
         /\ \A u \in Threads \ {t} : stage'[u] = stage[u] /\ out'[u] = out[u]
         /\ stage'[t] = "idle" => c.op \in {"list", "path"}
BY DEF Enter, CallForInode, ReadDirectory, LookupPath, Call, WaitFor, Return, LocalsOK

LEMMA StepAnyInv == ASSUME AnyInv, [SharedNext]_sharedVars PROVE AnyInv'
<1>1. ASSUME NEW t \in Threads, Continue(t) PROVE AnyInv'
  <2>1. PICK p \in {"idle", "seek", "read"} :
          /\ pc' = [pc EXCEPT ![t] = p] /\ pc'[t] = p
          /\ p = "idle" => Take(t, ret'[t])
          /\ p # "idle" => UNCHANGED vars
    BY <1>1, ReaderStep
  <2>2. /\ stage[t] # "idle" /\ filePos' \in Nat /\ ret'[t].from \in Nat /\ device' = device
        /\ req' \in [Threads -> [start : Nat, count : Nat, size : Nat]]
        /\ ret' \in [Threads -> [ok : BOOLEAN, from : Nat, len : Nat]]
    BY <1>1, ReaderStep
  <2>3. IsImage(image)' /\ LocalsOK'
    <3>1. CASE p = "idle"
      BY <2>1, <2>2, <3>1, TakeType, TakeAdvances DEF AnyInv, IsImage
    <3>2. CASE p # "idle"
      BY <2>1, <3>2 DEF AnyInv, vars, LocalsOK
    <3>3. QED
      BY <3>1, <3>2
  <2>4. \A u \in Threads : pc'[u] # "idle" => stage'[u] # "idle"
    <3>1. CASE p = "idle"
      <4>1. \A u \in Threads \ {t} : stage'[u] = stage[u] /\ pc'[u] = pc[u]
        <5>1. PICK s : stage' = [stage EXCEPT ![t] = s]
          BY <2>1, <3>1, TakeAdvances DEF AnyInv
        <5>2. \A u \in Threads \ {t} : stage'[u] = stage[u]
          BY <5>1 DEF AnyInv, LocalsOK
        <5>3. \A u \in Threads \ {t} : pc'[u] = pc[u]
          BY <2>1 DEF AnyInv, ReaderOK
        <5>4. QED
          BY <5>2, <5>3
      <4>2. QED
        BY <2>1, <3>1, <4>1 DEF AnyInv, ReaderOK
    <3>2. CASE p # "idle"
      BY <2>1, <2>2, <3>2 DEF AnyInv, ReaderOK, vars
    <3>3. QED
      BY <3>1, <3>2
  <2>5. QED
    BY <2>1, <2>2, <2>3, <2>4 DEF AnyInv, ReaderOK
<1>2. ASSUME NEW t \in Threads, NEW c \in Calls, Enter(t, c) PROVE AnyInv'
  <2>1. LocalsOK'
    BY <1>2, BeginType DEF Enter, AnyInv
  <2>2. QED
    BY <1>2, <2>1, EnterIs DEF AnyInv, ReaderOK, disk
<1>3. CASE Rewrite
  <2>1. PICK im \in Rewrites : image' = [im EXCEPT !.root = image.root]
    BY <1>3 DEF Rewrite
  <2>2. IsImage(image')
    BY <2>1, RewritesAssumption DEF IsImage, AnyInv
  <2>3. QED
    BY <1>3, <2>2 DEF Rewrite, AnyInv, LocalsOK, ReaderOK, disk
<1>4. CASE UNCHANGED sharedVars
  BY <1>4 DEF sharedVars, vars, disk, AnyInv, LocalsOK, ReaderOK
<1>5. QED
  BY <1>1, <1>2, <1>3, <1>4 DEF SharedNext

LEMMA AlwaysAnyInv == SharedSpec => []AnyInv
BY InitAnyInv, StepAnyInv, PTL DEF SharedSpec

\* Each step of a thread inside a call leaves it fewer steps, and no other thread,
\* and no writer, adds any: no search goes round, whatever it is given for a node.
THEOREM CallsAlwaysAdvance == SharedSpec => CallsAdvance
<1> DEFINE Advances(t) == \/ StepsLeft(t)' < StepsLeft(t)
                          \/ UNCHANGED <<stage[t], pc[t], call[t]>>
<1>1. ASSUME AnyInv, SharedNext, NEW t \in Threads, stage[t] # "idle" PROVE Advances(t)
  <2>1. ASSUME NEW u \in Threads, Continue(u) PROVE Advances(t)
    <3>1. PICK p \in {"idle", "seek", "read"} :
            /\ pc' = [pc EXCEPT ![u] = p] /\ pc'[u] = p
            /\ p = "idle" => Take(u, ret'[u])
            /\ p # "idle" => /\ UNCHANGED vars
                             /\ <<pc[u], p>> \in {<<"idle", "seek">>, <<"seek", "read">>}
      BY <1>1, <2>1, ReaderStep
    <3>2. CASE u # t
      <4>1. pc'[t] = pc[t]
        BY <3>1, <3>2 DEF AnyInv, ReaderOK
      <4>2. stage'[t] = stage[t] /\ call'[t] = call[t]
        BY <1>1, <3>1, <3>2, TakeAdvances DEF AnyInv, LocalsOK, vars
      <4>3. QED
        BY <4>1, <4>2
    <3>3. CASE u = t /\ p = "idle"
      BY <1>1, <3>1, <3>3, TakeAdvances DEF AnyInv, ReaderOK, StepsLeft
    <3>4. CASE u = t /\ p # "idle"
      BY <1>1, <3>1, <3>4 DEF AnyInv, LocalsOK, vars, StepsLeft
    <3>5. QED
      BY <3>2, <3>3, <3>4
  <2>2. ASSUME NEW u \in Threads, NEW c \in Calls, Enter(u, c) PROVE Advances(t)
    BY <1>1, <2>2, EnterIs DEF AnyInv, LocalsOK, disk
  <2>3. CASE Rewrite
    BY <2>3 DEF Rewrite, disk
  <2>4. QED
    BY <1>1, <2>1, <2>2, <2>3 DEF SharedNext
<1>2. AnyInv /\ [SharedNext]_sharedVars =>
        [\A t \in Threads : stage[t] # "idle" => Advances(t)]_sharedVars
  BY <1>1
<1>3. QED
  BY AlwaysAnyInv, <1>2, PTL DEF SharedSpec, CallsAdvance

-----------------------------------------------------------------------------
(* What holds when seeks and reads do not interleave.                      *)

\* Each thread in the reader reads what its call needs, at its own position.
LockInv ==
  /\ AnyInv /\ IInv
  /\ handle_ = "open" /\ disk_size_ = DeviceSize /\ device = DeviceSize
  /\ \A t \in Threads : pc[t] # "idle" => req[t] = ask[t]
  /\ \A t \in Threads : pc[t] = "read" => filePos = D!Offset(req[t])

\* A call's next request lies inside the device, and nothing of it wraps.
LEMMA AskFits ==
  ASSUME AllSound, OrdinaryCalls, DeviceFits, LockInv,
         NEW t \in Threads, stage[t] # "idle"
  PROVE  /\ D!Offset(ask[t]) = ask[t].start * ask[t].size
         /\ D!Total(ask[t]) = ask[t].count * ask[t].size
         /\ D!Offset(ask[t]) \in Nat /\ D!Total(ask[t]) \in Nat
         /\ D!Total(ask[t]) < DWord
         /\ D!Offset(ask[t]) + D!Total(ask[t]) <= DeviceSize
         /\ DeviceSize \in Nat /\ DeviceSize < Word
         /\ (ask[t].start + ask[t].count) * ask[t].size <= DeviceSize
<1>1. /\ image \in Images /\ IsImage(image) /\ DeviceSize \in Nat /\ DeviceSize < Word
  BY ImageFacts, BlockSizeAssumption DEF LockInv, IInv, DeviceSize, IsImage, DeviceFits
<1>2. /\ ask[t].count = 1 /\ ask[t].size \in {0, BlockSize}
      /\ (ask[t].start + ask[t].count) * ask[t].size <= DeviceSize
  <2>1. CASE stage[t] \in {"inode", "extent"}
    BY <2>1, NodeInside DEF LockInv
  <2>2. CASE stage[t] = "data"
    <3>1. call[t].size <= BlockSize
      BY <2>2 DEF LockInv, AnyInv, LocalsOK, OrdinaryCalls
    <3>2. QED
      BY <2>2, <3>1, DataInside, BlockSizeAssumption DEF LockInv
  <2>3. QED
    BY <2>1, <2>2 DEF LockInv, AnyInv, LocalsOK
<1>3. ask[t].start \in Nat /\ ask[t].size \in Nat
  BY DEF LockInv, AnyInv, LocalsOK
<1> DEFINE a == ask[t].start * ask[t].size
<1>4. /\ a \in Nat /\ ask[t].count * ask[t].size = ask[t].size
      /\ (ask[t].start + ask[t].count) * ask[t].size = a + ask[t].size
  <2>1. ASSUME NEW m \in Nat, NEW n \in Nat
        PROVE  m * n \in Nat /\ 1 * n = n /\ (m + 1) * n = m * n + n
    OBVIOUS
  <2>2. QED
    BY <1>2, <1>3, <2>1
<1> HIDE DEF a
<1>5. ASSUME NEW n \in Nat, n <= DeviceSize PROVE n % Word = n
  BY <1>1, <1>5, WidthAssumption
<1>6. a % Word = a /\ ask[t].size % Word = ask[t].size
  BY <1>1, <1>2, <1>3, <1>4, <1>5
<1>7. ask[t].size < DWord
  BY <1>2, BlockSizeAssumption, WidthAssumption DEF DeviceFits
<1>8. D!Offset(ask[t]) = a /\ D!Total(ask[t]) = ask[t].size
  BY <1>4, <1>6 DEF D!Offset, D!Total, a
<1>9. QED
  BY <1>1, <1>2, <1>3, <1>4, <1>7, <1>8 DEF a

\* What the reader brings a call is what an atomic device may answer.
LEMMA BroughtIsAnswer ==
  ASSUME AllSound, OrdinaryCalls, DeviceFits, LockInv,
         NEW t \in Threads, Continue(t), pc'[t] = "idle"
  PROVE  ret'[t] \in Answers(ask[t])
<1>1. stage[t] # "idle"
  BY ReaderStep DEF LockInv
<1> DEFINE offset == D!Offset(ask[t])
           size   == D!Total(ask[t])
<1>2. /\ offset = ask[t].start * ask[t].size /\ size = ask[t].count * ask[t].size
      /\ offset \in Nat /\ size \in Nat /\ size < DWord
      /\ offset + size <= DeviceSize /\ DeviceSize \in Nat /\ DeviceSize < Word
      /\ (ask[t].start + ask[t].count) * ask[t].size <= DeviceSize
  BY <1>1, AskFits
<1> HIDE DEF offset, size
<1>3. ASSUME NEW answer, D!Return(t, answer) PROVE ret'[t] = answer
  BY <1>3 DEF D!Return, LockInv, AnyInv, ReaderOK
<1>4. CASE AskDisk(t)
  <2>1. (offset + size) % Word = offset + size
    BY <1>2, WidthAssumption
  <2>2. ~D!Refused(ask[t])
    BY <1>2, <2>1 DEF D!Refused, LockInv, offset, size
  <2>3. pc'[t] = "seek"
    BY <1>4, <2>2 DEF AskDisk, D!CallRead, LockInv, AnyInv, ReaderOK
  <2>4. QED
    BY <2>3
<1>5. CASE SeekDisk(t)
  BY <1>5 DEF SeekDisk, D!Seek, LockInv, AnyInv, ReaderOK
<1>6. CASE ReadDisk(t)
  <2>1. pc[t] = "read"
    BY <1>6 DEF ReadDisk, D!Read
  <2>2. req[t] = ask[t] /\ filePos = offset /\ device = DeviceSize
    BY <2>1 DEF LockInv, offset
  <2>3. D!BytesRead(size) = size
    <3>1. size % DWord = size
      BY <1>2, WidthAssumption
    <3>2. QED
      BY <1>2, <2>2, <3>1 DEF D!BytesRead
  <2>4. D!Return(t, [ok |-> TRUE, from |-> filePos, len |-> size])
    BY <1>6, <2>2, <2>3 DEF ReadDisk, D!Read, size
  <2>5. ret'[t] = BD!Asked(ask[t])
    BY <1>2, <1>3, <2>2, <2>4 DEF BD!Asked
  <2>6. QED
    BY <1>2, <2>5 DEF Answers
<1>7. CASE DiskError(t)
  <2>1. ret'[t] = D!Failed /\ ~image.reliable
    BY <1>3, <1>7 DEF DiskError, D!IOError
  <2>2. D!Failed = BD!Failed
    BY DEF D!Failed, D!BD!Failed, BD!Failed
  <2>3. QED
    BY <2>1, <2>2 DEF Answers
<1>8. QED
  BY <1>4, <1>5, <1>6, <1>7 DEF Continue

\* So every step is one of Volume, whose device is atomic, or none of its own.
LEMMA StepIsVolumes ==
  ASSUME AllSound, OrdinaryCalls, DeviceFits, WritesShow, LockInv, Original',
         [SharedNext]_sharedVars
  PROVE  [Next]_vars
<1>1. ASSUME NEW t \in Threads, Continue(t) PROVE [Next]_vars
  <2>1. CASE pc'[t] = "idle"
    <3>1. stage[t] # "idle" /\ Take(t, ret'[t])
      BY <1>1, <2>1, ReaderStep DEF LockInv
    <3>2. Resume(t)
      BY <1>1, <2>1, <3>1, BroughtIsAnswer DEF Resume
    <3>3. QED
      BY <3>2 DEF Next
  <2>2. CASE pc'[t] # "idle"
    BY <1>1, <2>2, ReaderStep DEF LockInv
  <2>3. QED
    BY <2>1, <2>2
<1>2. ASSUME NEW t \in Threads, NEW c \in Calls, Enter(t, c) PROVE [Next]_vars
  BY <1>2 DEF Enter, Next
<1>3. CASE Rewrite
  <2>1. image \in Images /\ image' \in Images
    BY DEF LockInv, IInv, TypeOK, Original
  <2>2. image' = image
    BY <1>3, <2>1 DEF Rewrite, WritesShow
  <2>3. QED
    BY <1>3, <2>2 DEF Rewrite, vars
<1>4. QED
  BY <1>1, <1>2, <1>3 DEF SharedNext, sharedVars

LEMMA InitLockInv == ASSUME SharedInit PROVE LockInv
BY InitAnyInv, InitIInv DEF SharedInit, LockInv

LEMMA StepLockInv ==
  ASSUME AllSound, OrdinaryCalls, DeviceFits, WritesShow, LockInv,
         D!Exclusive, D!Exclusive', Original', [SharedNext]_sharedVars
  PROVE  LockInv'
<1>1. [Next]_vars /\ IInv' /\ AnyInv' /\ image' = image /\ DeviceSize' = DeviceSize
  BY StepIsVolumes, StepIInv, StepAnyInv, StepImage DEF LockInv, DeviceSize
<1>2. ASSUME NEW t \in Threads, Continue(t) PROVE LockInv'
  <2>1. PICK p \in {"idle", "seek", "read"} :
          /\ pc' = [pc EXCEPT ![t] = p] /\ pc'[t] = p
          /\ p = "idle" => Take(t, ret'[t])
          /\ p # "idle" => UNCHANGED vars
    BY <1>2, ReaderStep DEF LockInv
  <2>2. UNCHANGED <<handle_, disk_size_, device>>
    BY <1>2, ReaderStep DEF LockInv
  <2>3. ASSUME NEW u \in Threads \ {t} PROVE ask'[u] = ask[u] /\ req'[u] = req[u]
    <3>1. ask'[u] = ask[u]
      BY <2>1 DEF Take, NoInode, ReturnInfo, ReadInode, NoExtent, ReadExtent, ReadData,
         Return, WaitFor, LockInv, AnyInv, LocalsOK, vars
    <3>2. req'[u] = req[u]
      BY <1>2 DEF Continue, AskDisk, SeekDisk, ReadDisk, DiskError, D!CallRead, D!Seek,
         D!Read, D!IOError, LockInv, AnyInv, ReaderOK
    <3>3. QED
      BY <3>1, <3>2
  <2>4. pc'[t] # "idle" => req'[t] = ask'[t]
    <3>1. CASE AskDisk(t)
      BY <2>1, <3>1 DEF AskDisk, D!CallRead, LockInv, AnyInv, ReaderOK, vars
    <3>2. CASE SeekDisk(t)
      BY <2>1, <3>2 DEF SeekDisk, D!Seek, LockInv, vars
    <3>3. CASE ReadDisk(t) \/ DiskError(t)
      BY <3>3 DEF ReadDisk, DiskError, D!Read, D!IOError, D!Return, LockInv, AnyInv, ReaderOK
    <3>4. QED
      BY <1>2, <3>1, <3>2, <3>3 DEF Continue
  <2>5. ASSUME NEW u \in Threads, pc'[u] = "read" PROVE filePos' = D!Offset(req'[u])
    <3>1. CASE SeekDisk(t)
      <4>1. pc'[t] = "read" /\ filePos' = D!Offset(req'[t])
        BY <3>1 DEF SeekDisk, D!Seek, LockInv, AnyInv, ReaderOK, D!Offset
      <4>2. u = t
        BY <2>5, <4>1 DEF D!Exclusive
      <4>3. QED
        BY <4>1, <4>2
    <3>2. CASE AskDisk(t) \/ DiskError(t)
      <4>1. pc'[t] # "read" /\ filePos' = filePos
        BY <3>2 DEF AskDisk, DiskError, D!CallRead, D!IOError, D!Return, LockInv, AnyInv,
           ReaderOK
      <4>2. u # t /\ pc[u] = "read"
        BY <2>1, <2>5, <4>1 DEF LockInv, AnyInv, ReaderOK
      <4>3. QED
        BY <2>3, <4>1, <4>2 DEF LockInv, D!Offset
    <3>3. CASE ReadDisk(t)
      <4>1. pc[t] = "read" /\ pc'[t] # "read"
        BY <3>3 DEF ReadDisk, D!Read, D!Return, LockInv, AnyInv, ReaderOK
      <4>2. u # t /\ pc[u] = "read"
        BY <2>1, <2>5, <4>1 DEF LockInv, AnyInv, ReaderOK
      <4>3. QED
        BY <4>1, <4>2 DEF D!Exclusive
    <3>4. QED
      BY <1>2, <3>1, <3>2, <3>3 DEF Continue
  <2>6. ASSUME NEW u \in Threads, pc'[u] # "idle" PROVE req'[u] = ask'[u]
    <3>1. CASE u = t
      BY <2>4, <2>6, <3>1
    <3>2. CASE u # t
      BY <2>1, <2>3, <2>6, <3>2 DEF LockInv, AnyInv, ReaderOK
    <3>3. QED
      BY <3>1, <3>2
  <2>7. QED
    BY <1>1, <2>2, <2>5, <2>6 DEF LockInv, D!Offset
<1>3. ASSUME NEW t \in Threads, NEW c \in Calls, Enter(t, c) PROVE LockInv'
  <2>1. stage[t] = "idle" /\ UNCHANGED disk
    BY <1>3, EnterIs DEF LockInv, AnyInv
  <2>2. pc[t] = "idle"
    BY <2>1 DEF LockInv, AnyInv, ReaderOK
  <2>3. \A u \in Threads \ {t} : ask'[u] = ask[u]
    BY <1>3 DEF Enter, CallForInode, ReadDirectory, LookupPath, Return, WaitFor, LockInv,
       AnyInv, LocalsOK
  <2>4. QED
    BY <1>1, <2>1, <2>2, <2>3 DEF LockInv, disk, D!Offset
<1>4. CASE Rewrite \/ UNCHANGED sharedVars
  BY <1>1, <1>4 DEF Rewrite, sharedVars, vars, disk, LockInv, D!Offset
<1>5. QED
  BY <1>2, <1>3, <1>4 DEF SharedNext

\* An answer that is a step of FileStore's is true, and stays true.
LEMMA TruthStays ==
  ASSUME AllSound, OrdinaryCalls, LockInv, Original, AnswersAreTrue, [Next]_vars
  PROVE  AnswersAreTrue'
<1>1. image' = image /\ IInv' /\ LocalsOK /\ LocalsOK'
  BY StepImage, StepIInv DEF LockInv, IInv, TypeOK
<1>2. ASSUME NEW t \in Threads PROVE ~KnownDivergence(t)
  <2>1. ASSUME stage[t] = "data" PROVE BlocksToRead(t) \in {0, 1}
    <3>1. call[t].size <= BlockSize
      BY <1>1, <2>1 DEF LocalsOK, OrdinaryCalls
    <3>2. QED
      BY <2>1, <3>1, DataInside DEF LockInv
  <2>2. call'[t] \in Calls
    BY <1>1 DEF LocalsOK
  <2>3. QED
    BY <2>1, <2>2 DEF KnownDivergence, OrdinaryCalls
<1>3. [FS!Next]_FS!vars
  BY <1>2, StepRefines DEF LockInv
<1>4. ASSUME NEW t \in Threads, stage[t] = "idle", call'[t] = call[t],
             out'[t] = out[t], out'[t].ok
      PROVE  out'[t] \in FS!Truth(call'[t])
  BY <1>4 DEF AnswersAreTrue
<1>5. ASSUME NEW t \in Threads, out'[t] \in FS!Answers(call'[t]), out'[t].ok
      PROVE  out'[t] \in FS!Truth(call'[t])
  BY <1>5 DEF FS!Answers, FS!Nothing
<1>6. ASSUME NEW t \in Threads, stage'[t] = "idle", out'[t].ok
      PROVE  out'[t] \in FS!Truth(call'[t])
  <2> DEFINE busy == [u \in Threads |-> stage[u] # "idle"]
             busyNext == [u \in Threads |-> stage'[u] # "idle"]
  <2>1. busy[t] = (stage[t] # "idle") /\ busyNext[t] = FALSE
    BY <1>6
  <2>2. /\ out \in [Threads -> [ok : BOOLEAN, info : FileInfos, bytes : Seq(Nat),
                               entries : {<<>>}]]
        /\ call \in [Threads -> Calls]
    BY <1>1 DEF LocalsOK
  <2>3. ASSUME NEW u \in Threads, NEW c \in Calls, FS!Ask(u, c)
        PROVE  out'[t] \in FS!Truth(call'[t])
    <3>1. /\ busyNext = [busy EXCEPT ![u] = TRUE]
          /\ call' = [call EXCEPT ![u] = c] /\ out' = [out EXCEPT ![u] = FS!Nothing]
      BY <2>3 DEF FS!Ask
    <3> HIDE DEF busy, busyNext
    <3>2. u # t
      BY <2>1, <3>1 DEF busy
    <3>3. busy[t] = FALSE
      BY <2>1, <3>1, <3>2
    <3>4. QED
      BY <1>4, <1>6, <2>1, <2>2, <3>1, <3>2, <3>3
  <2>4. ASSUME NEW u \in Threads, NEW c \in Calls, FS!AnswerAtOnce(u, c)
        PROVE  out'[t] \in FS!Truth(call'[t])
    <3>1. /\ busyNext = busy /\ call' = [call EXCEPT ![u] = c]
          /\ \E r \in FS!Answers(c) : out' = [out EXCEPT ![u] = r]
      BY <2>4 DEF FS!AnswerAtOnce
    <3> HIDE DEF busy, busyNext
    <3>2. CASE u = t
      BY <1>5, <1>6, <2>2, <3>1, <3>2
    <3>3. CASE u # t
      BY <1>4, <1>6, <2>1, <2>2, <3>1, <3>3
    <3>4. QED
      BY <3>2, <3>3
  <2>5. ASSUME NEW u \in Threads, FS!Answer(u)
        PROVE  out'[t] \in FS!Truth(call'[t])
    <3>1. /\ busyNext = [busy EXCEPT ![u] = FALSE] /\ call' = call
          /\ \E r \in FS!Answers(call[u]) : out' = [out EXCEPT ![u] = r]
      BY <2>5 DEF FS!Answer
    <3> HIDE DEF busy, busyNext
    <3>2. CASE u = t
      BY <1>5, <1>6, <2>2, <3>1, <3>2
    <3>3. CASE u # t
      BY <1>4, <1>6, <2>1, <2>2, <3>1, <3>3
    <3>4. QED
      BY <3>2, <3>3
  <2>6. CASE UNCHANGED FS!vars
    <3>1. busyNext = busy /\ call' = call /\ out' = out
      BY <2>6 DEF FS!vars
    <3> HIDE DEF busy, busyNext
    <3>2. QED
      BY <1>4, <1>6, <2>1, <3>1
  <2>7. QED
    BY <1>3, <2>3, <2>4, <2>5, <2>6 DEF FS!Next
<1>7. \A t \in Threads : FS!Truth(call[t])' = FS!Truth(call'[t])
  BY <1>1 DEF FS!Truth, FS!Info, FS!Listing, FS!Resolve, FilesIn
<1>8. QED
  BY <1>6, <1>7 DEF AnswersAreTrue

\* Any number of threads may call the volume: as long as no two of them are between
\* seek and ReadFile at once, and nobody writes the image, every call that one
\* thread alone would get right is answered with the truth or a failure.  A lock
\* in readBytes is all that concurrent calls lack.
THEOREM LockMakesAnswersTrue ==
  ASSUME AllSound, OrdinaryCalls, DeviceFits, WritesShow
  PROVE  SharedSpec => RightUnderALock
<1>1. SharedInit => LockInv /\ AnswersAreTrue
  <2>1. SharedInit => AnswersAreTrue
    BY DEF SharedInit, Init, AnswersAreTrue, Nothing, FS!Nothing
  <2>2. QED
    BY <2>1, InitLockInv
<1>2. LockInv /\ AnswersAreTrue /\ D!Exclusive /\ Original
        /\ D!Exclusive' /\ Original' /\ [SharedNext]_sharedVars
      => LockInv' /\ AnswersAreTrue'
  BY StepIsVolumes, StepLockInv, TruthStays
<1>3. QED
  BY <1>1, <1>2, PTL DEF SharedSpec, RightUnderALock

\* Under the same conditions the volume over the real reader is the volume over an
\* atomic device, step for step.
THEOREM LockMakesReadsAtomic ==
  ASSUME AllSound, OrdinaryCalls, DeviceFits, WritesShow
  PROVE  SharedSpec /\ [](D!Exclusive /\ Original) => Init /\ [][Next]_vars
<1>1. SharedInit => Init /\ LockInv
  BY InitLockInv DEF SharedInit
<1>2. LockInv /\ D!Exclusive /\ D!Exclusive' /\ Original' /\ [SharedNext]_sharedVars
      => LockInv' /\ [Next]_vars
  BY StepIsVolumes, StepLockInv
<1>3. QED
  BY <1>1, <1>2, PTL DEF SharedSpec
===============================================================================
