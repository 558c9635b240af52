-------------------------- MODULE DiskReaderProofs --------------------------
(***************************************************************************)
(* Proofs about DiskReader, for any threads, requests, sizes and widths.   *)
(***************************************************************************)
EXTENDS DiskReaderHistory, TLAPS

-----------------------------------------------------------------------------
(* The arithmetic of readBlocks.                                           *)

\* The products are natural numbers whatever their operands.
LEMMA ProductIsNat ==
  ASSUME NEW a \in Nat, NEW b \in Nat
  PROVE  a * b \in Nat
OBVIOUS

\* The wrapped offset and length of a request are natural numbers.
LEMMA RequestBytes ==
  ASSUME NEW r \in Requests
  PROVE  /\ r.start \in Nat /\ r.count \in Nat /\ r.size \in Nat
         /\ Offset(r) \in Nat
         /\ Total(r) \in Nat
<1>1. r.start \in Nat /\ r.count \in Nat /\ r.size \in Nat
  BY RequestAssumption
<1>2. r.start * r.size \in Nat /\ r.count * r.size \in Nat
  BY <1>1, ProductIsNat
<1>3. ASSUME NEW n \in Nat PROVE n % Word \in Nat
  BY WidthAssumption
<1>4. QED
  BY <1>1, <1>2, <1>3 DEF Offset, Total

\* Unless the request wraps, they are the bytes the caller means.
LEMMA ExactWithoutWrap ==
  ASSUME NEW r \in Requests, ~Wraps(r)
  PROVE  /\ Offset(r) = r.start * r.size
         /\ Total(r) = r.count * r.size
<1> DEFINE a == r.start * r.size
           b == r.count * r.size
<1>1. a \in Nat /\ b \in Nat
  BY RequestBytes, ProductIsNat
<1>2. (r.start + r.count) * r.size = a + b
  BY RequestBytes
<1>3. a + b < Word
  <2> HIDE DEF a, b
  <2>1. ~(a + b >= Word)
    BY <1>2 DEF Wraps
  <2>2. QED
    BY <2>1, <1>1, WidthAssumption
<1>4. ASSUME NEW n \in Nat, n < Word PROVE n % Word = n
  BY <1>4, WidthAssumption
<1> HIDE DEF a, b
<1>5. a % Word = a /\ b % Word = b
  BY <1>1, <1>3, <1>4, WidthAssumption
<1>6. QED
  BY <1>2, <1>5 DEF Offset, Total, a, b

\* ReadFile returns a count between 0 and what is left of the device.
LEMMA BytesReadBound ==
  ASSUME filePos \in Nat, device \in Nat, NEW n \in Nat
  PROVE  /\ BytesRead(n) \in Nat
         /\ BytesRead(n) # 0 => filePos + BytesRead(n) <= device
<1>1. n % DWord \in Nat
  BY WidthAssumption
<1>2. QED
  BY <1>1 DEF BytesRead

-----------------------------------------------------------------------------
(* Type correctness.                                                       *)

\* Every reachable state is well typed, and a reader that is not open has no
\* size: DiskReader::open and close never leave disk_size_ behind.
THEOREM TypeCorrect == Spec => []TypeOK
<1>1. Init => TypeOK
  BY DEF Init, TypeOK, Failed, BD!Failed
<1>2. TypeOK /\ [Next]_vars => TypeOK'
  <2> SUFFICES ASSUME TypeOK, [Next]_vars PROVE TypeOK'
    OBVIOUS
  <2> USE DEF TypeOK
  <2>1. CASE Open
    BY <2>1, SizeAssumption DEF Open
  <2>2. CASE OpenFails
    BY <2>2 DEF OpenFails
  <2>3. CASE Close
    BY <2>3 DEF Close
  <2>4. CASE Shrink
    BY <2>4 DEF Shrink
  <2>5. ASSUME NEW t \in Threads, NEW r \in Requests, CallRead(t, r)
        PROVE  TypeOK'
    <3>1. CASE Refused(r)
      <4>1. Return(t, Failed)
        BY <2>5, <3>1 DEF CallRead
      <4>2. QED
        BY <2>5, <4>1 DEF CallRead, Return, Failed, BD!Failed
    <3>2. CASE ~Refused(r)
      BY <2>5, <3>2 DEF CallRead
    <3>3. QED
      BY <3>1, <3>2
  <2>6. ASSUME NEW t \in Threads, Seek(t) PROVE TypeOK'
    BY <2>6, RequestBytes DEF Seek
  <2>7. ASSUME NEW t \in Threads, Read(t) PROVE TypeOK'
    <3>1. Total(req[t]) \in Nat
      BY RequestBytes
    <3>2. BytesRead(Total(req[t])) \in Nat
      BY <3>1, BytesReadBound
    <3>3. QED
      BY <2>7, <3>1, <3>2 DEF Read, Return, Failed, BD!Failed
  <2>8. ASSUME NEW t \in Threads, IOError(t) PROVE TypeOK'
    BY <2>8 DEF IOError, Return, Failed, BD!Failed
  <2>9. CASE UNCHANGED vars
    BY <2>9 DEF vars
  <2>10. QED
    BY <2>1, <2>2, <2>3, <2>4, <2>5, <2>6, <2>7, <2>8, <2>9 DEF Next, Step
<1>3. QED
  BY <1>1, <1>2, PTL DEF Spec

-----------------------------------------------------------------------------
(* Reads that do not interleave.                                           *)

\* A thread about to ReadFile finds the position where its own seek put it.
PositionMine ==
  \A t \in Threads : pc[t] = "read" => filePos = Offset(req[t])

\* Every step between exclusive states keeps the position where its owner put it
\* and the answers right.
LEMMA ExclusiveStep ==
  ASSUME TypeOK, PositionMine, ReadsWhatWasAsked,
         Exclusive, Exclusive', [Next]_vars
  PROVE  PositionMine' /\ ReadsWhatWasAsked'
<1> USE DEF TypeOK
<1>1. CASE Open
  BY <1>1 DEF Open, Quiet, PositionMine, ReadsWhatWasAsked
<1>2. CASE OpenFails
  BY <1>2 DEF OpenFails, PositionMine, ReadsWhatWasAsked
<1>3. CASE Close
  BY <1>3 DEF Close, PositionMine, ReadsWhatWasAsked
<1>4. CASE Shrink
  BY <1>4 DEF Shrink, PositionMine, ReadsWhatWasAsked
<1>5. ASSUME NEW t \in Threads, NEW r \in Requests, CallRead(t, r)
      PROVE  PositionMine' /\ ReadsWhatWasAsked'
  <2>1. CASE Refused(r)
    BY <1>5, <2>1
       DEF CallRead, Return, PositionMine, ReadsWhatWasAsked, Failed, BD!Failed
  <2>2. CASE ~Refused(r)
    BY <1>5, <2>2 DEF CallRead, PositionMine, ReadsWhatWasAsked
  <2>3. QED
    BY <2>1, <2>2
<1>6. ASSUME NEW t \in Threads, Seek(t)
      PROVE  PositionMine' /\ ReadsWhatWasAsked'
  <2>1. ASSUME NEW u \in Threads, pc'[u] = "read" PROVE u = t
    BY <1>6, <2>1 DEF Seek, Exclusive
  <2>2. QED
    BY <1>6, <2>1 DEF Seek, PositionMine, ReadsWhatWasAsked
<1>7. ASSUME NEW t \in Threads, Read(t)
      PROVE  PositionMine' /\ ReadsWhatWasAsked'
  <2>1. PositionMine'
    BY <1>7 DEF Read, Return, PositionMine, Exclusive
  <2>2. ~Wraps(req[t]) => /\ filePos = req[t].start * req[t].size
                          /\ Total(req[t]) = req[t].count * req[t].size
    BY <1>7, ExactWithoutWrap DEF Read, PositionMine
  <2>3. ret'[t].ok /\ ~Wraps(req[t]) => ret'[t] = BD!Asked(req[t])
    BY <1>7, <2>2 DEF Read, Return, BD!Asked, Failed, BD!Failed
  <2>4. ReadsWhatWasAsked'
    BY <1>7, <2>3 DEF Read, Return, ReadsWhatWasAsked
  <2>5. QED
    BY <2>1, <2>4
<1>8. ASSUME NEW t \in Threads, IOError(t)
      PROVE  PositionMine' /\ ReadsWhatWasAsked'
  BY <1>8
     DEF IOError, Return, PositionMine, ReadsWhatWasAsked, Failed, BD!Failed
<1>9. CASE UNCHANGED vars
  BY <1>9 DEF vars, PositionMine, ReadsWhatWasAsked
<1>10. QED
  BY <1>1, <1>2, <1>3, <1>4, <1>5, <1>6, <1>7, <1>8, <1>9 DEF Next, Step

\* Nothing has been read at first.
LEMMA InitReadsRight == Init => PositionMine /\ ReadsWhatWasAsked
BY DEF Init, PositionMine, ReadsWhatWasAsked, Failed, BD!Failed

\* Any number of threads may use the reader: as long as no two of them are
\* between seek and ReadFile at once, readBytes delivers what was asked.  The
\* lock the class does not take is all that it lacks.
THEOREM ExclusiveReadsAreRight == Spec => RightWhenExclusive
<1>1. TypeOK /\ PositionMine /\ ReadsWhatWasAsked /\ Exclusive /\ Exclusive'
        /\ [Next]_vars => PositionMine' /\ ReadsWhatWasAsked'
  BY ExclusiveStep
<1>2. QED
  BY InitReadsRight, TypeCorrect, <1>1, PTL DEF Spec, RightWhenExclusive

\* With one thread, as while main mounts the volume, every read is right.
THEOREM SerialReadsAreRight ==
  ASSUME \A t, u \in Threads : t = u
  PROVE  Spec => []ReadsWhatWasAsked
<1>1. Exclusive
  BY DEF Exclusive
<1>2. QED
  BY <1>1, ExclusiveReadsAreRight, PTL DEF RightWhenExclusive

-----------------------------------------------------------------------------
(* What every read obeys, however the threads interleave.                  *)

\* No read that reports success has bytes the device did not have, although
\* disk_size_ may be stale: the count ReadFile returns decides.
THEOREM NoReadInventsBytes == Spec => NoPhantomBytes
<1>1. TypeOK /\ [Next]_vars =>
        [\A t \in Threads : Succeeds(t) /\ ret'[t].len > 0 =>
            ret'[t].from + ret'[t].len <= device]_vars
  <2> SUFFICES ASSUME TypeOK, Next, NEW t \in Threads,
                      Succeeds(t), ret'[t].len > 0
               PROVE  ret'[t].from + ret'[t].len <= device
    BY DEF Succeeds
  <2>1. Read(t)
    BY DEF TypeOK, Succeeds, Next, Open, OpenFails, Close, Shrink, Step,
           CallRead, Seek, Read, IOError, Return, Refused, Failed, BD!Failed
  <2>2. Total(req[t]) \in Nat
    BY RequestBytes DEF TypeOK
  <2>3. QED
    BY <2>1, <2>2, BytesReadBound
       DEF TypeOK, Succeeds, Read, Return, Failed, BD!Failed
<1>2. QED
  BY TypeCorrect, <1>1, PTL DEF Spec, NoPhantomBytes

-----------------------------------------------------------------------------
(* The reader implements the atomic block device.                          *)

\* A thread about to ReadFile whose position nobody moved since its seek finds
\* it where that seek put it.
MineUnlessMoved ==
  \A t \in Threads : pc[t] = "read" /\ ~moved[t] => filePos = Offset(req[t])

\* Every step, whatever the threads do, keeps it so.
LEMMA MineStep ==
  ASSUME TypeOK, MineUnlessMoved, Next, Watch
  PROVE  MineUnlessMoved'
<1> USE DEF TypeOK
<1> SUFFICES ASSUME NEW u \in Threads, pc'[u] = "read", ~moved'[u]
             PROVE  filePos' = Offset(req[u])'
  BY DEF MineUnlessMoved
<1>1. pc[u] = "read" => ~moved[u] /\ filePos' = filePos /\ filePos = Offset(req[u])
  BY DEF Watch, MineUnlessMoved
<1>2. CASE pc[u] = "read"
  <2>1. req'[u] = req[u]
    BY <1>2 DEF Next, Step, Open, OpenFails, Close, Shrink, CallRead, Seek, Read, IOError
  <2>2. QED
    BY <1>1, <1>2, <2>1 DEF Offset
<1>3. CASE pc[u] # "read"
  <2>1. Seek(u)
    BY <1>3 DEF Next, Step, Open, OpenFails, Close, Shrink, CallRead, Return,
                Seek, Read, IOError, Refused
  <2>2. QED
    BY <2>1 DEF Seek, Offset
<1>4. QED
  BY <1>2, <1>3

\* How a step of one thread's pc looks in BlockDevice.
LEMMA PhaseStep ==
  ASSUME NEW t \in Threads, NEW p \in {"idle", "seek", "read"},
         pc' = [pc EXCEPT ![t] = p], DOMAIN pc = Threads
  PROVE  phase' = [phase EXCEPT ![t] = IF p = "idle" THEN "idle" ELSE "busy"]
BY DEF phase

\* Every step is a step of BlockDevice, a misplaced answer, or a stutter.
LEMMA DeviceStep ==
  ASSUME TypeOK, MineUnlessMoved, [Next]_vars
  PROVE  [BD!Next \/ \E t \in Threads : Misplaced(t)]_(BD!vars)
<1> USE DEF TypeOK
<1>0. DOMAIN pc = Threads
  OBVIOUS
<1>1. CASE Open \/ OpenFails \/ Close \/ Shrink \/ UNCHANGED vars
  BY <1>1 DEF Open, OpenFails, Close, Shrink, vars, BD!vars, phase
<1>2. ASSUME NEW t \in Threads, NEW r \in Requests, CallRead(t, r)
      PROVE  BD!Next
  <2>1. CASE Refused(r)
    <3>1. phase' = phase
      BY <1>2, <2>1 DEF CallRead, Return, phase
    <3>2. BD!Refuse(t, r)
      BY <1>2, <2>1, <3>1 DEF CallRead, Return, BD!Refuse, Failed, phase
    <3>3. QED
      BY <3>2 DEF BD!Next
  <2>2. CASE ~Refused(r)
    <3>1. phase' = [phase EXCEPT ![t] = "busy"]
      BY <1>0, <1>2, <2>2, PhaseStep DEF CallRead
    <3>2. BD!Ask(t, r)
      BY <1>2, <2>2, <3>1 DEF CallRead, BD!Ask, phase
    <3>3. QED
      BY <3>2 DEF BD!Next
  <2>3. QED
    BY <2>1, <2>2
<1>3. ASSUME NEW t \in Threads, Seek(t) PROVE UNCHANGED BD!vars
  BY <1>3 DEF Seek, BD!vars, phase
<1>4. ASSUME NEW t \in Threads, Read(t) \/ IOError(t)
      PROVE  BD!Next \/ Misplaced(t)
  <2>1. PICK a : /\ Return(t, a)
                 /\ \/ a \in {Failed, BD!Asked(req[t])}
                    \/ /\ Wraps(req[t]) \/ moved[t]
                       /\ a = [ok |-> TRUE, from |-> filePos, len |-> Total(req[t])]
    <3>1. CASE IOError(t)
      BY <3>1 DEF IOError
    <3>2. CASE Read(t)
      <4>1. CASE Wraps(req[t]) \/ moved[t]
        BY <3>2, <4>1 DEF Read
      <4>2. CASE ~Wraps(req[t]) /\ ~moved[t]
        <5>1. filePos = req[t].start * req[t].size
              /\ Total(req[t]) = req[t].count * req[t].size
          BY <3>2, <4>2, ExactWithoutWrap DEF Read, MineUnlessMoved
        <5>2. QED
          BY <3>2, <5>1 DEF Read, BD!Asked
      <4>3. QED
        BY <4>1, <4>2
    <3>3. QED
      BY <1>4, <3>1, <3>2
  <2>2. phase' = [phase EXCEPT ![t] = "idle"]
    BY <1>0, <2>1, PhaseStep DEF Return
  <2>3. phase[t] = "busy" /\ UNCHANGED req
    BY <1>4 DEF Read, IOError, phase
  <2>4. BD!Answer(t) \/ Misplaced(t)
    BY <2>1, <2>2, <2>3 DEF Return, BD!Answer, Failed, Misplaced
  <2>5. QED
    BY <2>4 DEF BD!Next
<1>5. QED
  BY <1>1, <1>2, <1>3, <1>4 DEF Next, Step

\* The steps of NextH are those of Next, watched.
LEMMA WatchedNext == NextH <=> Next /\ Watch
BY DEF NextH, OpenH, OpenFailsH, CloseH, ShrinkH, CallReadH, SeekH, ReadH, IOErrorH,
       Next, Step

\* The history variable adds no behaviour to DiskReader.
LEMMA HistoryIsSpec == SpecH => Spec
<1>1. [NextH]_historyVars => [Next]_vars
  BY WatchedNext DEF historyVars
<1>2. InitH => Init
  BY DEF InitH
<1>3. QED
  BY <1>1, <1>2, PTL DEF SpecH, Spec

\* Whatever the threads, the requests and the widths, DiskReader is the atomic
\* block device its callers take it for, but for the answers that Misplaced
\* names: those to requests that wrap and to reads overtaken by another thread.
THEOREM BlockDeviceRefinement == SpecH => ImplementsBlockDevice
<1>1. InitH => BD!Init /\ MineUnlessMoved
  BY DEF InitH, Init, BD!Init, Failed, phase, MineUnlessMoved
<1>2. TypeOK /\ MineUnlessMoved /\ [NextH]_historyVars => MineUnlessMoved'
  <2>1. CASE NextH
    BY <2>1, WatchedNext, MineStep
  <2>2. CASE UNCHANGED historyVars
    BY <2>2 DEF historyVars, vars, MineUnlessMoved, Offset
  <2>3. QED
    BY <2>1, <2>2
<1>3. TypeOK /\ MineUnlessMoved /\ [Next]_vars
        => [BD!Next \/ \E t \in Threads : Misplaced(t)]_(BD!vars)
  BY DeviceStep
<1>4. QED
  BY HistoryIsSpec, TypeCorrect, <1>1, <1>2, <1>3, PTL
     DEF SpecH, Spec, ImplementsBlockDevice
=============================================================================
