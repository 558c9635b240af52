---------------------------- MODULE WinFspOpsProofs ----------------------------
(***************************************************************************)
(* Proofs about WinFspOps, for any dispatcher threads, requests, tree of   *)
(* files and addresses, and for any word, allocation unit and tick.        *)
(***************************************************************************)
EXTENDS WinFspOps, FiniteSetTheorems, TLAPS

\* What the volume says of a file.
Infos ==
  [inode : Nat, size : Nat, create_time : Nat, mod_time : Nat, is_directory : BOOLEAN]

-----------------------------------------------------------------------------
(* fillFileInfo.                                                           *)

\* (size + 4095) & ~4095 is the least multiple of the unit that holds the size,
\* for every size that has one below 2^64, and a number of 64 bits for the others.
THEOREM RoundUpCovers ==
  ASSUME NEW size \in Nat
  PROVE  /\ RoundUp(size) \in 0 .. Word - 1
         /\ D!Covers(RoundUp(size), size)
<1> DEFINE sum == (size + AllocationUnit - 1) % Word
           rest == sum % AllocationUnit
<1>1. sum \in 0 .. Word - 1
  BY UnitAssumption
<1>2. RoundUp(size) = sum - rest
  BY DEF RoundUp
<1> HIDE DEF sum
<1>3. rest \in 0 .. sum
  BY <1>1, UnitAssumption
<1> HIDE DEF rest
<1>4. RoundUp(size) \in 0 .. Word - 1
  BY <1>1, <1>2, <1>3, UnitAssumption
<1>5. D!Covers(RoundUp(size), size)
  BY UnitAssumption DEF RoundUp, D!Covers
<1>6. QED
  BY <1>4, <1>5

\* A smaller product of a positive factor has the smaller other factor.
LEMMA FactorOrder ==
  ASSUME NEW a \in Nat, NEW b \in Nat, NEW k \in Nat \ {0}, a * k < b * k
  PROVE  a < b
<1>1. CASE b <= a
  <2>1. PICK c \in Nat : a = b + c
    BY <1>1
  <2>2. a * k = b * k + c * k /\ c * k \in Nat
    BY <2>1
  <2>3. QED
    BY <2>2
<1>2. QED
  BY <1>1

\* A quotient is the number of whole divisors in a number.
LEMMA QuotientBounds ==
  ASSUME NEW n \in Nat, NEW k \in Nat \ {0}
  PROVE  /\ n \div k \in Nat
         /\ (n \div k) * k <= n /\ n < (n \div k) * k + k
OBVIOUS

\* A time is reported as the whole second before it, in ticks since 1601.
THEOREM FileTimeTells ==
  ASSUME NEW ns \in Nat
  PROVE  FileTime(ns) \in Nat /\ D!Tells(FileTime(ns), ns)
<1> DEFINE k == NsPerSecond \div WindowsTick
           q == ns \div NsPerSecond
           p == ns \div k
<1>1. k \in Nat \ {0} /\ NsPerSecond = k * WindowsTick
  BY TimeAssumption
<1>2. q \in Nat /\ q * NsPerSecond <= ns /\ ns < q * NsPerSecond + NsPerSecond
  BY TimeAssumption, QuotientBounds
<1> HIDE DEF k
<1>3. p \in Nat /\ p * k <= ns /\ ns < p * k + k
  BY <1>1, QuotientBounds
<1> HIDE DEF q, p
<1>4. q * WindowsTick <= p
  <2>1. (q * WindowsTick) * k < (p + 1) * k
    BY <1>1, <1>2, <1>3, TimeAssumption
  <2>2. QED
    BY <2>1, <1>1, <1>2, <1>3, FactorOrder, TimeAssumption
<1>5. p < q * WindowsTick + WindowsTick
  <2>1. p * k < (q * WindowsTick + WindowsTick) * k
    BY <1>1, <1>2, <1>3, TimeAssumption
  <2>2. QED
    BY <2>1, <1>1, <1>2, <1>3, FactorOrder, TimeAssumption
<1>6. FileTime(ns) = q * WindowsTick + SecToUnixEpoch * WindowsTick
  BY DEF FileTime, q
<1>7. QED
  BY <1>2, <1>3, <1>4, <1>5, <1>6, TimeAssumption DEF D!Tells, p, k

\* fillFileInfo describes the file that the volume's answer is about.
LEMMA FillDescribes ==
  ASSUME NEW info \in Infos
  PROVE  FillFileInfo(info) \in Attributes /\ D!Describes(FillFileInfo(info), info)
<1>1. /\ RoundUp(info.size) \in 0 .. Word - 1
      /\ D!Covers(RoundUp(info.size), info.size)
  BY RoundUpCovers DEF Infos
<1>2. /\ FileTime(info.create_time) \in Nat
      /\ D!Tells(FileTime(info.create_time), info.create_time)
      /\ FileTime(info.mod_time) \in Nat
      /\ D!Tells(FileTime(info.mod_time), info.mod_time)
  BY FileTimeTells DEF Infos
<1>3. QED
  BY <1>1, <1>2 DEF FillFileInfo, Attributes, Infos, D!Describes

-----------------------------------------------------------------------------
(* What the volume answers.                                                *)

\* What the volume says of a file that is there has its type.
LEMMA InfoType ==
  ASSUME files \in Contents, NEW i \in DOMAIN files
  PROVE  /\ Info(i) \in Infos
         /\ files[i].bytes \in Seq(Nat) /\ files[i].is_directory \in BOOLEAN
         /\ i \in Nat \ {0}
BY ContentsAssumption DEF Info, Infos

\* Nothing of a listing gets into the buffer.
LEMMA TransferredNothing ==
  ASSUME NEW entries, NEW room PROVE Transferred(entries, room) = <<>>
BY DEF Transferred, DirInfoSize

\* A successful answer is the truth about the file that the call names, or bytes
\* from elsewhere for a read of several blocks.
LEMMA AnswersAreTrue ==
  ASSUME NEW c, NEW answer \in VolumeAnswers(c), answer.ok
  PROVE  /\ c.op = "path" =>
              /\ Resolve(Names(c.path)) \in DOMAIN files
              /\ answer.info = Info(Resolve(Names(c.path)))
         /\ c.op = "info" => c.inode \in DOMAIN files /\ answer.info = Info(c.inode)
         /\ c.op = "read" =>
              LET bytes == Portion(files[c.inode].bytes, c.offset, c.size)
              IN  /\ c.inode \in DOMAIN files /\ ~files[c.inode].is_directory
                  /\ \/ answer.bytes = bytes
                     \/ /\ "read" \in Untrue /\ SeveralBlocks(c, bytes)
                        /\ answer.bytes \in [DOMAIN bytes -> DeviceBytes]
<1> HIDE DEF Info, Resolve, Names, Listing, Portion, SeveralBlocks
<1>1. answer \in Truth(c) \/ answer \in UntrueAnswers(c)
  BY DEF VolumeAnswers, Answers, Nothing
<1>2. CASE c.op = "path"
  BY <1>1, <1>2, UntrueAssumption DEF Truth, UntrueAnswers, Nothing
<1>3. CASE c.op = "info"
  BY <1>1, <1>3, UntrueAssumption DEF Truth, UntrueAnswers, Nothing
<1>4. CASE c.op = "read"
  <2> DEFINE bytes == Portion(files[c.inode].bytes, c.offset, c.size)
  <2>1. \A r \in Truth(c) : /\ c.inode \in DOMAIN files /\ ~files[c.inode].is_directory
                            /\ r.bytes = bytes /\ r = [Nothing EXCEPT !.ok = TRUE, !.bytes = bytes]
    BY <1>4 DEF Truth, Nothing
  <2>2. CASE answer \in UntrueAnswers(c)
    <3>1. /\ "read" \in Untrue
          /\ answer \in UNION {{[r EXCEPT !.bytes = elsewhere] :
                                 elsewhere \in [DOMAIN r.bytes -> DeviceBytes]} :
                                r \in {true \in Truth(c) : SeveralBlocks(c, true.bytes)}}
      BY <1>4, <2>2 DEF UntrueAnswers
    <3>2. PICK r \in Truth(c) :
            /\ SeveralBlocks(c, r.bytes)
            /\ \E elsewhere \in [DOMAIN r.bytes -> DeviceBytes] :
                 answer = [r EXCEPT !.bytes = elsewhere]
      BY <3>1
    <3>3. PICK elsewhere \in [DOMAIN r.bytes -> DeviceBytes] :
            answer = [r EXCEPT !.bytes = elsewhere]
      BY <3>2
    <3>4. answer.bytes = elsewhere
      BY <2>1, <3>3 DEF Nothing
    <3>5. QED
      BY <1>4, <2>1, <3>1, <3>2, <3>3, <3>4
  <2>3. QED
    BY <1>1, <1>4, <2>1, <2>2
<1>5. QED
  BY <1>2, <1>3, <1>4

\* Drive speaks of the same files.
LEMMA SameFiles ==
  ASSUME NEW path, NEW i, NEW bytes, NEW offset, NEW size, NEW S
  PROVE  /\ D!Resolve(D!Names(path)) = Resolve(Names(path))
         /\ D!Info(i) = Info(i)
         /\ D!Listing(i) = Listing(i)
         /\ D!Portion(bytes, offset, size) = Portion(bytes, offset, size)
         /\ D!Min(S) = Min(S)
<1>1. D!Names(path) = Names(path)
  BY DEF D!Names, Names, D!Slash, Slash, D!Range, Range
<1>2. \A p : D!Resolve(p) = Resolve(p)
  BY DEF D!Resolve, Resolve, D!RootInode, RootInode
<1>3. \A j : D!Info(j) = Info(j)
  BY DEF D!Info, Info
<1>4. \A names : D!InOrder(names) = InOrder(names)
  BY DEF D!InOrder, InOrder, D!Cardinality, Cardinality
<1>5. D!Listing(i) = Listing(i)
  BY <1>4 DEF D!Listing, Listing, D!Info, Info
<1>6. D!Portion(bytes, offset, size) = Portion(bytes, offset, size)
  BY DEF D!Portion, Portion
<1>7. D!Min(S) = Min(S)
  BY DEF D!Min, Min
<1>8. QED
  BY <1>1, <1>2, <1>3, <1>5, <1>6, <1>7

-----------------------------------------------------------------------------
(* The invariant.                                                          *)

VolumeCalls ==
  [op : {"none", "path", "read", "list", "info"}, inode : Nat, path : Seq(Nat),
   offset : Nat, size : Nat]

Contexts == [inode : Nat, is_directory : BOOLEAN, size : Nat]

\* The call of the volume that t waits for is the one its callback makes, for
\* the context that the handle still has.
CallFits(t) ==
  call[t] # NoCall =>
    \/ /\ serving[t].op \in NameOps
       /\ call[t] = [NoCall EXCEPT !.op = "path", !.path = serving[t].path]
    \/ /\ serving[t].op = "Read" /\ ~Context(t).is_directory
       /\ call[t] = [op |-> "read", inode |-> Context(t).inode, path |-> <<>>,
                     offset |-> serving[t].offset, size |-> serving[t].length]
    \/ /\ serving[t].op = "ReadDirectory" /\ Context(t).is_directory
       /\ call[t] = [NoCall EXCEPT !.op = "list", !.inode = Context(t).inode]
    \/ /\ serving[t].op = "GetFileInfo"
       /\ call[t] = [NoCall EXCEPT !.op = "info", !.inode = Context(t).inode]

\* A FileContext says of its file what the volume says of it.
ContextTrue(p) ==
  context[p] # Free =>
    /\ context[p].inode \in DOMAIN files
    /\ context[p].is_directory = files[context[p].inode].is_directory
    /\ context[p].size = Len(files[context[p].inode].bytes)

\* A Close has its handle for itself.
ClosesAlone(t) ==
  serving[t].op = "Close" =>
    \A u \in Threads \ {t} : serving[u].handle # serving[t].handle

IInv ==
  /\ files \in Contents
  /\ call \in [Threads -> VolumeCalls]
  /\ context \in [Places -> Contexts]
  /\ serving \in [Threads -> Requests \union {NoRequest}]
  /\ reply \in [Threads -> Replies]
  /\ \A t \in Threads : CallFits(t) /\ ClosesAlone(t)
  /\ \A p \in Places : ContextTrue(p)
  /\ \A t \in Threads : serving[t].handle # 0 => context[serving[t].handle] # Free

\* What a callback may return, to the last field.
LEMMA RepliesTyped ==
  /\ NoReply \in Replies
  /\ \A status \in Statuses : [NoReply EXCEPT !.status = status] \in Replies
  /\ \A status \in Statuses, total \in 0 .. Word - 1 :
       [NoReply EXCEPT !.status = status, !.total = total] \in Replies
  /\ \A status \in Statuses, dir \in BOOLEAN :
       [NoReply EXCEPT !.status = status, !.info.is_directory = dir] \in Replies
  /\ \A status \in Statuses, info \in Attributes :
       [NoReply EXCEPT !.status = status, !.info = info] \in Replies
  /\ \A status \in Statuses, p \in Places, info \in Attributes :
       [NoReply EXCEPT !.status = status, !.handle = p, !.info = info] \in Replies
  /\ \A status \in Statuses, bytes \in Seq(Nat) :
       [NoReply EXCEPT !.status = status, !.bytes = bytes] \in Replies
  /\ \A status \in Statuses :
       [NoReply EXCEPT !.status = status, !.entries = <<>>] \in Replies
<1> DEFINE none == D!NoAttributes
<1>1. none \in Attributes
  BY UnitAssumption DEF D!NoAttributes, Attributes
<1>2. ASSUME NEW dir \in BOOLEAN PROVE [none EXCEPT !.is_directory = dir] \in Attributes
  BY UnitAssumption DEF D!NoAttributes, Attributes
<1>3. NoReply = [status |-> "none", info |-> none, handle |-> 0, bytes |-> <<>>,
                 entries |-> <<>>, total |-> 0]
  BY DEF NoReply, D!NoReply
<1> HIDE DEF none
<1>4. /\ <<>> \in Seq(Nat) /\ <<>> \in Seq([name : Nat, info : Attributes])
      /\ 0 \in 0 .. Word - 1
  <2>1. <<>> \in Seq(Nat) /\ <<>> \in Seq([name : Nat, info : Attributes])
    OBVIOUS
  <2>2. 0 \in 0 .. Word - 1
    BY UnitAssumption
  <2>3. QED
    BY <2>1, <2>2
<1>5. NoReply \in Replies
  BY <1>1, <1>3, <1>4 DEF Replies, Statuses
<1>6. QED
  BY <1>2, <1>3, <1>5 DEF Replies

\* IInv holds before the first callback.
LEMMA InitIInv == Init => IInv
<1> SUFFICES ASSUME Init PROVE IInv
  OBVIOUS
<1>1. NoCall \in VolumeCalls /\ Free \in Contexts
  BY DEF NoCall, VolumeCalls, Free, Contexts
<1>2. NoReply \in Replies
  BY RepliesTyped
<1>3. NoRequest.handle = 0 /\ NoRequest.op = "none"
  BY DEF NoRequest, D!NoRequest
<1>4. QED
  BY <1>1, <1>2, <1>3 DEF Init, IInv, CallFits, ClosesAlone, ContextTrue

\* What a thread serves is a request, or nothing; a request on a handle finds a
\* context that is true.
LEMMA Served ==
  ASSUME IInv, NEW t \in Threads
  PROVE  /\ serving[t].op \in {"none", "GetVolumeInfo"} \union NameOps \union HandleOps
         /\ serving[t].op = "none" <=> serving[t] = NoRequest
         /\ serving[t].offset \in Nat /\ serving[t].length \in Nat
         /\ serving[t].path \in Seq(Nat) /\ serving[t].handle \in Places \union {0}
         /\ serving[t].op \in HandleOps <=> serving[t].handle # 0
         /\ serving[t].op \in HandleOps =>
              /\ serving[t].handle \in Places /\ Context(t) \in Contexts
              /\ Context(t) # Free /\ ContextTrue(serving[t].handle)
              /\ Context(t).inode \in DOMAIN files
              /\ Context(t).is_directory = files[Context(t).inode].is_directory
<1>1. CASE serving[t] = NoRequest
  BY <1>1 DEF NoRequest, D!NoRequest, HandleOps
<1>2. CASE serving[t] \in Requests
  <2>1. /\ serving[t].op \in {"GetVolumeInfo"} \union NameOps \union HandleOps
        /\ serving[t].path \in Seq(Nat) /\ serving[t].handle \in Places \union {0}
        /\ serving[t].offset \in Nat /\ serving[t].length \in Nat
        /\ serving[t].op \in HandleOps <=> serving[t].handle # 0
    BY <1>2, RequestsAssumption
  <2>2. serving[t].op # "none" /\ serving[t] # NoRequest
    BY <2>1 DEF NoRequest, D!NoRequest, NameOps, HandleOps
  <2>3. CASE serving[t].op \in HandleOps
    <3>1. serving[t].handle \in Places /\ context[serving[t].handle] # Free
      BY <2>1, <2>3 DEF IInv
    <3>2. Context(t) \in Contexts /\ ContextTrue(serving[t].handle)
      BY <3>1 DEF IInv, Context
    <3>3. QED
      BY <2>1, <2>2, <3>1, <3>2 DEF Context, ContextTrue
  <2>4. QED
    BY <2>1, <2>2, <2>3
<1>3. QED
  BY <1>1, <1>2 DEF IInv

\* What a callback that goes on has been told by the volume, if the volume could
\* answer.
LEMMA Told ==
  ASSUME IInv, NEW t \in Threads, call[t] # NoCall,
         NEW answer \in VolumeAnswers(call[t]), answer.ok
  PROVE  /\ serving[t].op \in NameOps =>
              /\ Resolve(Names(serving[t].path)) \in DOMAIN files
              /\ answer.info = Info(Resolve(Names(serving[t].path)))
         /\ serving[t].op = "GetFileInfo" => answer.info = Info(Context(t).inode)
         /\ serving[t].op = "ReadDirectory" => Context(t).is_directory
         /\ serving[t].op = "Read" =>
              LET bytes == Portion(files[Context(t).inode].bytes,
                                   serving[t].offset, serving[t].length)
              IN  /\ ~Context(t).is_directory
                  /\ \/ answer.bytes = bytes
                     \/ /\ "read" \in Untrue /\ SeveralBlocks(serving[t], bytes)
                        /\ answer.bytes \in [DOMAIN bytes -> DeviceBytes]
<1>1. CallFits(t)
  BY DEF IInv
<1>2. CASE serving[t].op \in NameOps
  <2>1. call[t].op = "path" /\ call[t].path = serving[t].path
    BY <1>1, <1>2 DEF CallFits, NameOps, NoCall
  <2>2. QED
    BY <1>2, <2>1, AnswersAreTrue DEF NameOps
<1>3. CASE serving[t].op = "GetFileInfo"
  <2>1. call[t].op = "info" /\ call[t].inode = Context(t).inode
    BY <1>1, <1>3 DEF CallFits, NameOps, NoCall
  <2>2. QED
    BY <1>3, <2>1, AnswersAreTrue DEF NameOps
<1>4. CASE serving[t].op = "ReadDirectory"
  BY <1>1, <1>4 DEF CallFits, NameOps, NoCall
<1>5. CASE serving[t].op = "Read"
  <2>1. /\ call[t].op = "read" /\ call[t].inode = Context(t).inode
        /\ ~Context(t).is_directory
        /\ call[t].offset = serving[t].offset /\ call[t].size = serving[t].length
    BY <1>1, <1>5 DEF CallFits, NameOps, NoCall
  <2>2. QED
    BY <1>5, <2>1, AnswersAreTrue DEF NameOps, SeveralBlocks
<1>6. QED
  BY <1>2, <1>3, <1>4, <1>5

-----------------------------------------------------------------------------
(* Every step keeps IInv.                                                  *)

\* WinFsp calls a callback.
LEMMA BeginIInv ==
  ASSUME IInv, NEW t \in Threads, NEW r \in Requests, Begin(t, r)
  PROVE  IInv'
<1>1. /\ files' = files /\ call' = call /\ context' = context
      /\ serving' = [serving EXCEPT ![t] = r]
      /\ reply' = [reply EXCEPT ![t] = NoReply]
  BY DEF Begin
<1>2. call[t] = NoCall
  <2>1. serving[t].op = "none"
    BY DEF Begin, NoRequest, D!NoRequest
  <2>2. QED
    BY <2>1 DEF IInv, CallFits, NameOps
<1>3. NoReply \in Replies
  BY RepliesTyped
<1>4. /\ serving' \in [Threads -> Requests \union {NoRequest}]
      /\ reply' \in [Threads -> Replies]
  BY <1>1, <1>3 DEF IInv
<1>5. r.handle # 0 => context[r.handle] # Free
  BY DEF Begin, MayBegin
<1>6. ASSUME NEW u \in Threads PROVE CallFits(u)'
  <2>1. CASE u = t
    BY <1>1, <1>2, <2>1 DEF CallFits
  <2>2. CASE u # t
    BY <1>1, <2>2 DEF IInv, CallFits, Context
  <2>3. QED
    BY <2>1, <2>2
<1>7. ASSUME NEW u \in Threads PROVE ClosesAlone(u)'
  <2>1. CASE u = t
    <3>1. r.op = "Close" => \A v \in Threads : serving[v].handle # r.handle
      BY DEF Begin, MayBegin, InUse
    <3>2. QED
      BY <1>1, <2>1, <3>1 DEF ClosesAlone, IInv
  <2>2. CASE u # t
    <3>1. serving[u].op = "Close" => serving[u].handle # r.handle
      <4>1. serving[u].op = "Close" => serving[u].handle # 0
        BY Served DEF HandleOps
      <4>2. r.handle # 0 => ~(serving[u].op = "Close" /\ serving[u].handle = r.handle)
        BY DEF Begin, MayBegin, Closing
      <4>3. QED
        BY <4>1, <4>2
    <3>2. QED
      BY <1>1, <2>2, <3>1 DEF ClosesAlone, IInv
  <2>3. QED
    BY <2>1, <2>2
<1>8. \A p \in Places : ContextTrue(p)'
  BY <1>1 DEF IInv, ContextTrue
<1>9. ASSUME NEW u \in Threads, serving'[u].handle # 0
      PROVE  context'[serving'[u].handle] # Free
  BY <1>1, <1>5, <1>9 DEF IInv
<1>10. QED
  BY <1>1, <1>4, <1>6, <1>7, <1>8, <1>9 DEF IInv

\* A callback calls the volume.
LEMMA CallIInv ==
  ASSUME IInv, NEW t \in Threads, NEW c \in VolumeCalls, Calls(t, c), CallFits(t)'
  PROVE  IInv'
<1>1. /\ files' = files /\ call' = [call EXCEPT ![t] = c] /\ context' = context
      /\ serving' = serving /\ reply' = reply
  BY DEF Calls
<1>2. ASSUME NEW u \in Threads PROVE CallFits(u)'
  <2>1. CASE u # t
    BY <1>1, <2>1 DEF IInv, CallFits, Context
  <2>2. QED
    BY <2>1
<1>3. QED
  BY <1>1, <1>2 DEF IInv, ClosesAlone, ContextTrue

\* A callback returns, and leaves the contexts as they are.
LEMMA ReturnIInv ==
  ASSUME IInv, NEW t \in Threads, NEW r \in Replies, Return(t, r),
         files' = files, context' = context, call' = [call EXCEPT ![t] = NoCall]
  PROVE  IInv'
<1>1. /\ serving' = [serving EXCEPT ![t] = NoRequest]
      /\ reply' = [reply EXCEPT ![t] = r]
  BY DEF Return
<1>2. NoCall \in VolumeCalls /\ NoRequest.handle = 0 /\ NoRequest.op = "none"
  BY DEF NoCall, VolumeCalls, NoRequest, D!NoRequest
<1>3. ASSUME NEW u \in Threads PROVE CallFits(u)' /\ ClosesAlone(u)'
  <2>1. CASE u = t
    BY <1>1, <1>2, <2>1 DEF IInv, CallFits, ClosesAlone
  <2>2. CASE u # t
    <3>1. serving'[u] = serving[u] /\ call'[u] = call[u]
      BY <1>1, <2>2 DEF IInv
    <3>2. CallFits(u)'
      <4>1. Context(u)' = Context(u)
        BY <3>1 DEF Context
      <4>2. QED
        BY <3>1, <4>1 DEF IInv, CallFits
    <3>3. ClosesAlone(u)'
      <4>1. SUFFICES ASSUME serving[u].op = "Close", NEW v \in Threads \ {u}
                     PROVE  serving'[v].handle # serving[u].handle
        BY <3>1 DEF ClosesAlone
      <4>2. serving[u].handle # 0
        BY <4>1, Served DEF HandleOps
      <4>3. QED
        BY <1>1, <1>2, <4>1, <4>2 DEF IInv, ClosesAlone
    <3>4. QED
      BY <3>2, <3>3
  <2>3. QED
    BY <2>1, <2>2
<1>4. \A p \in Places : ContextTrue(p)'
  BY DEF IInv, ContextTrue
<1>5. \A u \in Threads : serving'[u].handle # 0 => context'[serving'[u].handle] # Free
  BY <1>1, <1>2 DEF IInv
<1>6. QED
  BY <1>1, <1>2, <1>3, <1>4, <1>5 DEF IInv

\* Open allocates a context at an address that no callback uses.
LEMMA AllocateIInv ==
  ASSUME IInv, NEW t \in Threads, NEW r \in Replies, Return(t, r),
         files' = files, call' = [call EXCEPT ![t] = NoCall],
         NEW i \in DOMAIN files, NEW p \in FreePlaces,
         context' = [context EXCEPT ![p] = NewContext(Info(i))]
  PROVE  IInv'
<1>1. p \in Places /\ context[p] = Free
  BY DEF FreePlaces
<1>2. /\ NewContext(Info(i)) \in Contexts /\ NewContext(Info(i)) # Free
      /\ NewContext(Info(i)) = [inode |-> i, is_directory |-> files[i].is_directory,
                               size |-> Len(files[i].bytes)]
  <2>1. Info(i) \in Infos /\ i # 0
    BY InfoType DEF IInv
  <2>2. QED
    BY <2>1 DEF NewContext, Infos, Contexts, Free, Info
<1>3. \A u \in Threads : serving[u].handle # 0 =>
        serving[u].handle # p /\ context'[serving[u].handle] = context[serving[u].handle]
  BY <1>1, Served DEF IInv
<1>4. /\ serving' = [serving EXCEPT ![t] = NoRequest]
      /\ reply' = [reply EXCEPT ![t] = r]
  BY DEF Return
<1>5. NoCall \in VolumeCalls /\ NoRequest.handle = 0 /\ NoRequest.op = "none"
  BY DEF NoCall, VolumeCalls, NoRequest, D!NoRequest
<1>6. ASSUME NEW u \in Threads PROVE CallFits(u)' /\ ClosesAlone(u)'
  <2>1. CASE u = t
    BY <1>4, <1>5, <2>1 DEF IInv, CallFits, ClosesAlone
  <2>2. CASE u # t
    <3>1. serving'[u] = serving[u] /\ call'[u] = call[u]
      BY <1>4, <2>2 DEF IInv
    <3>2. CallFits(u)'
      <4>1. serving[u].op \in HandleOps => Context(u)' = Context(u)
        BY <1>3, <3>1, Served DEF Context
      <4>2. QED
        BY <3>1, <4>1 DEF IInv, CallFits, HandleOps
    <3>3. ClosesAlone(u)'
      <4>1. SUFFICES ASSUME serving[u].op = "Close", NEW v \in Threads \ {u}
                     PROVE  serving'[v].handle # serving[u].handle
        BY <3>1 DEF ClosesAlone
      <4>2. serving[u].handle # 0
        BY <4>1, Served DEF HandleOps
      <4>3. QED
        BY <1>4, <1>5, <4>1, <4>2 DEF IInv, ClosesAlone
    <3>4. QED
      BY <3>2, <3>3
  <2>3. QED
    BY <2>1, <2>2
<1>7. ASSUME NEW q \in Places PROVE ContextTrue(q)'
  BY <1>1, <1>2 DEF IInv, ContextTrue
<1>8. \A u \in Threads : serving'[u].handle # 0 => context'[serving'[u].handle] # Free
  BY <1>3, <1>4, <1>5 DEF IInv
<1>9. context' \in [Places -> Contexts]
  BY <1>1, <1>2 DEF IInv
<1>10. QED
  BY <1>4, <1>5, <1>6, <1>7, <1>8, <1>9 DEF IInv

\* Close deletes a context that no other callback uses.
LEMMA CloseIInv == ASSUME IInv, NEW t \in Threads, Close(t) PROVE IInv'
<1> DEFINE p == serving[t].handle
<1>1. /\ serving[t].op = "Close" /\ call[t] = NoCall
      /\ files' = files /\ call' = call /\ context' = [context EXCEPT ![p] = Free]
      /\ serving' = [serving EXCEPT ![t] = NoRequest]
      /\ reply' = [reply EXCEPT ![t] = [NoReply EXCEPT !.status = "SUCCESS"]]
  BY DEF Close, Serves, ReturnStatus, Return
<1>2. p \in Places
  BY <1>1, Served DEF HandleOps
<1>3. \A u \in Threads \ {t} : serving[u].handle # p
  BY <1>1 DEF IInv, ClosesAlone
<1>4. NoRequest.handle = 0 /\ NoRequest.op = "none" /\ Free \in Contexts
  BY DEF NoRequest, D!NoRequest, Free, Contexts
<1> HIDE DEF p
<1>5. /\ serving' \in [Threads -> Requests \union {NoRequest}]
      /\ context' \in [Places -> Contexts] /\ reply' \in [Threads -> Replies]
  BY <1>1, <1>2, <1>4, RepliesTyped DEF IInv, Statuses
<1>6. ASSUME NEW u \in Threads PROVE CallFits(u)' /\ ClosesAlone(u)'
  <2>1. CASE u = t
    BY <1>1, <1>4, <2>1 DEF IInv, CallFits, ClosesAlone
  <2>2. CASE u # t
    <3>1. serving'[u] = serving[u] /\ call'[u] = call[u]
      BY <1>1, <2>2 DEF IInv
    <3>2. CallFits(u)'
      <4>1. serving[u].op \in HandleOps => Context(u)' = Context(u)
        BY <1>1, <1>3, <2>2, <3>1, Served DEF Context, IInv
      <4>2. QED
        BY <3>1, <4>1 DEF IInv, CallFits, HandleOps
    <3>3. ClosesAlone(u)'
      <4>1. SUFFICES ASSUME serving[u].op = "Close", NEW v \in Threads \ {u}
                     PROVE  serving'[v].handle # serving[u].handle
        BY <3>1 DEF ClosesAlone
      <4>2. serving[u].handle # 0
        BY <4>1, Served DEF HandleOps
      <4>3. QED
        BY <1>1, <1>4, <4>1, <4>2 DEF IInv, ClosesAlone
    <3>4. QED
      BY <3>2, <3>3
  <2>3. QED
    BY <2>1, <2>2
<1>7. ASSUME NEW q \in Places PROVE ContextTrue(q)'
  BY <1>1, <1>2 DEF IInv, ContextTrue
<1>8. ASSUME NEW u \in Threads, serving'[u].handle # 0
      PROVE  context'[serving'[u].handle] # Free
  <2>1. u # t /\ serving'[u] = serving[u]
    BY <1>1, <1>4, <1>8 DEF IInv
  <2>2. context'[serving[u].handle] = context[serving[u].handle]
    BY <1>1, <1>2, <1>3, <2>1, Served DEF IInv
  <2>3. QED
    BY <1>8, <2>1, <2>2 DEF IInv
<1>9. QED
  BY <1>1, <1>5, <1>6, <1>7, <1>8 DEF IInv

\* A piece of a file is a sequence of bytes.
LEMMA PortionType ==
  ASSUME NEW bytes \in Seq(Nat), NEW offset \in Nat, NEW size \in Nat
  PROVE  Portion(bytes, offset, size) \in Seq(Nat)
BY DEF Portion

\* No callback breaks IInv.
LEMMA StepIInv == ASSUME IInv, NEW t \in Threads, Step(t) PROVE IInv'
<1> USE DEF Statuses
<1>0. /\ call[t] = NoCall => call = [call EXCEPT ![t] = NoCall]
      /\ call[t] = NoCall \/ call[t] # NoCall
  BY DEF IInv
<1>1. ASSUME NEW status \in Statuses, ReturnStatus(t, status),
             UNCHANGED <<files, context>>, call' = [call EXCEPT ![t] = NoCall]
      PROVE  IInv'
  BY <1>1, RepliesTyped, ReturnIInv DEF ReturnStatus
<1>2. CASE GetVolumeInfo(t)
  <2>1. VolumeSize \in 0 .. Word - 1
    BY SizeAssumption, UnitAssumption DEF VolumeSize
  <2>2. [NoReply EXCEPT !.status = "SUCCESS", !.total = VolumeSize] \in Replies
    BY <2>1, RepliesTyped
  <2>3. QED
    BY <1>0, <1>2, <2>2, ReturnIInv DEF GetVolumeInfo, Serves
<1>3. CASE CallLookupPath(t)
  <2> DEFINE c == [NoCall EXCEPT !.op = "path", !.path = serving[t].path]
  <2>1. Calls(t, c) /\ serving[t].op \in NameOps
    BY <1>3 DEF CallLookupPath, Serves, NameOps
  <2>2. c \in VolumeCalls
    BY Served DEF NoCall, VolumeCalls
  <2>3. CallFits(t)'
    BY <2>1 DEF Calls, CallFits, IInv
  <2>4. QED
    BY <2>1, <2>2, <2>3, CallIInv
<1>4. CASE GetSecurityByName(t)
  <2>1. PICK answer \in VolumeAnswers(call[t]) :
          IF answer.ok
            THEN Return(t, [NoReply EXCEPT !.status = "SUCCESS",
                              !.info.is_directory = answer.info.is_directory])
            ELSE ReturnStatus(t, "OBJECT_NAME_NOT_FOUND")
    BY <1>4 DEF GetSecurityByName
  <2>2. /\ call[t] # NoCall /\ call' = [call EXCEPT ![t] = NoCall]
        /\ UNCHANGED <<files, context>> /\ serving[t].op \in NameOps
    BY <1>4 DEF GetSecurityByName, Continues, NameOps
  <2>3. CASE answer.ok
    <3>1. answer.info \in Infos
      BY <2>2, <2>3, Told, InfoType DEF IInv
    <3>2. answer.info.is_directory \in BOOLEAN
      BY <3>1 DEF Infos
    <3>3. [NoReply EXCEPT !.status = "SUCCESS",
             !.info.is_directory = answer.info.is_directory] \in Replies
      BY <3>2, RepliesTyped
    <3>4. QED
      BY <2>1, <2>2, <2>3, <3>3, ReturnIInv
  <2>4. QED
    BY <1>1, <2>1, <2>2, <2>3
<1>5. CASE Open(t)
  <2>1. PICK answer \in VolumeAnswers(call[t]) :
          IF answer.ok
            THEN \E p \in FreePlaces :
                   /\ context' = [context EXCEPT ![p] = NewContext(answer.info)]
                   /\ Return(t, [NoReply EXCEPT !.status = "SUCCESS", !.handle = p,
                                   !.info = FillFileInfo(answer.info)])
            ELSE ReturnStatus(t, "OBJECT_NAME_NOT_FOUND") /\ UNCHANGED context
    BY <1>5 DEF Open
  <2>2. /\ call[t] # NoCall /\ call' = [call EXCEPT ![t] = NoCall]
        /\ files' = files /\ serving[t].op \in NameOps
    BY <1>5 DEF Open, Continues, NameOps
  <2>3. CASE answer.ok
    <3>1. PICK p \in FreePlaces :
            /\ context' = [context EXCEPT ![p] = NewContext(answer.info)]
            /\ Return(t, [NoReply EXCEPT !.status = "SUCCESS", !.handle = p,
                            !.info = FillFileInfo(answer.info)])
      BY <2>1, <2>3
    <3>2. PICK i \in DOMAIN files : answer.info = Info(i)
      BY <2>2, <2>3, Told
    <3>3. FillFileInfo(answer.info) \in Attributes
      BY <3>2, InfoType, FillDescribes DEF IInv
    <3>4. [NoReply EXCEPT !.status = "SUCCESS", !.handle = p,
             !.info = FillFileInfo(answer.info)] \in Replies
      BY <3>3, RepliesTyped DEF FreePlaces
    <3>5. QED
      BY <2>2, <3>1, <3>2, <3>4, AllocateIInv
  <2>4. QED
    BY <1>1, <2>1, <2>2, <2>3
<1>6. CASE Close(t)
  BY <1>6, CloseIInv
<1>7. CASE RefuseRead(t)
  BY <1>0, <1>1, <1>7 DEF RefuseRead, Serves
<1>8. CASE CallReadFile(t)
  <2> DEFINE c == [op |-> "read", inode |-> Context(t).inode, path |-> <<>>,
                   offset |-> serving[t].offset, size |-> serving[t].length]
  <2>1. Calls(t, c) /\ serving[t].op = "Read" /\ ~Context(t).is_directory
    BY <1>8 DEF CallReadFile, Serves
  <2>2. c \in VolumeCalls
    <3>1. Context(t).inode \in Nat
      BY <2>1, Served DEF HandleOps, Contexts
    <3>2. QED
      BY <3>1, Served DEF VolumeCalls
  <2>3. CallFits(t)'
    <3>1. Context(t)' = Context(t) /\ serving' = serving /\ call'[t] = c
      BY <2>1 DEF Calls, Context, IInv
    <3>2. QED
      BY <2>1, <3>1 DEF CallFits
  <2>4. QED
    BY <2>1, <2>2, <2>3, CallIInv
<1>9. CASE Read(t)
  <2>1. PICK answer \in VolumeAnswers(call[t]) :
          IF answer.ok
            THEN Return(t, [NoReply EXCEPT !.status = "SUCCESS", !.bytes = answer.bytes])
            ELSE ReturnStatus(t, "UNSUCCESSFUL")
    BY <1>9 DEF Read
  <2>2. /\ call[t] # NoCall /\ call' = [call EXCEPT ![t] = NoCall]
        /\ UNCHANGED <<files, context>> /\ serving[t].op = "Read"
    BY <1>9 DEF Read, Continues
  <2>3. CASE answer.ok
    <3> DEFINE bytes == Portion(files[Context(t).inode].bytes,
                                serving[t].offset, serving[t].length)
    <3>1. /\ answer.bytes = bytes \/ answer.bytes \in [DOMAIN bytes -> DeviceBytes]
          /\ files[Context(t).inode].bytes \in Seq(Nat)
      BY <2>2, <2>3, Told, Served, InfoType DEF HandleOps, IInv
    <3>2. answer.bytes \in Seq(Nat)
      <4>1. bytes \in Seq(Nat)
        BY <3>1, Served, PortionType
      <4>2. DOMAIN bytes = 1 .. Len(bytes) /\ Len(bytes) \in Nat
        BY <4>1
      <4> HIDE DEF bytes
      <4>3. CASE answer.bytes \in [DOMAIN bytes -> DeviceBytes]
        <5>1. answer.bytes \in [1 .. Len(bytes) -> Nat]
          BY <4>2, <4>3, UntrueAssumption
        <5>2. QED
          BY <4>2, <5>1
      <4>4. QED
        BY <3>1, <4>1, <4>3
    <3>3. [NoReply EXCEPT !.status = "SUCCESS", !.bytes = answer.bytes] \in Replies
      BY <3>2, RepliesTyped
    <3>4. QED
      BY <2>1, <2>2, <2>3, <3>3, ReturnIInv
  <2>4. QED
    BY <1>1, <2>1, <2>2, <2>3
<1>10. CASE RefuseReadDirectory(t)
  BY <1>0, <1>1, <1>10 DEF RefuseReadDirectory, Serves
<1>11. CASE CallReadDirectory(t)
  <2> DEFINE c == [NoCall EXCEPT !.op = "list", !.inode = Context(t).inode]
  <2>1. Calls(t, c) /\ serving[t].op = "ReadDirectory" /\ Context(t).is_directory
    BY <1>11 DEF CallReadDirectory, Serves
  <2>2. c \in VolumeCalls
    <3>1. Context(t).inode \in Nat
      BY <2>1, Served DEF HandleOps, Contexts
    <3>2. NoCall \in VolumeCalls
      BY DEF NoCall, VolumeCalls
    <3>3. QED
      BY <3>1, <3>2 DEF VolumeCalls
  <2>3. CallFits(t)'
    <3>1. Context(t)' = Context(t) /\ serving' = serving /\ call'[t] = c
      BY <2>1 DEF Calls, Context, IInv
    <3>2. QED
      BY <2>1, <3>1 DEF CallFits
  <2>4. QED
    BY <2>1, <2>2, <2>3, CallIInv
<1>12. CASE ReadDirectory(t)
  <2>1. PICK answer \in VolumeAnswers(call[t]) :
          IF answer.ok
            THEN Return(t, [NoReply EXCEPT !.status = "SUCCESS",
                   !.entries = Transferred(answer.entries, serving[t].length)])
            ELSE ReturnStatus(t, "UNSUCCESSFUL")
    BY <1>12 DEF ReadDirectory
  <2>2. /\ call[t] # NoCall /\ call' = [call EXCEPT ![t] = NoCall]
        /\ UNCHANGED <<files, context>> /\ serving[t].op = "ReadDirectory"
    BY <1>12 DEF ReadDirectory, Continues
  <2>3. CASE answer.ok
    <3>1. [NoReply EXCEPT !.status = "SUCCESS",
             !.entries = Transferred(answer.entries, serving[t].length)] \in Replies
      BY TransferredNothing, RepliesTyped
    <3>2. QED
      BY <2>1, <2>2, <2>3, <3>1, ReturnIInv
  <2>4. QED
    BY <1>1, <2>1, <2>2, <2>3
<1>13. CASE CallGetFileInfo(t)
  <2> DEFINE c == [NoCall EXCEPT !.op = "info", !.inode = Context(t).inode]
  <2>1. Calls(t, c) /\ serving[t].op = "GetFileInfo"
    BY <1>13 DEF CallGetFileInfo, Serves
  <2>2. c \in VolumeCalls
    <3>1. Context(t).inode \in Nat
      BY <2>1, Served DEF HandleOps, Contexts
    <3>2. NoCall \in VolumeCalls
      BY DEF NoCall, VolumeCalls
    <3>3. QED
      BY <3>1, <3>2 DEF VolumeCalls
  <2>3. CallFits(t)'
    <3>1. Context(t)' = Context(t) /\ serving' = serving /\ call'[t] = c
      BY <2>1 DEF Calls, Context, IInv
    <3>2. QED
      BY <2>1, <3>1 DEF CallFits
  <2>4. QED
    BY <2>1, <2>2, <2>3, CallIInv
<1>14. CASE GetFileInfo(t)
  <2>1. PICK answer \in VolumeAnswers(call[t]) :
          IF answer.ok
            THEN Return(t, [NoReply EXCEPT !.status = "SUCCESS",
                                           !.info = FillFileInfo(answer.info)])
            ELSE ReturnStatus(t, "UNSUCCESSFUL")
    BY <1>14 DEF GetFileInfo
  <2>2. /\ call[t] # NoCall /\ call' = [call EXCEPT ![t] = NoCall]
        /\ UNCHANGED <<files, context>> /\ serving[t].op = "GetFileInfo"
    BY <1>14 DEF GetFileInfo, Continues
  <2>3. CASE answer.ok
    <3>1. answer.info \in Infos
      BY <2>2, <2>3, Told, Served, InfoType DEF HandleOps, IInv
    <3>2. [NoReply EXCEPT !.status = "SUCCESS",
             !.info = FillFileInfo(answer.info)] \in Replies
      BY <3>1, FillDescribes, RepliesTyped
    <3>3. QED
      BY <2>1, <2>2, <2>3, <3>2, ReturnIInv
  <2>4. QED
    BY <1>1, <2>1, <2>2, <2>3
<1>15. QED
  BY <1>2, <1>3, <1>4, <1>5, <1>6, <1>7, <1>8, <1>9, <1>10, <1>11, <1>12, <1>13, <1>14
     DEF Step

\* IInv is an invariant.
LEMMA AlwaysIInv == Spec => []IInv
<1>1. ASSUME IInv, [Next]_vars PROVE IInv'
  <2>1. CASE UNCHANGED vars
    BY <1>1, <2>1 DEF vars, IInv, CallFits, ClosesAlone, ContextTrue, Context
  <2>2. QED
    BY <1>1, <2>1, BeginIInv, StepIInv DEF Next
<1>2. QED
  BY InitIInv, <1>1, PTL DEF Spec

\* Every callback finds the context of its handle there until it returns, and what
\* a context says of its file is what the volume says.
THEOREM TypeCorrect == Spec => []TypeOK
<1>1. IInv => TypeOK
  <2>1. SUFFICES ASSUME IInv PROVE TypeOK
    OBVIOUS
  <2>2. ASSUME NEW t \in Threads, call[t] # NoCall PROVE serving[t] # NoRequest
    <3>1. serving[t].op # "none"
      BY <2>1, <2>2 DEF IInv, CallFits, NameOps
    <3>2. QED
      BY <2>1, <3>1, Served
  <2>3. QED
    BY <2>1, <2>2 DEF TypeOK, IInv, ContextTrue
<1>2. QED
  BY AlwaysIInv, <1>1, PTL

-----------------------------------------------------------------------------
(* The refinement of Drive.                                                *)

DriveNext == D!Next \/ \E t \in Threads : ListsNothing(t) \/ ReadsElsewhere(t)

\* What a Return is in Drive.
LEMMA ReturnReplies ==
  ASSUME IInv, NEW t \in Threads, NEW r, Return(t, r), files' = files
  PROVE  reply'[t] = r /\ D!Reply(t, serving[t].op, r)
BY DEF Return, IInv, D!Reply, NoRequest

\* A callback that fails and has changed no context.
LEMMA FailRefines ==
  ASSUME IInv, NEW t \in Threads, NEW status \in Statuses \ {"SUCCESS"},
         ReturnStatus(t, status), UNCHANGED <<files, context>>,
         serving[t].op # "none"
  PROVE  D!Next
<1> DEFINE r == [NoReply EXCEPT !.status = status]
<1>1. reply'[t] = r /\ D!Reply(t, serving[t].op, r)
  BY ReturnReplies DEF ReturnStatus
<1>2. r.status # "SUCCESS"
  BY DEF NoReply, D!NoReply
<1>3. serving[t] # D!NoRequest
  BY Served DEF NoRequest
<1>4. D!Fail(t)
  BY <1>1, <1>2, <1>3 DEF D!Fail
<1>5. QED
  BY <1>4 DEF D!Next

\* The handle that a callback uses is one file.
LEMMA HandleIsFile ==
  ASSUME IInv, NEW t \in Threads, serving[t].op \in HandleOps
  PROVE  [p \in Places |-> {context[p].inode} \ {0}][serving[t].handle] = {Context(t).inode}
<1>1. /\ serving[t].handle \in Places
      /\ Context(t).inode \in DOMAIN files
  BY Served
<1>2. Context(t).inode # 0
  BY <1>1, InfoType DEF IInv
<1>3. QED
  BY <1>1, <1>2 DEF Context

\* Every callback is a step of the drive, or none that shows; a volume's size in
\* bytes is a number of 64 bits.
LEMMA StepRefines ==
  ASSUME Blocks * BlockSize < Word, IInv, NEW t \in Threads, Step(t)
  PROVE  [DriveNext]_(D!vars)
<1> USE DEF Statuses, DriveNext
<1>1. ASSUME NEW c, Calls(t, c) PROVE [DriveNext]_(D!vars)
  BY <1>1 DEF Calls, D!vars
<1>2. CASE GetVolumeInfo(t)
  <2> DEFINE r == [NoReply EXCEPT !.status = "SUCCESS", !.total = VolumeSize]
  <2>1. /\ reply'[t] = r /\ D!Reply(t, "GetVolumeInfo", r)
    BY <1>2, ReturnReplies DEF GetVolumeInfo, Serves
  <2>2. VolumeSize = Blocks * BlockSize
    BY SizeAssumption, UnitAssumption DEF VolumeSize
  <2>3. r.status = "SUCCESS" /\ r.total = VolumeSize
    BY DEF NoReply, D!NoReply
  <2>4. D!GetVolumeInfo(t)
    BY <1>2, <2>1, <2>2, <2>3 DEF D!GetVolumeInfo, D!Succeeds, GetVolumeInfo
  <2>5. QED
    BY <2>4 DEF D!Next
<1>3. CASE CallLookupPath(t) \/ CallReadFile(t) \/ CallReadDirectory(t) \/ CallGetFileInfo(t)
  BY <1>1, <1>3 DEF CallLookupPath, CallReadFile, CallReadDirectory, CallGetFileInfo
<1>4. CASE GetSecurityByName(t)
  <2>1. PICK answer \in VolumeAnswers(call[t]) :
          IF answer.ok
            THEN Return(t, [NoReply EXCEPT !.status = "SUCCESS",
                              !.info.is_directory = answer.info.is_directory])
            ELSE ReturnStatus(t, "OBJECT_NAME_NOT_FOUND")
    BY <1>4 DEF GetSecurityByName
  <2>2. /\ call[t] # NoCall /\ UNCHANGED <<files, context>>
        /\ serving[t].op = "GetSecurityByName"
    BY <1>4 DEF GetSecurityByName, Continues
  <2>3. CASE answer.ok
    <3> DEFINE r == [NoReply EXCEPT !.status = "SUCCESS",
                                    !.info.is_directory = answer.info.is_directory]
               i == Resolve(Names(serving[t].path))
    <3>1. i \in DOMAIN files /\ answer.info = Info(i)
      BY <2>2, <2>3, Told DEF NameOps
    <3>2. reply'[t] = r /\ D!Reply(t, "GetSecurityByName", r)
      BY <2>1, <2>2, <2>3, ReturnReplies
    <3>3. r.status = "SUCCESS" /\ r.info.is_directory = files[i].is_directory
      BY <3>1 DEF NoReply, D!NoReply, D!NoAttributes, Info
    <3>4. D!FileAt(t) = i
      BY SameFiles DEF D!FileAt
    <3>5. D!GetSecurityByName(t)
      BY <2>2, <3>1, <3>2, <3>3, <3>4 DEF D!GetSecurityByName, D!Succeeds
    <3>6. QED
      BY <3>5 DEF D!Next
  <2>4. QED
    BY <2>1, <2>2, <2>3, FailRefines
<1>5. CASE Open(t)
  <2>1. PICK answer \in VolumeAnswers(call[t]) :
          IF answer.ok
            THEN \E p \in FreePlaces :
                   /\ context' = [context EXCEPT ![p] = NewContext(answer.info)]
                   /\ Return(t, [NoReply EXCEPT !.status = "SUCCESS", !.handle = p,
                                   !.info = FillFileInfo(answer.info)])
            ELSE ReturnStatus(t, "OBJECT_NAME_NOT_FOUND") /\ UNCHANGED context
    BY <1>5 DEF Open
  <2>2. call[t] # NoCall /\ files' = files /\ serving[t].op = "Open"
    BY <1>5 DEF Open, Continues
  <2>3. CASE answer.ok
    <3>1. PICK p \in FreePlaces :
            /\ context' = [context EXCEPT ![p] = NewContext(answer.info)]
            /\ Return(t, [NoReply EXCEPT !.status = "SUCCESS", !.handle = p,
                            !.info = FillFileInfo(answer.info)])
      BY <2>1, <2>3
    <3> DEFINE r == [NoReply EXCEPT !.status = "SUCCESS", !.handle = p,
                                    !.info = FillFileInfo(answer.info)]
               i == Resolve(Names(serving[t].path))
               handles == [q \in Places |-> {context[q].inode} \ {0}]
    <3>2. i \in DOMAIN files /\ answer.info = Info(i) /\ answer.info \in Infos
      BY <2>2, <2>3, Told, InfoType DEF NameOps, IInv
    <3>3. reply'[t] = r /\ D!Reply(t, "Open", r)
      BY <2>2, <3>1, ReturnReplies
    <3>4. r.status = "SUCCESS" /\ r.handle = p /\ r.info = FillFileInfo(Info(i))
      BY <3>2 DEF NoReply, D!NoReply
    <3>5. D!FileAt(t) = i /\ D!Info(i) = Info(i)
      BY SameFiles DEF D!FileAt
    <3>6. D!Describes(FillFileInfo(Info(i)), Info(i))
      BY <3>2, FillDescribes
    <3>7. handles[p] = {}
      BY <3>1 DEF FreePlaces, Free
    <3>8. handles' = [handles EXCEPT ![p] = {i}]
      <4>1. p \in Places /\ NewContext(answer.info).inode = i /\ i # 0
        BY <3>1, <3>2, InfoType DEF FreePlaces, NewContext, Info, IInv
      <4>2. QED
        BY <3>1, <4>1 DEF IInv
    <3>9. D!Open(t)
      BY <3>2, <3>3, <3>4, <3>5, <3>6, <3>7, <3>8 DEF D!Open, D!Succeeds
    <3>10. QED
      BY <3>9 DEF D!Next
  <2>4. QED
    BY <2>1, <2>2, <2>3, FailRefines
<1>6. CASE Close(t)
  <2> DEFINE r == [NoReply EXCEPT !.status = "SUCCESS"]
             p == serving[t].handle
             handles == [q \in Places |-> {context[q].inode} \ {0}]
  <2>1. /\ serving[t].op = "Close" /\ Return(t, r) /\ files' = files
        /\ context' = [context EXCEPT ![p] = Free]
    BY <1>6 DEF Close, Serves, ReturnStatus
  <2>2. reply'[t] = r /\ D!Reply(t, "Close", r)
    BY <2>1, ReturnReplies
  <2>3. r.status = "SUCCESS"
    BY DEF NoReply, D!NoReply
  <2>4. handles' = [handles EXCEPT ![p] = {}]
    <3>1. p \in Places
      BY <2>1, Served DEF HandleOps
    <3>2. QED
      BY <2>1, <3>1 DEF IInv, Free
  <2>5. D!Close(t)
    BY <2>2, <2>3, <2>4 DEF D!Close, D!Succeeds
  <2>6. QED
    BY <2>5 DEF D!Next
<1>7. CASE RefuseRead(t) \/ RefuseReadDirectory(t)
  BY <1>7, FailRefines DEF RefuseRead, RefuseReadDirectory, Serves
<1>8. CASE Read(t)
  <2>1. PICK answer \in VolumeAnswers(call[t]) :
          IF answer.ok
            THEN Return(t, [NoReply EXCEPT !.status = "SUCCESS", !.bytes = answer.bytes])
            ELSE ReturnStatus(t, "UNSUCCESSFUL")
    BY <1>8 DEF Read
  <2>2. call[t] # NoCall /\ UNCHANGED <<files, context>> /\ serving[t].op = "Read"
    BY <1>8 DEF Read, Continues
  <2>3. CASE answer.ok
    <3> DEFINE r == [NoReply EXCEPT !.status = "SUCCESS", !.bytes = answer.bytes]
               i == Context(t).inode
               bytes == Portion(files[i].bytes, serving[t].offset, serving[t].length)
               handles == [q \in Places |-> {context[q].inode} \ {0}]
    <3>1. /\ ~files[i].is_directory /\ ~Context(t).is_directory
          /\ bytes = D!Portion(files[i].bytes, serving[t].offset, serving[t].length)
          /\ \/ answer.bytes = bytes
             \/ /\ "read" \in Untrue /\ SeveralBlocks(serving[t], bytes)
                /\ answer.bytes \in [DOMAIN bytes -> DeviceBytes]
      BY <2>2, <2>3, Told, Served, SameFiles DEF HandleOps
    <3>2. reply'[t] = r /\ D!Reply(t, "Read", r)
      BY <2>1, <2>2, <2>3, ReturnReplies
    <3>3. r.status = "SUCCESS" /\ r.bytes = answer.bytes
      BY DEF NoReply, D!NoReply
    <3>4. CASE answer.bytes = bytes
      <4>1. i \in handles[serving[t].handle]
        BY <2>2, HandleIsFile DEF HandleOps
      <4>2. D!Read(t)
        BY <2>2, <3>1, <3>2, <3>3, <3>4, <4>1 DEF D!Read, D!Succeeds
      <4>3. QED
        BY <4>2 DEF D!Next
    <3>5. CASE answer.bytes # bytes
      BY <2>2, <3>1, <3>2, <3>5 DEF ReadsElsewhere
    <3>6. QED
      BY <3>4, <3>5
  <2>4. QED
    BY <2>1, <2>2, <2>3, FailRefines
<1>9. CASE ReadDirectory(t)
  <2>1. PICK answer \in VolumeAnswers(call[t]) :
          IF answer.ok
            THEN Return(t, [NoReply EXCEPT !.status = "SUCCESS",
                   !.entries = Transferred(answer.entries, serving[t].length)])
            ELSE ReturnStatus(t, "UNSUCCESSFUL")
    BY <1>9 DEF ReadDirectory
  <2>2. /\ call[t] # NoCall /\ UNCHANGED <<files, context>>
        /\ serving[t].op = "ReadDirectory"
    BY <1>9 DEF ReadDirectory, Continues
  <2>3. CASE answer.ok
    <3> DEFINE r == [NoReply EXCEPT !.status = "SUCCESS", !.entries = <<>>]
    <3>1. /\ reply'[t] = r /\ D!Reply(t, "ReadDirectory", r)
          /\ Context(t).is_directory
      BY <2>1, <2>2, <2>3, Told, TransferredNothing, ReturnReplies
    <3>2. NoReply.entries = <<>>
      BY DEF NoReply, D!NoReply
    <3>3. r = [NoReply EXCEPT !.status = "SUCCESS"]
      BY <3>2, Zenon DEF NoReply, D!NoReply
    <3>4. QED
      BY <2>2, <3>1, <3>3 DEF ListsNothing
  <2>4. QED
    BY <2>1, <2>2, <2>3, FailRefines
<1>10. CASE GetFileInfo(t)
  <2>1. PICK answer \in VolumeAnswers(call[t]) :
          IF answer.ok
            THEN Return(t, [NoReply EXCEPT !.status = "SUCCESS",
                                           !.info = FillFileInfo(answer.info)])
            ELSE ReturnStatus(t, "UNSUCCESSFUL")
    BY <1>10 DEF GetFileInfo
  <2>2. call[t] # NoCall /\ UNCHANGED <<files, context>> /\ serving[t].op = "GetFileInfo"
    BY <1>10 DEF GetFileInfo, Continues
  <2>3. CASE answer.ok
    <3> DEFINE i == Context(t).inode
               r == [NoReply EXCEPT !.status = "SUCCESS", !.info = FillFileInfo(Info(i))]
               handles == [q \in Places |-> {context[q].inode} \ {0}]
    <3>1. answer.info = Info(i) /\ Info(i) \in Infos
      BY <2>2, <2>3, Told, Served, InfoType DEF HandleOps, IInv
    <3>2. reply'[t] = r /\ D!Reply(t, "GetFileInfo", r)
      BY <2>1, <2>2, <2>3, <3>1, ReturnReplies
    <3>3. r.status = "SUCCESS" /\ r.info = FillFileInfo(Info(i))
      BY DEF NoReply, D!NoReply
    <3>4. i \in handles[serving[t].handle]
      BY <2>2, HandleIsFile DEF HandleOps
    <3>5. D!Describes(FillFileInfo(Info(i)), D!Info(i))
      BY <3>1, FillDescribes, SameFiles
    <3>6. D!GetFileInfo(t)
      BY <2>2, <3>2, <3>3, <3>4, <3>5 DEF D!GetFileInfo, D!Succeeds
    <3>7. QED
      BY <3>6 DEF D!Next
  <2>4. QED
    BY <2>1, <2>2, <2>3, FailRefines
<1>11. QED
  BY <1>2, <1>3, <1>4, <1>5, <1>6, <1>7, <1>8, <1>9, <1>10 DEF Step

\* Whatever callbacks are under way, a handle is one file from its Open to its
\* Close, what is read or told through it is the truth about that file, and a
\* callback that fails leaves nothing behind: the drive that WinFsp shows is Drive,
\* but for listings, which are empty, and for reads of several blocks.
THEOREM DriveRefinement ==
  ASSUME Blocks * BlockSize < Word PROVE Spec => ImplementsDrive
<1>1. Init => D!Init
  BY DEF Init, D!Init, Free, NoRequest, NoReply
<1>2. ASSUME IInv, [Next]_vars PROVE [DriveNext]_(D!vars)
  <2>1. CASE UNCHANGED vars
    BY <2>1 DEF vars, D!vars
  <2>2. ASSUME NEW t \in Threads, NEW r \in Requests, Begin(t, r)
        PROVE  [DriveNext]_(D!vars)
    <3>1. r.handle # 0 =>
            [p \in Places |-> {context[p].inode} \ {0}][r.handle] # {}
      <4>1. SUFFICES ASSUME r.handle # 0
                     PROVE  [p \in Places |-> {context[p].inode} \ {0}][r.handle] # {}
        OBVIOUS
      <4>2. r.handle \in Places /\ context[r.handle] # Free
        BY <2>2, <4>1, RequestsAssumption DEF Begin, MayBegin
      <4>3. context[r.handle].inode # 0
        BY <1>2, <4>2, InfoType DEF IInv, ContextTrue
      <4>4. QED
        BY <4>2, <4>3
    <3>2. D!Begin(t, r)
      BY <2>2, <3>1 DEF Begin, D!Begin, NoRequest, NoReply
    <3>3. QED
      BY <3>2 DEF DriveNext, D!Next
  <2>3. QED
    BY <1>2, <2>1, <2>2, StepRefines DEF Next
<1>3. QED
  BY AlwaysIInv, <1>1, <1>2, PTL DEF Spec, ImplementsDrive, DriveNext
=============================================================================
