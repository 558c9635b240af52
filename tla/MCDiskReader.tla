---------------------------- MODULE MCDiskReader ----------------------------
(* Small instances of DiskReader: 16-valued words and 8-valued DWORDs.     *)
EXTENDS DiskReaderHistory

\* Inside, at and past the end of a disk of 4, 6 or 8 bytes; nothing wraps.
PlainRequests ==
  {[start |-> 0, count |-> 1, size |-> 2], [start |-> 1, count |-> 1, size |-> 2],
   [start |-> 1, count |-> 2, size |-> 2]}

\* Block 9 wraps onto byte 2, 8 blocks wrap to no byte at all, and block 7 ends
\* at the last byte a word can say, where SetFilePointerEx refuses to go.
WrappingRequests ==
  {[start |-> 9, count |-> 1, size |-> 2], [start |-> 1, count |-> 8, size |-> 2],
   [start |-> 7, count |-> 1, size |-> 2]}

\* As many bytes as a DWORD wraps at, on a disk that has them: ReadFile is asked
\* for none.
LongRequests == {[start |-> 0, count |-> 4, size |-> 2]}

\* What the program asks of readBlock: one block at a time.
BlockRequests == {r \in PlainRequests \cup WrappingRequests : r.count = 1}

SharedRequests == PlainRequests \cup WrappingRequests \cup LongRequests
=============================================================================
