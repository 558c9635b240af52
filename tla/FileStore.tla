----------------------------- MODULE FileStore -----------------------------
(***************************************************************************)
(* What WinFspAPFS relies on when it calls APFSVolume: every call is       *)
(* answered, by a failure or by the truth about the files of the volume    *)
(* (Answers, of module Files).                                             *)
(***************************************************************************)
EXTENDS Files

CONSTANTS
  Threads,  \* threads that call the volume
  Calls     \* records [op, inode, path, offset, size]

VARIABLES
  busy,     \* busy[t]: t is inside a call
  call,     \* call[t]: t's current or last call
  out       \* out[t]: what t's last call returned; nothing yet inside a call

vars == <<files, busy, call, out>>

-----------------------------------------------------------------------------
Init ==
  /\ busy = [t \in Threads |-> FALSE]
  /\ call \in [Threads -> Calls]
  /\ out = [t \in Threads |-> Nothing]

Ask(t, c) ==
  /\ ~busy[t]
  /\ busy' = [busy EXCEPT ![t] = TRUE]
  /\ call' = [call EXCEPT ![t] = c]
  /\ out' = [out EXCEPT ![t] = Nothing]
  /\ UNCHANGED files

Answer(t) ==
  /\ busy[t]
  /\ busy' = [busy EXCEPT ![t] = FALSE]
  /\ \E r \in Answers(call[t]) : out' = [out EXCEPT ![t] = r]
  /\ UNCHANGED <<files, call>>

\* A call that needs no block of the device is answered in the same step.
AnswerAtOnce(t, c) ==
  /\ ~busy[t]
  /\ call' = [call EXCEPT ![t] = c]
  /\ \E r \in Answers(c) : out' = [out EXCEPT ![t] = r]
  /\ UNCHANGED <<files, busy>>

Next ==
  \E t \in Threads :
    \/ \E c \in Calls : Ask(t, c) \/ AnswerAtOnce(t, c)
    \/ Answer(t)

Spec == Init /\ [][Next]_vars
=============================================================================
