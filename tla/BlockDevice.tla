---------------------------- MODULE BlockDevice ----------------------------
(***************************************************************************)
(* What the callers of DiskReader rely on (APFSContainer::readBlock and    *)
(* everything above it): a read is one atomic step that either fails or    *)
(* delivers exactly the bytes of the blocks that were asked for.  There is *)
(* no file position here, so there is nothing that two readers share.      *)
(*                                                                         *)
(* The bytes of a device are told apart by their offset alone: a buffer    *)
(* filled from offset f with l bytes is the record [from |-> f, len |-> l].*)
(***************************************************************************)
EXTENDS Naturals

CONSTANTS
  Threads,   \* threads that call the reader
  Requests   \* the (start_block, count, block_size) arguments they pass

VARIABLES
  phase,     \* phase[t]: "idle", or "busy" inside a call
  req,       \* req[t]: the arguments of t's current or last call
  ret        \* ret[t]: what t's last call returned and left in its buffer

vars == <<phase, req, ret>>

Failed == [ok |-> FALSE, from |-> 0, len |-> 0]

\* The bytes a caller means by its arguments, in unbounded arithmetic.
Asked(r) == [ok |-> TRUE, from |-> r.start * r.size, len |-> r.count * r.size]

Init ==
  /\ phase = [t \in Threads |-> "idle"]
  /\ req \in [Threads -> Requests]
  /\ ret = [t \in Threads |-> Failed]

\* t calls readBlock or readBlocks.
Ask(t, r) ==
  /\ phase[t] = "idle"
  /\ phase' = [phase EXCEPT ![t] = "busy"]
  /\ req' = [req EXCEPT ![t] = r]
  /\ UNCHANGED ret

\* The call returns: true with the bytes asked for, or false.
Answer(t) ==
  /\ phase[t] = "busy"
  /\ phase' = [phase EXCEPT ![t] = "idle"]
  /\ \E a \in {Failed, Asked(req[t])} : ret' = [ret EXCEPT ![t] = a]
  /\ UNCHANGED req

\* A call that is refused at once (the device is not open, or the read would
\* pass its end) returns in the step that makes it.
Refuse(t, r) ==
  /\ phase[t] = "idle"
  /\ req' = [req EXCEPT ![t] = r]
  /\ ret' = [ret EXCEPT ![t] = Failed]
  /\ UNCHANGED phase

Next ==
  \E t \in Threads :
    \/ \E r \in Requests : Ask(t, r) \/ Refuse(t, r)
    \/ Answer(t)

Spec == Init /\ [][Next]_vars
=============================================================================
