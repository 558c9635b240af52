---------------------------- MODULE ServedDrive ----------------------------
(***************************************************************************)
(* What a user of wamount sees: a drive that appears at most once, serves  *)
(* requests while it is visible and goes away only when no request is      *)
(* being served, unless the process is killed under it.                    *)
(***************************************************************************)
CONSTANT Workers   \* the threads that serve requests

VARIABLES
  drive,    \* "absent", then "visible", then "gone"
  serving,  \* the workers inside a request
  ended     \* how the process ended: "no", "exited", "killed"

vars == <<drive, serving, ended>>

Init == drive = "absent" /\ serving = {} /\ ended = "no"

Appear ==
  /\ ended = "no" /\ drive = "absent"
  /\ drive' = "visible"
  /\ UNCHANGED <<serving, ended>>

\* Either the drive was visible, or a mount that failed was undone.
Vanish ==
  /\ ended = "no" /\ drive # "gone" /\ serving = {}
  /\ drive' = "gone"
  /\ UNCHANGED <<serving, ended>>

Begin(w) ==
  /\ ended = "no" /\ drive = "visible" /\ w \notin serving
  /\ serving' = serving \union {w}
  /\ UNCHANGED <<drive, ended>>

Finish(w) ==
  /\ ended = "no" /\ w \in serving
  /\ serving' = serving \ {w}
  /\ UNCHANGED <<drive, ended>>

\* The process exits by itself: no drive is left behind.
Exit ==
  /\ ended = "no" /\ drive # "visible"
  /\ ended' = "exited"
  /\ UNCHANGED <<drive, serving>>

Kill ==
  /\ ended = "no"
  /\ ended' = "killed"
  /\ UNCHANGED <<drive, serving>>

Next ==
  \/ Appear \/ Vanish \/ Exit \/ Kill
  \/ \E w \in Workers : Begin(w) \/ Finish(w)

Spec == Init /\ [][Next]_vars
=============================================================================
