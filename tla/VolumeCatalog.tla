---------------------------- MODULE VolumeCatalog ----------------------------
(***************************************************************************)
(* What a user of APFSContainer counts on: asking for a slot's volume      *)
(* gives the volume that is there or nothing.  Once a volume has been      *)
(* given, asking for its slot gives the same object for good; a failure    *)
(* leaves no trace.                                                        *)
(***************************************************************************)
EXTENDS Naturals

CONSTANTS
  Indices,  \* what a volume may be asked for by
  Objects   \* names of APFSVolume objects

VARIABLES
  slots,    \* slots[i]: the root of the volume in slot i, a set of at most one
  catalog,  \* catalog[i]: what slot i has been found to be, at most one object
  asked,    \* the slot that is being looked at, at most one
  reply     \* what the last request gave, at most one object

vars == <<slots, catalog, asked, reply>>

Init ==
  /\ catalog = [i \in Indices |-> {}]
  /\ asked = {}
  /\ reply = {}

\* A slot that has been found is not looked at again.
ServeAgain(i) ==
  /\ asked = {} /\ catalog[i] # {}
  /\ reply' = catalog[i]
  /\ UNCHANGED <<slots, catalog, asked>>

Refuse(i) ==
  /\ asked = {} /\ slots[i] = {}
  /\ reply' = {}
  /\ UNCHANGED <<slots, catalog, asked>>

Ask(i) ==
  /\ asked = {} /\ catalog[i] = {}
  /\ asked' = {i}
  /\ reply' = {}
  /\ UNCHANGED <<slots, catalog>>

\* A volume with that root is found: a new object.
FindRoot(i, root) ==
  /\ asked = {i} /\ asked' = {}
  /\ \E o \in Objects :
       /\ \A j \in Indices : \A v \in catalog[j] : v.object # o
       /\ reply' = {[object |-> o, root |-> root]}
       /\ catalog' = [catalog EXCEPT ![i] = reply']
  /\ UNCHANGED slots

Find(i) == \E root \in slots[i] : FindRoot(i, root)

Fail(i) ==
  /\ asked = {i} /\ asked' = {}
  /\ reply' = {}
  /\ UNCHANGED <<slots, catalog>>

Next ==
  \E i \in Indices : ServeAgain(i) \/ Refuse(i) \/ Ask(i) \/ Find(i) \/ Fail(i)
=============================================================================
