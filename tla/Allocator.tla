----------------------------- MODULE Allocator -----------------------------
(***************************************************************************)
(* What mem::Pool promises its callers: memory is handed to one user at a  *)
(* time, and is given back to the heap only while nobody uses it.          *)
(***************************************************************************)
CONSTANT Block   \* the addresses blocks may have

VARIABLES
  memory,  \* the blocks taken from the heap
  inUse    \* those in which an object is made, lives or dies

Init == memory \subseteq Block /\ inUse = {}

(* Memory may be taken from the heap for the purpose. *)
Acquire(b) ==
  /\ b \notin inUse
  /\ inUse' = inUse \cup {b}
  /\ memory' = memory \cup {b}

Release(b) ==
  /\ b \in inUse
  /\ inUse' = inUse \ {b}
  /\ UNCHANGED memory

Reserve(b) ==
  /\ memory' = memory \cup {b}
  /\ UNCHANGED inUse

GiveBack(b) ==
  /\ b \notin inUse
  /\ memory' = memory \ {b}
  /\ UNCHANGED inUse

Next ==
  \E b \in Block : Acquire(b) \/ Release(b) \/ Reserve(b) \/ GiveBack(b)

Spec == Init /\ [][Next]_<<memory, inUse>>
=============================================================================
