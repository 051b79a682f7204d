------------------------------ MODULE Traversal ------------------------------
(***************************************************************************)
(* What pairs promises, of an object (object.c) and of an array (array.c): *)
(* the loop visits keys in ascending order, leaves out none that is there  *)
(* when its turn comes, and is done when no key is left. Keys come and go  *)
(* while the loop runs: the host declares fields and changes counts.       *)
(***************************************************************************)
EXTENDS Naturals

CONSTANT Keys  \* the keys there may be, all positive

VARIABLES
  keys,   \* the keys there are now
  at,     \* the key the loop is at, 0 before the first
  status  \* of the loop

vars == <<keys, at, status>>

Left == {k \in keys : k > at}

Begin ==
  /\ status # "running"
  /\ status' = "running"
  /\ at' = 0

Visit ==
  /\ status = "running"
  /\ \E k \in Left : (\A j \in Left : k <= j) /\ at' = k
  /\ UNCHANGED status

Finish ==
  /\ status = "running"
  /\ Left = {}
  /\ status' = "done"
  /\ at' = 0

\* The body of the loop breaks out of it, or there is an error.
Stop ==
  /\ status = "running"
  /\ status' = "stopped"
  /\ at' = 0

Init ==
  /\ keys \subseteq Keys
  /\ at = 0
  /\ status = "idle"

Next ==
  /\ keys' \subseteq Keys
  /\ Begin \/ Visit \/ Finish \/ Stop \/ UNCHANGED <<at, status>>

Spec == Init /\ [][Next]_vars

\* A loop that is carried on comes to an end.
LoopEnds == status = "running" ~> status # "running"
=============================================================================
