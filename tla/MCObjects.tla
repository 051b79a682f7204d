----------------------------- MODULE MCObjects -----------------------------
(***************************************************************************)
(* Instances of Objects for TLC. The host has one Outer struct at 1 and    *)
(* one Leaf at 3:                                                          *)
(*                                                                         *)
(*   struct Leaf  { int a; };                                              *)
(*   struct Outer { const Leaf *ref; Leaf sub; };                          *)
(*                                                                         *)
(* and malloc has one block, for a Leaf or for an Outer.                   *)
(***************************************************************************)
EXTENDS Objects, TLC

CONSTANTS Outer, Leaf

MCTypes == {Outer, Leaf}

Scalar(name, offset) ==
  [name |-> name, kind |-> "scalar", type |-> Nil, offset |-> offset,
   pointer |-> FALSE, readonly |-> FALSE]

Struct(name, offset) ==
  [name |-> name, kind |-> "struct", type |-> Leaf, offset |-> offset,
   pointer |-> FALSE, readonly |-> FALSE]

Pointer(name, offset) ==
  [name |-> name, kind |-> "struct", type |-> Leaf, offset |-> offset,
   pointer |-> TRUE, readonly |-> TRUE]

MCFields ==
  Outer :> {Pointer("ref", 0), Struct("sub", 1)} @@ Leaf :> {Scalar("a", 0)}

\* The struct field comes first, as in struct Outer { Leaf sub; ... }.
MCFieldsSubFirst ==
  Outer :> {Struct("sub", 0), Pointer("ref", 1)} @@ Leaf :> {Scalar("a", 0)}

MCSize == Outer :> 2 @@ Leaf :> 1

MCHostData == {<<Outer, 1>>, <<Leaf, 3>>}

MCHostLeaf == {<<Leaf, 3>>}

\* malloc has a block for a Leaf, or one for an Outer.
MCExtentLeaf == 1 :> {1, 2} @@ 3 :> {3} @@ 4 :> {4}

MCExtentOuter == 3 :> {3} @@ 4 :> {4, 5}

\* Userdata and variables are interchangeable in the safety runs.
Symmetry == Permutations(Handles) \cup Permutations(Slots)
=============================================================================
