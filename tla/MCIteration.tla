----------------------------- MODULE MCIteration -----------------------------
(***************************************************************************)
(* An instance of Iteration for TLC: four fields of a struct, that the     *)
(* host declares in any order while a script loops over it, one of them of *)
(* a type that a script cannot read.                                       *)
(***************************************************************************)
EXTENDS Iteration, TLC

CONSTANTS A, B

Decl(name, offset) ==
  [name |-> name, offset |-> offset, kind |-> "primitive", type |-> Nil,
   getter |-> FALSE, size |-> 0, bit |-> 0]

\* The order by name is not the order by offset.
MCDecls == {Decl(1, 2), Decl(2, 3), Decl(3, 0), Decl(4, 1), [Decl(2, 1) EXCEPT !.kind = "bitfield", !.size = 1]}

MCNameLength == [n \in {A, B} \cup (1 .. 4) |-> 1]

MCMaxFields == A :> 4 @@ B :> 1
=============================================================================
