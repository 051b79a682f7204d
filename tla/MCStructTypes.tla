--------------------------- MODULE MCStructTypes ---------------------------
(***************************************************************************)
(* Instances of StructTypes for TLC: three struct types, and declarations  *)
(* of each kind, among them two for one name and some that are refused.    *)
(***************************************************************************)
EXTENDS StructTypes, TLC

CONSTANTS A, B, C

Decl(name, offset, kind, type) ==
  [name |-> name, offset |-> offset, kind |-> kind, type |-> type,
   getter |-> FALSE, size |-> 0, bit |-> 0]

MCDecls == {
  Decl(1, 2, "primitive", Nil),
  Decl(9, 0, "primitive", Nil),                           \* a name too long
  Decl(2, 1, "struct", A),
  Decl(1, 1, "struct", B),
  Decl(3, 0, "struct", Nil),                              \* no type name
  [Decl(3, 0, "structs", A) EXCEPT !.size = 2],
  [Decl(3, 0, "structs", Nil) EXCEPT !.size = 2],         \* no type name
  [Decl(2, 2, "array", Nil) EXCEPT !.getter = TRUE],
  Decl(3, 1, "array", Nil),                               \* neither
  [Decl(4, 0, "bitfield", Nil) EXCEPT !.size = 1, !.bit = 7],
  [Decl(4, 0, "bitfield", Nil) EXCEPT !.size = 1, !.bit = 8],
  Decl(4, 0, "bitfield", Nil)}                            \* no integer type

\* In a buffer of 4 a name of 3 fits, and C and 9 do not.
MCNameLength == A :> 1 @@ B :> 3 @@ C :> 4 @@ 1 :> 1 @@ 2 :> 2 @@ 3 :> 3 @@ 4 :> 1 @@ 9 :> 4

\* Enough of A for the middle of a list, one of B to nest definitions.
MCMaxFields == A :> 3 @@ B :> 1 @@ C :> 1
=============================================================================
