------------------------------ MODULE MCArrays ------------------------------
(***************************************************************************)
(* Instances of Arrays for TLC, with bytes of two bits. The host has       *)
(*                                                                         *)
(*   struct Rec {                                                          *)
(*     int16_t *items;             // 1, a dynamic array, kept at 7 or 8   *)
(*     int8_t pair[2];             // 2 and 3, for reading                 *)
(*     struct Part *parts[1];      // 4, points to a struct at 13          *)
(*     bool *flag;                 // 5, points to a bool at 15            *)
(*     uint64_t *wide[1];          // 6, points to an integer at 16        *)
(*   };                                                                    *)
(*                                                                         *)
(* whose pair[0] also has two bit fields, and, at 12, a read-only object   *)
(* with one bit field. A struct Part takes two bytes.                      *)
(***************************************************************************)
EXTENDS Arrays, TLC

Signed(bytes) == [tag |-> "int", width |-> bytes, signed |-> TRUE]
BitOf(bit) == [tag |-> "bit", width |-> 1, bit |-> bit]

Array(element, dynamic, size, pointers, readonly) ==
  [tag |-> "array", dynamic |-> dynamic, size |-> size, element |-> element,
   elements_are_pointers |-> pointers, elements_are_readonly |-> readonly]

Field(kind, offset, pointer) ==
  [kind |-> kind, offset |-> offset, pointer |-> pointer, readonly |-> FALSE]

Items == Field(Array(Signed(2), TRUE, 0, FALSE, FALSE), 0, TRUE)
Pair  == Field(Array(Signed(1), FALSE, 2, FALSE, TRUE), 1, FALSE)
Parts == Field(Array([tag |-> "struct", width |-> 2], FALSE, 1, TRUE, FALSE), 3, FALSE)
Flag  == Field(Boolean, 4, TRUE)
Wide  == Field(Array([tag |-> "int", width |-> 8, signed |-> FALSE], FALSE, 1, TRUE, FALSE), 5, FALSE)

MCAddresses == 1 .. 23

MCLuaVals == {-2, 8, Nil}

MCIndices == -1 .. 3

MCRec ==
  [data |-> 1, readonly |-> FALSE,
   fields |-> {Field(BitOf(0), 1, FALSE), Field(BitOf(1), 1, FALSE), Items, Pair, Parts, Flag, Wide}]

MCHead == [data |-> 12, readonly |-> TRUE, fields |-> {Field(BitOf(0), 0, FALSE)}]

MCObjects == {MCRec, MCHead}

\* The host's Rec is read-only for the script.
MCObjectsReadonly == {[MCRec EXCEPT !.readonly = TRUE]}

MCCapacity == Items :> 2 @@ Pair :> 2 @@ Parts :> 1 @@ Wide :> 1

MCMemories == {1 :> 7 @@ 4 :> 13 @@ 5 :> 15 @@ 6 :> 16 @@ [a \in {2, 3} \cup (7 .. 23) |-> 0]}

MCHomes == Items :> {7, 8} @@ Pair :> {} @@ Parts :> {} @@ Wide :> {}

\* The host's declarations are of memory as the theorems of ArraysProofs have it.
ASSUME MCHostLayout == HostLayout
=============================================================================
