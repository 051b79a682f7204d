------------------------------- MODULE Access -------------------------------
(***************************************************************************)
(* Scalar fields of object.c, down to the bits: the ranges of integers,    *)
(* booleans and bit fields as __newindex stores them and __index reads     *)
(* them back. Arrays has the same kinds of elements.                       *)
(*                                                                         *)
(* Memory is a function from addresses to bytes; a pointer takes one       *)
(* address. A place is a scalar in memory: its kind and its address.       *)
(***************************************************************************)
EXTENDS Integers, FiniteSets

CONSTANTS
  ByteBits,   \* the bits of a byte: 8 in the code
  Addresses,  \* the host's memory
  Objects,    \* the objects the script has been given
  LuaVals,    \* the values the script assigns
  True, False, Nil

VARIABLES
  mem,   \* the host's memory
  known  \* what the script assigned last, and nothing has been assigned over

Power(b, n) == LET p[i \in 0 .. n] == IF i = 0 THEN 1 ELSE b * p[i - 1] IN p[n]

Byte == Power(2, ByteBits)

\* The scalar kinds of LuastructType. A bit field lies in an unsigned integer.
Integral == [tag : {"int"}, width : {1, 2, 4, 8}, signed : BOOLEAN]
BitField == [tag : {"bit"}, width : {1, 2, 4}, bit : Nat]
Boolean  == [tag |-> "bool", width |-> 1]
Scalars  == Integral \cup {Boolean} \cup {k \in BitField : k.bit < ByteBits * k.width}

ASSUME AccessAssumption ==
  /\ ByteBits \in Nat \ {0}
  /\ Addresses \subseteq Nat
  /\ \A o \in Objects : o.readonly \in BOOLEAN
  /\ LuaVals \subseteq Int \cup {True, False, Nil}

-----------------------------------------------------------------------------
(***************************************************************************)
(* Integers in memory, the low byte first.                                 *)
(***************************************************************************)
Word(m, a, width) ==
  LET low[i \in 0 .. width] ==
        IF i = 0 THEN 0 ELSE low[i - 1] + m[a + i - 1] * Power(Byte, i - 1)
  IN  low[width]

PutWord(m, a, width, w) ==
  [x \in Addresses |->
     IF x \in a .. a + width - 1 THEN (w \div Power(Byte, x - a)) % Byte ELSE m[x]]

Span(kind) == Power(Byte, kind.width)

InRange(kind, v) ==
  IF kind.signed THEN -(Span(kind) \div 2) <= v /\ v < Span(kind) \div 2
  ELSE 0 <= v /\ v < Span(kind)

\* luaL_checkinteger takes numbers, lua_toboolean everything.
IsInteger(v) == v \notin {True, False, Nil}
Truth(v) == IF v \in {False, Nil} THEN 0 ELSE 1

-----------------------------------------------------------------------------
(***************************************************************************)
(* The switch of luastruct_object__index and luastruct_array__index. Read  *)
(* is of kinds that are Readable.                                          *)
(***************************************************************************)
\* A value is read or an error is raised: no unsigned 64-bit integer is read.
Readable(kind) == ~(kind.tag = "int" /\ kind.width = 8 /\ ~kind.signed)

Read(kind, m, a) ==
  LET w == Word(m, a, kind.width) IN
  CASE kind.tag = "int"  -> IF kind.signed /\ w >= Span(kind) \div 2 THEN w - Span(kind) ELSE w
    [] kind.tag = "bool" -> IF w = 0 THEN False ELSE True
    [] kind.tag = "bit"  -> (w \div Power(2, kind.bit)) % 2

\* As Accepts, when the upper bound of the range is one too high.
AcceptsOneMore(kind, v) ==
  kind.tag = "int" => IsInteger(v) /\ kind.width <= 4 /\ (InRange(kind, v) \/ InRange(kind, v - 1))

(***************************************************************************)
(* The switch of luastruct_object__newindex and luastruct_array__newindex: *)
(* a value is accepted or raises an error. No 64-bit integer is assigned.  *)
(***************************************************************************)
Accepts(kind, v) ==
  kind.tag = "int" => IsInteger(v) /\ kind.width <= 4 /\ InRange(kind, v)

\* As Stored, when a bit field is assigned without what its word holds.
StoredAlone(kind, m, a, v) ==
  CASE kind.tag = "int"  -> PutWord(m, a, kind.width, v)
    [] kind.tag = "bool" -> PutWord(m, a, 1, Truth(v))
    [] kind.tag = "bit"  -> PutWord(m, a, kind.width, Truth(v) * Power(2, kind.bit))

Stored(kind, m, a, v) ==
  CASE kind.tag = "int"  -> PutWord(m, a, kind.width, v)
    [] kind.tag = "bool" -> PutWord(m, a, 1, Truth(v))
    [] kind.tag = "bit"  ->
         LET old == Read(kind, m, a) * Power(2, kind.bit)
         IN  PutWord(m, a, kind.width,
                     Word(m, a, kind.width) - old + Truth(v) * Power(2, kind.bit))

\* What the script should read after assigning v.
Meaning(kind, v) ==
  CASE kind.tag = "int"  -> v
    [] kind.tag = "bool" -> IF Truth(v) = 1 THEN True ELSE False
    [] kind.tag = "bit"  -> Truth(v)

-----------------------------------------------------------------------------
\* The bits of memory that a place takes.
Bits(kind, a) ==
  IF kind.tag = "bit" THEN {<<a + kind.bit \div ByteBits, kind.bit % ByteBits>>}
  ELSE (a .. a + kind.width - 1) \X (0 .. ByteBits - 1)

Forget(bits) == {k \in known : Bits(k.kind, k.at) \cap bits = {}}

\* An assignment of v to a place, which raises an error or stores it.
Assign(kind, a, v) ==
  /\ Accepts(kind, v)
  /\ mem' = Stored(kind, mem, a, v)
  /\ known' = Forget(Bits(kind, a)) \cup {[kind |-> kind, at |-> a, value |-> Meaning(kind, v)]}

\* The address of field f of object o: a pointer field is followed.
Target(o, f) == IF f.pointer THEN mem[o.data + f.offset] ELSE o.data + f.offset

\* As Assignable, when only the field is asked whether it is read-only.
AssignableField(o, f) == f \in o.fields /\ ~f.readonly

Assignable(o, f) == f \in o.fields /\ ~o.readonly /\ ~f.readonly

\* luastruct_object__newindex of a scalar.
NewIndexField(o, f, v) ==
  /\ Assignable(o, f)
  /\ f.kind \in Scalars
  /\ Assign(f.kind, Target(o, f), v)

=============================================================================
