------------------------------- MODULE Arrays -------------------------------
(***************************************************************************)
(* The arrays of array.c, whose elements are the scalars of Access, or     *)
(* structs: an array userdata holds the address its field had when the     *)
(* script indexed it, and the descriptor in the field. A dynamic array     *)
(* asks the host for its count at every access; the host changes the       *)
(* count, and may move the array, between any two calls of the script.     *)
(*                                                                         *)
(* The script holds one array at a time and loops over another with pairs. *)
(***************************************************************************)
EXTENDS Access

CONSTANTS
  Capacity, \* Capacity[f]: the elements the host has memory for
  Counts,   \* what the host's count getters may answer
  Indices,  \* the indices scripts use
  IntSpan,  \* how many integers an int tells apart: 2^32 in the code
  Memories, \* what the host's memory may hold to begin with
  Homes,    \* Homes[f]: the addresses the host keeps a dynamic array at
  Moves     \* whether the host moves an array that the script holds

VARIABLES
  count,  \* count[f]: the host's count of a dynamic array
  stride, \* LuastructArrayDesc.elements_size of each field, 0 until it is used
  array,  \* the LuastructArray a script variable refers to
  loop    \* a loop of the script over pairs of an array

vars == <<mem, known, count, stride, array, loop>>

\* An element that is a struct is read as an object of its own, as in Objects;
\* none is ever assigned: __newindex wants the userdata of a type for it.
Struct == [tag : {"struct"}, width : Nat \ {0}]

\* LuastructArrayDesc. The count getter of a dynamic array is the host's.
ArrayDesc ==
  [tag : {"array"}, dynamic : BOOLEAN, size : Nat, element : (Scalars \ BitField) \cup Struct,
   elements_are_pointers : BOOLEAN, elements_are_readonly : BOOLEAN]

ArrayFields == {f \in UNION {o.fields : o \in Objects} : f.kind.tag = "array"}

Dynamic == {f \in ArrayFields : f.kind.dynamic}

ASSUME ArraysAssumption ==
  /\ \A f \in ArrayFields : f.kind \in ArrayDesc
  /\ Capacity \in [ArrayFields -> Nat]
  /\ Counts \subseteq Nat /\ Indices \subseteq Int /\ IntSpan \in Nat \ {0}
  /\ Homes \in [ArrayFields -> SUBSET Addresses]
  /\ Moves \in BOOLEAN

-----------------------------------------------------------------------------
(***************************************************************************)
(* Indices and counts are converted to int.                                *)
(***************************************************************************)
AsInt(i) ==
  LET r == i % IntSpan IN IF r < IntSpan \div 2 THEN r ELSE r - IntSpan

\* The number of elements the array has.
Length(f) == IF f.kind.dynamic THEN count[f] ELSE f.kind.size

\* get_array_size raises an error for a count that is not positive.
HasSize(f) == f.kind.dynamic => AsInt(count[f]) > 0

\* As InBounds, with the last element left out of the test.
InBoundsOrNext(f, i) == HasSize(f) /\ 1 <= AsInt(i) /\ AsInt(i) <= AsInt(Length(f)) + 1

InBounds(f, i) == HasSize(f) /\ 1 <= AsInt(i) /\ AsInt(i) <= AsInt(Length(f))

\* As ElementSize, when an array is taken for one of bytes.
ElementSizeOne(f) == 1

\* get_type_size of the elements, asked once for each field.
ElementSize(f) == IF stride[f] = 0 THEN f.kind.element.width ELSE stride[f]

\* The address of element i, as computed from what the userdata holds.
Element(h, i) ==
  IF h.field.kind.elements_are_pointers THEN mem[h.data + AsInt(i) - 1]
  ELSE h.data + (AsInt(i) - 1) * ElementSize(h.field)

UseStride(f) ==
  stride' = IF f.kind.elements_are_pointers THEN stride
            ELSE [stride EXCEPT ![f] = ElementSize(f)]

-----------------------------------------------------------------------------
\* As MakeArray, when a pointer field is not followed.
MakeArrayInField(o, f) == [data |-> o.data + f.offset, field |-> f]

\* luastruct_object__index of an array field makes a new userdata. Whether the
\* object or the field is read-only does not get into it.
MakeArray(o, f) == [data |-> Target(o, f), field |-> f]

IndexArray(o, f) ==
  /\ f \in ArrayFields
  /\ array' = MakeArray(o, f)
  /\ UNCHANGED <<mem, known, count, stride, loop>>

\* The script's variable goes, and with it the userdata.
Release ==
  /\ array # Nil
  /\ array' = Nil
  /\ UNCHANGED <<mem, known, count, stride, loop>>

\* luastruct_array__index; an index out of bounds gives nil. The element size is
\* kept also when the element cannot be read then, which is an error.
ArrayIndex(i) ==
  /\ array # Nil
  /\ InBounds(array.field, i)
  /\ UseStride(array.field)
  /\ UNCHANGED <<mem, known, count, array, loop>>

\* As MayAssign, when the descriptor is not asked.
MayAssignAny(f) == TRUE

MayAssign(f) == ~f.kind.elements_are_readonly

AcceptsElement(f, v) == f.kind.element \in Scalars /\ Accepts(f.kind.element, v)

\* luastruct_array__newindex; the element size is kept also when the value is
\* then refused.
ArrayNewIndex(i, v) ==
  /\ array # Nil
  /\ InBounds(array.field, i)
  /\ MayAssign(array.field)
  /\ UseStride(array.field)
  /\ \/ /\ AcceptsElement(array.field, v)
        /\ Assign(array.field.kind.element, Element(array, i), v)
     \/ ~AcceptsElement(array.field, v) /\ UNCHANGED <<mem, known>>
  /\ UNCHANGED <<count, array, loop>>

-----------------------------------------------------------------------------
(***************************************************************************)
(* pairs. luastruct_array__next takes the next index, unless that is out   *)
(* of bounds, and indexes the array with it. An error ends the loop too.   *)
(***************************************************************************)
NoLoop(status) == [over |-> Nil, at |-> 0, status |-> status]

Pairs ==
  /\ array # Nil
  /\ loop.status # "running"
  /\ loop' = [over |-> array, at |-> 0, status |-> "running"]
  /\ UNCHANGED <<mem, known, count, stride, array>>

\* As NextIndex, when only the first call counts.
NextIndexFirst(at) == IF at = 0 THEN 1 ELSE at

NextIndex(at) == at + 1

ReadableElement(f) == f.kind.element \in Scalars => Readable(f.kind.element)

ArrayNext ==
  LET f == loop.over.field  i == NextIndex(loop.at) IN
  /\ loop.status = "running"
  /\ \/ /\ InBounds(f, i)
        /\ UseStride(f)
        /\ \/ ReadableElement(f) /\ loop' = [loop EXCEPT !.at = i]
           \/ ~ReadableElement(f) /\ loop' = NoLoop("stopped")
     \/ /\ HasSize(f) /\ ~InBounds(f, i)
        /\ loop' = NoLoop("done")
        /\ UNCHANGED stride
     \/ /\ ~HasSize(f)
        /\ loop' = NoLoop("stopped")
        /\ UNCHANGED stride
  /\ UNCHANGED <<mem, known, count, array>>

\* The loop's body breaks out, or raises an error.
Break ==
  /\ loop.status = "running"
  /\ loop' = NoLoop("stopped")
  /\ UNCHANGED <<mem, known, count, stride, array>>

-----------------------------------------------------------------------------
(***************************************************************************)
(* The host.                                                               *)
(***************************************************************************)
\* The arrays that the script can come to.
Held == {array, loop.over} \ {Nil}

HostCounts(f, n) ==
  /\ n <= Capacity[f]
  /\ count' = [count EXCEPT ![f] = n]
  /\ UNCHANGED <<mem, known, stride, array, loop>>

\* The addresses the host has for the elements.
Room(f) == Capacity[f] * (IF f.kind.elements_are_pointers THEN 1 ELSE f.kind.element.width)

\* realloc: the elements go along, and the script does not know them.
HostMoves(o, f, home) ==
  /\ Moves \/ f \notin {h.field : h \in Held}
  /\ f.pointer
  /\ home # Target(o, f)
  /\ LET old == Target(o, f)
     IN  mem' = [x \in Addresses |->
                   IF x = o.data + f.offset THEN home
                   ELSE IF x \in home .. home + Room(f) - 1 THEN mem[old + x - home]
                   ELSE IF x \in old .. old + Room(f) - 1 THEN 0
                   ELSE mem[x]]
  /\ known' = Forget(Addresses \X (0 .. ByteBits - 1))
  /\ UNCHANGED <<count, stride, array, loop>>

-----------------------------------------------------------------------------
Init ==
  /\ mem \in Memories
  /\ known = {}
  /\ count \in [Dynamic -> Counts]
  /\ stride = [f \in ArrayFields |-> 0]
  /\ array = Nil
  /\ loop = NoLoop("idle")

Script ==
  \/ \E o \in Objects : \E f \in o.fields :
       \/ \E v \in LuaVals : NewIndexField(o, f, v) /\ UNCHANGED <<count, stride, array, loop>>
       \/ IndexArray(o, f)
  \/ \E i \in Indices : ArrayIndex(i) \/ \E v \in LuaVals : ArrayNewIndex(i, v)
  \/ Release
  \/ Pairs
  \/ ArrayNext
  \/ Break

HostReallocates ==
  \E o \in Objects : \E f \in o.fields \cap ArrayFields :
    \E home \in Homes[f] : HostMoves(o, f, home)

Host ==
  \/ \E f \in Dynamic, n \in Counts : HostCounts(f, n)
  \/ HostReallocates

Next == Script \/ Host

Spec == Init /\ [][Next]_vars

(***************************************************************************)
(* A script that is in a loop goes on with it.                             *)
(***************************************************************************)
FairSpec == Spec /\ WF_vars(ArrayNext)

-----------------------------------------------------------------------------
(***************************************************************************)
(* Properties. They are about the places the host's C declarations make:   *)
(* the scalar fields of an object and the elements of its arrays.          *)
(***************************************************************************)
Places(o, f) ==
  IF f.kind.tag # "array" THEN {[kind |-> f.kind, at |-> Target(o, f)]}
  ELSE {[kind |-> f.kind.element,
         at |-> IF f.kind.elements_are_pointers THEN mem[Target(o, f) + i - 1]
                ELSE Target(o, f) + (i - 1) * f.kind.element.width] : i \in 1 .. Length(f)}

\* Those that a script may assign: scalars, with nothing read-only on the way.
MayWrite(o, f) ==
  /\ ~o.readonly /\ ~f.readonly
  /\ f.kind.tag = "array" => ~f.kind.elements_are_readonly /\ f.kind.element \in Scalars

Writable ==
  UNION {UNION {Places(o, f) : f \in {x \in o.fields : MayWrite(o, x)}} : o \in Objects}

\* Memory m has bytes for a place of this kind at a.
InMemory(a, w) == a .. a + w - 1 \subseteq Addresses

HoldsBytes(m, a, w) == \A i \in 0 .. w - 1 : m[a + i] \in 0 .. Byte - 1

Backed(m, kind, a) == a \in Nat /\ InMemory(a, kind.width) /\ HoldsBytes(m, a, kind.width)

\* The cells that hold pointers: those of pointer fields, and the elements of
\* arrays of pointers.
FieldPointers == UNION {{o.data + f.offset : f \in {x \in o.fields : x.pointer}} : o \in Objects}

ElementPointers ==
  UNION {UNION {{Target(o, f) + i - 1 : i \in 1 .. Length(f)} :
                  f \in {x \in o.fields \cap ArrayFields : x.kind.elements_are_pointers}} :
           o \in Objects}

Pointers == FieldPointers \cup ElementPointers

Clear(p) == (p.at .. p.at + p.kind.width - 1) \cap Pointers = {}

\* What the host's C declarations say of memory: each pointer is of one field,
\* and no array is moved onto a pointer field.
HostLayout ==
  /\ \A o \in Objects : o.data \in Nat /\ \A f \in o.fields : f.offset \in Nat
  /\ \A o, o2 \in Objects : \A f \in o.fields, f2 \in o2.fields :
       f.pointer /\ f2.pointer /\ o.data + f.offset = o2.data + f2.offset => f = f2
  /\ \A f \in ArrayFields : \A home \in Homes[f] :
       (home .. home + Room(f) - 1) \cap FieldPointers = {}

\* Nothing read-only has an array whose elements can be assigned.
ArraysAssignable ==
  \A o \in Objects : \A f \in o.fields \cap ArrayFields :
    o.readonly \/ f.readonly => f.kind.elements_are_readonly

\* No assignment of the script damages what leads to memory: each scalar place
\* has its bytes there and none of a pointer, and an array that moves is at one
\* of its homes.
WellLaid ==
  /\ mem \in [Addresses -> Nat]
  /\ Pointers \subseteq Addresses
  /\ \A o \in Objects : \A f \in o.fields : \A p \in Places(o, f) :
       p.kind \in Scalars => Backed(mem, p.kind, p.at) /\ Clear(p)
  /\ \A o \in Objects : \A f \in o.fields \cap ArrayFields :
       f.pointer /\ Homes[f] # {} => Target(o, f) \in Homes[f]

\* Every variable holds a value of its type. In particular an array that the
\* script holds has an address the host keeps it at, and a loop an array.
TypeOK ==
  /\ mem \in [Addresses -> Nat]
  /\ known \subseteq [kind : Scalars, at : Addresses, value : Int \cup {True, False}]
  /\ count \in [Dynamic -> Counts]
  /\ \A f \in ArrayFields : stride[f] \in {0, f.kind.element.width}
  /\ \A h \in Held : \E o \in Objects : h.field \in o.fields /\ h.data = Target(o, h.field)
  /\ loop.status \in {"idle", "running", "done", "stopped"}
  /\ loop.status = "running" => loop.over # Nil /\ loop.at \in Nat

\* A place the script has assigned reads back what it assigned, until it
\* assigns the same bits again: neighbours in a word, elements of an array and
\* the sign bit of an integer keep their values.
ReadsBack == \A k \in known : Read(k.kind, mem, k.at) = k.value

\* A step of the script changes memory only in one place that it may assign, and
\* that is there: no index leads out of the elements there are at that time.
Confined ==
  [][mem' # mem =>
       \/ \E p \in Writable : \A a \in Addresses :
            mem'[a] # mem[a] => a \in p.at .. p.at + p.kind.width - 1
       \/ HostReallocates]_vars

\* The elements of an array the script holds are those of the host: the cached
\* size of an element steps from one to the next.
ElementsInPlace ==
  \A h \in Held : \A i \in Indices :
    InBounds(h.field, i) =>
      \E o \in Objects : h.field \in o.fields
        /\ [kind |-> h.field.kind.element, at |-> Element(h, i)] \in Places(o, h.field)

Loop == INSTANCE Traversal WITH
  Keys   <- 1 .. IntSpan,
  keys   <- IF loop.over # Nil /\ HasSize(loop.over.field)
            THEN 1 .. Length(loop.over.field) ELSE {},
  at     <- loop.at,
  status <- loop.status

\* pairs of an array keeps the promise of Traversal while the host changes the
\* count of the array.
LoopIsTraversal == Loop!Spec

\* The loop ends, although the host may change the count at every step.
LoopEnds == Loop!LoopEnds
=============================================================================
