----------------------------- MODULE StructTypes -----------------------------
(***************************************************************************)
(* The types registry of struct.c: struct types by name, each with its     *)
(* fields in two lists, one by offset and one by name, and the calls of    *)
(* the C API that define them. The struct a field is added to is the one   *)
(* on top of the Lua stack, so the stack is part of the state.             *)
(*                                                                         *)
(* The host is a C function called in protected mode: it opens a struct    *)
(* (luastruct_new_struct), declares fields of it, possibly opens another   *)
(* one meanwhile, and pops what the call returned. open and declared are   *)
(* what the host believes: the structs it has open, and the fields it has  *)
(* declared for each. The properties compare them with the stack and the   *)
(* registry.                                                               *)
(***************************************************************************)
EXTENDS Naturals, Sequences, FiniteSets, SequencesExt

CONSTANTS
  Names,        \* the names of struct types
  Decls,        \* the field declarations the host may make; field names are
                \* numbers, in the order of strcmp
  NameLength,   \* the length of each name, as strlen has it
  BufferLength, \* LUASTRUCT_TYPENAME_LENGTH: 64 in the code
  MaxOpen,      \* bound: structs open at once
  MaxFields,    \* bound: declarations for each struct
  UnknownTypes, \* whether the host names types that do not exist (yet)
  NestExtends,  \* whether the host opens a derived struct inside another
  Table,        \* the types registry, as a value on the Lua stack
  Nil           \* no name

VARIABLES
  registered, \* whether LUA_REGISTRYINDEX has the "luastruct_types" table
  types,      \* that table: name -> LuastructStruct
  stack,      \* the Lua stack of the host: a struct is known by its name
  open,       \* the structs the host is defining, the innermost last
  declared    \* the fields it declared for each, the newest last

vars == <<registered, types, stack, open, declared>>

\* An array is one of primitives or, "structs", of structs.
Kinds == {"primitive", "struct", "array", "structs", "bitfield"}

\* A declaration, and the LuastructStructField made of it. An array counts
\* with a getter or has a size; a bit field has the size of its integer type,
\* 0 if that is no integer type, and a bit. A type that is not named is Nil.
Field ==
  [name : Nat \ {0}, offset : Nat, kind : Kinds, type : Names \cup {Nil},
   getter : BOOLEAN, size : Nat, bit : Nat]

ASSUME NamesAssumption == Nil \notin Names /\ Table \notin Names

ASSUME DeclsAssumption == Decls \subseteq Field

ASSUME LengthsAssumption ==
  /\ NameLength \in [Names \cup {d.name : d \in Decls} -> Nat]
  /\ BufferLength \in Nat

ASSUME HostAssumption ==
  /\ UnknownTypes \in BOOLEAN /\ NestExtends \in BOOLEAN
  /\ MaxOpen \in Nat /\ MaxFields \in [Names -> Nat]

Exists(n) == n \in DOMAIN types
-----------------------------------------------------------------------------
(***************************************************************************)
(* insert_struct_field: each walk stops at the first field that is not     *)
(* smaller, and the new field goes before it.                              *)
(***************************************************************************)
StopsByOffset(list, f, p) ==
  /\ p \in 1 .. Len(list) + 1
  /\ \A i \in 1 .. p - 1 : list[i].offset < f.offset
  /\ p <= Len(list) => list[p].offset >= f.offset

\* As StopsByName, when the walk passes fields of the same name.
StopsAfterName(list, f, p) ==
  /\ p \in 1 .. Len(list) + 1
  /\ \A i \in 1 .. p - 1 : list[i].name <= f.name
  /\ p <= Len(list) => list[p].name > f.name

\* As StopsByName, when the walk never starts.
StopsAtHead(list, f, p) == p = 1

StopsByName(list, f, p) ==
  /\ p \in 1 .. Len(list) + 1
  /\ \A i \in 1 .. p - 1 : list[i].name < f.name
  /\ p <= Len(list) => list[p].name >= f.name

\* As InsertField, when a second field at an offset takes the place of the first.
InsertOverOffset(n, f) ==
  LET st == types[n] IN
  \E p \in 1 .. Len(st.fields) + 1, q \in 1 .. Len(st.fields_by_name) + 1 :
    /\ StopsByOffset(st.fields, f, p)
    /\ StopsByName(st.fields_by_name, f, q)
    /\ types' = [types EXCEPT
         ![n].fields = IF p <= Len(@) /\ @[p].offset = f.offset
                       THEN [@ EXCEPT ![p] = f] ELSE InsertAt(@, p, f),
         ![n].fields_by_name = InsertAt(@, q, f)]

InsertField(n, f) ==
  LET st == types[n] IN
  \E p \in 1 .. Len(st.fields) + 1, q \in 1 .. Len(st.fields_by_name) + 1 :
    /\ StopsByOffset(st.fields, f, p)
    /\ StopsByName(st.fields_by_name, f, q)
    /\ types' = [types EXCEPT ![n].fields = InsertAt(@, p, f),
                              ![n].fields_by_name = InsertAt(@, q, f)]
-----------------------------------------------------------------------------
(***************************************************************************)
(* An error leaves the host function: what it had on the stack is gone and *)
(* what it had defined so far stays. The host may start over.              *)
(***************************************************************************)
Raise ==
  /\ stack' = <<>>
  /\ open' = <<>>
  /\ UNCHANGED <<types, declared>>

\* luastruct_get_types_registry leaves the table it creates on the stack, under
\* the one it returns.
RegistryLeft == IF registered THEN <<>> ELSE <<Table>>

\* As SuperLeft, over the new struct.
SuperOver(super, n) == IF super = Nil THEN <<n>> ELSE <<n, super>>

\* luastruct_new_struct leaves the super struct under the new one.
SuperLeft(super, n) == IF super = Nil THEN <<n>> ELSE <<super, n>>

\* As Fits, when the NUL at the end is not counted.
FitsOneMore(n) == NameLength[n] <= BufferLength

Fits(n) == NameLength[n] < BufferLength

OpenExisting(n) ==
  /\ Exists(n)
  /\ stack' = Append(stack, n)
  /\ open' = Append(open, n)
  /\ UNCHANGED <<types, declared>>

CreateStruct(n, super) ==
  /\ super # Nil => Exists(super)
  /\ Fits(n)
  /\ types' = [m \in DOMAIN types \cup {n} |->
                 IF m = n THEN [super |-> super, fields |-> <<>>, fields_by_name |-> <<>>]
                 ELSE types[m]]
  /\ stack' = stack \o RegistryLeft \o SuperLeft(super, n)
  /\ open' = Append(open, n)
  /\ UNCHANGED declared

\* As DefineStruct, when the registry is not asked for the name.
DefineAnew(n, super) == CreateStruct(n, super)

DefineStruct(n, super) ==
  \/ OpenExisting(n)
  \/ ~Exists(n) /\ CreateStruct(n, super)

RejectStruct(n, super) ==
  /\ ~Exists(n)
  /\ (super # Nil /\ ~Exists(super)) \/ ~Fits(n)
  /\ Raise

\* luastruct_new_struct.
NewStruct(n, super) ==
  /\ Len(open) < MaxOpen
  /\ super # Nil /\ open # <<>> => NestExtends
  /\ DefineStruct(n, super) \/ RejectStruct(n, super)
  /\ registered' = TRUE
-----------------------------------------------------------------------------
(***************************************************************************)
(* Declaring a field. The host declares fields of the innermost struct it  *)
(* has open.                                                               *)
(***************************************************************************)
Top(s) == IF s = <<>> THEN Nil ELSE Last(s)

IsStruct(v) == v \in Names

\* luastruct_get_type pushes nothing for a type that does not exist: the
\* lua_isnil after it looks at the value that was on top before, and the
\* lua_pop takes that value.
TypeInfo(d) == IF Exists(d.type) THEN d.type ELSE Top(stack)

StackAfterType(d) == IF Exists(d.type) \/ stack = <<>> THEN stack ELSE Front(stack)

NameFits(d) == Fits(d.name)

Declare(d) == declared' = [declared EXCEPT ![Last(open)] = Append(@, d)]

Declaring(d, kinds) ==
  /\ open # <<>>
  /\ d.kind \in kinds
  /\ Len(declared[Last(open)]) < MaxFields[Last(open)]
  /\ d.type = Nil \/ Exists(d.type) \/ UnknownTypes
  /\ UNCHANGED registered

\* luastruct_new_struct_field.
NewStructField(d) ==
  /\ Declaring(d, {"primitive", "struct"})
  /\ \/ /\ IsStruct(Top(stack)) /\ NameFits(d)
        /\ d.kind = "primitive"
        /\ InsertField(Top(stack), d)
        /\ Declare(d)
        /\ UNCHANGED <<stack, open>>
     \/ /\ IsStruct(Top(stack)) /\ NameFits(d)
        /\ d.kind = "struct" /\ d.type # Nil
        /\ InsertField(Top(stack), [d EXCEPT !.type = TypeInfo(d)])
        /\ stack' = StackAfterType(d)
        /\ Declare(d)
        /\ UNCHANGED open
     \/ /\ \/ ~IsStruct(Top(stack)) \/ ~NameFits(d)
           \/ d.kind = "struct" /\ d.type = Nil
        /\ Raise

\* A descriptor needs a getter or a size.
Counted(d) == d.getter \/ d.size # 0

\* get_type_info for the array's descriptor, which raises an error for structs
\* without a type name, then luastruct_new_struct_array_field.
NewStructArrayField(d) ==
  LET after == StackAfterType(d) IN
  /\ Declaring(d, {"array", "structs"})
  /\ \/ /\ d.kind = "array"
        /\ IsStruct(Top(stack)) /\ NameFits(d) /\ Counted(d)
        /\ InsertField(Top(stack), d)
        /\ Declare(d)
        /\ UNCHANGED <<stack, open>>
     \/ /\ d.kind = "structs" /\ d.type # Nil /\ IsStruct(TypeInfo(d))
        /\ IsStruct(Top(after)) /\ NameFits(d) /\ Counted(d)
        /\ InsertField(Top(after), [d EXCEPT !.type = TypeInfo(d)])
        /\ stack' = after
        /\ Declare(d)
        /\ UNCHANGED open
     \/ /\ \/ ~NameFits(d) \/ ~Counted(d)
           \/ d.kind = "array" /\ ~IsStruct(Top(stack))
           \/ d.kind = "structs"
              /\ (d.type = Nil \/ ~IsStruct(TypeInfo(d)) \/ ~IsStruct(Top(after)))
        /\ Raise

\* The bit lies in an integer type of one, two or four bytes.
BitInside(d) == d.size # 0 /\ d.bit < d.size * 8

\* luastruct_new_struct_bit_field.
NewStructBitField(d) ==
  /\ Declaring(d, {"bitfield"})
  /\ \/ /\ IsStruct(Top(stack)) /\ NameFits(d) /\ BitInside(d)
        /\ InsertField(Top(stack), d)
        /\ Declare(d)
        /\ UNCHANGED <<stack, open>>
     \/ /\ ~IsStruct(Top(stack)) \/ ~NameFits(d) \/ ~BitInside(d)
        /\ Raise

\* lua_pop of the one value luastruct_new_struct said it pushed.
PopStruct ==
  /\ open # <<>>
  /\ stack # <<>>
  /\ open' = Front(open)
  /\ stack' = Front(stack)
  /\ UNCHANGED <<registered, types, declared>>
-----------------------------------------------------------------------------
Init ==
  /\ registered = FALSE
  /\ types = [n \in {} |-> Nil]
  /\ stack = <<>>
  /\ open = <<>>
  /\ declared = [n \in Names |-> <<>>]

Next ==
  \/ \E n \in Names, super \in Names \cup {Nil} : NewStruct(n, super)
  \/ \E d \in Decls : NewStructField(d) \/ NewStructArrayField(d) \/ NewStructBitField(d)
  \/ PopStruct

Spec == Init /\ [][Next]_vars
-----------------------------------------------------------------------------
(***************************************************************************)
(* Properties.                                                             *)
(***************************************************************************)
Structs == [super : Names \cup {Nil}, fields : Seq(Field), fields_by_name : Seq(Field)]

\* Every variable holds a value of its type; in particular the registry has no
\* name that its fixed-size buffer does not hold with the NUL at its end, and the
\* type of a field is a struct, never the registry table.
TypeOK ==
  /\ registered \in BOOLEAN
  /\ DOMAIN types \subseteq {n \in Names : NameLength[n] + 1 <= BufferLength}
  /\ \A n \in DOMAIN types : types[n] \in Structs
  /\ stack \in Seq(Names \cup {Table})
  /\ open \in Seq(Names)
  /\ declared \in [Names -> Seq(Field)]

\* Both lists stay in order whatever the order of the declarations.
ListsSorted ==
  \A n \in DOMAIN types :
    /\ \A i, j \in 1 .. Len(types[n].fields) :
         i < j => types[n].fields[i].offset <= types[n].fields[j].offset
    /\ \A i, j \in 1 .. Len(types[n].fields_by_name) :
         i < j => types[n].fields_by_name[i].name <= types[n].fields_by_name[j].name

Count(list, f) == Cardinality({i \in 1 .. Len(list) : list[i] = f})

\* The list that luastruct_struct__gc frees, by offset, has the fields of the
\* list that objects search, by name, each as often: none leaks, and none is
\* found after it was freed.
ListsAgree ==
  \A n \in DOMAIN types : \A f \in ToSet(types[n].fields) \cup ToSet(types[n].fields_by_name) :
    Count(types[n].fields, f) = Count(types[n].fields_by_name, f)

\* A struct has the fields its host declared for it and no others, each of the
\* type that was named, also when definitions nest, fail half way and start over.
FieldsAsDeclared ==
  \A n \in Names :
    ToSet(declared[n]) = IF Exists(n) THEN ToSet(types[n].fields_by_name) ELSE {}

\* The field that __index finds: the walk of the list by name stops at the first
\* of that name.
First(list, name, p) ==
  /\ p \in 1 .. Len(list)
  /\ list[p].name = name
  /\ \A i \in 1 .. p - 1 : list[i].name # name

Lookup(n, name) ==
  LET list == types[n].fields_by_name IN
  list[CHOOSE p \in 1 .. Len(list) : First(list, name, p)]

\* No declaration after the one at p has its name.
Newest(decls, p) == \A i \in p + 1 .. Len(decls) : decls[i].name # decls[p].name

\* A field declared again takes the place of the older one.
LookupIsLatest ==
  \A n \in DOMAIN types : \A p \in 1 .. Len(declared[n]) :
    Newest(declared[n], p) => Lookup(n, declared[n][p].name) = declared[n][p]

\* The struct on top of the stack is the one whose fields the host declares:
\* the count luastruct_new_struct returns is enough to find it back.
TopIsOpen == open # <<>> => Top(stack) = Last(open)

\* Types are never redefined: an object's type and its fields stay where they
\* are, and fields are only added.
TypesKept ==
  [][\A n \in DOMAIN types :
       /\ n \in DOMAIN types'
       /\ types'[n].super = types[n].super
       /\ \A f \in ToSet(types[n].fields) :
            Count(types[n].fields, f) <= Count(types'[n].fields, f)]_vars
=============================================================================
