------------------------------- MODULE Objects -------------------------------
(***************************************************************************)
(* The object registry of object.c: the userdata a Lua script holds for    *)
(* the C structs of its host, the weak table that caches them, indexing    *)
(* and assigning struct and scalar fields, and their collection.           *)
(*                                                                         *)
(* A script variable is a slot. Beside the userdata it holds, a slot       *)
(* records what the script asked for when it filled the slot (the declared *)
(* type, the address, and whether a read-only object or field lies on the  *)
(* way): the properties compare the two.                                   *)
(*                                                                         *)
(* Memory is a function from cells to values. A scalar or a pointer takes  *)
(* one cell, a struct as many as its Size.                                 *)
(***************************************************************************)
EXTENDS Integers, FiniteSets

CONSTANTS
  Types,      \* the struct types of the types registry
  Fields,     \* Fields[t]: the field descriptors of struct type t
  Size,       \* Size[t]: the cells a struct of type t takes
  HostData,   \* <<t, a>>: the host owns a struct of type t at address a
  NullTypes,  \* the types the host creates objects of without giving data
  Extent,     \* Extent[b]: the cells of the block of memory at address b
  HostBlocks, \* the blocks the host allocated; malloc returns the others
  Vals,       \* what a cell may hold: a scalar, or an address
  KeySpan,    \* how many addresses the "%.8X" of a key tells apart
  Handles,    \* the object userdata, as many as may exist at once
  Slots,      \* the script's variables
  Finalizers, \* whether scripts hold objects in tables with a __gc
  Nil         \* an empty slot; a missing table entry

VARIABLES
  objs,      \* the LuastructStructObject of each userdata, with its GC state
  registry,  \* the weak table "luastruct_objects": key -> userdata
  blocks,    \* the blocks of memory that are allocated
  mem,       \* the contents of every cell
  slots      \* what each script variable refers to

vars == <<objs, registry, blocks, mem, slots>>

NULL == 0

Cells == UNION {Extent[b] : b \in DOMAIN Extent}

FieldDesc ==
  [name : STRING, kind : {"scalar", "struct"}, type : Types \cup {Nil},
   offset : Nat, pointer : BOOLEAN, readonly : BOOLEAN]

ASSUME TypesAssumption ==
  /\ Types # {}
  /\ Fields \in [Types -> SUBSET FieldDesc]
  /\ Size \in [Types -> Nat \ {0}]
  /\ \A t \in Types : \A f \in Fields[t] : f.kind = "struct" => f.type \in Types

ASSUME MemoryAssumption ==
  /\ HostData \subseteq Types \X (Nat \ {NULL})
  /\ NullTypes \subseteq Types
  /\ DOMAIN Extent \subseteq Nat \ {NULL}
  /\ HostBlocks \subseteq DOMAIN Extent
  /\ Vals \subseteq Nat
  /\ KeySpan \in Nat \ {0}

ASSUME ScriptAssumption == Finalizers \in BOOLEAN /\ Nil \notin Handles

(***************************************************************************)
(* Userdata. A userdata is live until the collector finds it unreachable,  *)
(* then pending until its __gc has run, and finalized until Lua frees it.  *)
(***************************************************************************)
Stages == {"absent", "live", "pending", "finalized"}

Objects ==
  [stage : Stages, type : Types, data : Nat \ {NULL}, readonly : BOOLEAN,
   invalid : BOOLEAN, delete_on_gc : BOOLEAN]

Absent(o) == o.stage = "absent"

\* Memory of the Lua heap that is no userdata; the other members mean nothing.
NoObject ==
  [stage |-> "absent", type |-> CHOOSE t \in Types : TRUE, data |-> 1,
   readonly |-> FALSE, invalid |-> FALSE, delete_on_gc |-> FALSE]

\* As MakeObject, but memory the host passed is freed with the object.
MakeObjectOwnsAll(t, data, ro, owned) ==
  [stage |-> "live", type |-> t, data |-> data, readonly |-> ro,
   invalid |-> FALSE, delete_on_gc |-> TRUE]

MakeObject(t, data, ro, owned) ==
  [stage |-> "live", type |-> t, data |-> data, readonly |-> ro,
   invalid |-> FALSE, delete_on_gc |-> owned]

(***************************************************************************)
(* The registry. The key of an object is "%.8X_readonly" or                *)
(* "%.8X_readwrite" of the data argument of luastruct_new_object: %X       *)
(* prints an unsigned int, the low part of the pointer.                    *)
(***************************************************************************)

\* As Key, with the lowest bit of the address lost.
KeyOfPair(data, ro) == <<data \div 2, ro>>

Key(data, ro) == <<data % KeySpan, ro>>

\* As Cached, when the registry is never consulted.
CachedNever(data, ro) == Nil

\* The result of luastruct_get_object.
Cached(data, ro) ==
  IF Key(data, ro) \in DOMAIN registry THEN registry[Key(data, ro)] ELSE Nil

\* Every type of the types registry is made by luastruct_new_struct.
TypeTag(t) == "LUAST_STRUCT"

(***************************************************************************)
(* luastruct_new_object: the object of type t at data goes to slot s.      *)
(* The script asked for read-only access when want is TRUE.                *)
(***************************************************************************)
Ref(h, t, data, want) == [obj |-> h, type |-> t, data |-> data, readonly |-> want]

ReuseObject(t, data, ro, want, s) ==
  LET h == Cached(data, ro) IN
  /\ h # Nil
  /\ ~objs[h].invalid
  /\ TypeTag(objs[h].type) = TypeTag(t)
  /\ slots' = [slots EXCEPT ![s] = Ref(h, t, data, want)]
  /\ UNCHANGED <<objs, registry, blocks, mem>>

\* As AllocateData, when a missing data is stored as it is.
AllocateNone(h, t, data, ro) ==
  /\ objs' = [objs EXCEPT ![h] = MakeObject(t, data, ro, data = NULL)]
  /\ UNCHANGED blocks

\* The data given, or a block from malloc, whose contents are what they were.
AllocateData(h, t, data, ro) ==
  \/ /\ data # NULL
     /\ objs' = [objs EXCEPT ![h] = MakeObject(t, data, ro, FALSE)]
     /\ UNCHANGED blocks
  \/ /\ data = NULL
     /\ \E b \in DOMAIN Extent \ blocks :
          /\ objs' = [objs EXCEPT ![h] = MakeObject(t, b, ro, TRUE)]
          /\ blocks' = blocks \cup {b}

CreateObject(t, data, ro, want, s) ==
  /\ Cached(data, ro) # Nil => objs[Cached(data, ro)].invalid
  /\ \E h \in Handles :
       /\ Absent(objs[h])
       /\ AllocateData(h, t, data, ro)
       /\ registry' = [k \in DOMAIN registry \cup {Key(data, ro)} |->
                         IF k = Key(data, ro) THEN h ELSE registry[k]]
       /\ slots' = [slots EXCEPT ![s] = Ref(h, t, data, want)]
  /\ UNCHANGED mem

NewObject(t, data, ro, want, s) ==
  /\ slots[s] = Nil
  /\ \/ ReuseObject(t, data, ro, want, s)
     \/ CreateObject(t, data, ro, want, s)

\* LUAS_OBJECT: the host hands the script an object, its own or a new one.
HostNewObject(t, data, ro, s) ==
  /\ \/ <<t, data>> \in HostData
     \/ t \in NullTypes /\ data = NULL
  /\ NewObject(t, data, ro, ro, s)

(***************************************************************************)
(* Field access. An object of the slot that is invalid or, on assignment,  *)
(* read-only raises an error and changes nothing.                          *)
(***************************************************************************)
Usable(s) == slots[s] # Nil /\ ~objs[slots[s].obj].invalid

FieldsOf(s) == Fields[objs[slots[s].obj].type]

\* As Target, without the offset of the field.
TargetOfFirst(o, f) == IF f.pointer THEN mem[o.data] ELSE o.data

\* The address of field f of object o: a pointer field is followed.
Target(o, f) ==
  IF f.pointer THEN mem[o.data + f.offset] ELSE o.data + f.offset

\* The model stops at the edge of its memory.
InMemory(o, f) == o.data + f.offset \in Cells

\* As Access, without what the parent object passes on.
AccessOfField(o, f) == f.readonly

Access(o, f) == o.readonly \/ f.readonly

\* luastruct_object__index of a struct field, its value stored in slot d.
Index(s, f, d) ==
  LET o == objs[slots[s].obj] IN
  /\ Usable(s)
  /\ f \in FieldsOf(s)
  /\ f.kind = "struct"
  /\ InMemory(o, f)
  /\ NewObject(f.type, Target(o, f), Access(o, f), slots[s].readonly \/ f.readonly, d)

\* As Assignable, when only the field is asked whether it is read-only.
AssignableField(s, f) ==
  /\ Usable(s)
  /\ f \in FieldsOf(s)
  /\ ~f.readonly

Assignable(s, f) ==
  /\ Usable(s)
  /\ ~objs[slots[s].obj].readonly
  /\ f \in FieldsOf(s)
  /\ ~f.readonly

\* luastruct_object__newindex of a scalar.
NewIndexScalar(s, f, v) ==
  LET o == objs[slots[s].obj] IN
  /\ Assignable(s, f)
  /\ f.kind = "scalar"
  /\ InMemory(o, f)
  /\ Target(o, f) \in Cells
  /\ mem' = [mem EXCEPT ![Target(o, f)] = v]
  /\ UNCHANGED <<objs, registry, blocks, slots>>

\* luastruct_object__newindex of a struct: the object of slot c is copied.
NewIndexStruct(s, f, c) ==
  LET o    == objs[slots[s].obj]
      from == objs[slots[c].obj].data
      to   == Target(o, f)
  IN
  /\ Assignable(s, f)
  /\ f.kind = "struct"
  /\ Usable(c)
  /\ objs[slots[c].obj].type = f.type
  /\ InMemory(o, f)
  /\ \A i \in 0 .. Size[f.type] - 1 : from + i \in Cells /\ to + i \in Cells
  /\ mem' = [a \in Cells |->
               IF a \in to .. to + Size[f.type] - 1 THEN mem[from + (a - to)] ELSE mem[a]]
  /\ UNCHANGED <<objs, registry, blocks, slots>>

\* luastruct_object__eq. Lua itself answers for identical userdata.
ObjectEqType(o1, o2) == ~o1.invalid /\ ~o2.invalid /\ o1.type = o2.type

ObjectEq(o1, o2) ==
  ~o1.invalid /\ ~o2.invalid /\ o1.type = o2.type /\ o1.data = o2.data

LuaEq(h1, h2) == h1 = h2 \/ ObjectEq(objs[h1], objs[h2])

(***************************************************************************)
(* The host may mark an object invalid (the flag is public, and every      *)
(* metamethod tests it); the script forgets a value.                       *)
(***************************************************************************)
HostInvalidate(s) ==
  /\ Usable(s)
  /\ objs' = [objs EXCEPT ![slots[s].obj].invalid = TRUE]
  /\ UNCHANGED <<registry, blocks, mem, slots>>

Drop(s) ==
  /\ slots[s] # Nil
  /\ slots' = [slots EXCEPT ![s] = Nil]
  /\ UNCHANGED <<objs, registry, blocks, mem>>

(***************************************************************************)
(* Collection. The atomic phase of Lua's collector removes an unreachable  *)
(* userdata from weak tables and queues it for finalization in one step;   *)
(* a cycle need not find everything, so userdata go one by one.            *)
(***************************************************************************)
HeldObjects == {slots[s].obj : s \in {x \in Slots : slots[x] # Nil}}

\* As StrongRefs, when the registry is an ordinary table.
StrongRefsAndRegistry == HeldObjects \cup {registry[k] : k \in DOMAIN registry}

\* The registry's values are weak: only the script keeps objects alive.
StrongRefs == HeldObjects

\* As Collect, when the registry keeps its entry until the userdata is freed.
CollectKeepsEntry(h) ==
  /\ objs[h].stage = "live"
  /\ h \notin StrongRefs
  /\ objs' = [objs EXCEPT ![h].stage = "pending"]
  /\ UNCHANGED <<registry, blocks, mem, slots>>

Collect(h) ==
  /\ objs[h].stage = "live"
  /\ h \notin StrongRefs
  /\ objs' = [objs EXCEPT ![h].stage = "pending"]
  /\ registry' = [k \in {j \in DOMAIN registry : registry[j] # h} |-> registry[k]]
  /\ UNCHANGED <<blocks, mem, slots>>

\* As Finalize, when the block is never freed.
FinalizeNoFree(h) ==
  /\ objs[h].stage = "pending"
  /\ objs' = [objs EXCEPT ![h].stage = "finalized"]
  /\ UNCHANGED <<registry, blocks, mem, slots>>

\* As Finalize, when every object frees its data.
FinalizeFreesAll(h) ==
  /\ objs[h].stage = "pending"
  /\ objs' = [objs EXCEPT ![h].stage = "finalized"]
  /\ blocks' = blocks \ {objs[h].data}
  /\ UNCHANGED <<registry, mem, slots>>

\* luastruct_object__gc.
Finalize(h) ==
  /\ objs[h].stage = "pending"
  /\ objs' = [objs EXCEPT ![h].stage = "finalized"]
  /\ blocks' = IF objs[h].delete_on_gc THEN blocks \ {objs[h].data} ELSE blocks
  /\ UNCHANGED <<registry, mem, slots>>

\* A script's own __gc, run in the same cycle, stores an object it held.
Resurrect(h, s) ==
  /\ Finalizers
  /\ objs[h].stage \in {"pending", "finalized"}
  /\ slots[s] = Nil
  /\ slots' = [slots EXCEPT ![s] =
                 Ref(h, objs[h].type, IF objs[h].delete_on_gc THEN NULL ELSE objs[h].data,
                     objs[h].readonly)]
  /\ UNCHANGED <<objs, registry, blocks, mem>>

\* A later cycle frees the finalized userdata.
Reclaim(h) ==
  /\ objs[h].stage = "finalized"
  /\ h \notin HeldObjects
  /\ objs' = [objs EXCEPT ![h] = NoObject]
  /\ UNCHANGED <<registry, blocks, mem, slots>>

-----------------------------------------------------------------------------
Init ==
  /\ objs = [h \in Handles |-> NoObject]
  /\ registry = [k \in {} |-> Nil]
  /\ blocks = HostBlocks
  /\ mem \in [Cells -> Vals]
  /\ slots = [s \in Slots |-> Nil]

\* The steps of the host and the script.
Calls ==
  \E s \in Slots :
    \/ \E t \in Types, data \in {NULL} \cup {d[2] : d \in HostData}, ro \in BOOLEAN :
         HostNewObject(t, data, ro, s)
    \/ slots[s] # Nil /\ \E f \in FieldsOf(s) :
         \/ \E d \in Slots : Index(s, f, d)
         \/ \E v \in Vals : NewIndexScalar(s, f, v)
         \/ \E c \in Slots : NewIndexStruct(s, f, c)
    \/ HostInvalidate(s)
    \/ Drop(s)

\* The steps of Lua's collector.
Collector == \E h \in Handles : Collect(h) \/ Finalize(h) \/ Reclaim(h)

Next ==
  \/ Calls
  \/ Collector
  \/ \E h \in Handles, s \in Slots : Resurrect(h, s)

Spec == Init /\ [][Next]_vars

(***************************************************************************)
(* Lua's collector keeps running cycles while the program allocates, and   *)
(* lua_close ends with a full one.                                         *)
(***************************************************************************)
FairSpec ==
  Spec /\ \A h \in Handles : WF_vars(Collect(h)) /\ WF_vars(Finalize(h)) /\ WF_vars(Reclaim(h))


-----------------------------------------------------------------------------
(***************************************************************************)
(* Properties.                                                             *)
(***************************************************************************)
Refs == [obj : Handles, type : Types, data : Nat, readonly : BOOLEAN]

Live(h) == objs[h].stage = "live"

Held(s) == slots[s] # Nil

\* The address a script's reference stands for: NULL asked for a new block.
Address(s) == IF slots[s].data = NULL THEN objs[slots[s].obj].data ELSE slots[s].data

\* Every variable holds a value of its type. In particular an object always
\* has data: luastruct_new_object stores what it was given or what malloc
\* returned, never the NULL of its caller.
TypeOK ==
  /\ objs \in [Handles -> Objects]
  /\ DOMAIN registry \subseteq Nat \X BOOLEAN
  /\ \A k \in DOMAIN registry : registry[k] \in Handles
  /\ blocks \subseteq DOMAIN Extent
  /\ mem \in [Cells -> Vals]
  /\ slots \in [Slots -> Refs \cup {Nil}]

\* Indexing returns a handle of the declared type of the field, also when
\* luastruct_new_object finds its answer in the registry.
HandleHasRequestedType ==
  \A s \in Slots : Held(s) => objs[slots[s].obj].type = slots[s].type

\* A handle stands for the address that was asked for: the registry never
\* answers with the object of another address, however long objects have been
\* collected, invalidated and created again. A handle made without data owns
\* its block.
HandleHasRequestedData ==
  \A s \in Slots : Held(s) =>
    LET o == objs[slots[s].obj] IN
    IF slots[s].data = NULL THEN o.delete_on_gc ELSE o.data = slots[s].data

\* A handle is read-only exactly when a read-only object or field lies on the
\* path the script took to it: the read-only and the read-write handles of one
\* struct never answer for each other.
ReadonlyPreserved ==
  \A s \in Slots : Held(s) => objs[slots[s].obj].readonly = slots[s].readonly

\* Two references to one struct, the same type at the same address, with one
\* access mode are the same userdata, so that a script can use objects as table
\* keys. What counts is the address they stand for: of objects made without data
\* that is the block of each. An object that is invalid, or that a finalizer
\* brought back, is out of the registry's hands.
OneHandlePerStruct ==
  \A s1, s2 \in Slots :
    /\ Usable(s1) /\ Live(slots[s1].obj)
    /\ Usable(s2) /\ Live(slots[s2].obj)
    /\ slots[s1].type = slots[s2].type
    /\ Address(s1) = Address(s2)
    /\ slots[s1].readonly = slots[s2].readonly
    => slots[s1].obj = slots[s2].obj

Owner(h) == objs[h].stage \in {"live", "pending"} /\ objs[h].delete_on_gc

\* Memory is owned once. An object that will free its data owns an allocated
\* block of its own, not one of the host's, and a block from malloc has an
\* object that will free it: __gc neither leaks a block nor frees one twice.
OwnershipExact ==
  /\ HostBlocks \subseteq blocks
  /\ \A h \in Handles : Owner(h) => objs[h].data \in blocks \ HostBlocks
  /\ \A h1, h2 \in Handles :
       Owner(h1) /\ Owner(h2) /\ objs[h1].data = objs[h2].data => h1 = h2
  /\ \A b \in blocks \ HostBlocks : \E h \in Handles : Owner(h) /\ objs[h].data = b

\* == in Lua says whether two usable references stand for one struct: the
\* same type at the same address, whatever their access modes.
EqIffSameStruct ==
  \A s1, s2 \in Slots : Usable(s1) /\ Usable(s2) =>
    (LuaEq(slots[s1].obj, slots[s2].obj)
       <=> slots[s1].type = slots[s2].type /\ Address(s1) = Address(s2))

\* No usable reference dangles, when no struct from malloc has a struct field
\* and scripts have no finalizers.
UsableIsBacked ==
  \A s \in Slots : Usable(s) =>
    \E b \in blocks : Address(s) .. Address(s) + Size[slots[s].type] - 1 \subseteq Extent[b]

\* The cells a script may change: those of a field that is not read-only, of
\* a reference that is usable and has no read-only object or field on its way.
Writable ==
  {a \in Cells :
     \E s \in Slots :
       /\ Usable(s)
       /\ ~slots[s].readonly
       /\ \E f \in Fields[slots[s].type] :
            LET o  == [data |-> Address(s)]
                to == Target(o, f)
            IN  /\ InMemory(o, f)
                /\ ~f.readonly
                /\ a \in to .. to + (IF f.kind = "struct" THEN Size[f.type] ELSE 1) - 1}

\* No step changes a cell the script has no read-write way to.
MemoryWrites ==
  [][\A a \in Cells : mem'[a] # mem[a] => a \in Writable]_vars

Entries == {registry[k] : k \in DOMAIN registry}

GCStage ==
  [h \in Handles |-> IF objs[h].stage = "finalized" THEN "plain" ELSE objs[h].stage]

Promise == INSTANCE Collector WITH
  stage <- GCStage,
  held  <- HeldObjects,
  weak  <- Entries

\* The registry takes no more from Lua's collector than it gives: a handle
\* comes from the registry only while its __gc is not due, and nothing that is
\* collected, finalized or freed is still an entry.
KeepsPromise == Promise!Spec

\* A block from malloc is freed once the script has let go of its object.
HeapReleased ==
  \A b \in DOMAIN Extent \ HostBlocks :
    b \in blocks ~> (b \notin blocks \/ \E h \in HeldObjects : Owner(h) /\ objs[h].data = b)
=============================================================================
