# A TLA+ model of luastruct

luastruct gives Lua scripts access to the C structs of their host: the host
describes struct types to the library, hands out objects for structs in its
memory, and scripts index, assign, compare and iterate them. This directory
models the library, and the part of Lua's collector that it leans on, in TLA+,
model-checks both with TLC, and proves every safety property that the runs check
with TLAPS. Line
numbers refer to `src/src/` unless they name another file.

## Inventory

| Component | State | Operations | What makes it correct |
|---|---|---|---|
| Object registry (`object.c`) | userdata `LuastructStructObject` (type, data, readonly, invalid, delete_on_gc); the weak table `luastruct_objects`, keyed by address and access mode | `luastruct_new_object`, `luastruct_get_object`, `__gc` | a handle has the type, address and access mode that were asked for; one live handle per struct and mode; each malloc'ed block freed once |
| Field access (`object.c`) | the host's memory | `__index`, `__newindex`, `__eq` | a scalar reads back as it was assigned and its neighbours keep their bits; read-only access is passed on; writes stay in writable fields; `==` means the same struct |
| Types registry (`struct.c`) | the table `luastruct_types`; per struct a list of fields by offset and one by name; the host's Lua stack | `luastruct_new_struct`, `..._struct_field`, `..._array_field`, `..._bit_field` | both lists sorted and in agreement; fields go to the struct the host is defining; types are never redefined |
| Iteration (`object.c`) | none of its own: the key the script holds | `__pairs`, `__next` | every field once and in order, then the end, also when fields are declared meanwhile |
| Arrays (`array.c`) | userdata `LuastructArray`; the descriptor in the field, with a cached element size; the host's count | `__index`, `__newindex`, `__len`, `__next`, `__pairs`, two descriptor constructors | no access outside the bounds of the moment; elements where the host has them; iteration ends |
| Teardown (`struct.c`, `object.c`, `lstate.c`) | what malloc gave; the queue of finalizers | `luastruct_struct__gc`, `luastruct_object__gc`, `lua_close` | nothing used after it was freed, everything freed once |
| Lua's collector (`lib/lua/lgc.c`, vendored) | colours, gray lists, `allgc`, `finobj`, `tobefnz`, `sweepgc` | `singlestep`, `luaC_fullgc`, `luaC_checkfinalizer`, barriers | nothing reachable is freed; a weak entry is gone before its `__gc` is due; finalizers run |
| Enum types | declared in `luastruct.h` | none: no call registers one | - |
| Debug helpers (`debug.c`) | the Lua stack | printing; `luastruct_call_lua_function` | the stack is balanced |
| Helper macros (`helpers.h`) | none | fill in offsets, sizes and flags | - |
| The rest of Lua 5.3 (`lib/lua`, vendored) | its stacks and heap | errors, equality, metatables | taken as its code has it where the library relies on it |

How they interact: the host's calls and Lua's metamethods are plain calls on one
thread. `__index` of a struct field calls `luastruct_new_object`, which asks the
types registry for the type and the object registry for a cached object.
`__index` of an array field makes an array, whose elements are scalars or
objects again. The body of a `pairs` loop may call the host, which declares
fields and changes counts before the loop goes on. The collector may run
whenever Lua allocates, a few steps at a time: in one atomic step it clears weak
entries and queues finalizers, later it runs `__gc`, and it frees the userdata
in the cycle after that, with calls of the host and of scripts between any two
of these steps. Errors are `longjmp`s out of the host's C function: the stack is
dropped, what was registered stays.

What is hard: the order of collection steps, of finalizers and of calls that
make and look up objects; identity of objects under the keys of the registry;
invalid objects that are still held; definitions that nest, fail half way and
are repeated; values left on the stack; loops over what changes meanwhile;
addresses and sizes that are kept while the host goes on; the bits of a word
that is read, changed and written. PROJECT.json lists these as hazards, at their
lines, with the properties that cover them.

## Modules

| Module | What it models | Run |
|---|---|---|
| `Objects` | the object registry, struct and scalar fields, `==`, collection | `objects`, `objects_gc`, `type_confusion`, `key_truncation` |
| `StructTypes` | the types registry and the host's stack | `types`, `unknown_type`, `super_left` |
| `Access` | scalars down to the bits: ranges, booleans, bit fields | (in `arrays`) |
| `Arrays` | `Access`, with arrays of scalars and structs, and a host that changes counts and moves arrays | `arrays` |
| `Traversal` | abstract: what `pairs` promises | (in `arrays`, `pairs`) |
| `Iteration` | `StructTypes`, with a script's loop over the fields of a struct | `pairs` |
| `Collector` | abstract: what the library relies on in Lua's collector | (in `objects_gc`, `luagc`) |
| `LuaGC` | the incremental collector itself, with `luastruct_new_object` as a client | `luagc`, `outrun` |
| `Teardown` | finalizers of types, objects and scripts, in cycles and in `lua_close` | `teardown` |
| `MCObjects`, `MCStructTypes`, `MCArrays`, `MCIteration`, `MCLuaGC`, `MCTeardown` | instances for TLC | |
| `Queues` | the lists of the collector as sequences: what taking members out leaves, and their order | (in `luagc`, `teardown`) |
| `ObjectsProofs`, `StructTypesProofs`, `IterationProofs`, `ArraysProofs`, `CollectorProofs`, `LuaGCProofs`, `TeardownProofs`, and the lemmas of `QueueProofs` | theorems | |

    Collector   <=  Objects        Traversal  <=  Iteration  (extends StructTypes)
    Collector   <=  LuaGC          Traversal  <=  Arrays     (extends Access)

Each `<=` is a refinement: the module on the right implements the one on the
left, under `INSTANCE ... WITH`. The two on the left side compose: `Objects`
takes for the steps of the collector exactly what `Collector` promises
(`KeepsPromise` of `objects_gc`), and the collector of `lgc.c`, in as many steps
as it takes, keeps that promise (`KeepsPromise` of `luagc`). Both are proved.

Operators commented "As X, when ..." (`KeyOfPair`, `SuperOver`, ...) are wrong
forms of X, the way a plausible bug would make it. The specifications do not use
them: each is put in place of X to see that a property notices.

### Objects

| Model | Code |
|---|---|
| `objs[h]` | the userdata `h` with its fields, and how far the collector is with it: live, pending (unreachable, `__gc` due), finalized |
| `registry` | the weak table: a partial function from keys to userdata |
| `blocks`, `Extent` | the blocks of memory allocated by the host and by malloc |
| `mem` | cells; a scalar or a pointer takes one, a struct `Size[t]` |
| `slots` | script variables. A slot also records what was asked for when it was filled: declared type, address (`NULL` for new memory), read-only path. The properties compare this with the userdata |
| `HostNewObject` | the host calls `luastruct_new_object` (`LUAS_OBJECT`) for a struct of its own, or without data |
| `NewObject` = `ReuseObject` or `CreateObject` | 387-465: a cached object that is valid and has the same type tag is returned, else one is made and registered, over the entry of an invalid one |
| `Index` | 70-121, a struct field: `Target` follows a pointer field, `Access` combines the access modes |
| `NewIndexScalar`, `NewIndexStruct` | 151-247; an error changes nothing and is no step |
| `HostInvalidate` | the public flag `invalid`, which every metamethod tests and no code of the library sets |
| `Collect`, `Finalize`, `Reclaim` | Lua's collector: weak entry removed and finalizer queued in one step, then `__gc` (57-68), then the userdata is freed |
| `Resurrect` | the finalizer of a script's table stores an object of the same cycle |
| `Address` | the address a reference stands for: what was asked for, or the block malloc gave |

Scalars are values of one cell here; `Access` has their bits. When no block or
handle is left the step is not taken. Indexing through a pointer outside the
modelled memory is left out. `KeySpan` is the number of addresses that the eight
digits of a key tell apart, 2^32 in the code.

### StructTypes

| Model | Code |
|---|---|
| `types[n]` | the struct `n`: super, fields by offset, fields by name |
| `registered` | whether the registry table exists (136-146) |
| `stack` | the host function's Lua stack: names of structs, or `Table` for the registry table that its creation leaves there |
| `open`, `declared` | what the host believes: the structs it is defining, the fields it declared for each |
| `NewStruct` | 159-198: an existing struct is returned, else one is made; an unknown super and a name that does not fit its buffer (`Fits`) raise an error |
| `InsertField` | 19-54: in each list before the first field that is not smaller |
| `NewStructField`, `NewStructArrayField`, `NewStructBitField` | 204-312, with `get_type_info` (67-88) for arrays, of scalars and of structs |
| `TypeInfo`, `StackAfterType` | 223-233: `luastruct_get_type` pushes nothing for an unknown name, so the nil test and the pop act on what was on top |
| `Raise` | `luaL_error`: the stack and the host's plans are gone, `types` stays |
| `PopStruct` | the `lua_pop(state, 1)` after the fields, as `tests/test_object.h` does it |

Field names are numbers in the order of `strcmp`; `NameLength` gives the length of
every name, and `BufferLength` is 64 in the code. Struct sizes and the access flags of
fields are left out.

### Access and Arrays

| Model | Code |
|---|---|
| `mem` | bytes of `ByteBits` bits, the low one first; a pointer takes one address |
| `Read`, `Stored`, `Accepts` | the switches of `__index` and `__newindex` (object.c 89-139, 175-282; array.c 60-100, 132-186): ranges, sign, truth, and the mask of a bit field |
| `known` | what the script assigned last at each place, until it assigns over it: for `ReadsBack` |
| `array`, `loop` | the one array userdata a script variable holds, and the array a loop runs over; both keep the address their field had (array.c 293-312) |
| `stride` | `elements_size` of the descriptor, 0 until its first use |
| `InBounds` | `get_array_size` and the test of an index (16-32, 40-44), after the cut to `int` (`AsInt`) |
| `ArrayIndex`, `ArrayNewIndex`, `ArrayNext` | the metamethods; `__next` takes the index after the one it is given |
| `Readable`, `ReadableElement` | an unsigned integer of 64 bits has no case in any of the switches: reading it is an error (object.c 140, array.c 96), which ends a loop |
| `HostCounts`, `HostMoves` | between any two calls the host changes a count and reallocates an array |

Struct elements are read as objects, as in `Objects`, and never assigned: the
metatable `__newindex` asks for is not that of objects.

### Traversal and Iteration

`Traversal` has a set of keys that changes at will, and a loop that visits the
least key above the one it is at, and is done when there is none. `Iteration`
maps the keys to the names of the struct's fields. Its `Following` is the walk of
`luastruct_object__next` (299-334): find the first field of the name, and take
what follows it. In `Arrays` the keys are the indices up to the count.

### Collector and LuaGC

`Collector` has three variables: what became of each userdata, what the program
holds, and what weak tables hold. `LuaGC` follows `lgc.c`:

| Model | Code (`src/lib/lua/lgc.c`) |
|---|---|
| `gcstate` and the actions of `SingleStep` | the cases of `singlestep` (1041-1093) |
| `color`, `white` | the marks of an object; two whites, swapped in `Atomic` |
| `lists` | `allgc`, `finobj`, `tobefnz`, in order, new objects first |
| `sweepgc` | the object after which the sweep goes on, or the head of the list; an object may change its list under it |
| `Rest`, `Sweep`, `ToLive` | `sweeplist` (731-748), `sweeptolive` (754-760) |
| `CheckFinalizer` | `luaC_checkfinalizer` (898-917), with the move of `sweepgc` |
| `Atomic` | `atomic` (978-1022) and `entersweep`: marks what is left, clears the registry, queues finalizers, marks from these, swaps the white |
| `CallFinalizer`, `Return` | `GCTM` (784-834): the object is back on `allgc` before its `__gc` is called; that of a table runs the script |
| `FullGC` | `luaC_fullgc` (1150-1171), by `collectgarbage` or in an emergency |
| `NewUserdata`, `SetMetatable`, `Register` | the three allocations of `luastruct_new_object`, with collector steps between them |

Left out: strings, closures, upvalues, further threads, ephemerons, weak keys,
and the pace of the collector: `luaC_step` does as many single steps as its debt
demands, the model any number.

### Teardown

`finobj` and `tobefnz` are sequences here, in the order finalizers are called:
the reverse of the order in which metatables were set. `Collect` queues some
things that nothing reaches, `Close` (`luaC_freeallobjects`) the rest.
`CallFinalizer` frees the fields of a type, the data of an object, or runs the
script's function, which may use and make objects, set finalizers and fail. It
may also keep what its table holds (`Revive`). When the `__gc` of such an object
is due, that will free its data, or has done so, while the script holds it: the
history variable `revived` has these objects, and `DataAlive` says that a script
misses the data of no other.

## Runs

| Run | Expected | What it asks | Distinct states |
|---|---|---|---|
| `objects` | pass | all invariants of the registry and `MemoryWrites` | 1.2 million |
| `objects_gc` | pass | identity, ownership, `HeapReleased` (liveness) and the refinement of `Collector`, with resurrection and malloc'ed structs that have struct fields | 0.8 million |
| `types` | pass | all properties of the types registry | 0.1 million |
| `arrays` | pass | `WellLaid`, `ReadsBack`, `ElementsInPlace`, `Confined`, the refinement of `Traversal`, and the end of loops | 0.41 million |
| `pairs` | pass | the refinement of `Traversal`, the place and the end of loops | 0.24 million |
| `luagc` | pass | `NoneFreed`, `TriColour`, `AllWhite`, the refinement of `Collector`, and that finalizers run | 53,000 |
| `teardown` | pass | `FieldsAlive`, `DataAlive`, `FreedOnce`, and that `lua_close` ends | 0.74 million |
| `type_confusion` | violation of `HandleHasRequestedType` | a struct field at offset 0 | |
| `key_truncation` | violation of `HandleHasRequestedData` | addresses that share a key | |
| `unknown_type` | violation of `FieldsAsDeclared` | fields of a type that is not registered | |
| `super_left` | violation of `TopIsOpen` | a derived struct defined inside another definition | |
| `outrun` | violation of `AllWhite` | a finalizer takes the object at which the sweep of `tobefnz` stands | |

A passing run states under which use the library is right; the violating runs
take one of those conditions away each, and the "findings" of PROJECT.json quote
what the code or its documentation says instead.

### Bounds

- `objects`: three userdata (one invalidated or pending, one taking over, one
  nested), two script variables (an object and its field, or two ways to one
  struct), an Outer struct with an embedded Leaf and a read-only pointer to a
  Leaf, a Leaf of the host, one block for malloc; pointers hold NULL or the
  address of the embedded Leaf, which so has two ways to it. Userdata and
  variables are symmetric (no liveness is checked there). `objects_gc` has one
  block large enough for an Outer, no symmetry, and the finalizers. A handle,
  once reclaimed, is used again without limit.
- `types`: three names in a buffer of four, one that just fits and one that just
  does not, declarations of every kind, valid
  and not, two of them with one name; three declarations for `A`, enough for an
  insertion in the middle of a list, one each for the others; two structs open at
  once. Definitions fail and start over without limit on retries.
- `arrays`: bytes of two bits, so that -2 is the least value of one byte, 8 is
  out of the range of a two-byte integer, and both the sign and the order of
  bytes show; an int of 16 values (`IntSpan`), so that indices from -1 to 3 stay apart
  from their wraps; a dynamic array of up to two two-byte elements with two
  homes, a fixed one that is read-only and overlaps two bit fields, one of
  pointers to structs, one of pointers to integers that cannot be read, and a
  pointer to a boolean.
- `pairs`: five declarations, so that a struct gets up to four fields in any
  order, one of which cannot be read; a second struct to nest.
- `luagc`: one userdata and one table, one object per sweep step, one full or
  emergency cycle at any point; an object is reborn as another without limit.
  Larger instances were checked for the invariants and `KeepsPromise`, without
  `FinalizersRun`: one userdata and two tables with no full cycle (2.1 million
  states), and two userdata and one table (0.13 million).
- `teardown`: one type, two objects, two tables: enough for a finalizer that
  brings back another table, and an object in it.

### Conditions of the passing runs

- `objects`: `KeySpan` is above every address; no struct field lies at offset 0.
  A handle made without data stands for a block of its own, but two of them may
  be one handle (a finding): `HandleHasRequestedData` and `EqIffSameStruct`
  accept that. Nobody asks by its address for such a block: it has the key of
  NULL, so the address would get a second userdata, and `OneHandlePerStruct` would
  fail. For `UsableIsBacked` only: scripts have no finalizers and no
  struct from malloc has a struct field. A nested object does not keep its parent
  alive, so the property fails otherwise.
- `types`: the host names types that exist (`UnknownTypes` FALSE), and opens no
  derived struct inside another definition (`NestExtends` FALSE).
- `arrays`: the host moves no array that a script holds (`Moves` FALSE), else
  `TypeOK`, `ElementsInPlace` and `Confined` fail; nothing read-only leads to an
  array that can be assigned (with `MCObjectsReadonly` for `Objects`, `Confined`
  fails: the array does not take the access mode of its object).
- `pairs`: no struct has two fields of one name (`Redeclares` FALSE), else the
  loop returns to the first of the two for ever.
- `luagc`: finalizers do not reach the object at which the sweep of `tobefnz` is
  (`Outruns` FALSE). `udata2finalize` does not look at `sweepgc`; with `Outruns`
  TRUE, `AllWhite` fails (`outrun`), and then `NoneFreed`. `GCFINALIZECOST` and the
  batches, which double, leave that to thousands of pending objects.
- `teardown`: types are defined before scripts set a `__gc` (`TypesFirst`, else
  `FieldsAlive` fails), a table gets its objects before its `__gc` (`HeldBefore`,
  else `DataAlive`), and the host makes nothing while `lua_close` runs finalizers
  (`HostAtClose` FALSE, else `FreedOnce`). Each is a consequence of the order in
  which Lua calls finalizers.

### Fairness

`FairSpec` of `Objects` assumes weak fairness of the three collector steps, for
each userdata: Lua's collector runs further cycles as long as the program
allocates, and `lua_close` runs all remaining finalizers. `FairSpec` of `LuaGC`
says the same one level down: a program that goes on allocating calls `luaC_step`
again and again, and finalizers return. In `Arrays` and `Iteration` a script that
is in a loop goes on with it, by calling `__next`; breaking out is always open to
it. In `Teardown` the C code of `lua_close` runs on, and finalizers return.
Nothing is assumed of the host, or of scripts, who may hold an object for ever:
`HeapReleased` says that a block is freed or its owner is held.

Only `teardown` disables deadlock checking: a closed Lua state really stops.

### Findings without a run

PROJECT.json lists, besides those of the five violating runs: `__tostring`, the
access mode arrays do not take, the count of 0, the index cut to `int`,
assignment of a struct element, two fields of one name in `pairs`, the arguments
of `luastruct_call_lua_function`, and two objects made without data, which are
one (`objects` and `objects_gc` have such objects). One more
divergence between reading and writing contradicts no document: a bit field reads
as the integer 0 or 1, but is assigned by truthiness (object.c 270), where 0 is
true, so assigning 0 sets the bit. `Meaning` of `Access` has it as the code does.

## Proofs

All theorems hold for every value of the constants, from the ASSUMEs of the
modules and the hypotheses they name. TLC evaluates the ASSUMEs in every run and
has checked the invariants, and the hypotheses on states, on the instances above.

Every invariant and every action or refinement property of a passing run has a
theorem. Those proved without a hypothesis hold of any host and any script; the
hypotheses of the others are the conditions of the runs, in general form.

| Property | Theorem | Hypotheses |
|---|---|---|
| `Objects`: `TypeOK`, `ReadonlyPreserved`, `OwnershipExact`, `KeepsPromise` | `TypeCorrect`, `AccessPreserved`, `OwnedOnce`, `CollectorKept` | none |
| `OneHandlePerStruct` | `OneHandle` | nobody asks by its address for a block luastruct allocated |
| `HandleHasRequestedData` | `RequestedData` | addresses fit a key |
| `HandleHasRequestedType`, `EqIffSameStruct`, `MemoryWrites` | `RequestedType`, `EqualStructs`, `WritesAllowed` | and one type is asked for at each address |
| `UsableIsBacked` | `NoneDangles` | and no finalizers of scripts, structs of the host lead to structs it keeps |
| `StructTypes`: `TypeOK`, `ListsSorted`, `ListsAgree`, `TypesKept` | `TypeCorrect`, `Sorted`, `SameFields`, `Permanent` | none |
| `TopIsOpen`, `FieldsAsDeclared`, `LookupIsLatest` | `TopOfStack`, `AsDeclared`, `NewestFound` | `UnknownTypes` and `NestExtends` FALSE |
| `Iteration`: `LoopOK`, `LoopIsTraversal` | `LoopHasPlace`, `PairsImplementsTraversal` | `Redeclares` FALSE |
| `Arrays`: `WellLaid`, `TypeOK`, `ReadsBack`, `ElementsInPlace`, `Confined` | `LayoutKept`, `ArraysTyped`, `AssignmentsReadBack`, `ElementsFound`, `AssignmentsConfined` | the host's declarations (below), `Moves` FALSE |
| `LoopIsTraversal` | `ArrayPairsImplementsTraversal` | counts and sizes below half of `IntSpan` |
| `LuaGC`: `TypeOK`, `NoneFreed`, `TriColour`, `AllWhite`, `KeepsPromise` | `CollectorTyped`, `NothingReachableIsFreed`, `BarrierHolds`, `SweepIsComplete`, `CollectorKeepsPromise` | `Outruns` FALSE |
| `Teardown`: `FreedOnce` | `FreedExactlyOnce` | `HostAtClose` FALSE |
| `FieldsAlive` | `FieldsStay` | `TypesFirst`, `HostAtClose` FALSE |
| `DataAlive` | `DataStays` | `HeldBefore` |

### Objects

For all types, fields, memory layouts, `KeySpan`, handles and slots:

- `OneHandlePerStruct` is not inductive. The invariant `IInv` adds that an entry
  of the registry is a live object under its own key (`RegistrySound`), that a
  live valid object has the entry of its key (`RegistryComplete`), and that a
  reference is under the key that was asked for (`RefsSound`). `RegistryComplete`
  is what makes a second handle for a key impossible; it survives invalidation because only
  an invalid object's entry is overwritten, and collection because the entry goes
  in the step that ends liveness. `CollectorKept` rests on `RegistrySound`: no
  entry is overtaken by the `__gc` of its object.
- `OneHandle` goes from keys to structs: references to one address have one key
  (`OneKey`), but for a block from malloc, which has the key of NULL. `BlocksPrivate`
  says that no such block is asked for by its address; TLC confirms it on the
  instances of `objects` and `objects_gc`. When two references were both made
  without data, they may be to one block or to two, and the theorem speaks of the
  former only.
- `RequestedData` assumes `AddressesFit`: when addresses are below `KeySpan`,
  equal keys are equal addresses. `RequestedType` assumes moreover
  `OneTypeAsked`, which speaks of what is asked; its invariant (`ObjectsTyped`)
  speaks of the objects that were made for it. The runs `key_truncation` and
  `type_confusion` show that both are needed.
- `WritesAllowed` (`MemoryWrites`): a write goes through a userdata, the property
  speaks of what was asked for. It follows from `RequestedData`, `RequestedType`
  and `AccessPreserved`, which say that the two are the same.
- `NoneDangles` (`UsableIsBacked`): scripts have no finalizers, the structs that
  the host hands out lie in its own blocks and those malloc'ed have no struct
  fields (`HostDataBacked`), and a struct field leads to such a struct
  (`FieldsLead`). Its invariant `HeldInv` says that what the script holds is live
  and a struct of that kind. `FieldsLead` is an assumption on the program's
  memory at all times: a script that writes a scalar over a pointer may break it.
  TLC confirms it on the instance of `objects`.

`CollectorProofs`: `PromiseIsSafe`, what follows from the promise alone: nothing
held is freed, and a weak table has nothing whose `__gc` is due or has run.

### Types and iteration

For all names and declarations, with any number of structs open:

- A field goes to the struct on top of the stack, so `IInv` adds to `TypeOK` and
  `ListsSorted` that structs on the stack are registered (`StackRegistered`).
  `CountInserted` shows by a bijection that inserting adds one to the count of
  the new field and leaves the others.
- `TopIsOpen` is not inductive: `StackAsBelieved` says that all of `open`, not
  its last only, is the top of the stack, in order, and that the registry table,
  which its creation leaves on the stack, has been created before anything is
  open.
- `NewestFound` (`LookupIsLatest`): a field goes before those of its name, so the
  first of a name is the latest that was declared (`LatestFirst`), and stays so
  when a field of another name is inserted.
- `IterationProofs`: a sorted list of distinct names is walked in strictly
  ascending order, and insertion keeps every name it had.

### Arrays

For all objects, fields, arrays, values, and widths of a byte and of an int. The
properties hold if the C declarations of the host do what declarations do, and
this is what the hypotheses say: a pointer is the pointer of one field, and no
array is moved onto a pointer (`HostLayout`); at first every scalar and every
element has bytes in memory, apart from pointers (`WellLaid`); and the host's own
steps, counting and reallocating, leave it so (`HostKeepsLayout`). Scalars may
overlap each other, as bit fields do. `AssignmentsConfined` assumes also that
nothing read-only has an array that can be assigned (`ArraysAssignable`), which
a finding shows to be needed.

That the steps of the script keep `WellLaid` is proved (`LayoutKept`), and the
rest depends on it: an assignment that ran over into a pointer would move every
place behind it. The inductive invariant `ArraysInv` adds that what the script
knows is in memory and reads back (`KnownInv`), that a held array is where the
host has it (`HeldInv`), and that a cached size is the size (`StrideInv`).

`AssignmentsReadBack` rests on the arithmetic of words: a word made of bytes has
these bytes as its digits (`WordOfPut`), the bits of a place are digits to the
base two of its bytes (`BitRead`), and setting one bit of a word leaves every
other (`BitStored`). An assignment makes the script forget what shares a bit with
it; `StoreKeepsPlaces` shows that all the rest reads as before, and
`StoreReadsBack` that the place reads what was stored, with sign and truth.

### Lua's collector

For any number of userdata and tables, any pace of the collector and any
`SweepMax`. The hypothesis is `~Outruns`: finalizers may take any object but the
one at which the sweep of `tobefnz` stands. The run `outrun` shows that
`SweepIsComplete` is false without it.
`Inductive` proves `IInv`, the conjunction of

- `SweepInv`: what a sweep is behind of (`Unswept`: the rest of its list, from
  `sweepgc` on, and the lists after it) is all that may not be white yet.
- `KeptInv`: what is not of the other white (`Kept`) has all that the program,
  finalizers and the weak table can come to, and is closed under references. The
  sweep frees only what is of the other white, so `NoneFreed` follows.
- `MarkInv` and `TriColour`, the invariants of marking: gray objects are on a gray
  list, so that `Atomic`, which empties these, leaves nothing white that can be
  reached.
- `FreeInv` (memory that is no object is white and empty) and `WeakInv` (an object
  in the weak table is on `finobj`, so it loses its entry before it is queued).

`CollectorKeepsPromise` goes through the steps: those of the program are `Mutate`,
`Atomic` and what the sweep frees are `Collect`, `CallFinalizer` is `Finalize` or
`Resurrect`, and marking, the phases and the start of a full cycle are stutters.

### Teardown

For any number of types, objects and tables, from what was made (`IInv`):

- `FreedExactlyOnce`: what is on a list is what still has its memory (`MemoryInv`).
- `FieldsStay`: no type comes before a table on either list (`TypesLast`), and
  tables are due before the fields of any type are gone.
- `DataStays`: what is due or gone is out of reach of the script, unless it was
  brought back (`revived`), and on either list a table comes before the objects it
  holds (`DataInv`).

### Lists, words and induction

A library theorem that takes an operator cannot be used by the provers here, so
there is no rule of induction to cite. `QueueProofs` states one about sets: a set
of numbers that has 0 and with each number its successor has all
(`NatSetInduction`), which follows from the least element of its complement. It
is enough for the recursive functions of `Queues` (`Only`, `Without`) and of
`Access` (`Power`, `Word`): `Queues` is written with a function of its own in
place of `SelectSeq`, and `Power` stands for `^`, since the provers know neither.
The lemmas of `QueueProofs` say which members of a list come before which after
it is appended to, cut, or loses some of its members.

### Only model-checked

Liveness: `HeapReleased`, `LoopEnds` (twice), `FinalizersRun` and `Closes` need
ENABLED, which the prover does not handle. The hypotheses on states
(`AddressesFit`, `BlocksPrivate`, `OneTypeAsked`, `FieldsLead`, `HostKeepsLayout`) are conditions on
the host, so nothing proves them; a run without `AddressesFit` or `OneTypeAsked`
violates the property.

## Not modelled

- Floats: TLC has no reals, and the code only casts.
- Enum types: no call registers one, so no state of the program has one.
- The debug helpers: printing, running a file, and a short sequence of stack
  operations without state of its own.
- Memory errors of Lua, and a `malloc` that fails.
- Full cycles inside a `__gc` (`FullGC` asks for `finalizing = Nil`): a finalizer
  that calls `collectgarbage`, or one in which malloc fails, since `GCTM` stops the
  steps of the collector but not an emergency cycle. Such a cycle would end before
  the finalizer goes on. Nor finalizers of scripts that set a further finalizer on
  the object that is being finalized.
- The rest of vendored Lua: parser, code generator, virtual machine, string,
  table and I/O libraries, and the parts of the collector named above. It is
  third-party code with its own test suite, most of it far from anything the
  library relies on. It makes up nearly all lines of the repository: the map
  covers some 1,000 of the 1,638 lines of the library's own sources and headers,
  the collector steps the library depends on, and little else.

## Plan

Done: `Objects`, `StructTypes`, `Access`, `Arrays`, `Traversal`, `Iteration`,
`Collector`, `LuaGC`, `Teardown`, and the proofs above. What is left, in this
order:

1. `FieldsLead` and `OneTypeAsked` from conditions on the host's steps and the
   layout alone, as `LayoutKept` does for `WellLaid`: no writable scalar may lie
   on a pointer.
2. `HostKeepsLayout` from a layout with room for every count and every home.
3. `LoopIsTraversal` of arrays from what `AsInt` does at any count.

## Running

    tlc -workers 2 -config objects.cfg MCObjects
    tlapm ObjectsProofs.tla
