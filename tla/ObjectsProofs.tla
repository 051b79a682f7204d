---------------------------- MODULE ObjectsProofs ----------------------------
(***************************************************************************)
(* Theorems about the object registry, for every set of types, handles,    *)
(* variables and addresses.                                                *)
(***************************************************************************)
EXTENDS Objects, TLAPS

\* The key luastruct_new_object registers an object under.
ObjectKey(o) == Key(IF o.delete_on_gc THEN NULL ELSE o.data, o.readonly)

\* An entry of the registry is a live object under its own key.
RegistrySound ==
  \A k \in DOMAIN registry :
    Live(registry[k]) /\ ObjectKey(objs[registry[k]]) = k

\* A live and valid object has the entry of its key.
RegistryComplete ==
  \A h \in Handles : Live(h) /\ ~objs[h].invalid =>
    /\ ObjectKey(objs[h]) \in DOMAIN registry
    /\ registry[ObjectKey(objs[h])] = h

\* A reference is to a userdata that exists, under the key that was asked for.
RefsSound ==
  \A s \in Slots : Held(s) =>
    /\ ~Absent(objs[slots[s].obj])
    /\ ObjectKey(objs[slots[s].obj]) = Key(slots[s].data, slots[s].readonly)

RegistryInv == RegistrySound /\ RegistryComplete /\ RefsSound /\ ReadonlyPreserved

IInv == TypeOK /\ RegistryInv
-----------------------------------------------------------------------------
\* A key is of the type of the registry's keys.
LEMMA KeyType ==
  ASSUME NEW data \in Nat, NEW ro \in BOOLEAN
  PROVE  Key(data, ro) \in Nat \X BOOLEAN
<1>1. data % KeySpan \in Nat
  BY MemoryAssumption
<1> QED
  BY <1>1 DEF Key

\* A key tells the access modes apart.
LEMMA KeyAccess ==
  ASSUME NEW d1, NEW r1, NEW d2, NEW r2, Key(d1, r1) = Key(d2, r2)
  PROVE  r1 = r2
BY DEF Key

\* What NoObject is made of has the type of an object.
LEMMA NoObjectType == NoObject \in Objects /\ Absent(NoObject)
<1>1. (CHOOSE t \in Types : TRUE) \in Types
  BY TypesAssumption
<1> QED
  BY <1>1 DEF NoObject, Objects, Stages, Absent, NULL

LEMMA InitTypeOK == Init => TypeOK
BY NoObjectType, MemoryAssumption, ScriptAssumption DEF Init, TypeOK, Refs

\* Creating or finding an object keeps every variable in its type.
LEMMA NewObjectType ==
  ASSUME TypeOK, NEW t \in Types, NEW data \in Nat, NEW ro \in BOOLEAN,
         NEW want \in BOOLEAN, NEW s \in Slots, NewObject(t, data, ro, want, s)
  PROVE  TypeOK'
<1>1. CASE ReuseObject(t, data, ro, want, s)
  <2>1. Cached(data, ro) \in Handles
    BY <1>1, ScriptAssumption DEF ReuseObject, Cached, TypeOK
  <2>2. Ref(Cached(data, ro), t, data, want) \in Refs
    BY <2>1 DEF Ref, Refs
  <2> QED
    BY <1>1, <2>2 DEF ReuseObject, TypeOK
<1>2. CASE CreateObject(t, data, ro, want, s)
  <2>1. PICK h \in Handles :
          /\ AllocateData(h, t, data, ro)
          /\ registry' = [k \in DOMAIN registry \cup {Key(data, ro)} |->
                            IF k = Key(data, ro) THEN h ELSE registry[k]]
          /\ slots' = [slots EXCEPT ![s] = Ref(h, t, data, want)]
    BY <1>2 DEF CreateObject
  <2>2. Key(data, ro) \in Nat \X BOOLEAN
    BY KeyType
  <2>3. Ref(h, t, data, want) \in Refs
    BY DEF Ref, Refs
  <2>4. objs' \in [Handles -> Objects] /\ blocks' \subseteq DOMAIN Extent
    <3>1. CASE data # NULL /\ objs' = [objs EXCEPT ![h] = MakeObject(t, data, ro, FALSE)]
                 /\ UNCHANGED blocks
      <4>1. MakeObject(t, data, ro, FALSE) \in Objects
        BY <3>1 DEF MakeObject, Objects, Stages
      <4> QED
        BY <3>1, <4>1 DEF TypeOK
    <3>2. ASSUME NEW b \in DOMAIN Extent \ blocks,
                 objs' = [objs EXCEPT ![h] = MakeObject(t, b, ro, TRUE)],
                 blocks' = blocks \cup {b}
          PROVE  objs' \in [Handles -> Objects] /\ blocks' \subseteq DOMAIN Extent
      <4>1. MakeObject(t, b, ro, TRUE) \in Objects
        BY MemoryAssumption DEF MakeObject, Objects, Stages
      <4> QED
        BY <3>2, <4>1 DEF TypeOK
    <3> QED
      BY <2>1, <3>1, <3>2 DEF AllocateData
  <2>5. /\ DOMAIN registry' \subseteq Nat \X BOOLEAN
        /\ \A k \in DOMAIN registry' : registry'[k] \in Handles
    BY <2>1, <2>2 DEF TypeOK
  <2>6. mem' \in [Cells -> Vals] /\ slots' \in [Slots -> Refs \cup {Nil}]
    BY <1>2, <2>1, <2>3 DEF CreateObject, TypeOK
  <2> QED
    BY <2>4, <2>5, <2>6 DEF TypeOK
<1> QED
  BY <1>1, <1>2 DEF NewObject

\* The type and address Index asks for are a type and an address.
LEMMA IndexType ==
  ASSUME TypeOK, NEW s \in Slots, Held(s), NEW f \in FieldsOf(s), f.kind = "struct",
         InMemory(objs[slots[s].obj], f)
  PROVE  /\ f.type \in Types
         /\ Target(objs[slots[s].obj], f) \in Nat
         /\ Access(objs[slots[s].obj], f) \in BOOLEAN
         /\ (slots[s].readonly \/ f.readonly) \in BOOLEAN
<1> DEFINE o == objs[slots[s].obj]
<1>1. slots[s] \in Refs /\ o \in Objects
  BY DEF TypeOK, Held, Refs
<1>2. o.type \in Types /\ o.data \in Nat
  BY <1>1 DEF Objects
<1>3. f \in FieldDesc /\ f.type \in Types
  BY <1>2, TypesAssumption DEF FieldsOf
<1>4. f.offset \in Nat
  BY <1>3 DEF FieldDesc
<1>5. mem[o.data + f.offset] \in Nat
  BY MemoryAssumption DEF TypeOK, InMemory
<1>6. Target(o, f) \in Nat
  BY <1>2, <1>4, <1>5 DEF Target
<1> QED
  BY <1>3, <1>6 DEF Access

LEMMA NextTypeOK == TypeOK /\ [Next]_vars => TypeOK'
<1> SUFFICES ASSUME TypeOK, [Next]_vars PROVE TypeOK'
  OBVIOUS
<1>1. ASSUME NEW s \in Slots, NEW t \in Types, NEW ro \in BOOLEAN,
             NEW data \in {NULL} \cup {d[2] : d \in HostData}, HostNewObject(t, data, ro, s)
      PROVE  TypeOK'
  <2>1. data \in Nat
    BY MemoryAssumption DEF NULL
  <2> QED
    BY <1>1, <2>1, NewObjectType DEF HostNewObject
<1>2. ASSUME NEW s \in Slots, Held(s), NEW f \in FieldsOf(s), NEW d \in Slots, Index(s, f, d)
      PROVE  TypeOK'
  <2>1. f.kind = "struct" /\ InMemory(objs[slots[s].obj], f)
    BY <1>2 DEF Index
  <2> QED
    BY <1>2, <2>1, IndexType, NewObjectType DEF Index
<1>3. ASSUME NEW s \in Slots, NEW f, NEW v \in Vals, NewIndexScalar(s, f, v)
      PROVE  TypeOK'
  BY <1>3 DEF NewIndexScalar, TypeOK
<1>4. ASSUME NEW s \in Slots, NEW f, NEW c \in Slots, f.type \in Types, NewIndexStruct(s, f, c)
      PROVE  TypeOK'
  <2> DEFINE from == objs[slots[c].obj].data
             to   == Target(objs[slots[s].obj], f)
  <2>1. Size[f.type] \in Nat \ {0}
    BY <1>4, TypesAssumption
  <2>2. slots[s] \in Refs /\ slots[c] \in Refs
    BY <1>4 DEF NewIndexStruct, Assignable, Usable, TypeOK
  <2>3. objs[slots[s].obj] \in Objects /\ objs[slots[c].obj] \in Objects
    BY <2>2 DEF TypeOK, Refs
  <2>4. from \in Nat /\ objs[slots[s].obj].data \in Nat
    BY <2>3 DEF Objects
  <2>5. f \in FieldDesc
    BY <1>4, <2>3, TypesAssumption DEF NewIndexStruct, Assignable, FieldsOf, Objects
  <2>6. to \in Nat
    <3>1. f.offset \in Nat
      BY <2>5 DEF FieldDesc
    <3>2. mem[objs[slots[s].obj].data + f.offset] \in Nat
      BY <1>4, MemoryAssumption DEF NewIndexStruct, TypeOK, InMemory
    <3> QED
      BY <2>4, <3>1, <3>2 DEF Target
  <2>7. ASSUME NEW a \in Cells, a \in to .. to + Size[f.type] - 1
        PROVE  mem[from + (a - to)] \in Vals
    <3>1. a - to \in 0 .. Size[f.type] - 1
      BY <2>1, <2>6, <2>7
    <3>2. from + (a - to) \in Cells
      BY <1>4, <3>1 DEF NewIndexStruct
    <3> QED
      BY <3>2 DEF TypeOK
  <2>8. mem' \in [Cells -> Vals]
    BY <1>4, <2>7 DEF NewIndexStruct, TypeOK
  <2> QED
    BY <1>4, <2>8 DEF NewIndexStruct, TypeOK
<1>5. ASSUME NEW s \in Slots, HostInvalidate(s)
      PROVE  TypeOK'
  <2>1. slots[s].obj \in Handles
    BY <1>5 DEF HostInvalidate, Usable, TypeOK, Refs
  <2>2. [objs[slots[s].obj] EXCEPT !.invalid = TRUE] \in Objects
    BY <2>1 DEF TypeOK, Objects
  <2> QED
    BY <1>5, <2>1, <2>2 DEF HostInvalidate, TypeOK
<1>6. ASSUME NEW s \in Slots, Drop(s)
      PROVE  TypeOK'
  BY <1>6 DEF Drop, TypeOK
<1>7. ASSUME NEW h \in Handles, Collect(h)
      PROVE  TypeOK'
  <2>1. [objs[h] EXCEPT !.stage = "pending"] \in Objects
    BY DEF TypeOK, Objects, Stages
  <2> QED
    BY <1>7, <2>1 DEF Collect, TypeOK
<1>8. ASSUME NEW h \in Handles, Finalize(h)
      PROVE  TypeOK'
  <2>1. [objs[h] EXCEPT !.stage = "finalized"] \in Objects
    BY DEF TypeOK, Objects, Stages
  <2> QED
    BY <1>8, <2>1 DEF Finalize, TypeOK
<1>9. ASSUME NEW h \in Handles, Reclaim(h)
      PROVE  TypeOK'
  BY <1>9, NoObjectType DEF Reclaim, TypeOK
<1>10. ASSUME NEW h \in Handles, NEW s \in Slots, Resurrect(h, s)
      PROVE  TypeOK'
  <2>1. objs[h] \in Objects
    BY DEF TypeOK
  <2>2. Ref(h, objs[h].type, IF objs[h].delete_on_gc THEN NULL ELSE objs[h].data,
            objs[h].readonly) \in Refs
    BY <2>1 DEF Ref, Refs, Objects, NULL
  <2> QED
    BY <1>10, <2>2 DEF Resurrect, TypeOK
<1>11. CASE UNCHANGED vars
  BY <1>11 DEF vars, TypeOK
<1>12. ASSUME NEW s \in Slots, Held(s), NEW f \in FieldsOf(s), NEW c \in Slots,
              NewIndexStruct(s, f, c)
       PROVE  f.type \in Types
  <2>1. objs[slots[s].obj] \in Objects
    BY <1>12 DEF TypeOK, Held, Refs
  <2> QED
    BY <1>12, <2>1, TypesAssumption DEF NewIndexStruct, FieldsOf, Objects
<1> QED
  BY <1>1, <1>2, <1>3, <1>4, <1>5, <1>6, <1>7, <1>8, <1>9, <1>10, <1>11, <1>12
  DEF Next, Calls, Collector, Held

\* Every variable always holds a value of its type; in particular an object
\* always has data, whatever the host or a pointer field handed over.
THEOREM TypeCorrect == Spec => []TypeOK
<1>1. Init => TypeOK
  BY InitTypeOK
<1>2. TypeOK /\ [Next]_vars => TypeOK'
  BY NextTypeOK
<1> QED
  BY <1>1, <1>2, PTL DEF Spec
-----------------------------------------------------------------------------
(***************************************************************************)
(* The registry and the objects agree. OneHandlePerStruct is not inductive *)
(* by itself: that no second object is created for an address follows from *)
(* the entry of the first one, which must be there as long as it is live   *)
(* and valid (RegistryComplete), and be that object's own (RegistrySound). *)
(***************************************************************************)

\* Creating or finding an object keeps the registry and the objects agreed.
LEMMA NewObjectRegistry ==
  ASSUME IInv, NEW t \in Types, NEW data \in Nat, NEW ro \in BOOLEAN,
         NEW s \in Slots, NewObject(t, data, ro, ro, s)
  PROVE  RegistryInv'
<1> DEFINE key == Key(data, ro)
<1>1. CASE ReuseObject(t, data, ro, ro, s)
  <2> DEFINE h == Cached(data, ro)
  <2>1. key \in DOMAIN registry /\ h = registry[key] /\ h \in Handles
    BY <1>1, ScriptAssumption DEF ReuseObject, Cached, IInv, TypeOK
  <2>2. Live(h) /\ ObjectKey(objs[h]) = key
    BY <2>1 DEF IInv, RegistryInv, RegistrySound
  <2>3. objs[h].readonly = ro
    BY <2>2, KeyAccess DEF ObjectKey
  <2>4. /\ slots' = [slots EXCEPT ![s] = Ref(h, t, data, ro)]
        /\ UNCHANGED <<objs, registry>>
    BY <1>1 DEF ReuseObject
  <2>5. RegistrySound' /\ RegistryComplete'
    BY <2>4 DEF IInv, RegistryInv, RegistrySound, RegistryComplete, Live, ObjectKey
  <2>6. RefsSound' /\ ReadonlyPreserved'
    BY <2>2, <2>3, <2>4
    DEF IInv, TypeOK, RegistryInv, RefsSound, ReadonlyPreserved, Held, Live, Absent, Ref, ObjectKey
  <2> QED
    BY <2>5, <2>6 DEF RegistryInv
<1>2. CASE CreateObject(t, data, ro, ro, s)
  <2>1. PICK h \in Handles :
          /\ Absent(objs[h])
          /\ AllocateData(h, t, data, ro)
          /\ registry' = [k \in DOMAIN registry \cup {key} |->
                            IF k = key THEN h ELSE registry[k]]
          /\ slots' = [slots EXCEPT ![s] = Ref(h, t, data, ro)]
    BY <1>2 DEF CreateObject
  <2>2. /\ objs'[h].stage = "live"
        /\ objs'[h].readonly = ro
        /\ ObjectKey(objs'[h]) = key
    <3>1. CASE data # NULL /\ objs' = [objs EXCEPT ![h] = MakeObject(t, data, ro, FALSE)]
      <4>1. objs'[h] = MakeObject(t, data, ro, FALSE)
        BY <3>1 DEF IInv, TypeOK
      <4> QED
        BY <4>1 DEF MakeObject, ObjectKey
    <3>2. ASSUME NEW b, data = NULL, objs' = [objs EXCEPT ![h] = MakeObject(t, b, ro, TRUE)]
          PROVE  /\ objs'[h].stage = "live"
                 /\ objs'[h].readonly = ro
                 /\ ObjectKey(objs'[h]) = key
      <4>1. objs'[h] = MakeObject(t, b, ro, TRUE)
        BY <3>2 DEF IInv, TypeOK
      <4> QED
        BY <3>2, <4>1 DEF MakeObject, ObjectKey
    <3> QED
      BY <2>1, <3>1, <3>2 DEF AllocateData
  <2>3. \A g \in Handles \ {h} : objs'[g] = objs[g]
    BY <2>1 DEF AllocateData, IInv, TypeOK
  <2>4. \A k \in DOMAIN registry : registry[k] \in Handles \ {h}
    BY <2>1 DEF IInv, TypeOK, RegistryInv, RegistrySound, Live, Absent
  <2>5. RegistrySound'
    <3>1. ASSUME NEW k \in DOMAIN registry'
          PROVE  objs'[registry'[k]].stage = "live" /\ ObjectKey(objs'[registry'[k]]) = k
      BY <2>1, <2>2, <2>3, <2>4 DEF IInv, RegistryInv, RegistrySound, Live
    <3> QED
      BY <3>1 DEF RegistrySound, Live, ObjectKey
  <2>6. RegistryComplete'
    <3>1. ASSUME NEW g \in Handles \ {h}, objs[g].stage = "live", ~objs[g].invalid
          PROVE  /\ ObjectKey(objs[g]) \in DOMAIN registry'
                 /\ registry'[ObjectKey(objs[g])] = g
      <4>1. ObjectKey(objs[g]) \in DOMAIN registry /\ registry[ObjectKey(objs[g])] = g
        BY <3>1 DEF IInv, RegistryInv, RegistryComplete, Live
      <4>2. ObjectKey(objs[g]) # key
        BY <1>2, <3>1, <4>1, ScriptAssumption DEF CreateObject, Cached
      <4> QED
        BY <2>1, <4>1, <4>2
    <3> QED
      BY <2>1, <2>2, <2>3, <3>1 DEF RegistryComplete, Live, ObjectKey
  <2>7. RefsSound' /\ ReadonlyPreserved'
    <3>1. ASSUME NEW x \in Slots, x # s, Held(x)
          PROVE  slots[x].obj \in Handles \ {h}
      BY <2>1, <3>1 DEF IInv, TypeOK, RegistryInv, RefsSound, Held, Refs
    <3>2. slots'[s] = Ref(h, t, data, ro) /\ \A x \in Slots \ {s} : slots'[x] = slots[x]
      BY <2>1 DEF IInv, TypeOK
    <3>3. ASSUME NEW x \in Slots, slots'[x] # Nil
          PROVE  /\ objs'[slots'[x].obj].stage # "absent"
                 /\ ObjectKey(objs'[slots'[x].obj]) = Key(slots'[x].data, slots'[x].readonly)
                 /\ objs'[slots'[x].obj].readonly = slots'[x].readonly
      BY <2>2, <2>3, <3>1, <3>2, <3>3
      DEF IInv, RegistryInv, RefsSound, ReadonlyPreserved, Held, Absent, Ref
    <3> QED
      BY <3>3 DEF RefsSound, ReadonlyPreserved, Held, Absent, ObjectKey, Key
  <2> QED
    BY <2>5, <2>6, <2>7 DEF RegistryInv
<1> QED
  BY <1>1, <1>2 DEF NewObject

LEMMA InitRegistry == Init => RegistryInv
BY NoObjectType
DEF Init, RegistryInv, RegistrySound, RegistryComplete, RefsSound, ReadonlyPreserved,
    Held, Live, Absent

\* What a step may do to the objects without disturbing the registry: no new
\* key, and nothing that is not live comes alive.
LEMMA OtherStepRegistry ==
  ASSUME IInv, NEW h \in Handles,
         /\ objs'[h].stage # "absent" \/ ~\E s \in Slots : Held(s) /\ slots[s].obj = h
         /\ objs'[h].stage = "live" => objs[h].stage = "live"
         /\ objs'[h].stage = "live" /\ ~objs'[h].invalid => ~objs[h].invalid
         /\ objs'[h].stage # "absent" => ObjectKey(objs'[h]) = ObjectKey(objs[h])
                                         /\ objs'[h].readonly = objs[h].readonly,
         \A g \in Handles \ {h} : objs'[g] = objs[g],
         DOMAIN registry' = {k \in DOMAIN registry :
                               registry[k] # h \/ objs'[h].stage = "live"},
         \A k \in DOMAIN registry' : registry'[k] = registry[k],
         \A s \in Slots : slots'[s] # Nil => slots'[s] = slots[s]
  PROVE  RegistryInv'
<1>1. RegistrySound'
  <2>1. ASSUME NEW k \in DOMAIN registry'
        PROVE  objs'[registry'[k]].stage = "live" /\ ObjectKey(objs'[registry'[k]]) = k
    BY <2>1 DEF IInv, TypeOK, RegistryInv, RegistrySound, Live
  <2> QED
    BY <2>1 DEF RegistrySound, Live, ObjectKey
<1>2. RegistryComplete'
  <2>1. ASSUME NEW g \in Handles, objs'[g].stage = "live", ~objs'[g].invalid
        PROVE  /\ ObjectKey(objs'[g]) \in DOMAIN registry'
               /\ registry'[ObjectKey(objs'[g])] = g
    <3>1. objs[g].stage = "live" /\ ~objs[g].invalid /\ ObjectKey(objs'[g]) = ObjectKey(objs[g])
      BY <2>1
    <3>2. ObjectKey(objs[g]) \in DOMAIN registry /\ registry[ObjectKey(objs[g])] = g
      BY <3>1 DEF IInv, RegistryInv, RegistryComplete, Live
    <3> QED
      BY <2>1, <3>1, <3>2
  <2> QED
    BY <2>1 DEF RegistryComplete, Live, ObjectKey
<1>3. RefsSound' /\ ReadonlyPreserved'
  <2>1. ASSUME NEW s \in Slots, slots'[s] # Nil
        PROVE  /\ objs'[slots'[s].obj].stage # "absent"
               /\ ObjectKey(objs'[slots'[s].obj]) = Key(slots'[s].data, slots'[s].readonly)
               /\ objs'[slots'[s].obj].readonly = slots'[s].readonly
    <3>1. slots'[s] = slots[s] /\ slots[s].obj \in Handles
      BY <2>1 DEF IInv, TypeOK, Refs
    <3> QED
      BY <2>1, <3>1 DEF IInv, RegistryInv, RefsSound, ReadonlyPreserved, Held, Absent
  <2> QED
    BY <2>1 DEF RefsSound, ReadonlyPreserved, Held, Absent, ObjectKey, Key
<1> QED
  BY <1>1, <1>2, <1>3 DEF RegistryInv

LEMMA NextRegistry == IInv /\ [Next]_vars => RegistryInv'
<1> SUFFICES ASSUME IInv, [Next]_vars PROVE RegistryInv'
  OBVIOUS
<1> USE DEF IInv
<1>1. ASSUME NEW s \in Slots, NEW t \in Types, NEW ro \in BOOLEAN,
             NEW data \in {NULL} \cup {d[2] : d \in HostData}, HostNewObject(t, data, ro, s)
      PROVE  RegistryInv'
  <2>1. data \in Nat
    BY MemoryAssumption DEF NULL
  <2> QED
    BY <1>1, <2>1, NewObjectRegistry DEF HostNewObject
<1>2. ASSUME NEW s \in Slots, Held(s), NEW f \in FieldsOf(s), NEW d \in Slots, Index(s, f, d)
      PROVE  RegistryInv'
  <2> DEFINE o == objs[slots[s].obj]
  <2>1. f.kind = "struct" /\ InMemory(o, f)
    BY <1>2 DEF Index
  <2>2. /\ f.type \in Types
        /\ Target(o, f) \in Nat
        /\ Access(o, f) \in BOOLEAN
    BY <1>2, <2>1, IndexType
  <2>3. Access(o, f) = (slots[s].readonly \/ f.readonly)
    BY <1>2 DEF Access, RegistryInv, ReadonlyPreserved
  <2>4. NewObject(f.type, Target(o, f), Access(o, f), Access(o, f), d)
    BY <1>2, <2>3 DEF Index
  <2> QED
    BY <2>2, <2>4, NewObjectRegistry
<1>3. CASE UNCHANGED <<objs, registry, slots>>
  BY <1>3 DEF RegistryInv, RegistrySound, RegistryComplete, RefsSound, ReadonlyPreserved,
              Held, Live, Absent, ObjectKey
<1>4. ASSUME NEW s \in Slots, HostInvalidate(s)
      PROVE  RegistryInv'
  <2> DEFINE h == slots[s].obj
  <2>1. h \in Handles /\ ~objs[h].invalid /\ ~Absent(objs[h])
    BY <1>4 DEF HostInvalidate, Usable, TypeOK, Refs, RegistryInv, RefsSound, Held
  <2>2. objs'[h] = [objs[h] EXCEPT !.invalid = TRUE] /\ \A g \in Handles \ {h} : objs'[g] = objs[g]
    BY <1>4, <2>1 DEF HostInvalidate, TypeOK
  <2>3. objs[h] \in Objects
    BY <2>1 DEF TypeOK
  <2>4. /\ objs'[h].stage = objs[h].stage
        /\ objs'[h].invalid
        /\ objs'[h].readonly = objs[h].readonly
        /\ ObjectKey(objs'[h]) = ObjectKey(objs[h])
    BY <2>2, <2>3 DEF Objects, ObjectKey
  <2>5. \A k \in DOMAIN registry : registry[k] = h => objs[h].stage = "live"
    BY DEF RegistryInv, RegistrySound, Live
  <2> QED
    BY <1>4, <2>1, <2>2, <2>4, <2>5, OtherStepRegistry DEF HostInvalidate, Absent
<1>5. ASSUME NEW s \in Slots, Drop(s)
      PROVE  RegistryInv'
  <2>1. \A x \in Slots : slots'[x] # Nil => slots'[x] = slots[x]
    BY <1>5 DEF Drop, TypeOK
  <2> QED
    BY <1>5, <2>1
    DEF Drop, RegistryInv, RegistrySound, RegistryComplete, RefsSound, ReadonlyPreserved,
        Held, Live, Absent, ObjectKey
<1>6. ASSUME NEW h \in Handles, Collect(h)
      PROVE  RegistryInv'
  <2>1. objs[h] \in Objects
    BY DEF TypeOK
  <2>2. objs'[h] = [objs[h] EXCEPT !.stage = "pending"] /\ \A g \in Handles \ {h} : objs'[g] = objs[g]
    BY <1>6 DEF Collect, TypeOK
  <2>3. /\ objs'[h].stage = "pending"
        /\ objs'[h].readonly = objs[h].readonly
        /\ ObjectKey(objs'[h]) = ObjectKey(objs[h])
    BY <2>1, <2>2 DEF Objects, ObjectKey
  <2> QED
    BY <1>6, <2>2, <2>3, OtherStepRegistry DEF Collect
<1>7. ASSUME NEW h \in Handles, Finalize(h)
      PROVE  RegistryInv'
  <2>1. objs[h] \in Objects
    BY DEF TypeOK
  <2>2. objs'[h] = [objs[h] EXCEPT !.stage = "finalized"] /\ \A g \in Handles \ {h} : objs'[g] = objs[g]
    BY <1>7 DEF Finalize, TypeOK
  <2>3. /\ objs'[h].stage = "finalized"
        /\ objs'[h].readonly = objs[h].readonly
        /\ ObjectKey(objs'[h]) = ObjectKey(objs[h])
    BY <2>1, <2>2 DEF Objects, ObjectKey
  <2>4. \A k \in DOMAIN registry : registry[k] # h
    BY <1>7 DEF Finalize, RegistryInv, RegistrySound, Live
  <2> QED
    BY <1>7, <2>2, <2>3, <2>4, OtherStepRegistry DEF Finalize
<1>8. ASSUME NEW h \in Handles, Reclaim(h)
      PROVE  RegistryInv'
  <2>1. objs'[h] = NoObject /\ \A g \in Handles \ {h} : objs'[g] = objs[g]
    BY <1>8 DEF Reclaim, TypeOK
  <2>2. objs'[h].stage = "absent"
    BY <2>1, NoObjectType DEF Absent
  <2>3. ~\E s \in Slots : Held(s) /\ slots[s].obj = h
    BY <1>8 DEF Reclaim, HeldObjects, Held
  <2>4. \A k \in DOMAIN registry : registry[k] # h
    BY <1>8 DEF Reclaim, RegistryInv, RegistrySound, Live
  <2> QED
    BY <1>8, <2>1, <2>2, <2>3, <2>4, OtherStepRegistry DEF Reclaim
<1>9. ASSUME NEW h \in Handles, NEW s \in Slots, Resurrect(h, s)
      PROVE  RegistryInv'
  <2> DEFINE r == Ref(h, objs[h].type, IF objs[h].delete_on_gc THEN NULL ELSE objs[h].data,
                      objs[h].readonly)
  <2>1. slots'[s] = r /\ \A x \in Slots \ {s} : slots'[x] = slots[x]
    BY <1>9 DEF Resurrect, TypeOK
  <2>2. ~Absent(objs[h]) /\ UNCHANGED <<objs, registry>>
    BY <1>9 DEF Resurrect, Absent
  <2>3. RegistrySound' /\ RegistryComplete'
    BY <2>2 DEF RegistryInv, RegistrySound, RegistryComplete, Live, ObjectKey
  <2>4. RefsSound' /\ ReadonlyPreserved'
    BY <2>1, <2>2
    DEF RegistryInv, RefsSound, ReadonlyPreserved, Held, Absent, Ref, ObjectKey
  <2> QED
    BY <2>3, <2>4 DEF RegistryInv
<1> QED
  BY <1>1, <1>2, <1>3, <1>4, <1>5, <1>6, <1>7, <1>8, <1>9
  DEF Next, Calls, Collector, Held, vars, NewIndexScalar, NewIndexStruct

LEMMA Invariance == Spec => []IInv
<1>1. Init => IInv
  BY InitTypeOK, InitRegistry DEF IInv
<1>2. IInv /\ [Next]_vars => IInv'
  BY NextTypeOK, NextRegistry DEF IInv
<1> QED
  BY <1>1, <1>2, PTL DEF Spec

\* Nobody asks by its address for memory that luastruct has allocated and will
\* free: such an object is registered under NULL, and its address has no key.
BlocksPrivate ==
  \A s \in Slots, h \in Handles :
    Held(s) /\ Live(h) /\ objs[h].delete_on_gc => slots[s].data # objs[h].data

\* Of two references to one address, when one was made without data and the other
\* was not, the address has the key of NULL.
LEMMA OneKey ==
  ASSUME IInv, BlocksPrivate, NEW s1 \in Slots, NEW s2 \in Slots,
         Held(s1), Live(slots[s1].obj), Held(s2), Address(s1) = Address(s2),
         slots[s1].data = NULL, slots[s2].data # NULL
  PROVE  Key(slots[s1].data, slots[s1].readonly) = Key(slots[s2].data, slots[s1].readonly)
<1>1. slots[s1].obj \in Handles
  BY DEF IInv, TypeOK, Held, Refs
<1>2. slots[s2].data = objs[slots[s1].obj].data
  BY DEF Address
<1>3. ~objs[slots[s1].obj].delete_on_gc
  BY <1>1, <1>2 DEF BlocksPrivate
<1>4. /\ ObjectKey(objs[slots[s1].obj]) = Key(slots[s1].data, slots[s1].readonly)
      /\ objs[slots[s1].obj].readonly = slots[s1].readonly
  BY DEF IInv, RegistryInv, RefsSound, ReadonlyPreserved
<1> QED
  BY <1>2, <1>3, <1>4 DEF ObjectKey

\* Structs keep their identity: two references to one struct with one access
\* mode, live and valid, are one userdata, through any sequence of creations,
\* invalidations and collections, as long as nobody asks by its address for what
\* luastruct allocated.
THEOREM OneHandle == Spec /\ []BlocksPrivate => []OneHandlePerStruct
<1>1. IInv /\ BlocksPrivate => OneHandlePerStruct
  <2> SUFFICES ASSUME IInv, BlocksPrivate, NEW s1 \in Slots, NEW s2 \in Slots,
                      Usable(s1), Live(slots[s1].obj), Usable(s2), Live(slots[s2].obj),
                      Address(s1) = Address(s2), slots[s1].readonly = slots[s2].readonly
               PROVE  slots[s1].obj = slots[s2].obj
    BY DEF OneHandlePerStruct
  <2>1. slots[s1].obj \in Handles /\ slots[s2].obj \in Handles
    BY DEF IInv, TypeOK, Usable, Refs
  <2>2. Key(slots[s1].data, slots[s1].readonly) = Key(slots[s2].data, slots[s1].readonly)
    <3>1. Held(s1) /\ Held(s2)
      BY DEF Usable, Held
    <3>2. CASE slots[s1].data = NULL /\ slots[s2].data # NULL
      BY <3>1, <3>2, OneKey
    <3>3. CASE slots[s1].data # NULL /\ slots[s2].data = NULL
      <4>1. Key(slots[s2].data, slots[s2].readonly) = Key(slots[s1].data, slots[s2].readonly)
        BY <3>1, <3>3, OneKey
      <4> QED
        BY <4>1
    <3>4. CASE (slots[s1].data = NULL) <=> (slots[s2].data = NULL)
      BY <3>4 DEF Address
    <3> QED
      BY <3>2, <3>3, <3>4
  <2>3. ObjectKey(objs[slots[s1].obj]) = ObjectKey(objs[slots[s2].obj])
    BY <2>2 DEF IInv, RegistryInv, RefsSound, Usable, Held
  <2> QED
    BY <2>1, <2>3 DEF IInv, RegistryInv, RegistryComplete, Usable
<1> QED
  BY <1>1, Invariance, PTL

\* No reference gains or loses write access on its way through the registry.
THEOREM AccessPreserved == Spec => []ReadonlyPreserved
<1>1. IInv => ReadonlyPreserved
  BY DEF IInv, RegistryInv
<1> QED
  BY <1>1, Invariance, PTL
-----------------------------------------------------------------------------
(***************************************************************************)
(* Ownership of memory. Given the types, OwnershipExact is inductive: the  *)
(* block of a new owner was free, and only an owner gives its block up.    *)
(***************************************************************************)

\* A step that changes no block and makes and unmakes no owner.
LEMMA OwnersUnchanged ==
  ASSUME OwnershipExact, UNCHANGED blocks,
         \A h \in Handles : Owner(h)' = Owner(h),
         \A h \in Handles : Owner(h) => objs'[h].data = objs[h].data
  PROVE  OwnershipExact'
<1>1. /\ HostBlocks \subseteq blocks'
      /\ \A h \in Handles : Owner(h)' => objs'[h].data \in blocks' \ HostBlocks
      /\ \A h1, h2 \in Handles :
           Owner(h1)' /\ Owner(h2)' /\ objs'[h1].data = objs'[h2].data => h1 = h2
      /\ \A b \in blocks' \ HostBlocks : \E h \in Handles : Owner(h)' /\ objs'[h].data = b
  BY DEF OwnershipExact
<1> QED
  BY <1>1 DEF OwnershipExact

LEMMA NewObjectOwnership ==
  ASSUME TypeOK, OwnershipExact, NEW t, NEW data, NEW ro, NEW want, NEW s,
         NewObject(t, data, ro, want, s)
  PROVE  OwnershipExact'
<1>1. CASE ReuseObject(t, data, ro, want, s)
  BY <1>1, OwnersUnchanged DEF ReuseObject, Owner
<1>2. CASE CreateObject(t, data, ro, want, s)
  <2>1. PICK h \in Handles : Absent(objs[h]) /\ AllocateData(h, t, data, ro)
    BY <1>2 DEF CreateObject
  <2>2. ~Owner(h)
    BY <2>1 DEF Owner, Absent
  <2>3. CASE /\ data # NULL
             /\ objs' = [objs EXCEPT ![h] = MakeObject(t, data, ro, FALSE)]
             /\ UNCHANGED blocks
    <3>1. objs'[h] = MakeObject(t, data, ro, FALSE) /\ \A g \in Handles \ {h} : objs'[g] = objs[g]
      BY <2>3 DEF TypeOK
    <3>2. ~objs'[h].delete_on_gc
      BY <3>1 DEF MakeObject
    <3> QED
      BY <2>2, <2>3, <3>1, <3>2, OwnersUnchanged DEF Owner
  <2>4. ASSUME NEW b \in DOMAIN Extent \ blocks,
               objs' = [objs EXCEPT ![h] = MakeObject(t, b, ro, TRUE)],
               blocks' = blocks \cup {b}
        PROVE  OwnershipExact'
    <3>1. objs'[h] = MakeObject(t, b, ro, TRUE) /\ \A g \in Handles \ {h} : objs'[g] = objs[g]
      BY <2>4 DEF TypeOK
    <3>2. Owner(h)' /\ objs'[h].data = b
      BY <3>1 DEF MakeObject, Owner
    <3>3. \A g \in Handles \ {h} : Owner(g)' = Owner(g) /\ objs'[g].data = objs[g].data
      BY <3>1 DEF Owner
    <3>4. \A g \in Handles \ {h} : Owner(g)' => objs'[g].data \in blocks \ HostBlocks
      BY <3>3 DEF OwnershipExact
    <3>5. b \notin HostBlocks
      BY DEF OwnershipExact
    <3>6. HostBlocks \subseteq blocks'
      BY <2>4 DEF OwnershipExact
    <3>7. \A g \in Handles : Owner(g)' => objs'[g].data \in blocks' \ HostBlocks
      <4>1. b \in blocks' \ HostBlocks
        BY <2>4, <3>5
      <4>2. objs'[h].data \in blocks' \ HostBlocks
        BY <3>2, <4>1, Zenon
      <4>3. \A g \in Handles \ {h} : Owner(g)' => objs'[g].data \in blocks' \ HostBlocks
        BY <2>4, <3>4 DEF Owner
      <4> QED
        BY <4>2, <4>3
    <3>8. \A g1, g2 \in Handles :
            Owner(g1)' /\ Owner(g2)' /\ objs'[g1].data = objs'[g2].data => g1 = g2
      BY <3>2, <3>3, <3>4 DEF OwnershipExact
    <3>9. \A c \in blocks' \ HostBlocks : \E g \in Handles : Owner(g)' /\ objs'[g].data = c
      <4>1. ASSUME NEW c \in blocks \ HostBlocks
            PROVE  \E g \in Handles \ {h} : Owner(g)' /\ objs'[g].data = c
        BY <2>2, <3>3 DEF OwnershipExact
      <4> QED
        BY <2>4, <3>2, <4>1
    <3> QED
      BY <3>6, <3>7, <3>8, <3>9 DEF OwnershipExact
  <2> QED
    BY <2>1, <2>3, <2>4 DEF AllocateData
<1> QED
  BY <1>1, <1>2 DEF NewObject

LEMMA FinalizeOwnership ==
  ASSUME TypeOK, OwnershipExact, NEW h \in Handles, Finalize(h)
  PROVE  OwnershipExact'
<1>1. objs[h] \in Objects
  BY DEF TypeOK
<1>2. objs'[h] = [objs[h] EXCEPT !.stage = "finalized"] /\ \A g \in Handles \ {h} : objs'[g] = objs[g]
  BY DEF Finalize, TypeOK
<1>3. objs'[h].stage = "finalized"
  BY <1>1, <1>2 DEF Objects
<1>4. ~Owner(h)'
  BY <1>3 DEF Owner
<1>5. \A g \in Handles \ {h} : Owner(g)' = Owner(g) /\ objs'[g].data = objs[g].data
  BY <1>2 DEF Owner
<1>6. CASE ~objs[h].delete_on_gc
  <2>1. ~Owner(h) /\ UNCHANGED blocks
    BY <1>6 DEF Owner, Finalize
  <2> QED
    BY <1>4, <1>5, <2>1, OwnersUnchanged DEF Owner
<1>7. CASE objs[h].delete_on_gc
  <2>1. Owner(h) /\ blocks' = blocks \ {objs[h].data}
    BY <1>7 DEF Owner, Finalize
  <2>2. HostBlocks \subseteq blocks'
    BY <2>1 DEF OwnershipExact
  <2>3. \A g \in Handles : Owner(g)' => objs'[g].data \in blocks' \ HostBlocks
    BY <1>4, <1>5, <2>1 DEF OwnershipExact
  <2>4. \A g1, g2 \in Handles :
          Owner(g1)' /\ Owner(g2)' /\ objs'[g1].data = objs'[g2].data => g1 = g2
    BY <1>4, <1>5 DEF OwnershipExact
  <2>5. \A b \in blocks' \ HostBlocks : \E g \in Handles : Owner(g)' /\ objs'[g].data = b
    <3>1. ASSUME NEW b \in blocks' \ HostBlocks
          PROVE  \E g \in Handles \ {h} : Owner(g) /\ objs[g].data = b
      BY <2>1 DEF OwnershipExact
    <3> QED
      BY <1>5, <3>1
  <2> QED
    BY <2>2, <2>3, <2>4, <2>5 DEF OwnershipExact
<1> QED
  BY <1>6, <1>7

LEMMA NextOwnership == TypeOK /\ OwnershipExact /\ [Next]_vars => OwnershipExact'
<1> SUFFICES ASSUME TypeOK, OwnershipExact, [Next]_vars PROVE OwnershipExact'
  OBVIOUS
<1>1. ASSUME NEW s \in Slots, NEW t, NEW data, NEW ro, HostNewObject(t, data, ro, s)
      PROVE  OwnershipExact'
  BY <1>1, NewObjectOwnership DEF HostNewObject
<1>2. ASSUME NEW s, NEW f, NEW d \in Slots, Index(s, f, d)
      PROVE  OwnershipExact'
  BY <1>2, NewObjectOwnership DEF Index
<1>3. CASE UNCHANGED <<objs, blocks>>
  BY <1>3, OwnersUnchanged DEF Owner
<1>4. ASSUME NEW s \in Slots, HostInvalidate(s)
      PROVE  OwnershipExact'
  <2>1. slots[s].obj \in Handles
    BY <1>4 DEF HostInvalidate, Usable, TypeOK, Refs
  <2>2. \A g \in Handles : /\ objs[g] \in Objects
                           /\ objs'[g] = objs[g] \/ objs'[g] = [objs[g] EXCEPT !.invalid = TRUE]
    BY <1>4, <2>1 DEF HostInvalidate, TypeOK
  <2>3. \A g \in Handles : /\ objs'[g].stage = objs[g].stage
                           /\ objs'[g].data = objs[g].data
                           /\ objs'[g].delete_on_gc = objs[g].delete_on_gc
    BY <2>2 DEF Objects
  <2> QED
    BY <1>4, <2>3, OwnersUnchanged DEF HostInvalidate, Owner
<1>5. ASSUME NEW h \in Handles, Collect(h)
      PROVE  OwnershipExact'
  <2>1. \A g \in Handles : /\ objs[g] \in Objects
                           /\ \/ objs'[g] = objs[g]
                              \/ g = h /\ objs'[g] = [objs[g] EXCEPT !.stage = "pending"]
    BY <1>5 DEF Collect, TypeOK
  <2>2. \A g \in Handles : /\ objs'[g].data = objs[g].data
                           /\ objs'[g].delete_on_gc = objs[g].delete_on_gc
                           /\ \/ objs'[g].stage = objs[g].stage
                              \/ objs[g].stage = "live" /\ objs'[g].stage = "pending"
    BY <1>5, <2>1 DEF Collect, Objects
  <2> QED
    BY <1>5, <2>2, OwnersUnchanged DEF Collect, Owner
<1>6. ASSUME NEW h \in Handles, Reclaim(h)
      PROVE  OwnershipExact'
  <2>1. objs'[h] = NoObject /\ \A g \in Handles \ {h} : objs'[g] = objs[g]
    BY <1>6 DEF Reclaim, TypeOK
  <2>2. ~Owner(h) /\ ~Owner(h)'
    BY <1>6, <2>1, NoObjectType DEF Reclaim, Owner, Absent
  <2> QED
    BY <1>6, <2>1, <2>2, OwnersUnchanged DEF Reclaim, Owner
<1> QED
  BY <1>1, <1>2, <1>3, <1>4, <1>5, <1>6, FinalizeOwnership
  DEF Next, Calls, Collector, vars, NewIndexScalar, NewIndexStruct, Drop, Resurrect

\* Memory is owned once: __gc frees each block from malloc exactly once and
\* never memory the host passed in.
THEOREM OwnedOnce == Spec => []OwnershipExact
<1>1. Init => OwnershipExact
  BY MemoryAssumption, NoObjectType DEF Init, OwnershipExact, Owner, Absent
<1>2. TypeOK /\ OwnershipExact /\ [Next]_vars => OwnershipExact'
  BY NextOwnership
<1> QED
  BY <1>1, <1>2, TypeCorrect, PTL DEF Spec
-----------------------------------------------------------------------------
\* Every address of a reference or an object fits the digits of a key.
AddressesFit ==
  /\ \A s \in Slots : Held(s) => slots[s].data < KeySpan
  /\ \A h \in Handles : objs[h].data < KeySpan

\* The data argument of the call that made an object.
Asked(o) == IF o.delete_on_gc THEN NULL ELSE o.data

LEMMA AskedAddress ==
  ASSUME IInv, AddressesFit, NEW s \in Slots, Held(s)
  PROVE  Asked(objs[slots[s].obj]) = slots[s].data
<1> DEFINE o == objs[slots[s].obj]
<1>1. slots[s].data \in Nat /\ o.data \in Nat \ {NULL}
  BY DEF IInv, TypeOK, Held, Refs, Objects
<1>2. Key(Asked(o), o.readonly) = Key(slots[s].data, slots[s].readonly)
  BY DEF IInv, RegistryInv, RefsSound, ObjectKey, Asked
<1>3. Asked(o) % KeySpan = slots[s].data % KeySpan
  BY <1>2 DEF Key
<1>4. slots[s].data \in 0 .. KeySpan - 1 /\ Asked(o) \in 0 .. KeySpan - 1
  BY <1>1, MemoryAssumption DEF AddressesFit, IInv, TypeOK, Held, Refs, NULL, Asked
<1> QED
  BY <1>3, <1>4, MemoryAssumption

\* As long as addresses fit the digits a key has for them, a reference stands
\* for the address that was asked for.
THEOREM RequestedData == Spec /\ []AddressesFit => []HandleHasRequestedData
<1>1. IInv /\ AddressesFit => HandleHasRequestedData
  <2> SUFFICES ASSUME IInv, AddressesFit, NEW s \in Slots, Held(s)
               PROVE  IF slots[s].data = NULL THEN objs[slots[s].obj].delete_on_gc
                      ELSE objs[slots[s].obj].data = slots[s].data
    BY DEF HandleHasRequestedData
  <2>1. objs[slots[s].obj].data # NULL
    BY DEF IInv, TypeOK, Held, Refs, Objects
  <2> QED
    BY <2>1, AskedAddress DEF Asked
<1> QED
  BY <1>1, Invariance, PTL

(***************************************************************************)
(* When host and scripts ask for structs of one type only at each address, *)
(* which type is a matter of the address. Objects made without data count  *)
(* as one address: they share a key.                                       *)
(***************************************************************************)
OneTypeAsked(TypeAt) ==
  \A s \in Slots : slots[s] \in Refs => slots[s].type = TypeAt[slots[s].data]

ObjectsTyped(TypeAt) ==
  \A h \in Handles : ~Absent(objs[h]) => objs[h].type = TypeAt[Asked(objs[h])]

LEMMA NewObjectTyped ==
  ASSUME NEW TypeAt, IInv, ObjectsTyped(TypeAt), OneTypeAsked(TypeAt)',
         NEW t \in Types, NEW data \in Nat, NEW ro \in BOOLEAN, NEW want \in BOOLEAN,
         NEW s \in Slots, NewObject(t, data, ro, want, s)
  PROVE  ObjectsTyped(TypeAt)'
<1>1. CASE ReuseObject(t, data, ro, want, s)
  BY <1>1 DEF ReuseObject, ObjectsTyped, Absent, Asked
<1>2. CASE CreateObject(t, data, ro, want, s)
  <2>1. PICK h \in Handles :
          /\ AllocateData(h, t, data, ro)
          /\ slots' = [slots EXCEPT ![s] = Ref(h, t, data, want)]
    BY <1>2 DEF CreateObject
  <2>2. slots'[s] = Ref(h, t, data, want)
    BY <2>1 DEF IInv, TypeOK
  <2>3. Ref(h, t, data, want) \in Refs
    BY DEF Ref, Refs
  <2>4. t = TypeAt[data]
    BY <2>2, <2>3 DEF OneTypeAsked, Ref
  <2>5. objs'[h].type = t /\ Asked(objs'[h]) = data
    <3>1. CASE data # NULL /\ objs' = [objs EXCEPT ![h] = MakeObject(t, data, ro, FALSE)]
      <4>1. objs'[h] = MakeObject(t, data, ro, FALSE)
        BY <3>1 DEF IInv, TypeOK
      <4> QED
        BY <4>1 DEF MakeObject, Asked
    <3>2. ASSUME NEW b, data = NULL, objs' = [objs EXCEPT ![h] = MakeObject(t, b, ro, TRUE)]
          PROVE  objs'[h].type = t /\ Asked(objs'[h]) = data
      <4>1. objs'[h] = MakeObject(t, b, ro, TRUE)
        BY <3>2 DEF IInv, TypeOK
      <4> QED
        BY <3>2, <4>1 DEF MakeObject, Asked
    <3> QED
      BY <2>1, <3>1, <3>2 DEF AllocateData
  <2>6. \A g \in Handles \ {h} : objs'[g] = objs[g]
    BY <2>1 DEF AllocateData, IInv, TypeOK
  <2>7. ASSUME NEW g \in Handles, objs'[g].stage # "absent"
        PROVE  objs'[g].type = TypeAt[Asked(objs'[g])]
    BY <2>4, <2>5, <2>6, <2>7 DEF ObjectsTyped, Absent
  <2> QED
    BY <2>7 DEF ObjectsTyped, Absent, Asked
<1> QED
  BY <1>1, <1>2 DEF NewObject

LEMMA NextTyped ==
  ASSUME NEW TypeAt
  PROVE  IInv /\ ObjectsTyped(TypeAt) /\ OneTypeAsked(TypeAt)' /\ [Next]_vars
           => ObjectsTyped(TypeAt)'
<1> SUFFICES ASSUME IInv, ObjectsTyped(TypeAt), OneTypeAsked(TypeAt)', [Next]_vars
             PROVE  ObjectsTyped(TypeAt)'
  OBVIOUS
<1>1. ASSUME NEW s \in Slots, NEW t \in Types, NEW ro \in BOOLEAN,
             NEW data \in {NULL} \cup {d[2] : d \in HostData}, HostNewObject(t, data, ro, s)
      PROVE  ObjectsTyped(TypeAt)'
  <2>1. data \in Nat
    BY MemoryAssumption DEF NULL
  <2> QED
    BY <1>1, <2>1, NewObjectTyped DEF HostNewObject
<1>2. ASSUME NEW s \in Slots, slots[s] # Nil, NEW f \in FieldsOf(s), NEW d \in Slots,
             Index(s, f, d)
      PROVE  ObjectsTyped(TypeAt)'
  <2>1. /\ f.type \in Types
        /\ Target(objs[slots[s].obj], f) \in Nat
        /\ Access(objs[slots[s].obj], f) \in BOOLEAN
        /\ (slots[s].readonly \/ f.readonly) \in BOOLEAN
    BY <1>2, IndexType DEF Index, Held, IInv
  <2> QED
    BY <1>2, <2>1, NewObjectTyped DEF Index
<1>3. CASE UNCHANGED objs
  BY <1>3 DEF ObjectsTyped, Absent, Asked
<1>4. ASSUME NEW h \in Handles, NEW o, objs' = [objs EXCEPT ![h] = o],
             \/ o.stage = "absent"
             \/ /\ objs[h].stage # "absent" /\ o.type = objs[h].type
                /\ o.data = objs[h].data /\ o.delete_on_gc = objs[h].delete_on_gc
      PROVE  ObjectsTyped(TypeAt)'
  <2>1. objs'[h] = o /\ \A g \in Handles \ {h} : objs'[g] = objs[g]
    BY <1>4 DEF IInv, TypeOK
  <2>2. ASSUME NEW g \in Handles, objs'[g].stage # "absent"
        PROVE  objs'[g].type = TypeAt[Asked(objs'[g])]
    BY <1>4, <2>1, <2>2 DEF ObjectsTyped, Absent, Asked
  <2> QED
    BY <2>2 DEF ObjectsTyped, Absent, Asked
<1>5. ASSUME NEW s \in Slots, HostInvalidate(s)
      PROVE  ObjectsTyped(TypeAt)'
  <2> DEFINE h == slots[s].obj
  <2>1. h \in Handles /\ objs[h] \in Objects /\ objs[h].stage # "absent"
    BY <1>5 DEF HostInvalidate, Usable, Held, Absent, IInv, TypeOK, RegistryInv, RefsSound, Refs
  <2>2. objs' = [objs EXCEPT ![h] = [objs[h] EXCEPT !.invalid = TRUE]]
    BY <1>5 DEF HostInvalidate
  <2> HIDE DEF h
  <2>3. /\ [objs[h] EXCEPT !.invalid = TRUE].type = objs[h].type
        /\ [objs[h] EXCEPT !.invalid = TRUE].data = objs[h].data
        /\ [objs[h] EXCEPT !.invalid = TRUE].delete_on_gc = objs[h].delete_on_gc
    BY <2>1 DEF Objects
  <2> QED
    BY <1>4, <2>1, <2>2, <2>3
<1>6. ASSUME NEW h \in Handles, NEW stage, objs[h].stage # "absent",
             objs' = [objs EXCEPT ![h].stage = stage]
      PROVE  ObjectsTyped(TypeAt)'
  <2>1. objs[h] \in Objects
    BY DEF IInv, TypeOK
  <2>2. objs' = [objs EXCEPT ![h] = [objs[h] EXCEPT !.stage = stage]]
    BY <1>6
  <2>3. /\ [objs[h] EXCEPT !.stage = stage].type = objs[h].type
        /\ [objs[h] EXCEPT !.stage = stage].data = objs[h].data
        /\ [objs[h] EXCEPT !.stage = stage].delete_on_gc = objs[h].delete_on_gc
    BY <2>1 DEF Objects
  <2> QED
    BY <1>4, <1>6, <2>2, <2>3
<1>7. ASSUME NEW h \in Handles, Collect(h) \/ Finalize(h)
      PROVE  ObjectsTyped(TypeAt)'
  BY <1>6, <1>7 DEF Collect, Finalize
<1>8. ASSUME NEW h \in Handles, Reclaim(h)
      PROVE  ObjectsTyped(TypeAt)'
  BY <1>4, <1>8, NoObjectType DEF Reclaim, Absent
<1>9. CASE Calls
  BY <1>1, <1>2, <1>3, <1>5, <1>9 DEF Calls, NewIndexScalar, NewIndexStruct, Drop
<1>10. CASE \E h \in Handles, s \in Slots : Resurrect(h, s)
  BY <1>3, <1>10 DEF Resurrect
<1> QED
  BY <1>3, <1>7, <1>8, <1>9, <1>10 DEF Next, Collector, vars

LEMMA Typed ==
  ASSUME NEW TypeAt
  PROVE  IInv /\ AddressesFit /\ OneTypeAsked(TypeAt) /\ ObjectsTyped(TypeAt)
           => HandleHasRequestedType
<1> SUFFICES ASSUME IInv, AddressesFit, OneTypeAsked(TypeAt), ObjectsTyped(TypeAt),
                    NEW s \in Slots, Held(s)
             PROVE  objs[slots[s].obj].type = slots[s].type
  BY DEF HandleHasRequestedType
<1>1. slots[s] \in Refs /\ slots[s].obj \in Handles /\ ~Absent(objs[slots[s].obj])
  BY DEF IInv, TypeOK, RegistryInv, RefsSound, Held, Refs
<1> QED
  BY <1>1, AskedAddress DEF OneTypeAsked, ObjectsTyped

\* As long as addresses fit a key and each is asked for with one type, a handle
\* has the type that was asked for, whatever was collected and made again there.
THEOREM RequestedType ==
  ASSUME NEW TypeAt
  PROVE  Spec /\ []AddressesFit /\ []OneTypeAsked(TypeAt) => []HandleHasRequestedType
<1>1. Init => ObjectsTyped(TypeAt)
  BY NoObjectType DEF Init, ObjectsTyped, Absent
<1> QED
  BY <1>1, NextTyped, Typed, Invariance, PTL DEF Spec

LEMMA EqOfRequested ==
  IInv /\ HandleHasRequestedType /\ HandleHasRequestedData => EqIffSameStruct
<1> SUFFICES ASSUME IInv, HandleHasRequestedType, HandleHasRequestedData,
                    NEW s1 \in Slots, NEW s2 \in Slots, Usable(s1), Usable(s2)
             PROVE  LuaEq(slots[s1].obj, slots[s2].obj)
                      <=> slots[s1].type = slots[s2].type /\ Address(s1) = Address(s2)
  BY DEF EqIffSameStruct
<1>1. ASSUME NEW s \in Slots, Usable(s)
      PROVE  /\ objs[slots[s].obj].type = slots[s].type
             /\ objs[slots[s].obj].data = Address(s)
             /\ ~objs[slots[s].obj].invalid
  BY <1>1 DEF Usable, Held, HandleHasRequestedType, HandleHasRequestedData, Address
<1> QED
  BY <1>1 DEF LuaEq, ObjectEq

\* Under the same conditions == compares what was asked for: it holds of two
\* usable references exactly when they stand for one struct.
THEOREM EqualStructs ==
  ASSUME NEW TypeAt
  PROVE  Spec /\ []AddressesFit /\ []OneTypeAsked(TypeAt) => []EqIffSameStruct
BY EqOfRequested, RequestedData, RequestedType, Invariance, PTL
-----------------------------------------------------------------------------
(***************************************************************************)
(* The steps of Objects are steps that Lua's collector promises. That no   *)
(* entry of the registry is overtaken by the __gc of its object rests on   *)
(* RegistrySound.                                                          *)
(***************************************************************************)

\* A step that changes no stage, takes only what the registry has, and enters
\* nothing, is the program's.
LEMMA SameStages ==
  ASSUME TypeOK, GCStage' = GCStage, HeldObjects' \subseteq HeldObjects \cup Entries,
         Entries' = Entries
  PROVE  Promise!Next
<1>1. GCStage \in [Handles -> Promise!Stages]
  BY DEF TypeOK, Objects, Stages, GCStage, Promise!Stages
<1>2. Promise!Mutate
  BY <1>1 DEF Promise!Mutate, Promise!SweptOr, Promise!New
<1> QED
  BY <1>2 DEF Promise!Next

LEMMA NewObjectPromise ==
  ASSUME IInv, TypeOK', NEW t \in Types, NEW data \in Nat, NEW ro \in BOOLEAN,
         NEW want \in BOOLEAN, NEW s \in Slots, NewObject(t, data, ro, want, s)
  PROVE  Promise!Next
<1>1. CASE ReuseObject(t, data, ro, want, s)
  <2> DEFINE h == Cached(data, ro)
  <2>1. h \in Entries
    BY <1>1 DEF ReuseObject, Cached, Entries
  <2>2. \A x \in Slots : slots'[x] = slots[x] \/ slots'[x].obj = h
    BY <1>1 DEF ReuseObject, Ref, IInv, TypeOK
  <2>3. HeldObjects' \subseteq HeldObjects \cup Entries
    BY <2>1, <2>2 DEF HeldObjects
  <2>4. GCStage' = GCStage /\ Entries' = Entries
    BY <1>1 DEF ReuseObject, GCStage, Entries
  <2> QED
    BY <2>3, <2>4, SameStages DEF IInv
<1>2. CASE CreateObject(t, data, ro, want, s)
  <2>1. PICK h \in Handles :
          /\ Absent(objs[h])
          /\ AllocateData(h, t, data, ro)
          /\ registry' = [k \in DOMAIN registry \cup {Key(data, ro)} |->
                            IF k = Key(data, ro) THEN h ELSE registry[k]]
          /\ slots' = [slots EXCEPT ![s] = Ref(h, t, data, want)]
    BY <1>2 DEF CreateObject
  <2>2. objs'[h].stage = "live" /\ \A g \in Handles \ {h} : objs'[g] = objs[g]
    BY <2>1 DEF AllocateData, MakeObject, IInv, TypeOK
  <2>3. /\ GCStage[h] = "absent" /\ GCStage'[h] = "live"
        /\ \A g \in Handles \ {h} : GCStage'[g] = GCStage[g]
    BY <2>1, <2>2 DEF GCStage, Absent
  <2>4. h \in Promise!New
    BY <2>3 DEF Promise!New
  <2>5. HeldObjects' \subseteq HeldObjects \cup {h}
    <3>1. \A x \in Slots : slots'[x] = slots[x] \/ slots'[x].obj = h
      BY <2>1 DEF Ref, IInv, TypeOK
    <3> QED
      BY <3>1 DEF HeldObjects
  <2>6. Entries' \subseteq Entries \cup {h}
    BY <2>1 DEF Entries
  <2>7. GCStage' \in [Handles -> Promise!Stages]
    BY DEF TypeOK, Objects, Stages, GCStage, Promise!Stages
  <2>8. \A g \in Handles :
          Promise!SweptOr(g, IF GCStage[g] = "absent" THEN {"plain", "live"}
                             ELSE IF GCStage[g] = "plain" /\ g \in HeldObjects THEN {"live"}
                             ELSE {})
    BY <2>3 DEF Promise!SweptOr
  <2>9. Promise!Mutate
    BY <2>3, <2>4, <2>5, <2>6, <2>7, <2>8 DEF Promise!Mutate
  <2> QED
    BY <2>9 DEF Promise!Next
<1> QED
  BY <1>1, <1>2 DEF NewObject

LEMMA NextPromise == IInv /\ TypeOK' /\ [Next]_vars => [Promise!Next]_(Promise!vars)
<1> SUFFICES ASSUME IInv, TypeOK', [Next]_vars
             PROVE  Promise!Next \/ UNCHANGED Promise!vars
  OBVIOUS
<1> USE DEF IInv
<1>1. ASSUME NEW s \in Slots, NEW t \in Types, NEW ro \in BOOLEAN,
             NEW data \in {NULL} \cup {d[2] : d \in HostData}, HostNewObject(t, data, ro, s)
      PROVE  Promise!Next
  <2>1. data \in Nat
    BY MemoryAssumption DEF NULL
  <2> QED
    BY <1>1, <2>1, NewObjectPromise DEF HostNewObject
<1>2. ASSUME NEW s \in Slots, Held(s), NEW f \in FieldsOf(s), NEW d \in Slots, Index(s, f, d)
      PROVE  Promise!Next
  <2>1. f.kind = "struct" /\ InMemory(objs[slots[s].obj], f)
    BY <1>2 DEF Index
  <2> QED
    BY <1>2, <2>1, IndexType, NewObjectPromise DEF Index
<1>3. CASE UNCHANGED <<objs, registry, slots>>
  BY <1>3 DEF Promise!vars, GCStage, HeldObjects, Entries
<1>4. ASSUME NEW s \in Slots, HostInvalidate(s)
      PROVE  UNCHANGED Promise!vars
  <2>1. \A g \in Handles : objs'[g].stage = objs[g].stage
    <3>1. \A g \in Handles : /\ objs[g] \in Objects
                             /\ objs'[g] = objs[g] \/ objs'[g] = [objs[g] EXCEPT !.invalid = TRUE]
      BY <1>4 DEF HostInvalidate, TypeOK
    <3> QED
      BY <3>1 DEF Objects
  <2> QED
    BY <1>4, <2>1 DEF HostInvalidate, Promise!vars, GCStage, HeldObjects, Entries
<1>5. ASSUME NEW s \in Slots, Drop(s)
      PROVE  Promise!Next
  <2>1. \A x \in Slots : slots'[x] # Nil => slots'[x] = slots[x]
    BY <1>5 DEF Drop, TypeOK
  <2>2. HeldObjects' \subseteq HeldObjects
    BY <2>1 DEF HeldObjects
  <2>3. GCStage' = GCStage /\ Entries' = Entries
    BY <1>5 DEF Drop, GCStage, Entries
  <2> QED
    BY <2>2, <2>3, SameStages
<1>6. ASSUME NEW h \in Handles, Collect(h)
      PROVE  Promise!Next
  <2>1. /\ GCStage[h] = "live" /\ GCStage'[h] = "pending"
        /\ \A g \in Handles \ {h} : GCStage'[g] = GCStage[g]
    <3>1. objs'[h] = [objs[h] EXCEPT !.stage = "pending"] /\ objs[h] \in Objects
      BY <1>6 DEF Collect, TypeOK
    <3>2. objs'[h].stage = "pending"
      BY <3>1 DEF Objects
    <3> QED
      BY <1>6, <3>2 DEF Collect, GCStage, TypeOK
  <2>2. h \notin HeldObjects /\ HeldObjects' = HeldObjects
    BY <1>6 DEF Collect, StrongRefs, HeldObjects
  <2>3. Entries' = Entries \ {h}
    BY <1>6 DEF Collect, Entries
  <2>4. \A g \in Entries : g \in Handles /\ GCStage[g] = "live"
    BY DEF RegistryInv, RegistrySound, Live, Entries, GCStage, TypeOK
  <2>5. Entries' = {g \in Entries : GCStage'[g] # "pending"}
    BY <2>1, <2>3, <2>4
  <2>6. GCStage' \in [Handles -> Promise!Stages]
    BY DEF TypeOK, Objects, Stages, GCStage, Promise!Stages
  <2>7. Promise!Collect
    BY <2>1, <2>2, <2>5, <2>6 DEF Promise!Collect, Promise!SweptOr
  <2> QED
    BY <2>7 DEF Promise!Next
<1>7. ASSUME NEW h \in Handles, Finalize(h)
      PROVE  Promise!Next
  <2>1. GCStage[h] = "pending" /\ GCStage' = [GCStage EXCEPT ![h] = "plain"]
    <3>1. objs'[h] = [objs[h] EXCEPT !.stage = "finalized"] /\ objs[h] \in Objects
      BY <1>7 DEF Finalize, TypeOK
    <3>2. objs'[h].stage = "finalized"
      BY <3>1 DEF Objects
    <3> QED
      BY <1>7, <3>2 DEF Finalize, GCStage, TypeOK
  <2>2. HeldObjects' = HeldObjects /\ Entries' = Entries
    BY <1>7 DEF Finalize, HeldObjects, Entries
  <2>3. Promise!Finalize(h)
    BY <2>1, <2>2 DEF Promise!Finalize
  <2> QED
    BY <2>3 DEF Promise!Next
<1>8. ASSUME NEW h \in Handles, Reclaim(h)
      PROVE  Promise!Next
  <2>1. /\ GCStage[h] = "plain" /\ GCStage'[h] = "absent"
        /\ \A g \in Handles \ {h} : GCStage'[g] = GCStage[g]
    BY <1>8, NoObjectType DEF Reclaim, GCStage, TypeOK, Absent
  <2>2. h \notin HeldObjects /\ HeldObjects' = HeldObjects /\ Entries' = Entries
    BY <1>8 DEF Reclaim, HeldObjects, Entries
  <2>3. \A g \in Entries : g \in Handles /\ GCStage[g] = "live"
    BY DEF RegistryInv, RegistrySound, Live, Entries, GCStage, TypeOK
  <2>4. Entries' = {g \in Entries : GCStage'[g] # "pending"}
    BY <2>1, <2>2, <2>3
  <2>5. GCStage' \in [Handles -> Promise!Stages]
    BY DEF TypeOK, Objects, Stages, GCStage, Promise!Stages
  <2>6. Promise!Collect
    BY <2>1, <2>2, <2>4, <2>5 DEF Promise!Collect, Promise!SweptOr
  <2> QED
    BY <2>6 DEF Promise!Next
<1>9. ASSUME NEW h \in Handles, NEW s \in Slots, Resurrect(h, s)
      PROVE  Promise!Next
  <2>1. /\ slots[s] = Nil /\ slots'[s].obj = h
        /\ \A x \in Slots \ {s} : slots'[x] = slots[x]
    BY <1>9 DEF Resurrect, Ref, TypeOK
  <2>2. HeldObjects \subseteq HeldObjects' /\ HeldObjects' \subseteq HeldObjects \cup {h}
    BY <2>1 DEF HeldObjects
  <2>3. \A g \in HeldObjects \cup {h} : g \in Handles /\ GCStage[g] # "absent"
    <3>1. \A g \in HeldObjects : g \in Handles /\ objs[g].stage # "absent"
      BY DEF HeldObjects, RegistryInv, RefsSound, Held, Absent, TypeOK, Refs
    <3> QED
      BY <1>9, <3>1 DEF Resurrect, GCStage
  <2>4. GCStage' = GCStage /\ Entries' = Entries
    BY <1>9 DEF Resurrect, GCStage, Entries
  <2>5. Promise!Resurrect
    BY <2>2, <2>3, <2>4 DEF Promise!Resurrect
  <2> QED
    BY <2>5 DEF Promise!Next
<1> QED
  BY <1>1, <1>2, <1>3, <1>4, <1>5, <1>6, <1>7, <1>8, <1>9
  DEF Next, Calls, Collector, Held, vars, NewIndexScalar, NewIndexStruct

\* The registry implements what Lua's collector promises, with the handles of
\* the script as what is held and the registry as the weak table.
THEOREM CollectorKept == Spec => KeepsPromise
<1>1. Init => Promise!Init
  BY NoObjectType DEF Init, Promise!Init, GCStage, HeldObjects, Entries, Absent
<1>2. IInv /\ IInv' /\ [Next]_vars => [Promise!Next]_(Promise!vars)
  BY NextPromise DEF IInv
<1> QED
  BY <1>1, <1>2, Invariance, PTL DEF Spec, KeepsPromise, Promise!Spec
-----------------------------------------------------------------------------
(***************************************************************************)
(* Writing to memory.                                                      *)
(***************************************************************************)
\* Where the object of an assignment stands for what the script asked for, the
\* cells of the field are among those the script may change.
LEMMA AssignableIsWritable ==
  ASSUME IInv, HandleHasRequestedType, HandleHasRequestedData,
         NEW s \in Slots, NEW f, Assignable(s, f), InMemory(objs[slots[s].obj], f),
         NEW a \in Cells,
         a \in Target(objs[slots[s].obj], f) ..
                 Target(objs[slots[s].obj], f) + (IF f.kind = "struct" THEN Size[f.type] ELSE 1) - 1
  PROVE  a \in Writable
<1> DEFINE o == objs[slots[s].obj]
           at == [data |-> Address(s)]
<1>1. /\ Usable(s) /\ Held(s) /\ ~o.readonly /\ ~f.readonly
      /\ f \in Fields[o.type]
  BY DEF Assignable, Usable, Held, FieldsOf
<1>2. o.type = slots[s].type /\ o.data = Address(s)
  BY <1>1 DEF HandleHasRequestedType, HandleHasRequestedData, Address
<1>3. ~slots[s].readonly
  BY <1>1 DEF IInv, RegistryInv, ReadonlyPreserved
<1>4. Target(at, f) = Target(o, f) /\ InMemory(at, f)
  BY <1>2 DEF Target, InMemory
<1> QED
  BY <1>1, <1>2, <1>3, <1>4 DEF Writable

LEMMA WritesWritable ==
  ASSUME IInv, HandleHasRequestedType, HandleHasRequestedData, [Next]_vars
  PROVE  \A a \in Cells : mem'[a] # mem[a] => a \in Writable
<1> SUFFICES ASSUME NEW a \in Cells, mem'[a] # mem[a]
             PROVE  a \in Writable
  OBVIOUS
<1>1. CASE UNCHANGED mem
  BY <1>1
<1>2. ASSUME NEW s \in Slots, NEW f \in FieldsOf(s), NEW v, NewIndexScalar(s, f, v)
      PROVE  a \in Writable
  <2> DEFINE to == Target(objs[slots[s].obj], f)
  <2>1. /\ Assignable(s, f) /\ InMemory(objs[slots[s].obj], f) /\ f.kind = "scalar"
        /\ to \in Cells /\ mem' = [mem EXCEPT ![to] = v]
    BY <1>2 DEF NewIndexScalar
  <2> HIDE DEF to
  <2>2. a = to
    BY <2>1 DEF IInv, TypeOK
  <2>3. to \in Nat
    <3>1. f \in FieldDesc /\ objs[slots[s].obj].data \in Nat
      BY <2>1, TypesAssumption
         DEF Assignable, Usable, FieldsOf, IInv, TypeOK, Refs, Objects
    <3>2. f.pointer => mem[objs[slots[s].obj].data + f.offset] \in Nat
      BY <2>1, MemoryAssumption DEF InMemory, IInv, TypeOK
    <3> QED
      BY <3>1, <3>2 DEF to, Target, FieldDesc
  <2>4. a \in to .. to + (IF f.kind = "struct" THEN Size[f.type] ELSE 1) - 1
    BY <2>1, <2>2, <2>3
  <2> QED
    BY <2>1, <2>4, AssignableIsWritable DEF to
<1>3. ASSUME NEW s \in Slots, NEW f \in FieldsOf(s), NEW c \in Slots, NewIndexStruct(s, f, c)
      PROVE  a \in Writable
  <2> DEFINE to == Target(objs[slots[s].obj], f)
  <2>1. /\ Assignable(s, f) /\ InMemory(objs[slots[s].obj], f) /\ f.kind = "struct"
        /\ a \notin to .. to + Size[f.type] - 1 => mem'[a] = mem[a]
    BY <1>3 DEF NewIndexStruct
  <2> QED
    BY <2>1, AssignableIsWritable
<1>4. CASE Calls
  <2>1. ASSUME NEW t, NEW data, NEW ro, NEW want, NEW s, NewObject(t, data, ro, want, s)
        PROVE  UNCHANGED mem
    BY <2>1 DEF NewObject, ReuseObject, CreateObject
  <2>2. ASSUME NEW t, NEW data, NEW ro, NEW s, HostNewObject(t, data, ro, s)
        PROVE  UNCHANGED mem
    BY <2>1, <2>2 DEF HostNewObject
  <2>3. ASSUME NEW s, NEW f, NEW d, Index(s, f, d)
        PROVE  UNCHANGED mem
    BY <2>1, <2>3 DEF Index
  <2>4. ASSUME NEW s, HostInvalidate(s) \/ Drop(s)
        PROVE  UNCHANGED mem
    BY <2>4 DEF HostInvalidate, Drop
  <2> QED
    BY <1>1, <1>2, <1>3, <1>4, <2>2, <2>3, <2>4 DEF Calls
<1>5. CASE Collector
  BY <1>1, <1>5 DEF Collector, Collect, Finalize, Reclaim
<1>6. CASE \E h \in Handles, s \in Slots : Resurrect(h, s)
  BY <1>1, <1>6 DEF Resurrect
<1> QED
  BY <1>1, <1>4, <1>5, <1>6 DEF Next, vars

\* Under the conditions of RequestedType, no step changes a cell the script has
\* no read-write way to, whichever handle the registry answered with.
THEOREM WritesAllowed ==
  ASSUME NEW TypeAt
  PROVE  Spec /\ []AddressesFit /\ []OneTypeAsked(TypeAt) => MemoryWrites
<1>1. IInv /\ HandleHasRequestedType /\ HandleHasRequestedData /\ [Next]_vars
        => [\A a \in Cells : mem'[a] # mem[a] => a \in Writable]_vars
  BY WritesWritable
<1> QED
  BY <1>1, RequestedData, RequestedType, Invariance, PTL DEF Spec, MemoryWrites
-----------------------------------------------------------------------------
(***************************************************************************)
(* Dangling references. What the host must see to: its structs are in      *)
(* blocks it keeps, and so are the structs they lead to; a struct that     *)
(* objects allocate for themselves, because the host gives no data or its  *)
(* pointer is NULL, fits the block and has no struct in it.                *)
(***************************************************************************)
HostBacked(t, a) == \E b \in HostBlocks : a .. a + Size[t] - 1 \subseteq Extent[b]

SelfContained(t) ==
  /\ \A f \in Fields[t] : f.kind # "struct"
  /\ \A b \in DOMAIN Extent \ HostBlocks : b .. b + Size[t] - 1 \subseteq Extent[b]

\* The data argument of luastruct_new_object, NULL or not.
Sound(t, data) == IF data = NULL THEN SelfContained(t) ELSE HostBacked(t, data)

HostDataBacked ==
  /\ \A d \in HostData : HostBacked(d[1], d[2])
  /\ \A t \in NullTypes : SelfContained(t)

\* The struct fields of a host's struct lead to structs of the host.
FieldsLead ==
  \A s \in Slots : Usable(s) /\ slots[s].data # NULL =>
    LET at == [data |-> slots[s].data] IN
    \A f \in Fields[slots[s].type] :
      f.kind = "struct" /\ InMemory(at, f) => Sound(f.type, Target(at, f))

\* What the script holds has not been collected, and is a struct of the host or
\* one without struct fields.
HeldInv ==
  \A s \in Slots : Held(s) =>
    /\ Live(slots[s].obj)
    /\ Sound(slots[s].type, slots[s].data)

LEMMA HeldSame ==
  ASSUME TypeOK, HeldInv,
         \A s \in Slots : slots'[s] \in {slots[s], Nil},
         \A h \in HeldObjects : Live(h) => objs'[h].stage = "live"
  PROVE  HeldInv'
<1> SUFFICES ASSUME NEW s \in Slots, slots'[s] # Nil
             PROVE  /\ objs'[slots'[s].obj].stage = "live"
                    /\ Sound(slots'[s].type, slots'[s].data)
  BY DEF HeldInv, Held, Live, Sound, HostBacked, SelfContained
<1>1. slots'[s] = slots[s] /\ Held(s) /\ slots[s].obj \in HeldObjects
  BY DEF Held, HeldObjects
<1> QED
  BY <1>1 DEF HeldInv

LEMMA NewObjectHeld ==
  ASSUME IInv, HeldInv, NEW t \in Types, NEW data \in Nat, NEW ro \in BOOLEAN,
         NEW want \in BOOLEAN, NEW s \in Slots, NewObject(t, data, ro, want, s),
         Sound(t, data)
  PROVE  HeldInv'
<1>1. ASSUME NEW h \in Handles, slots' = [slots EXCEPT ![s] = Ref(h, t, data, want)],
             objs'[h].stage = "live", \A g \in Handles : Live(g) => objs'[g].stage = "live"
      PROVE  HeldInv'
  <2> SUFFICES ASSUME NEW x \in Slots, slots'[x] # Nil
               PROVE  /\ objs'[slots'[x].obj].stage = "live"
                      /\ Sound(slots'[x].type, slots'[x].data)
    BY DEF HeldInv, Held, Live, Sound, HostBacked, SelfContained
  <2>1. CASE x = s
    <3>1. slots'[x] = Ref(h, t, data, want)
      BY <1>1, <2>1 DEF IInv, TypeOK
    <3> QED
      BY <1>1, <3>1 DEF Ref
  <2>2. CASE x # s
    <3>1. slots'[x] = slots[x]
      BY <1>1, <2>2 DEF IInv, TypeOK
    <3>2. Held(x) /\ slots[x].obj \in Handles
      BY <3>1 DEF Held, IInv, TypeOK, Refs
    <3> QED
      BY <1>1, <3>1, <3>2 DEF HeldInv
  <2> QED
    BY <2>1, <2>2
<1>2. CASE ReuseObject(t, data, ro, want, s)
  <2> DEFINE h == Cached(data, ro)
  <2>1. h # Nil /\ objs' = objs /\ slots' = [slots EXCEPT ![s] = Ref(h, t, data, want)]
    BY <1>2 DEF ReuseObject
  <2>2. h \in Handles /\ Live(h)
    BY <2>1 DEF Cached, IInv, TypeOK, RegistryInv, RegistrySound
  <2> HIDE DEF h
  <2> QED
    BY <1>1, <2>1, <2>2 DEF Live
<1>3. CASE CreateObject(t, data, ro, want, s)
  <2>1. PICK h \in Handles :
          /\ AllocateData(h, t, data, ro)
          /\ slots' = [slots EXCEPT ![s] = Ref(h, t, data, want)]
    BY <1>3 DEF CreateObject
  <2>2. PICK o : o.stage = "live" /\ objs' = [objs EXCEPT ![h] = o]
    <3>1. MakeObject(t, data, ro, FALSE).stage = "live"
      BY DEF MakeObject
    <3>2. \A b : MakeObject(t, b, ro, TRUE).stage = "live"
      BY DEF MakeObject
    <3> QED
      BY <2>1, <3>1, <3>2 DEF AllocateData
  <2>3. objs'[h].stage = "live" /\ \A g \in Handles : Live(g) => objs'[g].stage = "live"
    BY <2>2 DEF Live, IInv, TypeOK
  <2> QED
    BY <1>1, <2>1, <2>3
<1> QED
  BY <1>2, <1>3 DEF NewObject

LEMMA NextHeld ==
  ASSUME ~Finalizers, HostDataBacked
  PROVE  /\ IInv /\ HeldInv /\ FieldsLead
         /\ HandleHasRequestedType /\ HandleHasRequestedData
         /\ [Next]_vars
         => HeldInv'
<1> SUFFICES ASSUME IInv, HeldInv, FieldsLead, HandleHasRequestedType, HandleHasRequestedData,
                    [Next]_vars
             PROVE  HeldInv'
  OBVIOUS
<1>1. CASE UNCHANGED <<objs, slots>>
  BY <1>1, HeldSame DEF IInv, Live
<1>2. ASSUME NEW s \in Slots, NEW t \in Types, NEW ro \in BOOLEAN,
             NEW data \in {NULL} \cup {d[2] : d \in HostData}, HostNewObject(t, data, ro, s)
      PROVE  HeldInv'
  <2>1. data \in Nat
    BY MemoryAssumption DEF NULL
  <2>2. Sound(t, data)
    <3>1. <<t, data>> \in HostData => data # NULL /\ HostBacked(t, data)
      BY MemoryAssumption DEF HostDataBacked
    <3> QED
      BY <1>2, <2>1, <3>1 DEF HostNewObject, HostDataBacked, Sound
  <2> QED
    BY <1>2, <2>1, <2>2, NewObjectHeld DEF HostNewObject
<1>3. ASSUME NEW s \in Slots, slots[s] # Nil, NEW f \in FieldsOf(s), NEW d \in Slots,
             Index(s, f, d)
      PROVE  HeldInv'
  <2> DEFINE o == objs[slots[s].obj]
             to == Target(o, f)
  <2>1. /\ Usable(s) /\ Held(s) /\ f.kind = "struct" /\ InMemory(o, f)
        /\ NewObject(f.type, to, Access(o, f), slots[s].readonly \/ f.readonly, d)
    BY <1>3 DEF Index, Held
  <2>2. /\ f.type \in Types /\ to \in Nat /\ Access(o, f) \in BOOLEAN
        /\ (slots[s].readonly \/ f.readonly) \in BOOLEAN
    BY <2>1, IndexType DEF IInv
  <2>3. f \in Fields[slots[s].type]
    BY <2>1 DEF FieldsOf, HandleHasRequestedType
  <2>4. slots[s].data # NULL
    BY <2>1, <2>3 DEF HeldInv, Sound, SelfContained
  <2>5. o.data = slots[s].data
    BY <2>1, <2>4 DEF HandleHasRequestedData
  <2>6. Sound(f.type, to)
    <3> DEFINE at == [data |-> slots[s].data]
    <3>1. InMemory(at, f) /\ Target(at, f) = to
      BY <2>1, <2>5 DEF InMemory, Target
    <3> QED
      BY <2>1, <2>3, <2>4, <3>1 DEF FieldsLead
  <2> HIDE DEF to, o
  <2> QED
    BY <2>1, <2>2, <2>6, NewObjectHeld
<1>4. ASSUME NEW s \in Slots, Drop(s)
      PROVE  HeldInv'
  <2>1. objs' = objs /\ \A x \in Slots : slots'[x] \in {slots[x], Nil}
    BY <1>4 DEF Drop, IInv, TypeOK
  <2> QED
    BY <2>1, HeldSame DEF IInv, Live
<1>5. ASSUME NEW s \in Slots, HostInvalidate(s)
      PROVE  HeldInv'
  <2> DEFINE h == slots[s].obj
  <2>1. h \in Handles /\ objs[h] \in Objects /\ slots' = slots
        /\ objs' = [objs EXCEPT ![h] = [objs[h] EXCEPT !.invalid = TRUE]]
    BY <1>5 DEF HostInvalidate, Usable, IInv, TypeOK, Refs
  <2> HIDE DEF h
  <2>2. [objs[h] EXCEPT !.invalid = TRUE].stage = objs[h].stage
    BY <2>1 DEF Objects
  <2>3. \A g \in HeldObjects : Live(g) => objs'[g].stage = "live"
    BY <2>1, <2>2 DEF Live, IInv, TypeOK, HeldObjects, Refs
  <2> QED
    BY <2>1, <2>3, HeldSame DEF IInv
<1>6. ASSUME NEW h \in Handles, Collect(h) \/ Finalize(h) \/ Reclaim(h)
      PROVE  HeldInv'
  <2>1. h \notin HeldObjects
    <3>1. h \in HeldObjects => Live(h)
      BY DEF HeldObjects, HeldInv, Held
    <3> QED
      BY <1>6, <3>1 DEF Collect, Finalize, Reclaim, StrongRefs, Live
  <2>2. slots' = slots /\ \A g \in Handles \ {h} : objs'[g] = objs[g]
    BY <1>6 DEF Collect, Finalize, Reclaim, IInv, TypeOK
  <2>3. HeldObjects \subseteq Handles
    BY DEF HeldObjects, IInv, TypeOK, Refs
  <2> QED
    BY <2>1, <2>2, <2>3, HeldSame DEF IInv, Live
<1>7. CASE Calls
  BY <1>1, <1>2, <1>3, <1>4, <1>5, <1>7 DEF Calls, NewIndexScalar, NewIndexStruct
<1>8. ~\E h \in Handles, s \in Slots : Resurrect(h, s)
  BY DEF Resurrect
<1> QED
  BY <1>1, <1>6, <1>7, <1>8 DEF Next, Collector, vars

LEMMA BackedOfHeld ==
  ASSUME HostDataBacked
  PROVE  IInv /\ OwnershipExact /\ HeldInv /\ HandleHasRequestedData => UsableIsBacked
<1> SUFFICES ASSUME IInv, OwnershipExact, HeldInv, HandleHasRequestedData,
                    NEW s \in Slots, Usable(s)
             PROVE  \E b \in blocks :
                      Address(s) .. Address(s) + Size[slots[s].type] - 1 \subseteq Extent[b]
  BY DEF UsableIsBacked
<1>1. Held(s) /\ slots[s].obj \in Handles
  BY DEF Usable, Held, IInv, TypeOK, Refs
<1>2. CASE slots[s].data # NULL
  BY <1>1, <1>2 DEF HeldInv, Sound, HostBacked, Address, OwnershipExact
<1>3. CASE slots[s].data = NULL
  <2> DEFINE b == objs[slots[s].obj].data
  <2>1. Owner(slots[s].obj) /\ SelfContained(slots[s].type)
    BY <1>1, <1>3 DEF HeldInv, Sound, HandleHasRequestedData, Owner, Live
  <2>2. b \in blocks \ HostBlocks /\ b \in DOMAIN Extent
    BY <1>1, <2>1 DEF OwnershipExact, IInv, TypeOK
  <2>3. Address(s) = b
    BY <1>3 DEF Address
  <2> HIDE DEF b
  <2> QED
    BY <2>1, <2>2, <2>3 DEF SelfContained
<1> QED
  BY <1>2, <1>3

\* No usable reference dangles, when scripts hold no objects in finalizers and
\* the host's structs lead to structs that the host keeps: what Lua collects and
\* __gc frees is never the memory of a struct the script can still reach.
THEOREM NoneDangles ==
  ASSUME NEW TypeAt, ~Finalizers, HostDataBacked
  PROVE  Spec /\ []AddressesFit /\ []OneTypeAsked(TypeAt) /\ []FieldsLead => []UsableIsBacked
<1>1. Init => HeldInv
  BY DEF Init, HeldInv, Held
<1>2. /\ IInv /\ HeldInv /\ FieldsLead
      /\ HandleHasRequestedType /\ HandleHasRequestedData
      /\ [Next]_vars
      => HeldInv'
  BY NextHeld
<1>3. IInv /\ OwnershipExact /\ HeldInv /\ HandleHasRequestedData => UsableIsBacked
  BY BackedOfHeld
<1> QED
  BY <1>1, <1>2, <1>3, OwnedOnce, RequestedData, RequestedType, Invariance, PTL DEF Spec
=============================================================================
