-------------------------- MODULE StructTypesProofs --------------------------
(***************************************************************************)
(* Theorems about the types registry, for every set of names and           *)
(* declarations, with any number of structs open, whether or not the host  *)
(* keeps to the discipline that UnknownTypes and NestExtends speak of.     *)
(***************************************************************************)
EXTENDS StructTypes, SequenceTheorems, FunctionTheorems, FiniteSetTheorems, TLAPS

\* What inserting into a list of fields yields, element by element.
LEMMA InsertAtElements ==
  ASSUME NEW s \in Seq(Field), NEW p \in 1 .. Len(s) + 1, NEW e \in Field
  PROVE  /\ InsertAt(s, p, e) \in Seq(Field)
         /\ Len(InsertAt(s, p, e)) = Len(s) + 1
         /\ \A i \in 1 .. p - 1 : InsertAt(s, p, e)[i] = s[i]
         /\ InsertAt(s, p, e)[p] = e
         /\ \A i \in p + 1 .. Len(s) + 1 : InsertAt(s, p, e)[i] = s[i - 1]
<1> DEFINE before == SubSeq(s, 1, p - 1)
           after  == SubSeq(s, p, Len(s))
           head   == Append(before, e)
<1>1. /\ before \in Seq(Field) /\ Len(before) = p - 1
      /\ \A i \in 1 .. p - 1 : before[i] = s[i]
  OBVIOUS
<1>2. /\ after \in Seq(Field) /\ Len(after) = Len(s) - p + 1
      /\ \A i \in 1 .. Len(s) - p + 1 : after[i] = s[p + i - 1]
  OBVIOUS
<1> HIDE DEF before, after
<1>3. /\ head \in Seq(Field) /\ Len(head) = p
      /\ \A i \in 1 .. p - 1 : head[i] = s[i]
      /\ head[p] = e
  BY <1>1, AppendProperties
<1>4. before \o <<e>> = head
  BY <1>1, AppendIsConcat
<1> HIDE DEF head
<1>5. InsertAt(s, p, e) = head \o after
  BY <1>4 DEF InsertAt, before, after
<1>6. /\ head \o after \in Seq(Field)
      /\ Len(head \o after) = p + Len(after)
      /\ \A i \in 1 .. p + Len(after) :
           (head \o after)[i] = IF i <= p THEN head[i] ELSE after[i - p]
  BY <1>2, <1>3, ConcatProperties
<1>7. Len(s) \in Nat /\ p + Len(after) = Len(s) + 1
  BY <1>2
<1>8. ASSUME NEW i \in p + 1 .. Len(s) + 1
      PROVE  (head \o after)[i] = s[i - 1]
  <2>1. i - p \in 1 .. Len(s) - p + 1 /\ i \in 1 .. Len(s) + 1 /\ ~(i <= p)
    BY <1>7
  <2>2. (head \o after)[i] = after[i - p]
    BY <1>6, <1>7, <2>1
  <2>3. after[i - p] = s[p + (i - p) - 1]
    BY <1>2, <2>1
  <2>4. p + (i - p) - 1 = i - 1
    BY <1>7
  <2> QED
    BY <2>2, <2>3, <2>4
<1>9. ASSUME NEW i \in 1 .. p
      PROVE  (head \o after)[i] = head[i]
  <2>1. i \in 1 .. p + Len(after) /\ i <= p
    BY <1>7
  <2> QED
    BY <1>6, <2>1
<1>10. \A i \in 1 .. p - 1 : i \in 1 .. p
  BY <1>7
<1>11. p \in 1 .. p
  BY <1>7
<1> QED
  BY <1>3, <1>5, <1>6, <1>7, <1>8, <1>9, <1>10, <1>11

\* The front of a sequence that is not empty, and its last element.
LEMMA FrontLast ==
  ASSUME NEW S, NEW s \in Seq(S), s # <<>>
  PROVE  Front(s) \in Seq(S) /\ Last(s) \in S
BY DEF Front, Last

\* A new key, put where the walk along sorted keys stops, leaves them sorted.
LEMMA KeysSorted ==
  ASSUME NEW len \in Nat, NEW old \in [1 .. len -> Nat], NEW new \in [1 .. len + 1 -> Nat],
         NEW p \in 1 .. len + 1, NEW key \in Nat,
         \A i \in 1 .. p - 1 : new[i] = old[i],
         new[p] = key,
         \A i \in p + 1 .. len + 1 : new[i] = old[i - 1],
         \A i \in 1 .. p - 1 : old[i] < key,
         p <= len => old[p] >= key,
         \A i, j \in 1 .. len : i < j => old[i] <= old[j]
  PROVE  \A i, j \in 1 .. len + 1 : i < j => new[i] <= new[j]
<1> SUFFICES ASSUME NEW i \in 1 .. len + 1, NEW j \in 1 .. len + 1, i < j
             PROVE  new[i] <= new[j]
  OBVIOUS
<1>1. CASE j < p
  BY <1>1
<1>2. CASE j = p
  BY <1>2
<1>3. CASE p < j
  <2>1. key <= old[j - 1]
    <3>1. p <= len /\ old[p] >= key
      BY <1>3
    <3>2. p = j - 1 \/ old[p] <= old[j - 1]
      BY <1>3
    <3> QED
      BY <1>3, <3>1, <3>2
  <2>2. CASE i = p
    BY <1>3, <2>1, <2>2
  <2>3. CASE i < p
    <3>1. new[i] = old[i] /\ new[j] = old[j - 1]
      BY <1>3, <2>3
    <3>2. i \in 1 .. len /\ j - 1 \in 1 .. len /\ i < j - 1
      BY <1>3, <2>3
    <3> QED
      BY <3>1, <3>2
  <2>4. CASE p < i
    <3>1. new[i] = old[i - 1] /\ new[j] = old[j - 1]
      BY <1>3, <2>4
    <3>2. i - 1 \in 1 .. len /\ j - 1 \in 1 .. len /\ i - 1 < j - 1
      BY <1>3, <2>4
    <3> QED
      BY <3>1, <3>2
  <2> QED
    BY <2>2, <2>3, <2>4
<1> QED
  BY <1>1, <1>2, <1>3

\* Inserting a field keeps the registry in its type and both lists in order.
LEMMA InsertFieldSorted ==
  ASSUME TypeOK, ListsSorted, NEW n \in DOMAIN types, NEW f \in Field, InsertField(n, f)
  PROVE  /\ DOMAIN types' = DOMAIN types
         /\ \A m \in DOMAIN types : types'[m] \in Structs
         /\ ListsSorted'
<1> DEFINE st == types[n]
<1>1. st \in Structs
  BY DEF TypeOK
<1>2. /\ st.super \in Names \cup {Nil}
      /\ st.fields \in Seq(Field)
      /\ st.fields_by_name \in Seq(Field)
  BY <1>1 DEF Structs
<1>3. PICK p \in 1 .. Len(st.fields) + 1, q \in 1 .. Len(st.fields_by_name) + 1 :
        /\ StopsByOffset(st.fields, f, p)
        /\ StopsByName(st.fields_by_name, f, q)
        /\ types' = [types EXCEPT ![n].fields = InsertAt(@, p, f),
                                  ![n].fields_by_name = InsertAt(@, q, f)]
  BY DEF InsertField
<1> DEFINE off == InsertAt(st.fields, p, f)
           nam == InsertAt(st.fields_by_name, q, f)
<1>4. /\ off \in Seq(Field)
      /\ Len(off) = Len(st.fields) + 1
      /\ \A i \in 1 .. p - 1 : off[i] = st.fields[i]
      /\ off[p] = f
      /\ \A i \in p + 1 .. Len(st.fields) + 1 : off[i] = st.fields[i - 1]
  <2>1. /\ InsertAt(st.fields, p, f) \in Seq(Field)
        /\ Len(InsertAt(st.fields, p, f)) = Len(st.fields) + 1
        /\ \A i \in 1 .. p - 1 : InsertAt(st.fields, p, f)[i] = st.fields[i]
        /\ InsertAt(st.fields, p, f)[p] = f
        /\ \A i \in p + 1 .. Len(st.fields) + 1 :
             InsertAt(st.fields, p, f)[i] = st.fields[i - 1]
    <3> HIDE DEF st
    <3> QED
      BY <1>2, InsertAtElements
  <2> QED
    BY <2>1, Zenon
<1>5. /\ nam \in Seq(Field)
      /\ Len(nam) = Len(st.fields_by_name) + 1
      /\ \A i \in 1 .. q - 1 : nam[i] = st.fields_by_name[i]
      /\ nam[q] = f
      /\ \A i \in q + 1 .. Len(st.fields_by_name) + 1 : nam[i] = st.fields_by_name[i - 1]
  <2>1. /\ InsertAt(st.fields_by_name, q, f) \in Seq(Field)
        /\ Len(InsertAt(st.fields_by_name, q, f)) = Len(st.fields_by_name) + 1
        /\ \A i \in 1 .. q - 1 : InsertAt(st.fields_by_name, q, f)[i] = st.fields_by_name[i]
        /\ InsertAt(st.fields_by_name, q, f)[q] = f
        /\ \A i \in q + 1 .. Len(st.fields_by_name) + 1 :
             InsertAt(st.fields_by_name, q, f)[i] = st.fields_by_name[i - 1]
    <3> HIDE DEF st
    <3> QED
      BY <1>2, InsertAtElements
  <2> QED
    BY <2>1, Zenon
<1> HIDE DEF off, nam
<1>6. /\ DOMAIN types' = DOMAIN types
      /\ types'[n] = [super |-> st.super, fields |-> off, fields_by_name |-> nam]
      /\ \A m \in DOMAIN types \ {n} : types'[m] = types[m]
  BY <1>1, <1>3 DEF Structs, off, nam
<1>7. \A g \in Field : g.offset \in Nat /\ g.name \in Nat
  BY DEF Field
<1>8. \A i, j \in 1 .. Len(off) : i < j => off[i].offset <= off[j].offset
  <2> DEFINE old == [i \in 1 .. Len(st.fields) |-> st.fields[i].offset]
             new == [i \in 1 .. Len(st.fields) + 1 |-> off[i].offset]
  <2>1. Len(st.fields) \in Nat /\ f.offset \in Nat
    BY <1>2, <1>7
  <2>2. /\ old \in [1 .. Len(st.fields) -> Nat]
        /\ new \in [1 .. Len(st.fields) + 1 -> Nat]
    BY <1>2, <1>4, <1>7
  <2>3. /\ \A i \in 1 .. p - 1 : new[i] = old[i]
        /\ new[p] = f.offset
        /\ \A i \in p + 1 .. Len(st.fields) + 1 : new[i] = old[i - 1]
    BY <2>1, <1>4
  <2>4. \A i \in 1 .. p - 1 : old[i] < f.offset
    BY <1>3, <2>1 DEF StopsByOffset
  <2>5. p <= Len(st.fields) => old[p] >= f.offset
    BY <1>3, <2>1 DEF StopsByOffset
  <2>6. \A i, j \in 1 .. Len(st.fields) : i < j => old[i] <= old[j]
    BY DEF ListsSorted
  <2> HIDE DEF old
  <2>7. \A i, j \in 1 .. Len(st.fields) + 1 : i < j => new[i] <= new[j]
    <3> HIDE DEF new
    <3> QED
      BY <2>1, <2>2, <2>3, <2>4, <2>5, <2>6, KeysSorted
  <2> QED
    BY <1>4, <2>7
<1>9. \A i, j \in 1 .. Len(nam) : i < j => nam[i].name <= nam[j].name
  <2> DEFINE old == [i \in 1 .. Len(st.fields_by_name) |-> st.fields_by_name[i].name]
             new == [i \in 1 .. Len(st.fields_by_name) + 1 |-> nam[i].name]
  <2>1. Len(st.fields_by_name) \in Nat /\ f.name \in Nat
    BY <1>2, <1>7
  <2>2. /\ old \in [1 .. Len(st.fields_by_name) -> Nat]
        /\ new \in [1 .. Len(st.fields_by_name) + 1 -> Nat]
    BY <1>2, <1>5, <1>7
  <2>3. /\ \A i \in 1 .. q - 1 : new[i] = old[i]
        /\ new[q] = f.name
        /\ \A i \in q + 1 .. Len(st.fields_by_name) + 1 : new[i] = old[i - 1]
    BY <2>1, <1>5
  <2>4. \A i \in 1 .. q - 1 : old[i] < f.name
    BY <1>3, <2>1 DEF StopsByName
  <2>5. q <= Len(st.fields_by_name) => old[q] >= f.name
    BY <1>3, <2>1 DEF StopsByName
  <2>6. \A i, j \in 1 .. Len(st.fields_by_name) : i < j => old[i] <= old[j]
    BY DEF ListsSorted
  <2> HIDE DEF old
  <2>7. \A i, j \in 1 .. Len(st.fields_by_name) + 1 : i < j => new[i] <= new[j]
    <3> HIDE DEF new
    <3> QED
      BY <2>1, <2>2, <2>3, <2>4, <2>5, <2>6, KeysSorted
  <2> QED
    BY <1>5, <2>7
<1>10. ASSUME NEW m \in DOMAIN types
       PROVE  types'[m] \in Structs
  <2>1. CASE m = n
    BY <1>2, <1>4, <1>5, <1>6, <2>1 DEF Structs
  <2>2. CASE m # n
    BY <1>6, <2>2 DEF TypeOK
  <2> QED
    BY <2>1, <2>2
<1>11. ASSUME NEW m \in DOMAIN types'
       PROVE  /\ \A i, j \in 1 .. Len(types'[m].fields) :
                   i < j => types'[m].fields[i].offset <= types'[m].fields[j].offset
              /\ \A i, j \in 1 .. Len(types'[m].fields_by_name) :
                   i < j => types'[m].fields_by_name[i].name <= types'[m].fields_by_name[j].name
  <2>1. CASE m = n
    BY <1>6, <1>8, <1>9, <2>1
  <2>2. CASE m # n
    BY <1>6, <2>2 DEF ListsSorted
  <2> QED
    BY <2>1, <2>2
<1> QED
  BY <1>6, <1>10, <1>11 DEF ListsSorted
-----------------------------------------------------------------------------
(***************************************************************************)
(* A field goes to the struct on top of the stack. That it is one of the   *)
(* registry, whose lists are in order, is what the invariant has to know   *)
(* of the stack.                                                           *)
(***************************************************************************)
StackRegistered == stack \in Seq(DOMAIN types \cup {Table})

IInv == TypeOK /\ ListsSorted /\ StackRegistered

LEMMA SeqMonotone ==
  ASSUME NEW S, NEW T, S \subseteq T, NEW s \in Seq(S)
  PROVE  s \in Seq(T)
OBVIOUS

\* What is left to show of a step that does not change the types.
LEMMA SameTypes ==
  ASSUME IInv, UNCHANGED types, registered' \in BOOLEAN,
         stack' \in Seq(DOMAIN types \cup {Table}),
         open' \in Seq(Names), declared' \in [Names -> Seq(Field)]
  PROVE  IInv'
<1>1. stack' \in Seq(Names \cup {Table})
  <2>1. DOMAIN types \cup {Table} \subseteq Names \cup {Table}
    BY DEF IInv, TypeOK
  <2> QED
    BY <2>1, SeqMonotone
<1> QED
  BY <1>1 DEF IInv, TypeOK, ListsSorted, Structs, StackRegistered

\* An error leaves the types alone.
LEMMA RaiseInv == ASSUME IInv, Raise, registered' \in BOOLEAN PROVE IInv'
<1>1. stack' \in Seq(DOMAIN types \cup {Table}) /\ open' \in Seq(Names)
  BY DEF Raise
<1> QED
  BY <1>1, SameTypes DEF Raise, IInv, TypeOK

\* A struct is registered under a name that fits, with both lists empty.
LEMMA NewStructInv ==
  ASSUME IInv, NEW n \in Names, NEW super \in Names \cup {Nil}, NewStruct(n, super)
  PROVE  IInv'
<1>1. registered' \in BOOLEAN
  BY DEF NewStruct
<1>2. CASE RejectStruct(n, super)
  BY <1>1, <1>2, RaiseInv DEF RejectStruct
<1>3. CASE OpenExisting(n)
  <2>1. stack' \in Seq(DOMAIN types \cup {Table}) /\ open' \in Seq(Names)
    BY <1>3, AppendProperties DEF OpenExisting, Exists, IInv, TypeOK, StackRegistered
  <2> QED
    BY <1>1, <1>3, <2>1, SameTypes DEF OpenExisting, IInv, TypeOK
<1>4. CASE CreateStruct(n, super)
  <2> DEFINE st == [super |-> super, fields |-> <<>>, fields_by_name |-> <<>>]
             V  == DOMAIN types' \cup {Table}
  <2>1. st \in Structs
    BY DEF Structs
  <2>2. open' \in Seq(Names) /\ declared' \in [Names -> Seq(Field)]
    BY <1>4, AppendProperties DEF CreateStruct, IInv, TypeOK
  <2>3. n \in {m \in Names : NameLength[m] + 1 <= BufferLength}
    BY <1>4, LengthsAssumption DEF CreateStruct, Fits
  <2>4. /\ DOMAIN types' = DOMAIN types \cup {n}
        /\ types'[n] = st
        /\ \A m \in DOMAIN types' : m # n => m \in DOMAIN types /\ types'[m] = types[m]
    BY <1>4 DEF CreateStruct
  <2>5. stack' \in Seq(V)
    <3>1. n \in V /\ Table \in V /\ (super # Nil => super \in V)
      BY <1>4, <2>4 DEF CreateStruct, Exists
    <3>2. stack \in Seq(V)
      BY <2>4, SeqMonotone DEF IInv, StackRegistered
    <3> HIDE DEF V
    <3>3. RegistryLeft \in Seq(V)
      <4>1. <<>> \in Seq(V) /\ <<Table>> \in Seq(V)
        BY <3>1
      <4> QED
        BY <4>1, Zenon DEF RegistryLeft
    <3>4. SuperLeft(super, n) \in Seq(V)
      <4>1. <<n>> \in Seq(V) /\ (super # Nil => <<super, n>> \in Seq(V))
        BY <3>1
      <4> QED
        BY <4>1, Zenon DEF SuperLeft
    <3>5. stack \o RegistryLeft \in Seq(V)
      BY <3>2, <3>3, ConcatProperties
    <3> QED
      BY <1>4, <3>4, <3>5, ConcatProperties DEF CreateStruct
  <2>6. stack' \in Seq(Names \cup {Table})
    <3>1. V \subseteq Names \cup {Table}
      BY <2>3, <2>4 DEF IInv, TypeOK
    <3> QED
      BY <2>5, <3>1, SeqMonotone
  <2>7. TypeOK'
    BY <1>1, <2>1, <2>2, <2>3, <2>4, <2>6 DEF IInv, TypeOK, Structs
  <2>8. ASSUME NEW m \in DOMAIN types'
        PROVE  /\ \A i, j \in 1 .. Len(types'[m].fields) :
                    i < j => types'[m].fields[i].offset <= types'[m].fields[j].offset
               /\ \A i, j \in 1 .. Len(types'[m].fields_by_name) :
                    i < j => types'[m].fields_by_name[i].name <= types'[m].fields_by_name[j].name
    <3>1. CASE m = n
      <4>1. types'[m].fields = <<>> /\ types'[m].fields_by_name = <<>>
        BY <2>4, <3>1
      <4> QED
        BY <4>1
    <3>2. CASE m # n
      BY <2>4, <3>2 DEF IInv, ListsSorted
    <3> QED
      BY <3>1, <3>2
  <2> QED
    BY <2>5, <2>7, <2>8 DEF IInv, ListsSorted, StackRegistered
<1> QED
  BY <1>2, <1>3, <1>4 DEF NewStruct, DefineStruct

\* A declaration accepted: a field goes to a struct, and the host remembers it.
LEMMA DeclareInv ==
  ASSUME IInv, NEW d \in Decls, NEW f \in Field, NEW n \in DOMAIN types, InsertField(n, f),
         open # <<>>, Declare(d), UNCHANGED <<registered, open>>,
         stack' \in Seq(DOMAIN types \cup {Table})
  PROVE  IInv'
<1>1. /\ DOMAIN types' = DOMAIN types
      /\ \A m \in DOMAIN types : types'[m] \in Structs
      /\ ListsSorted'
  BY InsertFieldSorted DEF IInv
<1>2. Last(open) \in Names /\ d \in Field
  BY FrontLast, DeclsAssumption DEF IInv, TypeOK
<1>3. declared' \in [Names -> Seq(Field)]
  BY <1>2, AppendProperties DEF Declare, IInv, TypeOK
<1>4. stack' \in Seq(Names \cup {Table})
  <2>1. DOMAIN types \cup {Table} \subseteq Names \cup {Table}
    BY DEF IInv, TypeOK
  <2> QED
    BY <2>1, SeqMonotone
<1> QED
  BY <1>1, <1>3, <1>4 DEF IInv, TypeOK, Structs, StackRegistered

\* A struct on top of the stack is in the registry; taking a value leaves a stack.
LEMMA TopRegistered ==
  ASSUME IInv, NEW s \in Seq(DOMAIN types \cup {Table}), IsStruct(Top(s))
  PROVE  Top(s) \in DOMAIN types
<1>1. s # <<>> /\ Top(s) = Last(s)
  BY NamesAssumption DEF Top, IsStruct
<1>2. Last(s) \in DOMAIN types \cup {Table}
  BY <1>1, FrontLast
<1> QED
  BY <1>1, <1>2, NamesAssumption DEF IsStruct

LEMMA StackAfterTypeOK ==
  ASSUME IInv, NEW d
  PROVE  StackAfterType(d) \in Seq(DOMAIN types \cup {Table})
<1>1. stack \in Seq(DOMAIN types \cup {Table})
  BY DEF IInv, StackRegistered
<1>2. stack # <<>> => Front(stack) \in Seq(DOMAIN types \cup {Table})
  BY <1>1, FrontLast
<1> QED
  BY <1>1, <1>2, Zenon DEF StackAfterType

\* Naming a type in a declaration leaves it a declaration.
LEMMA RetypedField ==
  ASSUME NEW d \in Decls, NEW t \in Names \cup {Nil}
  PROVE  [d EXCEPT !.type = t] \in Field
BY DeclsAssumption DEF Field

LEMMA NewStructFieldInv ==
  ASSUME IInv, NEW d \in Decls, NewStructField(d)
  PROVE  IInv'
<1>1. registered' \in BOOLEAN /\ UNCHANGED registered /\ open # <<>>
  BY DEF NewStructField, Declaring, IInv, TypeOK
<1>2. stack \in Seq(DOMAIN types \cup {Table})
  BY DEF IInv, StackRegistered
<1>3. CASE /\ IsStruct(Top(stack)) /\ InsertField(Top(stack), d) /\ Declare(d)
           /\ UNCHANGED <<stack, open>>
  <2>1. Top(stack) \in DOMAIN types /\ d \in Field
    BY <1>2, <1>3, TopRegistered, DeclsAssumption
  <2> QED
    BY <1>1, <1>2, <1>3, <2>1, DeclareInv
<1>4. CASE /\ IsStruct(Top(stack)) /\ InsertField(Top(stack), [d EXCEPT !.type = TypeInfo(d)])
           /\ stack' = StackAfterType(d)
           /\ Declare(d)
           /\ UNCHANGED open
  <2>1. Top(stack) \in DOMAIN types
    BY <1>2, <1>4, TopRegistered
  <2>2. TypeInfo(d) \in Names \cup {Nil}
    BY <1>4 DEF TypeInfo, IsStruct, Exists, IInv, TypeOK
  <2>3. [d EXCEPT !.type = TypeInfo(d)] \in Field
    BY <2>2, RetypedField
  <2> QED
    BY <1>1, <1>4, <2>1, <2>3, StackAfterTypeOK, DeclareInv
<1>5. CASE Raise
  BY <1>1, <1>5, RaiseInv
<1> QED
  BY <1>3, <1>4, <1>5 DEF NewStructField

LEMMA NewStructArrayFieldInv ==
  ASSUME IInv, NEW d \in Decls, NewStructArrayField(d)
  PROVE  IInv'
<1> DEFINE after == StackAfterType(d)
           info  == TypeInfo(d)
<1>1. registered' \in BOOLEAN /\ UNCHANGED registered /\ open # <<>>
  BY DEF NewStructArrayField, Declaring, IInv, TypeOK
<1>2. after \in Seq(DOMAIN types \cup {Table})
  BY StackAfterTypeOK, Zenon DEF IInv, StackRegistered
<1>3. CASE /\ IsStruct(info) /\ IsStruct(Top(after))
           /\ InsertField(Top(after), [d EXCEPT !.type = info])
           /\ stack' = after
           /\ Declare(d)
           /\ UNCHANGED open
  <2>1. Top(after) \in DOMAIN types
    BY <1>2, <1>3, TopRegistered
  <2>2. info \in Names \cup {Nil}
    BY <1>3 DEF IsStruct
  <2>3. [d EXCEPT !.type = info] \in Field
    BY <2>2, RetypedField
  <2> QED
    BY <1>1, <1>2, <1>3, <2>1, <2>3, DeclareInv
<1>4. CASE Raise
  BY <1>1, <1>4, RaiseInv
<1>5. CASE /\ IsStruct(Top(stack)) /\ InsertField(Top(stack), d) /\ Declare(d)
           /\ UNCHANGED <<stack, open>>
  <2>1. stack \in Seq(DOMAIN types \cup {Table})
    BY DEF IInv, StackRegistered
  <2>2. Top(stack) \in DOMAIN types /\ d \in Field
    BY <1>5, <2>1, TopRegistered, DeclsAssumption
  <2> QED
    BY <1>1, <1>5, <2>1, <2>2, DeclareInv
<1> QED
  BY <1>3, <1>4, <1>5 DEF NewStructArrayField

LEMMA NewStructBitFieldInv ==
  ASSUME IInv, NEW d \in Decls, NewStructBitField(d)
  PROVE  IInv'
<1>1. registered' \in BOOLEAN /\ UNCHANGED registered /\ open # <<>>
  BY DEF NewStructBitField, Declaring, IInv, TypeOK
<1>2. stack \in Seq(DOMAIN types \cup {Table})
  BY DEF IInv, StackRegistered
<1>3. CASE /\ IsStruct(Top(stack)) /\ InsertField(Top(stack), d) /\ Declare(d)
           /\ UNCHANGED <<stack, open>>
  <2>1. Top(stack) \in DOMAIN types /\ d \in Field
    BY <1>2, <1>3, TopRegistered, DeclsAssumption
  <2> QED
    BY <1>1, <1>2, <1>3, <2>1, DeclareInv
<1>4. CASE Raise
  BY <1>1, <1>4, RaiseInv
<1> QED
  BY <1>3, <1>4 DEF NewStructBitField

LEMMA PopStructInv == ASSUME IInv, PopStruct PROVE IInv'
<1>1. Front(stack) \in Seq(DOMAIN types \cup {Table}) /\ Front(open) \in Seq(Names)
  BY FrontLast DEF PopStruct, IInv, TypeOK, StackRegistered
<1> QED
  BY <1>1, SameTypes DEF PopStruct, IInv, TypeOK

LEMMA Invariance == Spec => []IInv
<1>1. Init => IInv
  <2> SUFFICES ASSUME Init PROVE IInv
    OBVIOUS
  <2>1. DOMAIN types = {}
    BY DEF Init
  <2>2. declared \in [Names -> Seq(Field)]
    BY DEF Init
  <2>3. stack \in Seq(Names \cup {Table}) /\ stack \in Seq(DOMAIN types \cup {Table})
    BY DEF Init
  <2>4. open \in Seq(Names)
    BY DEF Init
  <2>5. registered \in BOOLEAN
    BY DEF Init
  <2> QED
    BY <2>1, <2>2, <2>3, <2>4, <2>5 DEF IInv, TypeOK, ListsSorted, StackRegistered
<1>2. IInv /\ [Next]_vars => IInv'
  <2> SUFFICES ASSUME IInv, [Next]_vars PROVE IInv'
    OBVIOUS
  <2>1. CASE UNCHANGED vars
    BY <2>1 DEF vars, IInv, TypeOK, ListsSorted, StackRegistered, Structs
  <2> QED
    BY <2>1, NewStructInv, NewStructFieldInv, NewStructArrayFieldInv, NewStructBitFieldInv,
       PopStructInv DEF Next
<1> QED
  BY <1>1, <1>2, PTL DEF Spec

\* Whatever the host defines, and however its definitions fail, every variable
\* holds a value of its type: a field's type is a struct, and no name overruns
\* its buffer.
THEOREM TypeCorrect == Spec => []TypeOK
<1>1. IInv => TypeOK
  BY DEF IInv
<1> QED
  BY <1>1, Invariance, PTL

\* Both lists of every struct are in order, whatever the order of declarations.
THEOREM Sorted == Spec => []ListsSorted
<1>1. IInv => ListsSorted
  BY DEF IInv
<1> QED
  BY <1>1, Invariance, PTL
-----------------------------------------------------------------------------
(***************************************************************************)
(* What the two lists of a struct have in common, that nothing is ever     *)
(* taken from them, and, for a host that keeps to the discipline of        *)
(* UnknownTypes and NestExtends, that every field goes to the struct it    *)
(* was declared for.                                                       *)
(***************************************************************************)
Indices(list, f) == {i \in 1 .. Len(list) : list[i] = f}

LEMMA IndicesFinite ==
  ASSUME NEW list \in Seq(Field), NEW f
  PROVE  IsFiniteSet(Indices(list, f)) /\ Count(list, f) = Cardinality(Indices(list, f))
<1>1. IsFiniteSet(1 .. Len(list))
  BY FS_Interval
<1>2. Indices(list, f) \in SUBSET (1 .. Len(list))
  BY DEF Indices
<1> QED
  BY <1>1, <1>2, FS_Subset DEF Indices, Count

\* Inserting an element adds one to its count and leaves the others.
LEMMA CountInserted ==
  ASSUME NEW s \in Seq(Field), NEW p \in 1 .. Len(s) + 1, NEW e \in Field, NEW f
  PROVE  /\ Count(s, f) \in Nat
         /\ Count(InsertAt(s, p, e), f) = Count(s, f) + (IF f = e THEN 1 ELSE 0)
<1> DEFINE t == InsertAt(s, p, e)
           old == Indices(s, f)
           moved == Indices(t, f) \ {p}
           Shift == [i \in old |-> IF i < p THEN i ELSE i + 1]
<1>1. /\ t \in Seq(Field) /\ Len(t) = Len(s) + 1
      /\ \A i \in 1 .. p - 1 : t[i] = s[i]
      /\ t[p] = e
      /\ \A i \in p + 1 .. Len(s) + 1 : t[i] = s[i - 1]
  BY InsertAtElements
<1> HIDE DEF t
<1>2. Len(s) \in Nat
  OBVIOUS
<1>3. ASSUME NEW i \in old
      PROVE  Shift[i] \in moved
  <2>1. i \in 1 .. Len(s) /\ s[i] = f
    BY DEF Indices
  <2>2. CASE i < p
    <3>1. i \in 1 .. p - 1 /\ i \in 1 .. Len(t) /\ i # p
      BY <1>1, <1>2, <2>1, <2>2
    <3> QED
      BY <1>1, <2>1, <2>2, <3>1 DEF Indices
  <2>3. CASE ~(i < p)
    <3>1. i + 1 \in p + 1 .. Len(s) + 1 /\ i + 1 \in 1 .. Len(t) /\ i + 1 # p /\ (i + 1) - 1 = i
      BY <1>1, <1>2, <2>1, <2>3
    <3> QED
      BY <1>1, <2>1, <2>3, <3>1 DEF Indices
  <2> QED
    BY <2>2, <2>3
<1>4. ASSUME NEW i \in old, NEW j \in old, Shift[i] = Shift[j]
      PROVE  i = j
  <2>1. i \in Nat /\ j \in Nat
    BY DEF Indices
  <2> QED
    BY <1>4, <2>1
<1>5. ASSUME NEW k \in moved
      PROVE  \E i \in old : Shift[i] = k
  <2>1. k \in 1 .. Len(s) + 1 /\ t[k] = f /\ k # p
    BY <1>1 DEF Indices
  <2>2. CASE k < p
    <3>1. k \in 1 .. p - 1 /\ k \in 1 .. Len(s)
      BY <1>2, <2>1, <2>2
    <3>2. k \in old
      BY <1>1, <2>1, <3>1 DEF Indices
    <3> QED
      BY <2>2, <3>2
  <2>3. CASE k > p
    <3>1. k \in p + 1 .. Len(s) + 1 /\ k - 1 \in 1 .. Len(s) /\ ~(k - 1 < p) /\ (k - 1) + 1 = k
      BY <1>2, <2>1, <2>3
    <3>2. k - 1 \in old
      BY <1>1, <2>1, <3>1 DEF Indices
    <3> QED
      BY <3>1, <3>2
  <2> QED
    BY <1>2, <2>1, <2>2, <2>3
<1>6. IsFiniteSet(old) /\ Count(s, f) = Cardinality(old)
  BY IndicesFinite
<1>7. IsFiniteSet(moved) /\ Cardinality(moved) = Cardinality(old)
  <2>1. Shift \in Bijection(old, moved)
    <3> HIDE DEF moved, old
    <3>1. Shift \in [old -> moved]
      BY <1>3
    <3>2. Shift \in Injection(old, moved)
      BY <1>4, <3>1 DEF Injection, IsInjective
    <3>3. Shift \in Surjection(old, moved)
      BY <1>5, <3>1 DEF Surjection
    <3> QED
      BY <3>2, <3>3 DEF Bijection
  <2>2. ExistsBijection(old, moved)
    BY <2>1, Zenon DEF ExistsBijection
  <2> QED
    BY <1>6, <2>2, FS_Bijection
<1>8. Count(t, f) = Cardinality(Indices(t, f)) /\ Cardinality(old) \in Nat
  BY <1>1, <1>6, IndicesFinite, FS_CardinalityType
<1>9. p \in Indices(t, f) <=> f = e
  BY <1>1, <1>2 DEF Indices
<1>10. Indices(t, f) = IF f = e THEN moved \cup {p} ELSE moved
  BY <1>9
<1>11. Cardinality(moved \cup {p}) = Cardinality(moved) + 1
  BY <1>7, FS_AddElement
<1> HIDE DEF moved, old
<1>12. Count(t, f) = Count(s, f) + (IF f = e THEN 1 ELSE 0)
  BY <1>6, <1>7, <1>8, <1>10, <1>11
<1> QED
  BY <1>6, <1>8, <1>12 DEF t
-----------------------------------------------------------------------------
\* What inserting a field does to the registry.
LEMMA Inserted ==
  ASSUME TypeOK, NEW n \in DOMAIN types, NEW f \in Field, InsertField(n, f)
  PROVE  /\ DOMAIN types' = DOMAIN types
         /\ \A m \in DOMAIN types : m # n => types'[m] = types[m]
         /\ types'[n].super = types[n].super
         /\ \E p \in 1 .. Len(types[n].fields) + 1 :
              types'[n].fields = InsertAt(types[n].fields, p, f)
         /\ \E q \in 1 .. Len(types[n].fields_by_name) + 1 :
              types'[n].fields_by_name = InsertAt(types[n].fields_by_name, q, f)
BY DEF InsertField, TypeOK, Structs

\* A step of the host leaves the types, adds a struct without fields, or adds a
\* field to one of them.
LEMMA StepOfTypes ==
  ASSUME IInv, Next
  PROVE  \/ UNCHANGED types
         \/ \E n \in Names, super \in Names \cup {Nil} : ~Exists(n) /\ CreateStruct(n, super)
         \/ \E n \in DOMAIN types, f \in Field : InsertField(n, f)
<1> DEFINE Insertion == \E n \in DOMAIN types, f \in Field : InsertField(n, f)
<1>1. stack \in Seq(DOMAIN types \cup {Table})
  BY DEF IInv, StackRegistered
<1>2. ASSUME NEW d \in Decls, NewStructField(d)
      PROVE  UNCHANGED types \/ Insertion
  <2>1. CASE Raise
    BY <2>1 DEF Raise
  <2>2. CASE IsStruct(Top(stack)) /\ InsertField(Top(stack), d)
    BY <1>1, <2>2, TopRegistered, DeclsAssumption
  <2>3. CASE IsStruct(Top(stack)) /\ InsertField(Top(stack), [d EXCEPT !.type = TypeInfo(d)])
    <3>1. TypeInfo(d) \in Names \cup {Nil}
      BY <2>3 DEF TypeInfo, IsStruct, Exists, IInv, TypeOK
    <3> QED
      BY <1>1, <2>3, <3>1, TopRegistered, RetypedField
  <2> QED
    BY <1>2, <2>1, <2>2, <2>3 DEF NewStructField
<1>3. ASSUME NEW d \in Decls, NewStructArrayField(d)
      PROVE  UNCHANGED types \/ Insertion
  <2> DEFINE after == StackAfterType(d)
             info  == TypeInfo(d)
  <2>1. CASE Raise
    BY <2>1 DEF Raise
  <2>2. CASE /\ IsStruct(info) /\ IsStruct(Top(after))
             /\ InsertField(Top(after), [d EXCEPT !.type = info])
    <3>1. after \in Seq(DOMAIN types \cup {Table})
      BY StackAfterTypeOK, <1>1, Zenon
    <3>2. info \in Names \cup {Nil}
      BY <2>2 DEF IsStruct
    <3> QED
      BY <2>2, <3>1, <3>2, TopRegistered, RetypedField
  <2>3. CASE IsStruct(Top(stack)) /\ InsertField(Top(stack), d)
    BY <1>1, <2>3, TopRegistered, DeclsAssumption
  <2> QED
    BY <1>3, <2>1, <2>2, <2>3 DEF NewStructArrayField
<1>4. ASSUME NEW d \in Decls, NewStructBitField(d)
      PROVE  UNCHANGED types \/ Insertion
  <2>1. CASE Raise
    BY <2>1 DEF Raise
  <2>2. CASE IsStruct(Top(stack)) /\ InsertField(Top(stack), d)
    BY <1>1, <2>2, TopRegistered, DeclsAssumption
  <2> QED
    BY <1>4, <2>1, <2>2 DEF NewStructBitField
<1>5. ASSUME NEW n \in Names, NEW super \in Names \cup {Nil}, NewStruct(n, super)
      PROVE  UNCHANGED types \/ (~Exists(n) /\ CreateStruct(n, super))
  BY <1>5 DEF NewStruct, DefineStruct, RejectStruct, Raise, OpenExisting
<1>6. PopStruct => UNCHANGED types
  BY DEF PopStruct
<1> QED
  BY <1>2, <1>3, <1>4, <1>5, <1>6 DEF Next

-----------------------------------------------------------------------------
(***************************************************************************)
(* The two lists.                                                          *)
(***************************************************************************)
\* ListsAgree, for every field there could be: this is inductive.
CountsAgree ==
  \A n \in DOMAIN types : \A f \in Field :
    Count(types[n].fields, f) = Count(types[n].fields_by_name, f)

LEMMA CountsAgreeStep == IInv /\ CountsAgree /\ [Next]_vars => CountsAgree'
<1> SUFFICES ASSUME IInv, CountsAgree, [Next]_vars
             PROVE  CountsAgree'
  OBVIOUS
<1>1. CASE UNCHANGED types
  BY <1>1 DEF CountsAgree, Count
<1>2. ASSUME NEW n \in Names, NEW super \in Names \cup {Nil}, ~Exists(n),
             CreateStruct(n, super)
      PROVE  CountsAgree'
  <2> SUFFICES ASSUME NEW m \in DOMAIN types', NEW f \in Field
               PROVE  Count(types'[m].fields, f) = Count(types'[m].fields_by_name, f)
    BY DEF CountsAgree, Count
  <2>1. CASE m = n
    <3>1. types'[m] = [super |-> super, fields |-> <<>>, fields_by_name |-> <<>>]
      BY <1>2, <2>1 DEF CreateStruct
    <3>2. types'[m].fields = types'[m].fields_by_name
      BY <3>1
    <3> QED
      BY <3>2
  <2>2. CASE m # n
    <3>1. m \in DOMAIN types /\ types'[m] = types[m]
      BY <1>2, <2>2 DEF CreateStruct
    <3> QED
      BY <3>1 DEF CountsAgree
  <2> QED
    BY <2>1, <2>2
<1>3. ASSUME NEW n \in DOMAIN types, NEW g \in Field, InsertField(n, g)
      PROVE  CountsAgree'
  <2>1. types[n].fields \in Seq(Field) /\ types[n].fields_by_name \in Seq(Field)
    BY DEF IInv, TypeOK, Structs
  <2>2. PICK p \in 1 .. Len(types[n].fields) + 1, q \in 1 .. Len(types[n].fields_by_name) + 1 :
          /\ types'[n].fields = InsertAt(types[n].fields, p, g)
          /\ types'[n].fields_by_name = InsertAt(types[n].fields_by_name, q, g)
    BY <1>3, Inserted DEF IInv
  <2>3. DOMAIN types' = DOMAIN types /\ \A m \in DOMAIN types : m # n => types'[m] = types[m]
    BY <1>3, Inserted DEF IInv
  <2>4. ASSUME NEW f \in Field
        PROVE  Count(types'[n].fields, f) = Count(types'[n].fields_by_name, f)
    <3>1. Count(types'[n].fields, f) = Count(types[n].fields, f) + (IF f = g THEN 1 ELSE 0)
      BY <2>1, <2>2, CountInserted
    <3>2. Count(types'[n].fields_by_name, f)
            = Count(types[n].fields_by_name, f) + (IF f = g THEN 1 ELSE 0)
      BY <2>1, <2>2, CountInserted
    <3> QED
      BY <3>1, <3>2 DEF CountsAgree
  <2>5. ASSUME NEW m \in DOMAIN types, m # n, NEW f \in Field
        PROVE  Count(types'[m].fields, f) = Count(types'[m].fields_by_name, f)
    BY <2>3, <2>5 DEF CountsAgree
  <2>6. CountsAgree' <=> \A m \in DOMAIN types' : \A f \in Field :
                           Count(types'[m].fields, f) = Count(types'[m].fields_by_name, f)
    BY DEF CountsAgree, Count
  <2> QED
    BY <2>3, <2>4, <2>5, <2>6
<1> QED
  BY <1>1, <1>2, <1>3, StepOfTypes DEF vars

\* The list that is freed and the list that is searched have the same fields,
\* each as often, in every struct: after any declarations, valid or not.
THEOREM SameFields == Spec => []ListsAgree
<1>1. Init => CountsAgree
  BY DEF Init, CountsAgree
<1>2. IInv /\ CountsAgree => ListsAgree
  <2> SUFFICES ASSUME IInv, CountsAgree, NEW n \in DOMAIN types,
                      NEW f \in ToSet(types[n].fields) \cup ToSet(types[n].fields_by_name)
               PROVE  Count(types[n].fields, f) = Count(types[n].fields_by_name, f)
    BY DEF ListsAgree
  <2>1. types[n].fields \in Seq(Field) /\ types[n].fields_by_name \in Seq(Field)
    BY DEF IInv, TypeOK, Structs
  <2>2. f \in Field
    BY <2>1 DEF ToSet
  <2> QED
    BY <2>2 DEF CountsAgree
<1> QED
  BY <1>1, <1>2, CountsAgreeStep, Invariance, PTL DEF Spec

-----------------------------------------------------------------------------
LEMMA Grows ==
  IInv /\ [Next]_vars =>
    \A n \in DOMAIN types :
      /\ n \in DOMAIN types'
      /\ types'[n].super = types[n].super
      /\ \A f \in ToSet(types[n].fields) :
           Count(types[n].fields, f) <= Count(types'[n].fields, f)
<1> SUFFICES ASSUME IInv, [Next]_vars, NEW n \in DOMAIN types
             PROVE  /\ n \in DOMAIN types'
                    /\ types'[n].super = types[n].super
                    /\ \A f \in ToSet(types[n].fields) :
                         Count(types[n].fields, f) <= Count(types'[n].fields, f)
  OBVIOUS
<1>1. types[n].fields \in Seq(Field)
  BY DEF IInv, TypeOK, Structs
<1>2. \A f : Count(types[n].fields, f) \in Nat
  BY <1>1, IndicesFinite, FS_CardinalityType
<1>3. CASE n \in DOMAIN types' /\ types'[n] = types[n]
  BY <1>2, <1>3
<1>4. CASE UNCHANGED types
  BY <1>3, <1>4
<1>5. ASSUME NEW m \in Names, NEW super \in Names \cup {Nil}, ~Exists(m),
             CreateStruct(m, super)
      PROVE  n \in DOMAIN types' /\ types'[n] = types[n]
  BY <1>5 DEF CreateStruct, Exists
<1>6. ASSUME NEW g \in Field, InsertField(n, g)
      PROVE  /\ n \in DOMAIN types'
             /\ types'[n].super = types[n].super
             /\ \A f \in ToSet(types[n].fields) :
                  Count(types[n].fields, f) <= Count(types'[n].fields, f)
  <2>1. PICK p \in 1 .. Len(types[n].fields) + 1 :
          types'[n].fields = InsertAt(types[n].fields, p, g)
    BY <1>6, Inserted DEF IInv
  <2>2. \A f : Count(types'[n].fields, f)
                 = Count(types[n].fields, f) + (IF f = g THEN 1 ELSE 0)
    BY <1>1, <2>1, CountInserted
  <2>3. n \in DOMAIN types' /\ types'[n].super = types[n].super
    BY <1>6, Inserted DEF IInv
  <2>4. \A f : Count(types[n].fields, f) <= Count(types'[n].fields, f)
    BY <1>2, <2>2
  <2> QED
    BY <2>3, <2>4
<1>7. ASSUME NEW m \in DOMAIN types, m # n, NEW g \in Field, InsertField(m, g)
      PROVE  n \in DOMAIN types' /\ types'[n] = types[n]
  BY <1>7, Inserted DEF IInv
<1> QED
  BY <1>3, <1>4, <1>5, <1>6, <1>7, StepOfTypes DEF vars

\* No step redefines a type or takes a field from one.
THEOREM Permanent == Spec => TypesKept
BY Grows, Invariance, PTL DEF Spec, TypesKept
-----------------------------------------------------------------------------
(***************************************************************************)
(* The host's belief about its stack: the structs it has open are the top  *)
(* ones, in that order. A host of this discipline names types that exist   *)
(* and opens no derived struct inside another definition.                  *)
(***************************************************************************)
StackAsBelieved ==
  /\ Len(open) <= Len(stack)
  /\ \A i \in 1 .. Len(open) : stack[Len(stack) - Len(open) + i] = open[i]
  /\ open # <<>> => registered

LEMMA BelievedTop ==
  ASSUME IInv, StackAsBelieved, open # <<>>
  PROVE  stack # <<>> /\ Top(stack) = Last(open) /\ Last(open) \in DOMAIN types
<1>1. /\ open \in Seq(Names) /\ Len(open) \in Nat /\ Len(open) > 0
      /\ stack \in Seq(DOMAIN types \cup {Table}) /\ Len(stack) \in Nat
  BY DEF IInv, TypeOK, StackRegistered
<1>2. stack # <<>> /\ Len(stack) - Len(open) + Len(open) = Len(stack)
      /\ Len(open) \in 1 .. Len(open)
  BY <1>1 DEF StackAsBelieved
<1>3. stack[Len(stack)] = open[Len(open)]
  BY <1>2 DEF StackAsBelieved
<1>4. Top(stack) = Last(open)
  BY <1>2, <1>3 DEF Top, Last
<1>5. IsStruct(Top(stack))
  BY <1>1, <1>4, FrontLast DEF IsStruct
<1> QED
  BY <1>1, <1>2, <1>4, <1>5, TopRegistered

\* A declaration of such a host fails, or adds what was declared to the struct
\* it has open, and leaves the stack alone.
LEMMA DeclareAsBelieved ==
  ASSUME ~UnknownTypes, IInv, StackAsBelieved, NEW d \in Decls,
         NewStructField(d) \/ NewStructArrayField(d) \/ NewStructBitField(d)
  PROVE  /\ UNCHANGED registered
         /\ \/ Raise
            \/ /\ open # <<>> /\ Last(open) \in DOMAIN types
               /\ InsertField(Last(open), d)
               /\ Declare(d)
               /\ UNCHANGED <<stack, open>>
<1>1. /\ open # <<>> /\ UNCHANGED registered
      /\ d.type = Nil \/ Exists(d.type)
  BY DEF NewStructField, NewStructArrayField, NewStructBitField, Declaring
<1>2. Top(stack) = Last(open) /\ Last(open) \in DOMAIN types
  BY <1>1, BelievedTop
<1>3. d \in Field
  BY DeclsAssumption
<1>4. d = [d EXCEPT !.type = d.type]
  BY <1>3 DEF Field
<1>5. d.type # Nil => TypeInfo(d) = d.type /\ StackAfterType(d) = stack
  BY <1>1 DEF TypeInfo, StackAfterType
<1>6. CASE NewStructField(d)
  BY <1>1, <1>2, <1>4, <1>5, <1>6 DEF NewStructField
<1>7. CASE NewStructArrayField(d)
  <2>1. CASE d.type = Nil
    BY <1>1, <1>2, <1>7, <2>1 DEF NewStructArrayField
  <2>2. CASE d.type # Nil
    BY <1>1, <1>2, <1>4, <1>5, <1>7, <2>2 DEF NewStructArrayField
  <2> QED
    BY <2>1, <2>2
<1>8. CASE NewStructBitField(d)
  BY <1>1, <1>2, <1>8 DEF NewStructBitField
<1> QED
  BY <1>6, <1>7, <1>8

\* Pushing a struct keeps the belief.
LEMMA PushAsBelieved ==
  ASSUME IInv, StackAsBelieved, NEW n \in Names,
         stack' = Append(stack, n), open' = Append(open, n), registered' = TRUE
  PROVE  StackAsBelieved'
<1>1. /\ open \in Seq(Names) /\ Len(open) \in Nat
      /\ stack \in Seq(Names \cup {Table}) /\ Len(stack) \in Nat
  BY DEF IInv, TypeOK
<1>2. /\ Len(open') = Len(open) + 1 /\ Len(stack') = Len(stack) + 1
      /\ \A i \in 1 .. Len(open) : open'[i] = open[i]
      /\ \A i \in 1 .. Len(stack) : stack'[i] = stack[i]
      /\ open'[Len(open) + 1] = n /\ stack'[Len(stack) + 1] = n
  BY <1>1, AppendProperties
<1>3. ASSUME NEW i \in 1 .. Len(open')
      PROVE  stack'[Len(stack') - Len(open') + i] = open'[i]
  <2>1. Len(stack') - Len(open') + i = Len(stack) - Len(open) + i
    BY <1>1, <1>2
  <2>2. CASE i = Len(open) + 1
    <3>1. Len(stack) - Len(open) + i = Len(stack) + 1
      BY <1>1, <2>2
    <3> QED
      BY <1>2, <2>1, <2>2, <3>1
  <2>3. CASE i # Len(open) + 1
    <3>1. i \in 1 .. Len(open) /\ Len(stack) - Len(open) + i \in 1 .. Len(stack)
      BY <1>1, <1>2, <2>3 DEF StackAsBelieved
    <3> QED
      BY <1>2, <2>1, <3>1 DEF StackAsBelieved
  <2> QED
    BY <2>2, <2>3
<1> QED
  BY <1>1, <1>2, <1>3 DEF StackAsBelieved

LEMMA NewStructAsBelieved ==
  ASSUME ~NestExtends, IInv, StackAsBelieved,
         NEW n \in Names, NEW super \in Names \cup {Nil}, NewStruct(n, super)
  PROVE  StackAsBelieved'
<1>1. registered' = TRUE /\ (super # Nil => open = <<>>)
  BY DEF NewStruct
<1>2. CASE RejectStruct(n, super)
  BY <1>2 DEF RejectStruct, Raise, StackAsBelieved
<1>3. CASE OpenExisting(n)
  BY <1>1, <1>3, PushAsBelieved DEF OpenExisting
<1>4. CASE CreateStruct(n, super)
  <2> DEFINE below == stack \o RegistryLeft
             pushed == IF super = Nil THEN below ELSE Append(below, super)
  <2>1. below \in Seq(Names \cup {Table}) /\ stack \in Seq(Names \cup {Table})
    <3>1. <<>> \in Seq(Names \cup {Table}) /\ <<Table>> \in Seq(Names \cup {Table})
      OBVIOUS
    <3>2. RegistryLeft \in Seq(Names \cup {Table})
      BY <3>1, Zenon DEF RegistryLeft
    <3> QED
      BY <3>2, ConcatProperties DEF IInv, TypeOK
  <2>2. stack' = Append(pushed, n)
    <3> HIDE DEF below
    <3>1. CASE super = Nil
      <4>1. stack' = below \o <<n>>
        BY <1>4, <3>1 DEF CreateStruct, SuperLeft, below
      <4> QED
        BY <2>1, <3>1, <4>1, AppendIsConcat
    <3>2. CASE super # Nil
      <4>1. stack' = below \o <<super, n>>
        BY <1>4, <3>2 DEF CreateStruct, SuperLeft, below
      <4>2. below \o <<super, n>> = Append(Append(below, super), n)
        BY <2>1
      <4> QED
        BY <3>2, <4>1, <4>2
    <3> QED
      BY <3>1, <3>2
  <2>3. pushed \in Seq(Names \cup {Table})
    <3> HIDE DEF below
    <3> QED
      BY <2>1, AppendProperties
  <2>4. CASE open = <<>>
    <3> HIDE DEF pushed
    <3>1. Len(stack') = Len(pushed) + 1 /\ stack'[Len(pushed) + 1] = n /\ Len(pushed) \in Nat
      BY <2>2, <2>3, AppendProperties
    <3>2. open' = <<n>>
      BY <1>4, <2>4 DEF CreateStruct
    <3> QED
      BY <1>1, <3>1, <3>2 DEF StackAsBelieved
  <2>5. CASE open # <<>>
    <3>1. super = Nil /\ RegistryLeft = <<>>
      BY <1>1, <2>5 DEF StackAsBelieved, RegistryLeft
    <3>2. below = stack
      BY <2>1, <3>1, ConcatEmptySeq
    <3>3. stack' = Append(stack, n)
      BY <2>2, <3>1, <3>2
    <3> QED
      BY <1>1, <1>4, <3>3, PushAsBelieved DEF CreateStruct
  <2> QED
    BY <2>4, <2>5
<1> QED
  BY <1>2, <1>3, <1>4 DEF NewStruct, DefineStruct

LEMMA FrontElements ==
  ASSUME NEW S, NEW s \in Seq(S), s # <<>>
  PROVE  Len(Front(s)) = Len(s) - 1 /\ \A i \in 1 .. Len(s) - 1 : Front(s)[i] = s[i]
<1>1. Len(s) \in Nat /\ Len(s) # 0
  BY EmptySeq
<1>2. Front(s) = SubSeq(s, 1, Len(s) - 1)
  BY DEF Front
<1> DEFINE n == Len(s) - 1
<1>3. n \in Int /\ 1 \in Int /\ \A i \in 1 .. n : s[i] \in S
  BY <1>1
<1> HIDE DEF n
<1>4. /\ Len(SubSeq(s, 1, n)) = IF 1 <= n THEN n - 1 + 1 ELSE 0
      /\ \A i \in 1 .. n - 1 + 1 : SubSeq(s, 1, n)[i] = s[1 + i - 1]
  BY <1>3, SubSeqProperties
<1>5. Len(SubSeq(s, 1, n)) = n /\ \A i \in 1 .. n : SubSeq(s, 1, n)[i] = s[i]
  <2>1. n \in Nat
    BY <1>1 DEF n
  <2>2. n - 1 + 1 = n /\ \A i \in 1 .. n : 1 + i - 1 = i
    BY <2>1
  <2> QED
    BY <1>4, <2>1, <2>2
<1> QED
  BY <1>2, <1>5 DEF n

LEMMA PopAsBelieved ==
  ASSUME IInv, StackAsBelieved, PopStruct
  PROVE  StackAsBelieved'
<1>1. /\ open \in Seq(Names) /\ Len(open) \in Nat /\ open # <<>>
      /\ stack \in Seq(Names \cup {Table}) /\ Len(stack) \in Nat /\ stack # <<>>
  BY DEF IInv, TypeOK, PopStruct
<1>2. /\ Len(open') = Len(open) - 1 /\ Len(stack') = Len(stack) - 1
      /\ \A i \in 1 .. Len(open) - 1 : open'[i] = open[i]
      /\ \A i \in 1 .. Len(stack) - 1 : stack'[i] = stack[i]
  BY <1>1, FrontElements DEF PopStruct
<1>3. ASSUME NEW i \in 1 .. Len(open')
      PROVE  stack'[Len(stack') - Len(open') + i] = open'[i]
  <2>1. /\ Len(stack') - Len(open') + i = Len(stack) - Len(open) + i
        /\ i \in 1 .. Len(open) - 1 /\ i \in 1 .. Len(open)
        /\ Len(stack) - Len(open) + i \in 1 .. Len(stack) - 1
    BY <1>1, <1>2 DEF StackAsBelieved
  <2> QED
    BY <1>2, <2>1 DEF StackAsBelieved
<1> QED
  BY <1>1, <1>2, <1>3 DEF StackAsBelieved, PopStruct

LEMMA AsBelievedStep ==
  ASSUME ~UnknownTypes, ~NestExtends
  PROVE  IInv /\ StackAsBelieved /\ [Next]_vars => StackAsBelieved'
<1> SUFFICES ASSUME IInv, StackAsBelieved, [Next]_vars
             PROVE  StackAsBelieved'
  OBVIOUS
<1>1. CASE UNCHANGED vars
  BY <1>1 DEF vars, StackAsBelieved
<1>2. ASSUME NEW d \in Decls, NewStructField(d) \/ NewStructArrayField(d) \/ NewStructBitField(d)
      PROVE  StackAsBelieved'
  <2>1. CASE Raise
    BY <2>1 DEF Raise, StackAsBelieved
  <2>2. CASE UNCHANGED <<registered, stack, open>>
    BY <2>2 DEF StackAsBelieved
  <2> QED
    BY <1>2, <2>1, <2>2, DeclareAsBelieved
<1> QED
  BY <1>1, <1>2, NewStructAsBelieved, PopAsBelieved DEF Next

\* For a host of this discipline, the struct on top of the stack is always the
\* one it is defining, however its definitions nest, fail and start over.
THEOREM TopOfStack ==
  ASSUME ~UnknownTypes, ~NestExtends
  PROVE  Spec => []TopIsOpen
<1>1. Init => StackAsBelieved
  BY DEF Init, StackAsBelieved
<1>2. IInv /\ StackAsBelieved => TopIsOpen
  BY BelievedTop DEF TopIsOpen
<1> QED
  BY <1>1, <1>2, AsBelievedStep, Invariance, PTL DEF Spec
-----------------------------------------------------------------------------
(***************************************************************************)
(* The fields of a struct are the declared ones.                           *)
(***************************************************************************)
LEMMA ToSetAppend ==
  ASSUME NEW s \in Seq(Field), NEW e \in Field
  PROVE  ToSet(Append(s, e)) = ToSet(s) \cup {e}
<1>1. /\ Append(s, e) \in Seq(Field) /\ Len(Append(s, e)) = Len(s) + 1
      /\ \A i \in 1 .. Len(s) : Append(s, e)[i] = s[i]
      /\ Append(s, e)[Len(s) + 1] = e
  BY AppendProperties
<1> QED
  BY <1>1 DEF ToSet

LEMMA ToSetInsert ==
  ASSUME NEW s \in Seq(Field), NEW p \in 1 .. Len(s) + 1, NEW e \in Field
  PROVE  ToSet(InsertAt(s, p, e)) = ToSet(s) \cup {e}
<1> DEFINE t == InsertAt(s, p, e)
<1>1. /\ t \in Seq(Field) /\ Len(t) = Len(s) + 1
      /\ \A i \in 1 .. p - 1 : t[i] = s[i]
      /\ t[p] = e
      /\ \A i \in p + 1 .. Len(s) + 1 : t[i] = s[i - 1]
  BY InsertAtElements
<1> HIDE DEF t
<1>2. ToSet(t) = {t[i] : i \in 1 .. Len(s) + 1} /\ ToSet(s) = {s[i] : i \in 1 .. Len(s)}
  BY <1>1 DEF ToSet
<1>3. ASSUME NEW i \in 1 .. Len(s)
      PROVE  s[i] \in ToSet(t)
  <2>1. CASE i < p
    BY <1>1, <1>2, <2>1
  <2>2. CASE ~(i < p)
    <3>1. i + 1 \in p + 1 .. Len(s) + 1 /\ i + 1 \in 1 .. Len(s) + 1 /\ (i + 1) - 1 = i
      BY <2>2
    <3> QED
      BY <1>1, <1>2, <3>1
  <2> QED
    BY <2>1, <2>2
<1>4. ASSUME NEW i \in 1 .. Len(s) + 1
      PROVE  t[i] \in ToSet(s) \cup {e}
  <2>1. CASE i < p
    BY <1>1, <1>2, <2>1
  <2>2. CASE i > p
    <3>1. i \in p + 1 .. Len(s) + 1 /\ i - 1 \in 1 .. Len(s)
      BY <2>2
    <3> QED
      BY <1>1, <1>2, <3>1
  <2> QED
    BY <1>1, <2>1, <2>2
<1> QED
  BY <1>1, <1>2, <1>3, <1>4 DEF t

\* A struct keeps the fields declared for it when nothing of either changes.
LEMMA DeclaredSame ==
  ASSUME FieldsAsDeclared, UNCHANGED <<types, declared>>
  PROVE  FieldsAsDeclared'
BY DEF FieldsAsDeclared, Exists

LEMMA DeclaredStep ==
  ASSUME ~UnknownTypes
  PROVE  IInv /\ StackAsBelieved /\ FieldsAsDeclared /\ [Next]_vars => FieldsAsDeclared'
<1> SUFFICES ASSUME IInv, StackAsBelieved, FieldsAsDeclared, [Next]_vars
             PROVE  FieldsAsDeclared'
  OBVIOUS
<1>1. CASE UNCHANGED <<types, declared>>
  BY <1>1, DeclaredSame
<1>2. ASSUME NEW n \in Names, NEW super \in Names \cup {Nil}, NewStruct(n, super)
      PROVE  FieldsAsDeclared'
  <2>1. CASE ~Exists(n) /\ CreateStruct(n, super)
    <3>1. /\ DOMAIN types' = DOMAIN types \cup {n}
          /\ types'[n] = [super |-> super, fields |-> <<>>, fields_by_name |-> <<>>]
          /\ \A m \in DOMAIN types : types'[m] = types[m]
          /\ declared' = declared
      BY <2>1 DEF CreateStruct, Exists
    <3>2. ToSet(types'[n].fields_by_name) = {}
      BY <3>1 DEF ToSet
    <3> QED
      BY <2>1, <3>1, <3>2 DEF FieldsAsDeclared, Exists
  <2> QED
    BY <1>1, <1>2, <2>1 DEF NewStruct, DefineStruct, OpenExisting, RejectStruct, Raise
<1>3. ASSUME NEW d \in Decls, open # <<>>, Last(open) \in DOMAIN types,
             InsertField(Last(open), d), Declare(d)
      PROVE  FieldsAsDeclared'
  <2> DEFINE n == Last(open)
  <2>1. d \in Field /\ types[n].fields_by_name \in Seq(Field) /\ n \in Names
        /\ declared[n] \in Seq(Field)
    BY <1>3, DeclsAssumption DEF IInv, TypeOK, Structs
  <2>2. /\ DOMAIN types' = DOMAIN types
        /\ \A m \in DOMAIN types : m # n => types'[m] = types[m]
    BY <1>3, <2>1, Inserted DEF IInv
  <2>3. /\ declared'[n] = Append(declared[n], d)
        /\ \A m \in Names : m # n => declared'[m] = declared[m]
    BY <1>3, <2>1 DEF Declare, IInv, TypeOK
  <2>4. PICK q \in 1 .. Len(types[n].fields_by_name) + 1 :
          types'[n].fields_by_name = InsertAt(types[n].fields_by_name, q, d)
    BY <1>3, <2>1, Inserted DEF IInv
  <2>5. ToSet(types'[n].fields_by_name) = ToSet(types[n].fields_by_name) \cup {d}
    BY <2>1, <2>4, ToSetInsert
  <2>6. ToSet(declared'[n]) = ToSet(declared[n]) \cup {d}
    BY <2>1, <2>3, ToSetAppend
  <2>7. n \in DOMAIN types
    BY <1>3
  <2> HIDE DEF n
  <2>8. ToSet(declared[n]) = ToSet(types[n].fields_by_name)
    BY <2>1, <2>7 DEF FieldsAsDeclared, Exists
  <2>9. ASSUME NEW m \in Names
        PROVE  ToSet(declared'[m]) =
                 IF m \in DOMAIN types' THEN ToSet(types'[m].fields_by_name) ELSE {}
    <3>1. CASE m = n
      BY <2>2, <2>5, <2>6, <2>7, <2>8, <3>1
    <3>2. CASE m # n
      BY <2>2, <2>3, <3>2 DEF FieldsAsDeclared, Exists
    <3> QED
      BY <3>1, <3>2
  <2> QED
    BY <2>9 DEF FieldsAsDeclared, Exists
<1>4. ASSUME NEW d \in Decls, NewStructField(d) \/ NewStructArrayField(d) \/ NewStructBitField(d)
      PROVE  FieldsAsDeclared'
  BY <1>1, <1>3, <1>4, DeclareAsBelieved DEF Raise
<1>5. PopStruct => UNCHANGED <<types, declared>>
  BY DEF PopStruct
<1> QED
  BY <1>1, <1>2, <1>4, <1>5 DEF Next, vars

\* For such a host, a struct has exactly the fields declared for it, each of the
\* type that was named.
THEOREM AsDeclared ==
  ASSUME ~UnknownTypes, ~NestExtends
  PROVE  Spec => []FieldsAsDeclared
<1>1. Init => StackAsBelieved /\ FieldsAsDeclared
  BY DEF Init, StackAsBelieved, FieldsAsDeclared, Exists, ToSet
<1> QED
  BY <1>1, AsBelievedStep, DeclaredStep, Invariance, PTL DEF Spec
-----------------------------------------------------------------------------
(***************************************************************************)
(* Looking a field up.                                                     *)
(***************************************************************************)
LEMMA LookupFirst ==
  ASSUME NEW n, NEW name, types[n].fields_by_name \in Seq(Field),
         NEW p \in 1 .. Len(types[n].fields_by_name),
         First(types[n].fields_by_name, name, p)
  PROVE  Lookup(n, name) = types[n].fields_by_name[p]
<1> DEFINE list == types[n].fields_by_name
           found == CHOOSE q \in 1 .. Len(list) : First(list, name, q)
<1>1. found \in 1 .. Len(list) /\ First(list, name, found)
  OBVIOUS
<1>2. found = p
  <2>1. Len(list) \in Nat /\ found \in Nat /\ p \in Nat
    BY <1>1
  <2>2. ~(found < p)
    <3>1. found < p => found \in 1 .. p - 1
      BY <1>1, <2>1
    <3> QED
      BY <1>1, <3>1 DEF First
  <2>3. ~(p < found)
    <3>1. p < found => p \in 1 .. found - 1
      BY <1>1, <2>1
    <3> QED
      BY <1>1, <3>1 DEF First
  <2> QED
    BY <2>1, <2>2, <2>3
<1> QED
  BY <1>2 DEF Lookup

\* LookupIsLatest, with the place of the field: this is inductive.
FirstIsNewest(list, decls) ==
  \A p \in 1 .. Len(decls) : Newest(decls, p) =>
    \E q \in 1 .. Len(list) : First(list, decls[p].name, q) /\ list[q] = decls[p]

LatestFirst ==
  \A n \in DOMAIN types : FirstIsNewest(types[n].fields_by_name, declared[n])

\* A declaration goes before the fields of its name, and does not come between a
\* field of another name and the head of the list.
LEMMA NewestInserted ==
  ASSUME NEW s \in Seq(Field), NEW ds \in Seq(Field), NEW d \in Field,
         NEW r \in 1 .. Len(s) + 1, StopsByName(s, d, r), FirstIsNewest(s, ds)
  PROVE  FirstIsNewest(InsertAt(s, r, d), Append(ds, d))
<1> DEFINE t == InsertAt(s, r, d)
           es == Append(ds, d)
<1>1. /\ t \in Seq(Field) /\ Len(t) = Len(s) + 1
      /\ \A i \in 1 .. r - 1 : t[i] = s[i]
      /\ t[r] = d
      /\ \A i \in r + 1 .. Len(s) + 1 : t[i] = s[i - 1]
  BY InsertAtElements
<1>2. /\ Len(es) = Len(ds) + 1 /\ es[Len(ds) + 1] = d
      /\ \A i \in 1 .. Len(ds) : es[i] = ds[i]
  BY AppendProperties
<1>3. Len(s) \in Nat /\ Len(ds) \in Nat /\ r \in Nat
  OBVIOUS
<1> HIDE DEF t, es
<1>0. SUFFICES FirstIsNewest(t, es)
  BY DEF t, es
<1> SUFFICES ASSUME NEW p \in 1 .. Len(es), Newest(es, p)
             PROVE  \E q \in 1 .. Len(t) : First(t, es[p].name, q) /\ t[q] = es[p]
  BY DEF FirstIsNewest
<1>4. CASE p = Len(ds) + 1
  <2>1. ASSUME NEW i \in 1 .. r - 1
        PROVE  t[i].name # d.name
    <3>1. i \in 1 .. Len(s) /\ s[i].name < d.name
      BY <1>3, <2>1 DEF StopsByName
    <3>2. s[i] \in Field
      BY <3>1
    <3>3. s[i].name \in Nat /\ d.name \in Nat
      BY <3>2 DEF Field
    <3> QED
      BY <1>1, <3>1, <3>3
  <2>2. r \in 1 .. Len(t)
    BY <1>1, <1>3
  <2>3. es[p] = d
    BY <1>2, <1>4
  <2>4. First(t, d.name, r)
    BY <1>1, <2>1, <2>2 DEF First
  <2> QED
    BY <1>1, <2>2, <2>3, <2>4
<1>5. CASE p # Len(ds) + 1
  <2>1. p \in 1 .. Len(ds) /\ Len(ds) + 1 \in p + 1 .. Len(es) /\ es[p] = ds[p]
    BY <1>2, <1>3, <1>5
  <2>2. ds[p].name # d.name
    BY <1>2, <2>1 DEF Newest
  <2>3. Newest(ds, p)
    <3> SUFFICES ASSUME NEW i \in p + 1 .. Len(ds)
                 PROVE  ds[i].name # ds[p].name
      BY DEF Newest
    <3>1. i \in p + 1 .. Len(es) /\ i \in 1 .. Len(ds)
      BY <1>2, <1>3, <2>1
    <3> QED
      BY <1>2, <2>1, <3>1 DEF Newest
  <2>4. PICK k \in 1 .. Len(s) : First(s, ds[p].name, k) /\ s[k] = ds[p]
    BY <2>1, <2>3 DEF FirstIsNewest
  <2>5. CASE k < r
    <3>1. k \in 1 .. r - 1 /\ k \in 1 .. Len(t) /\ t[k] = s[k]
      BY <1>1, <1>3, <2>5
    <3>2. ASSUME NEW i \in 1 .. k - 1
          PROVE  t[i].name # ds[p].name
      <4>1. i \in 1 .. r - 1
        BY <1>3, <2>5
      <4> QED
        BY <1>1, <2>4, <4>1 DEF First
    <3> QED
      BY <2>1, <2>4, <3>1, <3>2 DEF First
  <2>6. CASE ~(k < r)
    <3>1. k + 1 \in r + 1 .. Len(s) + 1 /\ k + 1 \in 1 .. Len(t) /\ (k + 1) - 1 = k
      BY <1>1, <1>3, <2>6
    <3>2. t[k + 1] = s[k]
      BY <1>1, <3>1
    <3>3. ASSUME NEW i \in 1 .. (k + 1) - 1
          PROVE  t[i].name # ds[p].name
      <4>1. CASE i < r
        <5>1. i \in 1 .. r - 1 /\ i \in 1 .. k - 1
          BY <1>3, <2>6, <4>1
        <5> QED
          BY <1>1, <2>4, <5>1 DEF First
      <4>2. CASE i = r
        BY <1>1, <2>2, <4>2
      <4>3. CASE i > r
        <5>1. i \in r + 1 .. Len(s) + 1 /\ i - 1 \in 1 .. k - 1
          BY <1>3, <4>3
        <5> QED
          BY <1>1, <2>4, <5>1 DEF First
      <4> QED
        BY <1>3, <4>1, <4>2, <4>3
    <3> QED
      BY <2>1, <2>4, <3>1, <3>2, <3>3 DEF First
  <2> QED
    BY <1>3, <2>5, <2>6
<1> QED
  BY <1>4, <1>5

LEMMA LatestStep ==
  ASSUME ~UnknownTypes
  PROVE  IInv /\ StackAsBelieved /\ FieldsAsDeclared /\ LatestFirst /\ [Next]_vars
           => LatestFirst'
<1> SUFFICES ASSUME IInv, StackAsBelieved, FieldsAsDeclared, LatestFirst, [Next]_vars
             PROVE  LatestFirst'
  OBVIOUS
<1>1. CASE UNCHANGED <<types, declared>>
  BY <1>1 DEF LatestFirst
<1>2. ASSUME NEW n \in Names, NEW super \in Names \cup {Nil}, NewStruct(n, super)
      PROVE  LatestFirst'
  <2>1. CASE ~Exists(n) /\ CreateStruct(n, super)
    <3>1. /\ DOMAIN types' = DOMAIN types \cup {n}
          /\ \A m \in DOMAIN types : types'[m] = types[m]
          /\ declared' = declared
      BY <2>1 DEF CreateStruct, Exists
    <3>2. ToSet(declared[n]) = {} /\ declared[n] \in Seq(Field)
      BY <2>1 DEF FieldsAsDeclared, IInv, TypeOK
    <3>3. 1 .. Len(declared[n]) = {}
      <4>1. ToSet(declared[n]) = {declared[n][i] : i \in 1 .. Len(declared[n])}
        BY <3>2 DEF ToSet
      <4> QED
        BY <3>2, <4>1
    <3>4. FirstIsNewest(types'[n].fields_by_name, declared'[n])
      BY <3>1, <3>3 DEF FirstIsNewest
    <3> QED
      BY <3>1, <3>4 DEF LatestFirst
  <2> QED
    BY <1>1, <1>2, <2>1 DEF NewStruct, DefineStruct, OpenExisting, RejectStruct, Raise
<1>3. ASSUME NEW d \in Decls, open # <<>>, Last(open) \in DOMAIN types,
             InsertField(Last(open), d), Declare(d)
      PROVE  LatestFirst'
  <2> DEFINE n == Last(open)
  <2>1. d \in Field /\ types[n].fields_by_name \in Seq(Field) /\ n \in Names
        /\ declared[n] \in Seq(Field) /\ n \in DOMAIN types
    BY <1>3, DeclsAssumption DEF IInv, TypeOK, Structs
  <2>2. PICK r \in 1 .. Len(types[n].fields_by_name) + 1 :
          /\ StopsByName(types[n].fields_by_name, d, r)
          /\ DOMAIN types' = DOMAIN types
          /\ types'[n].fields_by_name = InsertAt(types[n].fields_by_name, r, d)
          /\ \A m \in DOMAIN types : m # n => types'[m] = types[m]
    BY <1>3, <2>1 DEF InsertField, IInv, TypeOK, Structs
  <2>3. /\ declared'[n] = Append(declared[n], d)
        /\ \A m \in Names : m # n => declared'[m] = declared[m]
    BY <1>3, <2>1 DEF Declare, IInv, TypeOK
  <2> HIDE DEF n
  <2>4. FirstIsNewest(types[n].fields_by_name, declared[n])
    BY <2>1 DEF LatestFirst
  <2>5. FirstIsNewest(types'[n].fields_by_name, declared'[n])
    BY <2>1, <2>2, <2>3, <2>4, NewestInserted
  <2>6. \A m \in DOMAIN types : m \in Names
    BY DEF IInv, TypeOK
  <2> QED
    BY <2>2, <2>3, <2>5, <2>6 DEF LatestFirst
<1>4. ASSUME NEW d \in Decls, NewStructField(d) \/ NewStructArrayField(d) \/ NewStructBitField(d)
      PROVE  LatestFirst'
  BY <1>1, <1>3, <1>4, DeclareAsBelieved DEF Raise
<1>5. PopStruct => UNCHANGED <<types, declared>>
  BY DEF PopStruct
<1> QED
  BY <1>1, <1>2, <1>4, <1>5 DEF Next, vars

\* For such a host, a field declared again takes the place of the older one:
\* __index finds the newest, also after a definition failed and started over.
THEOREM NewestFound ==
  ASSUME ~UnknownTypes, ~NestExtends
  PROVE  Spec => []LookupIsLatest
<1>1. Init => StackAsBelieved /\ FieldsAsDeclared /\ LatestFirst
  <2>1. Init => StackAsBelieved /\ FieldsAsDeclared
    BY DEF Init, StackAsBelieved, FieldsAsDeclared, Exists, ToSet
  <2>2. Init => DOMAIN types = {}
    BY DEF Init
  <2> QED
    BY <2>1, <2>2 DEF LatestFirst
<1>2. IInv /\ LatestFirst => LookupIsLatest
  <2> SUFFICES ASSUME IInv, LatestFirst, NEW n \in DOMAIN types,
                      NEW p \in 1 .. Len(declared[n]), Newest(declared[n], p)
               PROVE  Lookup(n, declared[n][p].name) = declared[n][p]
    BY DEF LookupIsLatest
  <2>1. types[n].fields_by_name \in Seq(Field)
    BY DEF IInv, TypeOK, Structs
  <2>2. PICK q \in 1 .. Len(types[n].fields_by_name) :
          /\ First(types[n].fields_by_name, declared[n][p].name, q)
          /\ types[n].fields_by_name[q] = declared[n][p]
    BY DEF LatestFirst, FirstIsNewest
  <2> QED
    BY <2>1, <2>2, LookupFirst
<1> QED
  BY <1>1, <1>2, AsBelievedStep, DeclaredStep, LatestStep, Invariance, PTL DEF Spec
=============================================================================
