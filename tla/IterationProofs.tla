--------------------------- MODULE IterationProofs ---------------------------
(***************************************************************************)
(* pairs of an object implements Traversal, for every struct and whatever  *)
(* the host declares while the loop runs, as long as no struct gets two    *)
(* fields of one name.                                                     *)
(***************************************************************************)
EXTENDS Iteration, StructTypesProofs

IterInv == IInv /\ LoopOK /\ DistinctNames

\* What ToSet is of the list by name.
LEMMA NamesOfList ==
  ASSUME NEW n
  PROVE  FieldNames(n) = {List(n)[i].name : i \in DOMAIN List(n)}
BY DEF FieldNames, ToSet

\* Inserting a field takes no name from any struct.
LEMMA InsertKeepsNames ==
  ASSUME TypeOK, NEW n \in DOMAIN types, NEW f \in Field, InsertField(n, f)
  PROVE  \A m \in DOMAIN types : m \in DOMAIN types' /\ FieldNames(m) \subseteq FieldNames(m)'
<1>1. types[n].fields \in Seq(Field) /\ List(n) \in Seq(Field)
  BY DEF TypeOK, Structs, List
<1>2. PICK q \in 1 .. Len(List(n)) + 1 :
        /\ DOMAIN types' = DOMAIN types
        /\ types'[n].fields_by_name = InsertAt(List(n), q, f)
        /\ \A m \in DOMAIN types : m # n => types'[m] = types[m]
  BY DEF InsertField, TypeOK, Structs, List
<1>3. /\ InsertAt(List(n), q, f) \in Seq(Field)
      /\ Len(InsertAt(List(n), q, f)) = Len(List(n)) + 1
      /\ \A i \in 1 .. q - 1 : InsertAt(List(n), q, f)[i] = List(n)[i]
      /\ \A i \in q + 1 .. Len(List(n)) + 1 : InsertAt(List(n), q, f)[i] = List(n)[i - 1]
  BY <1>1, <1>2, InsertAtElements
<1> DEFINE new == List(n)'
<1>4. /\ new \in Seq(Field) /\ Len(new) = Len(List(n)) + 1
      /\ \A i \in 1 .. q - 1 : new[i] = List(n)[i]
      /\ \A i \in q + 1 .. Len(List(n)) + 1 : new[i] = List(n)[i - 1]
  BY <1>2, <1>3 DEF List
<1>5. ASSUME NEW i \in DOMAIN List(n)
      PROVE  \E j \in DOMAIN new : new[j] = List(n)[i]
  <2>1. i \in 1 .. Len(List(n)) /\ DOMAIN new = 1 .. Len(List(n)) + 1
    BY <1>1, <1>4
  <2> HIDE DEF new
  <2>2. CASE i < q
    BY <1>1, <1>4, <2>1, <2>2
  <2>3. CASE q <= i
    <3>1. i + 1 \in q + 1 .. Len(List(n)) + 1 /\ i + 1 \in DOMAIN new /\ (i + 1) - 1 = i
      BY <1>1, <2>1, <2>3
    <3> QED
      BY <1>4, <3>1
  <2> QED
    BY <1>1, <2>1, <2>2, <2>3
<1>6. FieldNames(n) \subseteq FieldNames(n)'
  <2>1. FieldNames(n)' = {new[j].name : j \in DOMAIN new}
    BY DEF FieldNames, ToSet
  <2> HIDE DEF new
  <2> QED
    BY <1>5, <2>1, NamesOfList
<1>7. ASSUME NEW m \in DOMAIN types, m # n
      PROVE  FieldNames(m)' = FieldNames(m)
  BY <1>2, <1>7 DEF FieldNames, List
<1> QED
  BY <1>2, <1>6, <1>7

\* No step of the host takes a struct or a name from the registry.
LEMMA NamesKept ==
  ASSUME IInv, Next
  PROVE  \A m \in DOMAIN types : m \in DOMAIN types' /\ FieldNames(m) \subseteq FieldNames(m)'
<1> DEFINE Kept == \A m \in DOMAIN types :
                     m \in DOMAIN types' /\ FieldNames(m) \subseteq FieldNames(m)'
<1>1. ASSUME UNCHANGED types
      PROVE  Kept
  BY <1>1 DEF FieldNames, List
<1>2. ASSUME NEW n \in DOMAIN types, NEW f \in Field, InsertField(n, f)
      PROVE  Kept
  BY <1>2, InsertKeepsNames DEF IInv
<1>3. ASSUME NEW n \in Names, NEW super \in Names \cup {Nil}, NewStruct(n, super)
      PROVE  Kept
  <2>1. CASE RejectStruct(n, super)
    BY <1>1, <2>1 DEF RejectStruct, Raise
  <2>2. CASE OpenExisting(n)
    BY <1>1, <2>2 DEF OpenExisting
  <2>3. CASE ~Exists(n) /\ CreateStruct(n, super)
    <3>1. \A m \in DOMAIN types : m \in DOMAIN types' /\ types'[m] = types[m]
      BY <2>3 DEF CreateStruct, Exists
    <3> QED
      BY <3>1 DEF FieldNames, List
  <2> QED
    BY <1>3, <2>1, <2>2, <2>3 DEF NewStruct, DefineStruct
<1> HIDE DEF Kept
<1>4. stack \in Seq(DOMAIN types \cup {Table})
  BY DEF IInv, StackRegistered
<1>5. ASSUME NEW d \in Decls, NewStructField(d)
      PROVE  Kept
  <2>1. CASE Raise
    BY <1>1, <2>1 DEF Raise
  <2>2. CASE IsStruct(Top(stack)) /\ InsertField(Top(stack), d)
    BY <1>2, <1>4, <2>2, TopRegistered, DeclsAssumption
  <2>3. CASE IsStruct(Top(stack)) /\ InsertField(Top(stack), [d EXCEPT !.type = TypeInfo(d)])
    <3>1. TypeInfo(d) \in Names \cup {Nil}
      BY <2>3 DEF TypeInfo, IsStruct, Exists, IInv, TypeOK
    <3> QED
      BY <1>2, <1>4, <2>3, <3>1, TopRegistered, RetypedField
  <2> QED
    BY <1>5, <2>1, <2>2, <2>3 DEF NewStructField
<1>6. ASSUME NEW d \in Decls, NewStructArrayField(d)
      PROVE  Kept
  <2> DEFINE after == StackAfterType(d)
             info  == TypeInfo(d)
  <2>1. CASE Raise
    BY <1>1, <2>1 DEF Raise
  <2>2. CASE /\ IsStruct(info) /\ IsStruct(Top(after))
             /\ InsertField(Top(after), [d EXCEPT !.type = info])
    <3>1. after \in Seq(DOMAIN types \cup {Table})
      BY StackAfterTypeOK, <1>4, Zenon
    <3>2. info \in Names \cup {Nil}
      BY <2>2 DEF IsStruct
    <3> QED
      BY <1>2, <2>2, <3>1, <3>2, TopRegistered, RetypedField
  <2>3. CASE IsStruct(Top(stack)) /\ InsertField(Top(stack), d)
    BY <1>2, <1>4, <2>3, TopRegistered, DeclsAssumption
  <2> QED
    BY <1>6, <2>1, <2>2, <2>3 DEF NewStructArrayField
<1>7. ASSUME NEW d \in Decls, NewStructBitField(d)
      PROVE  Kept
  <2>1. CASE Raise
    BY <1>1, <2>1 DEF Raise
  <2>2. CASE IsStruct(Top(stack)) /\ InsertField(Top(stack), d)
    BY <1>2, <1>4, <2>2, TopRegistered, DeclsAssumption
  <2> QED
    BY <1>7, <2>1, <2>2 DEF NewStructBitField
<1>8. ASSUME PopStruct
      PROVE  Kept
  BY <1>1, <1>8 DEF PopStruct
<1>9. Kept
  BY <1>3, <1>5, <1>6, <1>7, <1>8 DEF Next
<1> QED
  BY <1>9 DEF Kept

-----------------------------------------------------------------------------
\* The list by name of a struct in the registry, as the invariant has it.
LEMMA ListFacts ==
  ASSUME IterInv, NEW n \in DOMAIN types
  PROVE  /\ List(n) \in Seq(Field)
         /\ FieldNames(n) = {List(n)[i].name : i \in 1 .. Len(List(n))}
         /\ \A i \in 1 .. Len(List(n)) : List(n)[i].name \in Nat \ {0}
         /\ \A i, j \in 1 .. Len(List(n)) : i < j => List(n)[i].name < List(n)[j].name
<1>1. List(n) \in Seq(Field)
  BY DEF IterInv, IInv, TypeOK, Structs, List
<1>2. \A i \in 1 .. Len(List(n)) : List(n)[i].name \in Nat \ {0}
  <2>1. \A i \in 1 .. Len(List(n)) : List(n)[i] \in Field
    BY <1>1
  <2> QED
    BY <2>1 DEF Field
<1>3. ASSUME NEW i \in 1 .. Len(List(n)), NEW j \in 1 .. Len(List(n)), i < j
      PROVE  List(n)[i].name < List(n)[j].name
  <2>1. List(n)[i].name <= List(n)[j].name
    BY <1>3 DEF IterInv, IInv, ListsSorted, List
  <2>2. List(n)[i].name # List(n)[j].name
    BY <1>3 DEF IterInv, DistinctNames
  <2> QED
    BY <1>2, <2>1, <2>2
<1>4. FieldNames(n) = {List(n)[i].name : i \in 1 .. Len(List(n))}
  <2>1. DOMAIN List(n) = 1 .. Len(List(n))
    BY <1>1
  <2> QED
    BY <2>1, NamesOfList
<1> QED
  BY <1>1, <1>2, <1>3, <1>4

\* The key that __next gives is the least of those after the key it was given.
LEMMA FollowingIsNext ==
  ASSUME IterInv, NEW n \in DOMAIN types, NEW at \in {0} \cup FieldNames(n),
         NEW p, Following(n, at, p)
  PROVE  /\ List(n)[p].name \in FieldNames(n)
         /\ List(n)[p].name > at
         /\ \A k \in FieldNames(n) : k > at => List(n)[p].name <= k
<1> DEFINE len == Len(List(n))
           name(i) == List(n)[i].name
<1>1. /\ len \in Nat
      /\ FieldNames(n) = {name(i) : i \in 1 .. len}
      /\ \A i \in 1 .. len : name(i) \in Nat \ {0}
      /\ \A i, j \in 1 .. len : i < j => name(i) < name(j)
  BY ListFacts
<1>2. p \in 1 .. len /\ (at # 0 => p - 1 \in 1 .. len /\ name(p - 1) = at)
  BY DEF Following, First
<1>3. at = 0 => p = 1
  BY DEF Following
<1>4. at \in Nat
  BY <1>1
<1> HIDE DEF len, name
<1>5. name(p) > at
  <2>1. CASE at = 0
    BY <1>1, <1>2, <2>1
  <2>2. CASE at # 0
    <3>1. p - 1 < p
      BY <1>2
    <3> QED
      BY <1>1, <1>2, <2>2, <3>1
  <2> QED
    BY <2>1, <2>2
<1>6. ASSUME NEW j \in 1 .. len, name(j) > at
      PROVE  name(p) <= name(j)
  <2>1. CASE j < p
    <3>1. at # 0 /\ (j = p - 1 \/ j < p - 1)
      BY <1>1, <1>2, <1>3, <2>1
    <3>2. name(j) <= at
      BY <1>1, <1>2, <3>1
    <3> QED
      BY <1>1, <1>4, <1>6, <3>2
  <2>2. CASE j = p
    BY <1>1, <2>2
  <2>3. CASE p < j
    BY <1>1, <1>2, <2>3
  <2> QED
    BY <1>1, <1>2, <2>1, <2>2, <2>3
<1>7. name(p) = List(n)[p].name
  BY DEF name
<1> QED
  BY <1>1, <1>2, <1>5, <1>6, <1>7

\* When __next gives no key, none is left.
LEMMA ExhaustedIsLast ==
  ASSUME IterInv, NEW n \in DOMAIN types, NEW at \in {0} \cup FieldNames(n),
         \A p \in 1 .. Len(List(n)) : ~Following(n, at, p)
  PROVE  \A k \in FieldNames(n) : ~(k > at)
<1> DEFINE len == Len(List(n))
           name(i) == List(n)[i].name
<1>1. /\ len \in Nat
      /\ FieldNames(n) = {name(i) : i \in 1 .. len}
      /\ \A i \in 1 .. len : name(i) \in Nat \ {0}
      /\ \A i, j \in 1 .. len : i < j => name(i) < name(j)
  BY ListFacts
<1>2. \A p \in 1 .. len : ~Following(n, at, p)
  OBVIOUS
<1>3. CASE at = 0
  <2>1. 1 \in 1 .. len => Following(n, at, 1)
    BY <1>3 DEF Following
  <2>2. FieldNames(n) = {}
    BY <1>1, <1>2, <2>1
  <2> QED
    BY <2>2
<1>4. CASE at # 0
  <2>1. PICK i \in 1 .. len : name(i) = at
    BY <1>1, <1>4
  <2>2. \A j \in 1 .. i - 1 : name(j) # at
    BY <1>1, <2>1
  <2>3. First(List(n), at, i)
    BY <2>1, <2>2 DEF First
  <2>4. i + 1 \in 1 .. len => Following(n, at, i + 1)
    <3>1. (i + 1) - 1 = i
      BY <1>1, <2>1
    <3> QED
      BY <1>4, <2>3, <3>1 DEF Following
  <2>5. i = len
    BY <1>1, <1>2, <2>1, <2>4
  <2> HIDE DEF len, name
  <2>6. \A j \in 1 .. len : j = i \/ j < i
    BY <1>1, <2>5
  <2>7. \A j \in 1 .. len : ~(name(j) > at)
    BY <1>1, <2>1, <2>6
  <2> QED
    BY <1>1, <2>7
<1> QED
  BY <1>3, <1>4

-----------------------------------------------------------------------------
\* What a loop runs over, and where it is.
LEMMA Running ==
  ASSUME IterInv, loop.status = "running"
  PROVE  /\ loop = [over |-> loop.over, at |-> loop.at, status |-> "running"]
         /\ loop.over \in DOMAIN types /\ loop.over # Nil
         /\ loop.at \in {0} \cup FieldNames(loop.over)
<1>1. loop \notin {NoLoop("idle"), NoLoop("done"), NoLoop("stopped")}
  BY DEF NoLoop
<1>2. Nil \notin DOMAIN types
  BY NamesAssumption DEF IterInv, IInv, TypeOK
<1> QED
  BY <1>1, <1>2 DEF IterInv, LoopOK, Exists

LEMMA LoopKept ==
  ASSUME IterInv, Host
  PROVE  LoopOK'
<1>1. UNCHANGED loop
  BY DEF Host
<1>2. \A m \in DOMAIN types : m \in DOMAIN types' /\ FieldNames(m) \subseteq FieldNames(m)'
  BY NamesKept DEF Host, IterInv
<1> QED
  BY <1>1, <1>2 DEF IterInv, LoopOK, Exists, NoLoop

LEMMA ScriptLoop ==
  ASSUME IterInv, Script, UNCHANGED vars
  PROVE  LoopOK'
<1>1. /\ \A n : FieldNames(n)' = FieldNames(n)
      /\ \A n : Exists(n)' <=> Exists(n)
  BY DEF vars, FieldNames, List, Exists
<1>2. ASSUME NEW n \in Names, Pairs(n)
      PROVE  LoopOK'
  BY <1>1, <1>2 DEF Pairs, LoopOK
<1>3. ASSUME NEW status \in {"done", "stopped"}, loop' = NoLoop(status)
      PROVE  LoopOK'
  BY <1>3 DEF LoopOK, NoLoop
<1>4. ASSUME loop.status = "running", NEW p, Following(loop.over, loop.at, p),
             loop' = [loop EXCEPT !.at = List(loop.over)[p].name]
      PROVE  LoopOK'
  <2>1. List(loop.over)[p].name \in FieldNames(loop.over)
    BY <1>4, Running, FollowingIsNext
  <2>2. loop'.status = loop.status /\ loop'.over = loop.over
        /\ loop'.at = List(loop.over)[p].name
    BY <1>4, Running
  <2>3. loop' = [over |-> loop'.over, at |-> loop'.at, status |-> "running"]
    BY <1>4, Running
  <2> QED
    BY <1>1, <1>4, <2>1, <2>2, <2>3, Running DEF LoopOK, Exists
<1> QED
  BY <1>2, <1>3, <1>4 DEF Script, ObjectNext, Deliver, Exhaust, Break

\* A loop is at a field of the struct it runs over, whatever the host declares.
LEMMA IterInvariance ==
  ASSUME ~Redeclares
  PROVE  IterSpec => []IterInv
<1>1. IterInit => LoopOK /\ DistinctNames
  BY DEF IterInit, Init, LoopOK, NoLoop, DistinctNames
<1>2. IInv /\ LoopOK /\ DistinctNames /\ [IterNext]_iterVars => LoopOK' /\ DistinctNames'
  <2> SUFFICES ASSUME IterInv, [IterNext]_iterVars
               PROVE  LoopOK' /\ DistinctNames'
    BY DEF IterInv
  <2>1. CASE Host
    BY <2>1, LoopKept DEF Host
  <2>2. CASE Script /\ UNCHANGED vars
    BY <2>2, ScriptLoop DEF IterInv, vars, DistinctNames, List
  <2>3. CASE UNCHANGED iterVars
    BY <2>3 DEF iterVars, IterInv, LoopOK, DistinctNames, List, FieldNames, Exists, NoLoop
  <2> QED
    BY <2>1, <2>2, <2>3 DEF IterNext
<1>3. IterSpec => Spec
  <2>1. IterInit => Init
    BY DEF IterInit
  <2>2. [IterNext]_iterVars => [Next]_vars
    BY DEF IterNext, Host, iterVars, vars
  <2> QED
    BY <2>1, <2>2, PTL DEF IterSpec, Spec
<1> QED
  BY <1>1, <1>2, <1>3, Invariance, PTL DEF IterSpec, IterInv

\* A loop's key is a field of its struct for as long as it runs: __next finds
\* its place again, whatever was declared meanwhile.
THEOREM LoopHasPlace ==
  ASSUME ~Redeclares
  PROVE  IterSpec => []LoopOK
<1>1. IterInv => LoopOK
  BY DEF IterInv
<1> QED
  BY <1>1, IterInvariance, PTL

KeysPositive == LoopKeys \subseteq Nat \ {0}

\* pairs of an object gives each field once and in order, whatever the host
\* declares meanwhile: as long as no struct gets two fields of one name, the
\* loop implements Traversal.
THEOREM PairsImplementsTraversal ==
  ASSUME ~Redeclares
  PROVE  IterSpec => LoopIsTraversal
<1>1. IterInv => KeysPositive
  <2> SUFFICES ASSUME IterInv, loop.over # Nil
               PROVE  FieldNames(loop.over) \subseteq Nat \ {0}
    BY DEF KeysPositive, LoopKeys
  <2>1. loop.over \in DOMAIN types
    BY DEF IterInv, LoopOK, NoLoop, Exists
  <2> QED
    BY <2>1, ListFacts
<1>2. IterInv' => KeysPositive'
  BY <1>1, PTL
<1>3. IterInit => Loop!Init
  BY DEF IterInit, Init, NoLoop, LoopKeys, Loop!Init
<1>4. IterInv /\ IterInv' /\ [IterNext]_iterVars => [Loop!Next]_(Loop!vars)
  <2> SUFFICES ASSUME IterInv, IterInv', [IterNext]_iterVars
               PROVE  Loop!Next \/ UNCHANGED Loop!vars
    BY DEF Loop!vars
  <2>1. LoopKeys' \subseteq Nat \ {0}
    BY <1>2 DEF KeysPositive
  <2>2. CASE Host
    BY <2>1, <2>2 DEF Host, Loop!Next
  <2>3. ASSUME NEW n \in Names, Pairs(n)
        PROVE  Loop!Begin
    BY <2>3 DEF Pairs, Loop!Begin
  <2>4. ASSUME loop.status = "running", loop' = NoLoop("stopped")
        PROVE  Loop!Stop
    BY <2>4 DEF NoLoop, Loop!Stop
  <2>5. ASSUME loop.status = "running"
        PROVE  /\ loop.over \in DOMAIN types
               /\ loop.at \in {0} \cup FieldNames(loop.over)
               /\ loop.over # Nil
    BY <2>5, Running
  <2>6. ASSUME loop.status = "running", Exhaust
        PROVE  Loop!Finish
    <3>1. \A k \in FieldNames(loop.over) : ~(k > loop.at)
      BY <2>5, <2>6, ExhaustedIsLast DEF Exhaust
    <3> QED
      BY <2>5, <2>6, <3>1 DEF Exhaust, NoLoop, Loop!Finish, Loop!Left, LoopKeys
  <2>7. ASSUME loop.status = "running", NEW p, Following(loop.over, loop.at, p),
               loop' = [loop EXCEPT !.at = List(loop.over)[p].name]
        PROVE  Loop!Visit
    <3> DEFINE k == List(loop.over)[p].name
    <3>1. /\ k \in FieldNames(loop.over)
          /\ k > loop.at
          /\ \A j \in FieldNames(loop.over) : j > loop.at => k <= j
      BY <2>5, <2>7, FollowingIsNext
    <3>2. loop'.at = k /\ loop'.status = loop.status
      BY <2>7, Running
    <3> HIDE DEF k
    <3> QED
      BY <2>5, <2>7, <3>1, <3>2 DEF Loop!Visit, Loop!Left, LoopKeys
  <2>8. CASE Script /\ UNCHANGED vars
    BY <2>1, <2>3, <2>4, <2>6, <2>7, <2>8
       DEF Script, ObjectNext, Deliver, Break, Loop!Next
  <2>9. CASE UNCHANGED iterVars
    BY <2>9 DEF iterVars, Loop!vars, LoopKeys, FieldNames, List
  <2> QED
    BY <2>2, <2>8, <2>9 DEF IterNext
<1> QED
  BY <1>3, <1>4, IterInvariance, PTL DEF IterSpec, LoopIsTraversal, Loop!Spec

=============================================================================
