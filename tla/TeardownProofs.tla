---------------------------- MODULE TeardownProofs ----------------------------
(***************************************************************************)
(* Theorems about what is freed when, for any number of types, objects and *)
(* tables of scripts. They are about the order of finalizers, in terms of  *)
(* which member of a list comes before which.                              *)
(***************************************************************************)
EXTENDS Teardown, QueueProofs

TypeOK ==
  /\ phase \in {"running", "closing", "closed"}
  /\ finobj \in Seq(Things) /\ tobefnz \in Seq(Things)
  /\ finalizing \in Tables \cup {Nil}
  /\ defined \subseteq Types /\ fields \subseteq defined
  /\ type \in [Objects -> Types \cup {Nil}]
  /\ owned \subseteq Objects /\ blocks \subseteq owned
  /\ holds \in [Tables -> SUBSET Objects]
  /\ roots \subseteq Objects \cup Tables /\ revived \subseteq Objects

Listed == Range(finobj) \cup Due

Made == defined \cup {o \in Objects : type[o] # Nil} \cup Tables

\* Only what has been made is used, and has a finalizer; once on the lists.
MadeInv ==
  /\ Listed \cup owned \cup roots \subseteq Made
  /\ \A tb \in Tables : holds[tb] \subseteq Made
  /\ \A o \in Objects : type[o] # Nil => type[o] \in defined
  /\ IsInjective(finobj) /\ IsInjective(tobefnz)
  /\ Range(finobj) \cap Due = {}

IInv == TypeOK /\ MadeInv

-----------------------------------------------------------------------------
(***************************************************************************)
(* What the steps do to the lists.                                         *)
(***************************************************************************)
LEMMA MarkOrder ==
  ASSUME IInv, NEW o \in Things, Mark(o)
  PROVE  /\ finobj' \in Seq(Things) /\ tobefnz' = tobefnz
         /\ Range(finobj') = {o} \cup Range(finobj)
         /\ \A x, y : Before(finobj', x, y) <=> Before(finobj, x, y) \/ (x = o /\ y \in Range(finobj))
         /\ o \notin Range(finobj) => IsInjective(finobj')
<1>1. /\ finobj' \in Seq(Things) /\ tobefnz' = tobefnz
      /\ Range(finobj') = {o} \cup Range(finobj)
      /\ \A x, y : Before(finobj', x, y) <=> Before(finobj, x, y) \/ (x = o /\ y \in Range(finobj))
  BY ConsOrder DEF IInv, TypeOK, Mark
<1>2. ASSUME o \notin Range(finobj) PROVE IsInjective(finobj')
  <2>1. \A x : ~Before(finobj, x, x)
    BY Distinct DEF IInv, TypeOK, MadeInv
  <2> QED
    BY <1>1, <1>2, <2>1, Distinct
<1> QED
  BY <1>1, <1>2

LEMMA CollectOrder ==
  ASSUME IInv, NEW dead, Collect(dead)
  PROVE  /\ finobj' \in Seq(Things) /\ tobefnz' \in Seq(Things)
         /\ Range(finobj') = Range(finobj) \ dead
         /\ Range(tobefnz') = Due \cup (Range(finobj) \cap dead)
         /\ \A x, y : Before(finobj', x, y) <=> Before(finobj, x, y) /\ x \notin dead /\ y \notin dead
         /\ \A x, y : Before(tobefnz', x, y) <=>
              \/ Before(tobefnz, x, y)
              \/ Before(finobj, x, y) /\ x \in dead /\ y \in dead
              \/ x \in Due /\ y \in Range(finobj) \cap dead
         /\ IsInjective(finobj') /\ IsInjective(tobefnz')
<1> DEFINE q == Only(finobj, dead)
<1>1. finobj \in Seq(Things) /\ tobefnz \in Seq(Things)
  BY DEF IInv, TypeOK
<1>2. /\ finobj' \in Seq(Things)
      /\ Range(finobj') = Range(finobj) \ dead
      /\ \A x, y : Before(finobj', x, y) <=> Before(finobj, x, y) /\ x \notin dead /\ y \notin dead
  BY <1>1, WithoutOrder DEF Collect
<1>3. /\ q \in Seq(Things) /\ Range(q) = Range(finobj) \cap dead
      /\ \A x, y : Before(q, x, y) <=> Before(finobj, x, y) /\ x \in dead /\ y \in dead
  BY <1>1, OnlyOrder
<1>4. tobefnz' = tobefnz \o q
  BY DEF Collect
<1>5. /\ tobefnz' \in Seq(Things)
      /\ Range(tobefnz') = Range(tobefnz) \cup Range(q)
      /\ \A x, y : Before(tobefnz', x, y) <=>
           Before(tobefnz, x, y) \/ Before(q, x, y) \/ (x \in Range(tobefnz) /\ y \in Range(q))
  <2> HIDE DEF q
  <2> QED
    BY <1>1, <1>3, <1>4, ConcatOrder
<1>6. (\A x : ~Before(finobj, x, x)) /\ (\A x : ~Before(tobefnz, x, x))
  BY <1>1, Distinct DEF IInv, MadeInv
<1>7. IsInjective(finobj')
  BY <1>2, <1>6, Distinct
<1>8. \A x : ~Before(tobefnz', x, x)
  BY <1>3, <1>5, <1>6 DEF IInv, MadeInv, Due
<1>9. IsInjective(tobefnz')
  BY <1>5, <1>8, Distinct
<1> HIDE DEF q
<1> QED
  BY <1>2, <1>3, <1>5, <1>7, <1>9 DEF Due

LEMMA CloseOrder ==
  ASSUME IInv, Close
  PROVE  /\ finobj' = <<>> /\ Range(finobj') = {} /\ tobefnz' \in Seq(Things)
         /\ Range(tobefnz') = Listed
         /\ \A x, y : Before(tobefnz', x, y) <=>
              Before(tobefnz, x, y) \/ Before(finobj, x, y) \/ (x \in Due /\ y \in Range(finobj))
         /\ \A x, y : ~Before(finobj', x, y)
         /\ finobj' \in Seq(Things) /\ IsInjective(finobj') /\ IsInjective(tobefnz')
<1>1. finobj \in Seq(Things) /\ tobefnz \in Seq(Things)
  BY DEF IInv, TypeOK
<1>2. finobj' = <<>> /\ Range(finobj') = {} /\ finobj' \in Seq(Things) /\ IsInjective(finobj')
  BY DEF Close, Range, IsInjective
<1>3. tobefnz' = tobefnz \o finobj
  BY DEF Close, CloseQueue
<1>4. /\ tobefnz' \in Seq(Things)
      /\ Range(tobefnz') = Range(tobefnz) \cup Range(finobj)
      /\ \A x, y : Before(tobefnz', x, y) <=>
           Before(tobefnz, x, y) \/ Before(finobj, x, y) \/ (x \in Range(tobefnz) /\ y \in Range(finobj))
  BY <1>1, <1>3, ConcatOrder
<1>5. (\A x : ~Before(finobj, x, x)) /\ (\A x : ~Before(tobefnz, x, x))
  BY <1>1, Distinct DEF IInv, MadeInv
<1>6. \A x : ~Before(tobefnz', x, x)
  BY <1>4, <1>5 DEF IInv, MadeInv, Due
<1>7. IsInjective(tobefnz')
  BY <1>4, <1>6, Distinct
<1>8. \A x, y : ~Before(finobj', x, y)
  BY <1>2 DEF Before
<1> QED
  BY <1>2, <1>4, <1>7, <1>8 DEF Listed, Due

LEMMA DequeueOrder ==
  ASSUME IInv, tobefnz # <<>>, Dequeue
  PROVE  /\ tobefnz[1] \in Due /\ tobefnz[1] \in Things
         /\ finobj' = finobj /\ tobefnz' \in Seq(Things)
         /\ Range(tobefnz') = Due \ {tobefnz[1]}
         /\ \A x, y : Before(tobefnz', x, y) => Before(tobefnz, x, y)
         /\ \A y \in Range(tobefnz') : Before(tobefnz, tobefnz[1], y)
         /\ IsInjective(tobefnz')
<1>1. tobefnz \in Seq(Things) /\ tobefnz' = Tail(tobefnz) /\ finobj' = finobj
  BY DEF IInv, TypeOK, Dequeue
<1>2. /\ tobefnz[1] \in Things /\ tobefnz[1] \in Range(tobefnz)
      /\ tobefnz' \in Seq(Things)
      /\ Range(tobefnz) = {tobefnz[1]} \cup Range(tobefnz')
      /\ \A x, y : Before(tobefnz, x, y) <=>
           Before(tobefnz', x, y) \/ (x = tobefnz[1] /\ y \in Range(tobefnz'))
  BY <1>1, TailOrder
<1>3. \A x : ~Before(tobefnz, x, x)
  BY <1>1, Distinct DEF IInv, MadeInv
<1>4. tobefnz[1] \notin Range(tobefnz')
  BY <1>2, <1>3
<1>5. IsInjective(tobefnz')
  BY <1>2, <1>3, Distinct
<1> QED
  BY <1>1, <1>2, <1>4, <1>5 DEF Due

-----------------------------------------------------------------------------
(***************************************************************************)
(* Types, and what is made before it is used.                              *)
(***************************************************************************)
LEMMA InitInv == Init => IInv
<1> SUFFICES ASSUME Init PROVE IInv
  OBVIOUS
<1>1. Range(<<>>) = {} /\ IsInjective(<<>>) /\ <<>> \in Seq(Things)
  BY DEF Range, IsInjective
<1> QED
  BY <1>1 DEF Init, IInv, TypeOK, MadeInv, Made, Listed, Due

LEMMA NewStructInv ==
  ASSUME IInv, NEW t \in Types, NewStruct(t)
  PROVE  IInv'
<1>1. Mark(t) /\ t \in Things
  BY DEF NewStruct, MarkStruct, Things
<1>2. t \notin Listed
  BY TeardownAssumption DEF IInv, MadeInv, NewStruct, Made, TypeOK
<1>3. TypeOK'
  BY <1>1, MarkOrder DEF NewStruct, IInv, TypeOK
<1>4. MadeInv'
  BY <1>1, <1>2, MarkOrder DEF NewStruct, IInv, TypeOK, MadeInv, Made, Listed, Due
<1> QED
  BY <1>3, <1>4 DEF IInv

LEMMA NewObjectInv ==
  ASSUME IInv, NEW o \in Objects, NEW t \in Types, NEW own \in BOOLEAN, NewObject(o, t, own)
  PROVE  IInv' /\ o \notin Listed /\ o \notin owned \cup roots
         /\ \A tb \in Tables : o \notin holds[tb]
<1>1. Mark(o) /\ o \in Things
  BY DEF NewObject, Things
<1>2. o \notin Made
  BY TeardownAssumption DEF NewObject, Made, IInv, TypeOK
<1>3. o \notin Listed /\ o \notin owned \cup roots /\ \A tb \in Tables : o \notin holds[tb]
  BY <1>2 DEF IInv, MadeInv
<1>4. TypeOK'
  BY <1>1, MarkOrder DEF NewObject, IInv, TypeOK
<1>5. Made' = Made \cup {o}
  BY TeardownAssumption DEF NewObject, IInv, TypeOK, Made
<1>6. MadeInv'
  <2>1. (Listed \cup owned \cup roots)' \subseteq Made'
    BY <1>1, <1>5, MarkOrder DEF NewObject, IInv, MadeInv, Listed, Due
  <2>2. \A p \in Objects : type'[p] # Nil => type'[p] \in defined'
    BY DEF NewObject, IInv, TypeOK, MadeInv
  <2>3. \A tb \in Tables : holds'[tb] \subseteq Made'
    BY <1>5 DEF NewObject, IInv, MadeInv
  <2> QED
    BY <1>1, <1>3, <2>1, <2>2, <2>3, MarkOrder DEF IInv, MadeInv, Listed, Due
<1> QED
  BY <1>3, <1>4, <1>6 DEF IInv

LEMMA StoreInv ==
  ASSUME IInv, NEW tb \in Tables, NEW o \in Objects, Store(tb, o)
  PROVE  IInv'
<1>1. o \in Made
  BY DEF Store, IInv, MadeInv
<1> QED
  BY <1>1 DEF Store, IInv, TypeOK, MadeInv, Made, Listed, Due, lists, memory

LEMMA SetGCInv ==
  ASSUME IInv, NEW tb \in Tables, SetGC(tb)
  PROVE  IInv'
<1>1. Mark(tb) /\ tb \in Things /\ tb \notin Listed
  BY DEF SetGC, Things, Marked, Listed
<1> QED
  BY <1>1, MarkOrder DEF SetGC, IInv, TypeOK, MadeInv, Made, Listed, Due, memory

LEMMA CollectInv ==
  ASSUME IInv, NEW dead, Collect(dead)
  PROVE  IInv'
<1>1. UNCHANGED <<phase, finalizing, memory, holds, roots, revived>>
  BY DEF Collect
<1>2. TypeOK'
  BY <1>1, CollectOrder DEF IInv, TypeOK, memory
<1>3. Listed' = Listed /\ Range(finobj') \cap Range(tobefnz') = {}
  BY CollectOrder DEF IInv, MadeInv, Listed, Due
<1>4. MadeInv'
  BY <1>1, <1>3, CollectOrder DEF IInv, MadeInv, Made, Due, memory
<1> QED
  BY <1>2, <1>4 DEF IInv

LEMMA CloseInv == ASSUME IInv, Close PROVE IInv'
BY CloseOrder DEF Close, IInv, TypeOK, MadeInv, Made, Listed, Due, memory

LEMMA CallFinalizerInv == ASSUME IInv, CallFinalizer PROVE IInv'
<1>1. tobefnz # <<>> /\ Dequeue
  BY DEF CallFinalizer
<1>2. TypeOK'
  BY <1>1, DequeueOrder DEF CallFinalizer, FreeBlock, IInv, TypeOK
<1>3. MadeInv'
  BY <1>1, DequeueOrder DEF CallFinalizer, IInv, MadeInv, Made, Listed, Due
<1> QED
  BY <1>2, <1>3 DEF IInv

LEMMA ClosedInv == ASSUME IInv, Closed PROVE IInv'
<1>1. Range(<<>>) = {} /\ IsInjective(<<>>) /\ <<>> \in Seq(Things)
  BY DEF Range, IsInjective
<1>2. TypeOK'
  BY <1>1 DEF Closed, IInv, TypeOK, memory
<1>3. Made' = Made /\ Listed' = Due
  BY <1>1 DEF Closed, Made, Listed, Due, memory
<1>4. MadeInv'
  BY <1>1, <1>3 DEF Closed, IInv, MadeInv, Listed, Due, memory
<1> QED
  BY <1>2, <1>4 DEF IInv

LEMMA NextInv == IInv /\ [Next]_vars => IInv'
<1> SUFFICES ASSUME IInv, [Next]_vars PROVE IInv'
  OBVIOUS
<1>1. ASSUME NEW x, Forget(x) PROVE IInv'
  BY <1>1 DEF Forget, IInv, TypeOK, MadeInv, Made, Listed, Due, lists, memory
<1>4. ASSUME NEW x, Revive(x) PROVE IInv'
  <2>1. x \in (Objects \cup Tables) \cap Made
    BY <1>4 DEF Revive, Reach, HeldBy, IInv, TypeOK, MadeInv, Made
  <2> QED
    BY <1>4, <2>1 DEF Revive, IInv, TypeOK, MadeInv, Made, Listed, Due, lists, memory
<1>2. CASE Return
  BY <1>2 DEF Return, IInv, TypeOK, MadeInv, Made, Listed, Due, lists, memory
<1>3. CASE UNCHANGED vars
  BY <1>3 DEF vars, IInv, TypeOK, MadeInv, Made, Listed, Due, lists, memory
<1> QED
  BY <1>1, <1>2, <1>3, <1>4, NewStructInv, NewObjectInv, StoreInv, SetGCInv, CollectInv, CloseInv,
     CallFinalizerInv, ClosedInv DEF Next, Program, Finalizers

LEMMA Invariance == Spec => []IInv
BY InitInv, NextInv, PTL DEF Spec

-----------------------------------------------------------------------------
(***************************************************************************)
(* FreedOnce. What still has its memory is what is on a list, and while    *)
(* lua_close runs nothing with memory is left for later.                   *)
(***************************************************************************)
MemoryInv ==
  /\ Listed \cap Types = fields
  /\ Listed \cap owned = blocks
  /\ phase # "running" => Range(finobj) \cap (Types \cup owned) = {}
  /\ phase = "closed" => Listed = {} /\ finalizing = Nil

LEMMA MemoryMeansOnce == IInv /\ MemoryInv => FreedOnce
<1> SUFFICES ASSUME IInv, MemoryInv PROVE FreedOnce
  OBVIOUS
<1>1. finobj \in Seq(Things) /\ tobefnz \in Seq(Things)
  BY DEF IInv, TypeOK
<1>2. (\A x : ~Before(finobj, x, x)) /\ (\A x : ~Before(tobefnz, x, x))
  BY <1>1, Distinct DEF IInv, MadeInv
<1>3. /\ finobj \o tobefnz \in Seq(Things)
      /\ \A x : ~Before(finobj \o tobefnz, x, x)
  BY <1>1, <1>2, ConcatOrder DEF IInv, MadeInv, Due
<1>4. IsInjective(finobj \o tobefnz)
  BY <1>3, Distinct
<1> QED
  BY <1>4 DEF MemoryInv, FreedOnce, Listed

LEMMA MemoryStep == ASSUME ~HostAtClose PROVE IInv /\ MemoryInv /\ [Next]_vars => MemoryInv'
<1> SUFFICES ASSUME IInv, MemoryInv, [Next]_vars PROVE MemoryInv'
  OBVIOUS
<1> USE TeardownAssumption
<1>1. ASSUME NEW t \in Types, NewStruct(t) PROVE MemoryInv'
  <2>1. Mark(t) /\ t \in Things
    BY <1>1 DEF NewStruct, MarkStruct, Things
  <2>2. Listed' = Listed \cup {t}
    BY <2>1, MarkOrder DEF Listed, Due
  <2>3. phase = "running" /\ phase' = "running"
    BY <1>1 DEF NewStruct, HostRuns
  <2> QED
    BY <1>1, <2>2, <2>3 DEF NewStruct, MemoryInv, IInv, TypeOK
<1>2. ASSUME NEW o \in Objects, NEW t \in Types, NEW own \in BOOLEAN, NewObject(o, t, own)
      PROVE  MemoryInv'
  <2>1. Mark(o) /\ o \in Things
    BY <1>2 DEF NewObject, Things
  <2>2. /\ Listed' = Listed \cup {o} /\ Range(finobj') = Range(finobj) \cup {o}
        /\ phase' = phase /\ finalizing' = finalizing /\ fields' = fields
    BY <1>2, <2>1, MarkOrder DEF Listed, Due, NewObject
  <2>3. /\ own => phase = "running"
        /\ owned' = IF own THEN owned \cup {o} ELSE owned
        /\ blocks' = IF own THEN blocks \cup {o} ELSE blocks
    BY <1>2 DEF NewObject, HostRuns
  <2>4. o \notin owned /\ o \notin Types
    BY <1>2, NewObjectInv
  <2>5. phase # "closed"
    BY <1>2 DEF NewObject, HostRuns, Running, MemoryInv
  <2> QED
    BY <2>2, <2>3, <2>4, <2>5 DEF MemoryInv
<1>3. ASSUME NEW tb \in Tables, SetGC(tb) PROVE MemoryInv'
  <2>1. Mark(tb) /\ tb \in Things
    BY <1>3 DEF SetGC, Things
  <2>2. Listed' = Listed \cup {tb} /\ Range(finobj') = Range(finobj) \cup {tb}
    BY <2>1, MarkOrder DEF Listed, Due
  <2>3. tb \notin Types \cup owned /\ phase # "closed"
    BY <1>3 DEF IInv, TypeOK, SetGC, Running, MemoryInv
  <2> QED
    BY <1>3, <2>2, <2>3 DEF SetGC, memory, MemoryInv
<1>4. ASSUME NEW dead, Collect(dead) PROVE MemoryInv'
  BY <1>4, CollectOrder DEF Collect, MemoryInv, Listed, Due, memory
<1>5. CASE Close
  BY <1>5, CloseOrder DEF Close, MemoryInv, Listed, Due, memory
<1>6. CASE CallFinalizer
  <2> DEFINE o == tobefnz[1]
  <2>1. tobefnz # <<>> /\ Dequeue
    BY <1>6 DEF CallFinalizer
  <2>2. o \in Due /\ Listed' = Listed \ {o} /\ finobj' = finobj
    BY <2>1, DequeueOrder DEF Listed, Due, IInv, MadeInv
  <2>3. phase # "closed"
    BY <2>2 DEF MemoryInv, Listed
  <2>4. \/ o \in Types /\ fields' = fields \ {o} /\ blocks' = blocks
        \/ o \in Objects /\ blocks' = blocks \ {o} /\ fields' = fields
        \/ o \in Tables /\ fields' = fields /\ blocks' = blocks
    BY <1>6 DEF CallFinalizer, FreeBlock
  <2>5. owned' = owned /\ phase' = phase /\ owned \subseteq Objects
    BY <1>6 DEF CallFinalizer, IInv, TypeOK
  <2> HIDE DEF o
  <2> QED
    BY <2>2, <2>3, <2>4, <2>5 DEF MemoryInv
<1>7. CASE Closed
  <2>1. Range(tobefnz) = {} /\ finobj' = <<>> /\ Range(<<>>) = {} /\ tobefnz' = tobefnz
    BY <1>7 DEF Closed, Range
  <2>2. Listed \cap (Types \cup owned) = {} /\ Listed' = {}
    BY <1>7, <2>1 DEF Closed, MemoryInv, Listed, Due
  <2> QED
    BY <1>7, <2>1, <2>2 DEF Closed, MemoryInv, memory
<1>8. ASSUME NEW tb \in Tables, NEW o \in Objects, Store(tb, o) PROVE MemoryInv'
  BY <1>8 DEF Store, MemoryInv, Listed, Due, lists, memory
<1>9. ASSUME NEW x, Forget(x) PROVE MemoryInv'
  BY <1>9 DEF Forget, MemoryInv, Listed, Due, lists, memory
<1>10. CASE Return
  BY <1>10 DEF Return, MemoryInv, Listed, Due, lists, memory
<1>11. CASE UNCHANGED vars
  BY <1>11 DEF vars, MemoryInv, Listed, Due, lists, memory
<1>12. ASSUME NEW x, Revive(x) PROVE MemoryInv'
  BY <1>12 DEF Revive, MemoryInv, Listed, Due, lists, memory
<1> QED
  BY <1>1, <1>2, <1>3, <1>4, <1>5, <1>6, <1>7, <1>8, <1>9, <1>10, <1>11, <1>12 DEF Next, Program, Finalizers

\* Everything luastruct allocates is freed exactly once, if the host makes
\* nothing while lua_close runs: whatever is on one of Lua's lists of finalizers
\* has its memory and is there once, and all is gone at the end.
THEOREM FreedExactlyOnce ==
  ASSUME ~HostAtClose
  PROVE  Spec => []FreedOnce
<1>1. Init => MemoryInv
  <2>1. Range(<<>>) = {}
    BY DEF Range
  <2> QED
    BY <2>1 DEF Init, MemoryInv, Listed, Due
<1> QED
  BY <1>1, Invariance, MemoryStep, MemoryMeansOnce, PTL DEF Spec

-----------------------------------------------------------------------------
(***************************************************************************)
(* FieldsAlive. A cycle of the collector does not find types. When they    *)
(* are older than the finalizers of scripts, lua_close comes to them last. *)
(***************************************************************************)
TypesLast ==
  /\ phase = "running" => fields = defined /\ Due \cap Types = {}
  /\ phase # "running" => (finalizing # Nil \/ Due \cap Tables # {} => fields = defined)
  /\ \A t \in Types, tb \in Tables : ~Before(finobj, t, tb) /\ ~Before(tobefnz, t, tb)

LEMMA TypesLastStep ==
  ASSUME TypesFirst, ~HostAtClose
  PROVE  IInv /\ TypesLast /\ [Next]_vars => TypesLast'
<1> SUFFICES ASSUME IInv, TypesLast, [Next]_vars PROVE TypesLast'
  OBVIOUS
<1> USE TeardownAssumption
<1>1. ASSUME NEW t \in Types, NewStruct(t) PROVE TypesLast'
  <2>1. Mark(t) /\ t \in Things
    BY <1>1 DEF NewStruct, MarkStruct, Things
  <2>2. phase = "running" /\ \A tb \in Tables : tb \notin Range(finobj)
    BY <1>1 DEF NewStruct, HostRuns, Marked
  <2> QED
    BY <1>1, <2>1, <2>2, MarkOrder DEF NewStruct, TypesLast, Due
<1>2. ASSUME NEW o \in Objects, NEW t \in Types, NEW own \in BOOLEAN, NewObject(o, t, own)
      PROVE  TypesLast'
  <2>1. Mark(o) /\ o \in Things
    BY <1>2 DEF NewObject, Things
  <2> QED
    BY <1>2, <2>1, MarkOrder DEF NewObject, TypesLast, Due
<1>3. ASSUME NEW tb \in Tables, SetGC(tb) PROVE TypesLast'
  <2>1. Mark(tb) /\ tb \in Things
    BY <1>3 DEF SetGC, Things
  <2> QED
    BY <1>3, <2>1, MarkOrder DEF SetGC, memory, TypesLast, Due
<1>4. ASSUME NEW dead, Collect(dead) PROVE TypesLast'
  <2>1. dead \cap Types = {} /\ phase = "running"
    BY <1>4 DEF Collect, Reachable
  <2> QED
    BY <1>4, <2>1, CollectOrder DEF Collect, TypesLast, Due, memory
<1>5. CASE Close
  BY <1>5, CloseOrder DEF Close, TypesLast, Due, memory
<1>6. CASE CallFinalizer
  <2> DEFINE o == tobefnz[1]
  <2>1. tobefnz # <<>> /\ Dequeue
    BY <1>6 DEF CallFinalizer
  <2>2. /\ o \in Due /\ Due' = Due \ {o} /\ finobj' = finobj
        /\ \A x, y : Before(tobefnz', x, y) => Before(tobefnz, x, y)
        /\ \A y \in Due' : Before(tobefnz, o, y)
    BY <2>1, DequeueOrder DEF Due
  <2>3. \/ o \in Types /\ finalizing' = finalizing
        \/ o \in Objects /\ fields' = fields /\ finalizing' = finalizing
        \/ o \in Tables /\ fields' = fields
    BY <1>6 DEF CallFinalizer
  <2>4. finalizing = Nil /\ phase' = phase /\ defined' = defined
    BY <1>6 DEF CallFinalizer
  <2> HIDE DEF o
  <2>5. o \in Types => Due' \cap Tables = {}
    BY <2>2 DEF TypesLast
  <2> QED
    BY <2>2, <2>3, <2>4, <2>5 DEF TypesLast
<1>7. CASE Closed
  <2>1. Range(<<>>) = {} /\ \A x, y : ~Before(<<>>, x, y)
    BY DEF Range, Before
  <2> QED
    BY <1>7, <2>1 DEF Closed, TypesLast, Due, memory
<1>8. ASSUME NEW tb \in Tables, NEW o \in Objects, Store(tb, o) PROVE TypesLast'
  BY <1>8 DEF Store, TypesLast, Due, lists, memory
<1>9. ASSUME NEW x, Forget(x) PROVE TypesLast'
  BY <1>9 DEF Forget, TypesLast, Due, lists, memory
<1>10. CASE Return
  BY <1>10 DEF Return, TypesLast, Due, lists, memory
<1>11. CASE UNCHANGED vars
  BY <1>11 DEF vars, TypesLast, Due, lists, memory
<1>12. ASSUME NEW x, Revive(x) PROVE TypesLast'
  BY <1>12 DEF Revive, TypesLast, Due, lists, memory
<1> QED
  BY <1>1, <1>2, <1>3, <1>4, <1>5, <1>6, <1>7, <1>8, <1>9, <1>10, <1>11, <1>12 DEF Next, Program, Finalizers

\* Whenever scripts run, in finalizers too, the fields of the type of every
\* object are allocated, if the host defines its types before scripts set
\* finalizers and not in lua_close.
THEOREM FieldsStay ==
  ASSUME TypesFirst, ~HostAtClose
  PROVE  Spec => []FieldsAlive
<1>1. Init => TypesLast
  <2>1. Range(<<>>) = {} /\ \A x, y : ~Before(<<>>, x, y)
    BY DEF Range, Before
  <2> QED
    BY <2>1 DEF Init, TypesLast, Due
<1>2. IInv /\ TypesLast => FieldsAlive
  BY DEF IInv, TypeOK, MadeInv, TypesLast, FieldsAlive, Running
<1> QED
  BY <1>1, <1>2, Invariance, TypesLastStep, PTL DEF Spec

-----------------------------------------------------------------------------
(***************************************************************************)
(* DataAlive. What is due or freed is out of reach of the variables of     *)
(* scripts unless it is revived, and a table with a finalizer gets it      *)
(* before the data of what the table holds is freed.                       *)
(***************************************************************************)
Gone == (Due \cap Objects) \cup (owned \ blocks)

DataInv ==
  /\ phase = "running" => Gone \cap Reach(roots) \subseteq revived
  /\ phase = "running" =>
       \A tb \in Range(finobj) \cap Tables : \A o \in (holds[tb] \cap owned) \ revived :
         o \in blocks \ Due /\ ~Before(finobj, o, tb)
  /\ \A tb \in Due \cap Tables : \A o \in (holds[tb] \cap owned) \ revived :
       o \in blocks /\ ~Before(tobefnz, o, tb)
  /\ finalizing # Nil => holds[finalizing] \cap owned \subseteq blocks \cup revived

LEMMA DataStep == ASSUME HeldBefore PROVE IInv /\ DataInv /\ [Next]_vars => DataInv'
<1> SUFFICES ASSUME IInv, DataInv, [Next]_vars PROVE DataInv'
  OBVIOUS
<1> USE TeardownAssumption
<1>0. ASSUME NEW tb \in Tables, tb \in roots PROVE holds[tb] \subseteq Reach(roots)
  BY <1>0 DEF Reach, HeldBy
<1>1. ASSUME NEW t \in Types, NewStruct(t) PROVE DataInv'
  <2>1. Mark(t) /\ t \in Things
    BY <1>1 DEF NewStruct, MarkStruct, Things
  <2>2. UNCHANGED <<phase, finalizing, owned, blocks, holds, roots, revived>> /\ t \notin Objects \cup Tables
    BY <1>1 DEF NewStruct
  <2>3. Reach(roots)' = Reach(roots) /\ Gone' = Gone
    BY <2>1, <2>2, MarkOrder DEF Reach, HeldBy, Gone, Due
  <2> QED
    BY <2>1, <2>2, <2>3, MarkOrder DEF DataInv, Due, IInv, TypeOK
<1>2. ASSUME NEW o \in Objects, NEW t \in Types, NEW own \in BOOLEAN, NewObject(o, t, own)
      PROVE  DataInv'
  <2>1. Mark(o) /\ o \in Things
    BY <1>2 DEF NewObject, Things
  <2>2. /\ UNCHANGED <<phase, finalizing, holds, revived>> /\ roots' = roots \cup {o}
        /\ owned' = IF own THEN owned \cup {o} ELSE owned
        /\ blocks' = IF own THEN blocks \cup {o} ELSE blocks
    BY <1>2 DEF NewObject
  <2>3. o \notin Listed /\ o \notin owned \cup roots /\ \A tb \in Tables : o \notin holds[tb]
    BY <1>2, NewObjectInv
  <2>4. Reach(roots)' = Reach(roots) \cup {o} /\ Gone' = Gone /\ o \notin Gone /\ Due' = Due
    BY <2>1, <2>2, <2>3, MarkOrder DEF Reach, HeldBy, Gone, Due, Listed
  <2>5. \A tb \in Tables : holds[tb] \cap owned' = holds[tb] \cap owned
    BY <2>2, <2>3
  <2>6. Range(finobj') \cap Tables = Range(finobj) \cap Tables
    BY <2>1, MarkOrder
  <2>7. blocks \subseteq blocks'
    BY <2>2
  <2>8. ASSUME NEW tb \in Range(finobj) \cap Tables, NEW p \in (holds[tb] \cap owned) \ revived
        PROVE  Before(finobj', p, tb) => Before(finobj, p, tb)
    BY <2>1, <2>3, MarkOrder
  <2>9. finalizing # Nil => holds[finalizing] \cap owned' \subseteq blocks' \cup revived
    BY <2>5, <2>7 DEF DataInv, IInv, TypeOK
  <2>10. tobefnz' = tobefnz
    BY <2>1, MarkOrder
  <2> QED
    BY <2>2, <2>4, <2>5, <2>6, <2>7, <2>8, <2>9, <2>10 DEF DataInv
<1>3. ASSUME NEW tb \in Tables, SetGC(tb) PROVE DataInv'
  <2>1. Mark(tb) /\ tb \in Things /\ tb \in roots
    BY <1>3 DEF SetGC, Things
  <2>2. UNCHANGED <<phase, finalizing, owned, blocks, holds, roots, revived>> /\ tb \notin Objects
    BY <1>3 DEF SetGC, memory
  <2>3. Reach(roots)' = Reach(roots) /\ Gone' = Gone /\ Due' = Due
    BY <2>1, <2>2, MarkOrder DEF Reach, HeldBy, Gone, Due
  <2>4. phase = "running" => \A o \in (holds[tb] \cap owned) \ revived : o \in blocks \ Due
    BY <2>1, <1>0 DEF DataInv, Gone, IInv, TypeOK
  <2>5. \A o \in holds[tb] : ~Before(finobj, o, tb)
    <3>1. tb \notin Range(finobj)
      BY <1>3 DEF SetGC, Marked
    <3> QED
      BY <3>1, BeforeInRange DEF IInv, TypeOK
  <2>6. tb \notin holds[tb]
    BY <2>2 DEF IInv, TypeOK
  <2> QED
    BY <2>1, <2>2, <2>3, <2>4, <2>5, <2>6, MarkOrder DEF DataInv, IInv, TypeOK
<1>4. ASSUME NEW dead, Collect(dead) PROVE DataInv'
  <2>1. UNCHANGED <<phase, finalizing, owned, blocks, holds, roots, revived>>
    BY <1>4 DEF Collect, memory
  <2>2. /\ phase = "running" /\ finalizing = Nil /\ dead \cap Reach(roots) = {}
        /\ \A tb \in Range(finobj) \cap Tables : tb \in dead \/ holds[tb] \cap dead = {}
    BY <1>4 DEF Collect, Reachable, Reach, HeldBy
  <2>3. Reach(roots)' = Reach(roots) /\ Gone' \subseteq Gone \cup dead
    BY <1>4, <2>1, CollectOrder DEF Reach, HeldBy, Gone, Due
  <2>4. ASSUME NEW tb \in Range(finobj') \cap Tables, NEW o \in (holds[tb] \cap owned) \ revived
        PROVE  o \in blocks \ Due' /\ ~Before(finobj', o, tb)
    BY <1>4, <2>2, CollectOrder DEF DataInv, Due
  <2>5. ASSUME NEW tb \in Due' \cap Tables, NEW o \in (holds[tb] \cap owned) \ revived
        PROVE  o \in blocks /\ ~Before(tobefnz', o, tb)
    <3>1. \A x, y : Before(tobefnz, x, y) => y \in Due
      BY BeforeInRange DEF IInv, TypeOK, Due
    <3>2. \A x, y : Before(finobj, x, y) => y \in Range(finobj)
      BY BeforeInRange DEF IInv, TypeOK
    <3>3. CASE tb \in Due
      BY <1>4, <2>2, <3>1, <3>2, <3>3, CollectOrder DEF DataInv, IInv, MadeInv
    <3>4. CASE tb \notin Due
      BY <1>4, <2>2, <2>5, <3>1, <3>2, <3>4, CollectOrder DEF DataInv, Due
    <3> QED
      BY <3>3, <3>4
  <2> QED
    BY <2>1, <2>2, <2>3, <2>4, <2>5 DEF DataInv
<1>5. CASE Close
  <2>1. /\ UNCHANGED <<finalizing, owned, blocks, holds, roots, revived>>
        /\ phase = "running" /\ phase' # "running" /\ finalizing = Nil
    BY <1>5 DEF Close, memory
  <2>2. ASSUME NEW tb \in Due' \cap Tables, NEW o \in (holds[tb] \cap owned) \ revived
        PROVE  o \in blocks /\ ~Before(tobefnz', o, tb)
    <3>1. \A x, y : Before(tobefnz, x, y) => x \in Due /\ y \in Due
      BY BeforeInRange DEF IInv, TypeOK, Due
    <3>2. \A x, y : Before(finobj, x, y) => x \in Range(finobj) /\ y \in Range(finobj)
      BY BeforeInRange DEF IInv, TypeOK
    <3>3. CASE tb \in Due
      BY <1>5, <2>1, <3>1, <3>2, <3>3, CloseOrder DEF DataInv, IInv, MadeInv
    <3>4. CASE tb \in Range(finobj)
      BY <1>5, <2>1, <3>1, <3>2, <3>4, CloseOrder DEF DataInv, IInv, MadeInv
    <3> QED
      BY <1>5, <3>3, <3>4, CloseOrder DEF Due, Listed
  <2> QED
    BY <2>1, <2>2 DEF DataInv
<1>6. CASE CallFinalizer
  <2> DEFINE h == tobefnz[1]
  <2>1. tobefnz # <<>> /\ Dequeue
    BY <1>6 DEF CallFinalizer
  <2>2. /\ h \in Due /\ Due' = Due \ {h} /\ finobj' = finobj
        /\ \A x, y : Before(tobefnz', x, y) => Before(tobefnz, x, y)
        /\ \A y \in Due' : Before(tobefnz, h, y)
    BY <2>1, DequeueOrder DEF Due
  <2>3. \/ h \in Types /\ blocks' = blocks /\ finalizing' = finalizing
        \/ h \in Objects /\ blocks' = blocks \ {h} /\ finalizing' = finalizing
        \/ h \in Tables /\ blocks' = blocks /\ finalizing' = h
    BY <1>6 DEF CallFinalizer, FreeBlock
  <2>4. UNCHANGED <<phase, owned, holds, roots, revived>> /\ finalizing = Nil
    BY <1>6 DEF CallFinalizer
  <2> HIDE DEF h
  <2>5. Reach(roots)' = Reach(roots) /\ Gone' \subseteq Gone
    BY <2>2, <2>3, <2>4 DEF Reach, HeldBy, Gone
  <2>6. ASSUME NEW tb \in Due' \cap Tables, NEW o \in (holds[tb] \cap owned) \ revived
        PROVE  o \in blocks' /\ ~Before(tobefnz', o, tb)
    BY <2>2, <2>3 DEF DataInv
  <2>7. ASSUME phase = "running", NEW tb \in Range(finobj) \cap Tables, NEW o \in (holds[tb] \cap owned) \ revived
        PROVE  o \in blocks' \ Due' /\ ~Before(finobj, o, tb)
    BY <2>2, <2>3, <2>7 DEF DataInv
  <2>8. finalizing' # Nil => holds[finalizing'] \cap owned \subseteq blocks' \cup revived
    BY <2>2, <2>3, <2>4 DEF DataInv
  <2> QED
    BY <2>2, <2>4, <2>5, <2>6, <2>7, <2>8 DEF DataInv
<1>7. CASE Closed
  <2>1. finobj' = <<>> /\ UNCHANGED <<tobefnz, finalizing, owned, blocks, holds, revived>> /\ phase' = "closed"
    BY <1>7 DEF Closed, memory
  <2> QED
    BY <2>1 DEF DataInv, Due
<1>8. ASSUME NEW tb \in Tables, NEW o \in Objects, Store(tb, o) PROVE DataInv'
  <2>1. /\ UNCHANGED <<phase, finobj, tobefnz, finalizing, owned, blocks, roots, revived>>
        /\ holds' = [holds EXCEPT ![tb] = @ \cup {o}]
        /\ phase = "running" /\ tb \notin Listed /\ o \in roots /\ tb \in roots
    BY <1>8 DEF Store, lists, memory, Marked, Listed
  <2>2. \A x \in Tables : holds'[x] = IF x = tb THEN holds[tb] \cup {o} ELSE holds[x]
    BY <2>1 DEF IInv, TypeOK
  <2>3. Reach(roots)' = Reach(roots) /\ Gone' = Gone /\ Due' = Due
    BY <2>1, <2>2 DEF Reach, HeldBy, Gone, Due
  <2>4. o \in owned \ revived => o \in blocks
    BY <2>1 DEF DataInv, Gone, Reach
  <2> QED
    BY <2>1, <2>2, <2>3, <2>4 DEF DataInv, Listed, IInv, TypeOK
<1>9. ASSUME NEW x, Forget(x) PROVE DataInv'
  <2>1. UNCHANGED <<phase, lists, finalizing, memory, holds, revived>> /\ roots' \subseteq roots
    BY <1>9 DEF Forget
  <2>2. Reach(roots)' \subseteq Reach(roots)
    BY <2>1 DEF Reach, HeldBy
  <2> QED
    BY <2>1, <2>2 DEF DataInv, Gone, Due, lists, memory
<1>10. CASE Return
  BY <1>10 DEF Return, DataInv, Gone, Reach, HeldBy, Due, lists, memory
<1>11. CASE UNCHANGED vars
  BY <1>11 DEF vars, DataInv, Gone, Reach, HeldBy, Due, lists, memory
<1>12. ASSUME NEW x, Revive(x) PROVE DataInv'
  <2>1. /\ UNCHANGED <<phase, finobj, tobefnz, finalizing, owned, blocks, holds>>
        /\ roots' = roots \cup {x} /\ revived' = revived \cup (Reach({x}) \cap Objects \cap Due)
        /\ finalizing # Nil /\ x \in Reach({finalizing})
    BY <1>12 DEF Revive, lists, memory
  <2>2. Reach(roots)' = Reach(roots) \cup Reach({x}) /\ Gone' = Gone /\ Due' = Due
    BY <2>1 DEF Reach, HeldBy, Gone, Due
  <2>3. Reach({x}) \cap owned \subseteq blocks \cup revived
    BY <2>1 DEF DataInv, Reach, HeldBy, IInv, TypeOK
  <2>4. Gone \cap Reach({x}) \subseteq revived'
    BY <2>1, <2>3 DEF Gone
  <2> QED
    BY <2>1, <2>2, <2>4 DEF DataInv
<1> QED
  BY <1>1, <1>2, <1>3, <1>4, <1>5, <1>6, <1>7, <1>8, <1>9, <1>10, <1>11, <1>12 DEF Next, Program, Finalizers

\* Of the objects whose data is freed, a script finds only those that a finalizer
\* has brought back when their own __gc was due: no other by its variables, nor,
\* in a finalizer, by the table that is finalized, in a cycle or in lua_close, if
\* tables get their objects before they get a finalizer.
THEOREM DataStays ==
  ASSUME HeldBefore
  PROVE  Spec => []DataAlive
<1>1. Init => DataInv
  <2>1. Range(<<>>) = {}
    BY DEF Range
  <2> QED
    BY <2>1 DEF Init, DataInv, Gone, Due
<1>2. DataInv => DataAlive
  BY DEF DataInv, DataAlive, Gone
<1> QED
  BY <1>1, <1>2, Invariance, DataStep, PTL DEF Spec
=============================================================================
