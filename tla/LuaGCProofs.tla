----------------------------- MODULE LuaGCProofs -----------------------------
(***************************************************************************)
(* What is proved of Lua's collector, for any number of objects.           *)
(***************************************************************************)
EXTENDS LuaGC, QueueProofs

\* What comes after at, the part of a list that a sweep has still to do.
Behind(l, list, at) ==
  IF at = Nil THEN {}
  ELSE IF at = Header THEN Range(l[list])
  ELSE {o \in Range(l[list]) : Before(l[list], at, o)}

-----------------------------------------------------------------------------
(***************************************************************************)
(* Sweeping a part of a list.                                              *)
(***************************************************************************)
LEMMA RestIs ==
  ASSUME NEW l, Well(l), NEW list \in Lists, NEW at \in {Header} \cup Range(l[list])
  PROVE  LET rest == Rest(l, list, at) IN
         /\ rest \in Seq(Things) /\ IsInjective(rest)
         /\ Range(rest) = Behind(l, list, at) /\ Range(rest) \subseteq Range(l[list])
         /\ \A x, y : Before(rest, x, y) <=> Before(l[list], x, y) /\ x \in Range(rest)
         /\ at \notin Range(rest)
<1> DEFINE s == l[list]
<1>1. s \in Seq(Things) /\ IsInjective(s) /\ Range(s) \subseteq Things
  BY DEF Well, Range
<1>2. \A x, y : Before(s, x, y) => x \in Range(s) /\ y \in Range(s)
  BY <1>1, BeforeInRange
<1>3. CASE at = Header
  <2>1. Rest(l, list, at) = s
    BY <1>3 DEF Rest
  <2> QED
    BY <2>1, <1>1, <1>2, <1>3, LuaGCAssumption DEF Behind
<1>4. CASE at \in Range(s) /\ at # Header
  <2> DEFINE i == CHOOSE j \in 1 .. Len(s) : s[j] = at
  <2>1. (CHOOSE x \in DOMAIN l : at \in Range(l[x])) = list
    BY <1>4 DEF Well
  <2>2. i \in 1 .. Len(s) /\ s[i] = at
    BY <1>4, <1>1 DEF Range
  <2>3. Rest(l, list, at) = SubSeq(s, i + 1, Len(s))
    BY <2>1, <1>4 DEF Rest
  <2> HIDE DEF i
  <2> DEFINE q == SubSeq(s, i + 1, Len(s))
  <2>4. /\ q \in Seq(Things)
        /\ Range(q) = {x \in Range(s) : Before(s, s[i], x)}
        /\ \A x, y : Before(q, x, y) <=> Before(s, x, y) /\ x \in Range(q)
    BY <1>1, <2>2, SuffixOrder
  <2>5. \A x : ~Before(s, x, x)
    BY <1>1, Distinct
  <2> HIDE DEF q
  <2>6. IsInjective(q)
    BY <2>4, <2>5, Distinct
  <2>7. at # Nil
    BY <1>1, <1>4, LuaGCAssumption
  <2> QED
    BY <2>2, <2>3, <2>4, <2>5, <2>6, <2>7, <1>4 DEF Behind, q
<1> QED
  BY <1>3, <1>4

\* A sweep of D frees those that are dead, and makes the others white. What is
\* left is what was left but for D.
SweepOf(D, l, c, r, list, at, n, w) ==
  LET s    == Sweep(l, c, r, list, at, n, w)
      dead == {o \in D : c[o] \in Whites \ {w}}
      rest == Rest(l, list, at)
  IN
  /\ Well(s.lists)
  /\ \A x \in Lists : Range(s.lists[x]) = Range(l[x]) \ dead
  /\ s.color = [o \in Things |-> IF o \in dead THEN "white0"
                                 ELSE IF o \in D THEN w ELSE c[o]]
  /\ s.refs = [t \in Tables |-> IF t \in dead THEN {} ELSE r[t]]
  /\ s.at \in {Nil, Header} \cup Range(s.lists[list])
  /\ Behind(s.lists, list, s.at) = Behind(l, list, at) \ D
  /\ \A i \in 1 .. Len(rest) : i <= n => rest[i] \in D
  /\ s.at = at => D = dead /\ D # Behind(l, list, at)

LEMMA SweepIs ==
  ASSUME NEW l, Well(l), NEW list \in Lists, NEW at \in {Header} \cup Range(l[list]),
         NEW c, NEW r, NEW n \in Nat, NEW w
  PROVE  \E D \in SUBSET Behind(l, list, at) : SweepOf(D, l, c, r, list, at, n, w)
<1> DEFINE rest == Rest(l, list, at)
           k == IF n < Len(rest) THEN n ELSE Len(rest)
           done == SubSeq(rest, 1, k)
           D == Range(done)
           dead == {o \in D : c[o] \in Whites \ {w}}
           live == Without(done, dead)
           ls == [x \in DOMAIN l |-> Without(l[x], dead)]
           go == IF Len(done) = Len(rest) THEN Nil
                 ELSE IF live = <<>> THEN at ELSE live[Len(live)]
           cs == [o \in Things |-> IF o \in dead THEN "white0" ELSE IF o \in D THEN w ELSE c[o]]
           rs == [t \in Tables |-> IF t \in dead THEN {} ELSE r[t]]
<1>1. Sweep(l, c, r, list, at, n, w) = [lists |-> ls, color |-> cs, refs |-> rs, at |-> go]
  BY DEF Sweep
<1>2. /\ rest \in Seq(Things) /\ IsInjective(rest)
      /\ Range(rest) = Behind(l, list, at) /\ Range(rest) \subseteq Range(l[list])
      /\ \A x, y : Before(rest, x, y) <=> Before(l[list], x, y) /\ x \in Range(rest)
      /\ at \notin Range(rest)
  BY RestIs
<1> HIDE DEF rest
<1>3. k \in 0 .. Len(rest)
  BY <1>2
<1>4. /\ done \in Seq(Things) /\ Len(done) = k
      /\ Range(done) = {rest[i] : i \in 1 .. k} /\ Range(done) \subseteq Range(rest)
      /\ k = Len(rest) => done = rest
      /\ \A x, y : Before(done, x, y) <=> Before(rest, x, y) /\ y \in Range(done)
      /\ \A x \in Range(done), y \in Range(rest) \ Range(done) : Before(rest, x, y)
  <2> HIDE DEF k
  <2> QED
    BY <1>2, <1>3, PrefixOrder
<1>5. \A i \in 1 .. Len(rest) : i <= n => rest[i] \in D
  <2> SUFFICES ASSUME NEW i \in 1 .. Len(rest), i <= n PROVE rest[i] \in D
    OBVIOUS
  <2>1. i \in 1 .. k
    BY <1>2
  <2> HIDE DEF k
  <2> QED
    BY <2>1, <1>4
<1> HIDE DEF done, k
<1>6. /\ live \in Seq(Things)
      /\ Range(live) = D \ dead
      /\ \A x, y : Before(live, x, y) <=> Before(done, x, y) /\ x \notin dead /\ y \notin dead
  BY <1>4, WithoutOrder
<1> HIDE DEF live
<1>7. ASSUME NEW x \in Lists
      PROVE  /\ ls[x] \in Seq(Things) /\ Range(ls[x]) = Range(l[x]) \ dead
             /\ \A a, b : Before(ls[x], a, b) <=> Before(l[x], a, b) /\ a \notin dead /\ b \notin dead
             /\ IsInjective(ls[x])
  <2>1. l[x] \in Seq(Things) /\ IsInjective(l[x]) /\ ls[x] = Without(l[x], dead)
    BY DEF Well
  <2> HIDE DEF ls, dead
  <2>2. /\ ls[x] \in Seq(Things) /\ Range(ls[x]) = Range(l[x]) \ dead
        /\ \A a, b : Before(ls[x], a, b) <=> Before(l[x], a, b) /\ a \notin dead /\ b \notin dead
    BY <2>1, WithoutOrder
  <2>3. \A a : ~Before(l[x], a, a)
    BY <2>1, Distinct
  <2>4. IsInjective(ls[x])
    BY <2>2, <2>3, Distinct
  <2> QED
    BY <2>2, <2>4
<1>8. Well(ls)
  <2>1. DOMAIN ls = Lists
    BY DEF Well
  <2>2. ls \in [Lists -> Seq(Things)]
    <3>1. \A x \in Lists : ls[x] \in Seq(Things)
      BY <1>7
    <3> QED
      BY <3>1, <2>1
  <2> HIDE DEF ls
  <2>3. \A l1, l2 \in Lists : l1 # l2 => Range(ls[l1]) \cap Range(ls[l2]) = {}
    BY <1>7 DEF Well
  <2> QED
    BY <2>2, <2>3, <1>7 DEF Well
<1>9. /\ go \in {Nil, Header} \cup Range(ls[list])
      /\ Behind(ls, list, go) = Behind(l, list, at) \ D
      /\ go = at => D = dead /\ D # Behind(l, list, at)
  <2>0. at # Nil /\ at \notin D /\ dead \subseteq D /\ Range(l[list]) \subseteq Things
    <3>1. Range(l[list]) \subseteq Things
      BY DEF Well, Range
    <3> QED
      BY <3>1, <1>2, <1>4, LuaGCAssumption
  <2> HIDE DEF ls, dead, D
  <2>1. CASE Len(done) = Len(rest)
    <3>1. go = Nil /\ D = Range(rest)
      BY <2>1, <1>4 DEF D
    <3> QED
      BY <3>1, <2>0, <1>2 DEF Behind
  <2>2. CASE Len(done) # Len(rest) /\ live = <<>>
    <3>1. go = at
      BY <2>2
    <3>2. D = dead
      <4>1. Range(<<>>) = {}
        BY DEF Range
      <4> QED
        BY <4>1, <2>0, <1>6, <2>2
    <3>3. D # Range(rest)
      <4>1. Len(done) < Len(rest) /\ Len(done) \in Nat
        BY <1>2, <1>3, <1>4, <2>2
      <4> DEFINE m == Len(done) + 1
      <4>2. m \in 1 .. Len(rest) /\ m \notin 1 .. k /\ 1 .. k \subseteq 1 .. Len(rest)
        BY <4>1, <1>2, <1>3, <1>4
      <4>3. rest[m] \in Range(rest)
        BY <4>2, <1>2 DEF Range
      <4>4. rest[m] \notin {rest[i] : i \in 1 .. k}
        BY <4>2, <1>2 DEF IsInjective
      <4> QED
        BY <4>3, <4>4, <1>4 DEF D
    <3>4. Range(ls[list]) = Range(l[list]) \ dead
      BY <1>7
    <3>5. at = Header \/ at \in Range(ls[list])
      BY <3>4, <2>0
    <3>6. Behind(ls, list, at) = Behind(l, list, at) \ D
      BY <3>2, <3>4, <2>0, <1>7 DEF Behind
    <3> QED
      BY <3>1, <3>2, <3>3, <3>5, <3>6, <1>2
  <2>3. CASE Len(done) # Len(rest) /\ live # <<>>
    <3> DEFINE e == live[Len(live)]
    <3>1. go = e
      BY <2>3
    <3>2. IsInjective(live)
      <4>1. \A x : ~Before(rest, x, x)
        BY <1>2, Distinct
      <4>2. \A x : ~Before(live, x, x)
        BY <4>1, <1>4, <1>6
      <4> QED
        BY <4>2, <1>6, Distinct
    <3>3. /\ e \in Range(live)
          /\ \A x \in Range(live) : x = e \/ Before(live, x, e)
      BY <3>2, <1>6, <2>3, LastOrder
    <3> HIDE DEF e
    <3>4. e \in D /\ e \notin dead /\ e \in Range(rest) /\ e \in Range(l[list])
      BY <3>3, <1>6, <1>4, <1>2 DEF D
    <3>5. e # Nil /\ e # Header /\ e # at
      BY <3>4, <2>0, LuaGCAssumption
    <3>6. e \in Range(ls[list]) /\ Range(ls[list]) = Range(l[list]) \ dead
      BY <3>4, <1>7
    <3>7. ASSUME NEW o \in Range(ls[list]), Before(ls[list], e, o)
          PROVE  o \in Range(rest) \ D
      <4>1. Before(l[list], e, o) /\ o \notin dead
        BY <3>7, <1>7
      <4>2. Before(rest, e, o)
        BY <4>1, <3>4, <1>2
      <4>3. o \in Range(rest)
        BY <4>2, <1>2, BeforeInRange
      <4>4. ~Before(rest, o, e) /\ o # e
        BY <4>2, <1>2, OrderStrict
      <4>5. o \notin Range(live)
        BY <4>4, <3>3, <1>4, <1>6
      <4> QED
        BY <4>1, <4>3, <4>5, <1>6
    <3>8. ASSUME NEW o \in Range(rest) \ D
          PROVE  o \in Range(ls[list]) /\ Before(ls[list], e, o)
      <4>1. Before(rest, e, o)
        BY <3>4, <1>4 DEF D
      <4>2. Before(l[list], e, o) /\ o \in Range(l[list]) /\ o \notin dead
        BY <4>1, <1>2, <2>0
      <4> QED
        BY <4>2, <3>4, <1>7
    <3>9. Behind(ls, list, e) = Range(rest) \ D
      BY <3>5, <3>7, <3>8 DEF Behind
    <3> QED
      BY <3>1, <3>5, <3>6, <3>9, <1>2
  <2> QED
    BY <2>1, <2>2, <2>3
<1>10. \A x \in Lists : Range(ls[x]) = Range(l[x]) \ dead
  BY <1>7
<1>11. D \in SUBSET Behind(l, list, at)
  BY <1>2, <1>4
<1> HIDE DEF ls, go, cs, rs, dead, D
<1>12. SweepOf(D, l, c, r, list, at, n, w)
  BY <1>1, <1>5, <1>8, <1>9, <1>10 DEF SweepOf, rest, dead, cs, rs
<1> QED
  BY <1>11, <1>12

-----------------------------------------------------------------------------
(***************************************************************************)
(* The inductive invariant.                                                *)
(***************************************************************************)
\* The objects that a sweep has still to come to.
Unswept ==
  IF gcstate = "swpallgc" THEN Behind(lists, "allgc", sweepgc) \cup On("finobj") \cup On("tobefnz")
  ELSE IF gcstate = "swpfinobj" THEN Behind(lists, "finobj", sweepgc) \cup On("tobefnz")
  ELSE IF gcstate = "swptobefnz" THEN Behind(lists, "tobefnz", sweepgc)
  ELSE {}

\* A sweep ends with white objects.
SweepInv ==
  /\ \A i \in 1 .. 3 : gcstate = Sweeps[i] => sweepgc \in {Nil, Header} \cup On(Swept[Sweeps[i]])
  /\ gcstate = "swpend" => sweepgc = Nil
  /\ gcstate \in Range(Sweeps) \cup {"callfin", "pause"} =>
       \A o \in Things : Exists(o) /\ o \notin Unswept => color[o] = white

\* What the sweep will not free.
Kept == {o \in Things : Exists(o) /\ color[o] # OtherWhite}

\* It has all that the program, finalizers and the weak table may come to, and
\* leads to nothing else. Only a sweep has anything to free.
KeptInv ==
  /\ stack \cup weak \cup On("finobj") \cup On("tobefnz") \subseteq Kept
  /\ \A t \in Kept \cap Tables : refs[t] \subseteq Kept
  /\ ~IsSweepPhase => \A o \in Things : Exists(o) => o \in Kept

\* Memory of the heap that is no object: as good as white, and empty.
FreeInv == \A o \in Things : ~Exists(o) => color[o] \in Whites /\ Successors(o) = {}

\* While marking, what is gray is on a gray list, and what is due is marked.
MarkInv ==
  KeepInvariant =>
    /\ \A o \in gray \cup grayagain : o = Thread \/ Exists(o)
    /\ Thread \in gray \cup grayagain
    /\ \A t \in Tables : color[t] = "gray" => t \in gray \cup grayagain
    /\ \A o \in On("tobefnz") : color[o] \notin Whites
    /\ gcstate = "atomic" => gray = {}

\* The weak table has objects whose finalizer is to come, as has the object that
\* is being made.
WeakInv ==
  /\ weak \subseteq On("finobj")
  /\ building \in Userdata \cup {Nil} /\ building \notin On("tobefnz")

IInv == TypeOK /\ SweepInv /\ KeptInv /\ FreeInv /\ MarkInv /\ TriColour /\ WeakInv

-----------------------------------------------------------------------------
LEMMA Phase ==
  /\ Range(Sweeps) = {"swpallgc", "swpfinobj", "swptobefnz", "swpend"}
  /\ Sweeps[1] = "swpallgc" /\ Sweeps[2] = "swpfinobj"
  /\ Sweeps[3] = "swptobefnz" /\ Sweeps[4] = "swpend"
  /\ Swept["swpallgc"] = "allgc" /\ Swept["swpfinobj"] = "finobj"
  /\ Swept["swptobefnz"] = "tobefnz"
<1>1. DOMAIN Sweeps = 1 .. 4
  BY DEF Sweeps
<1> QED
  BY <1>1 DEF Sweeps, Swept, Range

\* PropagateAll holds S, is closed, and is the least such set.
LEMMA PropagateAllIs ==
  ASSUME NEW S, NEW marked
  PROVE  /\ PropagateAll(S, marked) \subseteq Things
         /\ \A o \in (S \cap Things) \ marked : o \in PropagateAll(S, marked)
         /\ \A x \in PropagateAll(S, marked) :
              (Successors(x) \cap Things) \ marked \subseteq PropagateAll(S, marked)
         /\ \A T \in SUBSET Things :
              S \ marked \subseteq T /\ (\A x \in T : Successors(x) \ marked \subseteq T)
                => PropagateAll(S, marked) \subseteq T
BY DEF PropagateAll

\* A sweep of D, after which S are the current white, takes nothing away that
\* is to be kept.
LEMMA KeptAfterSweep ==
  ASSUME TypeOK, KeptInv, FreeInv,
         NEW D \in SUBSET Things, \A o \in D : Exists(o), NEW S \in SUBSET Kept,
         \A o \in Things : Exists(o)' <=> Exists(o) /\ ~ (o \in D /\ color[o] = OtherWhite),
         \A o \in Things :
           color'[o] = IF o \in D /\ color[o] = OtherWhite THEN "white0"
                       ELSE IF o \in D \cup S THEN white ELSE color[o],
         \A t \in Tables :
           refs'[t] = IF t \in D /\ color[t] = OtherWhite THEN {} ELSE refs[t],
         (On("finobj") \cup On("tobefnz") \cup stack \cup weak)' \subseteq Kept,
         white' = white,
         IsSweepPhase' \/ (~IsSweepPhase /\ D = {})
  PROVE  Kept' = Kept /\ KeptInv' /\ FreeInv'
<1>1. white # OtherWhite /\ OtherWhite' = OtherWhite /\ white \in Whites
  BY DEF TypeOK, Whites, OtherWhite
<1>2. Kept' = Kept
  BY <1>1 DEF Kept
<1>3. KeptInv'
  <2>1. \A t \in Kept \cap Tables : refs'[t] = refs[t]
    BY DEF Kept
  <2> QED
    BY <2>1, <1>2 DEF KeptInv
<1>4. FreeInv'
  <2> SUFFICES ASSUME NEW o \in Things, ~Exists(o)'
               PROVE  color'[o] \in Whites /\ Successors(o)' = {}
    BY DEF FreeInv
  <2>1. CASE Exists(o)
    BY <2>1 DEF Successors, Whites
  <2>2. CASE ~Exists(o)
    <3>1. o \notin D \cup S
      BY <2>2 DEF Kept
    <3> QED
      BY <2>2, <3>1 DEF Successors, FreeInv
  <2> QED
    BY <2>1, <2>2
<1> QED
  BY <1>2, <1>3, <1>4

-----------------------------------------------------------------------------
(***************************************************************************)
(* It is preserved, step by step. First the steps that leave the heap as   *)
(* it is.                                                                  *)
(***************************************************************************)
LEMMA OnThings ==
  ASSUME Well(lists), NEW list \in Lists
  PROVE  On(list) \subseteq Things
BY DEF Well, On, Range

\* There is nothing else on the lists than these three.
LEMMA ExistsOn ==
  ASSUME NEW o
  PROVE  Exists(o) <=> o \in On("allgc") \cup On("finobj") \cup On("tobefnz")
BY DEF Exists, Lists

LEMMA HeapStays ==
  ASSUME IInv, UNCHANGED <<gcstate, white, color, gray, grayagain, lists, sweepgc, refs>>,
         full' \in {"no", "finish", "collect"} /\ emergency' \in BOOLEAN,
         finalizing' \in Tables \cup {Nil},
         stack' \cup weak' \subseteq Kept, weak' \subseteq Userdata,
         building' \in stack' \cup {Nil}, WeakInv'
  PROVE  IInv'
<1>1. TypeOK'
  <2>1. stack' \subseteq Things
    BY DEF Kept
  <2> QED
    BY <2>1 DEF IInv, TypeOK, On
<1>2. /\ \A list : On(list)' = On(list)
      /\ \A o : Exists(o)' = Exists(o) /\ Successors(o)' = Successors(o)
      /\ Unswept' = Unswept /\ OtherWhite' = OtherWhite /\ Kept' = Kept
      /\ IsSweepPhase' = IsSweepPhase /\ KeepInvariant' = KeepInvariant
  BY DEF On, Exists, Successors, Unswept, OtherWhite, Kept, IsSweepPhase, KeepInvariant
<1>3. SweepInv'
  BY <1>2 DEF IInv, SweepInv
<1>4. KeptInv'
  BY <1>2 DEF IInv, KeptInv
<1>5. FreeInv'
  BY <1>2 DEF IInv, FreeInv
<1>6. MarkInv' /\ TriColour'
  BY <1>2 DEF IInv, MarkInv, TriColour
<1> QED
  BY <1>1, <1>3, <1>4, <1>5, <1>6 DEF IInv

LEMMA QuietSteps ==
  ASSUME IInv
  PROVE  /\ Register /\ UNCHANGED control => IInv'
         /\ \A u \in Userdata : GetObject(u) /\ UNCHANGED control => IInv'
         /\ \A t \in Tables, o \in Things : GetTable(t, o) /\ UNCHANGED control => IInv'
         /\ \A o \in Things : Forget(o) /\ UNCHANGED control => IInv'
         /\ \A error \in BOOLEAN : Return(error) => IInv'
         /\ UNCHANGED vars => IInv'
<1> USE DEF heap, control
<1>1. /\ full \in {"no", "finish", "collect"} /\ emergency \in BOOLEAN
      /\ finalizing \in Tables \cup {Nil}
      /\ weak \subseteq Userdata /\ building \in stack \cup {Nil}
      /\ stack \cup weak \subseteq Kept
      /\ weak \subseteq On("finobj") /\ building \in Userdata \cup {Nil}
      /\ building \notin On("tobefnz")
  BY DEF IInv, TypeOK, KeptInv, WeakInv
<1>2. ASSUME Register, UNCHANGED control PROVE IInv'
  <2>1. building \in Userdata /\ building \in stack /\ building \in On("finobj")
    BY <1>1, <1>2 DEF Register, ToFinalize
  <2>2. WeakInv'
    <3>1. Nil \notin On("tobefnz")
      BY OnThings, LuaGCAssumption DEF IInv, TypeOK, Lists
    <3> QED
      BY <3>1, <1>1, <1>2, <2>1 DEF Register, WeakInv, On
  <2> QED
    BY <1>1, <1>2, <2>1, <2>2, HeapStays DEF Register
<1>3. ASSUME NEW u \in Userdata, GetObject(u), UNCHANGED control PROVE IInv'
  <2>1. WeakInv'
    BY <1>1, <1>3 DEF GetObject, WeakInv, On
  <2> QED
    BY <1>1, <1>3, <2>1, HeapStays DEF GetObject
<1>4. ASSUME NEW t \in Tables, NEW o \in Things, GetTable(t, o), UNCHANGED control PROVE IInv'
  <2>1. WeakInv'
    BY <1>1, <1>4 DEF GetTable, WeakInv, On
  <2>2. o \in Kept
    BY <1>1, <1>4 DEF GetTable, IInv, KeptInv
  <2> QED
    BY <1>1, <1>4, <2>1, <2>2, HeapStays DEF GetTable
<1>5. ASSUME NEW o \in Things, Forget(o), UNCHANGED control PROVE IInv'
  <2>1. WeakInv'
    BY <1>1, <1>5 DEF Forget, WeakInv, On
  <2> QED
    BY <1>1, <1>5, <2>1, HeapStays DEF Forget
<1>6. ASSUME NEW error \in BOOLEAN, Return(error) PROVE IInv'
  <2>1. WeakInv'
    BY <1>1, <1>6 DEF Return, WeakInv, On, program
  <2> QED
    BY <1>1, <1>6, <2>1, HeapStays DEF Return, program
<1>7. ASSUME UNCHANGED vars PROVE IInv'
  <2>1. WeakInv'
    BY <1>1, <1>7 DEF vars, WeakInv, On, program
  <2> QED
    BY <1>1, <1>7, <2>1, HeapStays DEF vars, program
<1> QED
  BY <1>2, <1>3, <1>4, <1>5, <1>6, <1>7

\* The collector goes on to the next phase.
LEMMA PhaseSteps ==
  ASSUME IInv, SweepEnd \/ Pause
  PROVE  IInv'
<1> USE DEF control, program
<1>1. /\ UNCHANGED <<white, color, gray, grayagain, lists, sweepgc, refs, stack, weak, building>>
      /\ \/ gcstate = "swpend" /\ gcstate' = "callfin"
         \/ gcstate = "callfin" /\ gcstate' = "pause"
  BY DEF SweepEnd, Pause
<1>2. /\ \A list : On(list)' = On(list)
      /\ \A o : Exists(o)' = Exists(o) /\ Successors(o)' = Successors(o)
      /\ OtherWhite' = OtherWhite /\ Kept' = Kept
      /\ Unswept = {} /\ Unswept' = {}
      /\ ~IsSweepPhase' /\ ~KeepInvariant'
  BY <1>1, Phase DEF On, Exists, Successors, Unswept, OtherWhite, Kept, IsSweepPhase, KeepInvariant
<1>3. TypeOK'
  BY <1>1 DEF IInv, TypeOK, On, SweepEnd, Pause, AfterFull, Phases
<1>4. SweepInv' /\ \A o \in Things : Exists(o) => color[o] = white
  BY <1>1, <1>2, Phase DEF IInv, SweepInv
<1>5. KeptInv'
  <2>1. white # OtherWhite
    BY DEF IInv, TypeOK, Whites, OtherWhite
  <2> QED
    BY <1>1, <1>2, <1>4, <2>1 DEF IInv, KeptInv, Kept
<1>6. FreeInv' /\ WeakInv'
  BY <1>1, <1>2 DEF IInv, FreeInv, WeakInv
<1>7. MarkInv' /\ TriColour'
  BY <1>2 DEF MarkInv, TriColour
<1> QED
  BY <1>3, <1>4, <1>5, <1>6, <1>7 DEF IInv

-----------------------------------------------------------------------------
(***************************************************************************)
(* The program's steps.                                                    *)
(***************************************************************************)
\* A list of the heap with one more object at its head.
LEMMA Pushed ==
  ASSUME Well(lists), NEW o \in Things, ~Exists(o)
  PROVE  LET l == [lists EXCEPT !.allgc = <<o>> \o @] IN
         /\ Well(l)
         /\ Range(l["allgc"]) = On("allgc") \cup {o}
         /\ \A list \in Lists : list # "allgc" => l[list] = lists[list]
         /\ \A x, y : Before(l["allgc"], x, y) <=>
              Before(lists["allgc"], x, y) \/ (x = o /\ y \in On("allgc"))
<1> DEFINE s == lists["allgc"]
           l == [lists EXCEPT !.allgc = <<o>> \o @]
<1>1. s \in Seq(Things) /\ IsInjective(s) /\ o \notin Range(s) /\ On("allgc") = Range(s)
  BY DEF Well, Lists, Exists, On
<1>2. /\ <<o>> \o s \in Seq(Things)
      /\ Range(<<o>> \o s) = {o} \cup Range(s)
      /\ \A x, y : Before(<<o>> \o s, x, y) <=> Before(s, x, y) \/ (x = o /\ y \in Range(s))
  BY <1>1, ConsOrder
<1>3. IsInjective(<<o>> \o s)
  BY <1>1, <1>2, Distinct
<1>4. /\ l \in [Lists -> Seq(Things)]
      /\ l["allgc"] = <<o>> \o s
      /\ \A list \in Lists : list # "allgc" => l[list] = lists[list]
  BY <1>2 DEF Well, Lists
<1> HIDE DEF l
<1>5. \A list \in Lists : IsInjective(l[list])
  BY <1>3, <1>4 DEF Well
<1>6. \A l1, l2 \in Lists : l1 # l2 => Range(l[l1]) \cap Range(l[l2]) = {}
  <2>1. \A list \in Lists : o \notin Range(lists[list])
    BY DEF Exists, On
  <2>2. \A l1, l2 \in Lists : l1 # l2 => Range(lists[l1]) \cap Range(lists[l2]) = {}
    BY DEF Well
  <2>3. /\ Range(l["allgc"]) = {o} \cup Range(lists["allgc"])
        /\ \A list \in Lists : list # "allgc" => Range(l[list]) = Range(lists[list])
    BY <1>2, <1>4
  <2> HIDE DEF s
  <2> QED
    BY <2>1, <2>2, <2>3 DEF Lists
<1>7. Well(l)
  BY <1>4, <1>5, <1>6 DEF Well
<1> QED
  BY <1>1, <1>2, <1>4, <1>7 DEF l

LEMMA NewObjectStep ==
  ASSUME IInv, NEW o \in Things, NewObject(o),
         UNCHANGED <<refs, weak, control>>, building' \in {building} \cup ({o} \cap Userdata)
  PROVE  IInv'
<1>1. /\ ~Exists(o) /\ Well(lists) /\ TypeOK
      /\ lists' = [lists EXCEPT !.allgc = <<o>> \o @]
      /\ color' = [color EXCEPT ![o] = white]
      /\ stack' = stack \cup {o}
      /\ UNCHANGED <<gcstate, white, gray, grayagain, sweepgc>>
  BY DEF IInv, TypeOK, NewObject
<1>2. /\ Well(lists')
      /\ On("allgc")' = On("allgc") \cup {o}
      /\ On("finobj")' = On("finobj") /\ On("tobefnz")' = On("tobefnz")
      /\ \A list \in Lists : list # "allgc" => lists'[list] = lists[list]
      /\ \A x, y : Before(lists["allgc"], x, y)' <=>
           Before(lists["allgc"], x, y) \/ (x = o /\ y \in On("allgc"))
  BY <1>1, Pushed DEF On, Lists
<1>3. \A x : Exists(x)' <=> Exists(x) \/ x = o
  BY <1>2 DEF Exists, Lists
<1>4. /\ color'[o] = white /\ \A x \in Things \ {o} : color'[x] = color[x]
      /\ white # OtherWhite /\ white \in Whites /\ OtherWhite' = OtherWhite
  BY <1>1 DEF TypeOK, Whites, OtherWhite
<1>5. Kept' = Kept \cup {o} /\ Successors(o) = {}
  BY <1>1, <1>3, <1>4 DEF IInv, FreeInv, Kept
<1>6. TypeOK'
  <2>1. color' \in [Things -> Colors]
    BY <1>1 DEF TypeOK, Colors
  <2>2. building' \in stack' \cup {Nil}
    BY <1>1 DEF TypeOK
  <2> QED
    BY <1>1, <1>2, <2>1, <2>2 DEF TypeOK, control
<1>7. SweepInv'
  <2>1. \A i \in 1 .. 3 :
          gcstate' = Sweeps[i] => sweepgc' \in {Nil, Header} \cup On(Swept[Sweeps[i]])'
    BY <1>1, <1>2, Phase DEF IInv, SweepInv
  <2>2. ASSUME gcstate' \in Range(Sweeps) \cup {"callfin", "pause"}, NEW x \in Things,
               Exists(x)', x \notin Unswept'
        PROVE  color'[x] = white'
    <3>1. CASE x = o
      BY <3>1, <1>1, <1>4
    <3>2. CASE x # o
      <4>1. x \notin Unswept
        <5>1. CASE gcstate = "swpallgc"
          <6>1. sweepgc # o
            <7>1. sweepgc \in {Nil, Header} \cup On("allgc")
              BY <5>1, Phase DEF IInv, SweepInv
            <7> QED
              BY <7>1, <1>1, ExistsOn, LuaGCAssumption
          <6> QED
            BY <5>1, <6>1, <3>2, <2>2, <1>1, <1>2 DEF Unswept, Behind, On
        <5>2. CASE gcstate # "swpallgc"
          BY <5>2, <2>2, <1>1, <1>2 DEF Unswept, Behind, On, Lists
        <5> QED
          BY <5>1, <5>2
      <4> QED
        BY <4>1, <3>2, <2>2, <1>1, <1>3, <1>4 DEF IInv, SweepInv
    <3> QED
      BY <3>1, <3>2
  <2> QED
    BY <2>1, <2>2, <1>1 DEF IInv, SweepInv
<1>8. KeptInv'
  BY <1>1, <1>2, <1>3, <1>5 DEF IInv, KeptInv, Successors, IsSweepPhase
<1>9. FreeInv'
  BY <1>1, <1>3, <1>4 DEF IInv, FreeInv, Successors
<1>10. MarkInv'
  <2>1. On("tobefnz") \subseteq Things /\ o \notin On("tobefnz")
    BY <1>1, OnThings, ExistsOn DEF Lists
  <2>2. \A t \in Tables : color'[t] = "gray" => color[t] = "gray"
    BY <1>4 DEF Whites, Things
  <2>3. \A x \in On("tobefnz") : color'[x] = color[x]
    BY <2>1, <1>4
  <2> QED
    BY <2>2, <2>3, <1>1, <1>2, <1>3 DEF IInv, MarkInv, KeepInvariant
<1>11. TriColour'
  <2> SUFFICES ASSUME KeepInvariant', NEW t \in Tables, Exists(t)', color'[t] = "black",
                      NEW x \in refs'[t]
               PROVE  color'[x] \notin Whites
    BY DEF TriColour
  <2>1. t # o /\ Exists(t) /\ color[t] = "black"
    BY <1>3, <1>4 DEF Whites, Things
  <2>2. t \in Kept
    BY <2>1 DEF Kept, Things, OtherWhite
  <2>3. x \in Kept /\ color[x] \notin Whites
    BY <1>1, <2>1, <2>2 DEF IInv, TriColour, KeptInv, KeepInvariant
  <2>4. x # o /\ x \in Things
    BY <2>3, <1>1 DEF Kept
  <2> QED
    BY <2>3, <2>4, <1>4
<1>12. WeakInv'
  BY <1>1, <1>2, ExistsOn DEF IInv, WeakInv
<1> QED
  BY <1>6, <1>7, <1>8, <1>9, <1>10, <1>11, <1>12 DEF IInv

\* Steps that only change what a table holds, and may make it gray again.
LEMMA TableSteps ==
  ASSUME IInv, NEW t \in Tables, UNCHANGED control,
         ClearTable(t) \/ \E o \in Things : SetTable(t, o)
  PROVE  IInv'
<1>1. TypeOK /\ stack \subseteq Kept /\ t \in Things /\ (t \in stack => Exists(t))
  BY DEF IInv, KeptInv, Kept, Things
<1>2. /\ UNCHANGED <<gcstate, white, gray, lists, sweepgc, stack, weak, building>>
      /\ t \in stack
      /\ \/ /\ refs' = [refs EXCEPT ![t] = {}]
            /\ UNCHANGED <<color, grayagain>>
         \/ \E o \in stack :
              /\ refs' = [refs EXCEPT ![t] = @ \cup {o}]
              /\ \/ /\ color[t] = "black" /\ color[o] \in Whites
                    /\ color' = [color EXCEPT ![t] = "gray"] /\ grayagain' = grayagain \cup {t}
                 \/ ~ (color[t] = "black" /\ color[o] \in Whites)
                    /\ UNCHANGED <<color, grayagain>>
  BY DEF ClearTable, SetTable, BarrierBack, heap
<1>3. /\ \A list : On(list)' = On(list)
      /\ \A o : Exists(o)' = Exists(o)
      /\ Unswept' = Unswept /\ OtherWhite' = OtherWhite
      /\ IsSweepPhase' = IsSweepPhase /\ KeepInvariant' = KeepInvariant
  BY <1>2 DEF On, Exists, Unswept, OtherWhite, IsSweepPhase, KeepInvariant
<1>4. /\ \A o \in Things : color'[o] = color[o] \/ (o = t /\ color[t] = "black" /\ color'[t] = "gray")
      /\ \A o \in Tables \ {t} : refs'[o] = refs[o]
      /\ refs'[t] \subseteq refs[t] \cup stack
      /\ color' \in [Things -> Colors] /\ refs' \in [Tables -> SUBSET Things]
  BY <1>1, <1>2 DEF TypeOK, Colors
<1>5. Kept' = Kept
  <2>1. OtherWhite \in Whites
    BY DEF OtherWhite, Whites
  <2> QED
    BY <2>1, <1>3, <1>4 DEF Kept, Whites
<1>6. TypeOK'
  BY <1>1, <1>2, <1>4 DEF TypeOK, control
<1>7. SweepInv'
  <2>1. white \in Whites
    BY <1>1 DEF TypeOK
  <2> QED
    BY <2>1, <1>2, <1>3, <1>4 DEF IInv, SweepInv, Whites
<1>8. KeptInv'
  BY <1>2, <1>3, <1>4, <1>5 DEF IInv, KeptInv
<1>9. FreeInv'
  <2> SUFFICES ASSUME NEW o \in Things, ~Exists(o)'
               PROVE  color'[o] \in Whites /\ Successors(o)' = {}
    BY DEF FreeInv
  <2>1. o # t /\ color[o] \in Whites /\ Successors(o) = {}
    BY <1>1, <1>2, <1>3 DEF IInv, FreeInv
  <2> QED
    BY <2>1, <1>4 DEF Successors
<1>10. MarkInv'
  <2> SUFFICES ASSUME KeepInvariant
               PROVE  /\ \A o \in gray' \cup grayagain' : o = Thread \/ Exists(o)'
                      /\ Thread \in gray' \cup grayagain'
                      /\ \A x \in Tables : color'[x] = "gray" => x \in gray' \cup grayagain'
                      /\ \A o \in On("tobefnz")' : color'[o] \notin Whites
                      /\ gcstate' = "atomic" => gray' = {}
    BY <1>3 DEF MarkInv
  <2>1. grayagain \subseteq grayagain' /\ grayagain' \subseteq grayagain \cup {t}
    BY <1>2
  <2>2. \A x \in Tables : color'[x] = "gray" => color[x] = "gray" \/ x \in grayagain'
    BY <1>2, <1>4 DEF Things
  <2>3. On("tobefnz") \subseteq Things
    BY <1>1, OnThings DEF TypeOK, Lists
  <2>4. \A o \in On("tobefnz") : color'[o] \notin Whites
    BY <2>3, <1>4 DEF IInv, MarkInv, Whites
  <2> QED
    BY <2>1, <2>2, <2>4, <1>1, <1>2, <1>3 DEF IInv, MarkInv
<1>11. TriColour'
  <2> SUFFICES ASSUME KeepInvariant, NEW x \in Tables, Exists(x), color'[x] = "black",
                      NEW o \in refs'[x]
               PROVE  color'[o] \notin Whites
    BY <1>3 DEF TriColour
  <2>1. color[x] = "black" /\ color'[x] = color[x] /\ o \in Things
    BY <1>4 DEF Things
  <2>2. color[o] \notin Whites
    <3>1. CASE o \in refs[x]
      BY <3>1, <2>1 DEF IInv, TriColour
    <3>2. CASE o \notin refs[x]
      <4>1. x = t
        BY <3>2, <1>4
      <4> QED
        BY <4>1, <3>2, <2>1, <1>1, <1>2, <1>4 DEF TypeOK, Colors, Whites
    <3> QED
      BY <3>1, <3>2
  <2> QED
    BY <2>1, <2>2, <1>4 DEF Whites
<1>12. WeakInv'
  BY <1>2, <1>3 DEF IInv, WeakInv
<1> QED
  BY <1>6, <1>7, <1>8, <1>9, <1>10, <1>11, <1>12 DEF IInv

\* The list allgc without one of its objects, which is at the head of finobj now.
ToFinobj(l, o) == [l EXCEPT !.allgc = Without(@, {o}), !.finobj = <<o>> \o @]

LEMMA Moved ==
  ASSUME NEW l, Well(l), NEW o \in Range(l["allgc"])
  PROVE  LET m == ToFinobj(l, o) IN
         /\ Well(m)
         /\ Range(m["allgc"]) = Range(l["allgc"]) \ {o}
         /\ Range(m["finobj"]) = Range(l["finobj"]) \cup {o}
         /\ m["tobefnz"] = l["tobefnz"]
         /\ \A x, y : Before(m["allgc"], x, y) <=> Before(l["allgc"], x, y) /\ x # o /\ y # o
         /\ \A x, y : Before(m["finobj"], x, y) <=>
              Before(l["finobj"], x, y) \/ (x = o /\ y \in Range(l["finobj"]))
<1> DEFINE a == Without(l["allgc"], {o})
           f == <<o>> \o l["finobj"]
           m == ToFinobj(l, o)
<1>1. /\ l["allgc"] \in Seq(Things) /\ IsInjective(l["allgc"])
      /\ l["finobj"] \in Seq(Things) /\ IsInjective(l["finobj"])
      /\ l["tobefnz"] \in Seq(Things) /\ IsInjective(l["tobefnz"])
      /\ Range(l["allgc"]) \cap Range(l["finobj"]) = {}
      /\ Range(l["allgc"]) \cap Range(l["tobefnz"]) = {}
      /\ Range(l["finobj"]) \cap Range(l["tobefnz"]) = {}
  BY DEF Well, Lists
<1>2. o \in Things
  BY <1>1 DEF Range
<1>3. /\ a \in Seq(Things) /\ Range(a) = Range(l["allgc"]) \ {o}
      /\ \A x, y : Before(a, x, y) <=> Before(l["allgc"], x, y) /\ x # o /\ y # o
  BY <1>1, WithoutOrder
<1>4. /\ f \in Seq(Things) /\ Range(f) = {o} \cup Range(l["finobj"])
      /\ \A x, y : Before(f, x, y) <=> Before(l["finobj"], x, y) \/ (x = o /\ y \in Range(l["finobj"]))
  BY <1>1, <1>2, ConsOrder
<1>5. /\ m \in [Lists -> Seq(Things)]
      /\ m["allgc"] = a /\ m["finobj"] = f /\ m["tobefnz"] = l["tobefnz"]
  BY <1>3, <1>4 DEF Well, Lists, ToFinobj
<1>6. IsInjective(a) /\ IsInjective(f)
  <2>1. \A x : ~Before(l["allgc"], x, x) /\ ~Before(l["finobj"], x, x)
    BY <1>1, Distinct
  <2>2. \A x : ~Before(a, x, x) /\ ~Before(f, x, x)
    BY <2>1, <1>1, <1>3, <1>4
  <2> HIDE DEF a, f
  <2> QED
    BY <2>2, <1>3, <1>4, Distinct
<1> HIDE DEF a, f, m
<1>7. \A list \in Lists : IsInjective(m[list])
  BY <1>1, <1>5, <1>6 DEF Lists
<1>8. \A l1, l2 \in Lists : l1 # l2 => Range(m[l1]) \cap Range(m[l2]) = {}
  BY <1>1, <1>3, <1>4, <1>5 DEF Lists
<1>9. Well(m)
  BY <1>5, <1>7, <1>8 DEF Well
<1> QED
  BY <1>3, <1>4, <1>5, <1>9 DEF m

\* sweeptolive moves sweepgc away from an object that leaves allgc.
UnlinkOf(D, o) ==
  LET s    == UnlinkFrom(o)
      dead == {x \in D : color[x] = OtherWhite}
  IN
  /\ D \subseteq IF gcstate = "swpallgc" THEN Behind(lists, "allgc", sweepgc) ELSE {}
  /\ o \notin D
  /\ Well(s.lists)
  /\ \A x \in Lists : Range(s.lists[x]) = On(x) \ dead
  /\ s.color = [x \in Things |-> IF x \in dead THEN "white0"
                                 ELSE IF x \in D THEN white ELSE color[x]]
  /\ s.refs = [t \in Tables |-> IF t \in dead THEN {} ELSE refs[t]]
  /\ IF gcstate = "swpallgc"
     THEN /\ s.at \in {Nil, Header} \cup (Range(s.lists["allgc"]) \ {o})
          /\ Behind(s.lists, "allgc", s.at) = Behind(lists, "allgc", sweepgc) \ D
     ELSE s.at = sweepgc /\ s.lists = lists

LEMMA UnlinkIs ==
  ASSUME IInv, NEW o \in On("allgc")
  PROVE  \E D \in SUBSET Things : UnlinkOf(D, o)
<1> DEFINE rest == Rest(lists, "allgc", o)
           n == ToLive(rest)
           beh == Behind(lists, "allgc", o)
<1>1. /\ Well(lists) /\ o \in Things /\ color \in [Things -> Colors] /\ refs \in [Tables -> SUBSET Things]
      /\ \A list \in Lists : On(list) \subseteq Things
      /\ "allgc" \in Lists
      /\ Whites \ {white} = {OtherWhite}
  BY OnThings DEF IInv, TypeOK, Lists, Whites, OtherWhite
<1>2. /\ gcstate = "swpallgc" => sweepgc \in {Nil, Header} \cup On("allgc")
      /\ IsSweepPhase /\ sweepgc = o => gcstate = "swpallgc"
  BY <1>1, Phase, LuaGCAssumption DEF IInv, SweepInv, IsSweepPhase, TypeOK, Well, Lists, On
<1>3. CASE IsSweepPhase /\ sweepgc = o
  <2>1. UnlinkFrom(o) = Sweep(lists, color, refs, "allgc", o, n, white) /\ gcstate = "swpallgc"
    BY <1>2, <1>3 DEF UnlinkFrom
  <2>2. /\ rest \in Seq(Things)
        /\ Range(rest) = beh /\ beh \subseteq Things /\ o \notin beh
    BY <1>1, RestIs DEF On
  <2>3. /\ n \in Nat
        /\ \/ n \in 1 .. Len(rest) /\ color[rest[n]] # OtherWhite
           \/ n = Len(rest) /\ \A i \in 1 .. Len(rest) : color[rest[i]] = OtherWhite
    <3> HIDE DEF rest
    <3>1. CASE \E i \in 1 .. Len(rest) : color[rest[i]] # OtherWhite
      <4> DEFINE L == {i \in 1 .. Len(rest) : color[rest[i]] # OtherWhite}
      <4>1. PICK i \in L : \A j \in L : i <= j
        <5>1. L \subseteq Nat /\ L # {}
          BY <3>1, <2>2
        <5> QED
          BY <5>1, LeastExists
      <4>2. \E k \in 1 .. Len(rest) :
              color[rest[k]] # OtherWhite /\ \A j \in 1 .. k - 1 : color[rest[j]] = OtherWhite
        <5>1. i \in 1 .. Len(rest) /\ color[rest[i]] # OtherWhite /\ Len(rest) \in Nat
          BY <4>1, <2>2
        <5>2. ASSUME NEW j \in 1 .. i - 1 PROVE color[rest[j]] = OtherWhite
          <6>1. j \in 1 .. Len(rest) /\ ~ (i <= j)
            BY <5>1
          <6> QED
            BY <6>1, <4>1
        <5> QED
          BY <5>1, <5>2
      <4>3. n \in 1 .. Len(rest) /\ color[rest[n]] # OtherWhite
        BY <4>2, <3>1 DEF ToLive
      <4> QED
        BY <4>3, <2>2
    <3>2. CASE ~ \E i \in 1 .. Len(rest) : color[rest[i]] # OtherWhite
      BY <3>2, <2>2 DEF ToLive
    <3> QED
      BY <3>1, <3>2
  <2> HIDE DEF n
  <2> DEFINE s == Sweep(lists, color, refs, "allgc", o, n, white)
  <2>4. PICK D \in SUBSET beh : SweepOf(D, lists, color, refs, "allgc", o, n, white)
    <3>1. o \in {Header} \cup Range(lists["allgc"])
      BY DEF On
    <3> HIDE DEF rest
    <3> QED
      BY <1>1, <2>3, <3>1, SweepIs
  <2> DEFINE dead == {x \in D : color[x] = OtherWhite}
  <2>6. /\ Well(s.lists)
        /\ \A x \in Lists : Range(s.lists[x]) = On(x) \ dead
        /\ s.color = [x \in Things |-> IF x \in dead THEN "white0"
                                       ELSE IF x \in D THEN white ELSE color[x]]
        /\ s.refs = [t \in Tables |-> IF t \in dead THEN {} ELSE refs[t]]
        /\ s.at \in {Nil, Header} \cup Range(s.lists["allgc"])
        /\ Behind(s.lists, "allgc", s.at) = beh \ D
        /\ \A i \in 1 .. Len(rest) : i <= n => rest[i] \in D
        /\ s.at = o => D = dead /\ D # beh
    <3>1. {x \in D : color[x] \in Whites \ {white}} = dead
      BY <1>1
    <3> HIDE DEF dead
    <3> QED
      BY <2>4, <3>1 DEF SweepOf, On
  <2> HIDE DEF s, rest, beh
  <2>5. s.at # o
    <3> SUFFICES ASSUME s.at = o PROVE FALSE
      OBVIOUS
    <3>1. D # beh /\ \A x \in D : color[x] = OtherWhite
      BY <2>6
    <3>2. CASE n \in 1 .. Len(rest) /\ color[rest[n]] # OtherWhite
      BY <3>1, <3>2, <2>3, <2>6
    <3>3. CASE n = Len(rest)
      <4>1. Range(rest) \subseteq D
        BY <3>3, <2>2, <2>6 DEF Range
      <4> QED
        BY <4>1, <3>1, <2>2
    <3> QED
      BY <3>2, <3>3, <2>3
  <2>7. beh = Behind(lists, "allgc", sweepgc)
    BY <1>3 DEF beh
  <2>8. D \in SUBSET Things /\ o \notin D
    BY <2>2
  <2>9. UnlinkOf(D, o)
    BY <2>1, <2>5, <2>6, <2>7, <2>8 DEF s, UnlinkOf
  <2> QED
    BY <2>8, <2>9
<1>4. CASE ~ (IsSweepPhase /\ sweepgc = o)
  <2>1. UnlinkFrom(o) = [lists |-> lists, color |-> color, refs |-> refs, at |-> sweepgc]
    BY <1>4 DEF UnlinkFrom, UnlinkInPlace
  <2>2. gcstate = "swpallgc" => sweepgc # o
    BY <1>4, Phase DEF IsSweepPhase
  <2>3. UnlinkOf({}, o)
    BY <1>1, <1>2, <2>1, <2>2 DEF UnlinkOf, On
  <2> QED
    BY <2>3
<1> QED
  BY <1>3, <1>4

LEMMA CheckFinalizerStep ==
  ASSUME IInv, NEW o \in stack, ~ToFinalize(o), CheckFinalizer(o),
         UNCHANGED <<stack, weak, building, control>>
  PROVE  /\ IInv'
         /\ On("finobj")' = On("finobj") \cup {o} /\ On("tobefnz")' = On("tobefnz")
         /\ On("allgc")' \subseteq On("allgc") \ {o}
         /\ (On("allgc") \ {o}) \cap Kept \subseteq On("allgc")'
         /\ \A t \in Kept \cap Tables : refs'[t] = refs[t]
<1> DEFINE s == UnlinkFrom(o)
<1>1. /\ TypeOK /\ Well(lists) /\ o \in Things /\ o \in Kept /\ o \in On("allgc")
      /\ \A list \in Lists : On(list) \subseteq Things
  <2>1. o \in Kept /\ TypeOK
    BY DEF IInv, KeptInv
  <2> QED
    BY <2>1, ExistsOn, OnThings DEF Kept, ToFinalize, TypeOK
<1>2. PICK D \in SUBSET Things : UnlinkOf(D, o)
  BY <1>1, UnlinkIs
<1> DEFINE dead == {x \in D : color[x] = OtherWhite}
<1>3. /\ D \subseteq IF gcstate = "swpallgc" THEN Behind(lists, "allgc", sweepgc) ELSE {}
      /\ o \notin D
      /\ Well(s.lists)
      /\ \A x \in Lists : Range(s.lists[x]) = On(x) \ dead
      /\ s.color = [x \in Things |-> IF x \in dead THEN "white0"
                                     ELSE IF x \in D THEN white ELSE color[x]]
      /\ s.refs = [t \in Tables |-> IF t \in dead THEN {} ELSE refs[t]]
      /\ IF gcstate = "swpallgc"
         THEN /\ s.at \in {Nil, Header} \cup (Range(s.lists["allgc"]) \ {o})
              /\ Behind(s.lists, "allgc", s.at) = Behind(lists, "allgc", sweepgc) \ D
         ELSE s.at = sweepgc /\ s.lists = lists
  BY <1>2 DEF UnlinkOf
<1>4. /\ lists' = ToFinobj(s.lists, o)
      /\ color' = IF IsSweepPhase THEN [s.color EXCEPT ![o] = white] ELSE s.color
      /\ sweepgc' = s.at
      /\ refs' = s.refs
      /\ UNCHANGED <<gcstate, white, gray, grayagain>>
  BY DEF CheckFinalizer, ToFinobj
<1> HIDE DEF s
<1>5. /\ D \subseteq On("allgc") /\ (~IsSweepPhase => D = {}) /\ (gcstate # "swpallgc" => D = {})
  BY <1>3, Phase DEF Behind, On, IsSweepPhase
<1>6. /\ Well(lists')
      /\ On("allgc")' = On("allgc") \ (dead \cup {o})
      /\ On("finobj")' = On("finobj") \cup {o}
      /\ On("tobefnz")' = On("tobefnz")
      /\ \A x, y : Before(lists'["allgc"], x, y) <=> Before(s.lists["allgc"], x, y) /\ x # o /\ y # o
      /\ \A x, y : Before(lists'["finobj"], x, y) <=>
           Before(s.lists["finobj"], x, y) \/ (x = o /\ y \in Range(s.lists["finobj"]))
      /\ lists'["tobefnz"] = s.lists["tobefnz"]
  <2>1. o \in Range(s.lists["allgc"])
    BY <1>1, <1>3 DEF Lists
  <2>2. On("finobj") \cap D = {} /\ On("tobefnz") \cap D = {}
    BY <1>1, <1>5 DEF Well, Lists, On
  <2>3. /\ Well(lists')
        /\ Range(lists'["allgc"]) = Range(s.lists["allgc"]) \ {o}
        /\ Range(lists'["finobj"]) = Range(s.lists["finobj"]) \cup {o}
        /\ lists'["tobefnz"] = s.lists["tobefnz"]
        /\ \A x, y : Before(lists'["allgc"], x, y) <=> Before(s.lists["allgc"], x, y) /\ x # o /\ y # o
        /\ \A x, y : Before(lists'["finobj"], x, y) <=>
             Before(s.lists["finobj"], x, y) \/ (x = o /\ y \in Range(s.lists["finobj"]))
    BY <1>3, <1>4, <2>1, Moved
  <2> QED
    BY <1>3, <2>2, <2>3 DEF On, Lists
<1>7. /\ \A x \in Things : Exists(x)' <=> Exists(x) /\ ~ (x \in D /\ color[x] = OtherWhite)
      /\ \A x \in D : Exists(x)
  <2>1. \A x : Exists(x)' <=> x \in On("allgc")' \cup On("finobj")' \cup On("tobefnz")'
    BY DEF Exists, Lists
  <2>2. On("finobj") \cap D = {} /\ On("tobefnz") \cap D = {}
    BY <1>1, <1>5 DEF Well, Lists, On
  <2> QED
    BY <2>1, <2>2, <1>1, <1>3, <1>5, <1>6, ExistsOn
<1> DEFINE S == IF IsSweepPhase THEN {o} ELSE {}
<1>8. /\ \A x \in Things :
           color'[x] = IF x \in D /\ color[x] = OtherWhite THEN "white0"
                       ELSE IF x \in D \cup S THEN white ELSE color[x]
      /\ color' \in [Things -> Colors]
      /\ \A t \in Tables : refs'[t] = IF t \in D /\ color[t] = OtherWhite THEN {} ELSE refs[t]
      /\ refs' \in [Tables -> SUBSET Things]
  BY <1>1, <1>3, <1>4 DEF TypeOK, Colors, Whites
<1>9. On("finobj") \cup On("tobefnz") \cup stack \cup weak \subseteq Kept
  BY DEF IInv, KeptInv
<1>10. Kept' = Kept /\ KeptInv' /\ FreeInv'
  <2>1. S \in SUBSET Kept
    BY <1>1
  <2>2. (On("finobj") \cup On("tobefnz") \cup stack \cup weak)' \subseteq Kept
    BY <1>1, <1>6, <1>9
  <2>3. IsSweepPhase' \/ (~IsSweepPhase /\ D = {})
    BY <1>4, <1>5 DEF IsSweepPhase
  <2> HIDE DEF S
  <2> QED
    BY <2>1, <2>2, <2>3, <1>1, <1>4, <1>7, <1>8, KeptAfterSweep DEF IInv
<1>11. TypeOK'
  <2>1. sweepgc' \in {Nil, Header} \cup Things
    <3>1. Range(s.lists["allgc"]) \subseteq Things
      BY <1>1, <1>3 DEF Lists
    <3> QED
      BY <3>1, <1>1, <1>3, <1>4 DEF TypeOK
  <2> QED
    BY <2>1, <1>1, <1>4, <1>6, <1>8 DEF TypeOK, control
<1>12. SweepInv'
  <2>1. ASSUME NEW i \in 1 .. 3, gcstate' = Sweeps[i]
        PROVE  sweepgc' \in {Nil, Header} \cup On(Swept[Sweeps[i]])'
    <3>1. CASE gcstate = "swpallgc"
      BY <3>1, <2>1, <1>3, <1>4, <1>6, Phase DEF Lists
    <3>2. CASE gcstate # "swpallgc"
      <4>1. gcstate = Sweeps[i] /\ i \in {2, 3} /\ sweepgc' = sweepgc
        <5>1. gcstate = Sweeps[i] /\ sweepgc' = sweepgc
          BY <3>2, <2>1, <1>3, <1>4
        <5>2. i # 1
          BY <5>1, <3>2, Phase
        <5> QED
          BY <5>1, <5>2
      <4>2. sweepgc \in {Nil, Header} \cup On(Swept[Sweeps[i]])
        BY <4>1 DEF IInv, SweepInv
      <4> QED
        BY <4>1, <4>2, <1>6, Phase
    <3> QED
      BY <3>1, <3>2
  <2>2. gcstate' = "swpend" => sweepgc' = Nil
    BY <1>3, <1>4 DEF IInv, SweepInv
  <2>3. ASSUME gcstate' \in Range(Sweeps) \cup {"callfin", "pause"}, NEW x \in Things,
               Exists(x)', x \notin Unswept'
        PROVE  color'[x] = white'
    <3>1. CASE x = o /\ IsSweepPhase
      BY <3>1, <1>3, <1>4, <1>8
    <3>2. CASE x \in D
      BY <3>2, <2>3, <1>4, <1>7, <1>8
    <3>3. CASE ~ (x = o /\ IsSweepPhase) /\ x \notin D
      <4>1. color'[x] = color[x] /\ Exists(x)
        BY <3>3, <2>3, <1>7, <1>8
      <4>2. x \notin Unswept
        <5>1. CASE gcstate = "swpallgc"
          <6>1. x # o
            BY <3>3, <5>1, Phase DEF IsSweepPhase
          <6>2. ASSUME x \in Behind(lists, "allgc", sweepgc) PROVE x \in Unswept'
            <7>1. x \in Behind(s.lists, "allgc", s.at)
              BY <6>2, <5>1, <3>3, <1>3
            <7>2. x \in Behind(lists', "allgc", sweepgc')
              <8>1. s.at # o
                BY <5>1, <1>1, <1>3, LuaGCAssumption
              <8>2. Range(lists'["allgc"]) = Range(s.lists["allgc"]) \ {o}
                BY <1>3, <1>6 DEF On, Lists
              <8> QED
                BY <7>1, <8>1, <8>2, <6>1, <1>4, <1>6 DEF Behind
            <7> QED
              BY <7>2, <5>1, <1>4 DEF Unswept
          <6>3. x \notin On("finobj") \cup On("tobefnz")
            BY <2>3, <5>1, <1>4, <1>6 DEF Unswept
          <6> QED
            BY <6>2, <6>3, <2>3, <5>1 DEF Unswept
        <5>2. CASE gcstate = "swpfinobj"
          <6>1. s.lists = lists /\ s.at = sweepgc /\ sweepgc # o
            <7>1. sweepgc \in {Nil, Header} \cup On("finobj")
              BY <5>2, Phase DEF IInv, SweepInv
            <7> QED
              BY <7>1, <5>2, <1>1, <1>3, LuaGCAssumption DEF ToFinalize
          <6> QED
            BY <6>1, <5>2, <2>3, <1>4, <1>6 DEF Unswept, Behind, On
        <5>3. CASE gcstate \notin {"swpallgc", "swpfinobj"}
          BY <5>3, <2>3, <1>3, <1>4, <1>6 DEF Unswept, Behind, On
        <5> QED
          BY <5>1, <5>2, <5>3
      <4> QED
        BY <4>1, <4>2, <2>3, <1>4 DEF IInv, SweepInv
    <3> QED
      BY <3>1, <3>2, <3>3
  <2> QED
    BY <2>1, <2>2, <2>3 DEF SweepInv
<1>13. MarkInv' /\ TriColour'
  <2> SUFFICES ASSUME KeepInvariant
               PROVE  MarkInv' /\ TriColour'
    BY <1>4 DEF KeepInvariant, MarkInv, TriColour
  <2>1. ~IsSweepPhase /\ KeepInvariant'
    BY <1>4, Phase DEF KeepInvariant, IsSweepPhase
  <2>2. /\ \A x \in Things : color'[x] = color[x] /\ (Exists(x)' <=> Exists(x))
        /\ refs' = refs
    BY <2>1, <1>1, <1>5, <1>7, <1>8 DEF TypeOK
  <2>3. Thread \notin Things /\ Tables \subseteq Things /\ gray \cup grayagain \subseteq Tables \cup {Thread}
    BY <1>1, LuaGCAssumption DEF TypeOK, Things
  <2>4. MarkInv'
    BY <2>1, <2>2, <2>3, <1>1, <1>4, <1>6 DEF IInv, MarkInv, Lists
  <2>5. TriColour'
    BY <2>1, <2>2, <2>3, <1>1 DEF IInv, TriColour, TypeOK
  <2> QED
    BY <2>4, <2>5
<1>14. WeakInv'
  BY <1>6 DEF IInv, WeakInv
<1>15. \A x \in Kept : color[x] # OtherWhite
  BY DEF Kept
<1> QED
  BY <1>6, <1>8, <1>10, <1>11, <1>12, <1>13, <1>14, <1>15 DEF IInv

-----------------------------------------------------------------------------
(***************************************************************************)
(* The collector's steps.                                                  *)
(***************************************************************************)
\* What a sweep of D, on one of the lists, leaves. Where it goes on is up to the
\* step.
SweptHeap(D, list, at) ==
  LET dead == {x \in D : color[x] = OtherWhite} IN
  /\ D \subseteq Behind(lists, list, sweepgc)
  /\ Well(lists')
  /\ \A x \in Lists : On(x)' = On(x) \ dead
  /\ \A x \in Things : color'[x] = IF x \in dead THEN "white0" ELSE IF x \in D THEN white ELSE color[x]
  /\ \A t \in Tables : refs'[t] = IF t \in dead THEN {} ELSE refs[t]
  /\ color' \in [Things -> Colors] /\ refs' \in [Tables -> SUBSET Things]
  /\ at \in {Nil, Header} \cup On(list)'
  /\ Behind(lists', list, at) = Behind(lists, list, sweepgc) \ D

LEMMA SweepStepIs ==
  ASSUME IInv, NEW i \in 1 .. 3, gcstate = Sweeps[i],
         NEW s,
         s = IF sweepgc = Nil
             THEN [lists |-> lists, color |-> color, refs |-> refs, at |-> Nil]
             ELSE Sweep(lists, color, refs, Swept[Sweeps[i]], sweepgc, SweepMax, white),
         lists' = s.lists, color' = s.color, refs' = s.refs
  PROVE  \E D \in SUBSET Things : SweptHeap(D, Swept[Sweeps[i]], s.at)
<1> DEFINE list == Swept[Sweeps[i]]
<1>1. /\ Well(lists) /\ color \in [Things -> Colors] /\ refs \in [Tables -> SUBSET Things]
      /\ Whites \ {white} = {OtherWhite} /\ white \in Whites
      /\ \A x \in Lists : On(x) \subseteq Things
  BY OnThings DEF IInv, TypeOK, Whites, OtherWhite
<1>2. list \in Lists /\ sweepgc \in {Nil, Header} \cup On(list)
  BY Phase DEF IInv, SweepInv, Lists
<1> HIDE DEF list
<1>3. CASE sweepgc = Nil
  <2>1. lists' = lists /\ color' = color /\ refs' = refs /\ s.at = Nil
    BY <1>3
  <2>2. SweptHeap({}, list, s.at)
    BY <1>1, <1>3, <2>1 DEF SweptHeap, On, Behind
  <2> QED
    BY <2>2 DEF list
<1>4. CASE sweepgc # Nil
  <2>1. s = Sweep(lists, color, refs, list, sweepgc, SweepMax, white)
    BY <1>4 DEF list
  <2>2. sweepgc \in {Header} \cup Range(lists[list]) /\ SweepMax \in Nat
    BY <1>2, <1>4, LuaGCAssumption DEF On
  <2>3. PICK D \in SUBSET Behind(lists, list, sweepgc) :
          SweepOf(D, lists, color, refs, list, sweepgc, SweepMax, white)
    BY <1>1, <1>2, <2>2, SweepIs
  <2>4. {x \in D : color[x] \in Whites \ {white}} = {x \in D : color[x] = OtherWhite}
    BY <1>1
  <2>5. D \in SUBSET Things
    BY <1>1, <1>2 DEF Behind, On
  <2>6. SweptHeap(D, list, s.at)
    <3> DEFINE dead == {x \in D : color[x] = OtherWhite}
    <3>1. /\ Well(s.lists)
          /\ \A x \in Lists : Range(s.lists[x]) = Range(lists[x]) \ dead
          /\ s.color = [o \in Things |-> IF o \in dead THEN "white0"
                                         ELSE IF o \in D THEN white ELSE color[o]]
          /\ s.refs = [t \in Tables |-> IF t \in dead THEN {} ELSE refs[t]]
          /\ s.at \in {Nil, Header} \cup Range(s.lists[list])
          /\ Behind(s.lists, list, s.at) = Behind(lists, list, sweepgc) \ D
      BY <2>1, <2>3, <2>4 DEF SweepOf
    <3>2. color' \in [Things -> Colors] /\ refs' \in [Tables -> SUBSET Things]
      BY <3>1, <1>1 DEF Colors, Whites
    <3> HIDE DEF dead
    <3>3. SweptHeap(D, list, s.at)
      BY <3>1, <3>2 DEF SweptHeap, On, dead
    <3> QED
      BY <3>3
  <2> QED
    BY <2>5, <2>6 DEF list
<1> QED
  BY <1>3, <1>4

LEMMA SweepStepStep ==
  ASSUME IInv, SweepStep, UNCHANGED control
  PROVE  /\ IInv'
         /\ \A list \in Lists : On(list)' \subseteq On(list) /\ On(list) \cap Kept \subseteq On(list)'
         /\ \A t \in Kept \cap Tables : refs'[t] = refs[t]
<1> DEFINE At(i) ==
      IF sweepgc = Nil
      THEN [lists |-> lists, color |-> color, refs |-> refs, at |-> Nil]
      ELSE Sweep(lists, color, refs, Swept[Sweeps[i]], sweepgc, SweepMax, white)
<1>1. PICK i \in 1 .. 3 :
        /\ gcstate = Sweeps[i]
        /\ lists' = At(i).lists /\ color' = At(i).color /\ refs' = At(i).refs
        /\ IF At(i).at # Nil THEN sweepgc' = At(i).at /\ UNCHANGED gcstate
           ELSE /\ sweepgc' = IF i = 3 THEN Nil ELSE Header
                /\ gcstate' = Sweeps[i + 1]
        /\ UNCHANGED <<white, gray, grayagain, control, stack, weak, building>>
  BY DEF SweepStep
<1> DEFINE list == Swept[Sweeps[i]]
           at == At(i).at
<1>2. PICK D \in SUBSET Things : SweptHeap(D, list, at)
  BY <1>1, SweepStepIs
<1> HIDE DEF At
<1> DEFINE dead == {x \in D : color[x] = OtherWhite}
<1>3. /\ D \subseteq Behind(lists, list, sweepgc)
      /\ Well(lists')
      /\ \A x \in Lists : On(x)' = On(x) \ dead
      /\ \A x \in Things : color'[x] = IF x \in dead THEN "white0" ELSE IF x \in D THEN white ELSE color[x]
      /\ \A t \in Tables : refs'[t] = IF t \in dead THEN {} ELSE refs[t]
      /\ color' \in [Things -> Colors] /\ refs' \in [Tables -> SUBSET Things]
      /\ at \in {Nil, Header} \cup On(list)'
      /\ Behind(lists', list, at) = Behind(lists, list, sweepgc) \ D
  BY <1>2 DEF SweptHeap
<1>4. /\ TypeOK /\ Well(lists) /\ list \in Lists
      /\ D \subseteq On(list) /\ (\A x \in Lists : x # list => On(x) \cap D = {})
  <2>1. TypeOK /\ Well(lists) /\ list \in Lists
    BY Phase DEF IInv, TypeOK, Lists
  <2>2. D \subseteq On(list)
    BY <1>3 DEF Behind, On
  <2> HIDE DEF list
  <2> QED
    BY <2>1, <2>2 DEF Well, On
<1>5. On("finobj") \cup On("tobefnz") \cup stack \cup weak \subseteq Kept
  BY DEF IInv, KeptInv
<1>6. /\ \A x \in Things : Exists(x)' <=> Exists(x) /\ ~ (x \in D /\ color[x] = OtherWhite)
      /\ \A x \in D : Exists(x)
  <2>1. ASSUME NEW x \in Things
        PROVE  Exists(x)' <=> Exists(x) /\ x \notin dead
    BY <1>3 DEF Exists
  <2> QED
    BY <2>1, <1>4 DEF Exists
<1>7. IsSweepPhase' /\ ~KeepInvariant' /\ gcstate' \in Phases
  <2>1. gcstate' = Sweeps[i] \/ gcstate' = Sweeps[i + 1]
    BY <1>1
  <2> QED
    BY <2>1, Phase DEF IsSweepPhase, KeepInvariant, Phases
<1>8. Kept' = Kept /\ KeptInv' /\ FreeInv'
  <2>1. (On("finobj") \cup On("tobefnz") \cup stack \cup weak)' \subseteq Kept
    BY <1>1, <1>3, <1>5 DEF Lists
  <2> HIDE DEF dead, list, at
  <2>2. \A x \in Things : color'[x] = IF x \in D /\ color[x] = OtherWhite THEN "white0"
                                     ELSE IF x \in D \cup {} THEN white ELSE color[x]
    BY <1>3 DEF dead
  <2>3. \A t \in Tables : refs'[t] = IF t \in D /\ color[t] = OtherWhite THEN {} ELSE refs[t]
    BY <1>3 DEF dead
  <2>4. TypeOK /\ KeptInv /\ FreeInv /\ {} \in SUBSET Kept /\ white' = white
    BY <1>1 DEF IInv
  <2> QED
    BY <2>1, <2>2, <2>3, <2>4, <1>6, <1>7, KeptAfterSweep
<1>9. TypeOK'
  <2>1. sweepgc' \in {Nil, Header} \cup Things
    <3>1. Range(lists'[list]) \subseteq Things
      BY <1>3, <1>4 DEF Well, Range
    <3> QED
      BY <3>1, <1>1, <1>3 DEF On
  <2> QED
    BY <2>1, <1>1, <1>3, <1>4, <1>7 DEF TypeOK, control
<1>10. SweepInv'
  <2>1. \A x \in Lists : x # list => On(x)' = On(x)
    BY <1>3, <1>4
  <2>2. ASSUME NEW x \in Things, Exists(x)', x \notin Unswept' PROVE color'[x] = white'
    <3>1. CASE x \in D
      BY <3>1, <2>2, <1>1, <1>3, <1>6
    <3>2. CASE x \notin D
      <4>1. color'[x] = color[x] /\ Exists(x) /\ white' = white
        BY <3>2, <2>2, <1>1, <1>3, <1>6
      <4>2. x \notin Unswept
        <5>1. CASE at # Nil
          <6>1. x \in Behind(lists, list, sweepgc) <=> x \in Behind(lists', list, at)
            BY <3>2, <1>3
          <6>2. gcstate' = gcstate /\ sweepgc' = at
            BY <5>1, <1>1
          <6> HIDE DEF at
          <6>3. CASE i = 1
            BY <6>1, <6>2, <6>3, <2>1, <2>2, <1>1, Phase DEF Unswept, Lists
          <6>4. CASE i = 2
            BY <6>1, <6>2, <6>4, <2>1, <2>2, <1>1, Phase DEF Unswept, Lists
          <6>5. CASE i = 3
            BY <6>1, <6>2, <6>5, <2>1, <2>2, <1>1, Phase DEF Unswept, Lists
          <6> QED
            BY <6>3, <6>4, <6>5
        <5>2. CASE at = Nil
          <6>1. x \notin Behind(lists, list, sweepgc)
            BY <5>2, <3>2, <1>3 DEF Behind
          <6>2. gcstate' = Sweeps[i + 1] /\ sweepgc' = IF i = 3 THEN Nil ELSE Header
            BY <5>2, <1>1
          <6>3. CASE i = 1
            BY <6>1, <6>2, <6>3, <2>1, <2>2, <1>1, Phase, LuaGCAssumption DEF Unswept, Behind, On, Lists
          <6>4. CASE i = 2
            BY <6>1, <6>2, <6>4, <2>1, <2>2, <1>1, Phase, LuaGCAssumption DEF Unswept, Behind, On, Lists
          <6>5. CASE i = 3
            BY <6>1, <6>5, <1>1, Phase DEF Unswept
          <6> QED
            BY <6>3, <6>4, <6>5
        <5> QED
          BY <5>1, <5>2
      <4> QED
        BY <4>1, <4>2, <1>1, Phase DEF IInv, SweepInv
    <3> QED
      BY <3>1, <3>2
  <2>3. /\ \A j \in 1 .. 3 : gcstate' = Sweeps[j] => sweepgc' \in {Nil, Header} \cup On(Swept[Sweeps[j]])'
        /\ gcstate' = "swpend" => sweepgc' = Nil
    <3>1. CASE at # Nil
      <4>1. gcstate' = gcstate /\ sweepgc' = at
        BY <3>1, <1>1
      <4>2. \A j \in 1 .. 3 : gcstate = Sweeps[j] => Swept[Sweeps[j]] = list
        BY <1>1
      <4>3. gcstate # "swpend"
        BY <1>1, Phase
      <4> HIDE DEF at, list
      <4> QED
        BY <4>1, <4>2, <4>3, <1>3
    <3>2. CASE at = Nil
      <4>1. gcstate' = Sweeps[i + 1] /\ sweepgc' = IF i = 3 THEN Nil ELSE Header
        BY <3>2, <1>1
      <4>2. CASE i = 3
        BY <4>1, <4>2
      <4>3. CASE i # 3
        <5>1. i \in {1, 2} /\ gcstate' # "swpend"
          BY <4>1, <4>3, Phase
        <5> QED
          BY <4>1, <4>3, <5>1
      <4> QED
        BY <4>2, <4>3
    <3> QED
      BY <3>1, <3>2
  <2> QED
    BY <2>2, <2>3 DEF SweepInv
<1>11. MarkInv' /\ TriColour'
  BY <1>7 DEF MarkInv, TriColour
<1>12. WeakInv'
  <2>1. \A x \in Kept : x \notin dead
    BY DEF Kept
  <2> QED
    BY <2>1, <1>1, <1>3, <1>5 DEF IInv, WeakInv, Lists
<1>13. \A x \in Kept : color[x] # OtherWhite
  BY DEF Kept
<1> QED
  BY <1>3, <1>8, <1>9, <1>10, <1>11, <1>12, <1>13 DEF IInv

LEMMA FullGCStep ==
  ASSUME IInv, NEW kind \in BOOLEAN, FullGC(kind)
  PROVE  IInv' /\ (\A list \in Lists : On(list)' = On(list)) /\ UNCHANGED <<refs, stack, weak>>
<1>1. /\ UNCHANGED <<stack, weak, building, finalizing>>
      /\ full' = "finish" /\ emergency' = kind
  BY DEF FullGC
<1>2. CASE ~KeepInvariant
  <2>1. UNCHANGED <<gcstate, white, color, gray, grayagain, lists, sweepgc, refs>>
    BY <1>2 DEF FullGC, heap
  <2>2. WeakInv'
    BY <1>1, <2>1 DEF IInv, WeakInv, On
  <2> QED
    BY <1>1, <2>1, <2>2, HeapStays DEF IInv, TypeOK, KeptInv, On
<1>3. CASE KeepInvariant
  <2> DEFINE s == Sweep(lists, color, refs, "allgc", Header, 1, white)
  <2>1. /\ gcstate' = "swpallgc"
        /\ lists' = s.lists /\ color' = s.color /\ refs' = s.refs /\ sweepgc' = s.at
        /\ UNCHANGED <<white, gray, grayagain>>
    BY <1>3 DEF FullGC
  <2>2. /\ TypeOK /\ Well(lists) /\ color \in [Things -> Colors] /\ refs \in [Tables -> SUBSET Things]
        /\ Whites \ {white} = {OtherWhite} /\ white \in Whites
        /\ \A x \in Lists : On(x) \subseteq Things
    BY OnThings DEF IInv, TypeOK, Whites, OtherWhite
  <2>3. "allgc" \in Lists /\ Header \in {Header} \cup Range(lists["allgc"])
        /\ Behind(lists, "allgc", Header) = On("allgc") /\ 1 \in Nat
    BY LuaGCAssumption DEF Lists, Behind, On
  <2>4. PICK D \in SUBSET Behind(lists, "allgc", Header) :
          SweepOf(D, lists, color, refs, "allgc", Header, 1, white)
    BY <2>2, <2>3, SweepIs
  <2>5. ~IsSweepPhase /\ IsSweepPhase' /\ ~KeepInvariant'
    BY <1>3, <2>1, Phase DEF KeepInvariant, IsSweepPhase
  <2>6. D \subseteq On("allgc") /\ {x \in D : color[x] \in Whites \ {white}} = {}
    <3>1. \A x \in D : Exists(x) /\ x \in Things
      BY <2>2, <2>3 DEF Exists
    <3>2. \A x \in D : x \in Kept
      BY <3>1, <2>5 DEF IInv, KeptInv
    <3> QED
      BY <3>2, <2>2, <2>3 DEF Kept
  <2>7. /\ Well(s.lists)
        /\ \A x \in Lists : Range(s.lists[x]) = Range(lists[x])
        /\ s.color = [o \in Things |-> IF o \in D THEN white ELSE color[o]]
        /\ s.refs = [t \in Tables |-> refs[t]]
        /\ s.at \in {Nil, Header} \cup Range(s.lists["allgc"])
        /\ Behind(s.lists, "allgc", s.at) = On("allgc") \ D
    BY <2>3, <2>4, <2>6 DEF SweepOf
  <2> HIDE DEF s
  <2>8. /\ Well(lists') /\ refs' = refs
        /\ \A x \in Lists : On(x)' = On(x)
        /\ \A x \in Things : color'[x] = IF x \in D THEN white ELSE color[x]
        /\ color' \in [Things -> Colors]
        /\ sweepgc' \in {Nil, Header} \cup On("allgc")
        /\ Behind(lists', "allgc", sweepgc') = On("allgc") \ D
    BY <2>1, <2>2, <2>3, <2>7 DEF On, Colors
  <2>9. \A x : Exists(x)' <=> Exists(x)
    BY <2>8 DEF Exists
  <2>10. Kept' = Kept /\ KeptInv' /\ FreeInv'
    <3>1. /\ \A x \in D : Exists(x) /\ color[x] # OtherWhite
          /\ D \in SUBSET Things
      BY <2>2, <2>3, <2>6 DEF Exists
    <3>2. (On("finobj") \cup On("tobefnz") \cup stack \cup weak)' \subseteq Kept
      BY <1>1, <2>8 DEF IInv, KeptInv, Lists
    <3>3. TypeOK /\ KeptInv /\ FreeInv /\ {} \in SUBSET Kept /\ white' = white
      BY <2>1 DEF IInv
    <3>4. \A x \in Things : color'[x] = IF x \in D /\ color[x] = OtherWhite THEN "white0"
                                     ELSE IF x \in D \cup {} THEN white ELSE color[x]
      BY <2>8, <3>1
    <3>5. \A t \in Tables : refs'[t] = IF t \in D /\ color[t] = OtherWhite THEN {} ELSE refs[t]
      BY <2>8, <3>1
    <3>6. \A x \in Things : Exists(x)' <=> Exists(x) /\ ~ (x \in D /\ color[x] = OtherWhite)
      BY <2>9, <3>1
    <3> QED
      BY <2>5, <3>1, <3>2, <3>3, <3>4, <3>5, <3>6, KeptAfterSweep
  <2>11. TypeOK'
    <3>1. On("allgc") \subseteq Things
      BY <2>2, <2>3
    <3> QED
      BY <3>1, <1>1, <2>1, <2>2, <2>8, Phase DEF TypeOK, Phases
  <2>12. SweepInv'
    <3>1. ASSUME NEW x \in Things, Exists(x)', x \notin Unswept' PROVE color'[x] = white'
      <4>1. x \in D
        BY <3>1, <2>1, <2>8, <2>9, ExistsOn DEF Unswept, Lists
      <4> QED
        BY <4>1, <2>1, <2>8
    <3>2. \A i \in 1 .. 3 : gcstate' = Sweeps[i] => Swept[Sweeps[i]] = "allgc"
      BY <2>1, Phase
    <3> QED
      BY <3>1, <3>2, <2>1, <2>3, <2>8 DEF SweepInv
  <2>13. MarkInv' /\ TriColour'
    BY <2>5 DEF MarkInv, TriColour
  <2>14. WeakInv'
    BY <1>1, <2>8 DEF IInv, WeakInv, Lists
  <2> QED
    BY <1>1, <2>8, <2>10, <2>11, <2>12, <2>13, <2>14 DEF IInv
<1> QED
  BY <1>2, <1>3

\* The head of tobefnz, at the head of allgc instead.
LEMMA Returned ==
  ASSUME Well(lists), lists.tobefnz # <<>>, NEW o, o = lists.tobefnz[1],
         lists' = [lists EXCEPT !.tobefnz = Tail(@), !.allgc = <<o>> \o @]
  PROVE  /\ Well(lists') /\ o \in On("tobefnz") /\ o \in Things
         /\ On("allgc")' = On("allgc") \cup {o}
         /\ On("finobj")' = On("finobj") /\ lists'["finobj"] = lists["finobj"]
         /\ On("tobefnz")' = On("tobefnz") \ {o}
         /\ \A x, y : Before(lists'["allgc"], x, y) <=>
              Before(lists["allgc"], x, y) \/ (x = o /\ y \in On("allgc"))
         /\ \A x, y : Before(lists["tobefnz"], x, y) =>
              y # o /\ (Before(lists'["tobefnz"], x, y) \/ x = o)
<1> DEFINE a == lists["allgc"]
           b == lists["tobefnz"]
<1>1. /\ a \in Seq(Things) /\ IsInjective(a)
      /\ b \in Seq(Things) /\ IsInjective(b) /\ b # <<>>
      /\ lists["finobj"] \in Seq(Things) /\ IsInjective(lists["finobj"])
      /\ Range(a) \cap Range(b) = {} /\ Range(a) \cap Range(lists["finobj"]) = {}
      /\ Range(b) \cap Range(lists["finobj"]) = {}
      /\ lists \in [Lists -> Seq(Things)]
  BY DEF Well, Lists
<1>2. /\ o \in Things /\ o \in Range(b)
      /\ Tail(b) \in Seq(Things)
      /\ Range(b) = {o} \cup Range(Tail(b))
      /\ \A x, y : Before(b, x, y) <=> Before(Tail(b), x, y) \/ (x = o /\ y \in Range(Tail(b)))
  <2> HIDE DEF b
  <2>1. o = b[1]
    BY DEF b
  <2> QED
    BY <1>1, <2>1, TailOrder
<1>3. /\ <<o>> \o a \in Seq(Things)
      /\ Range(<<o>> \o a) = {o} \cup Range(a)
      /\ \A x, y : Before(<<o>> \o a, x, y) <=> Before(a, x, y) \/ (x = o /\ y \in Range(a))
  <2> HIDE DEF a
  <2> QED
    BY <1>1, <1>2, ConsOrder
<1>4. /\ lists' \in [Lists -> Seq(Things)]
      /\ lists'["allgc"] = <<o>> \o a /\ lists'["tobefnz"] = Tail(b)
      /\ lists'["finobj"] = lists["finobj"]
  BY <1>1, <1>2, <1>3 DEF Lists
<1> HIDE DEF a, b
<1>5. o \notin Range(Tail(b))
  <2>1. \A x : ~Before(b, x, x)
    BY <1>1, Distinct
  <2> QED
    BY <2>1, <1>2
<1>6. IsInjective(<<o>> \o a) /\ IsInjective(Tail(b))
  <2>1. \A x : ~Before(a, x, x) /\ ~Before(b, x, x)
    BY <1>1, Distinct
  <2>2. \A x : ~Before(<<o>> \o a, x, x) /\ ~Before(Tail(b), x, x)
    BY <2>1, <1>1, <1>2, <1>3
  <2> QED
    BY <2>2, <1>2, <1>3, Distinct
<1>7. Well(lists')
  <2>1. \A list \in Lists : IsInjective(lists'[list])
    BY <1>1, <1>4, <1>6 DEF Lists
  <2>2. /\ Range(lists'["allgc"]) \cap Range(lists'["tobefnz"]) = {}
        /\ Range(lists'["allgc"]) \cap Range(lists'["finobj"]) = {}
        /\ Range(lists'["tobefnz"]) \cap Range(lists'["finobj"]) = {}
    BY <1>1, <1>2, <1>3, <1>4, <1>5
  <2>3. \A l1, l2 \in Lists : l1 # l2 => Range(lists'[l1]) \cap Range(lists'[l2]) = {}
    BY <2>2 DEF Lists
  <2> QED
    BY <2>1, <2>3, <1>4 DEF Well
<1>8. \A x, y : Before(b, x, y) => y # o /\ (Before(Tail(b), x, y) \/ x = o)
  <2>1. \A x, y : Before(Tail(b), x, y) => y \in Range(Tail(b))
    BY <1>2, BeforeInRange
  <2> QED
    BY <2>1, <1>2, <1>5
<1> QED
  BY <1>2, <1>3, <1>4, <1>5, <1>7, <1>8 DEF On, a, b

LEMMA CallFinalizerStep ==
  ASSUME IInv, ~Outruns, CallFinalizer
  PROVE  IInv'
<1> DEFINE o == lists.tobefnz[1]
<1>1. /\ lists.tobefnz # <<>>
      /\ ~ (gcstate = "swptobefnz" /\ sweepgc = o)
      /\ lists' = [lists EXCEPT !.tobefnz = Tail(@), !.allgc = <<o>> \o @]
      /\ color' = IF IsSweepPhase THEN [color EXCEPT ![o] = white] ELSE color
      /\ \/ o \in Tables /\ finalizing' = o /\ stack' = stack \cup {o}
         \/ UNCHANGED <<finalizing, stack>>
      /\ UNCHANGED <<gcstate, white, gray, grayagain, sweepgc, full, emergency, fulls,
                     refs, weak, building>>
  BY DEF CallFinalizer
<1>2. TypeOK /\ Well(lists)
  BY DEF IInv, TypeOK
<1>3. /\ Well(lists') /\ o \in On("tobefnz") /\ o \in Things
      /\ On("allgc")' = On("allgc") \cup {o}
      /\ On("finobj")' = On("finobj") /\ lists'["finobj"] = lists["finobj"]
      /\ On("tobefnz")' = On("tobefnz") \ {o}
      /\ \A x, y : Before(lists'["allgc"], x, y) <=>
           Before(lists["allgc"], x, y) \/ (x = o /\ y \in On("allgc"))
      /\ \A x, y : Before(lists["tobefnz"], x, y) =>
           y # o /\ (Before(lists'["tobefnz"], x, y) \/ x = o)
  <2> HIDE DEF o
  <2>1. o = lists.tobefnz[1]
    BY DEF o
  <2> QED
    BY <1>1, <1>2, <2>1, Returned
<1> HIDE DEF o
<1>4. \A x : Exists(x)' <=> Exists(x)
  <2>1. \A x : Exists(x)' <=> x \in On("allgc")' \cup On("finobj")' \cup On("tobefnz")'
    BY DEF Exists, Lists
  <2> QED
    BY <2>1, <1>3, ExistsOn
<1>5. /\ stack' \subseteq stack \cup {o} /\ stack \subseteq stack'
      /\ finalizing' \in Tables \cup {Nil}
      /\ On("finobj") \cup On("tobefnz") \cup stack \cup weak \subseteq Kept
  BY <1>1 DEF IInv, TypeOK, KeptInv
<1> DEFINE S == IF IsSweepPhase THEN {o} ELSE {}
<1>6. /\ \A x \in Things : color'[x] = IF x \in S THEN white ELSE color[x]
      /\ color' \in [Things -> Colors]
  BY <1>1, <1>2, <1>3 DEF TypeOK, Colors
<1>7. Kept' = Kept /\ KeptInv' /\ FreeInv'
  <2>1. S \in SUBSET Kept
    BY <1>3, <1>5
  <2>2. (On("finobj") \cup On("tobefnz") \cup stack \cup weak)' \subseteq Kept
    BY <1>1, <1>3, <1>5
  <2>3. TypeOK /\ KeptInv /\ FreeInv /\ {} \in SUBSET Things /\ white' = white
    BY <1>1 DEF IInv
  <2>4. IsSweepPhase' \/ (~IsSweepPhase /\ {} = {})
    BY <1>1 DEF IsSweepPhase
  <2> HIDE DEF S
  <2>5. \A x \in Things : color'[x] = IF x \in {} /\ color[x] = OtherWhite THEN "white0"
                                   ELSE IF x \in {} \cup S THEN white ELSE color[x]
    BY <1>6
  <2>6. \A t \in Tables : refs'[t] = IF t \in {} /\ color[t] = OtherWhite THEN {} ELSE refs[t]
    BY <1>1
  <2>7. \A x \in Things : Exists(x)' <=> Exists(x) /\ ~ (x \in {} /\ color[x] = OtherWhite)
    BY <1>4
  <2>8. \A x \in {} : Exists(x)
    OBVIOUS
  <2> QED
    BY <2>1, <2>2, <2>3, <2>4, <2>5, <2>6, <2>7, <2>8, KeptAfterSweep
<1>8. TypeOK'
  BY <1>1, <1>2, <1>3, <1>5, <1>6 DEF TypeOK
<1>9. SweepInv'
  <2>1. ASSUME NEW i \in 1 .. 3, gcstate' = Sweeps[i]
        PROVE  sweepgc' \in {Nil, Header} \cup On(Swept[Sweeps[i]])'
    <3>1. sweepgc' \in {Nil, Header} \cup On(Swept[Sweeps[i]]) /\ gcstate = Sweeps[i]
      BY <2>1, <1>1 DEF IInv, SweepInv
    <3>2. CASE i = 1
      BY <3>1, <3>2, <1>3, Phase
    <3>3. CASE i = 2
      BY <3>1, <3>3, <1>3, Phase
    <3>4. CASE i = 3
      BY <3>1, <3>4, <1>1, <1>3, Phase
    <3> QED
      BY <3>2, <3>3, <3>4
  <2>2. gcstate' = "swpend" => sweepgc' = Nil
    BY <1>1 DEF IInv, SweepInv
  <2>3. ASSUME gcstate' \in Range(Sweeps) \cup {"callfin", "pause"}, NEW x \in Things,
               Exists(x)', x \notin Unswept'
        PROVE  color'[x] = white'
    <3>1. CASE x = o /\ IsSweepPhase
      BY <3>1, <1>1, <1>6
    <3>2. CASE ~ (x = o /\ IsSweepPhase)
      <4>1. color'[x] = color[x] /\ Exists(x) /\ white' = white
        BY <3>2, <2>3, <1>1, <1>4, <1>6
      <4>2. x \notin Unswept
        <5>1. CASE IsSweepPhase
          <6>0. x # o
            BY <3>2, <5>1
          <6>1. CASE gcstate = "swpallgc"
            <7>1. sweepgc # o
              <8>1. sweepgc \in {Nil, Header} \cup On("allgc")
                BY <6>1, Phase DEF IInv, SweepInv
              <8>2. o \notin On("allgc")
                BY <1>2, <1>3 DEF Well, Lists, On
              <8> QED
                BY <8>1, <8>2, <1>3, LuaGCAssumption
            <7> QED
              BY <6>0, <6>1, <7>1, <2>3, <1>1, <1>3 DEF Unswept, Behind, On
          <6>2. CASE gcstate = "swpfinobj"
            BY <6>0, <6>2, <2>3, <1>1, <1>3 DEF Unswept, Behind, On
          <6>3. CASE gcstate = "swptobefnz"
            <7>1. sweepgc # o
              BY <1>1, <6>3
            <7> QED
              BY <6>0, <6>3, <7>1, <2>3, <1>1, <1>3 DEF Unswept, Behind, On
          <6>4. CASE gcstate = "swpend"
            BY <6>4 DEF Unswept
          <6> QED
            BY <5>1, <6>1, <6>2, <6>3, <6>4, Phase DEF IsSweepPhase
        <5>2. CASE ~IsSweepPhase
          BY <5>2, Phase DEF Unswept, IsSweepPhase
        <5> QED
          BY <5>1, <5>2
      <4> QED
        BY <4>1, <4>2, <2>3, <1>1 DEF IInv, SweepInv
    <3> QED
      BY <3>1, <3>2
  <2> QED
    BY <2>1, <2>2, <2>3 DEF SweepInv
<1>10. MarkInv' /\ TriColour'
  <2> SUFFICES ASSUME KeepInvariant
               PROVE  MarkInv' /\ TriColour'
    BY <1>1 DEF KeepInvariant, MarkInv, TriColour
  <2>1. KeepInvariant' /\ color' = color
    BY <1>1, Phase DEF KeepInvariant, IsSweepPhase
  <2>2. MarkInv'
    BY <2>1, <1>1, <1>3, <1>4 DEF IInv, MarkInv
  <2>3. TriColour'
    BY <2>1, <1>1, <1>4 DEF IInv, TriColour
  <2> QED
    BY <2>2, <2>3
<1>11. WeakInv'
  BY <1>1, <1>3 DEF IInv, WeakInv
<1> QED
  BY <1>7, <1>8, <1>9, <1>10, <1>11 DEF IInv

\* Marking some objects keeps what concerns the sweeps.
LEMMA MarkingStep ==
  ASSUME IInv, ~IsSweepPhase, gcstate' \in {"propagate", "atomic"},
         UNCHANGED <<white, lists, sweepgc, emergency, fulls, finalizing, program>>,
         full' \in {"no", "finish", "collect"},
         color' \in [Things -> Colors],
         \A x \in Things : color'[x] = color[x] \/ (Exists(x) /\ color'[x] \notin Whites),
         gray' \cup grayagain' \subseteq Tables \cup {Thread}
  PROVE  /\ TypeOK' /\ SweepInv' /\ KeptInv' /\ FreeInv' /\ WeakInv' /\ KeepInvariant'
         /\ \A list : On(list)' = On(list)
         /\ \A x : Exists(x)' <=> Exists(x)
         /\ \A x \in Things : Exists(x) => x \in Kept
<1>1. /\ \A list : On(list)' = On(list)
      /\ \A x : Exists(x)' <=> Exists(x)
      /\ OtherWhite' = OtherWhite /\ OtherWhite \in Whites
      /\ \A x \in Things : Exists(x) => x \in Kept
      /\ KeepInvariant'
  BY DEF On, Exists, OtherWhite, Whites, IInv, KeptInv, KeepInvariant
<1>2. TypeOK'
  BY DEF IInv, TypeOK, Phases, program
<1>3. SweepInv'
  BY Phase DEF SweepInv
<1>4. Kept' = Kept
  BY <1>1 DEF Kept
<1>5. KeptInv'
  BY <1>1, <1>4 DEF IInv, KeptInv, program
<1>6. FreeInv'
  BY <1>1 DEF IInv, FreeInv, Successors, program
<1>7. WeakInv'
  BY <1>1 DEF IInv, WeakInv, program
<1> QED
  BY <1>1, <1>2, <1>3, <1>5, <1>6, <1>7

LEMMA RestartStep ==
  ASSUME IInv, RestartCollection
  PROVE  IInv'
<1>1. /\ gcstate = "pause" /\ gcstate' = "propagate"
      /\ color' = Marked(color, BeingFinalized)
      /\ gray' = {Thread} \cup WhiteTables(BeingFinalized) /\ grayagain' = {}
      /\ UNCHANGED <<white, lists, sweepgc, emergency, fulls, finalizing, program>>
      /\ full' = IF full = "finish" THEN "collect" ELSE full
  BY DEF RestartCollection
<1>2. TypeOK /\ Well(lists) /\ On("tobefnz") \subseteq Things /\ ~IsSweepPhase
  BY <1>1, OnThings, Phase DEF IInv, TypeOK, Lists, IsSweepPhase
<1>3. /\ \A x \in Things : color'[x] = IF x \in On("tobefnz") /\ color[x] \in Whites
                                       THEN IF x \in Tables THEN "gray" ELSE "black"
                                       ELSE color[x]
      /\ color' \in [Things -> Colors]
  BY <1>1, <1>2 DEF Marked, BeingFinalized, TypeOK, Colors
<1>4. \A x \in On("tobefnz") : Exists(x)
  BY ExistsOn
<1>5. \A x \in Things : color[x] \in Whites
  <2>1. \A x \in Things : Exists(x) => color[x] = white
    BY <1>1, Phase DEF IInv, SweepInv, Unswept
  <2> QED
    BY <2>1, <1>2 DEF IInv, FreeInv, TypeOK
<1>6. gray' \cup grayagain' \subseteq Tables \cup {Thread}
  BY <1>1 DEF WhiteTables
<1>7. /\ TypeOK' /\ SweepInv' /\ KeptInv' /\ FreeInv' /\ WeakInv' /\ KeepInvariant'
      /\ \A list : On(list)' = On(list)
      /\ \A x : Exists(x)' <=> Exists(x)
  <2>1. \A x \in Things : color'[x] = color[x] \/ (Exists(x) /\ color'[x] \notin Whites)
    BY <1>3, <1>4 DEF Whites
  <2>2. gcstate' \in {"propagate", "atomic"} /\ full' \in {"no", "finish", "collect"}
    BY <1>1, <1>2 DEF TypeOK
  <2> QED
    BY <2>1, <2>2, <1>1, <1>2, <1>3, <1>6, MarkingStep
<1>8. MarkInv'
  <2>1. \A x \in gray' \cup grayagain' : x = Thread \/ Exists(x)'
    BY <1>1, <1>4, <1>7 DEF WhiteTables, BeingFinalized
  <2>2. \A t \in Tables : color'[t] = "gray" => t \in gray'
    BY <1>1, <1>2, <1>3, <1>5 DEF WhiteTables, BeingFinalized, Whites, Things
  <2>3. \A x \in On("tobefnz")' : color'[x] \notin Whites
    BY <1>2, <1>3, <1>5, <1>7 DEF Whites
  <2> QED
    BY <2>1, <2>2, <2>3, <1>1 DEF MarkInv
<1>9. TriColour'
  <2>1. \A t \in Tables : color'[t] # "black"
    BY <1>3, <1>5 DEF Whites, Things
  <2> QED
    BY <2>1 DEF TriColour
<1> QED
  BY <1>7, <1>8, <1>9 DEF IInv

LEMMA PropagateMarkStep ==
  ASSUME IInv, NEW o \in Tables \cup {Thread}, PropagateMark(o)
  PROVE  IInv'
<1> DEFINE values == IF o = Thread THEN stack ELSE refs[o]
           rest == (gray \ {o}) \cup WhiteTables(values)
<1>1. /\ gcstate = "propagate" /\ o \in gray
      /\ color' = IF o = Thread THEN Marked(color, values)
                  ELSE Marked([color EXCEPT ![o] = "black"], values)
      /\ gray' = rest
      /\ grayagain' = IF o = Thread THEN grayagain \cup {Thread} ELSE grayagain
      /\ gcstate' = IF rest = {} THEN "atomic" ELSE "propagate"
      /\ UNCHANGED <<white, lists, sweepgc, emergency, fulls, finalizing, full, program>>
  BY DEF PropagateMark, control
<1>2. /\ TypeOK /\ ~IsSweepPhase /\ KeepInvariant
      /\ Thread \notin Things /\ Tables \subseteq Things
  BY <1>1, Phase, LuaGCAssumption DEF IInv, TypeOK, IsSweepPhase, KeepInvariant, Things
<1>3. /\ o # Thread => o \in Things /\ Exists(o)
      /\ values \subseteq Things /\ \A x \in values : Exists(x)
  <2>1. o # Thread => o \in Things /\ Exists(o)
    BY <1>1, <1>2 DEF IInv, MarkInv
  <2>2. o # Thread => o \in Kept
    BY <2>1, <1>2 DEF IInv, KeptInv
  <2>3. values \subseteq Kept
    BY <2>2 DEF IInv, KeptInv
  <2> QED
    BY <2>1, <2>3 DEF Kept
<1> HIDE DEF values
<1>4. /\ \A x \in Things : color'[x] = IF x = o THEN "black"
                                       ELSE IF x \in values /\ color[x] \in Whites
                                       THEN IF x \in Tables THEN "gray" ELSE "black"
                                       ELSE color[x]
      /\ color' \in [Things -> Colors]
  <2>1. CASE o = Thread
    BY <2>1, <1>1, <1>2 DEF Marked, TypeOK, Colors
  <2>2. CASE o # Thread
    <3> DEFINE c == [color EXCEPT ![o] = "black"]
    <3>1. c \in [Things -> Colors] /\ c[o] = "black" /\ \A x \in Things \ {o} : c[x] = color[x]
      BY <2>2, <1>2, <1>3 DEF TypeOK, Colors
    <3>2. color' = Marked(c, values)
      BY <2>2, <1>1
    <3> HIDE DEF c
    <3> QED
      BY <3>1, <3>2 DEF Marked, Colors, Whites
  <2> QED
    BY <2>1, <2>2
<1>5. gray' \cup grayagain' \subseteq Tables \cup {Thread}
  BY <1>1, <1>2 DEF WhiteTables, TypeOK
<1>6. /\ TypeOK' /\ SweepInv' /\ KeptInv' /\ FreeInv' /\ WeakInv' /\ KeepInvariant'
      /\ \A list : On(list)' = On(list)
      /\ \A x : Exists(x)' <=> Exists(x)
  <2>1. \A x \in Things : color'[x] = color[x] \/ (Exists(x) /\ color'[x] \notin Whites)
    BY <1>2, <1>3, <1>4 DEF Whites
  <2>2. gcstate' \in {"propagate", "atomic"} /\ full' \in {"no", "finish", "collect"}
    BY <1>1, <1>2 DEF TypeOK
  <2> HIDE DEF rest
  <2> QED
    BY <2>1, <2>2, <1>1, <1>2, <1>4, <1>5, MarkingStep
<1>7. MarkInv'
  <2>1. \A x \in gray' \cup grayagain' : x = Thread \/ Exists(x)'
    BY <1>1, <1>2, <1>3, <1>6 DEF WhiteTables, IInv, MarkInv
  <2>2. Thread \in gray' \cup grayagain'
    BY <1>1, <1>2 DEF IInv, MarkInv
  <2>3. \A t \in Tables : color'[t] = "gray" => t \in gray' \cup grayagain'
    <3> SUFFICES ASSUME NEW t \in Tables, color'[t] = "gray" PROVE t \in gray' \cup grayagain'
      OBVIOUS
    <3>1. t # o
      BY <1>2, <1>4
    <3>2. CASE t \in values /\ color[t] \in Whites
      BY <3>2, <1>1 DEF WhiteTables
    <3>3. CASE ~ (t \in values /\ color[t] \in Whites)
      <4>1. t \in gray \cup grayagain
        BY <3>1, <3>3, <1>2, <1>4 DEF IInv, MarkInv
      <4> QED
        BY <4>1, <3>1, <1>1
    <3> QED
      BY <3>2, <3>3
  <2>4. \A x \in On("tobefnz")' : color'[x] \notin Whites
    <3>1. On("tobefnz") \subseteq Things
      BY OnThings DEF IInv, TypeOK, Lists
    <3>2. \A x \in On("tobefnz") : color[x] \notin Whites
      BY <1>2 DEF IInv, MarkInv
    <3> QED
      BY <3>1, <3>2, <1>4, <1>6 DEF Whites
  <2>5. gcstate' = "atomic" => gray' = {}
    BY <1>1
  <2> QED
    BY <2>1, <2>2, <2>3, <2>4, <2>5 DEF MarkInv
<1>8. TriColour'
  <2> SUFFICES ASSUME NEW t \in Tables, Exists(t), color'[t] = "black", NEW x \in refs[t]
               PROVE  color'[x] \notin Whites
    BY <1>1, <1>6 DEF TriColour, program
  <2>1. x \in Things
    BY <1>2 DEF TypeOK
  <2>2. CASE t = o
    BY <2>1, <2>2, <1>2, <1>4 DEF values, Whites
  <2>3. CASE t # o
    <3>1. color[t] = "black"
      BY <2>3, <1>2, <1>4
    <3>2. color[x] \notin Whites
      BY <3>1, <1>2 DEF IInv, TriColour
    <3> QED
      BY <3>2, <2>1, <1>4 DEF Whites
  <2> QED
    BY <2>2, <2>3
<1> QED
  BY <1>6, <1>7, <1>8 DEF IInv

-----------------------------------------------------------------------------
(***************************************************************************)
(* The atomic step.                                                        *)
(***************************************************************************)
Old == {o \in Things : color[o] \notin Whites}
Strong == Old \cup PropagateAll(stack \cup UNION {refs[t] : t \in (gray \cup grayagain) \ {Thread}}, Old)
Due == lists.tobefnz \o Without(lists.finobj, Strong)
All == Strong \cup PropagateAll(Range(Due), Strong)
Queued == [lists EXCEPT !.tobefnz = Due, !.finobj = Only(lists.finobj, Strong)]

\* When the atomic phase begins all that exists is kept, white or marked.
LEMMA AtAtomic ==
  ASSUME IInv, gcstate = "atomic"
  PROVE  /\ TypeOK /\ Well(lists) /\ Tables \subseteq Things /\ Thread \notin Things
         /\ \A list \in Lists : On(list) \subseteq Things
         /\ \A x \in Things : Exists(x) <=> x \in Kept
         /\ \A x \in Kept : x \notin Old => color[x] = white
         /\ \A x \in Kept : Successors(x) \subseteq Kept
         /\ Old \subseteq Kept /\ stack \subseteq Kept
         /\ On("finobj") \cup On("tobefnz") \subseteq Kept /\ On("tobefnz") \subseteq Old
         /\ white \in Whites /\ white # OtherWhite /\ OtherWhite \in Whites
         /\ Whites \ {OtherWhite} = {white}
<1>1. ~IsSweepPhase /\ KeepInvariant
  BY Phase DEF IsSweepPhase, KeepInvariant
<1>2. /\ TypeOK /\ Well(lists) /\ Tables \subseteq Things /\ Thread \notin Things
      /\ \A list \in Lists : On(list) \subseteq Things
  BY OnThings, LuaGCAssumption DEF IInv, TypeOK, Things
<1>3. /\ white \in Whites /\ white # OtherWhite /\ OtherWhite \in Whites
      /\ Whites \ {OtherWhite} = {white}
  BY <1>2 DEF TypeOK, Whites, OtherWhite
<1>4. \A x \in Things : Exists(x) <=> x \in Kept
  BY <1>1 DEF IInv, KeptInv, Kept
<1>5. \A x \in Kept : x \notin Old => color[x] = white
  BY <1>3 DEF Kept, Old, Whites, OtherWhite
<1>6. \A x \in Kept : Successors(x) \subseteq Kept
  BY DEF IInv, KeptInv, Successors
<1>7. Old \subseteq Kept
  BY <1>4 DEF IInv, FreeInv, Old
<1>8. On("tobefnz") \subseteq Old
  BY <1>1, <1>2 DEF IInv, MarkInv, Old, Lists
<1> QED
  BY <1>2, <1>3, <1>4, <1>5, <1>6, <1>7, <1>8 DEF IInv, KeptInv

\* What is marked then is closed: black tables refer to nothing white, and what
\* the others refer to is marked as well.
LEMMA StrongIs ==
  ASSUME IInv, gcstate = "atomic"
  PROVE  /\ Strong \subseteq Kept /\ Old \cup stack \subseteq Strong
         /\ \A x \in Strong : Successors(x) \subseteq Strong
<1> DEFINE again == (gray \cup grayagain) \ {Thread}
           S == stack \cup UNION {refs[t] : t \in again}
           P == PropagateAll(S, Old)
<1>1. /\ TypeOK /\ Tables \subseteq Things /\ Thread \notin Things
      /\ \A x \in Things : Exists(x) <=> x \in Kept
      /\ \A x \in Kept : Successors(x) \subseteq Kept
      /\ Old \subseteq Kept /\ stack \subseteq Kept /\ KeepInvariant
  BY AtAtomic DEF KeepInvariant
<1>2. again \subseteq Tables /\ \A t \in again : t \in Kept
  BY <1>1 DEF IInv, MarkInv, TypeOK
<1>3. S \subseteq Kept
  BY <1>1, <1>2 DEF Successors
<1>4. Kept \subseteq Things
  BY DEF Kept
<1> HIDE DEF S
<1>5. P \subseteq Kept
  BY <1>1, <1>3, <1>4, PropagateAllIs
<1>6. /\ \A o \in S \ Old : o \in P
      /\ \A x \in P : Successors(x) \ Old \subseteq P
  <2>1. /\ \A o \in (S \cap Things) \ Old : o \in P
        /\ \A x \in P : (Successors(x) \cap Things) \ Old \subseteq P
    BY PropagateAllIs
  <2> HIDE DEF P
  <2> QED
    BY <2>1, <1>1, <1>3, <1>4, <1>5
<1>7. Strong = Old \cup P
  BY DEF Strong, S
<1> HIDE DEF P
<1>8. ASSUME NEW x \in Old PROVE Successors(x) \subseteq Strong
  <2>1. CASE x \notin Tables
    BY <2>1 DEF Successors
  <2>2. CASE x \in Tables /\ color[x] = "black"
    <3>1. \A o \in refs[x] : color[o] \notin Whites
      BY <2>2, <1>1 DEF IInv, TriColour
    <3>2. refs[x] \subseteq Old
      BY <3>1, <2>2, <1>1 DEF TypeOK, Old
    <3> QED
      BY <3>2, <1>7, <2>2 DEF Successors
  <2>3. CASE x \in Tables /\ color[x] # "black"
    <3>1. color[x] = "gray"
      BY <2>3, <1>1 DEF Old, TypeOK, Colors
    <3>2. x \in again
      BY <3>1, <2>3, <1>1 DEF IInv, MarkInv
    <3>3. refs[x] \subseteq S
      BY <3>2 DEF S
    <3> QED
      BY <3>3, <2>3, <1>6, <1>7 DEF Successors
  <2> QED
    BY <2>1, <2>2, <2>3
<1>9. stack \subseteq Strong
  BY <1>6, <1>7 DEF S
<1> QED
  BY <1>1, <1>5, <1>6, <1>7, <1>8, <1>9

LEMMA QueuedIs ==
  ASSUME Well(lists)
  PROVE  /\ Well(Queued)
         /\ Range(Queued["allgc"]) = On("allgc")
         /\ Range(Queued["finobj"]) = On("finobj") \cap Strong
         /\ Range(Queued["tobefnz"]) = On("tobefnz") \cup (On("finobj") \ Strong)
         /\ Range(Due) = On("tobefnz") \cup (On("finobj") \ Strong)
<1> DEFINE f == lists["finobj"]
           b == lists["tobefnz"]
           stay == Only(f, Strong)
           go == Without(f, Strong)
<1>1. /\ f \in Seq(Things) /\ IsInjective(f) /\ b \in Seq(Things) /\ IsInjective(b)
      /\ lists["allgc"] \in Seq(Things) /\ IsInjective(lists["allgc"])
      /\ Range(f) \cap Range(b) = {} /\ Range(lists["allgc"]) \cap Range(b) = {}
      /\ Range(lists["allgc"]) \cap Range(f) = {}
      /\ lists \in [Lists -> Seq(Things)]
  BY DEF Well, Lists
<1> HIDE DEF f, b
<1>2. /\ stay \in Seq(Things) /\ Range(stay) = Range(f) \cap Strong
      /\ \A x, y : Before(stay, x, y) <=> Before(f, x, y) /\ x \in Strong /\ y \in Strong
  BY <1>1, OnlyOrder
<1>3. /\ go \in Seq(Things) /\ Range(go) = Range(f) \ Strong
      /\ \A x, y : Before(go, x, y) <=> Before(f, x, y) /\ x \notin Strong /\ y \notin Strong
  BY <1>1, WithoutOrder
<1> HIDE DEF go, stay
<1>4. Due = b \o go
  BY DEF Due, b, go, f
<1>5. /\ Due \in Seq(Things) /\ Range(Due) = Range(b) \cup Range(go)
      /\ \A x, y : Before(Due, x, y) <=>
           Before(b, x, y) \/ Before(go, x, y) \/ (x \in Range(b) /\ y \in Range(go))
  BY <1>1, <1>3, <1>4, ConcatOrder
<1>6. IsInjective(stay) /\ IsInjective(Due)
  <2>1. \A x : ~Before(f, x, x) /\ ~Before(b, x, x)
    BY <1>1, Distinct
  <2>2. \A x : ~Before(stay, x, x) /\ ~Before(Due, x, x)
    BY <2>1, <1>1, <1>2, <1>3, <1>5
  <2> QED
    BY <2>2, <1>2, <1>5, Distinct
<1>7. /\ Queued \in [Lists -> Seq(Things)]
      /\ Queued["allgc"] = lists["allgc"] /\ Queued["finobj"] = stay /\ Queued["tobefnz"] = Due
  BY <1>1, <1>2, <1>5 DEF Queued, Lists, stay, f
<1>8. Well(Queued)
  <2>1. \A list \in Lists : IsInjective(Queued[list])
    BY <1>1, <1>6, <1>7 DEF Lists
  <2>2. /\ Range(Queued["allgc"]) \cap Range(Queued["tobefnz"]) = {}
        /\ Range(Queued["allgc"]) \cap Range(Queued["finobj"]) = {}
        /\ Range(Queued["tobefnz"]) \cap Range(Queued["finobj"]) = {}
    BY <1>1, <1>2, <1>3, <1>5, <1>7
  <2>3. \A l1, l2 \in Lists : l1 # l2 => Range(Queued[l1]) \cap Range(Queued[l2]) = {}
    BY <2>2 DEF Lists
  <2> QED
    BY <2>1, <2>3, <1>7 DEF Well
<1> QED
  BY <1>2, <1>3, <1>5, <1>7, <1>8 DEF On, f, b

LEMMA AllIs ==
  ASSUME IInv, gcstate = "atomic"
  PROVE  /\ All \subseteq Kept /\ Strong \subseteq All
         /\ On("finobj") \cup On("tobefnz") \subseteq All
         /\ \A x \in All : Successors(x) \subseteq All
<1> DEFINE P == PropagateAll(Range(Due), Strong)
<1>1. /\ \A x \in Kept : Successors(x) \subseteq Kept
      /\ On("finobj") \cup On("tobefnz") \subseteq Kept
      /\ Strong \subseteq Kept /\ \A x \in Strong : Successors(x) \subseteq Strong
      /\ Range(Due) = On("tobefnz") \cup (On("finobj") \ Strong)
  BY AtAtomic, StrongIs, QueuedIs
<1>2. Kept \subseteq Things
  BY DEF Kept
<1>3. P \subseteq Kept
  BY <1>1, <1>2, PropagateAllIs
<1>4. /\ \A o \in (Range(Due) \cap Things) \ Strong : o \in P
      /\ \A x \in P : (Successors(x) \cap Things) \ Strong \subseteq P
  BY PropagateAllIs
<1>5. All = Strong \cup P
  BY DEF All
<1> HIDE DEF P
<1> QED
  BY <1>1, <1>2, <1>3, <1>4, <1>5

\* A part D of allgc is swept at once.
AtomicOf(D) ==
  LET dead == D \ All IN
  /\ Well(lists')
  /\ On("allgc")' = On("allgc") \ dead
  /\ On("finobj")' = On("finobj") \cap Strong
  /\ On("tobefnz")' = On("tobefnz") \cup (On("finobj") \ Strong)
  /\ \A x \in Things : color'[x] = IF x \in dead THEN "white0" ELSE IF x \in D THEN OtherWhite
                                   ELSE IF x \in All THEN "black" ELSE color[x]
  /\ \A t \in Tables : refs'[t] = IF t \in dead THEN {} ELSE refs[t]
  /\ color' \in [Things -> Colors] /\ refs' \in [Tables -> SUBSET Things]
  /\ sweepgc' \in {Nil, Header} \cup On("allgc")'
  /\ Behind(lists', "allgc", sweepgc') = On("allgc") \ D
  /\ weak' = weak \cap Strong /\ white' = OtherWhite
  /\ gcstate' = "swpallgc" /\ gray' = {} /\ grayagain' = {}
  /\ UNCHANGED <<control, stack, building>>

LEMMA AtomicIs ==
  ASSUME IInv, Atomic
  PROVE  gcstate = "atomic" /\ \E D \in SUBSET On("allgc") : AtomicOf(D)
<1> DEFINE c == [o \in Things |-> IF o \in All THEN "black" ELSE color[o]]
           s == Sweep(Queued, c, refs, "allgc", Header, 1, OtherWhite)
<1>1. /\ gcstate = "atomic"
      /\ weak' = weak \cap Strong /\ white' = OtherWhite
      /\ gray' = {} /\ grayagain' = {} /\ gcstate' = "swpallgc"
      /\ lists' = s.lists /\ color' = s.color /\ refs' = s.refs /\ sweepgc' = s.at
      /\ UNCHANGED <<control, stack, building>>
  BY DEF Atomic, ClearValues, Staying, Old, Strong, Due, All, Queued
<1>2. /\ TypeOK /\ Whites \ {OtherWhite} = {white} /\ OtherWhite \in Whites
      /\ \A list \in Lists : On(list) \subseteq Things
      /\ \A x \in Things : Exists(x) <=> x \in Kept
      /\ \A x \in Kept : x \notin Old => color[x] = white
  BY <1>1, AtAtomic
<1>3. /\ Well(Queued)
      /\ Range(Queued["allgc"]) = On("allgc")
      /\ Range(Queued["finobj"]) = On("finobj") \cap Strong
      /\ Range(Queued["tobefnz"]) = On("tobefnz") \cup (On("finobj") \ Strong)
  BY <1>2, QueuedIs DEF TypeOK
<1>4. /\ All \subseteq Kept /\ Strong \subseteq All /\ Old \subseteq Strong
      /\ On("finobj") \cup On("tobefnz") \subseteq All
  BY <1>1, AllIs, StrongIs
<1>5. /\ "allgc" \in Lists /\ Header \in {Header} \cup Range(Queued["allgc"]) /\ 1 \in Nat
      /\ Behind(Queued, "allgc", Header) = On("allgc")
  BY <1>3, LuaGCAssumption DEF Lists, Behind
<1> HIDE DEF c
<1>6. PICK D \in SUBSET On("allgc") : SweepOf(D, Queued, c, refs, "allgc", Header, 1, OtherWhite)
  BY <1>3, <1>5, SweepIs
<1>7. {x \in D : c[x] \in Whites \ {OtherWhite}} = D \ All
  <2>1. \A x \in D : x \in Things /\ x \in Kept
    BY <1>2, <1>5 DEF Exists
  <2>2. \A x \in D : c[x] = IF x \in All THEN "black" ELSE white
    BY <2>1, <1>2, <1>4 DEF c
  <2> QED
    BY <2>2, <1>2 DEF TypeOK, Whites
<1> DEFINE dead == D \ All
<1>8. /\ Well(s.lists)
      /\ \A x \in Lists : Range(s.lists[x]) = Range(Queued[x]) \ dead
      /\ s.color = [o \in Things |-> IF o \in dead THEN "white0"
                                     ELSE IF o \in D THEN OtherWhite ELSE c[o]]
      /\ s.refs = [t \in Tables |-> IF t \in dead THEN {} ELSE refs[t]]
      /\ s.at \in {Nil, Header} \cup Range(s.lists["allgc"])
      /\ Behind(s.lists, "allgc", s.at) = On("allgc") \ D
  BY <1>5, <1>6, <1>7 DEF SweepOf
<1> HIDE DEF s
<1>9. /\ \A x \in Things : color'[x] = IF x \in dead THEN "white0" ELSE IF x \in D THEN OtherWhite
                                   ELSE IF x \in All THEN "black" ELSE color[x]
      /\ color' \in [Things -> Colors] /\ refs' \in [Tables -> SUBSET Things]
      /\ \A t \in Tables : refs'[t] = IF t \in dead THEN {} ELSE refs[t]
  BY <1>1, <1>2, <1>8 DEF c, TypeOK, Colors, Whites
<1>10. /\ On("allgc")' = On("allgc") \ dead
       /\ On("finobj")' = On("finobj") \cap Strong
       /\ On("tobefnz")' = On("tobefnz") \cup (On("finobj") \ Strong)
  BY <1>1, <1>3, <1>4, <1>8 DEF On, Lists
<1>11. AtomicOf(D)
  <2> HIDE DEF dead
  <2> QED
    BY <1>1, <1>8, <1>9, <1>10 DEF AtomicOf, On, dead
<1> QED
  BY <1>1, <1>11

LEMMA AtomicStep ==
  ASSUME IInv, Atomic
  PROVE  IInv'
<1>1. PICK D \in SUBSET On("allgc") : AtomicOf(D)
  BY AtomicIs
<1> DEFINE dead == D \ All
<1>2. /\ Well(lists')
      /\ On("allgc")' = On("allgc") \ dead
      /\ On("finobj")' = On("finobj") \cap Strong
      /\ On("tobefnz")' = On("tobefnz") \cup (On("finobj") \ Strong)
      /\ \A x \in Things : color'[x] = IF x \in dead THEN "white0" ELSE IF x \in D THEN OtherWhite
                                       ELSE IF x \in All THEN "black" ELSE color[x]
      /\ \A t \in Tables : refs'[t] = IF t \in dead THEN {} ELSE refs[t]
      /\ color' \in [Things -> Colors] /\ refs' \in [Tables -> SUBSET Things]
      /\ sweepgc' \in {Nil, Header} \cup On("allgc")'
      /\ Behind(lists', "allgc", sweepgc') = On("allgc") \ D
      /\ weak' = weak \cap Strong /\ white' = OtherWhite
      /\ gcstate' = "swpallgc" /\ gray' = {} /\ grayagain' = {}
      /\ UNCHANGED <<control, stack, building>>
  BY <1>1 DEF AtomicOf
<1>3. gcstate = "atomic"
  BY AtomicIs
<1>4. /\ TypeOK /\ Well(lists) /\ (\A list \in Lists : On(list) \subseteq Things)
      /\ \A x \in Things : Exists(x) <=> x \in Kept
      /\ \A x \in Kept : x \notin Old => color[x] = white
      /\ stack \subseteq Strong /\ Strong \subseteq All /\ All \subseteq Kept /\ Old \subseteq Strong
      /\ On("finobj") \cup On("tobefnz") \subseteq All
      /\ \A x \in All : Successors(x) \subseteq All
      /\ white \in Whites /\ OtherWhite \in Whites /\ OtherWhite # white
  BY <1>3, AtAtomic, StrongIs, AllIs
<1>5. IsSweepPhase' /\ ~KeepInvariant' /\ OtherWhite' = white
  BY <1>2, <1>4, Phase DEF IsSweepPhase, KeepInvariant, OtherWhite, Whites
<1>6. /\ \A x \in Things : Exists(x)' <=> Exists(x) /\ x \notin dead
      /\ \A x \in D : Exists(x) /\ x \in Things
  <2>1. \A x : Exists(x)' <=> x \in On("allgc")' \cup On("finobj")' \cup On("tobefnz")'
    BY DEF Exists, Lists
  <2>2. dead \cap (On("finobj") \cup On("tobefnz")) = {}
    BY <1>4
  <2> QED
    BY <2>1, <2>2, <1>2, <1>4, ExistsOn DEF Lists
<1>7. Kept' = All
  <2>1. ASSUME NEW x \in All PROVE x \in Kept'
    <3>1. x \in Things /\ Exists(x)' /\ color'[x] \in {OtherWhite, "black"}
      BY <1>2, <1>4, <1>6 DEF Kept
    <3> QED
      BY <3>1, <1>4, <1>5 DEF Kept, Whites
  <2>2. ASSUME NEW x \in Kept', x \notin All PROVE FALSE
    <3>1. x \in Things /\ Exists(x) /\ x \notin D /\ color'[x] # white
      BY <2>2, <1>5, <1>6 DEF Kept
    <3>2. color'[x] = color[x] /\ x \in Kept /\ x \notin Old
      BY <2>2, <3>1, <1>2, <1>4
    <3> QED
      BY <3>1, <3>2, <1>4
  <2> QED
    BY <2>1, <2>2
<1>8. KeptInv'
  <2>1. (stack \cup weak \cup On("finobj") \cup On("tobefnz"))' \subseteq All
    <3>1. On("finobj")' \cup On("tobefnz")' \subseteq All
      BY <1>2, <1>4
    <3>2. stack' \cup weak' \subseteq All
      BY <1>2, <1>4
    <3> QED
      BY <3>1, <3>2
  <2>2. \A t \in All \cap Tables : refs'[t] \subseteq All
    BY <1>2, <1>4 DEF Successors
  <2> QED
    BY <2>1, <2>2, <1>5, <1>7 DEF KeptInv
<1>9. FreeInv'
  <2> SUFFICES ASSUME NEW x \in Things, ~Exists(x)'
               PROVE  color'[x] \in Whites /\ Successors(x)' = {}
    BY DEF FreeInv
  <2>1. CASE x \in dead
    BY <2>1, <1>2 DEF Successors, Whites
  <2>2. CASE x \notin dead
    <3>1. ~Exists(x) /\ x \notin D /\ x \notin All
      BY <2>2, <1>4, <1>6
    <3>2. color[x] \in Whites /\ Successors(x) = {}
      BY <3>1 DEF IInv, FreeInv
    <3> QED
      BY <3>1, <3>2, <1>2 DEF Successors
  <2> QED
    BY <2>1, <2>2
<1>10. TypeOK'
  <2>1. On("allgc")' \subseteq Things
    BY <1>2, <1>4 DEF Lists
  <2> QED
    BY <2>1, <1>2, <1>4, Phase DEF TypeOK, Phases, control
<1>11. SweepInv'
  <2>1. ASSUME NEW x \in Things, Exists(x)', x \notin Unswept' PROVE color'[x] = white'
    <3>1. x \in On("allgc")'
      <4>1. Exists(x)' <=> x \in On("allgc")' \cup On("finobj")' \cup On("tobefnz")'
        BY DEF Exists, Lists
      <4> QED
        BY <4>1, <2>1, <1>2 DEF Unswept
    <3>2. x \in D /\ x \notin dead
      BY <3>1, <2>1, <1>2 DEF Unswept
    <3> QED
      BY <3>2, <1>2
  <2>2. \A i \in 1 .. 3 : gcstate' = Sweeps[i] => Swept[Sweeps[i]] = "allgc"
    BY <1>2, Phase
  <2> QED
    BY <2>1, <2>2, <1>2 DEF SweepInv
<1>12. MarkInv' /\ TriColour'
  BY <1>5 DEF MarkInv, TriColour
<1>13. WeakInv'
  <2>1. building \notin On("finobj") \ Strong
    <3>1. building \in Strong \cup {Nil}
      BY <1>4 DEF TypeOK
    <3>2. Nil \notin On("finobj")
      BY <1>4, LuaGCAssumption DEF Lists
    <3> QED
      BY <3>1, <3>2
  <2> QED
    BY <2>1, <1>2 DEF IInv, WeakInv
<1> QED
  BY <1>8, <1>9, <1>10, <1>11, <1>12, <1>13 DEF IInv

-----------------------------------------------------------------------------
(***************************************************************************)
(* The invariant holds, and what it implies.                               *)
(***************************************************************************)
LEMMA InitIInv == Init => IInv
<1> SUFFICES ASSUME Init PROVE IInv
  OBVIOUS
<1> USE DEF Init
<1>1. \A list \in Lists : lists[list] = <<>> /\ On(list) = {}
  BY DEF On, Range
<1>2. \A x : ~Exists(x)
  BY <1>1 DEF Exists
<1>3. /\ ~IsSweepPhase /\ ~KeepInvariant /\ Kept = {}
      /\ \A x \in Things : color[x] \in Whites /\ Successors(x) = {}
  BY <1>2, Phase DEF IsSweepPhase, KeepInvariant, Kept, Successors, Whites
<1>4. TypeOK
  <2>1. Well(lists)
    <3>1. \A list \in Lists : lists[list] \in Seq(Things) /\ IsInjective(lists[list])
      BY <1>1 DEF IsInjective
    <3>2. lists \in [Lists -> Seq(Things)]
      BY <3>1
    <3> QED
      BY <1>1, <3>1, <3>2 DEF Well, On
  <2> QED
    BY <2>1 DEF TypeOK, Phases, Whites, Colors
<1>5. SweepInv /\ KeptInv /\ FreeInv /\ MarkInv /\ TriColour /\ WeakInv
  BY <1>1, <1>2, <1>3, Phase DEF SweepInv, KeptInv, FreeInv, MarkInv, TriColour, WeakInv, Lists
<1> QED
  BY <1>4, <1>5 DEF IInv

LEMMA ScriptStep ==
  ASSUME IInv, Script, UNCHANGED control
  PROVE  IInv'
<1>1. ASSUME NEW u \in Userdata, NewUserdata(u) PROVE IInv'
  BY <1>1, NewObjectStep DEF NewUserdata, Things
<1>2. ASSUME NEW t \in Tables, NewTable(t) PROVE IInv'
  BY <1>2, NewObjectStep DEF NewTable, Things
<1>3. ASSUME NEW t \in Tables, SetGC(t) PROVE IInv'
  BY <1>3, CheckFinalizerStep DEF SetGC
<1>4. ASSUME NEW t \in Tables, ClearTable(t) \/ \E o \in Things : SetTable(t, o) PROVE IInv'
  BY <1>4, TableSteps
<1>5. ASSUME NEW u \in Userdata, GetObject(u) PROVE IInv'
  BY <1>5, QuietSteps
<1>6. ASSUME NEW t \in Tables, NEW o \in Things, GetTable(t, o) PROVE IInv'
  BY <1>6, QuietSteps
<1>7. ASSUME NEW o \in Things, Forget(o) PROVE IInv'
  BY <1>7, QuietSteps
<1> QED
  BY <1>1, <1>2, <1>3, <1>4, <1>5, <1>6, <1>7 DEF Script

LEMMA NextIInv ==
  ASSUME IInv, ~Outruns, [Next]_vars
  PROVE  IInv'
<1>1. ASSUME Program PROVE IInv'
  <2>1. UNCHANGED control
    BY <1>1 DEF Program
  <2>2. CASE SetMetatable
    <3>1. building \in stack
      BY <2>2 DEF SetMetatable, IInv, TypeOK
    <3> QED
      BY <3>1, <2>1, <2>2, CheckFinalizerStep DEF SetMetatable
  <2>3. CASE Register
    BY <2>1, <2>3, QuietSteps
  <2>4. CASE Script
    BY <2>1, <2>4, ScriptStep
  <2> QED
    BY <1>1, <2>2, <2>3, <2>4 DEF Program
<1>2. ASSUME NEW kind \in BOOLEAN, FullGC(kind) PROVE IInv'
  BY <1>2, FullGCStep
<1>3. ASSUME SingleStep PROVE IInv'
  <2>1. CASE SweepStep
    BY <2>1, SweepStepStep DEF SweepStep
  <2> QED
    BY <1>3, <2>1, RestartStep, PropagateMarkStep, AtomicStep, PhaseSteps DEF SingleStep
<1>4. ASSUME Finalize PROVE IInv'
  BY <1>4, CallFinalizerStep DEF Finalize
<1>5. ASSUME NEW error \in BOOLEAN, Return(error) PROVE IInv'
  BY <1>5, QuietSteps
<1>6. ASSUME UNCHANGED vars PROVE IInv'
  BY <1>6, QuietSteps
<1> QED
  BY <1>1, <1>2, <1>3, <1>4, <1>5, <1>6 DEF Next, Collecting

\* IInv holds in every state, when finalizers do not reach the object at which the
\* sweep of tobefnz is.
THEOREM Inductive ==
  ASSUME ~Outruns
  PROVE  Spec => []IInv
<1>1. IInv /\ [Next]_vars => IInv'
  BY NextIInv
<1> QED
  BY InitIInv, <1>1, PTL DEF Spec

\* Every variable has a value of its type; every object is on one of the
\* collector's lists at most.
THEOREM CollectorTyped ==
  ASSUME ~Outruns
  PROVE  Spec => []TypeOK
<1>1. IInv => TypeOK
  BY DEF IInv
<1> QED
  BY <1>1, Inductive, PTL

\* luaC_step, interleaved with the program in any way, frees nothing that the
\* program, a pending finalizer or the weak table can come to.
THEOREM NothingReachableIsFreed ==
  ASSUME ~Outruns
  PROVE  Spec => []NoneFreed
<1>1. IInv => NoneFreed
  <2> SUFFICES ASSUME IInv PROVE NoneFreed
    OBVIOUS
  <2>1. Kept \subseteq Things /\ \A x \in Kept : Exists(x)
    BY DEF Kept
  <2>2. stack \cup On("tobefnz") \subseteq Kept /\ weak \subseteq Kept
    BY DEF IInv, KeptInv
  <2>3. \A x \in Kept : Successors(x) \subseteq Kept
    BY DEF IInv, KeptInv, Successors
  <2>4. Reachable \subseteq Kept
    BY <2>1, <2>2, <2>3, PropagateAllIs DEF Reachable, Reach
  <2> QED
    BY <2>1, <2>2, <2>4 DEF NoneFreed
<1> QED
  BY <1>1, Inductive, PTL

\* The barrier keeps the invariant that lgc.h states: a black table refers to
\* no white object while the collector marks.
THEOREM BarrierHolds ==
  ASSUME ~Outruns
  PROVE  Spec => []TriColour
<1>1. IInv => TriColour
  BY DEF IInv
<1> QED
  BY <1>1, Inductive, PTL

\* When the sweep has ended all objects are white: it misses none, though
\* luaC_checkfinalizer takes away the object it stands at, new objects come to
\* the lists, and finalizers take others from tobefnz. What finalizers must not
\* take is the object at which the sweep of tobefnz stands (~Outruns): the run
\* outrun shows that the theorem is false without this.
THEOREM SweepIsComplete ==
  ASSUME ~Outruns
  PROVE  Spec => []AllWhite
<1>1. IInv => AllWhite
  <2> SUFFICES ASSUME IInv, gcstate \in {"callfin", "pause"} PROVE \A o \in Things : Exists(o) => color[o] = white
    BY DEF AllWhite
  <2>1. Unswept = {}
    BY DEF Unswept
  <2> QED
    BY <2>1 DEF IInv, SweepInv
<1> QED
  BY <1>1, Inductive, PTL

-----------------------------------------------------------------------------
(***************************************************************************)
(* The collector keeps the promise that Objects relies on: its steps are   *)
(* steps of Collector.                                                     *)
(***************************************************************************)
\* What S leads to, when r are the values of the tables.
From(S, r) ==
  {o \in Things : \A T \in SUBSET Things :
     S \subseteq T /\ (\A t \in T \cap Tables : r[t] \subseteq T) => o \in T}

LEMMA ReachIsFrom ==
  ASSUME TypeOK, TypeOK'
  PROVE  Reach(stack) = From(stack, refs) /\ Reach(stack)' = From(stack', refs')
<1>1. \A T \in SUBSET Things :
        (\A x \in T : Successors(x) \ {} \subseteq T) <=> (\A t \in T \cap Tables : refs[t] \subseteq T)
  BY DEF Successors
<1>2. \A T \in SUBSET Things :
        (\A x \in T : Successors(x)' \ {} \subseteq T) <=> (\A t \in T \cap Tables : refs'[t] \subseteq T)
  BY DEF Successors
<1>3. PropagateAll(stack, {}) = From(stack, refs)
  BY <1>1 DEF PropagateAll, From
<1>4. PropagateAll(stack, {})' = From(stack', refs')
  BY <1>2 DEF PropagateAll, From
<1> QED
  BY <1>3, <1>4 DEF Reach

LEMMA FromIs ==
  ASSUME NEW S \in SUBSET Things, NEW r
  PROVE  /\ S \subseteq From(S, r) /\ From(S, r) \subseteq Things
         /\ \A t \in From(S, r) \cap Tables : r[t] \cap Things \subseteq From(S, r)
         /\ \A T \in SUBSET Things :
              S \subseteq T /\ (\A t \in T \cap Tables : r[t] \subseteq T) => From(S, r) \subseteq T
BY DEF From

\* What concerns only objects that are not come to changes nothing.
LEMMA FromSame ==
  ASSUME NEW K \in SUBSET Things, NEW S \in SUBSET K, NEW r, NEW q,
         \A t \in K \cap Tables : r[t] \subseteq K /\ q[t] = r[t]
  PROVE  From(S, q) = From(S, r) /\ From(S, r) \subseteq K
<1>1. From(S, r) \subseteq K /\ From(S, q) \subseteq K
  BY FromIs
<1>2. From(S, q) \subseteq From(S, r)
  <2>1. \A t \in From(S, r) \cap Tables : q[t] \subseteq From(S, r)
    BY <1>1, FromIs
  <2> QED
    BY <2>1, FromIs
<1>3. From(S, r) \subseteq From(S, q)
  <2>1. \A t \in From(S, q) \cap Tables : r[t] \subseteq From(S, q)
    BY <1>1, FromIs
  <2> QED
    BY <2>1, FromIs
<1> QED
  BY <1>1, <1>2, <1>3

Held == Reach(stack) \cap Userdata

\* The stage of a userdata is the list that it is on.
LEMMA StageIs ==
  ASSUME Well(lists), Well(lists)', NEW u \in Userdata
  PROVE  /\ Stage(u) \in Promise!Stages /\ Stage(u)' \in Promise!Stages
         /\ Stage(u) = "absent" <=> ~Exists(u)
         /\ Stage(u)' = "absent" <=> ~Exists(u)'
         /\ Stage(u) = "plain" <=> u \in On("allgc")
         /\ Stage(u)' = "plain" <=> u \in On("allgc")'
         /\ Stage(u) = "live" <=> u \in On("finobj")
         /\ Stage(u)' = "live" <=> u \in On("finobj")'
         /\ Stage(u) = "pending" <=> u \in On("tobefnz")
         /\ Stage(u)' = "pending" <=> u \in On("tobefnz")'
<1>1. /\ On("allgc") \cap On("finobj") = {} /\ On("allgc") \cap On("tobefnz") = {}
      /\ On("finobj") \cap On("tobefnz") = {}
      /\ On("allgc")' \cap On("finobj")' = {} /\ On("allgc")' \cap On("tobefnz")' = {}
      /\ On("finobj")' \cap On("tobefnz")' = {}
  BY DEF Well, Lists, On
<1>2. Exists(u) <=> u \in On("allgc") \cup On("finobj") \cup On("tobefnz")
  BY ExistsOn
<1>3. Exists(u)' <=> u \in On("allgc")' \cup On("finobj")' \cup On("tobefnz")'
  BY DEF Exists, Lists
<1> QED
  BY <1>1, <1>2, <1>3 DEF Stage, Promise!Stages

LEMMA StutterIs ==
  ASSUME \A u \in Userdata : Stage(u)' = Stage(u), Held' = Held, weak' = weak
  PROVE  UNCHANGED Promise!vars
BY DEF Promise!vars, Held

LEMMA MutateIs ==
  ASSUME \A u \in Userdata : Stage(u)' \in Promise!Stages,
         \A u \in Userdata :
           \/ Stage(u)' = Stage(u)
           \/ Stage(u) = "absent" /\ Stage(u)' = "plain"
           \/ Stage(u) = "plain" /\ u \in Held /\ Stage(u)' = "live"
           \/ Stage(u) = "plain" /\ u \notin Held /\ Stage(u)' = "absent",
         \A u \in Held' : u \in Held \cup weak \/ (Stage(u) = "absent" /\ Stage(u)' # "absent"),
         \A u \in weak' : u \in weak \/ (u \in Held /\ Stage(u)' = "live")
  PROVE  Promise!Next
<1>1. \A u \in Held : u \in Userdata
  BY DEF Held
<1>2. \A u \in Held' : u \in Userdata
  BY DEF Held
<1>3. Promise!Mutate
  BY <1>1, <1>2 DEF Promise!Mutate, Promise!SweptOr, Promise!New, Held
<1> QED
  BY <1>3 DEF Promise!Next

LEMMA CollectIs ==
  ASSUME weak \subseteq Userdata,
         \A u \in Userdata : Stage(u)' \in Promise!Stages,
         \A u \in Userdata :
           \/ Stage(u)' = Stage(u)
           \/ Stage(u) = "live" /\ u \notin Held /\ Stage(u)' = "pending"
           \/ Stage(u) = "plain" /\ u \notin Held /\ Stage(u)' = "absent",
         weak' = {u \in weak : Stage(u)' # "pending"},
         Held' = Held
  PROVE  Promise!Next
<1>1. Promise!Collect
  BY DEF Promise!Collect, Promise!SweptOr, Held
<1> QED
  BY <1>1 DEF Promise!Next

LEMMA FromLeast ==
  ASSUME NEW T \in SUBSET Things, NEW S \in SUBSET T, NEW r,
         \A t \in T \cap Tables : r[t] \subseteq T
  PROVE  From(S, r) \subseteq T
BY DEF From

\* Of a step of the invariant.
LEMMA HeldIs ==
  ASSUME IInv, IInv'
  PROVE  /\ Held = From(stack, refs) \cap Userdata /\ Held' = From(stack', refs') \cap Userdata
         /\ stack \subseteq From(stack, refs) /\ From(stack, refs) \subseteq Kept
         /\ stack' \subseteq From(stack', refs') /\ From(stack', refs') \subseteq Kept'
         /\ \A t \in From(stack, refs) \cap Tables : refs[t] \subseteq From(stack, refs)
         /\ Kept \subseteq Things /\ stack \subseteq Kept
         /\ \A t \in Kept \cap Tables : refs[t] \subseteq Kept
         /\ Well(lists) /\ Well(lists)' /\ Userdata \subseteq Things /\ Userdata \cap Tables = {}
         /\ \A x \in Kept : Exists(x)
<1>1. /\ TypeOK /\ TypeOK' /\ Well(lists) /\ Well(lists)' /\ Userdata \subseteq Things
      /\ Userdata \cap Tables = {}
      /\ refs \in [Tables -> SUBSET Things]
  BY LuaGCAssumption DEF IInv, TypeOK, Things
<1>2. /\ Kept \subseteq Things /\ stack \subseteq Kept /\ \A t \in Kept \cap Tables : refs[t] \subseteq Kept
      /\ \A x \in Kept : Exists(x)
      /\ Kept' \subseteq Things /\ stack' \subseteq Kept' /\ \A t \in Kept' \cap Tables : refs'[t] \subseteq Kept'
  BY DEF IInv, KeptInv, Kept
<1>3. stack \subseteq From(stack, refs) /\ From(stack, refs) \subseteq Kept
  BY <1>2, FromIs
<1>4. stack' \subseteq From(stack', refs') /\ From(stack', refs') \subseteq Kept'
  BY <1>2, FromIs
<1>5. \A t \in From(stack, refs) \cap Tables : refs[t] \subseteq From(stack, refs)
  <2>1. \A t \in From(stack, refs) \cap Tables : refs[t] \cap Things \subseteq From(stack, refs)
    BY <1>2, FromIs
  <2> QED
    BY <2>1, <1>1
<1>6. Held = From(stack, refs) \cap Userdata /\ Held' = From(stack', refs') \cap Userdata
  BY <1>1, ReachIsFrom DEF Held
<1> QED
  BY <1>1, <1>2, <1>3, <1>4, <1>5, <1>6

\* Steps that leave the members of every list as they are are none to Collector.
LEMMA QuietPromise ==
  ASSUME IInv, IInv', \A list \in Lists : On(list)' = On(list), UNCHANGED <<refs, stack, weak>>
  PROVE  UNCHANGED Promise!vars
<1>1. \A u \in Userdata : Stage(u)' = Stage(u)
  <2>1. "finobj" \in Lists /\ "tobefnz" \in Lists
    BY DEF Lists
  <2>2. \A u : Exists(u)' <=> Exists(u)
    BY DEF Exists
  <2> QED
    BY <2>1, <2>2 DEF Stage
<1>2. Held' = Held
  BY HeldIs
<1> QED
  BY <1>1, <1>2, StutterIs

\* The program's steps, when all that it comes to then it came to before, or
\* found in the weak table.
LEMMA ProgramPromise ==
  ASSUME IInv, IInv', \A list \in Lists : On(list)' = On(list),
         Held' \subseteq Held \cup weak,
         \A u \in weak' : u \in weak \/ (u \in Held /\ u \in On("finobj"))
  PROVE  Promise!Next
<1>1. "finobj" \in Lists /\ "tobefnz" \in Lists
  BY DEF Lists
<1>2. /\ Well(lists) /\ Well(lists)'
      /\ \A u : Exists(u)' <=> Exists(u)
  BY HeldIs DEF Exists
<1>3. \A u \in Userdata : Stage(u)' = Stage(u)
  BY <1>1, <1>2 DEF Stage
<1>4. \A u \in Userdata : Stage(u)' \in Promise!Stages
  BY <1>2, StageIs
<1>5. \A u \in weak' : u \in weak \/ (u \in Held /\ Stage(u)' = "live")
  <2>1. \A u \in Held : u \in Userdata
    BY DEF Held
  <2> QED
    BY <1>1, <1>2, <2>1, StageIs
<1> QED
  BY <1>3, <1>4, <1>5, MutateIs

LEMMA NewObjectPromise ==
  ASSUME IInv, IInv', NEW o \in Things, NewObject(o), UNCHANGED <<refs, weak>>
  PROVE  Promise!Next
<1> DEFINE R == From(stack, refs)
<1>1. /\ Held = R \cap Userdata /\ Held' = From(stack', refs') \cap Userdata
      /\ stack \subseteq R /\ R \subseteq Things
      /\ \A t \in R \cap Tables : refs[t] \subseteq R
      /\ Well(lists) /\ Well(lists)'
  BY HeldIs
<1> HIDE DEF R
<1>2. /\ ~Exists(o) /\ stack' = stack \cup {o} /\ refs' = refs /\ weak' = weak
      /\ lists' = [lists EXCEPT !.allgc = <<o>> \o @]
  BY DEF NewObject
<1>3. /\ On("allgc")' = On("allgc") \cup {o}
      /\ On("finobj")' = On("finobj") /\ On("tobefnz")' = On("tobefnz")
  BY <1>1, <1>2, Pushed DEF On, Lists
<1>4. o \in Tables => refs[o] = {}
  BY <1>2 DEF IInv, FreeInv, Successors
<1>5. From(stack', refs') \subseteq R \cup {o}
  <2>1. \A t \in (R \cup {o}) \cap Tables : refs'[t] \subseteq R \cup {o}
    BY <1>1, <1>2, <1>4
  <2>2. R \cup {o} \in SUBSET Things /\ stack' \in SUBSET (R \cup {o})
    BY <1>1, <1>2
  <2> QED
    BY <2>1, <2>2, FromLeast
<1>6. \A x : Exists(x)' <=> Exists(x) \/ x = o
  <2>1. \A x : Exists(x)' <=> x \in On("allgc")' \cup On("finobj")' \cup On("tobefnz")'
    BY DEF Exists, Lists
  <2> QED
    BY <2>1, <1>3, ExistsOn
<1>7. \A u \in Userdata : Stage(u)' \in Promise!Stages
  BY <1>1, StageIs
<1>8. o \in Userdata => Stage(o) = "absent" /\ Stage(o)' = "plain"
  BY <1>1, <1>2, <1>3, StageIs
<1>9. \A u \in Userdata : u # o => Stage(u)' = Stage(u)
  BY <1>3, <1>6 DEF Stage
<1>10. \A u \in Held' : u \in Held \cup weak \/ (Stage(u) = "absent" /\ Stage(u)' # "absent")
  BY <1>1, <1>5, <1>8
<1> QED
  BY <1>2, <1>7, <1>8, <1>9, <1>10, MutateIs

LEMMA CheckFinalizerPromise ==
  ASSUME IInv, NEW o \in stack, ~ToFinalize(o), CheckFinalizer(o),
         UNCHANGED <<stack, weak, building, control>>
  PROVE  Promise!Next
<1>1. /\ IInv'
      /\ On("finobj")' = On("finobj") \cup {o} /\ On("tobefnz")' = On("tobefnz")
      /\ On("allgc")' \subseteq On("allgc") \ {o}
      /\ (On("allgc") \ {o}) \cap Kept \subseteq On("allgc")'
      /\ \A t \in Kept \cap Tables : refs'[t] = refs[t]
  BY CheckFinalizerStep
<1>2. /\ Held = From(stack, refs) \cap Userdata /\ Held' = From(stack', refs') \cap Userdata
      /\ stack \subseteq From(stack, refs) /\ From(stack, refs) \subseteq Kept
      /\ Kept \in SUBSET Things /\ stack \in SUBSET Kept
      /\ \A t \in Kept \cap Tables : refs[t] \subseteq Kept
      /\ Well(lists) /\ Well(lists)' /\ \A x \in Kept : Exists(x)
  BY <1>1, HeldIs
<1>3. Held' = Held
  BY <1>1, <1>2, FromSame
<1>4. \A u \in Userdata : Stage(u)' \in Promise!Stages
  BY <1>2, StageIs
<1>5. ASSUME NEW u \in Userdata
      PROVE  \/ Stage(u)' = Stage(u)
             \/ Stage(u) = "plain" /\ u \in Held /\ Stage(u)' = "live"
             \/ Stage(u) = "plain" /\ u \notin Held /\ Stage(u)' = "absent"
  <2>1. /\ Exists(u) <=> u \in On("allgc") \cup On("finobj") \cup On("tobefnz")
        /\ Exists(u)' <=> u \in On("allgc")' \cup On("finobj")' \cup On("tobefnz")'
    BY DEF Exists, Lists
  <2>2. CASE u = o
    <3>1. u \in On("allgc") /\ u \in On("finobj")' /\ u \in Held
      BY <2>1, <2>2, <1>1, <1>2 DEF ToFinalize
    <3> QED
      BY <3>1, <1>2, StageIs
  <2>3. CASE u # o /\ u \in On("allgc") /\ u \notin On("allgc")'
    <3>1. u \notin Kept /\ u \notin On("finobj") /\ u \notin On("tobefnz")
      BY <2>3, <1>1, <1>2 DEF Well, On, Lists
    <3>2. u \notin Held /\ ~Exists(u)'
      BY <3>1, <2>1, <2>3, <1>1, <1>2
    <3> QED
      BY <3>2, <2>3, <1>2, StageIs
  <2>4. CASE u # o /\ ~ (u \in On("allgc") /\ u \notin On("allgc")')
    BY <2>1, <2>4, <1>1 DEF Stage
  <2> QED
    BY <2>2, <2>3, <2>4
<1>6. \A u \in weak' : u \in weak
  OBVIOUS
<1> QED
  BY <1>3, <1>4, <1>5, <1>6, MutateIs

LEMMA ScriptPromise ==
  ASSUME IInv, IInv', Script, UNCHANGED control
  PROVE  Promise!Next
<1> DEFINE R == From(stack, refs)
<1>1. /\ Held = R \cap Userdata /\ Held' = From(stack', refs') \cap Userdata
      /\ stack \subseteq R /\ R \subseteq Things
      /\ \A t \in R \cap Tables : refs[t] \subseteq R
      /\ Userdata \cap Tables = {} /\ Userdata \subseteq Things /\ weak \subseteq Userdata
      /\ refs \in [Tables -> SUBSET Things]
  BY HeldIs DEF IInv, TypeOK
<1> HIDE DEF R
<1>2. ASSUME NEW X \in SUBSET Userdata, stack' \subseteq R \cup X,
             \A t \in R \cap Tables : refs'[t] \subseteq R
      PROVE  From(stack', refs') \subseteq R \cup X
  <2>1. \A t \in (R \cup X) \cap Tables : refs'[t] \subseteq R \cup X
    BY <1>1, <1>2
  <2>2. R \cup X \in SUBSET Things /\ stack' \in SUBSET (R \cup X)
    BY <1>1, <1>2
  <2> QED
    BY <2>1, <2>2, FromLeast
<1>3. ASSUME NEW X \in SUBSET Userdata, X \subseteq weak, stack' \subseteq R \cup X,
             \A t \in R \cap Tables : refs'[t] \subseteq R,
             UNCHANGED <<lists, weak>>
      PROVE  Promise!Next
  <2>1. \A list \in Lists : On(list)' = On(list)
    BY <1>3 DEF On
  <2>2. Held' \subseteq Held \cup weak
    BY <1>1, <1>2, <1>3
  <2> QED
    BY <1>3, <2>1, <2>2, ProgramPromise
<1>4. ASSUME NEW u \in Userdata, NewUserdata(u) PROVE Promise!Next
  BY <1>4, <1>1, NewObjectPromise DEF NewUserdata
<1>5. ASSUME NEW t \in Tables, NewTable(t) PROVE Promise!Next
  BY <1>5, NewObjectPromise DEF NewTable, Things
<1>6. ASSUME NEW t \in Tables, SetGC(t) PROVE Promise!Next
  BY <1>6, CheckFinalizerPromise DEF SetGC
<1>7. ASSUME NEW u \in Userdata, GetObject(u) PROVE Promise!Next
  <2>1. {u} \in SUBSET Userdata /\ {u} \subseteq weak /\ stack' \subseteq R \cup {u}
        /\ \A t \in R \cap Tables : refs'[t] \subseteq R
    BY <1>1, <1>7 DEF GetObject
  <2> QED
    BY <1>3, <1>7, <2>1 DEF GetObject, heap
<1>8. ASSUME NEW t \in Tables, NEW o \in Things, GetTable(t, o) PROVE Promise!Next
  <2>1. {} \in SUBSET Userdata /\ {} \subseteq weak /\ stack' \subseteq R \cup {}
        /\ \A x \in R \cap Tables : refs'[x] \subseteq R
    BY <1>1, <1>8 DEF GetTable
  <2> QED
    BY <1>3, <1>8, <2>1 DEF GetTable, heap
<1>9. ASSUME NEW o \in Things, Forget(o) PROVE Promise!Next
  <2>1. {} \in SUBSET Userdata /\ {} \subseteq weak /\ stack' \subseteq R \cup {}
        /\ \A x \in R \cap Tables : refs'[x] \subseteq R
    BY <1>1, <1>9 DEF Forget
  <2> QED
    BY <1>3, <1>9, <2>1 DEF Forget, heap
<1>10. ASSUME NEW t \in Tables, ClearTable(t) PROVE Promise!Next
  <2>1. {} \in SUBSET Userdata /\ {} \subseteq weak /\ stack' \subseteq R \cup {}
        /\ \A x \in R \cap Tables : refs'[x] \subseteq R
    BY <1>1, <1>10 DEF ClearTable
  <2> QED
    BY <1>3, <1>10, <2>1 DEF ClearTable, heap
<1>11. ASSUME NEW t \in Tables, NEW o \in Things, SetTable(t, o) PROVE Promise!Next
  <2>1. {} \in SUBSET Userdata /\ {} \subseteq weak /\ stack' \subseteq R \cup {}
        /\ \A x \in R \cap Tables : refs'[x] \subseteq R
    BY <1>1, <1>11 DEF SetTable
  <2> QED
    BY <1>3, <1>11, <2>1 DEF SetTable
<1> QED
  BY <1>4, <1>5, <1>6, <1>7, <1>8, <1>9, <1>10, <1>11 DEF Script

LEMMA SweepPromise ==
  ASSUME IInv, SweepStep
  PROVE  Promise!Next
<1>1. /\ IInv'
      /\ \A list \in Lists : On(list)' \subseteq On(list) /\ On(list) \cap Kept \subseteq On(list)'
      /\ \A t \in Kept \cap Tables : refs'[t] = refs[t]
      /\ UNCHANGED <<stack, weak>>
  BY SweepStepStep DEF SweepStep
<1>2. /\ Held = From(stack, refs) \cap Userdata /\ Held' = From(stack', refs') \cap Userdata
      /\ stack \subseteq From(stack, refs) /\ From(stack, refs) \subseteq Kept
      /\ Kept \in SUBSET Things /\ stack \in SUBSET Kept
      /\ \A t \in Kept \cap Tables : refs[t] \subseteq Kept
      /\ Well(lists) /\ Well(lists)'
  BY <1>1, HeldIs
<1>3. Held' = Held
  BY <1>1, <1>2, FromSame
<1>4. \A u \in Userdata : Stage(u)' \in Promise!Stages
  BY <1>2, StageIs
<1>5. On("finobj")' = On("finobj") /\ On("tobefnz")' = On("tobefnz")
  BY <1>1 DEF Lists, IInv, KeptInv
<1>6. ASSUME NEW u \in Userdata
      PROVE  \/ Stage(u)' = Stage(u)
             \/ Stage(u) = "plain" /\ u \notin Held /\ Stage(u)' = "absent"
  <2>1. /\ Exists(u) <=> u \in On("allgc") \cup On("finobj") \cup On("tobefnz")
        /\ Exists(u)' <=> u \in On("allgc")' \cup On("finobj")' \cup On("tobefnz")'
    BY DEF Exists, Lists
  <2>2. CASE u \in On("allgc") /\ u \notin On("allgc")'
    <3>1. u \notin Kept /\ u \notin On("finobj") /\ u \notin On("tobefnz")
      BY <2>2, <1>1, <1>2 DEF Well, On, Lists
    <3>2. u \notin Held /\ ~Exists(u)'
      BY <3>1, <2>1, <2>2, <1>2, <1>5
    <3> QED
      BY <3>2, <2>2, <1>2, StageIs
  <2>3. CASE ~ (u \in On("allgc") /\ u \notin On("allgc")')
    BY <2>1, <2>3, <1>1, <1>5 DEF Stage, Lists
  <2> QED
    BY <2>2, <2>3
<1>7. weak' = {u \in weak : Stage(u)' # "pending"} /\ weak \subseteq Userdata
  <2>1. weak \subseteq Userdata /\ weak \subseteq On("finobj")'
    BY <1>5 DEF IInv, TypeOK, WeakInv
  <2> QED
    BY <2>1, <1>1, <1>2, StageIs
<1> QED
  BY <1>3, <1>4, <1>6, <1>7, CollectIs

LEMMA AtomicPromise ==
  ASSUME IInv, Atomic
  PROVE  Promise!Next
<1>1. IInv' /\ gcstate = "atomic"
  BY AtomicStep, AtomicIs
<1>2. PICK D \in SUBSET On("allgc") : AtomicOf(D)
  BY AtomicIs
<1>3. /\ On("allgc")' = On("allgc") \ (D \ All)
      /\ On("finobj")' = On("finobj") \cap Strong
      /\ On("tobefnz")' = On("tobefnz") \cup (On("finobj") \ Strong)
      /\ \A t \in Tables : refs'[t] = IF t \in D \ All THEN {} ELSE refs[t]
      /\ weak' = weak \cap Strong /\ stack' = stack
  BY <1>2 DEF AtomicOf
<1>4. /\ Strong \subseteq All /\ All \subseteq Kept /\ stack \in SUBSET Strong
      /\ On("finobj") \cup On("tobefnz") \subseteq All
      /\ \A x \in Strong : Successors(x) \subseteq Strong
  BY <1>1, StrongIs, AllIs
<1>5. /\ Held = From(stack, refs) \cap Userdata /\ Held' = From(stack', refs') \cap Userdata
      /\ Kept \in SUBSET Things
      /\ Well(lists) /\ Well(lists)'
  BY <1>1, HeldIs
<1>6. From(stack, refs') = From(stack, refs) /\ From(stack, refs) \subseteq Strong
  <2>1. \A t \in Strong \cap Tables : refs[t] \subseteq Strong /\ refs'[t] = refs[t]
    BY <1>3, <1>4 DEF Successors
  <2>2. Strong \in SUBSET Things
    BY <1>4, <1>5
  <2> QED
    BY <1>4, <2>1, <2>2, FromSame
<1>7. \A u \in Userdata : Stage(u)' \in Promise!Stages
  BY <1>5, StageIs
<1>8. ASSUME NEW u \in Userdata
      PROVE  \/ Stage(u)' = Stage(u)
             \/ Stage(u) = "live" /\ u \notin Held /\ Stage(u)' = "pending"
             \/ Stage(u) = "plain" /\ u \notin Held /\ Stage(u)' = "absent"
  <2>1. /\ Exists(u) <=> u \in On("allgc") \cup On("finobj") \cup On("tobefnz")
        /\ Exists(u)' <=> u \in On("allgc")' \cup On("finobj")' \cup On("tobefnz")'
    BY DEF Exists, Lists
  <2>2. CASE u \in D \ All
    <3>1. u \notin On("finobj") /\ u \notin On("tobefnz") /\ u \in On("allgc") /\ u \notin Held
      BY <2>2, <1>4, <1>5, <1>6
    <3>2. ~Exists(u)'
      BY <3>1, <2>1, <2>2, <1>3
    <3> QED
      BY <3>1, <3>2, <1>5, StageIs
  <2>3. CASE u \in On("finobj") \ Strong
    <3>1. u \in On("tobefnz")' /\ u \notin Held
      BY <2>3, <1>3, <1>5, <1>6
    <3> QED
      BY <3>1, <2>3, <1>5, StageIs
  <2>4. CASE u \notin D \ All /\ u \notin On("finobj") \ Strong
    BY <2>1, <2>4, <1>3 DEF Stage
  <2> QED
    BY <2>2, <2>3, <2>4
<1>9. weak' = {u \in weak : Stage(u)' # "pending"} /\ weak \subseteq Userdata
  <2>1. weak \subseteq Userdata /\ weak \subseteq On("finobj")
    BY DEF IInv, TypeOK, WeakInv
  <2>2. On("finobj") \cap On("tobefnz") = {}
    BY <1>5 DEF Well, Lists, On
  <2>3. \A u \in weak : Stage(u)' = "pending" <=> u \notin Strong
    BY <2>1, <2>2, <1>3, <1>5, StageIs
  <2> QED
    BY <2>1, <2>3, <1>3
<1> QED
  BY <1>3, <1>5, <1>6, <1>7, <1>8, <1>9, CollectIs

LEMMA CallFinalizerPromise ==
  ASSUME IInv, IInv', CallFinalizer
  PROVE  Promise!Next
<1> SUFFICES ASSUME NEW o, o = lists.tobefnz[1] PROVE Promise!Next
  OBVIOUS
<1>1. /\ lists.tobefnz # <<>>
      /\ lists' = [lists EXCEPT !.tobefnz = Tail(@), !.allgc = <<o>> \o @]
      /\ \/ o \in Tables /\ stack' = stack \cup {o}
         \/ o \notin Tables /\ stack' = stack
      /\ refs' = refs /\ weak' = weak
  BY DEF CallFinalizer
<1>2. /\ Held = From(stack, refs) \cap Userdata /\ Held' = From(stack', refs') \cap Userdata
      /\ From(stack, refs) \subseteq Kept /\ From(stack', refs') \subseteq Kept'
      /\ Kept \in SUBSET Things /\ stack \in SUBSET Kept
      /\ Well(lists) /\ Well(lists)'
      /\ \A t \in From(stack, refs) \cap Tables : refs[t] \subseteq From(stack, refs)
  BY HeldIs
<1>3. /\ o \in On("tobefnz") /\ o \in Things
      /\ On("allgc")' = On("allgc") \cup {o}
      /\ On("finobj")' = On("finobj")
      /\ On("tobefnz")' = On("tobefnz") \ {o}
  BY <1>1, <1>2, Returned
<1>4. \A x : Exists(x)' <=> Exists(x)
  <2>1. \A x : Exists(x)' <=> x \in On("allgc")' \cup On("finobj")' \cup On("tobefnz")'
    BY DEF Exists, Lists
  <2> QED
    BY <2>1, <1>3, ExistsOn
<1>5. \A u \in Userdata : u # o => Stage(u)' = Stage(u)
  BY <1>3, <1>4 DEF Stage
<1>6. CASE o \in Tables
  <2>1. \A u \in Userdata : Stage(u)' = Stage(u)
    BY <1>5, <1>6, LuaGCAssumption
  <2>2. Held \subseteq Held'
    <3>1. stack' = stack \cup {o} /\ stack' \in SUBSET Things
      BY <1>1, <1>2, <1>3, <1>6
    <3>2. /\ stack' \subseteq From(stack', refs) /\ From(stack', refs) \subseteq Things
          /\ \A t \in From(stack', refs) \cap Tables : refs[t] \cap Things \subseteq From(stack', refs)
      BY <3>1, FromIs
    <3>3. \A t \in From(stack', refs) \cap Tables : refs[t] \subseteq From(stack', refs)
      BY <3>2 DEF IInv, TypeOK
    <3>4. From(stack, refs) \subseteq From(stack', refs)
      <4>1. stack \in SUBSET Things /\ stack \subseteq From(stack', refs)
        BY <1>2, <3>1, <3>2
      <4> QED
        BY <4>1, <3>2, <3>3, FromIs
    <3> QED
      BY <3>4, <1>1, <1>2
  <2>3. \A u \in Held' : Stage(u) # "absent"
    <3>1. \A u \in Held' : Exists(u)' /\ u \in Userdata
      BY <1>2 DEF Kept
    <3> QED
      BY <3>1, <1>2, <1>4, StageIs
  <2>4. Promise!Resurrect
    BY <2>1, <2>2, <2>3, <1>1 DEF Promise!Resurrect, Held
  <2> QED
    BY <2>4 DEF Promise!Next
<1>7. CASE o \notin Tables
  <2>1. o \in Userdata /\ Held' = Held
    BY <1>1, <1>2, <1>3, <1>7 DEF Things
  <2>2. Stage(o) = "pending" /\ Stage(o)' = "plain"
    BY <2>1, <1>2, <1>3, StageIs
  <2>3. Promise!Finalize(o)
    BY <2>1, <2>2, <1>1, <1>5 DEF Promise!Finalize, Held
  <2> QED
    BY <2>1, <2>3 DEF Promise!Next
<1> QED
  BY <1>6, <1>7

LEMMA NextPromise ==
  ASSUME IInv, ~Outruns, [Next]_vars
  PROVE  [Promise!Next]_(Promise!vars)
<1>1. IInv'
  BY NextIInv
<1>2. ASSUME UNCHANGED <<lists, refs, stack, weak>> PROVE UNCHANGED Promise!vars
  <2>1. \A list \in Lists : On(list)' = On(list)
    BY <1>2 DEF On
  <2> QED
    BY <1>1, <1>2, <2>1, QuietPromise
<1>3. ASSUME Program PROVE Promise!Next
  <2>1. UNCHANGED control
    BY <1>3 DEF Program
  <2>2. CASE SetMetatable
    <3>1. building \in stack
      BY <2>2 DEF SetMetatable, IInv, TypeOK
    <3> QED
      BY <2>1, <2>2, <3>1, CheckFinalizerPromise DEF SetMetatable
  <2>3. CASE Register
    <3>1. \A list \in Lists : On(list)' = On(list)
      BY <2>3 DEF Register, heap, On
    <3>2. Held' = Held
      BY <1>1, <2>3, HeldIs DEF Register
    <3>3. building \in Held /\ building \in On("finobj")
      <4>1. building \in stack /\ building \in Userdata /\ building \in On("finobj")
        BY <2>3 DEF Register, IInv, TypeOK, WeakInv, ToFinalize
      <4> QED
        BY <4>1, <1>1, HeldIs
    <3>4. weak' = weak \cup {building}
      BY <2>3 DEF Register
    <3> QED
      BY <1>1, <3>1, <3>2, <3>3, <3>4, ProgramPromise
  <2>4. CASE Script
    BY <1>1, <2>1, <2>4, ScriptPromise
  <2> QED
    BY <1>3, <2>2, <2>3, <2>4 DEF Program
<1>4. ASSUME NEW kind \in BOOLEAN, FullGC(kind) PROVE UNCHANGED Promise!vars
  BY <1>1, <1>4, FullGCStep, QuietPromise
<1>5. ASSUME SingleStep PROVE Promise!Next \/ UNCHANGED Promise!vars
  <2>1. CASE Atomic
    BY <2>1, AtomicPromise
  <2>2. CASE SweepStep
    BY <2>2, SweepPromise
  <2>3. CASE RestartCollection \/ SweepEnd \/ Pause \/ \E o \in Tables \cup {Thread} : PropagateMark(o)
    <3>1. UNCHANGED <<lists, refs, stack, weak>>
      BY <2>3 DEF RestartCollection, SweepEnd, Pause, PropagateMark, program
    <3> QED
      BY <3>1, <1>2
  <2> QED
    BY <1>5, <2>1, <2>2, <2>3 DEF SingleStep
<1>6. ASSUME Finalize PROVE Promise!Next
  BY <1>1, <1>6, CallFinalizerPromise DEF Finalize
<1>7. ASSUME NEW error \in BOOLEAN, Return(error) PROVE UNCHANGED Promise!vars
  BY <1>2, <1>7 DEF Return, heap, program
<1>8. ASSUME UNCHANGED vars PROVE UNCHANGED Promise!vars
  BY <1>2, <1>8 DEF vars, heap, program
<1> QED
  BY <1>3, <1>4, <1>5, <1>6, <1>7, <1>8 DEF Next, Collecting

LEMMA InitPromise == Init => Promise!Init
<1> SUFFICES ASSUME Init PROVE Promise!Init
  OBVIOUS
<1>1. \A u \in Userdata : Stage(u) = "absent"
  BY DEF Init, Stage, Exists, On, Range
<1>2. Reach(stack) = {}
  <2>1. {} \in SUBSET Things /\ stack = {}
    BY DEF Init
  <2> QED
    BY <2>1, PropagateAllIs DEF Reach
<1> QED
  BY <1>1, <1>2 DEF Init, Promise!Init

\* Lua's collector, in all its steps, implements Collector, what object.c relies
\* on: an object that a script can come to keeps its registry entry, and loses it
\* in the very step that queues it for its __gc.
THEOREM CollectorKeepsPromise ==
  ASSUME ~Outruns
  PROVE  Spec => KeepsPromise
<1>1. IInv /\ [Next]_vars => [Promise!Next]_(Promise!vars)
  BY NextPromise
<1> QED
  BY InitPromise, Inductive, <1>1, PTL DEF Spec, Promise!Spec, KeepsPromise
=============================================================================
