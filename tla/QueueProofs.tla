----------------------------- MODULE QueueProofs -----------------------------
(***************************************************************************)
(* Lemmas about lists: what they hold, and in which order.                 *)
(***************************************************************************)
EXTENDS Queues, WellFoundedInduction, TLAPS

\* Every set of natural numbers has a least one.
LEMMA LeastExists ==
  ASSUME NEW T \in SUBSET Nat, T # {}
  PROVE  \E x \in T : \A y \in T : x <= y
<1> DEFINE R == OpToRel(<, Nat)
<1>1. \A x, y \in Nat : <<x, y>> \in R <=> x < y
  BY DEF OpToRel
<1> HIDE DEF R
<1>2. PICK x \in T : \A y \in T : ~ (<<y, x>> \in R)
  <2>1. IsWellFoundedOn(R, Nat)
    BY NatLessThanWellFounded DEF R
  <2> QED
    BY <2>1, WFMin
<1>3. \A y \in T : ~ (y < x)
  BY <1>1, <1>2
<1> QED
  BY <1>3

\* Induction over the natural numbers, for a set of them.
LEMMA NatSetInduction ==
  ASSUME NEW S, 0 \in S, \A n \in Nat : n \in S => n + 1 \in S
  PROVE  Nat \subseteq S
<1> SUFFICES ASSUME Nat \ S # {} PROVE FALSE
  OBVIOUS
<1>1. PICK x \in Nat \ S : \A y \in Nat \ S : x <= y
  BY LeastExists
<1>2. x - 1 \in Nat /\ x - 1 < x /\ x = (x - 1) + 1
  OBVIOUS
<1> QED
  BY <1>1, <1>2

-----------------------------------------------------------------------------
(***************************************************************************)
(* Only, whose recursive function exists.                                  *)
(***************************************************************************)
Sifted(g, s, S, i) ==
  IF i = 0 THEN <<>>
  ELSE IF s[i] \in S THEN Append(g[i - 1], s[i]) ELSE g[i - 1]

LEMMA SiftExists ==
  ASSUME NEW T, NEW s \in Seq(T), NEW S
  PROVE  \E g : g = [i \in 0 .. Len(s) |-> Sifted(g, s, S, i)]
<1> DEFINE P == {m \in Nat : m <= Len(s) => \E g : g = [i \in 0 .. m |-> Sifted(g, s, S, i)]}
<1>1. 0 \in P
  <2> DEFINE g == [i \in 0 .. 0 |-> <<>>]
  <2>1. g = [i \in 0 .. 0 |-> Sifted(g, s, S, i)]
    BY DEF Sifted
  <2> QED
    BY <2>1
<1>2. ASSUME NEW m \in Nat, m \in P PROVE m + 1 \in P
  <2> SUFFICES ASSUME m + 1 <= Len(s)
               PROVE  \E h : h = [i \in 0 .. m + 1 |-> Sifted(h, s, S, i)]
    OBVIOUS
  <2>1. m <= Len(s)
    OBVIOUS
  <2>2. PICK g : g = [i \in 0 .. m |-> Sifted(g, s, S, i)]
    BY <1>2, <2>1
  <2> DEFINE h == [i \in 0 .. m + 1 |-> Sifted(g, s, S, i)]
  <2>3. \A i \in 0 .. m : h[i] = g[i]
    <3> HIDE DEF h
    <3> TAKE i \in 0 .. m
    <3>1. h[i] = Sifted(g, s, S, i)
      BY DEF h
    <3>2. g[i] = Sifted(g, s, S, i)
      BY <2>2
    <3> QED
      BY <3>1, <3>2
  <2>4. \A i \in 0 .. m + 1 : Sifted(h, s, S, i) = Sifted(g, s, S, i)
    BY <2>3 DEF Sifted
  <2>5. h = [i \in 0 .. m + 1 |-> Sifted(h, s, S, i)]
    BY <2>4
  <2> QED
    BY <2>5
<1>3. Nat \subseteq P
  <2> HIDE DEF P
  <2> QED
    BY <1>1, <1>2, NatSetInduction
<1> QED
  BY <1>3

LEMMA OnlyIsLast ==
  ASSUME NEW T, NEW s \in Seq(T), NEW S
  PROVE  \E g : g = [i \in 0 .. Len(s) |-> Sifted(g, s, S, i)] /\ Only(s, S) = g[Len(s)]
<1> DEFINE f == CHOOSE g : g = [i \in 0 .. Len(s) |-> Sifted(g, s, S, i)]
<1>1. f = [i \in 0 .. Len(s) |-> Sifted(f, s, S, i)]
  BY SiftExists
<1>2. Only(s, S) = f[Len(s)]
  BY DEF Only, Sifted
<1> QED
  BY <1>1, <1>2

-----------------------------------------------------------------------------
(***************************************************************************)
(* What the operators on sequences do to members and their order.          *)
(***************************************************************************)
LEMMA AppendOrder ==
  ASSUME NEW T, NEW s \in Seq(T), NEW e \in T
  PROVE  /\ Append(s, e) \in Seq(T)
         /\ Range(Append(s, e)) = Range(s) \cup {e}
         /\ \A x, y : Before(Append(s, e), x, y) <=> Before(s, x, y) \/ (x \in Range(s) /\ y = e)
<1>1. /\ Append(s, e) \in Seq(T) /\ Len(Append(s, e)) = Len(s) + 1
      /\ \A i \in 1 .. Len(s) : Append(s, e)[i] = s[i]
      /\ Append(s, e)[Len(s) + 1] = e
  OBVIOUS
<1>2. Range(Append(s, e)) = Range(s) \cup {e}
  BY <1>1 DEF Range
<1>3. ASSUME NEW x, NEW y
      PROVE  Before(Append(s, e), x, y) <=> Before(s, x, y) \/ (x \in Range(s) /\ y = e)
  BY <1>1 DEF Before, Range
<1> QED
  BY <1>1, <1>2, <1>3

LEMMA ConcatOrder ==
  ASSUME NEW T, NEW s \in Seq(T), NEW t \in Seq(T)
  PROVE  /\ s \o t \in Seq(T)
         /\ Range(s \o t) = Range(s) \cup Range(t)
         /\ \A x, y : Before(s \o t, x, y) <=>
              Before(s, x, y) \/ Before(t, x, y) \/ (x \in Range(s) /\ y \in Range(t))
<1> DEFINE q == s \o t
           n == Len(s)
<1>1. /\ q \in Seq(T) /\ Len(q) = n + Len(t)
      /\ \A i \in 1 .. n : q[i] = s[i]
      /\ \A i \in 1 .. Len(t) : q[n + i] = t[i]
  OBVIOUS
<1> HIDE DEF q
<1>2. n \in Nat /\ Len(t) \in Nat
  OBVIOUS
<1> HIDE DEF n
<1>3. ASSUME NEW i \in 1 .. Len(q), i \notin 1 .. n
      PROVE  i - n \in 1 .. Len(t) /\ q[i] = t[i - n]
  <2>1. i - n \in 1 .. Len(t) /\ i = n + (i - n)
    BY <1>1, <1>2, <1>3
  <2> QED
    BY <2>1, <1>1
<1>4. /\ \A i \in 1 .. n : i \in 1 .. Len(q)
      /\ \A i \in 1 .. Len(t) : n + i \in 1 .. Len(q)
  BY <1>1, <1>2
<1>5. Range(q) = Range(s) \cup Range(t)
  <2>1. DOMAIN q = 1 .. Len(q) /\ DOMAIN s = 1 .. n /\ DOMAIN t = 1 .. Len(t)
    BY <1>1 DEF n
  <2>2. Range(q) \subseteq Range(s) \cup Range(t)
    <3> SUFFICES ASSUME NEW i \in 1 .. Len(q) PROVE q[i] \in Range(s) \cup Range(t)
      BY <2>1 DEF Range
    <3>1. CASE i \in 1 .. n
      BY <3>1, <2>1, <1>1 DEF Range
    <3>2. CASE i \notin 1 .. n
      BY <3>2, <2>1, <1>3 DEF Range
    <3> QED
      BY <3>1, <3>2
  <2>3. Range(s) \subseteq Range(q)
    BY <2>1, <1>1, <1>4 DEF Range
  <2>4. Range(t) \subseteq Range(q)
    BY <2>1, <1>1, <1>4 DEF Range
  <2> QED
    BY <2>2, <2>3, <2>4
<1>6. ASSUME NEW x, NEW y
      PROVE  Before(q, x, y) <=>
               Before(s, x, y) \/ Before(t, x, y) \/ (x \in Range(s) /\ y \in Range(t))
  <2>1. ASSUME Before(q, x, y)
        PROVE  Before(s, x, y) \/ Before(t, x, y) \/ (x \in Range(s) /\ y \in Range(t))
    <3>1. PICK i, j \in 1 .. Len(q) : i < j /\ q[i] = x /\ q[j] = y
      BY <2>1 DEF Before
    <3>2. CASE i \in 1 .. n /\ j \in 1 .. n
      BY <3>1, <3>2, <1>1 DEF Before, n
    <3>3. CASE i \in 1 .. n /\ j \notin 1 .. n
      <4>1. x \in Range(s)
        BY <3>1, <3>3, <1>1 DEF Range, n
      <4>2. y \in Range(t)
        BY <3>1, <3>3, <1>3 DEF Range
      <4> QED
        BY <4>1, <4>2
    <3>4. CASE i \notin 1 .. n
      <4>1. j \notin 1 .. n /\ i - n < j - n
        BY <3>1, <3>4, <1>1, <1>2
      <4>2. /\ i - n \in 1 .. Len(t) /\ q[i] = t[i - n]
            /\ j - n \in 1 .. Len(t) /\ q[j] = t[j - n]
        BY <3>4, <4>1, <1>3
      <4> QED
        BY <4>1, <4>2, <3>1 DEF Before
    <3> QED
      BY <3>2, <3>3, <3>4
  <2>2. ASSUME Before(s, x, y) PROVE Before(q, x, y)
    BY <2>2, <1>1, <1>4 DEF Before, n
  <2>3. ASSUME Before(t, x, y) PROVE Before(q, x, y)
    <3>1. PICK i, j \in 1 .. Len(t) : i < j /\ t[i] = x /\ t[j] = y
      BY <2>3 DEF Before
    <3>2. n + i \in 1 .. Len(q) /\ n + j \in 1 .. Len(q) /\ n + i < n + j
      BY <3>1, <1>2, <1>4
    <3> QED
      BY <3>1, <3>2, <1>1 DEF Before
  <2>4. ASSUME x \in Range(s), y \in Range(t) PROVE Before(q, x, y)
    <3>1. PICK i \in 1 .. n : s[i] = x
      BY <2>4 DEF Range, n
    <3>2. PICK j \in 1 .. Len(t) : t[j] = y
      BY <2>4 DEF Range
    <3>3. i \in 1 .. Len(q) /\ n + j \in 1 .. Len(q) /\ i < n + j
      BY <1>2, <1>4
    <3> QED
      BY <3>1, <3>2, <3>3, <1>1 DEF Before
  <2> QED
    BY <2>1, <2>2, <2>3, <2>4
<1> QED
  BY <1>1, <1>5, <1>6 DEF q, n

LEMMA ConsOrder ==
  ASSUME NEW T, NEW s \in Seq(T), NEW e \in T
  PROVE  /\ <<e>> \o s \in Seq(T)
         /\ Range(<<e>> \o s) = {e} \cup Range(s)
         /\ \A x, y : Before(<<e>> \o s, x, y) <=> Before(s, x, y) \/ (x = e /\ y \in Range(s))
<1>1. <<e>> \in Seq(T) /\ Range(<<e>>) = {e} /\ \A x, y : ~Before(<<e>>, x, y)
  BY DEF Range, Before
<1> QED
  BY <1>1, ConcatOrder

\* Of a list that is not empty: its head comes before all others.
LEMMA TailOrder ==
  ASSUME NEW T, NEW s \in Seq(T), s # <<>>
  PROVE  /\ s[1] \in T /\ s[1] \in Range(s)
         /\ Tail(s) \in Seq(T)
         /\ Range(s) = {s[1]} \cup Range(Tail(s))
         /\ \A x, y : Before(s, x, y) <=> Before(Tail(s), x, y) \/ (x = s[1] /\ y \in Range(Tail(s)))
<1>1. Tail(s) \in Seq(T) /\ s = <<s[1]>> \o Tail(s) /\ s[1] \in T
  OBVIOUS
<1>2. /\ Range(<<s[1]>> \o Tail(s)) = {s[1]} \cup Range(Tail(s))
      /\ \A x, y : Before(<<s[1]>> \o Tail(s), x, y) <=>
                     Before(Tail(s), x, y) \/ (x = s[1] /\ y \in Range(Tail(s)))
  BY <1>1, ConsOrder
<1> QED
  BY <1>1, <1>2

\* What comes before something is in the list, as is what comes after it.
LEMMA BeforeInRange ==
  ASSUME NEW T, NEW s \in Seq(T), NEW x, NEW y, Before(s, x, y)
  PROVE  x \in Range(s) /\ y \in Range(s)
BY DEF Before, Range

LEMMA Distinct ==
  ASSUME NEW T, NEW s \in Seq(T)
  PROVE  IsInjective(s) <=> \A x : ~Before(s, x, x)
<1>1. ASSUME IsInjective(s) PROVE \A x : ~Before(s, x, x)
  BY <1>1 DEF IsInjective, Before
<1>2. ASSUME \A x : ~Before(s, x, x), NEW i \in DOMAIN s, NEW j \in DOMAIN s, s[i] = s[j]
      PROVE  i = j
  <2>1. i \in 1 .. Len(s) /\ j \in 1 .. Len(s)
    OBVIOUS
  <2>2. ~(i < j) /\ ~(j < i)
    BY <1>2, <2>1 DEF Before
  <2> QED
    BY <2>1, <2>2
<1> QED
  BY <1>1, <1>2 DEF IsInjective

\* The members of a list without repetitions are in a total order.
LEMMA OrderTotal ==
  ASSUME NEW T, NEW s \in Seq(T), NEW x \in Range(s), NEW y \in Range(s), x # y
  PROVE  Before(s, x, y) \/ Before(s, y, x)
<1>1. PICK i \in 1 .. Len(s) : s[i] = x
  BY DEF Range
<1>2. PICK j \in 1 .. Len(s) : s[j] = y
  BY DEF Range
<1>3. i < j \/ j < i
  BY <1>1, <1>2
<1> QED
  BY <1>1, <1>2, <1>3 DEF Before

LEMMA OrderStrict ==
  ASSUME NEW T, NEW s \in Seq(T), IsInjective(s), NEW x, NEW y, NEW z, Before(s, x, y)
  PROVE  ~Before(s, y, x) /\ x # y /\ (Before(s, y, z) => Before(s, x, z))
<1>1. PICK i, j \in 1 .. Len(s) : i < j /\ s[i] = x /\ s[j] = y
  BY DEF Before
<1>2. \A k, l \in 1 .. Len(s) : s[k] = s[l] => k = l
  BY DEF IsInjective
<1>3. ASSUME NEW k \in 1 .. Len(s), NEW l \in 1 .. Len(s), k < l, s[k] = y
      PROVE  k = j /\ s[l] # x
  BY <1>1, <1>2, <1>3
<1>4. ASSUME Before(s, y, z) PROVE Before(s, x, z)
  <2>1. PICK k, l \in 1 .. Len(s) : k < l /\ s[k] = y /\ s[l] = z
    BY <1>4 DEF Before
  <2>2. i < l
    BY <1>1, <1>3, <2>1
  <2> QED
    BY <1>1, <2>1, <2>2 DEF Before
<1>5. ~Before(s, y, x)
  BY <1>3 DEF Before
<1>6. x # y
  BY <1>1, <1>2
<1> QED
  BY <1>4, <1>5, <1>6

\* Taking members out of a list leaves the others in their order.
LEMMA OnlyOrder ==
  ASSUME NEW T, NEW s \in Seq(T), NEW S
  PROVE  /\ Only(s, S) \in Seq(T)
         /\ Range(Only(s, S)) = Range(s) \cap S
         /\ \A x, y : Before(Only(s, S), x, y) <=> Before(s, x, y) /\ x \in S /\ y \in S
<1>1. PICK g : g = [i \in 0 .. Len(s) |-> Sifted(g, s, S, i)] /\ Only(s, S) = g[Len(s)]
  BY OnlyIsLast
<1> DEFINE Upto(m) == {s[i] : i \in 1 .. m}
           Earlier(m, x, y) == \E i, j \in 1 .. m : i < j /\ s[i] = x /\ s[j] = y
           Right(m) == /\ g[m] \in Seq(T)
                       /\ Range(g[m]) = Upto(m) \cap S
                       /\ \A x, y : Before(g[m], x, y) <=> Earlier(m, x, y) /\ x \in S /\ y \in S
           P == {m \in Nat : m <= Len(s) => Right(m)}
<1>2. 0 \in P
  <2>1. g[0] = <<>> /\ <<>> \in Seq(T)
    BY <1>1 DEF Sifted
  <2>2. Range(<<>>) = {} /\ \A x, y : ~Before(<<>>, x, y)
    BY DEF Range, Before
  <2>3. Right(0)
    BY <2>1, <2>2
  <2> QED
    BY <2>3
<1>3. ASSUME NEW m \in Nat, m \in P PROVE m + 1 \in P
  <2> SUFFICES ASSUME m + 1 <= Len(s) PROVE Right(m + 1)
    OBVIOUS
  <2>1. Right(m)
    BY <1>3
  <2>2. g[m + 1] = IF s[m + 1] \in S THEN Append(g[m], s[m + 1]) ELSE g[m]
    <3>1. m + 1 \in 0 .. Len(s) /\ m + 1 # 0 /\ (m + 1) - 1 = m
      OBVIOUS
    <3>2. g[m + 1] = Sifted(g, s, S, m + 1)
      BY <3>1, <1>1
    <3> QED
      BY <3>1, <3>2 DEF Sifted
  <2>3. s[m + 1] \in T
    OBVIOUS
  <2>4. Upto(m + 1) = Upto(m) \cup {s[m + 1]}
    OBVIOUS
  <2>5. \A x, y : Earlier(m + 1, x, y) <=> Earlier(m, x, y) \/ (x \in Upto(m) /\ y = s[m + 1])
    OBVIOUS
  <2> HIDE DEF Upto, Earlier
  <2>6. CASE s[m + 1] \in S
    BY <2>1, <2>2, <2>3, <2>4, <2>5, <2>6, AppendOrder
  <2>7. CASE s[m + 1] \notin S
    BY <2>1, <2>2, <2>4, <2>5, <2>7
  <2> QED
    BY <2>6, <2>7
<1>4. Nat \subseteq P
  <2> HIDE DEF P
  <2> QED
    BY <1>2, <1>3, NatSetInduction
<1>5. Right(Len(s))
  <2> HIDE DEF Right
  <2>1. Len(s) \in Nat
    OBVIOUS
  <2> QED
    BY <1>4, <2>1
<1>6. Upto(Len(s)) = Range(s)
  BY DEF Range
<1>7. \A x, y : Earlier(Len(s), x, y) <=> Before(s, x, y)
  BY DEF Before
<1> QED
  BY <1>1, <1>5, <1>6, <1>7

LEMMA WithoutOrder ==
  ASSUME NEW T, NEW s \in Seq(T), NEW S
  PROVE  /\ Without(s, S) \in Seq(T)
         /\ Range(Without(s, S)) = Range(s) \ S
         /\ \A x, y : Before(Without(s, S), x, y) <=> Before(s, x, y) /\ x \notin S /\ y \notin S
<1>1. \A x, y : Before(s, x, y) => x \in Range(s) /\ y \in Range(s)
  BY BeforeInRange
<1> QED
  BY <1>1, OnlyOrder DEF Without

-----------------------------------------------------------------------------
(***************************************************************************)
(* Parts of a list without repetitions.                                    *)
(***************************************************************************)
LEMMA PrefixOrder ==
  ASSUME NEW T, NEW s \in Seq(T), IsInjective(s), NEW k \in 0 .. Len(s)
  PROVE  LET q == SubSeq(s, 1, k) IN
         /\ q \in Seq(T) /\ Len(q) = k
         /\ Range(q) = {s[i] : i \in 1 .. k} /\ Range(q) \subseteq Range(s)
         /\ k = Len(s) => q = s
         /\ \A x, y : Before(q, x, y) <=> Before(s, x, y) /\ y \in Range(q)
         /\ \A x \in Range(q), y \in Range(s) \ Range(q) : Before(s, x, y)
<1> DEFINE q == SubSeq(s, 1, k)
<1>1. /\ q \in Seq(T) /\ Len(q) = k /\ DOMAIN q = 1 .. k
      /\ \A i \in 1 .. k : q[i] = s[i]
  OBVIOUS
<1> HIDE DEF q
<1>2. Range(q) = {s[i] : i \in 1 .. k}
  BY <1>1 DEF Range
<1>3. 1 .. k \subseteq 1 .. Len(s) /\ DOMAIN s = 1 .. Len(s)
  OBVIOUS
<1>4. Range(q) \subseteq Range(s)
  BY <1>2, <1>3 DEF Range
<1>5. k = Len(s) => q = s
  BY <1>1
<1>6. \A i, j \in 1 .. Len(s) : s[i] = s[j] => i = j
  BY DEF IsInjective
<1>7. ASSUME NEW x, NEW y PROVE Before(q, x, y) <=> Before(s, x, y) /\ y \in Range(q)
  <2>1. ASSUME Before(q, x, y) PROVE Before(s, x, y) /\ y \in Range(q)
    BY <2>1, <1>1, <1>2, <1>3 DEF Before
  <2>2. ASSUME Before(s, x, y), y \in Range(q) PROVE Before(q, x, y)
    <3>1. PICK i, j \in 1 .. Len(s) : i < j /\ s[i] = x /\ s[j] = y
      BY <2>2 DEF Before
    <3>2. j \in 1 .. k
      BY <2>2, <3>1, <1>2, <1>3, <1>6
    <3>3. i \in 1 .. k
      BY <3>1, <3>2
    <3> QED
      BY <3>1, <3>2, <3>3, <1>1 DEF Before
  <2> QED
    BY <2>1, <2>2
<1>8. ASSUME NEW x \in Range(q), NEW y \in Range(s) \ Range(q) PROVE Before(s, x, y)
  <2>1. PICK i \in 1 .. k : s[i] = x
    BY <1>2
  <2>2. PICK j \in 1 .. Len(s) : s[j] = y
    BY DEF Range
  <2>3. j \notin 1 .. k
    BY <2>2, <1>2
  <2>4. i < j /\ i \in 1 .. Len(s)
    BY <2>3, <1>3
  <2> QED
    BY <2>1, <2>2, <2>4 DEF Before
<1> QED
  BY <1>1, <1>2, <1>4, <1>5, <1>7, <1>8 DEF q

LEMMA SuffixOrder ==
  ASSUME NEW T, NEW s \in Seq(T), IsInjective(s), NEW k \in 1 .. Len(s)
  PROVE  LET q == SubSeq(s, k + 1, Len(s)) IN
         /\ q \in Seq(T)
         /\ Range(q) = {x \in Range(s) : Before(s, s[k], x)}
         /\ \A x, y : Before(q, x, y) <=> Before(s, x, y) /\ x \in Range(q)
<1> DEFINE q == SubSeq(s, k + 1, Len(s))
           n == Len(s)
<1>0. n \in Nat /\ k \in Nat /\ k <= n
  OBVIOUS
<1>1. /\ q \in Seq(T) /\ Len(q) = n - k /\ DOMAIN q = 1 .. n - k
      /\ \A i \in 1 .. n - k : q[i] = s[k + i]
  OBVIOUS
<1> HIDE DEF q
<1>2. \A i, j \in 1 .. n : s[i] = s[j] => i = j
  BY DEF IsInjective
<1> HIDE DEF n
<1>3. ASSUME NEW j \in 1 .. n, k < j PROVE j - k \in 1 .. n - k /\ q[j - k] = s[j]
  <2>1. j - k \in 1 .. n - k /\ k + (j - k) = j
    BY <1>0, <1>3
  <2> QED
    BY <2>1, <1>1
<1>4. ASSUME NEW i \in 1 .. n - k PROVE k + i \in 1 .. n /\ k < k + i
  BY <1>0
<1>5. Range(q) = {x \in Range(s) : Before(s, s[k], x)}
  <2>1. ASSUME NEW x \in Range(q) PROVE x \in Range(s) /\ Before(s, s[k], x)
    <3>1. PICK i \in 1 .. n - k : q[i] = x
      BY <1>1 DEF Range
    <3>2. k + i \in 1 .. n /\ k < k + i /\ s[k + i] = x
      BY <3>1, <1>1, <1>4
    <3> QED
      BY <3>2 DEF Before, Range, n
  <2>2. ASSUME NEW x, Before(s, s[k], x) PROVE x \in Range(q)
    <3>1. PICK i, j \in 1 .. n : i < j /\ s[i] = s[k] /\ s[j] = x
      BY <2>2 DEF Before, n
    <3>2. i = k
      BY <3>1, <1>2 DEF n
    <3>3. j - k \in 1 .. n - k /\ q[j - k] = x
      BY <3>1, <3>2, <1>3
    <3> QED
      BY <3>3, <1>1 DEF Range
  <2> QED
    BY <2>1, <2>2
<1>6. ASSUME NEW x, NEW y PROVE Before(q, x, y) <=> Before(s, x, y) /\ x \in Range(q)
  <2>1. ASSUME Before(q, x, y) PROVE Before(s, x, y) /\ x \in Range(q)
    <3>1. PICK i, j \in 1 .. n - k : i < j /\ q[i] = x /\ q[j] = y
      BY <2>1, <1>1 DEF Before
    <3>2. /\ k + i \in 1 .. n /\ k + j \in 1 .. n /\ k + i < k + j
          /\ s[k + i] = x /\ s[k + j] = y
      BY <3>1, <1>0, <1>1, <1>4
    <3> QED
      BY <3>1, <3>2, <1>1 DEF Before, Range, n
  <2>2. ASSUME Before(s, x, y), x \in Range(q) PROVE Before(q, x, y)
    <3>1. PICK i, j \in 1 .. n : i < j /\ s[i] = x /\ s[j] = y
      BY <2>2 DEF Before, n
    <3>2. PICK l \in 1 .. n - k : q[l] = x
      BY <2>2, <1>1 DEF Range
    <3>3. k + l = i
      BY <3>1, <3>2, <1>1, <1>2, <1>4
    <3>4. k < i /\ k < j
      BY <3>1, <3>3, <1>0
    <3>5. i - k \in 1 .. Len(q) /\ j - k \in 1 .. Len(q) /\ i - k < j - k
      BY <3>1, <3>4, <1>0, <1>1, <1>3
    <3> QED
      BY <3>1, <3>4, <3>5, <1>3 DEF Before
  <2> QED
    BY <2>1, <2>2
<1> QED
  BY <1>1, <1>5, <1>6 DEF q, n

LEMMA LastOrder ==
  ASSUME NEW T, NEW s \in Seq(T), IsInjective(s), s # <<>>
  PROVE  /\ s[Len(s)] \in Range(s)
         /\ \A x : ~Before(s, s[Len(s)], x)
         /\ \A x \in Range(s) : x = s[Len(s)] \/ Before(s, x, s[Len(s)])
<1> DEFINE n == Len(s)
<1>1. n \in 1 .. n /\ DOMAIN s = 1 .. n
  OBVIOUS
<1>2. \A i, j \in 1 .. n : s[i] = s[j] => i = j
  BY DEF IsInjective
<1>3. s[n] \in Range(s)
  BY <1>1 DEF Range
<1>4. \A x : ~Before(s, s[n], x)
  BY <1>1, <1>2 DEF Before
<1>5. ASSUME NEW x \in Range(s), x # s[n] PROVE Before(s, x, s[n])
  <2>1. PICK i \in 1 .. n : s[i] = x
    BY DEF Range
  <2>2. i < n
    BY <2>1, <1>5
  <2> QED
    BY <2>1, <2>2, <1>1 DEF Before
<1> QED
  BY <1>3, <1>4, <1>5
=============================================================================
