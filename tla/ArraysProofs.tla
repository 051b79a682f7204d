---------------------------- MODULE ArraysProofs ----------------------------
(***************************************************************************)
(* What the script assigns to a field or an element of an array reads back,*)
(* its assignments stay in the places that it may assign, and an index that*)
(* passes the bounds test leads to an element the host has: for any bytes, *)
(* objects, arrays and counts, as long as the host's declarations lead to  *)
(* memory and the host moves no array that the script holds. And pairs of  *)
(* an array implements Traversal, however the host changes its counts, as  *)
(* long as no count and no size is beyond the positive half of an int.     *)
(***************************************************************************)
EXTENDS Arrays, QueueProofs

-----------------------------------------------------------------------------
(***************************************************************************)
(* Recursive functions on 0 .. n, each value made of the one before.       *)
(***************************************************************************)
Follows(f, n, e, st) ==
  f[0] = e /\ \A i \in 1 .. n : f[i] = st[<<f[i - 1], i>>]

LEMMA RecursionExists ==
  ASSUME NEW T, NEW e \in T, NEW st \in [T \X Nat -> T], NEW n \in Nat
  PROVE  \E f \in [0 .. n -> T] : Follows(f, n, e, st)
<1> DEFINE S == {k \in Nat : \E f \in [0 .. k -> T] : Follows(f, k, e, st)}
<1>1. 0 \in S
  <2> DEFINE f == [i \in 0 .. 0 |-> e]
  <2>1. f \in [0 .. 0 -> T] /\ Follows(f, 0, e, st)
    BY DEF Follows
  <2> QED
    BY <2>1
<1>2. ASSUME NEW k \in Nat, k \in S
      PROVE  k + 1 \in S
  <2>1. PICK f \in [0 .. k -> T] : Follows(f, k, e, st)
    BY <1>2
  <2> DEFINE g == [i \in 0 .. k + 1 |-> IF i = k + 1 THEN st[<<f[k], k + 1>>] ELSE f[i]]
  <2>2. g \in [0 .. k + 1 -> T]
    <3>1. f[k] \in T /\ k + 1 \in Nat
      OBVIOUS
    <3>2. st[<<f[k], k + 1>>] \in T
      BY <3>1
    <3> QED
      BY <3>2
  <2>3. \A i \in 0 .. k : g[i] = f[i]
    OBVIOUS
  <2>4. g[k + 1] = st[<<f[k], k + 1>>]
    OBVIOUS
  <2> HIDE DEF g
  <2>5. ASSUME NEW i \in 1 .. k + 1
        PROVE  g[i] = st[<<g[i - 1], i>>]
    <3>1. i - 1 \in 0 .. k /\ g[i - 1] = f[i - 1]
      BY <2>3
    <3>2. CASE i = k + 1
      BY <2>4, <3>1, <3>2
    <3>3. CASE i # k + 1
      BY <2>1, <2>3, <3>1, <3>3 DEF Follows
    <3> QED
      BY <3>2, <3>3
  <2>6. Follows(g, k + 1, e, st)
    BY <2>1, <2>3, <2>5 DEF Follows
  <2> QED
    BY <2>2, <2>6
<1>3. Nat \subseteq S
  <2> HIDE DEF S
  <2> QED
    BY <1>1, <1>2, NatSetInduction
<1> QED
  BY <1>3

\* The first values do not depend on how many there are.
LEMMA RecursionAgrees ==
  ASSUME NEW e, NEW st, NEW n \in Nat, NEW m \in Nat, n <= m, NEW f, NEW g,
         Follows(f, n, e, st), Follows(g, m, e, st)
  PROVE  \A i \in 0 .. n : f[i] = g[i]
<1> DEFINE S == {i \in Nat : i <= n => f[i] = g[i]}
<1>1. 0 \in S
  BY DEF Follows
<1>2. ASSUME NEW i \in Nat, i \in S
      PROVE  i + 1 \in S
  <2> SUFFICES ASSUME i + 1 <= n
               PROVE  f[i + 1] = g[i + 1]
    OBVIOUS
  <2>1. f[i] = g[i]
    BY <1>2
  <2>2. i + 1 \in 1 .. n /\ i + 1 \in 1 .. m /\ (i + 1) - 1 = i
    OBVIOUS
  <2> QED
    BY <2>1, <2>2 DEF Follows
<1>3. Nat \subseteq S
  <2> HIDE DEF S
  <2> QED
    BY <1>1, <1>2, NatSetInduction
<1> QED
  BY <1>3

-----------------------------------------------------------------------------
(***************************************************************************)
(* Powers.                                                                 *)
(***************************************************************************)
LEMMA PowerIsLast ==
  ASSUME NEW b \in Nat, NEW n \in Nat
  PROVE  \E f \in [0 .. n -> Nat] :
           Follows(f, n, 1, [x \in Nat \X Nat |-> b * x[1]]) /\ Power(b, n) = f[n]
<1> DEFINE st == [x \in Nat \X Nat |-> b * x[1]]
           p == CHOOSE f : f = [i \in 0 .. n |-> IF i = 0 THEN 1 ELSE b * f[i - 1]]
<1>1. \A x \in Nat, i \in Nat : st[<<x, i>>] = b * x
  OBVIOUS
<1>2. st \in [Nat \X Nat -> Nat]
  <2>1. ASSUME NEW x \in Nat \X Nat PROVE b * x[1] \in Nat
    OBVIOUS
  <2> QED
    BY <2>1
<1> HIDE DEF st
<1>3. PICK f \in [0 .. n -> Nat] : Follows(f, n, 1, st)
  BY <1>2, RecursionExists
<1>4. f = [i \in 0 .. n |-> IF i = 0 THEN 1 ELSE b * f[i - 1]]
  <2>1. ASSUME NEW i \in 0 .. n
        PROVE  f[i] = IF i = 0 THEN 1 ELSE b * f[i - 1]
    <3>1. CASE i = 0
      BY <1>3, <3>1 DEF Follows
    <3>2. CASE i # 0
      <4>1. i \in 1 .. n /\ f[i - 1] \in Nat /\ i \in Nat
        BY <3>2
      <4> QED
        BY <1>1, <1>3, <3>2, <4>1 DEF Follows
    <3> QED
      BY <3>1, <3>2
  <2> QED
    BY <2>1
<1>5. p = [i \in 0 .. n |-> IF i = 0 THEN 1 ELSE b * p[i - 1]]
  BY <1>4
<1>6. Power(b, n) = p[n]
  BY DEF Power
<1> HIDE DEF p
<1>7. \A i \in 0 .. n : p[i] = f[i]
  <2> DEFINE S == {i \in Nat : i <= n => p[i] = f[i]}
  <2>1. 0 \in S
    BY <1>4, <1>5
  <2>2. ASSUME NEW i \in Nat, i \in S
        PROVE  i + 1 \in S
    <3> SUFFICES ASSUME i + 1 <= n PROVE p[i + 1] = f[i + 1]
      OBVIOUS
    <3>1. i + 1 \in 0 .. n /\ i + 1 # 0 /\ (i + 1) - 1 = i /\ p[i] = f[i]
      BY <2>2
    <3> QED
      BY <1>4, <1>5, <3>1
  <2>3. Nat \subseteq S
    <3> HIDE DEF S
    <3> QED
      BY <2>1, <2>2, NatSetInduction
  <2> QED
    BY <2>3
<1>8. n \in 0 .. n
  OBVIOUS
<1>9. Power(b, n) = f[n]
  BY <1>6, <1>7, <1>8
<1> QED
  BY <1>3, <1>9 DEF st

LEMMA PowerSteps ==
  ASSUME NEW b \in Nat
  PROVE  /\ Power(b, 0) = 1
         /\ \A n \in Nat : Power(b, n) \in Nat /\ Power(b, n + 1) = b * Power(b, n)
<1> DEFINE st == [x \in Nat \X Nat |-> b * x[1]]
<1>1. \A x \in Nat, i \in Nat : st[<<x, i>>] = b * x
  OBVIOUS
<1>2. ASSUME NEW n \in Nat
      PROVE  \E f \in [0 .. n -> Nat] : Follows(f, n, 1, st) /\ Power(b, n) = f[n]
  BY PowerIsLast
<1> HIDE DEF st
<1>3. Power(b, 0) = 1
  BY <1>2 DEF Follows
<1>4. ASSUME NEW n \in Nat
      PROVE  Power(b, n) \in Nat /\ Power(b, n + 1) = b * Power(b, n)
  <2>1. PICK f \in [0 .. n -> Nat] : Follows(f, n, 1, st) /\ Power(b, n) = f[n]
    BY <1>2
  <2>2. PICK g \in [0 .. n + 1 -> Nat] : Follows(g, n + 1, 1, st) /\ Power(b, n + 1) = g[n + 1]
    <3> DEFINE m == n + 1
    <3>1. m \in Nat
      OBVIOUS
    <3> HIDE DEF m
    <3>2. \E g \in [0 .. m -> Nat] : Follows(g, m, 1, st) /\ Power(b, m) = g[m]
      BY <1>2, <3>1
    <3> QED
      BY <3>2 DEF m
  <2>3. f[n] = g[n]
    BY <2>1, <2>2, RecursionAgrees
  <2>4. n + 1 \in 1 .. n + 1 /\ (n + 1) - 1 = n /\ g[n] \in Nat /\ n + 1 \in Nat
    OBVIOUS
  <2>5. g[n + 1] = st[<<g[n], n + 1>>]
    BY <2>2, <2>4 DEF Follows
  <2>6. g[n + 1] = b * g[n]
    BY <1>1, <2>4, <2>5
  <2> QED
    BY <2>1, <2>2, <2>3, <2>4, <2>6
<1> QED
  BY <1>3, <1>4

LEMMA PowerPositive ==
  ASSUME NEW b \in Nat \ {0}, NEW n \in Nat
  PROVE  Power(b, n) \in Nat \ {0}
<1> DEFINE S == {k \in Nat : Power(b, k) \in Nat \ {0}}
<1>1. 0 \in S
  BY PowerSteps
<1>2. ASSUME NEW k \in Nat, k \in S
      PROVE  k + 1 \in S
  <2>1. Power(b, k) \in Nat \ {0} /\ Power(b, k + 1) = b * Power(b, k)
    BY <1>2, PowerSteps
  <2> HIDE DEF S
  <2>2. b * Power(b, k) \in Nat \ {0}
    BY <2>1
  <2> QED
    BY <2>1, <2>2 DEF S
<1>3. Nat \subseteq S
  <2> HIDE DEF S
  <2> QED
    BY <1>1, <1>2, NatSetInduction
<1> QED
  BY <1>3

\* Powers of one base multiply as their exponents add.
LEMMA PowerAdds ==
  ASSUME NEW b \in Nat, NEW m \in Nat, NEW n \in Nat
  PROVE  Power(b, m + n) = Power(b, m) * Power(b, n)
<1> DEFINE S == {k \in Nat : Power(b, m + k) = Power(b, m) * Power(b, k)}
<1>1. 0 \in S
  BY PowerSteps
<1>2. ASSUME NEW k \in Nat, k \in S
      PROVE  k + 1 \in S
  <2> DEFINE x == Power(b, m)
             y == Power(b, k)
  <2>1. Power(b, m + k) = x * y
    BY <1>2
  <2>2. m + k \in Nat /\ m + (k + 1) = (m + k) + 1
    OBVIOUS
  <2>3. Power(b, m + (k + 1)) = b * (x * y)
    BY <2>1, <2>2, PowerSteps
  <2>4. Power(b, k + 1) = b * y /\ x \in Nat /\ y \in Nat
    BY PowerSteps
  <2> HIDE DEF x, y
  <2>5. b * (x * y) = x * (b * y)
    BY <2>4
  <2> QED
    BY <2>3, <2>4, <2>5 DEF x
<1>3. Nat \subseteq S
  <2> HIDE DEF S
  <2> QED
    BY <1>1, <1>2, NatSetInduction
<1> QED
  BY <1>3

-----------------------------------------------------------------------------
(***************************************************************************)
(* Division.                                                               *)
(***************************************************************************)
LEMMA DivMod ==
  ASSUME NEW x \in Int, NEW d \in Nat \ {0}
  PROVE  /\ x \div d \in Int /\ x % d \in 0 .. d - 1
         /\ x = d * (x \div d) + (x % d)
         /\ x \in Nat => x \div d \in Nat
<1>1. x \div d \in Int
  OBVIOUS
<1>2. x % d \in 0 .. d - 1
  OBVIOUS
<1>3. x = d * (x \div d) + (x % d)
  BY SMTT(60)
<1>4. x \in Nat => x \div d >= 0
  OBVIOUS
<1> QED
  BY <1>1, <1>2, <1>3, <1>4

LEMMA ProductPositive ==
  ASSUME NEW d \in Nat \ {0}, NEW k \in Nat \ {0}
  PROVE  d * k \in Nat /\ d * k >= d /\ d * k >= k /\ d * k > 0
OBVIOUS

LEMMA DivModUnique ==
  ASSUME NEW d \in Nat \ {0}, NEW q \in Int, NEW r \in 0 .. d - 1
  PROVE  (d * q + r) \div d = q /\ (d * q + r) % d = r
<1> DEFINE x == d * q + r
           p == x \div d
           s == x % d
<1>1. x \in Int /\ r \in Nat
  OBVIOUS
<1>2. p \in Int /\ s \in 0 .. d - 1 /\ x = d * p + s
  BY <1>1, DivMod
<1>3. d * (p - q) = r - s
  BY <1>2
<1> HIDE DEF p, s, x
<1>4. ~(p - q > 0)
  <2>1. p - q > 0 => p - q \in Nat \ {0}
    BY <1>2
  <2>2. p - q > 0 => d * (p - q) >= d
    BY <2>1, ProductPositive
  <2> QED
    BY <1>1, <1>2, <1>3, <2>2
<1>5. ~(p - q < 0)
  <2>1. p - q < 0 => q - p \in Nat \ {0}
    BY <1>2
  <2>2. p - q < 0 => d * (q - p) >= d
    BY <2>1, ProductPositive
  <2>3. d * (q - p) = s - r
    BY <1>2, <1>3
  <2> QED
    BY <1>1, <1>2, <2>2, <2>3
<1>6. p = q
  BY <1>2, <1>4, <1>5
<1>7. s = r
  BY <1>2, <1>3, <1>6
<1> QED
  BY <1>6, <1>7 DEF p, s, x

LEMMA DivDiv ==
  ASSUME NEW x \in Int, NEW p \in Nat \ {0}, NEW q \in Nat \ {0}
  PROVE  (x \div p) \div q = x \div (p * q)
<1> DEFINE y == x \div p
           r == x % p
           z == y \div q
           s == y % q
<1>1. y \in Int /\ r \in 0 .. p - 1 /\ x = p * y + r
  BY DivMod
<1>2. z \in Int /\ s \in 0 .. q - 1 /\ y = q * z + s
  BY <1>1, DivMod
<1> HIDE DEF y, r, z, s
<1>3. x = p * (q * z + s) + r
  BY <1>1, <1>2
<1>4. p * (q * z + s) = (p * q) * z + p * s
  BY <1>2
<1>5. p * s + r \in 0 .. p * q - 1
  <2>1. q - 1 - s \in Nat /\ p * (q - 1 - s) >= 0
    BY <1>2
  <2>2. p * (q - 1 - s) = p * q - p - p * s
    BY <1>2
  <2>3. p * s >= 0 /\ p * s \in Int /\ p * q \in Int
    BY <1>2
  <2> QED
    BY <1>1, <2>1, <2>2, <2>3
<1>6. p * q \in Nat \ {0}
  BY ProductPositive
<1>7. x = (p * q) * z + (p * s + r)
  BY <1>1, <1>2, <1>3, <1>4
<1>8. x \div (p * q) = z
  <2> DEFINE d == p * q
             u == p * s + r
  <2>1. d \in Nat \ {0} /\ u \in 0 .. d - 1 /\ x = d * z + u
    BY <1>5, <1>6, <1>7
  <2> HIDE DEF d, u
  <2>2. x \div d = z
    BY <1>2, <2>1, DivModUnique
  <2> QED
    BY <2>2 DEF d
<1> QED
  BY <1>8 DEF z, y

LEMMA DivShift ==
  ASSUME NEW x \in Int, NEW d \in Nat \ {0}, NEW k \in Int
  PROVE  (x + d * k) \div d = x \div d + k /\ (x + d * k) % d = x % d
<1> DEFINE q == x \div d
           r == x % d
<1>1. q \in Int /\ r \in 0 .. d - 1 /\ x = d * q + r
  BY DivMod
<1> HIDE DEF q, r
<1>2. q + k \in Int /\ x + d * k = d * (q + k) + r
  BY <1>1
<1>3. (d * (q + k) + r) \div d = q + k /\ (d * (q + k) + r) % d = r
  BY <1>1, <1>2, DivModUnique
<1> QED
  BY <1>2, <1>3 DEF q, r

LEMMA SmallDiv ==
  ASSUME NEW d \in Nat \ {0}, NEW r \in 0 .. d - 1
  PROVE  r \div d = 0 /\ r % d = r
<1>1. d * 0 + r = r
  OBVIOUS
<1> QED
  BY <1>1, DivModUnique

-----------------------------------------------------------------------------
(***************************************************************************)
(* Words: what is in their bytes, and the bytes of what is written.        *)
(***************************************************************************)
LEMMA ByteType == Byte \in Nat \ {0}
BY AccessAssumption, PowerPositive DEF Byte

\* The place value of byte i.
Unit(i) == Power(Byte, i)

LEMMA UnitSteps ==
  /\ Unit(0) = 1
  /\ \A i \in Nat : Unit(i) \in Nat \ {0} /\ Unit(i + 1) = Byte * Unit(i)
BY ByteType, PowerSteps, PowerPositive DEF Unit

Numbers(m, a, w) == \A i \in 0 .. w - 1 : m[a + i] \in Nat

LEMMA WordIsLast ==
  ASSUME NEW m, NEW a \in Nat, NEW w \in Nat, Numbers(m, a, w), NEW n \in Nat, n <= w
  PROVE  \E f \in [0 .. n -> Nat] :
           /\ Follows(f, n, 0,
                [x \in Nat \X Nat |->
                   IF x[2] \in 1 .. w THEN x[1] + m[a + x[2] - 1] * Unit(x[2] - 1) ELSE 0])
           /\ Word(m, a, n) = f[n]
<1> DEFINE st == [x \in Nat \X Nat |->
                    IF x[2] \in 1 .. w THEN x[1] + m[a + x[2] - 1] * Unit(x[2] - 1) ELSE 0]
           p == CHOOSE f : f = [i \in 0 .. n |->
                  IF i = 0 THEN 0 ELSE f[i - 1] + m[a + i - 1] * Unit(i - 1)]
<1>1. \A x \in Nat, i \in 1 .. n : st[<<x, i>>] = x + m[a + i - 1] * Unit(i - 1)
  OBVIOUS
<1>2. st \in [Nat \X Nat -> Nat]
  <2>1. ASSUME NEW x \in Nat, NEW i \in 1 .. w
        PROVE  x + m[a + i - 1] * Unit(i - 1) \in Nat
    <3>1. i - 1 \in 0 .. w - 1 /\ i - 1 \in Nat /\ a + (i - 1) = a + i - 1
      OBVIOUS
    <3>2. m[a + i - 1] \in Nat
      BY <3>1 DEF Numbers
    <3>3. Unit(i - 1) \in Nat
      BY <3>1, UnitSteps
    <3> QED
      BY <3>2, <3>3
  <2> QED
    BY <2>1
<1> HIDE DEF st
<1>3. PICK f \in [0 .. n -> Nat] : Follows(f, n, 0, st)
  BY <1>2, RecursionExists
<1>4. f = [i \in 0 .. n |-> IF i = 0 THEN 0 ELSE f[i - 1] + m[a + i - 1] * Unit(i - 1)]
  <2>1. ASSUME NEW i \in 0 .. n
        PROVE  f[i] = IF i = 0 THEN 0 ELSE f[i - 1] + m[a + i - 1] * Unit(i - 1)
    <3>1. CASE i = 0
      BY <1>3, <3>1 DEF Follows
    <3>2. CASE i # 0
      <4>1. i \in 1 .. n /\ f[i - 1] \in Nat
        BY <3>2
      <4> QED
        BY <1>1, <1>3, <3>2, <4>1 DEF Follows
    <3> QED
      BY <3>1, <3>2
  <2> QED
    BY <2>1
<1>5. p = [i \in 0 .. n |-> IF i = 0 THEN 0 ELSE p[i - 1] + m[a + i - 1] * Unit(i - 1)]
  BY <1>4
<1>6. Word(m, a, n) = p[n]
  BY DEF Word, Unit
<1> HIDE DEF p
<1>7. \A i \in 0 .. n : p[i] = f[i]
  <2> DEFINE S == {i \in Nat : i <= n => p[i] = f[i]}
  <2>1. 0 \in S
    BY <1>4, <1>5
  <2>2. ASSUME NEW i \in Nat, i \in S
        PROVE  i + 1 \in S
    <3> SUFFICES ASSUME i + 1 <= n PROVE p[i + 1] = f[i + 1]
      OBVIOUS
    <3>1. i + 1 \in 0 .. n /\ i + 1 # 0 /\ (i + 1) - 1 = i /\ p[i] = f[i]
      BY <2>2
    <3> QED
      BY <1>4, <1>5, <3>1
  <2>3. Nat \subseteq S
    <3> HIDE DEF S
    <3> QED
      BY <2>1, <2>2, NatSetInduction
  <2> QED
    BY <2>3
<1>8. n \in 0 .. n
  OBVIOUS
<1>9. Word(m, a, n) = f[n]
  BY <1>6, <1>7, <1>8
<1> QED
  BY <1>3, <1>9 DEF st

\* A word of one byte more.
LEMMA WordSteps ==
  ASSUME NEW m, NEW a \in Nat, NEW w \in Nat, Numbers(m, a, w)
  PROVE  /\ Word(m, a, 0) = 0
         /\ \A n \in 0 .. w : Word(m, a, n) \in Nat
         /\ \A n \in 0 .. w - 1 : Word(m, a, n + 1) = Word(m, a, n) + m[a + n] * Unit(n)
<1> DEFINE st == [x \in Nat \X Nat |->
                    IF x[2] \in 1 .. w THEN x[1] + m[a + x[2] - 1] * Unit(x[2] - 1) ELSE 0]
<1>1. \A x \in Nat, i \in 1 .. w : st[<<x, i>>] = x + m[a + i - 1] * Unit(i - 1)
  OBVIOUS
<1>2. ASSUME NEW n \in Nat, n <= w
      PROVE  \E f \in [0 .. n -> Nat] : Follows(f, n, 0, st) /\ Word(m, a, n) = f[n]
  BY <1>2, WordIsLast
<1> HIDE DEF st
<1>3. Word(m, a, 0) = 0
  BY <1>2 DEF Follows
<1>4. ASSUME NEW n \in 0 .. w
      PROVE  Word(m, a, n) \in Nat
  BY <1>2
<1>5. ASSUME NEW n \in 0 .. w - 1
      PROVE  Word(m, a, n + 1) = Word(m, a, n) + m[a + n] * Unit(n)
  <2> DEFINE k == n + 1
  <2>1. k \in Nat /\ k <= w /\ n \in Nat /\ n <= k /\ n <= w /\ k - 1 = n /\ k \in 1 .. w /\ k \in 1 .. k
        /\ a + k - 1 = a + n
    OBVIOUS
  <2> HIDE DEF k
  <2>2. PICK f \in [0 .. n -> Nat] : Follows(f, n, 0, st) /\ Word(m, a, n) = f[n]
    BY <1>2, <2>1
  <2>3. PICK g \in [0 .. k -> Nat] : Follows(g, k, 0, st) /\ Word(m, a, k) = g[k]
    BY <1>2, <2>1
  <2>4. \A i \in 0 .. n : f[i] = g[i]
    BY <2>1, <2>2, <2>3, RecursionAgrees
  <2>5. f[n] = g[n] /\ g[n] \in Nat
    BY <2>1, <2>4
  <2>6. g[k] = st[<<g[n], k>>]
    BY <2>1, <2>3 DEF Follows
  <2>7. g[k] = g[n] + m[a + n] * Unit(n)
    BY <1>1, <2>1, <2>5, <2>6
  <2> QED
    BY <2>2, <2>3, <2>5, <2>7 DEF k
<1> QED
  BY <1>3, <1>4, <1>5

LEMMA BytesAreNumbers ==
  ASSUME NEW m, NEW a, NEW w, HoldsBytes(m, a, w)
  PROVE  Numbers(m, a, w)
BY ByteType DEF HoldsBytes, Numbers

LEMMA WordBelow ==
  ASSUME NEW m, NEW a \in Nat, NEW w \in Nat, HoldsBytes(m, a, w)
  PROVE  \A n \in 0 .. w : Word(m, a, n) \in 0 .. Unit(n) - 1
<1> DEFINE S == {n \in Nat : n <= w => Word(m, a, n) \in 0 .. Unit(n) - 1}
<1>0. Numbers(m, a, w)
  BY BytesAreNumbers
<1>1. 0 \in S
  <2>1. Word(m, a, 0) = 0 /\ Unit(0) = 1
    BY <1>0, WordSteps, UnitSteps
  <2> QED
    BY <2>1
<1>2. ASSUME NEW n \in Nat, n \in S
      PROVE  n + 1 \in S
  <2> SUFFICES ASSUME n + 1 <= w
               PROVE  Word(m, a, n + 1) \in 0 .. Unit(n + 1) - 1
    OBVIOUS
  <2>1. n \in 0 .. w - 1
    OBVIOUS
  <2>2. Word(m, a, n + 1) = Word(m, a, n) + m[a + n] * Unit(n)
    BY <1>0, <2>1, WordSteps
  <2>3. m[a + n] \in 0 .. Byte - 1
    BY <2>1 DEF HoldsBytes
  <2>4. Unit(n) \in Nat \ {0} /\ Unit(n + 1) = Byte * Unit(n)
    BY UnitSteps
  <2>5. Word(m, a, n) \in 0 .. Unit(n) - 1
    BY <1>2, <2>1
  <2>6. ASSUME NEW u \in Nat \ {0}, NEW c \in 0 .. Byte - 1, NEW x \in 0 .. u - 1
        PROVE  x + c * u \in 0 .. Byte * u - 1
    <3>1. Byte - 1 - c \in Nat
      BY ByteType
    <3>2. (Byte - 1 - c) * u >= 0 /\ (Byte - 1 - c) * u = Byte * u - u - c * u
      BY <3>1, ByteType
    <3>3. c * u >= 0 /\ c * u \in Int /\ Byte * u \in Int
      BY ByteType
    <3> QED
      BY <3>2, <3>3
  <2> QED
    BY <2>2, <2>3, <2>4, <2>5, <2>6
<1>3. Nat \subseteq S
  <2> HIDE DEF S
  <2> QED
    BY <1>1, <1>2, NatSetInduction
<1> QED
  BY <1>3

\* The bytes of a word before byte i, and the others.
LEMMA WordTail ==
  ASSUME NEW m, NEW a \in Nat, NEW w \in Nat, Numbers(m, a, w), NEW i \in 0 .. w
  PROVE  \A n \in i .. w : \E rest \in Nat : Word(m, a, n) = Word(m, a, i) + Unit(i) * rest
<1> DEFINE S == {k \in Nat : i + k <= w =>
                   \E rest \in Nat : Word(m, a, i + k) = Word(m, a, i) + Unit(i) * rest}
<1>1. 0 \in S
  <2>0. i \in Nat /\ i + 0 = i
    OBVIOUS
  <2>1. Word(m, a, i) \in Nat /\ Unit(i) \in Nat
    BY <2>0, WordSteps, UnitSteps
  <2>2. Word(m, a, i + 0) = Word(m, a, i) + Unit(i) * 0
    BY <2>0, <2>1
  <2> QED
    BY <2>2
<1>2. ASSUME NEW k \in Nat, k \in S
      PROVE  k + 1 \in S
  <2> DEFINE n == i + k
  <2> SUFFICES ASSUME i + (k + 1) <= w
               PROVE  \E rest \in Nat : Word(m, a, i + (k + 1)) = Word(m, a, i) + Unit(i) * rest
    OBVIOUS
  <2>1. n \in 0 .. w - 1 /\ i + (k + 1) = n + 1 /\ n <= w
    OBVIOUS
  <2>2. PICK rest \in Nat : Word(m, a, n) = Word(m, a, i) + Unit(i) * rest
    BY <1>2, <2>1
  <2>3. Word(m, a, n + 1) = Word(m, a, n) + m[a + n] * Unit(n) /\ m[a + n] \in Nat
    BY <2>1, WordSteps DEF Numbers
  <2>4. Unit(n) = Unit(i) * Unit(k) /\ Unit(i) \in Nat /\ Unit(k) \in Nat /\ Word(m, a, i) \in Nat
    <3>1. i \in Nat
      OBVIOUS
    <3>2. Unit(n) = Unit(i) * Unit(k)
      BY <3>1, ByteType, PowerAdds DEF Unit
    <3>3. Unit(i) \in Nat /\ Unit(k) \in Nat
      BY <3>1, UnitSteps
    <3>4. Word(m, a, i) \in Nat
      BY WordSteps
    <3> QED
      BY <3>2, <3>3, <3>4
  <2> HIDE DEF n
  <2>5. Word(m, a, n + 1) = Word(m, a, i) + Unit(i) * (rest + m[a + n] * Unit(k))
    BY <2>2, <2>3, <2>4
  <2>6. rest + m[a + n] * Unit(k) \in Nat
    BY <2>3, <2>4
  <2> QED
    BY <2>1, <2>5, <2>6
<1>3. Nat \subseteq S
  <2> HIDE DEF S
  <2> QED
    BY <1>1, <1>2, NatSetInduction
<1> TAKE n \in i .. w
<1>4. n - i \in Nat /\ i + (n - i) = n
  OBVIOUS
<1> QED
  BY <1>3, <1>4

LEMMA WordByte ==
  ASSUME NEW m, NEW a \in Nat, NEW w \in Nat, HoldsBytes(m, a, w), NEW i \in 0 .. w - 1
  PROVE  /\ \E rest \in Nat : Word(m, a, w) \div Unit(i) = m[a + i] + Byte * rest
         /\ (Word(m, a, w) \div Unit(i)) % Byte = m[a + i]
<1>0. Numbers(m, a, w)
  BY BytesAreNumbers
<1>1. i + 1 \in 0 .. w /\ w \in i + 1 .. w /\ i \in 0 .. w /\ i \in Nat
  OBVIOUS
<1>2. PICK rest \in Nat : Word(m, a, w) = Word(m, a, i + 1) + Unit(i + 1) * rest
  <2> DEFINE j == i + 1
  <2> HIDE DEF j
  <2>1. j \in 0 .. w /\ w \in j .. w
    BY <1>1 DEF j
  <2>2. \E rest \in Nat : Word(m, a, w) = Word(m, a, j) + Unit(j) * rest
    BY <1>0, <2>1, WordTail
  <2> QED
    BY <2>2 DEF j
<1>3. Word(m, a, i + 1) = Word(m, a, i) + m[a + i] * Unit(i)
  BY <1>0, WordSteps
<1>4. Unit(i) \in Nat \ {0} /\ Unit(i + 1) = Byte * Unit(i)
  BY <1>1, UnitSteps
<1>5. Word(m, a, i) \in 0 .. Unit(i) - 1
  BY <1>1, WordBelow
<1>6. m[a + i] \in 0 .. Byte - 1 /\ Byte \in Nat \ {0}
  BY ByteType DEF HoldsBytes
<1>7. Word(m, a, w) = Unit(i) * (m[a + i] + Byte * rest) + Word(m, a, i)
  BY <1>2, <1>3, <1>4, <1>5, <1>6
<1>8. m[a + i] + Byte * rest \in Int
  BY <1>6
<1>9. Word(m, a, w) \div Unit(i) = m[a + i] + Byte * rest
  BY <1>4, <1>5, <1>7, <1>8, DivModUnique
<1>10. (m[a + i] + Byte * rest) % Byte = m[a + i]
  <2> DEFINE c == m[a + i]
  <2>0. c \in 0 .. Byte - 1 /\ rest \in Int
    BY <1>6
  <2> HIDE DEF c
  <2>3. (Byte * rest + c) % Byte = c
    BY <1>6, <2>0, DivModUnique
  <2>1. (Byte * rest + m[a + i]) % Byte = m[a + i]
    BY <2>3 DEF c
  <2>2. Byte * rest + m[a + i] = m[a + i] + Byte * rest
    BY <1>6
  <2> QED
    BY <2>1, <2>2
<1> QED
  BY <1>9, <1>10

\* A word with another byte j.
LEMMA WordUpdate ==
  ASSUME NEW m, NEW m2, NEW a \in Nat, NEW w \in Nat, Numbers(m, a, w), Numbers(m2, a, w),
         NEW j \in 0 .. w - 1, \A i \in 0 .. w - 1 : i # j => m2[a + i] = m[a + i]
  PROVE  Word(m2, a, w) = Word(m, a, w) + (m2[a + j] - m[a + j]) * Unit(j)
<1> DEFINE d == (m2[a + j] - m[a + j]) * Unit(j)
           S == {n \in Nat : n <= w =>
                   Word(m2, a, n) = Word(m, a, n) + (IF j < n THEN d ELSE 0)}
<1>0. d \in Int /\ j \in Nat /\ m[a + j] \in Nat /\ m2[a + j] \in Nat /\ Unit(j) \in Nat
      /\ d = m2[a + j] * Unit(j) - m[a + j] * Unit(j)
  BY UnitSteps DEF Numbers
<1> HIDE DEF d
<1>1. 0 \in S
  <2>1. Word(m, a, 0) = 0 /\ Word(m2, a, 0) = 0 /\ ~(j < 0)
    BY <1>0, WordSteps
  <2> QED
    BY <2>1
<1>2. ASSUME NEW n \in Nat, n \in S
      PROVE  n + 1 \in S
  <2> SUFFICES ASSUME n + 1 <= w
               PROVE  Word(m2, a, n + 1) = Word(m, a, n + 1) + (IF j < n + 1 THEN d ELSE 0)
    OBVIOUS
  <2>1. n \in 0 .. w - 1 /\ n \in 0 .. w
    OBVIOUS
  <2>2. /\ Word(m, a, n + 1) = Word(m, a, n) + m[a + n] * Unit(n)
        /\ Word(m2, a, n + 1) = Word(m2, a, n) + m2[a + n] * Unit(n)
        /\ Word(m, a, n) \in Nat /\ Word(m2, a, n) \in Nat
    BY <2>1, WordSteps
  <2>3. Word(m2, a, n) = Word(m, a, n) + (IF j < n THEN d ELSE 0)
    BY <1>2, <2>1
  <2>4. m[a + n] * Unit(n) \in Nat /\ m2[a + n] * Unit(n) \in Nat
    BY <2>1, UnitSteps DEF Numbers
  <2>5. CASE n = j
    BY <1>0, <2>2, <2>3, <2>4, <2>5
  <2>6. CASE n # j
    <3>1. m2[a + n] = m[a + n] /\ (j < n + 1 <=> j < n)
      BY <1>0, <2>1, <2>6
    <3> QED
      BY <1>0, <2>2, <2>3, <2>4, <3>1
  <2> QED
    BY <2>5, <2>6
<1>3. Nat \subseteq S
  <2> HIDE DEF S
  <2> QED
    BY <1>1, <1>2, NatSetInduction
<1>4. j < w
  OBVIOUS
<1> QED
  BY <1>3, <1>4 DEF d

SameBytes(m, m2, a, w) == \A i \in 0 .. w - 1 : m2[a + i] = m[a + i]

LEMMA WordSame ==
  ASSUME NEW m, NEW m2, NEW a \in Nat, NEW w \in Nat, Numbers(m, a, w), SameBytes(m, m2, a, w)
  PROVE  Word(m2, a, w) = Word(m, a, w)
<1> USE DEF SameBytes
<1>1. Numbers(m2, a, w)
  BY DEF Numbers
<1>2. CASE w = 0
  BY <1>1, <1>2, WordSteps
<1>3. CASE w # 0
  <2>0. PICK j \in 0 .. w - 1 : TRUE
    <3>1. 0 \in 0 .. w - 1
      BY <1>3
    <3> QED
      BY <3>1
  <2>1. m2[a + j] = m[a + j] /\ m[a + j] \in Nat /\ j \in Nat
    BY DEF Numbers
  <2>2. Word(m2, a, w) = Word(m, a, w) + (m2[a + j] - m[a + j]) * Unit(j)
    BY <1>1, WordUpdate
  <2>3. Word(m, a, w) \in Nat /\ Unit(j) \in Nat
    <3>1. w \in 0 .. w
      OBVIOUS
    <3>2. Word(m, a, w) \in Nat
      BY <3>1, WordSteps
    <3> QED
      BY <2>1, <3>2, UnitSteps
  <2> QED
    BY <2>1, <2>2, <2>3
<1> QED
  BY <1>2, <1>3

HasBytesOf(m, a, w, x) == \A i \in 0 .. w - 1 : m[a + i] = (x \div Unit(i)) % Byte

LEMMA PutWordBytes ==
  ASSUME NEW m, NEW a \in Nat, NEW w \in Nat, NEW x \in Int, InMemory(a, w)
  PROVE  /\ HasBytesOf(PutWord(m, a, w, x), a, w, x)
         /\ HoldsBytes(PutWord(m, a, w, x), a, w)
         /\ \A y \in Addresses : y \notin a .. a + w - 1 => PutWord(m, a, w, x)[y] = m[y]
<1>1. ASSUME NEW i \in 0 .. w - 1
      PROVE  PutWord(m, a, w, x)[a + i] = (x \div Unit(i)) % Byte
  <2> DEFINE y == a + i
  <2>1. y \in a .. a + w - 1 /\ y - a = i
    OBVIOUS
  <2> HIDE DEF y
  <2>2. PutWord(m, a, w, x)[y] = (x \div Power(Byte, y - a)) % Byte
    BY <2>1 DEF PutWord, InMemory
  <2> QED
    BY <2>1, <2>2 DEF Unit, y
<1>2. ASSUME NEW i \in 0 .. w - 1
      PROVE  (x \div Unit(i)) % Byte \in 0 .. Byte - 1
  <2>1. Unit(i) \in Nat \ {0}
    BY UnitSteps
  <2>2. x \div Unit(i) \in Int
    BY <2>1, DivMod
  <2> QED
    BY <2>2, ByteType, DivMod
<1> QED
  BY <1>1, <1>2 DEF HoldsBytes, HasBytesOf, PutWord

\* What is written is read back, as far as the word has room for it.
LEMMA WordOfPut ==
  ASSUME NEW m, NEW a \in Nat, NEW w \in Nat, NEW x \in Int, InMemory(a, w)
  PROVE  Word(PutWord(m, a, w, x), a, w) = x % Unit(w)
<1> DEFINE m2 == PutWord(m, a, w, x)
           S == {n \in Nat : n <= w => Word(m2, a, n) = x % Unit(n)}
<1>0. /\ \A i \in 0 .. w - 1 : m2[a + i] = (x \div Unit(i)) % Byte
      /\ Numbers(m2, a, w)
  <2>1. HasBytesOf(m2, a, w, x) /\ HoldsBytes(m2, a, w)
    BY PutWordBytes
  <2> QED
    BY <2>1, BytesAreNumbers DEF HasBytesOf
<1> HIDE DEF m2
<1>1. 0 \in S
  <2>1. Word(m2, a, 0) = 0 /\ Unit(0) = 1 /\ x % 1 = 0
    BY <1>0, WordSteps, UnitSteps
  <2> QED
    BY <2>1
<1>2. ASSUME NEW n \in Nat, n \in S
      PROVE  n + 1 \in S
  <2> SUFFICES ASSUME n + 1 <= w
               PROVE  Word(m2, a, n + 1) = x % Unit(n + 1)
    OBVIOUS
  <2> DEFINE u == Unit(n)
             q == x \div u
             r == x % u
             p == q \div Byte
             s == q % Byte
  <2>1. n \in 0 .. w - 1
    OBVIOUS
  <2>2. Word(m2, a, n + 1) = r + s * u
    <3>1. Word(m2, a, n + 1) = Word(m2, a, n) + m2[a + n] * u
      BY <1>0, <2>1, WordSteps
    <3>2. Word(m2, a, n) = r
      BY <1>2, <2>1
    <3>3. m2[a + n] = s
      BY <1>0, <2>1
    <3> QED
      BY <3>1, <3>2, <3>3
  <2>3. u \in Nat \ {0} /\ Unit(n + 1) = Byte * u /\ Byte \in Nat \ {0}
    BY UnitSteps, ByteType
  <2> HIDE DEF u
  <2>4. q \in Int /\ r \in 0 .. u - 1 /\ x = u * q + r
    BY <2>3, DivMod
  <2> HIDE DEF q, r
  <2>5. p \in Int /\ s \in 0 .. Byte - 1 /\ q = Byte * p + s
    BY <2>3, <2>4, DivMod
  <2> HIDE DEF p, s
  <2>6. Byte * u \in Nat \ {0}
    BY <2>3, ProductPositive
  <2>7. x = (Byte * u) * p + (r + s * u)
    BY <2>3, <2>4, <2>5
  <2>8. r + s * u \in 0 .. Byte * u - 1
    <3>1. Byte - 1 - s \in Nat
      BY <2>3, <2>5
    <3>2. (Byte - 1 - s) * u >= 0 /\ (Byte - 1 - s) * u = Byte * u - u - s * u
      BY <2>3, <2>5, <3>1
    <3>3. s * u >= 0 /\ s * u \in Int /\ Byte * u \in Int
      BY <2>3, <2>5
    <3> QED
      BY <2>3, <2>4, <3>2, <3>3
  <2>9. x % (Byte * u) = r + s * u
    BY <2>5, <2>6, <2>7, <2>8, DivModUnique
  <2> QED
    BY <2>2, <2>3, <2>9
<1>3. Nat \subseteq S
  <2> HIDE DEF S
  <2> QED
    BY <1>1, <1>2, NatSetInduction
<1> QED
  BY <1>3 DEF m2

-----------------------------------------------------------------------------
(***************************************************************************)
(* Bits: setting one leaves the other bits of its byte, and the other      *)
(* bytes of its word.                                                      *)
(***************************************************************************)
LEMMA TwoPower == ASSUME NEW n \in Nat PROVE Power(2, n) \in Nat \ {0}
BY PowerPositive

\* Bit e of a byte.
BitAt(c, e) == (c \div Power(2, e)) % 2

SetBit(c, e, t) == c - BitAt(c, e) * Power(2, e) + t * Power(2, e)

\* A number with bit value t at the place of unit, high before and low after it.
Compose(unit, high, t, low) == unit * (2 * high + t) + low

LEMMA Decompose ==
  ASSUME NEW c \in Nat, NEW e \in Nat
  PROVE  \E high \in Nat, low \in 0 .. Power(2, e) - 1 :
           /\ BitAt(c, e) \in {0, 1}
           /\ c = Compose(Power(2, e), high, BitAt(c, e), low)
           /\ \A t \in {0, 1} : SetBit(c, e, t) = Compose(Power(2, e), high, t, low)
<1> DEFINE u == Power(2, e)
           q == c \div u
           low == c % u
           high == q \div 2
           b == q % 2
<1>1. u \in Nat \ {0}
  BY TwoPower
<1>2. b = BitAt(c, e)
  BY DEF BitAt
<1> HIDE DEF u
<1>3. q \in Nat /\ low \in 0 .. u - 1 /\ c = u * q + low
  <2>1. c \in Int
    OBVIOUS
  <2>2. q \in Int /\ low \in 0 .. u - 1 /\ c = u * q + low
    BY <1>1, <2>1, DivMod
  <2>3. q \in Nat
    BY <1>1
  <2> QED
    BY <2>2, <2>3
<1> HIDE DEF q, low
<1>4. high \in Nat /\ b \in {0, 1} /\ q = 2 * high + b
  BY <1>3
<1> HIDE DEF high, b
<1>5. c = Compose(u, high, b, low)
  BY <1>3, <1>4 DEF Compose
<1>6. ASSUME NEW t \in {0, 1}
      PROVE  SetBit(c, e, t) = Compose(u, high, t, low)
  <2>1. SetBit(c, e, t) = c - b * u + t * u
    BY <1>2 DEF SetBit, u
  <2>2. c = u * (2 * high + b) + low
    BY <1>5 DEF Compose
  <2>3. u * (2 * high + b) - b * u + t * u = u * (2 * high + t)
    BY <1>1, <1>4
  <2>4. u * (2 * high + b) \in Int /\ u * (2 * high + t) \in Int /\ b * u \in Int /\ t * u \in Int
    BY <1>1, <1>4
  <2> QED
    BY <1>3, <2>1, <2>2, <2>3, <2>4 DEF Compose
<1> QED
  BY <1>2, <1>3, <1>4, <1>5, <1>6 DEF u

LEMMA ComposeBits ==
  ASSUME NEW e \in Nat, NEW high \in Nat, NEW low \in 0 .. Power(2, e) - 1,
         NEW s \in {0, 1}, NEW t \in {0, 1}, NEW e2 \in Nat
  PROVE  /\ BitAt(Compose(Power(2, e), high, t, low), e) = t
         /\ e2 # e => BitAt(Compose(Power(2, e), high, s, low), e2)
                        = BitAt(Compose(Power(2, e), high, t, low), e2)
<1> DEFINE u == Power(2, e)
           u2 == Power(2, e2)
           N(v) == Compose(u, high, v, low)
<1>1. u \in Nat \ {0} /\ u2 \in Nat \ {0} /\ low \in 0 .. u - 1
  BY TwoPower
<1>2. BitAt(N(t), e) = t
  <2>1. 2 * high + t \in Int
    OBVIOUS
  <2> HIDE DEF u
  <2>2. (u * (2 * high + t) + low) \div u = 2 * high + t
    BY <1>1, <2>1, DivModUnique
  <2>3. (2 * high + t) % 2 = t
    OBVIOUS
  <2> QED
    BY <2>2, <2>3 DEF BitAt, Compose, u
<1>3. ASSUME e2 < e
      PROVE  BitAt(N(s), e2) = BitAt(N(t), e2)
  <2> DEFINE g == Power(2, e - e2 - 1)
  <2>1. e - e2 - 1 \in Nat /\ (e2 + 1) + (e - e2 - 1) = e /\ e2 + 1 \in Nat
    BY <1>3
  <2>2. Power(2, (e2 + 1) + (e - e2 - 1)) = Power(2, e2 + 1) * g
    BY <2>1, PowerAdds
  <2>3. Power(2, e2 + 1) = 2 * u2 /\ g \in Nat \ {0}
    BY <2>1, PowerSteps, TwoPower
  <2> HIDE DEF g, u2
  <2>4. u = (2 * u2) * g
    BY <2>1, <2>2, <2>3
  <2> HIDE DEF u
  <2>5. ASSUME NEW v \in {0, 1}
        PROVE  ((u * (2 * high + v) + low) \div u2) % 2 = (low \div u2) % 2
    <3> DEFINE k == g * (2 * high + v)
    <3>1. k \in Int /\ 2 * k \in Int
      BY <2>3
    <3>2. u * (2 * high + v) = u2 * (2 * k)
      BY <1>1, <2>3, <2>4
    <3> HIDE DEF k
    <3>3. low \in Int /\ u2 * (2 * k) \in Int
      BY <1>1, <3>1
    <3>4. (low + u2 * (2 * k)) \div u2 = low \div u2 + 2 * k
      BY <1>1, <3>1, <3>3, DivShift
    <3>5. low \div u2 \in Int
      BY <1>1, <3>3, DivMod
    <3>6. (low \div u2 + 2 * k) % 2 = (low \div u2) % 2
      BY <3>1, <3>5, DivShift
    <3>7. u * (2 * high + v) + low = low + u2 * (2 * k)
      BY <3>2, <3>3
    <3> QED
      BY <3>4, <3>6, <3>7
  <2> QED
    BY <2>5 DEF BitAt, Compose, u2
<1>4. ASSUME e2 > e
      PROVE  BitAt(N(s), e2) = BitAt(N(t), e2)
  <2> DEFINE g == Power(2, e2 - e - 1)
             d == 2 * u
  <2>1. e2 - e - 1 \in Nat /\ (e + 1) + (e2 - e - 1) = e2 /\ e + 1 \in Nat
    BY <1>4
  <2>2. Power(2, (e + 1) + (e2 - e - 1)) = Power(2, e + 1) * g
    BY <2>1, PowerAdds
  <2>3. Power(2, e + 1) = d /\ g \in Nat \ {0}
    BY <2>1, PowerSteps, TwoPower
  <2> HIDE DEF g, u2
  <2>4. u2 = d * g
    BY <2>1, <2>2, <2>3 DEF u2
  <2> HIDE DEF u
  <2>5. ASSUME NEW v \in {0, 1}
        PROVE  (u * (2 * high + v) + low) \div u2 = high \div g
    <3>1. u * v + low \in 0 .. d - 1 /\ d \in Nat \ {0}
      BY <1>1
    <3>2. u * (2 * high + v) + low = d * high + (u * v + low)
      BY <1>1
    <3> DEFINE x == u * (2 * high + v) + low
               r == u * v + low
    <3>3. x \in Int /\ r \in 0 .. d - 1 /\ x = d * high + r
      BY <1>1, <3>1, <3>2
    <3> HIDE DEF x, r, d
    <3>4. x \div d = high
      <4>1. high \in Int /\ d \in Nat \ {0} /\ d * high + r = x
        BY <3>1, <3>3
      <4>2. (d * high + r) \div d = high
        BY <3>3, <4>1, DivModUnique
      <4> QED
        BY <4>1, <4>2
    <3>5. (x \div d) \div g = x \div (d * g)
      BY <2>3, <3>1, <3>3, DivDiv
    <3> QED
      BY <2>4, <3>4, <3>5 DEF x
  <2> QED
    BY <2>5 DEF BitAt, Compose, u2
<1> QED
  BY <1>2, <1>3, <1>4

\* A byte with bit e set to t is a byte, and has the other bits of the old one.
LEMMA SetBitInByte ==
  ASSUME NEW c \in 0 .. Byte - 1, NEW e \in 0 .. ByteBits - 1, NEW t \in {0, 1}
  PROVE  /\ SetBit(c, e, t) \in 0 .. Byte - 1
         /\ BitAt(SetBit(c, e, t), e) = t
         /\ \A e2 \in Nat \ {e} : BitAt(SetBit(c, e, t), e2) = BitAt(c, e2)
<1> DEFINE u == Power(2, e)
           b == BitAt(c, e)
<1>0. c \in Nat /\ e \in Nat /\ ByteBits \in Nat
  BY ByteType, AccessAssumption
<1>1. PICK high \in Nat, low \in 0 .. u - 1 :
        b \in {0, 1} /\ c = Compose(u, high, b, low) /\ SetBit(c, e, t) = Compose(u, high, t, low)
  <2> HIDE DEF b, u
  <2>1. PICK high \in Nat, low \in 0 .. u - 1 :
          /\ BitAt(c, e) \in {0, 1}
          /\ c = Compose(u, high, BitAt(c, e), low)
          /\ \A v \in {0, 1} : SetBit(c, e, v) = Compose(u, high, v, low)
    BY <1>0, Decompose DEF u
  <2>2. b \in {0, 1} /\ c = Compose(u, high, b, low) /\ SetBit(c, e, t) = Compose(u, high, t, low)
    BY <2>1 DEF b
  <2> QED
    BY <2>2
<1>2. /\ BitAt(SetBit(c, e, t), e) = t
      /\ \A e2 \in Nat \ {e} : BitAt(SetBit(c, e, t), e2) = BitAt(c, e2)
  <2> HIDE DEF b
  <2>1. BitAt(Compose(u, high, t, low), e) = t
    BY <1>0, <1>1, ComposeBits
  <2>2. ASSUME NEW e2 \in Nat \ {e}
        PROVE  BitAt(Compose(u, high, b, low), e2) = BitAt(Compose(u, high, t, low), e2)
    BY <1>0, <1>1, ComposeBits
  <2> QED
    BY <1>1, <2>1, <2>2
<1>3. SetBit(c, e, t) \in 0 .. Byte - 1
  <2> DEFINE g == Power(2, ByteBits - e - 1)
  <2>1. ByteBits - e - 1 \in Nat /\ (e + 1) + (ByteBits - e - 1) = ByteBits /\ e + 1 \in Nat
    BY <1>0
  <2>2. Power(2, (e + 1) + (ByteBits - e - 1)) = Power(2, e + 1) * g
    BY <2>1, PowerAdds
  <2>3. Power(2, e + 1) = 2 * u /\ g \in Nat \ {0} /\ u \in Nat \ {0}
    BY <1>0, <2>1, PowerSteps, TwoPower
  <2>4. Byte = (2 * u) * g
    BY <2>1, <2>2, <2>3 DEF Byte
  <2> HIDE DEF g, u, b
  <2>5. high < g
    <3>1. SUFFICES ASSUME high - g \in Nat PROVE FALSE
      BY <2>3
    <3>2. c = u * (2 * high + b) + low
      BY <1>1 DEF Compose
    <3>3. u * (2 * high + b) = (2 * u) * g + (2 * u) * (high - g) + u * b
      BY <1>1, <2>3
    <3>4. (2 * u) * (high - g) >= 0 /\ u * b >= 0 /\ (2 * u) * (high - g) \in Int /\ u * b \in Int
      BY <1>1, <2>3, <3>1
    <3>5. c >= Byte
      BY <1>0, <1>1, <2>3, <2>4, <3>2, <3>3, <3>4
    <3> QED
      BY <1>0, <3>5, ByteType
  <2>6. g - 1 - high \in Nat
    BY <2>3, <2>5
  <2>7. u * (2 * high + t) + low \in 0 .. (2 * u) * g - 1
    <3>1. (2 * u) * (g - 1 - high) >= 0 /\ (2 * u) * (g - 1 - high) \in Int
      BY <2>3, <2>6
    <3>2. (2 * u) * (g - 1 - high) = (2 * u) * g - 2 * u - (2 * u) * high
      BY <2>3
    <3>3. u * (2 * high + t) = (2 * u) * high + u * t
      BY <2>3
    <3>4. u * t \in 0 .. u /\ (2 * u) * high \in Nat /\ (2 * u) * g \in Nat
      BY <2>3
    <3> QED
      BY <1>1, <2>3, <3>1, <3>2, <3>3, <3>4
  <2> QED
    BY <1>1, <2>4, <2>7 DEF Compose
<1> QED
  BY <1>2, <1>3

LEMMA ByteOfBits == \A j \in Nat : Unit(j) = Power(2, ByteBits * j)
<1> DEFINE S == {j \in Nat : Unit(j) = Power(2, ByteBits * j)}
<1>0. ByteBits \in Nat \ {0}
  BY AccessAssumption
<1>1. 0 \in S
  <2>1. ByteBits * 0 = 0 /\ Unit(0) = 1 /\ Power(2, 0) = 1
    BY <1>0, UnitSteps, PowerSteps
  <2> QED
    BY <2>1
<1>2. ASSUME NEW j \in Nat, j \in S
      PROVE  j + 1 \in S
  <2>1. Unit(j + 1) = Byte * Unit(j) /\ Unit(j) \in Nat /\ Byte \in Nat
    BY UnitSteps, ByteType
  <2>2. ByteBits * j \in Nat /\ ByteBits * (j + 1) = ByteBits * j + ByteBits
    BY <1>0
  <2>3. Power(2, ByteBits * j + ByteBits) = Power(2, ByteBits * j) * Power(2, ByteBits)
    BY <1>0, <2>2, PowerAdds
  <2>4. Power(2, ByteBits * (j + 1)) = Unit(j) * Byte
    BY <1>2, <2>2, <2>3 DEF Byte
  <2>5. Unit(j + 1) = Power(2, ByteBits * (j + 1))
    BY <2>1, <2>4
  <2> QED
    BY <2>5
<1>3. Nat \subseteq S
  <2> HIDE DEF S
  <2> QED
    BY <1>1, <1>2, NatSetInduction
<1> QED
  BY <1>3

\* A bit of a word is a bit of one of its bytes.
LEMMA BitPlace ==
  ASSUME NEW b \in Nat
  PROVE  /\ b \div ByteBits \in Nat /\ b % ByteBits \in 0 .. ByteBits - 1 /\ b % ByteBits \in Nat
         /\ Power(2, b) = Unit(b \div ByteBits) * Power(2, b % ByteBits)
         /\ \A w \in Nat : b < ByteBits * w => b \div ByteBits \in 0 .. w - 1
<1> DEFINE j == b \div ByteBits
           e == b % ByteBits
<1>0. ByteBits \in Nat \ {0} /\ b \in Int
  BY AccessAssumption
<1>1. j \in Int /\ e \in 0 .. ByteBits - 1 /\ b = ByteBits * j + e
  BY <1>0, DivMod
<1>2. j \in Nat
  BY <1>0, DivMod
<1> HIDE DEF j, e
<1>3. ByteBits * j \in Nat /\ e \in Nat
  BY <1>0, <1>1, <1>2
<1>4. Power(2, ByteBits * j + e) = Power(2, ByteBits * j) * Power(2, e)
  BY <1>3, PowerAdds
<1>5. Power(2, b) = Unit(j) * Power(2, e)
  BY <1>1, <1>2, <1>4, ByteOfBits
<1>6. ASSUME NEW w \in Nat, b < ByteBits * w
      PROVE  j \in 0 .. w - 1
  <2>1. SUFFICES ASSUME j - w \in Nat PROVE FALSE
    BY <1>2
  <2>2. ByteBits * (j - w) >= 0 /\ ByteBits * (j - w) = ByteBits * j - ByteBits * w
    BY <1>0, <1>2, <2>1
  <2>3. ByteBits * w \in Int
    BY <1>0
  <2> QED
    BY <1>1, <1>3, <1>6, <2>2, <2>3
<1> QED
  BY <1>1, <1>2, <1>3, <1>5, <1>6 DEF j, e

LEMMA BitRead ==
  ASSUME NEW m, NEW a \in Nat, NEW w \in Nat, HoldsBytes(m, a, w),
         NEW b \in Nat, b < ByteBits * w
  PROVE  (Word(m, a, w) \div Power(2, b)) % 2 = BitAt(m[a + b \div ByteBits], b % ByteBits)
<1> DEFINE j == b \div ByteBits
           e == b % ByteBits
           c == m[a + j]
           u == Power(2, e)
           g == Power(2, ByteBits - e - 1)
           W == Word(m, a, w)
<1>0. ByteBits \in Nat \ {0}
  BY AccessAssumption
<1>1. j \in Nat /\ e \in 0 .. ByteBits - 1 /\ e \in Nat /\ Power(2, b) = Unit(j) * u /\ j \in 0 .. w - 1
  BY BitPlace
<1> HIDE DEF j, e
<1>2. W \in Nat
  <2>1. w \in 0 .. w /\ Numbers(m, a, w)
    BY BytesAreNumbers
  <2> QED
    BY <2>1, WordSteps
<1>3. PICK rest \in Nat : W \div Unit(j) = c + Byte * rest
  BY <1>1, WordByte
<1>4. c \in 0 .. Byte - 1 /\ c \in Int
  <2>1. c \in 0 .. Byte - 1
    BY <1>1 DEF HoldsBytes
  <2> QED
    BY <2>1, ByteType
<1>5. Unit(j) \in Nat \ {0} /\ u \in Nat \ {0}
  BY <1>1, UnitSteps, TwoPower
<1>6. Byte = (2 * u) * g /\ g \in Nat \ {0}
  <2>1. ByteBits - e - 1 \in Nat /\ (e + 1) + (ByteBits - e - 1) = ByteBits /\ e + 1 \in Nat
    BY <1>0, <1>1
  <2>2. Power(2, (e + 1) + (ByteBits - e - 1)) = Power(2, e + 1) * g
    BY <2>1, PowerAdds
  <2>3. Power(2, e + 1) = 2 * u /\ g \in Nat \ {0}
    BY <1>1, <2>1, PowerSteps, TwoPower
  <2> QED
    BY <2>1, <2>2, <2>3 DEF Byte
<1> HIDE DEF W, c, u, g
<1>7. W \div Power(2, b) = (c + Byte * rest) \div u
  <2>1. (W \div Unit(j)) \div u = W \div (Unit(j) * u)
    BY <1>2, <1>5, DivDiv
  <2> QED
    BY <1>1, <1>3, <2>1
<1> DEFINE k == g * rest
<1>8. k \in Int /\ 2 * k \in Int /\ Byte * rest = u * (2 * k)
  BY <1>5, <1>6
<1> HIDE DEF k
<1>9. (c + u * (2 * k)) \div u = c \div u + 2 * k
  BY <1>4, <1>5, <1>8, DivShift
<1>10. c \div u \in Int
  BY <1>4, <1>5, DivMod
<1>11. (c \div u + 2 * k) % 2 = (c \div u) % 2
  BY <1>8, <1>10, DivShift
<1>12. (W \div Power(2, b)) % 2 = BitAt(c, e)
  BY <1>7, <1>8, <1>9, <1>11 DEF BitAt, u
<1> QED
  BY <1>12 DEF W, c, j, e

LEMMA BitStored ==
  ASSUME NEW m, NEW a \in Nat, NEW w \in Nat, HoldsBytes(m, a, w), InMemory(a, w),
         NEW b \in Nat, b < ByteBits * w, NEW t \in {0, 1}
  PROVE  LET old == ((Word(m, a, w) \div Power(2, b)) % 2) * Power(2, b)
             j   == b \div ByteBits
         IN  \A i \in 0 .. w - 1 :
               PutWord(m, a, w, Word(m, a, w) - old + t * Power(2, b))[a + i]
                 = IF i = j THEN SetBit(m[a + j], b % ByteBits, t) ELSE m[a + i]
<1> DEFINE j == b \div ByteBits
           e == b % ByteBits
           c == m[a + j]
           s == SetBit(c, e, t)
           r == (Word(m, a, w) \div Power(2, b)) % 2
           x == Word(m, a, w) - r * Power(2, b) + t * Power(2, b)
           m2 == [y \in Addresses |-> IF y = a + j THEN s ELSE m[y]]
<1>0. ByteBits \in Nat \ {0}
  BY AccessAssumption
<1>1. j \in Nat /\ e \in 0 .. ByteBits - 1 /\ e \in Nat /\ Power(2, b) = Unit(j) * Power(2, e)
      /\ j \in 0 .. w - 1
  BY BitPlace
<1>2. r = BitAt(c, e)
  BY BitRead
<1> HIDE DEF j, e, r
<1>3. c \in 0 .. Byte - 1
  BY <1>1 DEF HoldsBytes
<1>4. s \in 0 .. Byte - 1
  BY <1>1, <1>3, SetBitInByte
<1>5. r \in {0, 1}
  <2>1. c \in Nat
    BY <1>3, ByteType
  <2> QED
    BY <1>1, <1>2, <2>1, Decompose
<1>6. s = c - r * Power(2, e) + t * Power(2, e)
  BY <1>2 DEF SetBit
<1> HIDE DEF s, c
<1>7. \A i \in 0 .. w - 1 : m2[a + i] = IF i = j THEN s ELSE m[a + i]
  <2> TAKE i \in 0 .. w - 1
  <2>1. a + i \in Addresses /\ (a + i = a + j <=> i = j)
    BY <1>1 DEF InMemory
  <2> QED
    BY <2>1
<1> HIDE DEF m2
<1>8. HoldsBytes(m2, a, w)
  BY <1>4, <1>7 DEF HoldsBytes
<1>9. Numbers(m, a, w) /\ Numbers(m2, a, w)
  BY <1>8, BytesAreNumbers
<1>10. Word(m2, a, w) = Word(m, a, w) + (s - c) * Unit(j)
  <2>0. j \in 0 .. w - 1
    BY <1>1
  <2>1. m2[a + j] = s /\ \A i \in 0 .. w - 1 : i # j => m2[a + i] = m[a + i]
    BY <1>7, <2>0
  <2>2. Word(m2, a, w) = Word(m, a, w) + (m2[a + j] - m[a + j]) * Unit(j)
    <3>1. \A i \in 0 .. w - 1 : i # j => m2[a + i] = m[a + i]
      BY <2>1
    <3> QED
      BY <1>9, <2>0, <3>1, WordUpdate
  <2> QED
    BY <2>1, <2>2 DEF c
<1>11. Word(m2, a, w) = x
  <2>1. Word(m, a, w) \in Nat
    <3>1. w \in 0 .. w
      OBVIOUS
    <3> QED
      BY <1>9, <3>1, WordSteps
  <2>2. Unit(j) \in Nat /\ Power(2, e) \in Nat
    BY <1>1, UnitSteps, TwoPower
  <2>3. c \in Int
    BY <1>3, ByteType
  <2>4. (s - c) * Unit(j) = t * (Unit(j) * Power(2, e)) - r * (Unit(j) * Power(2, e))
    BY <1>5, <1>6, <2>2, <2>3
  <2>5. t * (Unit(j) * Power(2, e)) \in Int /\ r * (Unit(j) * Power(2, e)) \in Int
    BY <1>5, <2>2
  <2> QED
    BY <1>1, <1>10, <2>1, <2>4, <2>5
<1>12. x \in Int
  <2>1. w \in 0 .. w
    OBVIOUS
  <2>2. Word(m2, a, w) \in Nat
    BY <1>9, <2>1, WordSteps
  <2> QED
    BY <1>11, <2>2
<1> HIDE DEF x
<1>13. ASSUME NEW i \in 0 .. w - 1
       PROVE  PutWord(m, a, w, x)[a + i] = m2[a + i]
  <2>1. PutWord(m, a, w, x)[a + i] = (x \div Unit(i)) % Byte
    <3>1. HasBytesOf(PutWord(m, a, w, x), a, w, x)
      BY <1>12, PutWordBytes
    <3> QED
      BY <3>1 DEF HasBytesOf
  <2>2. (Word(m2, a, w) \div Unit(i)) % Byte = m2[a + i]
    BY <1>8, WordByte
  <2> QED
    BY <1>11, <2>1, <2>2
<1>14. \A i \in 0 .. w - 1 : PutWord(m, a, w, x)[a + i] = IF i = j THEN s ELSE m[a + i]
  BY <1>7, <1>13
<1> QED
  BY <1>14 DEF x, r, j, e, s, c

-----------------------------------------------------------------------------
(***************************************************************************)
(* Places: a store changes the bits of its place only, and there it can be *)
(* read back.                                                              *)
(***************************************************************************)
LEMMA ScalarKinds ==
  ASSUME NEW kind \in Scalars
  PROVE  /\ kind.width \in {1, 2, 4, 8}
         /\ kind.tag \in {"int", "bool", "bit"}
         /\ kind.tag = "int" => kind.signed \in BOOLEAN
         /\ kind.tag = "bool" => kind.width = 1
         /\ kind.tag = "bit" => kind.bit \in Nat /\ kind.bit < ByteBits * kind.width
BY DEF Scalars, Integral, BitField, Boolean

LEMMA SpanIsUnit ==
  ASSUME NEW kind \in Scalars
  PROVE  Span(kind) = Unit(kind.width) /\ Span(kind) \in Nat \ {0}
<1>1. kind.width \in Nat
  BY ScalarKinds
<1>2. Span(kind) = Unit(kind.width)
  BY DEF Span, Unit
<1> QED
  BY <1>1, <1>2, UnitSteps

LEMMA TruthIsBit == \A v : Truth(v) \in {0, 1}
BY DEF Truth

LEMMA AcceptedInteger ==
  ASSUME NEW kind, kind.tag = "int", NEW v \in LuaVals, Accepts(kind, v)
  PROVE  v \in Int /\ InRange(kind, v)
BY AccessAssumption DEF Accepts, IsInteger

\* What a store does to the bytes of its place.
LEMMA StoredWhole ==
  ASSUME NEW m, NEW kind \in Scalars, NEW a \in Nat, NEW v \in LuaVals,
         InMemory(a, kind.width), Accepts(kind, v), kind.tag # "bit"
  PROVE  /\ HoldsBytes(Stored(kind, m, a, v), a, kind.width)
         /\ \A y \in Addresses : y \notin a .. a + kind.width - 1 => Stored(kind, m, a, v)[y] = m[y]
         /\ Read(kind, Stored(kind, m, a, v), a) = Meaning(kind, v)
<1>1. kind.width \in Nat /\ kind.tag \in {"int", "bool"}
  BY ScalarKinds
<1>2. CASE kind.tag = "int"
  <2> DEFINE S == Span(kind)
             m2 == PutWord(m, a, kind.width, v)
             w == Word(m2, a, kind.width)
  <2>1. v \in Int /\ InRange(kind, v) /\ kind.signed \in BOOLEAN
    BY <1>2, AcceptedInteger, ScalarKinds
  <2>2. Stored(kind, m, a, v) = m2
    BY <1>2 DEF Stored
  <2>3. w = v % S
    BY <1>1, <2>1, WordOfPut, SpanIsUnit
  <2>0. /\ HoldsBytes(m2, a, kind.width)
        /\ \A y \in Addresses : y \notin a .. a + kind.width - 1 => m2[y] = m[y]
    BY <1>1, <2>1, PutWordBytes
  <2>4. S \in Nat \ {0}
    BY SpanIsUnit
  <2>5. Read(kind, m2, a) = IF kind.signed /\ w >= S \div 2 THEN w - S ELSE w
    BY <1>2 DEF Read
  <2>6. IF kind.signed THEN -(S \div 2) <= v /\ v < S \div 2 ELSE 0 <= v /\ v < S
    BY <2>1 DEF InRange
  <2> HIDE DEF S, w, m2
  <2>7. CASE 0 <= v /\ v < S
    <3>1. v % S = v
      BY <2>1, <2>4, <2>7
    <3>2. Read(kind, m2, a) = v
      BY <2>1, <2>3, <2>4, <2>5, <2>6, <2>7, <3>1
    <3> QED
      BY <1>2, <2>0, <2>2, <3>2 DEF Meaning
  <2>8. CASE ~(0 <= v /\ v < S)
    <3>1. kind.signed /\ -(S \div 2) <= v /\ v < 0 /\ S \div 2 \in Int /\ 2 * (S \div 2) <= S
      BY <2>1, <2>4, <2>6, <2>8
    <3>2. v + S \in 0 .. S - 1 /\ v + S >= S \div 2
      BY <2>1, <2>4, <3>1
    <3>3. (v + S) % S = v + S
      BY <2>4, <3>2, SmallDiv
    <3>4. (v + S) % S = v % S
      <4>1. S * 1 = S /\ 1 \in Int /\ v \in Int
        BY <2>1, <2>4
      <4>2. \A k \in Int : (v + S * k) % S = v % S
        BY <2>4, <4>1, DivShift
      <4> QED
        BY <4>1, <4>2
    <3>6. w = v + S
      BY <2>3, <3>3, <3>4
    <3>7. Read(kind, m2, a) = v
      BY <2>1, <2>4, <2>5, <3>1, <3>2, <3>6
    <3> QED
      BY <1>2, <2>0, <2>2, <3>7 DEF Meaning
  <2> QED
    BY <2>7, <2>8
<1>3. CASE kind.tag = "bool"
  <2> DEFINE t == Truth(v)
             m2 == PutWord(m, a, 1, t)
  <2>1. kind.width = 1 /\ t \in {0, 1}
    BY <1>3, ScalarKinds, TruthIsBit
  <2>2. Stored(kind, m, a, v) = m2
    BY <1>3 DEF Stored
  <2> HIDE DEF t
  <2>3. Word(m2, a, 1) = t % Unit(1)
    BY <2>1, WordOfPut
  <2>4. Unit(1) = Byte /\ Byte >= 2
    <3>1. ByteBits - 1 \in Nat /\ (ByteBits - 1) + 1 = ByteBits
      BY AccessAssumption
    <3>2. Byte = 2 * Power(2, ByteBits - 1) /\ Power(2, ByteBits - 1) \in Nat \ {0}
      <4> DEFINE n == ByteBits - 1
      <4>1. n \in Nat
        BY <3>1
      <4> HIDE DEF n
      <4>2. Power(2, n + 1) = 2 * Power(2, n)
        BY <4>1, PowerSteps
      <4> QED
        BY <3>1, <4>1, <4>2, TwoPower DEF Byte, n
    <3>3. Unit(0 + 1) = Byte * Unit(0) /\ Unit(0) = 1 /\ 0 + 1 = 1 /\ Byte \in Nat
      BY UnitSteps, ByteType
    <3> QED
      BY <3>2, <3>3
  <2>5. t % Unit(1) = t
    BY <2>1, <2>4, ByteType
  <2> HIDE DEF m2
  <2>6. Word(m2, a, kind.width) = t
    BY <2>1, <2>3, <2>5
  <2>7. Read(kind, m2, a) = IF t = 0 THEN False ELSE True
    BY <1>3, <2>6 DEF Read
  <2>8. Meaning(kind, v) = IF t = 1 THEN True ELSE False
    BY <1>3 DEF Meaning, t
  <2>9. Read(kind, m2, a) = Meaning(kind, v)
    BY <2>1, <2>7, <2>8
  <2>10. /\ HoldsBytes(m2, a, 1)
         /\ \A y \in Addresses : y \notin a .. a + 1 - 1 => m2[y] = m[y]
    <3>1. InMemory(a, 1) /\ 1 \in Nat /\ t \in Int
      BY <2>1
    <3> QED
      BY <3>1, PutWordBytes DEF m2
  <2> QED
    BY <2>1, <2>2, <2>9, <2>10
<1> QED
  BY <1>1, <1>2, <1>3

LEMMA StoredBit ==
  ASSUME NEW m, NEW kind \in Scalars, NEW a, NEW v, Backed(m, kind, a), kind.tag = "bit"
  PROVE  /\ \A i \in 0 .. kind.width - 1 :
              Stored(kind, m, a, v)[a + i] =
                IF i = kind.bit \div ByteBits THEN SetBit(m[a + i], kind.bit % ByteBits, Truth(v))
                ELSE m[a + i]
         /\ \A y \in Addresses : y \notin a .. a + kind.width - 1 => Stored(kind, m, a, v)[y] = m[y]
         /\ HoldsBytes(Stored(kind, m, a, v), a, kind.width)
<1> DEFINE w == kind.width
           b == kind.bit
           t == Truth(v)
           j == b \div ByteBits
           e == b % ByteBits
           old == ((Word(m, a, w) \div Power(2, b)) % 2) * Power(2, b)
           x == Word(m, a, w) - old + t * Power(2, b)
           m2 == PutWord(m, a, w, x)
<1>1. w \in Nat /\ b \in Nat /\ b < ByteBits * w /\ t \in {0, 1}
  BY ScalarKinds, TruthIsBit
<1>2. a \in Nat /\ InMemory(a, w) /\ HoldsBytes(m, a, w)
  BY DEF Backed
<1>3. Stored(kind, m, a, v) = m2
  BY DEF Stored, Read
<1> HIDE DEF w, b, t
<1>4. \A i \in 0 .. w - 1 : m2[a + i] = IF i = j THEN SetBit(m[a + j], e, t) ELSE m[a + i]
  BY <1>1, <1>2, BitStored
<1>5. j \in 0 .. w - 1 /\ e \in 0 .. ByteBits - 1
  BY <1>1, BitPlace
<1>6. x \in Int
  <2>1. Numbers(m, a, w) /\ w \in 0 .. w
    BY <1>1, <1>2, BytesAreNumbers
  <2>2. Word(m, a, w) \in Nat
    BY <1>1, <1>2, <2>1, WordSteps
  <2>3. Power(2, b) \in Nat \ {0}
    BY <1>1, TwoPower
  <2> DEFINE W == Word(m, a, w)
             P == Power(2, b)
             r == (W \div P) % 2
  <2>4. r \in Int
    <3> HIDE DEF W, P
    <3>1. W \div P \in Int
      BY <2>2, <2>3 DEF W, P
    <3> QED
      BY <3>1
  <2>5. W - r * P + t * P \in Int
    <3> HIDE DEF r
    <3> QED
      BY <1>1, <2>2, <2>3, <2>4
  <2> QED
    BY <2>5
<1> HIDE DEF x, j, e
<1>7. /\ HoldsBytes(m2, a, w)
      /\ \A y \in Addresses : y \notin a .. a + w - 1 => m2[y] = m[y]
  BY <1>1, <1>2, <1>6, PutWordBytes
<1>8. \A i \in 0 .. w - 1 : m2[a + i] = IF i = j THEN SetBit(m[a + i], e, t) ELSE m[a + i]
  BY <1>4
<1> QED
  BY <1>3, <1>7, <1>8 DEF w, j, e, b, t

\* The bits a store leaves alone: a whole byte, and a bit of a byte.
LEMMA StoreKeepsBits ==
  ASSUME NEW m, NEW kind \in Scalars, NEW a, NEW v \in LuaVals, Accepts(kind, v),
         a \in Nat, InMemory(a, kind.width), kind.tag = "bit" => Backed(m, kind, a),
         NEW y \in Addresses, NEW m2, m2 = Stored(kind, m, a, v)
  PROVE  /\ (\A e \in 0 .. ByteBits - 1 : <<y, e>> \notin Bits(kind, a)) => m2[y] = m[y]
         /\ \A e \in 0 .. ByteBits - 1 :
              /\ <<y, e>> \notin Bits(kind, a)
              /\ m[y] \in 0 .. Byte - 1
              => BitAt(m2[y], e) = BitAt(m[y], e)
<1>0. kind.width \in Nat /\ ByteBits \in Nat \ {0} /\ 0 \in 0 .. ByteBits - 1
  BY ScalarKinds, AccessAssumption
<1>1. CASE kind.tag # "bit"
  <2>1. \A z \in Addresses : z \notin a .. a + kind.width - 1 => m2[z] = m[z]
    BY <1>1, StoredWhole
  <2>2. Bits(kind, a) = (a .. a + kind.width - 1) \X (0 .. ByteBits - 1)
    BY <1>1 DEF Bits
  <2>3. ASSUME NEW e \in 0 .. ByteBits - 1, <<y, e>> \notin Bits(kind, a)
        PROVE  m2[y] = m[y]
    BY <2>1, <2>2, <2>3
  <2> QED
    BY <1>0, <2>3
<1>2. CASE kind.tag = "bit"
  <2> DEFINE b == kind.bit
             j == b \div ByteBits
             d == b % ByteBits
             t == Truth(v)
  <2>1. b \in Nat /\ b < ByteBits * kind.width /\ t \in {0, 1}
    BY <1>2, ScalarKinds, TruthIsBit
  <2>2. j \in 0 .. kind.width - 1 /\ d \in 0 .. ByteBits - 1
    BY <1>0, <2>1, BitPlace
  <2>3. Bits(kind, a) = {<<a + j, d>>}
    BY <1>2 DEF Bits
  <2>4. /\ \A i \in 0 .. kind.width - 1 : m2[a + i] = IF i = j THEN SetBit(m[a + i], d, t) ELSE m[a + i]
        /\ \A z \in Addresses : z \notin a .. a + kind.width - 1 => m2[z] = m[z]
    BY <1>2, StoredBit
  <2> HIDE DEF j, d, t, b
  <2>5. ASSUME y # a + j
        PROVE  m2[y] = m[y]
    <3>1. CASE y \in a .. a + kind.width - 1
      <4> DEFINE i == y - a
      <4>1. i \in 0 .. kind.width - 1 /\ a + i = y /\ i # j
        BY <1>0, <2>2, <2>5, <3>1
      <4> HIDE DEF i
      <4> QED
        BY <2>4, <4>1
    <3> QED
      BY <2>4, <3>1
  <2>6. ASSUME NEW e \in 0 .. ByteBits - 1, e # d, m[y] \in 0 .. Byte - 1, y = a + j
        PROVE  BitAt(m2[y], e) = BitAt(m[y], e)
    <3>1. m2[y] = SetBit(m[y], d, t)
      BY <2>2, <2>4, <2>6
    <3>2. e \in Nat \ {d}
      BY <2>6, <1>0
    <3> QED
      BY <2>1, <2>2, <2>6, <3>1, <3>2, SetBitInByte
  <2>7. (\A e \in 0 .. ByteBits - 1 : <<y, e>> \notin Bits(kind, a)) => m2[y] = m[y]
    BY <2>2, <2>3, <2>5
  <2>8. ASSUME NEW e \in 0 .. ByteBits - 1, <<y, e>> \notin Bits(kind, a), m[y] \in 0 .. Byte - 1
        PROVE  BitAt(m2[y], e) = BitAt(m[y], e)
    BY <2>3, <2>5, <2>6, <2>8
  <2> QED
    BY <2>7, <2>8
<1> QED
  BY <1>1, <1>2

\* A store leaves bytes in its place, and everything outside as it was.
LEMMA StoreInPlace ==
  ASSUME NEW m, NEW kind \in Scalars, NEW a, NEW v \in LuaVals, Accepts(kind, v),
         Backed(m, kind, a), NEW m2, m2 = Stored(kind, m, a, v)
  PROVE  /\ HoldsBytes(m2, a, kind.width)
         /\ \A y \in Addresses : y \notin a .. a + kind.width - 1 => m2[y] = m[y]
<1>1. CASE kind.tag = "bit"
  <2>1. HoldsBytes(m2, a, kind.width)
    BY <1>1, StoredBit
  <2>2. \A y \in Addresses : y \notin a .. a + kind.width - 1 => m2[y] = m[y]
    BY <1>1, StoredBit
  <2> QED
    BY <2>1, <2>2
<1>2. CASE kind.tag # "bit"
  BY <1>2, StoredWhole DEF Backed
<1> QED
  BY <1>1, <1>2

\* A store leaves bytes where there were bytes.
LEMMA StoreKeepsBytes ==
  ASSUME NEW m, NEW kind \in Scalars, NEW a, NEW v \in LuaVals, Accepts(kind, v),
         Backed(m, kind, a), NEW k2, NEW a2, k2.width \in Nat, Backed(m, k2, a2)
  PROVE  Backed(Stored(kind, m, a, v), k2, a2)
<1> DEFINE m2 == Stored(kind, m, a, v)
<1>1. /\ HoldsBytes(m2, a, kind.width)
      /\ \A y \in Addresses : y \notin a .. a + kind.width - 1 => m2[y] = m[y]
  BY StoreInPlace
<1>2. kind.width \in Nat /\ a \in Nat /\ a2 \in Nat
  BY ScalarKinds DEF Backed
<1> HIDE DEF m2
<1>3. ASSUME NEW i \in 0 .. k2.width - 1
      PROVE  m2[a2 + i] \in 0 .. Byte - 1
  <2>1. a2 + i \in Addresses /\ m[a2 + i] \in 0 .. Byte - 1
    BY <1>2 DEF Backed, InMemory, HoldsBytes
  <2>2. CASE a2 + i \in a .. a + kind.width - 1
    <3> DEFINE n == a2 + i - a
    <3>1. n \in 0 .. kind.width - 1 /\ a + n = a2 + i
      BY <1>2, <2>2
    <3> HIDE DEF n
    <3>2. m2[a + n] \in 0 .. Byte - 1
      BY <1>1, <3>1 DEF HoldsBytes
    <3> QED
      BY <3>1, <3>2
  <2> QED
    BY <1>1, <2>1, <2>2
<1> QED
  BY <1>3 DEF Backed, HoldsBytes, m2

\* Places that share no bit do not disturb each other.
LEMMA StoreKeepsPlaces ==
  ASSUME NEW m, NEW kind \in Scalars, NEW a, NEW v \in LuaVals, Accepts(kind, v),
         Backed(m, kind, a), NEW k2 \in Scalars, NEW a2, Backed(m, k2, a2),
         Bits(k2, a2) \cap Bits(kind, a) = {}
  PROVE  Read(k2, Stored(kind, m, a, v), a2) = Read(k2, m, a2)
<1> DEFINE m2 == Stored(kind, m, a, v)
<1>1. k2.width \in Nat /\ a \in Nat /\ a2 \in Nat /\ InMemory(a, kind.width) /\ InMemory(a2, k2.width)
  BY ScalarKinds DEF Backed
<1>2. Backed(m2, k2, a2)
  BY <1>1, StoreKeepsBytes
<1>3. ASSUME NEW y \in Addresses
      PROVE  /\ (\A e \in 0 .. ByteBits - 1 : <<y, e>> \notin Bits(kind, a)) => m2[y] = m[y]
             /\ \A e \in 0 .. ByteBits - 1 :
                  /\ <<y, e>> \notin Bits(kind, a)
                  /\ m[y] \in 0 .. Byte - 1
                  => BitAt(m2[y], e) = BitAt(m[y], e)
  BY <1>1, StoreKeepsBits
<1> HIDE DEF m2
<1>4. CASE k2.tag # "bit"
  <2>1. ASSUME NEW i \in 0 .. k2.width - 1
        PROVE  m2[a2 + i] = m[a2 + i]
    <3> DEFINE y == a2 + i
    <3>1. y \in Addresses /\ y \in a2 .. a2 + k2.width - 1
      BY <1>1 DEF InMemory
    <3> HIDE DEF y
    <3>2. \A e \in 0 .. ByteBits - 1 : <<y, e>> \in Bits(k2, a2)
      BY <1>4, <3>1 DEF Bits
    <3>3. \A e \in 0 .. ByteBits - 1 : <<y, e>> \notin Bits(kind, a)
      BY <3>2
    <3> QED
      BY <1>3, <3>1, <3>3 DEF y
  <2>2. Numbers(m, a2, k2.width)
    BY BytesAreNumbers DEF Backed
  <2>3. Word(m2, a2, k2.width) = Word(m, a2, k2.width)
    <3> DEFINE w == k2.width
    <3>1. w \in Nat /\ Numbers(m, a2, w) /\ SameBytes(m, m2, a2, w)
      BY <1>1, <2>1, <2>2 DEF SameBytes
    <3> HIDE DEF w
    <3>2. Word(m2, a2, w) = Word(m, a2, w)
      BY <1>1, <3>1, WordSame
    <3> QED
      BY <3>2 DEF w
  <2>4. k2.tag \in {"int", "bool"}
    BY <1>4, ScalarKinds
  <2> QED
    BY <2>3, <2>4 DEF Read, m2
<1>5. CASE k2.tag = "bit"
  <2> DEFINE b == k2.bit
             y == a2 + b \div ByteBits
             e == b % ByteBits
  <2>1. b \in Nat /\ b < ByteBits * k2.width
    BY <1>5, ScalarKinds
  <2>2. b \div ByteBits \in 0 .. k2.width - 1 /\ e \in 0 .. ByteBits - 1
    BY <1>1, <2>1, BitPlace
  <2>3. HoldsBytes(m, a2, k2.width) /\ HoldsBytes(m2, a2, k2.width)
    BY <1>2 DEF Backed
  <2>4. y \in Addresses /\ m[y] \in 0 .. Byte - 1
    BY <1>1, <2>2, <2>3 DEF HoldsBytes, InMemory
  <2>5. <<y, e>> \in Bits(k2, a2)
    BY <1>5 DEF Bits
  <2>6. Read(k2, m, a2) = (Word(m, a2, k2.width) \div Power(2, b)) % 2
        /\ Read(k2, m2, a2) = (Word(m2, a2, k2.width) \div Power(2, b)) % 2
    BY <1>5 DEF Read
  <2>7. (Word(m, a2, k2.width) \div Power(2, b)) % 2 = BitAt(m[y], e)
    BY <1>1, <2>1, <2>3, BitRead
  <2>8. (Word(m2, a2, k2.width) \div Power(2, b)) % 2 = BitAt(m2[y], e)
    BY <1>1, <2>1, <2>3, BitRead
  <2> HIDE DEF y, e, b
  <2>9. <<y, e>> \notin Bits(kind, a)
    BY <2>5
  <2>10. BitAt(m2[y], e) = BitAt(m[y], e)
    BY <1>3, <2>2, <2>4, <2>9
  <2> QED
    BY <2>6, <2>7, <2>8, <2>10 DEF m2
<1> QED
  BY <1>4, <1>5

\* What was stored is read.
LEMMA StoreReadsBack ==
  ASSUME NEW m, NEW kind \in Scalars, NEW a, NEW v \in LuaVals, Accepts(kind, v), Backed(m, kind, a)
  PROVE  Read(kind, Stored(kind, m, a, v), a) = Meaning(kind, v)
<1>1. CASE kind.tag # "bit"
  BY <1>1, StoredWhole DEF Backed
<1>2. CASE kind.tag = "bit"
  <2> DEFINE m2 == Stored(kind, m, a, v)
             b == kind.bit
             j == b \div ByteBits
             e == b % ByteBits
             t == Truth(v)
  <2>1. b \in Nat /\ b < ByteBits * kind.width /\ t \in {0, 1} /\ kind.width \in Nat
    BY <1>2, ScalarKinds, TruthIsBit
  <2>2. j \in 0 .. kind.width - 1 /\ e \in 0 .. ByteBits - 1
    BY <2>1, BitPlace
  <2>3. a \in Nat /\ HoldsBytes(m, a, kind.width) /\ HoldsBytes(m2, a, kind.width)
    BY <1>2, StoredBit DEF Backed
  <2>4. m2[a + j] = SetBit(m[a + j], e, t)
    BY <1>2, <2>2, StoredBit
  <2>5. m[a + j] \in 0 .. Byte - 1
    BY <2>2, <2>3 DEF HoldsBytes
  <2>6. BitAt(m2[a + j], e) = t
    BY <2>1, <2>2, <2>4, <2>5, SetBitInByte
  <2>7. (Word(m2, a, kind.width) \div Power(2, b)) % 2 = BitAt(m2[a + j], e)
    BY <2>1, <2>3, BitRead
  <2>8. Read(kind, m2, a) = (Word(m2, a, kind.width) \div Power(2, b)) % 2
    BY <1>2 DEF Read
  <2>9. Meaning(kind, v) = t
    BY <1>2 DEF Meaning
  <2> HIDE DEF m2, t, j, e, b
  <2> QED
    BY <2>6, <2>7, <2>8, <2>9 DEF m2
<1> QED
  BY <1>1, <1>2

-----------------------------------------------------------------------------
\* What the host owes the script: its own steps keep memory as declared.
HostKeepsLayout == [][Host => WellLaid']_vars

-----------------------------------------------------------------------------
(***************************************************************************)
(* An assignment to a place leaves the layout as it is.                    *)
(***************************************************************************)
LEMMA StoredDomain ==
  ASSUME NEW m, NEW kind \in Scalars, NEW a, NEW v
  PROVE  Stored(kind, m, a, v) = [x \in Addresses |-> Stored(kind, m, a, v)[x]]
<1>1. kind.tag \in {"int", "bool", "bit"}
  BY ScalarKinds
<1>2. \A w, x : PutWord(m, a, w, x) = [y \in Addresses |-> PutWord(m, a, w, x)[y]]
  BY DEF PutWord
<1>3. \E w, x : Stored(kind, m, a, v) = PutWord(m, a, w, x)
  <2>1. CASE kind.tag = "int"
    BY <2>1 DEF Stored
  <2>2. CASE kind.tag = "bool"
    BY <2>2 DEF Stored
  <2>3. CASE kind.tag = "bit"
    BY <2>3 DEF Stored
  <2> QED
    BY <1>1, <2>1, <2>2, <2>3
<1> QED
  BY <1>2, <1>3

LEMMA StoreKeepsLayout ==
  ASSUME WellLaid, NEW o0 \in Objects, NEW f0 \in o0.fields, NEW kind \in Scalars, NEW a,
         [kind |-> kind, at |-> a] \in Places(o0, f0), NEW v \in LuaVals, Accepts(kind, v),
         mem' = Stored(kind, mem, a, v), count' = count
  PROVE  /\ WellLaid'
         /\ \A o \in Objects : \A f \in o.fields : Target(o, f)' = Target(o, f)
<1>1. Backed(mem, kind, a) /\ (a .. a + kind.width - 1) \cap Pointers = {}
  <2> DEFINE p == [kind |-> kind, at |-> a]
  <2>1. p.kind = kind /\ p.at = a /\ p \in Places(o0, f0)
    OBVIOUS
  <2> HIDE DEF p
  <2>2. Backed(mem, p.kind, p.at) /\ Clear(p)
    BY <2>1 DEF WellLaid
  <2> QED
    BY <2>1, <2>2 DEF Clear
<1>2. /\ HoldsBytes(mem', a, kind.width)
      /\ \A y \in Addresses : y \notin a .. a + kind.width - 1 => mem'[y] = mem[y]
  BY <1>1, StoreInPlace
<1>3. \A c \in Pointers : mem'[c] = mem[c]
  BY <1>1, <1>2 DEF WellLaid
<1>4. ASSUME NEW o \in Objects, NEW f \in o.fields
      PROVE  Target(o, f)' = Target(o, f)
  <2>1. CASE f.pointer
    <3>1. o.data + f.offset \in Pointers
      BY <2>1 DEF Pointers, FieldPointers
    <3> QED
      BY <1>3, <3>1 DEF Target
  <2> QED
    BY <2>1 DEF Target
<1>5. \A f : Length(f)' = Length(f)
  BY DEF Length
<1>6. Pointers' = Pointers
  <2>1. ElementPointers' = ElementPointers
    BY <1>4, <1>5 DEF ElementPointers
  <2>2. FieldPointers' = FieldPointers
    BY DEF FieldPointers
  <2> QED
    BY <2>1, <2>2 DEF Pointers
<1>7. ASSUME NEW o \in Objects, NEW f \in o.fields
      PROVE  Places(o, f)' = Places(o, f)
  <2>1. CASE f.kind.tag # "array"
    BY <1>4, <2>1 DEF Places
  <2>2. CASE f.kind.tag = "array" /\ ~f.kind.elements_are_pointers
    BY <1>4, <1>5, <2>2 DEF Places
  <2>3. CASE f.kind.tag = "array" /\ f.kind.elements_are_pointers
    <3>1. f \in {x \in o.fields \cap ArrayFields : x.kind.elements_are_pointers}
      BY <2>3 DEF ArrayFields
    <3>2. \A i \in 1 .. Length(f) : Target(o, f) + i - 1 \in Pointers
      BY <3>1 DEF Pointers, ElementPointers
    <3>3. \A i \in 1 .. Length(f) : mem'[Target(o, f) + i - 1] = mem[Target(o, f) + i - 1]
      BY <1>3, <3>2
    <3> QED
      BY <1>4, <1>5, <2>3, <3>3 DEF Places
  <2> QED
    BY <2>1, <2>2, <2>3
<1>8. mem' \in [Addresses -> Nat]
  <2>1. ASSUME NEW y \in Addresses
        PROVE  mem'[y] \in Nat
    <3>1. CASE y \in a .. a + kind.width - 1
      <4> DEFINE i == y - a
      <4>1. i \in 0 .. kind.width - 1 /\ a + i = y
        BY <1>1, <3>1, ScalarKinds, AccessAssumption DEF Backed
      <4> HIDE DEF i
      <4>2. mem'[a + i] \in 0 .. Byte - 1
        BY <1>2, <4>1 DEF HoldsBytes
      <4> QED
        BY <4>1, <4>2, ByteType
    <3> QED
      BY <1>2, <3>1 DEF WellLaid
  <2>2. mem' = [x \in Addresses |-> mem'[x]]
    BY StoredDomain
  <2> QED
    BY <2>1, <2>2
<1>9. ASSUME NEW o \in Objects, NEW f \in o.fields, NEW p \in Places(o, f), p.kind \in Scalars
      PROVE  Backed(mem', p.kind, p.at) /\ Clear(p)'
  <2>1. Backed(mem, p.kind, p.at) /\ Clear(p)
    BY <1>9 DEF WellLaid
  <2>2. p.kind.width \in Nat
    BY <1>9, ScalarKinds
  <2>3. Backed(mem', p.kind, p.at)
    BY <1>1, <2>1, <2>2, StoreKeepsBytes
  <2> QED
    BY <1>6, <2>1, <2>3 DEF Clear
<1>10. \A o \in Objects : \A f \in o.fields : \A p \in Places(o, f)' :
         p.kind \in Scalars => Backed(mem', p.kind, p.at) /\ Clear(p)'
  BY <1>7, <1>9
<1>11. /\ Pointers' \subseteq Addresses
       /\ \A o \in Objects : \A f \in o.fields \cap ArrayFields :
            f.pointer /\ Homes[f] # {} => Target(o, f)' \in Homes[f]
  BY <1>4, <1>6 DEF WellLaid
<1> QED
  BY <1>4, <1>8, <1>10, <1>11 DEF WellLaid

-----------------------------------------------------------------------------
(***************************************************************************)
(* The inductive invariant.                                                *)
(***************************************************************************)
\* What the script knows is in memory, and reads back.
KnownInv ==
  /\ known \subseteq [kind : Scalars, at : Addresses, value : Int \cup {True, False}]
  /\ \A k \in known : Backed(mem, k.kind, k.at)
  /\ ReadsBack

\* The arrays the script can come to are where the host has them.
HeldInv ==
  \A h \in Held :
    h.field \in ArrayFields /\ \E o \in Objects : h.field \in o.fields /\ h.data = Target(o, h.field)

StrideInv ==
  /\ stride \in [ArrayFields -> Nat]
  /\ \A f \in ArrayFields : stride[f] \in {0, f.kind.element.width}

LoopType ==
  /\ loop = [over |-> loop.over, at |-> loop.at, status |-> loop.status]
  /\ loop.status \in {"idle", "running", "done", "stopped"}
  /\ loop.status = "running" => loop.over # Nil /\ loop.at \in Nat

ArraysInv ==
  /\ WellLaid
  /\ KnownInv
  /\ HeldInv
  /\ StrideInv
  /\ LoopType
  /\ count \in [Dynamic -> Counts]

LEMMA ArraysInvImplies == ArraysInv => TypeOK /\ ReadsBack
BY DEF ArraysInv, TypeOK, WellLaid, KnownInv, HeldInv, StrideInv, LoopType

-----------------------------------------------------------------------------
LEMMA MeaningType ==
  ASSUME NEW kind \in Scalars, NEW v \in LuaVals, Accepts(kind, v)
  PROVE  Meaning(kind, v) \in Int \cup {True, False}
<1>1. CASE kind.tag = "int"
  BY <1>1, AcceptedInteger DEF Meaning
<1>2. CASE kind.tag = "bool"
  BY <1>2 DEF Meaning
<1>3. CASE kind.tag = "bit"
  <2>1. Meaning(kind, v) \in {0, 1}
    BY <1>3, TruthIsBit DEF Meaning
  <2> QED
    BY <2>1
<1> QED
  BY <1>1, <1>2, <1>3, ScalarKinds

LEMMA BackedAddress ==
  ASSUME NEW m, NEW kind \in Scalars, NEW a, Backed(m, kind, a)
  PROVE  a \in Addresses
<1>1. kind.width \in Nat \ {0}
  BY ScalarKinds
<1>2. a \in a .. a + kind.width - 1
  BY <1>1 DEF Backed
<1> QED
  BY <1>2 DEF Backed, InMemory

\* An assignment to a place.
LEMMA AssignKeepsKnown ==
  ASSUME WellLaid, KnownInv, NEW o \in Objects, NEW f \in o.fields, NEW kind \in Scalars, NEW a,
         [kind |-> kind, at |-> a] \in Places(o, f), NEW v \in LuaVals, Assign(kind, a, v)
  PROVE  KnownInv'
<1> DEFINE new == [kind |-> kind, at |-> a, value |-> Meaning(kind, v)]
<1>1. Accepts(kind, v) /\ mem' = Stored(kind, mem, a, v)
      /\ known' = Forget(Bits(kind, a)) \cup {new}
  BY DEF Assign
<1>2. Backed(mem, kind, a)
  <2> DEFINE p == [kind |-> kind, at |-> a]
  <2>1. p.kind = kind /\ p.at = a /\ p \in Places(o, f)
    OBVIOUS
  <2> HIDE DEF p
  <2>2. Backed(mem, p.kind, p.at)
    BY <2>1 DEF WellLaid
  <2> QED
    BY <2>1, <2>2
<1>3. Backed(mem', kind, a)
  BY <1>1, <1>2, StoreKeepsBytes, ScalarKinds
<1>4. new.kind = kind /\ new.at = a /\ new.value = Meaning(kind, v)
      /\ new \in [kind : Scalars, at : Addresses, value : Int \cup {True, False}]
  BY <1>1, <1>2, MeaningType, BackedAddress
<1> HIDE DEF new
<1>5. Read(kind, mem', a) = Meaning(kind, v)
  BY <1>1, <1>2, StoreReadsBack
<1>6. ASSUME NEW k \in Forget(Bits(kind, a))
      PROVE  Backed(mem', k.kind, k.at) /\ Read(k.kind, mem', k.at) = k.value
  <2>1. k \in known /\ Bits(k.kind, k.at) \cap Bits(kind, a) = {}
    BY DEF Forget
  <2>2. k.kind \in Scalars /\ Backed(mem, k.kind, k.at) /\ Read(k.kind, mem, k.at) = k.value
    BY <2>1 DEF KnownInv, ReadsBack
  <2>3. k.kind.width \in Nat
    BY <2>2, ScalarKinds
  <2>4. Backed(mem', k.kind, k.at)
    BY <1>1, <1>2, <2>2, <2>3, StoreKeepsBytes
  <2>5. Read(k.kind, mem', k.at) = Read(k.kind, mem, k.at)
    BY <1>1, <1>2, <2>1, <2>2, StoreKeepsPlaces
  <2> QED
    BY <2>2, <2>4, <2>5
<1>7. known' \subseteq [kind : Scalars, at : Addresses, value : Int \cup {True, False}]
  BY <1>1, <1>4 DEF Forget, KnownInv
<1>8. \A k \in known' : Backed(mem', k.kind, k.at) /\ Read(k.kind, mem', k.at) = k.value
  BY <1>1, <1>3, <1>4, <1>5, <1>6
<1> QED
  BY <1>7, <1>8 DEF KnownInv, ReadsBack

-----------------------------------------------------------------------------
LEMMA AsIntBelow ==
  /\ \A i \in Int : AsInt(i) \in Int
  /\ \A n \in Nat : AsInt(n) <= n
<1>1. IntSpan \in Nat \ {0}
  BY ArraysAssumption
<1>2. ASSUME NEW i \in Int
      PROVE  AsInt(i) \in Int
  BY <1>1 DEF AsInt
<1>3. ASSUME NEW n \in Nat
      PROVE  AsInt(n) <= n
  <2> DEFINE r == n % IntSpan
             q == n \div IntSpan
  <2>1. q \in Nat /\ r \in 0 .. IntSpan - 1 /\ n = IntSpan * q + r
    <3>1. n \in Int
      OBVIOUS
    <3>2. q \in Int /\ r \in 0 .. IntSpan - 1 /\ n = IntSpan * q + r
      BY <1>1, <3>1, DivMod
    <3>3. q \in Nat
      BY <1>1
    <3> QED
      BY <3>2, <3>3
  <2>2. AsInt(n) = IF r < IntSpan \div 2 THEN r ELSE r - IntSpan
    BY DEF AsInt
  <2> HIDE DEF r, q
  <2>3. IntSpan * q >= 0 /\ IntSpan * q \in Int
    BY <1>1, <2>1
  <2> QED
    BY <1>1, <2>1, <2>2, <2>3
<1> QED
  BY <1>2, <1>3

\* An index in bounds leads to an element that the host has.
LEMMA ElementPlace ==
  ASSUME ArraysInv, NEW h \in Held, NEW i \in Int, InBounds(h.field, i)
  PROVE  \E o \in Objects :
           /\ h.field \in o.fields /\ h.field \in ArrayFields
           /\ [kind |-> h.field.kind.element, at |-> Element(h, i)] \in Places(o, h.field)
<1> DEFINE f == h.field
           n == AsInt(i)
           w == f.kind.element.width
<1>1. PICK o \in Objects : f \in ArrayFields /\ f \in o.fields /\ h.data = Target(o, f)
  BY DEF ArraysInv, HeldInv
<1>2. f.kind \in ArrayDesc /\ f.kind.tag = "array"
  BY <1>1, ArraysAssumption DEF ArrayFields
<1>3. Length(f) \in Nat
  <2>1. f.kind.dynamic => count[f] \in Nat
    BY <1>1, ArraysAssumption DEF ArraysInv, Dynamic
  <2>2. f.kind.size \in Nat
    BY <1>2 DEF ArrayDesc
  <2> QED
    BY <2>1, <2>2, Zenon DEF Length
<1>4. n \in Int /\ 1 <= n /\ n <= AsInt(Length(f)) /\ AsInt(Length(f)) <= Length(f)
      /\ AsInt(Length(f)) \in Int
  BY <1>3, AsIntBelow DEF InBounds
<1>5. n \in 1 .. Length(f)
  BY <1>3, <1>4
<1>6. ElementSize(f) = w
  BY <1>1 DEF ElementSize, ArraysInv, StrideInv
<1>7. Element(h, i) = IF f.kind.elements_are_pointers THEN mem[Target(o, f) + n - 1]
                      ELSE Target(o, f) + (n - 1) * w
  BY <1>1, <1>6 DEF Element
<1>8. [kind |-> f.kind.element, at |-> Element(h, i)] \in Places(o, f)
  <2> HIDE DEF f, n, w
  <2> QED
    BY <1>2, <1>5, <1>7 DEF Places, w
<1> QED
  BY <1>1, <1>8

-----------------------------------------------------------------------------
LEMMA ArraysInvInit == WellLaid /\ Init => ArraysInv
<1> SUFFICES ASSUME WellLaid, Init
             PROVE  ArraysInv
  OBVIOUS
<1>1. KnownInv
  BY DEF Init, KnownInv, ReadsBack
<1>2. HeldInv
  BY DEF Init, HeldInv, Held, NoLoop
<1>3. StrideInv
  BY DEF Init, StrideInv
<1>4. LoopType
  BY DEF Init, LoopType, NoLoop
<1>5. count \in [Dynamic -> Counts]
  BY DEF Init
<1> QED
  BY <1>1, <1>2, <1>3, <1>4, <1>5 DEF ArraysInv

LEMMA LayoutUnchanged == ASSUME WellLaid, UNCHANGED <<mem, count>> PROVE WellLaid'
<1>1. \A o, f : Target(o, f)' = Target(o, f)
  BY DEF Target
<1>2. \A f : Length(f)' = Length(f)
  BY DEF Length
<1>3. \A o, f : Places(o, f)' = Places(o, f)
  BY <1>1, <1>2 DEF Places
<1>4. Pointers' = Pointers
  BY <1>1, <1>2 DEF Pointers, FieldPointers, ElementPointers
<1>5. \A p : Clear(p)' = Clear(p)
  BY <1>4 DEF Clear
<1> QED
  BY <1>1, <1>3, <1>4, <1>5 DEF WellLaid

LEMMA KnownUnchanged == ASSUME KnownInv, UNCHANGED <<mem, known>> PROVE KnownInv'
BY DEF KnownInv, ReadsBack

LEMMA HeldUnchanged ==
  ASSUME HeldInv, Held' \subseteq Held, \A o \in Objects : \A f \in o.fields : Target(o, f)' = Target(o, f)
  PROVE  HeldInv'
BY DEF HeldInv

LEMMA TargetUnchanged == ASSUME UNCHANGED mem PROVE \A o, f : Target(o, f)' = Target(o, f)
BY DEF Target

LEMMA StrideStep ==
  ASSUME StrideInv, NEW f \in ArrayFields, UseStride(f) \/ UNCHANGED stride
  PROVE  StrideInv'
<1>1. f.kind.element.width \in Nat
  <2>1. f.kind \in ArrayDesc
    BY ArraysAssumption
  <2>2. f.kind.element \in Scalars \cup Struct
    BY <2>1 DEF ArrayDesc
  <2>3. ASSUME f.kind.element \in Scalars
        PROVE  f.kind.element.width \in Nat
    BY <2>3, ScalarKinds
  <2> QED
    BY <2>2, <2>3 DEF Struct
<1>2. ElementSize(f) = f.kind.element.width
  BY DEF ElementSize, StrideInv
<1>3. stride' = stride \/ stride' = [stride EXCEPT ![f] = f.kind.element.width]
  BY <1>2 DEF UseStride
<1> QED
  BY <1>1, <1>3 DEF StrideInv

-----------------------------------------------------------------------------
LEMMA NewIndexFieldStep ==
  ASSUME ArraysInv, NEW o \in Objects, NEW f \in o.fields, NEW v \in LuaVals,
         NewIndexField(o, f, v), UNCHANGED <<count, stride, array, loop>>
  PROVE  ArraysInv'
<1>1. f.kind \in Scalars /\ Assign(f.kind, Target(o, f), v)
  BY DEF NewIndexField
<1>2. [kind |-> f.kind, at |-> Target(o, f)] \in Places(o, f)
  BY <1>1, ScalarKinds DEF Places
<1>3. mem' = Stored(f.kind, mem, Target(o, f), v) /\ Accepts(f.kind, v)
  BY <1>1 DEF Assign
<1>4. WellLaid' /\ \A o1 \in Objects : \A f1 \in o1.fields : Target(o1, f1)' = Target(o1, f1)
  BY <1>1, <1>2, <1>3, StoreKeepsLayout DEF ArraysInv
<1>5. KnownInv'
  BY <1>1, <1>2, AssignKeepsKnown DEF ArraysInv
<1>6. HeldInv'
  BY <1>4, HeldUnchanged DEF ArraysInv, Held
<1>7. StrideInv' /\ LoopType' /\ count' \in [Dynamic -> Counts]
  BY DEF ArraysInv, StrideInv, LoopType
<1> QED
  BY <1>4, <1>5, <1>6, <1>7 DEF ArraysInv

LEMMA IndexArrayStep ==
  ASSUME ArraysInv, NEW o \in Objects, NEW f \in o.fields, IndexArray(o, f)
  PROVE  ArraysInv'
<1>1. WellLaid' /\ KnownInv'
  BY LayoutUnchanged, KnownUnchanged DEF ArraysInv, IndexArray
<1>2. HeldInv'
  <2>1. Held' \subseteq Held \cup {[data |-> Target(o, f), field |-> f]}
    BY DEF IndexArray, MakeArray, Held
  <2>2. \A o1, f1 : Target(o1, f1)' = Target(o1, f1)
    BY TargetUnchanged DEF IndexArray
  <2>3. f \in ArrayFields
    BY DEF IndexArray
  <2> QED
    BY <2>1, <2>2, <2>3 DEF ArraysInv, HeldInv
<1>3. StrideInv' /\ LoopType' /\ count' \in [Dynamic -> Counts]
  BY DEF ArraysInv, StrideInv, LoopType, IndexArray
<1> QED
  BY <1>1, <1>2, <1>3 DEF ArraysInv

LEMMA ArrayIndexStep ==
  ASSUME ArraysInv, NEW i \in Indices, ArrayIndex(i)
  PROVE  ArraysInv'
<1>1. WellLaid' /\ KnownInv' /\ HeldInv'
  BY LayoutUnchanged, KnownUnchanged, HeldUnchanged, TargetUnchanged DEF ArraysInv, ArrayIndex, Held
<1>2. array.field \in ArrayFields
  BY DEF ArrayIndex, ArraysInv, HeldInv, Held
<1>3. StrideInv'
  BY <1>2, StrideStep DEF ArrayIndex, ArraysInv
<1>4. LoopType' /\ count' \in [Dynamic -> Counts]
  BY DEF ArraysInv, LoopType, ArrayIndex
<1> QED
  BY <1>1, <1>3, <1>4 DEF ArraysInv

LEMMA ArrayNewIndexStep ==
  ASSUME ArraysInv, NEW i \in Indices, NEW v \in LuaVals, ArrayNewIndex(i, v)
  PROVE  ArraysInv'
<1> DEFINE f == array.field
           kind == f.kind.element
<1>1. array \in Held /\ f \in ArrayFields
  BY DEF ArrayNewIndex, ArraysInv, HeldInv, Held
<1>2. StrideInv'
  BY <1>1, StrideStep DEF ArrayNewIndex, ArraysInv
<1>3. LoopType' /\ count' \in [Dynamic -> Counts] /\ Held' = Held
  BY DEF ArraysInv, LoopType, ArrayNewIndex, Held
<1>4. CASE UNCHANGED <<mem, known>>
  <2>1. WellLaid' /\ KnownInv'
    BY <1>4, LayoutUnchanged, KnownUnchanged DEF ArraysInv, ArrayNewIndex
  <2>2. HeldInv'
    BY <1>3, <1>4, HeldUnchanged, TargetUnchanged DEF ArraysInv
  <2> QED
    BY <1>2, <1>3, <2>1, <2>2 DEF ArraysInv
<1>5. CASE AcceptsElement(f, v) /\ Assign(kind, Element(array, i), v)
  <2>1. i \in Int /\ InBounds(f, i)
    BY ArraysAssumption DEF ArrayNewIndex
  <2>2. PICK o \in Objects : f \in o.fields
                             /\ [kind |-> kind, at |-> Element(array, i)] \in Places(o, f)
    BY <1>1, <2>1, ElementPlace
  <2> DEFINE a == Element(array, i)
  <2>3. kind \in Scalars /\ Accepts(kind, v) /\ mem' = Stored(kind, mem, a, v) /\ count' = count
    BY <1>5 DEF AcceptsElement, Assign, ArrayNewIndex
  <2> HIDE DEF f, kind, a
  <2>4. WellLaid' /\ \A o1 \in Objects : \A f1 \in o1.fields : Target(o1, f1)' = Target(o1, f1)
    BY <2>2, <2>3, StoreKeepsLayout DEF ArraysInv, a
  <2>5. KnownInv'
    BY <1>5, <2>2, <2>3, AssignKeepsKnown DEF ArraysInv, a
  <2>6. HeldInv'
    BY <1>3, <2>4, HeldUnchanged DEF ArraysInv
  <2> QED
    BY <1>2, <1>3, <2>4, <2>5, <2>6 DEF ArraysInv
<1> QED
  BY <1>4, <1>5 DEF ArrayNewIndex

LEMMA LoopStep ==
  ASSUME ArraysInv, Pairs \/ ArrayNext \/ Break \/ Release
  PROVE  ArraysInv'
<1>1. UNCHANGED <<mem, known, count>>
  BY DEF Pairs, ArrayNext, Break, Release
<1>2. WellLaid' /\ KnownInv' /\ count' \in [Dynamic -> Counts]
  BY <1>1, LayoutUnchanged, KnownUnchanged DEF ArraysInv
<1>3. Held' \subseteq Held /\ StrideInv' /\ LoopType'
  <2>1. CASE Pairs
    BY <2>1 DEF Pairs, Held, ArraysInv, StrideInv, LoopType
  <2>2. CASE Break
    BY <2>2 DEF Break, NoLoop, Held, ArraysInv, StrideInv, LoopType
  <2>3. CASE Release
    BY <2>3 DEF Release, Held, ArraysInv, StrideInv, LoopType
  <2>4. CASE ArrayNext
    <3> DEFINE f == loop.over.field
    <3>1. loop.status = "running" /\ loop.over # Nil /\ loop.at \in Nat /\ array' = array
      BY <2>4 DEF ArrayNext, ArraysInv, LoopType
    <3>2. f \in ArrayFields
      BY <3>1 DEF ArraysInv, HeldInv, Held
    <3>3. StrideInv'
      BY <2>4, <3>2, StrideStep DEF ArrayNext, ArraysInv
    <3>4. CASE loop' \in {NoLoop("done"), NoLoop("stopped")}
      BY <3>1, <3>3, <3>4 DEF NoLoop, Held, LoopType
    <3>5. CASE loop' = [loop EXCEPT !.at = NextIndex(loop.at)]
      <4>1. NextIndex(loop.at) \in Nat
        BY <3>1 DEF NextIndex
      <4>2. loop' = [over |-> loop.over, at |-> NextIndex(loop.at), status |-> loop.status]
        BY <3>5 DEF ArraysInv, LoopType
      <4> QED
        BY <3>1, <3>3, <4>1, <4>2 DEF Held, LoopType, ArraysInv
    <3> QED
      BY <2>4, <3>4, <3>5 DEF ArrayNext
  <2> QED
    BY <2>1, <2>2, <2>3, <2>4
<1>4. HeldInv'
  BY <1>1, <1>3, HeldUnchanged, TargetUnchanged DEF ArraysInv
<1> QED
  BY <1>2, <1>3, <1>4 DEF ArraysInv

\* Nothing is known any more.
LEMMA AllForgotten == ASSUME KnownInv PROVE Forget(Addresses \X (0 .. ByteBits - 1)) = {}
<1>0. ByteBits \in Nat \ {0} /\ 0 \in 0 .. ByteBits - 1
  BY AccessAssumption
<1>1. ASSUME NEW k \in known
      PROVE  \E b \in Bits(k.kind, k.at) : b \in Addresses \X (0 .. ByteBits - 1)
  <2>1. k.kind \in Scalars /\ k.at \in Addresses /\ Backed(mem, k.kind, k.at)
    BY DEF KnownInv
  <2>2. k.kind.width \in Nat \ {0} /\ k.at \in Nat /\ InMemory(k.at, k.kind.width)
    BY <2>1, ScalarKinds DEF Backed
  <2>3. CASE k.kind.tag = "bit"
    <3> DEFINE j == k.kind.bit \div ByteBits
               e == k.kind.bit % ByteBits
    <3>1. j \in 0 .. k.kind.width - 1 /\ e \in 0 .. ByteBits - 1
      BY <2>1, <2>2, <2>3, ScalarKinds, BitPlace
    <3>2. Bits(k.kind, k.at) = {<<k.at + j, e>>}
      BY <2>3 DEF Bits
    <3> HIDE DEF j, e
    <3>3. k.at + j \in Addresses
      BY <2>2, <3>1 DEF InMemory
    <3> QED
      BY <3>1, <3>2, <3>3
  <2>4. CASE k.kind.tag # "bit"
    <3>1. <<k.at, 0>> \in Bits(k.kind, k.at)
      BY <1>0, <2>2, <2>4 DEF Bits
    <3> QED
      BY <1>0, <2>1, <3>1
  <2> QED
    BY <2>3, <2>4
<1> QED
  BY <1>1 DEF Forget

LEMMA HostMovesStep ==
  ASSUME HostLayout, ~Moves, ArraysInv, WellLaid', NEW o \in Objects,
         NEW f \in o.fields \cap ArrayFields, NEW home \in Homes[f], HostMoves(o, f, home)
  PROVE  ArraysInv'
<1> DEFINE old == Target(o, f)
           room == Room(f)
<1>1. f \in ArrayFields /\ f.pointer /\ home \in Homes[f] /\ f \notin {h.field : h \in Held}
  BY DEF HostMoves
<1>2. old \in Homes[f]
  BY <1>1 DEF ArraysInv, WellLaid
<1>3. (home .. home + room - 1) \cap FieldPointers = {} /\ (old .. old + room - 1) \cap FieldPointers = {}
  BY <1>1, <1>2 DEF HostLayout
<1>4. mem' = [x \in Addresses |->
                IF x = o.data + f.offset THEN home
                ELSE IF x \in home .. home + room - 1 THEN mem[old + x - home]
                ELSE IF x \in old .. old + room - 1 THEN 0
                ELSE mem[x]]
  BY DEF HostMoves
<1> HIDE DEF old, room
<1>5. ASSUME NEW o2 \in Objects, NEW f2 \in o2.fields, f2 # f
      PROVE  Target(o2, f2)' = Target(o2, f2)
  <2>1. CASE f2.pointer
    <3> DEFINE c == o2.data + f2.offset
    <3>1. c # o.data + f.offset
      BY <1>1, <1>5, <2>1 DEF HostLayout
    <3>2. c \in FieldPointers
      BY <2>1 DEF FieldPointers
    <3>3. c \in Addresses
      BY <3>2 DEF ArraysInv, WellLaid, Pointers
    <3> HIDE DEF c
    <3>4. mem'[c] = mem[c]
      BY <1>3, <1>4, <3>1, <3>2, <3>3
    <3> QED
      BY <2>1, <3>4 DEF Target, c
  <2> QED
    BY <2>1 DEF Target
<1>6. Held' = Held
  BY DEF HostMoves, Held
<1>7. HeldInv'
  <2> SUFFICES ASSUME NEW h \in Held
               PROVE  h.field \in ArrayFields
                      /\ \E o2 \in Objects : h.field \in o2.fields /\ h.data = Target(o2, h.field)'
    BY <1>6 DEF HeldInv
  <2>1. h.field # f
    BY <1>1
  <2> QED
    BY <1>5, <2>1 DEF ArraysInv, HeldInv
<1>8. KnownInv'
  <2>1. known' = {}
    BY AllForgotten DEF HostMoves, ArraysInv
  <2> QED
    BY <2>1 DEF KnownInv, ReadsBack
<1>9. StrideInv' /\ LoopType' /\ count' \in [Dynamic -> Counts]
  BY DEF ArraysInv, StrideInv, LoopType, HostMoves
<1> QED
  BY <1>7, <1>8, <1>9 DEF ArraysInv

LEMMA HostCountsStep ==
  ASSUME ArraysInv, WellLaid', NEW f \in Dynamic, NEW n \in Counts, HostCounts(f, n)
  PROVE  ArraysInv'
<1>1. KnownInv' /\ HeldInv'
  BY KnownUnchanged, HeldUnchanged, TargetUnchanged DEF ArraysInv, HostCounts, Held
<1>2. StrideInv' /\ LoopType' /\ count' \in [Dynamic -> Counts]
  BY DEF ArraysInv, StrideInv, LoopType, HostCounts
<1> QED
  BY <1>1, <1>2 DEF ArraysInv

LEMMA ArraysInvStep ==
  ASSUME HostLayout, ~Moves
  PROVE  ArraysInv /\ [Next]_vars /\ [Host => WellLaid']_vars => ArraysInv'
<1> SUFFICES ASSUME ArraysInv, [Next]_vars, [Host => WellLaid']_vars
             PROVE  ArraysInv'
  OBVIOUS
<1>1. CASE UNCHANGED vars
  <2>1. WellLaid' /\ KnownInv' /\ HeldInv'
    BY <1>1, LayoutUnchanged, KnownUnchanged, HeldUnchanged, TargetUnchanged
       DEF ArraysInv, Held, vars
  <2>2. StrideInv' /\ LoopType' /\ count' \in [Dynamic -> Counts]
    BY <1>1 DEF ArraysInv, StrideInv, LoopType, vars
  <2> QED
    BY <2>1, <2>2 DEF ArraysInv
<1>2. CASE Script
  BY <1>2, NewIndexFieldStep, IndexArrayStep, ArrayIndexStep, ArrayNewIndexStep, LoopStep DEF Script
<1>3. CASE Host /\ ~UNCHANGED vars
  <2>1. WellLaid'
    BY <1>3
  <2>2. CASE HostReallocates
    BY <2>1, <2>2, HostMovesStep DEF HostReallocates
  <2>3. ASSUME NEW f \in Dynamic, NEW n \in Counts, HostCounts(f, n)
        PROVE  ArraysInv'
    BY <2>1, <2>3, HostCountsStep
  <2> QED
    BY <1>3, <2>2, <2>3 DEF Host
<1> QED
  BY <1>1, <1>2, <1>3 DEF Next

LEMMA ArraysInductive ==
  ASSUME HostLayout, ~Moves
  PROVE  Spec /\ WellLaid /\ HostKeepsLayout => []ArraysInv
BY ArraysInvInit, ArraysInvStep, PTL DEF Spec, HostKeepsLayout

-----------------------------------------------------------------------------
\* No assignment of the script damages a pointer, or moves what the pointers
\* lead to: what the host declared still is in memory.
THEOREM LayoutKept ==
  ASSUME HostLayout, ~Moves
  PROVE  Spec /\ WellLaid /\ HostKeepsLayout => []WellLaid
<1>1. ArraysInv => WellLaid
  BY DEF ArraysInv
<1> QED
  BY <1>1, ArraysInductive, PTL

\* Every variable keeps its type, and an array that the script holds keeps the
\* address it had when the script indexed it, as far as the host does not move
\* what the script holds.
THEOREM ArraysTyped ==
  ASSUME HostLayout, ~Moves
  PROVE  Spec /\ WellLaid /\ HostKeepsLayout => []TypeOK
BY ArraysInductive, ArraysInvImplies, PTL

\* What the script assigns to a field or an element reads back until it assigns
\* the same bits again: no integer, boolean or bit field runs over a neighbour,
\* and a bit field leaves the others of its word alone.
THEOREM AssignmentsReadBack ==
  ASSUME HostLayout, ~Moves
  PROVE  Spec /\ WellLaid /\ HostKeepsLayout => []ReadsBack
BY ArraysInductive, ArraysInvImplies, PTL

LEMMA InvElementsInPlace == ArraysInv => ElementsInPlace
<1> SUFFICES ASSUME ArraysInv, NEW h \in Held, NEW i \in Indices, InBounds(h.field, i)
             PROVE  \E o \in Objects : h.field \in o.fields
                      /\ [kind |-> h.field.kind.element, at |-> Element(h, i)] \in Places(o, h.field)
  BY DEF ElementsInPlace
<1>1. i \in Int
  BY ArraysAssumption
<1> QED
  BY <1>1, ElementPlace

\* An index that passes the bounds test leads to an element the host has, for
\* any count, index and width of int, and for the size cached in the field.
THEOREM ElementsFound ==
  ASSUME HostLayout, ~Moves
  PROVE  Spec /\ WellLaid /\ HostKeepsLayout => []ElementsInPlace
BY ArraysInductive, InvElementsInPlace, PTL

\* What a step of the script changes is in a place that it may assign.
InWritable == \E p \in Writable : \A a \in Addresses :
                mem'[a] # mem[a] => a \in p.at .. p.at + p.kind.width - 1

LEMMA StoreConfined ==
  ASSUME WellLaid, NEW o \in Objects, NEW f \in o.fields, MayWrite(o, f), NEW kind \in Scalars, NEW a,
         [kind |-> kind, at |-> a] \in Places(o, f), NEW v \in LuaVals, Assign(kind, a, v)
  PROVE  InWritable
<1> DEFINE p == [kind |-> kind, at |-> a]
<1>1. p.kind = kind /\ p.at = a /\ p \in Places(o, f)
  OBVIOUS
<1> HIDE DEF p
<1>2. Backed(mem, kind, a)
  BY <1>1 DEF WellLaid
<1>3. mem' = Stored(kind, mem, a, v) /\ Accepts(kind, v)
  BY DEF Assign
<1>4. \A y \in Addresses : y \notin a .. a + kind.width - 1 => mem'[y] = mem[y]
  BY <1>2, <1>3, StoreInPlace
<1>5. p \in Writable
  BY <1>1 DEF Writable
<1> QED
  BY <1>1, <1>4, <1>5 DEF InWritable

LEMMA ConfinedStep ==
  ASSUME ArraysAssignable, ArraysInv, [Next]_vars, mem' # mem
  PROVE  HostReallocates \/ InWritable
<1>1. ASSUME NEW o \in Objects, NEW f \in o.fields, NEW v \in LuaVals, NewIndexField(o, f, v)
      PROVE  InWritable
  <2>1. f.kind \in Scalars /\ Assign(f.kind, Target(o, f), v) /\ ~o.readonly /\ ~f.readonly
    BY <1>1 DEF NewIndexField, Assignable
  <2>2. f.kind.tag # "array"
    BY <2>1, ScalarKinds
  <2>3. [kind |-> f.kind, at |-> Target(o, f)] \in Places(o, f) /\ MayWrite(o, f)
    BY <2>1, <2>2 DEF Places, MayWrite
  <2> QED
    BY <2>1, <2>3, StoreConfined DEF ArraysInv
<1>2. ASSUME NEW i \in Indices, NEW v \in LuaVals, ArrayNewIndex(i, v)
      PROVE  InWritable
  <2> DEFINE f == array.field
             kind == f.kind.element
  <2>1. array \in Held /\ i \in Int /\ InBounds(f, i) /\ ~f.kind.elements_are_readonly
    BY <1>2, ArraysAssumption DEF ArrayNewIndex, Held, MayAssign
  <2>2. kind \in Scalars /\ Assign(kind, Element(array, i), v)
    BY <1>2 DEF ArrayNewIndex, AcceptsElement
  <2>3. PICK o \in Objects : f \in o.fields /\ f \in ArrayFields
                             /\ [kind |-> kind, at |-> Element(array, i)] \in Places(o, f)
    BY <2>1, ElementPlace
  <2>4. MayWrite(o, f)
    BY <2>1, <2>2, <2>3 DEF MayWrite, ArraysAssignable
  <2> HIDE DEF f, kind
  <2> QED
    BY <2>2, <2>3, <2>4, StoreConfined DEF ArraysInv
<1>3. CASE Script
  BY <1>1, <1>2, <1>3
     DEF Script, IndexArray, ArrayIndex, Release, Pairs, ArrayNext, Break
<1>4. CASE Host
  BY <1>4 DEF Host, HostCounts
<1> QED
  BY <1>3, <1>4 DEF Next, vars

\* A step of the script changes memory only in one place it may assign, unless it
\* indexes an array of something read-only: there the code does not look.
THEOREM AssignmentsConfined ==
  ASSUME HostLayout, ~Moves, ArraysAssignable
  PROVE  Spec /\ WellLaid /\ HostKeepsLayout => Confined
<1>1. ArraysInv /\ [Next]_vars
      => [mem' # mem =>
            \/ \E p \in Writable : \A a \in Addresses :
                 mem'[a] # mem[a] => a \in p.at .. p.at + p.kind.width - 1
            \/ HostReallocates]_vars
  BY ConfinedStep DEF InWritable
<1> QED
  BY <1>1, ArraysInductive, PTL DEF Spec, Confined

-----------------------------------------------------------------------------
(***************************************************************************)
(* pairs of an array.                                                      *)
(***************************************************************************)
Half == IntSpan \div 2

CountsFit ==
  /\ \A n \in Counts : n < Half
  /\ \A f \in ArrayFields : f.kind.size < Half

-----------------------------------------------------------------------------
\* The loop's array has a count, and its key is an int.
LoopInv ==
  /\ count \in [Dynamic -> Counts]
  /\ array # Nil => array.field \in ArrayFields
  /\ loop = [over |-> loop.over, at |-> loop.at, status |-> loop.status]
  /\ loop.over # Nil => loop.over.field \in ArrayFields
  /\ loop.status = "running" => loop.over # Nil
  /\ loop.at \in Nat /\ loop.at < Half

LEMMA HalfType == Half \in Nat /\ Half <= IntSpan /\ IntSpan \in Nat \ {0}
BY ArraysAssumption DEF Half

\* An int stands for itself up to the half, and is negative there.
LEMMA IntOf ==
  ASSUME NEW i \in Nat, i <= Half
  PROVE  IF i < Half THEN AsInt(i) = i ELSE AsInt(i) < 1
<1>1. i \in Nat /\ Half \in Nat /\ IntSpan \in Nat \ {0} /\ Half < IntSpan
  BY ArraysAssumption DEF Half
<1>2. i % IntSpan = i
  BY <1>1
<1>3. AsInt(i) = IF i < Half THEN i ELSE i - IntSpan
  BY <1>2 DEF AsInt, Half
<1> QED
  BY <1>1, <1>3

LEMMA LengthFits ==
  ASSUME CountsFit, LoopInv, NEW f \in ArrayFields
  PROVE  /\ Length(f) \in Nat /\ Length(f) < Half /\ AsInt(Length(f)) = Length(f)
         /\ f.kind.dynamic => AsInt(count[f]) = Length(f)
<1>1. f.kind.size \in Nat /\ f.kind.size < Half
  BY ArraysAssumption DEF ArrayDesc, CountsFit
<1>2. f.kind.dynamic => count[f] \in Nat /\ count[f] < Half
  BY ArraysAssumption DEF LoopInv, Dynamic, CountsFit
<1>3. Length(f) \in Nat /\ Length(f) < Half
  BY <1>1, <1>2, Zenon DEF Length
<1>4. AsInt(Length(f)) = Length(f)
  BY <1>3, HalfType, IntOf
<1> QED
  BY <1>3, <1>4 DEF Length

\* The index that __next takes is in bounds exactly when an element has it.
LEMMA NextInBounds ==
  ASSUME CountsFit, LoopInv, NEW f \in ArrayFields, HasSize(f)
  PROVE  /\ NextIndex(loop.at) = loop.at + 1
         /\ InBounds(f, NextIndex(loop.at)) <=> loop.at + 1 <= Length(f)
<1>1. loop.at + 1 \in Nat /\ loop.at + 1 <= Half
  BY HalfType DEF LoopInv
<1>2. /\ Length(f) \in Nat /\ Length(f) < Half /\ AsInt(Length(f)) = Length(f)
  BY LengthFits
<1>3. CASE loop.at + 1 < Half
  <2>1. AsInt(loop.at + 1) = loop.at + 1 /\ 1 <= loop.at + 1
    BY <1>1, <1>3, IntOf DEF LoopInv
  <2> QED
    BY <1>2, <2>1 DEF InBounds, NextIndex
<1>4. CASE ~(loop.at + 1 < Half)
  <2>1. AsInt(loop.at + 1) < 1 /\ AsInt(loop.at + 1) \in Int
    BY <1>1, <1>4, IntOf, HalfType DEF AsInt
  <2> QED
    BY <1>1, <1>2, <1>4, <2>1, HalfType DEF InBounds, NextIndex
<1> QED
  BY <1>3, <1>4

-----------------------------------------------------------------------------
LEMMA LoopInvInit == ASSUME Half > 0, Init PROVE LoopInv
BY HalfType DEF Init, LoopInv, NoLoop

LEMMA LoopInvStep == ASSUME CountsFit PROVE LoopInv /\ [Next]_vars => LoopInv'
<1> SUFFICES ASSUME LoopInv, [Next]_vars
             PROVE  LoopInv'
  OBVIOUS
<1>1. CASE UNCHANGED <<count, array, loop>>
  BY <1>1 DEF LoopInv
<1>2. ASSUME NEW o, NEW f, IndexArray(o, f)
      PROVE  LoopInv'
  BY <1>2 DEF IndexArray, MakeArray, LoopInv
<1>3. CASE Release
  BY <1>3 DEF Release, LoopInv
<1>4. CASE Pairs
  BY <1>4, HalfType DEF Pairs, LoopInv
<1>5. CASE Break
  BY <1>5, HalfType DEF Break, NoLoop, LoopInv
<1>6. CASE ArrayNext
  <2> DEFINE f == loop.over.field
             i == NextIndex(loop.at)
  <2>1. loop.status = "running" /\ f \in ArrayFields
    BY <1>6 DEF ArrayNext, LoopInv
  <2>2. CASE loop' \in {NoLoop("done"), NoLoop("stopped")}
    BY <1>6, <2>2, HalfType DEF ArrayNext, NoLoop, LoopInv
  <2>3. CASE InBounds(f, i) /\ loop' = [loop EXCEPT !.at = i]
    <3>1. i = loop.at + 1 /\ loop.at + 1 <= Length(f)
      BY <2>1, <2>3, NextInBounds DEF InBounds
    <3>2. i \in Nat /\ i < Half
      BY <2>1, <3>1, LengthFits, HalfType DEF LoopInv
    <3> HIDE DEF i
    <3>3. loop' = [over |-> loop.over, at |-> i, status |-> "running"]
      BY <2>1, <2>3 DEF LoopInv
    <3> QED
      BY <1>6, <2>1, <3>2, <3>3 DEF ArrayNext, LoopInv
  <2> QED
    BY <1>6, <2>2, <2>3 DEF ArrayNext
<1>7. ASSUME NEW f \in Dynamic, NEW n \in Counts, HostCounts(f, n)
      PROVE  LoopInv'
  BY <1>7 DEF HostCounts, LoopInv
<1>8. CASE Host
  BY <1>1, <1>7, <1>8 DEF Host, HostReallocates, HostMoves
<1>9. CASE Script
  BY <1>1, <1>2, <1>3, <1>4, <1>5, <1>6, <1>9 DEF Script, ArrayIndex, ArrayNewIndex
<1> QED
  BY <1>1, <1>8, <1>9 DEF Next, vars

-----------------------------------------------------------------------------
\* The keys of the loop.
LoopKeys ==
  IF loop.over # Nil /\ HasSize(loop.over.field) THEN 1 .. Length(loop.over.field) ELSE {}

KeysFit == LoopKeys \subseteq 1 .. IntSpan

LEMMA LoopKeysFit == ASSUME CountsFit PROVE LoopInv => KeysFit
<1> SUFFICES ASSUME LoopInv PROVE KeysFit
  OBVIOUS
<1>1. ASSUME NEW f \in ArrayFields
      PROVE  1 .. Length(f) \subseteq 1 .. IntSpan
  BY LengthFits, HalfType
<1> QED
  BY <1>1 DEF KeysFit, LoopKeys, LoopInv

\* What a step of __next is to Traversal.
LEMMA NextIsTraversal ==
  ASSUME CountsFit, LoopInv, LoopKeys' \subseteq 1 .. IntSpan, ArrayNext
  PROVE  Loop!Next
<1> DEFINE f == loop.over.field
           i == NextIndex(loop.at)
<1>1. loop.status = "running" /\ loop.over # Nil /\ f \in ArrayFields /\ loop.at \in Nat
  BY DEF ArrayNext, LoopInv
<1>2. Length(f) \in Nat
  BY <1>1, LengthFits
<1>3. CASE InBounds(f, i) /\ loop' = [loop EXCEPT !.at = i]
  <2>1. HasSize(f) /\ i = loop.at + 1 /\ loop.at + 1 <= Length(f)
    BY <1>1, <1>3, NextInBounds DEF InBounds
  <2>2. loop'.at = i /\ loop'.status = loop.status
    BY <1>3 DEF LoopInv
  <2>3. LoopKeys = 1 .. Length(f)
    BY <1>1, <2>1 DEF LoopKeys
  <2> HIDE DEF f, i
  <2>4. i \in LoopKeys /\ i > loop.at /\ \A j \in LoopKeys : j > loop.at => i <= j
    BY <1>1, <1>2, <2>1, <2>3
  <2>5. Loop!Visit
    BY <1>1, <2>2, <2>4 DEF Loop!Visit, Loop!Left, LoopKeys
  <2> QED
    BY <2>5 DEF Loop!Next, LoopKeys
<1>4. CASE HasSize(f) /\ ~InBounds(f, i) /\ loop' = NoLoop("done")
  <2>1. ~(loop.at + 1 <= Length(f))
    BY <1>1, <1>4, NextInBounds
  <2>2. LoopKeys = 1 .. Length(f)
    BY <1>1, <1>4 DEF LoopKeys
  <2> HIDE DEF f
  <2>3. \A j \in LoopKeys : ~(j > loop.at)
    BY <1>1, <1>2, <2>1, <2>2
  <2>4. Loop!Finish
    BY <1>1, <1>4, <2>3 DEF Loop!Finish, Loop!Left, LoopKeys, NoLoop
  <2> QED
    BY <2>4 DEF Loop!Next, LoopKeys
<1>5. CASE loop' = NoLoop("stopped")
  <2>1. Loop!Stop
    BY <1>1, <1>5 DEF Loop!Stop, NoLoop
  <2> QED
    BY <2>1 DEF Loop!Next, LoopKeys
<1> QED
  BY <1>3, <1>4, <1>5 DEF ArrayNext

LEMMA StepIsTraversal ==
  ASSUME CountsFit
  PROVE  LoopInv /\ LoopInv' /\ [Next]_vars => [Loop!Next]_(Loop!vars)
<1>1. LoopInv' => KeysFit'
  BY LoopKeysFit, PTL
<1> SUFFICES ASSUME LoopInv, LoopInv', [Next]_vars
             PROVE  Loop!Next \/ UNCHANGED Loop!vars
  BY DEF Loop!vars
<1>2. LoopKeys' \subseteq 1 .. IntSpan
  BY <1>1 DEF KeysFit
<1>3. CASE UNCHANGED loop
  BY <1>2, <1>3 DEF Loop!Next, LoopKeys
<1>4. CASE Pairs
  <2>1. Loop!Begin
    BY <1>4 DEF Pairs, Loop!Begin
  <2> QED
    BY <1>2, <2>1 DEF Loop!Next, LoopKeys
<1>5. CASE Break
  <2>1. Loop!Stop
    BY <1>5 DEF Break, NoLoop, Loop!Stop
  <2> QED
    BY <1>2, <2>1 DEF Loop!Next, LoopKeys
<1>6. CASE ArrayNext
  BY <1>2, <1>6, NextIsTraversal
<1>7. CASE Host
  BY <1>3, <1>7 DEF Host, HostReallocates, HostMoves, HostCounts
<1>8. CASE Script
  BY <1>3, <1>4, <1>5, <1>6, <1>8
     DEF Script, IndexArray, ArrayIndex, ArrayNewIndex, Release
<1> QED
  BY <1>3, <1>7, <1>8 DEF Next, vars

\* pairs of an array implements Traversal while the host changes its count: no
\* element that is there is left out, and none is given beyond the count.
THEOREM ArrayPairsImplementsTraversal ==
  ASSUME CountsFit, Half > 0
  PROVE  Spec => LoopIsTraversal
<1>1. Init => LoopInv
  BY LoopInvInit, HalfType
<1>2. Init => Loop!Init
  <2> SUFFICES ASSUME Init
               PROVE  Loop!Init
    OBVIOUS
  <2>1. loop.over = Nil /\ loop.at = 0 /\ loop.status = "idle"
    BY DEF Init, NoLoop
  <2> QED
    BY <2>1 DEF Loop!Init
<1> QED
  BY <1>1, <1>2, LoopInvStep, StepIsTraversal, PTL DEF Spec, LoopIsTraversal, Loop!Spec
=============================================================================
