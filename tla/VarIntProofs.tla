---------------------------- MODULE VarIntProofs ----------------------------
(***************************************************************************)
(* Lemmas that the proofs about the codecs share: induction and recursive  *)
(* functions over the naturals, division, and the VarInt codec.  An        *)
(* integer is read back from its bytes, whichever of the lengths that hold *)
(* it the writer took, and the first byte tells how many there are.        *)
(***************************************************************************)
EXTENDS VarInt, SequencesExt, WellFoundedInduction, TLAPS

(***************************************************************************)
(* Induction.  The library states it for an operator, which the provers    *)
(* cannot instantiate; here it is stated for a set.                        *)
(***************************************************************************)

\* A set of naturals that holds 0 and the successor of each of its members
\* holds every natural.
LEMMA NatSetInduction ==
  ASSUME NEW S, 0 \in S, \A n \in Nat : n \in S => n + 1 \in S
  PROVE  \A n \in Nat : n \in S
<1> DEFINE R == OpToRel(<, Nat)
<1>1. SUFFICES ASSUME Nat \ S # {} PROVE FALSE
  OBVIOUS
<1>2. IsWellFoundedOn(R, Nat)
  BY NatLessThanWellFounded
<1>3. Nat \ S \subseteq Nat
  OBVIOUS
<1> HIDE DEF R
<1>4. PICK x \in Nat \ S : \A y \in Nat \ S : <<y, x>> \notin R
  BY <1>1, <1>2, <1>3, WFMin
<1>5. \A y \in Nat \ S : ~(y < x)
  BY <1>4 DEF R, OpToRel
<1>6. x # 0 /\ x - 1 \in Nat /\ x - 1 < x /\ x - 1 + 1 = x
  OBVIOUS
<1>7. x - 1 \in S
  BY <1>5, <1>6
<1> QED
  BY <1>6, <1>7

Iterates(f, base, step) ==
  f[0] = base /\ \A n \in Nat : f[n + 1] = step[<<n, f[n]>>]

\* A first value and a function that gives the next one define a function.
LEMMA Recursion ==
  ASSUME NEW T, NEW base \in T, NEW step \in [Nat \X T -> T]
  PROVE  \E f \in [Nat -> T] : Iterates(f, base, step)
<1> DEFINE
      Upto(g, n) ==
        /\ g \in [0 .. n -> T] /\ g[0] = base
        /\ \A i \in 0 .. n - 1 : g[i + 1] = step[<<i, g[i]>>]
      S == {n \in Nat : \E g : Upto(g, n)}
<1>1. \A n \in Nat : n \in S
  <2>1. 0 \in S
    <3>1. Upto([i \in 0 .. 0 |-> base], 0)
      OBVIOUS
    <3> QED
      BY <3>1
  <2>2. ASSUME NEW n \in Nat, n \in S PROVE n + 1 \in S
    <3>1. PICK g : Upto(g, n)
      BY <2>2
    <3> DEFINE h == [i \in 0 .. n + 1 |-> IF i = n + 1 THEN step[<<n, g[n]>>] ELSE g[i]]
    <3>2. g[n] \in T /\ step[<<n, g[n]>>] \in T
      BY <3>1
    <3>3. /\ h \in [0 .. n + 1 -> T]
          /\ h[n + 1] = step[<<n, g[n]>>]
          /\ \A i \in 0 .. n : h[i] = g[i]
      BY <3>1, <3>2
    <3> HIDE DEF h
    <3>4. ASSUME NEW i \in 0 .. n PROVE h[i + 1] = step[<<i, h[i]>>]
      <4>1. CASE i = n
        BY <3>3, <4>1
      <4>2. CASE i # n
        <5>1. i \in 0 .. n - 1 /\ i \in 0 .. n /\ i + 1 \in 0 .. n
          BY <4>2
        <5> QED
          BY <3>1, <3>3, <5>1
      <4> QED
        BY <4>1, <4>2
    <3>5. Upto(h, n + 1)
      <4>1. 0 \in 0 .. n /\ n + 1 - 1 = n
        OBVIOUS
      <4> QED
        BY <3>1, <3>3, <3>4, <4>1
    <3> HIDE DEF Upto
    <3> QED
      BY <3>5
  <2> HIDE DEF S
  <2> QED
    BY <2>1, <2>2, NatSetInduction
<1>2. PICK A : \A n \in Nat : Upto(A[n], n)
  <2> DEFINE A == [n \in Nat |-> CHOOSE g : Upto(g, n)]
  <2>1. ASSUME NEW n \in Nat PROVE Upto(CHOOSE g : Upto(g, n), n)
    <3>1. \E g : Upto(g, n)
      BY <1>1
    <3> HIDE DEF Upto
    <3> QED
      BY <3>1
  <2>2. \A n \in Nat : Upto(A[n], n)
    <3> HIDE DEF Upto
    <3> QED
      BY <2>1
  <2> HIDE DEF A, Upto
  <2> QED
    BY <2>2
<1>3. ASSUME NEW g, NEW h, NEW m \in Nat, NEW n \in Nat, Upto(g, m), Upto(h, n)
      PROVE  \A i \in Nat : i <= m /\ i <= n => g[i] = h[i]
  <2> DEFINE Q == {i \in Nat : i <= m /\ i <= n => g[i] = h[i]}
  <2>1. 0 \in Q
    BY <1>3
  <2>2. ASSUME NEW i \in Nat, i \in Q PROVE i + 1 \in Q
    <3>1. SUFFICES ASSUME i + 1 <= m, i + 1 <= n PROVE g[i + 1] = h[i + 1]
      OBVIOUS
    <3>2. i \in 0 .. m - 1 /\ i \in 0 .. n - 1 /\ g[i] = h[i]
      BY <2>2, <3>1
    <3> QED
      BY <1>3, <3>2
  <2>3. \A i \in Nat : i \in Q
    <3> HIDE DEF Q
    <3> QED
      BY <2>1, <2>2, NatSetInduction
  <2> QED
    BY <2>3
<1> DEFINE f == [n \in Nat |-> A[n][n]]
<1>4. \A n \in Nat : A[n][n] \in T /\ A[n][0] = base
  BY <1>2
<1>5. ASSUME NEW n \in Nat PROVE f[n + 1] = step[<<n, f[n]>>]
  <2>1. Upto(A[n], n) /\ Upto(A[n + 1], n + 1)
    BY <1>2
  <2>2. A[n][n] = A[n + 1][n]
    <3> HIDE DEF Upto
    <3> QED
      BY <1>3, <2>1
  <2>3. A[n + 1][n + 1] = step[<<n, A[n + 1][n]>>]
    BY <2>1
  <2> QED
    BY <2>2, <2>3
<1>6. f \in [Nat -> T] /\ f[0] = base
  BY <1>4
<1> HIDE DEF f
<1> QED
  BY <1>5, <1>6 DEF Iterates

\* A set that holds every member of D whose smaller ones it holds, by a
\* natural measure, holds all of D.
LEMMA MeasuredInduction ==
  ASSUME NEW D, NEW S, NEW m \in [D -> Nat],
         \A x \in D : (\A y \in D : m[y] < m[x] => y \in S) => x \in S
  PROVE  \A x \in D : x \in S
<1> DEFINE Q == {k \in Nat : \A x \in D : m[x] < k => x \in S}
<1>1. 0 \in Q
  OBVIOUS
<1>2. ASSUME NEW k \in Nat, k \in Q PROVE k + 1 \in Q
  <2>1. ASSUME NEW x \in D, m[x] < k + 1 PROVE x \in S
    <3>1. \A y \in D : m[y] < m[x] => m[y] < k
      BY <2>1
    <3> QED
      BY <1>2, <3>1
  <2> QED
    BY <2>1
<1>3. \A k \in Nat : k \in Q
  <2> HIDE DEF Q
  <2> QED
    BY <1>1, <1>2, NatSetInduction
<1>4. ASSUME NEW x \in D PROVE x \in S
  <2>1. m[x] + 1 \in Nat /\ m[x] < m[x] + 1
    OBVIOUS
  <2>2. m[x] + 1 \in Q
    BY <1>3, <2>1
  <2> QED
    BY <2>1, <2>2
<1> QED
  BY <1>4

Measured(F, D, T, m) ==
  /\ T # {} /\ F \in [[D -> T] -> [D -> T]] /\ m \in [D -> Nat]
  /\ \A g, h \in [D -> T] : \A x \in D :
       (\A y \in D : m[y] < m[x] => g[y] = h[y]) => F[g][x] = F[h][x]

Solves(f, F) == f = F[f]

\* A recursion that only looks at smaller arguments, by a natural measure, has
\* a solution.
LEMMA MeasuredRecursion ==
  ASSUME NEW D, NEW T, NEW F, NEW m, Measured(F, D, T, m)
  PROVE  \E f \in [D -> T] : Solves(f, F)
<1> USE DEF Measured, Solves
<1> PICK some \in T : TRUE
  OBVIOUS
<1> DEFINE first == [x \in D |-> some]
           step == [p \in Nat \X [D -> T] |-> F[p[2]]]
<1>1. PICK a \in [Nat -> [D -> T]] : Iterates(a, first, step)
  <2>1. first \in [D -> T] /\ step \in [Nat \X [D -> T] -> [D -> T]]
    OBVIOUS
  <2> HIDE DEF first, step
  <2> QED
    BY <2>1, Recursion
<1>2. ASSUME NEW n \in Nat PROVE a[n + 1] = F[a[n]]
  BY <1>1 DEF Iterates
<1>3. \A n \in Nat : a[n] \in [D -> T]
  OBVIOUS
<1> HIDE DEF step
<1> DEFINE Q == {k \in Nat : \A x \in D : m[x] < k => \A j \in Nat : a[k + j][x] = a[k][x]}
<1>4. 0 \in Q
  OBVIOUS
<1>5. ASSUME NEW k \in Nat, k \in Q PROVE k + 1 \in Q
  <2>1. ASSUME NEW x \in D, m[x] < k + 1, NEW j \in Nat
        PROVE  a[k + 1 + j][x] = a[k + 1][x]
    <3>1. k + 1 + j = k + j + 1 /\ k + j \in Nat
      OBVIOUS
    <3>2. a[k + 1 + j] = F[a[k + j]] /\ a[k + 1] = F[a[k]]
      BY <1>2, <3>1
    <3>3. \A y \in D : m[y] < m[x] => m[y] < k
      BY <2>1
    <3>4. \A y \in D : m[y] < m[x] => a[k + j][y] = a[k][y]
      BY <1>5, <3>3
    <3>5. F[a[k + j]][x] = F[a[k]][x]
      BY <1>3, <3>1, <3>4
    <3> QED
      BY <3>2, <3>5
  <2> QED
    BY <2>1
<1>6. \A k \in Nat : k \in Q
  <2> HIDE DEF Q
  <2> QED
    BY <1>4, <1>5, NatSetInduction
<1>7. \A x \in D : m[x] + 1 \in Nat /\ m[x] \in Nat
  OBVIOUS
<1> DEFINE f == [x \in D |-> a[m[x] + 1][x]]
<1>8. f \in [D -> T] /\ \A x \in D : f[x] = a[m[x] + 1][x]
  BY <1>3, <1>7
<1> HIDE DEF f
<1>9. ASSUME NEW x \in D PROVE f[x] = F[f][x]
  <2>1. f[x] = F[a[m[x]]][x]
    BY <1>2, <1>7, <1>8
  <2>2. ASSUME NEW y \in D, m[y] < m[x] PROVE f[y] = a[m[x]][y]
    <3> DEFINE k == m[y] + 1
               j == m[x] - k
    <3>1. k \in Nat /\ j \in Nat /\ k + j = m[x] /\ m[y] < k
      BY <2>2
    <3>2. a[k + j][y] = a[k][y]
      <4>1. k \in Q
        BY <1>6, <3>1
      <4> HIDE DEF j, k
      <4> QED
        BY <3>1, <4>1
    <3> QED
      BY <1>8, <3>1, <3>2
  <2>3. F[f][x] = F[a[m[x]]][x]
    BY <1>3, <1>7, <1>8, <2>2
  <2> QED
    BY <2>1, <2>3
<1>10. F[f] \in [D -> T]
  BY <1>8
<1>11. f = F[f]
  BY <1>8, <1>9, <1>10
<1> QED
  BY <1>8, <1>11

-----------------------------------------------------------------------------
(***************************************************************************)
(* Division                                                                *)
(***************************************************************************)

LEMMA DivMod ==
  ASSUME NEW a \in Nat, NEW d \in Nat, d > 0
  PROVE  /\ a \div d \in Nat /\ a % d \in 0 .. d - 1
         /\ a = d * (a \div d) + (a % d)
OBVIOUS

LEMMA DivUnique ==
  ASSUME NEW a \in Nat, NEW d \in Nat, NEW q \in Nat, q * d <= a, a < (q + 1) * d
  PROVE  a \div d = q /\ a % d = a - q * d
<1>1. d > 0
  OBVIOUS
<1>2. a \div d = q
  BY <1>1
<1> QED
  BY <1>1, <1>2, DivMod

\* A multiple of the divisor does not touch the rest.
LEMMA DivPlus ==
  ASSUME NEW m \in Nat, NEW r \in Nat, NEW d \in Nat, d > 0
  PROVE  (m * d + r) \div d = m + (r \div d) /\ (m * d + r) % d = r % d
<1> DEFINE q == r \div d
<1>1. q \in Nat /\ r % d \in 0 .. d - 1 /\ r = d * q + (r % d)
  BY DivMod
<1> HIDE DEF q
<1>2. m * d \in Nat /\ (m + q) * d = m * d + d * q /\ (m + q + 1) * d = m * d + d * q + d
  BY <1>1
<1>3. (m + q) * d <= m * d + r /\ m * d + r < (m + q + 1) * d
  BY <1>1, <1>2
<1>4. (m * d + r) \div d = m + q /\ (m * d + r) % d = m * d + r - (m + q) * d
  <2> DEFINE a == m * d + r
             n == m + q
  <2>1. a \in Nat /\ n \in Nat /\ n * d <= a /\ a < (n + 1) * d
    BY <1>1, <1>2, <1>3
  <2> HIDE DEF a, n
  <2>2. a \div d = n /\ a % d = a - n * d
    BY <2>1, DivUnique
  <2> QED
    BY <2>2 DEF a, n
<1> QED
  BY <1>1, <1>2, <1>4 DEF q

\* Dividing twice is dividing by the product.
LEMMA DivDiv ==
  ASSUME NEW a \in Nat, NEW b \in Nat, NEW c \in Nat, b > 0, c > 0
  PROVE  (a \div b) \div c = a \div (b * c)
<1> DEFINE q == a \div b
           p == q \div c
<1>1. q \in Nat /\ a % b \in 0 .. b - 1 /\ a = b * q + (a % b)
  BY DivMod
<1>2. p \in Nat /\ q % c \in 0 .. c - 1 /\ q = c * p + (q % c)
  BY <1>1, DivMod
<1> HIDE DEF p, q
<1> DEFINE r == a % b
           s == q % c
<1>3. a = b * (c * p + s) + r /\ r \in 0 .. b - 1 /\ s \in 0 .. c - 1
  BY <1>1, <1>2
<1> HIDE DEF r, s
<1>4. b * s \in Nat /\ b * s <= b * (c - 1)
  BY <1>3
<1>5. /\ b * (c * p + s) = p * (b * c) + b * s
      /\ (p + 1) * (b * c) = p * (b * c) + b * c
      /\ b * (c - 1) = b * c - b /\ b * c \in Nat /\ p * (b * c) \in Nat
  BY <1>2, <1>3
<1>6. p * (b * c) <= a /\ a < (p + 1) * (b * c)
  BY <1>3, <1>4, <1>5
<1>7. a \div (b * c) = p
  BY <1>2, <1>5, <1>6, DivUnique
<1> QED
  BY <1>7 DEF p, q

-----------------------------------------------------------------------------
(***************************************************************************)
(* Powers of two                                                           *)
(***************************************************************************)

\* Powers of two up to the N-th, as the codecs define them.
Powers(N) == CHOOSE g : g = [n \in 0 .. N |-> IF n = 0 THEN 1 ELSE 2 * g[n - 1]]

Doubles(P, N) ==
  /\ P[0] = 1
  /\ \A n \in Nat : n <= N => P[n] \in Nat /\ P[n] > 0
  /\ \A n \in Nat : n + 1 <= N => P[n + 1] = 2 * P[n]
  /\ \A a, b \in Nat : a + b <= N => P[a + b] = P[a] * P[b]
  /\ \A a, b \in Nat : a <= b /\ b <= N => P[a] <= P[b]

LEMMA Doubling ==
  ASSUME NEW N \in Nat
  PROVE  Doubles(Powers(N), N)
<1> DEFINE D == 0 .. N
           F(g) == [n \in D |-> IF n = 0 THEN 1 ELSE 2 * g[n - 1]]
           C == CHOOSE g : g = F(g)
           P == Powers(N)
<1>1. \E g : g = F(g)
  <2> DEFINE step == [p \in Nat \X Nat |-> 2 * p[2]]
  <2>1. \A i, y \in Nat : step[<<i, y>>] = 2 * y
    OBVIOUS
  <2>2. PICK f \in [Nat -> Nat] : Iterates(f, 1, step)
    <3>1. 1 \in Nat /\ step \in [Nat \X Nat -> Nat]
      OBVIOUS
    <3> HIDE DEF step
    <3> QED
      BY <3>1, Recursion
  <2> HIDE DEF step
  <2> DEFINE g == [n \in D |-> f[n]]
  <2>3. ASSUME NEW n \in D, n # 0 PROVE g[n] = 2 * g[n - 1]
    <3>1. n \in Nat /\ n - 1 \in Nat /\ n - 1 \in D /\ n - 1 + 1 = n
      BY <2>3
    <3>2. f[n - 1 + 1] = 2 * f[n - 1]
      BY <3>1, <2>1, <2>2 DEF Iterates
    <3> QED
      BY <3>1, <3>2
  <2>4. g = F(g)
    <3>1. g[0] = 1
      BY <2>2 DEF Iterates
    <3> QED
      BY <3>1, <2>3
  <2> HIDE DEF g, F
  <2> QED
    BY <2>4
<1>2. C = F(C)
  <2> HIDE DEF F
  <2> QED
    BY <1>1
<1>3. P = C
  BY DEF Powers
<1> HIDE DEF C, P
<1>4. P = [n \in D |-> IF n = 0 THEN 1 ELSE 2 * P[n - 1]]
  BY <1>2, <1>3
<1>5. P[0] = 1
  <2>1. 0 \in D
    OBVIOUS
  <2> HIDE DEF D
  <2> QED
    BY <1>4, <2>1
<1>6. ASSUME NEW n \in Nat, n + 1 <= N PROVE P[n + 1] = 2 * P[n]
  <2>1. n + 1 \in D /\ n + 1 # 0 /\ n + 1 - 1 = n
    BY <1>6
  <2> HIDE DEF D
  <2> QED
    BY <1>4, <2>1
<1> HIDE DEF D, F
<1> DEFINE S == {n \in Nat : n <= N => P[n] \in Nat /\ P[n] > 0}
<1>7. 0 \in S
  BY <1>5
<1>8. ASSUME NEW n \in Nat, n \in S PROVE n + 1 \in S
  BY <1>6, <1>8
<1>9. \A n \in Nat : n \in S
  <2> HIDE DEF S
  <2> QED
    BY <1>7, <1>8, NatSetInduction
<1>10. ASSUME NEW a \in Nat, NEW b \in Nat, a + b <= N PROVE P[a + b] = P[a] * P[b]
  <2> DEFINE Q == {k \in Nat : a + k <= N => P[a + k] = P[a] * P[k]}
  <2>1. 0 \in Q
    BY <1>5, <1>9
  <2>2. ASSUME NEW k \in Nat, k \in Q PROVE k + 1 \in Q
    <3>1. SUFFICES ASSUME a + (k + 1) <= N PROVE P[a + (k + 1)] = P[a] * P[k + 1]
      OBVIOUS
    <3>2. /\ a + k \in Nat /\ a + k + 1 = a + (k + 1) /\ a + k + 1 <= N
          /\ a <= N /\ k <= N /\ k + 1 <= N /\ a + k <= N
      BY <3>1
    <3>3. P[a + (k + 1)] = 2 * P[a + k] /\ P[k + 1] = 2 * P[k]
      BY <1>6, <3>2
    <3>4. P[a + k] = P[a] * P[k] /\ P[a] \in Nat /\ P[k] \in Nat
      BY <1>9, <2>2, <3>2
    <3> QED
      BY <3>3, <3>4
  <2> HIDE DEF Q
  <2>3. \A n \in Nat : n \in Q
    BY <2>1, <2>2, NatSetInduction
  <2> QED
    BY <1>10, <2>3 DEF Q
<1>11. ASSUME NEW a \in Nat, NEW b \in Nat, a <= b, b <= N PROVE P[a] <= P[b]
  <2>1. /\ b - a \in Nat /\ a + (b - a) = b /\ a <= N /\ b - a <= N
    BY <1>11
  <2>2. P[b] = P[a] * P[b - a]
    BY <1>10, <1>11, <2>1
  <2>3. P[a] \in Nat /\ P[b - a] \in Nat /\ P[b - a] > 0
    BY <1>9, <2>1
  <2> QED
    BY <2>2, <2>3
<1> QED
  BY <1>5, <1>6, <1>9, <1>10, <1>11 DEF Doubles, P

LEMMA Power ==
  /\ Pow2[0] = 1
  /\ \A n \in Nat : n <= 8 * Bits => Pow2[n] \in Nat /\ Pow2[n] > 0
  /\ \A n \in Nat : n + 1 <= 8 * Bits => Pow2[n + 1] = 2 * Pow2[n]
  /\ \A a, b \in Nat : a + b <= 8 * Bits => Pow2[a + b] = Pow2[a] * Pow2[b]
  /\ \A a, b \in Nat : a <= b /\ b <= 8 * Bits => Pow2[a] <= Pow2[b]
<1> DEFINE N == 8 * Bits
<1>1. N \in Nat /\ Pow2 = Powers(N)
  BY BitsAssumption DEF Pow2, Powers
<1> HIDE DEF N
<1>2. Doubles(Pow2, N)
  BY <1>1, Doubling
<1> QED
  BY <1>2 DEF Doubles, N

LEMMA PowerSum ==
  ASSUME NEW a \in Nat, NEW b \in Nat, a + b <= 8 * Bits
  PROVE  Pow2[a + b] = Pow2[a] * Pow2[b]
BY Power

LEMMA PowerMonotone ==
  ASSUME NEW a \in Nat, NEW b \in Nat, a <= b, b <= 8 * Bits
  PROVE  Pow2[a] <= Pow2[b]
BY Power

-----------------------------------------------------------------------------
(***************************************************************************)
(* The VarInt codec                                                        *)
(***************************************************************************)

\* The values of a first byte without its tag, and the weight of a byte that k
\* others follow.
Low == Pow2[Bits - 2]
Unit(k) == Pow2[Bits * k]

LEMMA Units ==
  /\ Low \in Nat /\ Low > 0 /\ Base = 4 * Low
  /\ Unit(0) = 1
  /\ \A k \in 0 .. 8 : Unit(k) \in Nat /\ Unit(k) > 0
  /\ \A k \in 0 .. 7 : Unit(k + 1) = Unit(k) * Base /\ Bound(k + 1) = Low * Unit(k)
<1>1. Low \in Nat /\ Low > 0
  <2>1. Bits - 2 \in Nat /\ Bits - 2 <= 8 * Bits
    BY BitsAssumption
  <2> QED
    BY <2>1, Power DEF Low
<1>2. Base = 4 * Low
  <2>1. /\ Bits - 2 \in Nat /\ Bits - 2 + 1 \in Nat
        /\ Bits - 2 + 1 + 1 = Bits /\ Bits - 2 + 1 <= 8 * Bits /\ Bits <= 8 * Bits
    BY BitsAssumption
  <2>2. Pow2[Bits - 2 + 1] = 2 * Pow2[Bits - 2] /\ Pow2[Bits - 2 + 1 + 1] = 2 * Pow2[Bits - 2 + 1]
    BY <2>1, Power
  <2> QED
    BY <1>1, <2>1, <2>2 DEF Low, Base
<1>3. Unit(0) = 1
  BY Power, BitsAssumption DEF Unit
<1>4. ASSUME NEW k \in 0 .. 8 PROVE Unit(k) \in Nat /\ Unit(k) > 0
  <2>1. Bits * k \in Nat /\ Bits * k <= 8 * Bits
    BY BitsAssumption
  <2> QED
    BY <2>1, Power DEF Unit
<1>5. ASSUME NEW k \in 0 .. 7
      PROVE  Unit(k + 1) = Unit(k) * Base /\ Bound(k + 1) = Low * Unit(k)
  <2>1. /\ Bits * k \in Nat /\ Bits * (k + 1) = Bits * k + Bits
        /\ Bits * (k + 1) - 2 = Bits - 2 + Bits * k
        /\ Bits * k + Bits <= 8 * Bits /\ Bits - 2 + Bits * k <= 8 * Bits
        /\ Bits \in Nat /\ Bits - 2 \in Nat
    BY BitsAssumption
  <2>2. Pow2[Bits * k + Bits] = Pow2[Bits * k] * Pow2[Bits]
    BY <2>1, PowerSum
  <2>3. Pow2[Bits - 2 + Bits * k] = Pow2[Bits - 2] * Pow2[Bits * k]
    BY <2>1, PowerSum
  <2> QED
    BY <2>1, <2>2, <2>3 DEF Unit, Bound, Base, Low
<1> QED
  BY <1>1, <1>2, <1>3, <1>4, <1>5

LEMMA Bounds ==
  /\ \A n \in Lengths : Bound(n) \in Nat /\ Bound(n) > 0
  /\ \A m, n \in Lengths : m <= n => Bound(m) <= Bound(n)
<1>1. ASSUME NEW n \in Lengths PROVE Bits * n - 2 \in Nat /\ Bits * n - 2 <= 8 * Bits
  BY BitsAssumption DEF Lengths
<1>2. ASSUME NEW m \in Lengths, NEW n \in Lengths, m <= n
      PROVE  Bits * m - 2 <= Bits * n - 2
  BY <1>2, BitsAssumption DEF Lengths
<1>3. \A n \in Lengths : Bound(n) \in Nat /\ Bound(n) > 0
  BY <1>1, Power DEF Bound
<1>4. ASSUME NEW m \in Lengths, NEW n \in Lengths, m <= n PROVE Bound(m) <= Bound(n)
  BY <1>1, <1>2, <1>4, PowerMonotone DEF Bound
<1> QED
  BY <1>3, <1>4

\* write_varint takes a length that holds the integer, and so does every writer.
LEMMA FittingFits ==
  ASSUME NEW x \in 0 .. Bound(8) - 1
  PROVE  Fitting(x) \in Lengths /\ x < Bound(Fitting(x))
<1> DEFINE Fits(n) == x < Bound(n) /\ \A m \in Lengths : x < Bound(m) => n <= m
<1>1. x \in Nat /\ x < Bound(8)
  BY Bounds DEF Lengths
<1>2. \E n \in Lengths : Fits(n)
  <2>1. CASE x < Bound(1)
    BY <2>1 DEF Lengths
  <2>2. CASE ~(x < Bound(1)) /\ x < Bound(2)
    BY <2>2 DEF Lengths
  <2>3. CASE ~(x < Bound(1)) /\ ~(x < Bound(2)) /\ x < Bound(4)
    BY <2>3 DEF Lengths
  <2>4. CASE ~(x < Bound(1)) /\ ~(x < Bound(2)) /\ ~(x < Bound(4))
    BY <1>1, <2>4 DEF Lengths
  <2> QED
    BY <2>1, <2>2, <2>3, <2>4
<1> QED
  BY <1>2 DEF Fitting

\* What is left of x without its last k bytes.
Lead(x, k) == x \div Unit(k)

LEMMA Leads ==
  ASSUME NEW n \in Lengths, NEW x \in Nat, x < Bound(n)
  PROVE  /\ \A k \in 0 .. n - 1 : Lead(x, k) \in Nat
         /\ Lead(x, 0) = x
         /\ Lead(x, n - 1) < Low
         /\ \A k \in 0 .. n - 2 :
              Lead(x, k) = Base * Lead(x, k + 1) + (Lead(x, k) % Base)
<1>1. n \in 1 .. 8 /\ n - 1 \in 0 .. 7 /\ n - 1 + 1 = n /\ Base \in Nat /\ Base > 0
  BY Units DEF Lengths
<1>2. ASSUME NEW k \in 0 .. n - 1 PROVE Lead(x, k) \in Nat
  <2>1. k \in 0 .. 8
    BY <1>1
  <2>2. Unit(k) \in Nat /\ Unit(k) > 0
    BY <2>1, Units
  <2> QED
    BY <2>2, DivMod DEF Lead
<1>3. Lead(x, 0) = x
  BY Units DEF Lead
<1>4. Lead(x, n - 1) < Low
  <2> DEFINE u == Unit(n - 1)
             q == x \div u
  <2>1. u \in Nat /\ u > 0 /\ Bound(n) = Low * u /\ Low \in Nat
    BY <1>1, Units
  <2> HIDE DEF u
  <2>2. q \in Nat /\ x = u * q + (x % u) /\ x % u \in 0 .. u - 1
    BY <2>1, DivMod
  <2> HIDE DEF q
  <2>3. u * q < Low * u
    BY <2>1, <2>2
  <2>4. ASSUME q >= Low PROVE FALSE
    <3>1. PICK d \in Nat : q = Low + d
      BY <2>1, <2>2, <2>4
    <3>2. u * (Low + d) = Low * u + u * d /\ u * d \in Nat
      BY <2>1
    <3> QED
      BY <2>1, <2>3, <3>1, <3>2
  <2>5. q < Low
    BY <2>1, <2>2, <2>4
  <2> QED
    BY <2>5 DEF Lead, q, u
<1>5. ASSUME NEW k \in 0 .. n - 2
      PROVE  Lead(x, k) = Base * Lead(x, k + 1) + (Lead(x, k) % Base)
  <2>1. k \in 0 .. 7 /\ k \in 0 .. 8 /\ k \in 0 .. n - 1
    BY <1>1
  <2>2. Unit(k) \in Nat /\ Unit(k) > 0 /\ Unit(k + 1) = Unit(k) * Base
    BY <2>1, Units
  <2>3. Lead(x, k) \div Base = Lead(x, k + 1)
    BY <1>1, <2>2, DivDiv DEF Lead
  <2>4. Lead(x, k) \in Nat
    BY <1>2, <2>1
  <2> QED
    BY <1>1, <2>3, <2>4, DivMod
<1> QED
  BY <1>2, <1>3, <1>4, <1>5

\* The bytes of x in n bytes: the tag and the leading bits, and then byte for
\* byte what the lead has more.
LEMMA EncodedBytes ==
  ASSUME NEW n \in Lengths, NEW x \in Nat, x < Bound(n)
  PROVE  /\ EncodeIn(x, n) \in Seq(Byte) /\ Len(EncodeIn(x, n)) = n
         /\ EncodeIn(x, n)[1] = Tag(n) * Low + Lead(x, n - 1)
         /\ \A i \in 2 .. n : EncodeIn(x, n)[i] = Lead(x, n - i) % Base
<1> DEFINE t == Tag(n) * Bound(n) + x
           e(i) == (t \div Unit(n - i)) % Base
<1>1. n \in 1 .. 8 /\ n - 1 \in 0 .. 7 /\ n - 1 + 1 = n /\ Base \in Nat /\ Base > 0
  BY Units DEF Lengths
<1>2. Tag(n) \in 0 .. 3
  BY DEF Tag, Lengths
<1>3. Bound(n) = Low * Unit(n - 1) /\ Low \in Nat /\ t \in Nat
  BY <1>1, <1>2, Units
<1>4. EncodeIn(x, n) = [i \in 1 .. n |-> e(i)]
  BY DEF EncodeIn, Unit
<1>5. ASSUME NEW i \in 1 .. n PROVE e(i) \in Byte
  <2>1. n - i \in 0 .. 8
    BY <1>1
  <2>2. Unit(n - i) \in Nat /\ Unit(n - i) > 0
    BY <2>1, Units
  <2>3. t \div Unit(n - i) \in Nat
    BY <1>3, <2>2, DivMod
  <2> QED
    BY <1>1, <2>3, DivMod DEF Byte
<1>6. EncodeIn(x, n) \in Seq(Byte) /\ Len(EncodeIn(x, n)) = n
  BY <1>1, <1>4, <1>5
<1>7. e(1) = Tag(n) * Low + Lead(x, n - 1)
  <2> DEFINE u == Unit(n - 1)
             m == Tag(n) * Low
  <2>1. u \in Nat /\ u > 0
    BY <1>1, Units
  <2>2. m \in Nat /\ Tag(n) * (Low * u) = m * u
    BY <1>2, <1>3, <2>1
  <2>3. t = m * u + x
    BY <1>3, <2>2
  <2>4. t \div u = m + Lead(x, n - 1)
    <3> HIDE DEF t, m
    <3>1. (m * u + x) \div u = m + (x \div u)
      BY <2>1, <2>2, DivPlus
    <3> QED
      BY <2>3, <3>1 DEF Lead, u
  <2>5. Lead(x, n - 1) \in Nat /\ Lead(x, n - 1) < Low
    BY <1>1, Leads
  <2>6. m <= 3 * Low
    BY <1>2, <1>3
  <2>7. m + Lead(x, n - 1) \in 0 .. Base - 1
    BY <1>3, <2>2, <2>5, <2>6, Units
  <2>8. e(1) = (m + Lead(x, n - 1)) % Base
    BY <2>4
  <2> HIDE DEF e, m
  <2>9. e(1) = m + Lead(x, n - 1)
    BY <1>1, <2>7, <2>8
  <2> QED
    BY <2>9 DEF m
<1>8. ASSUME NEW i \in 2 .. n PROVE e(i) = Lead(x, n - i) % Base
  <2> DEFINE k == n - i
             u == Unit(k)
             m == Tag(n) * Low * Unit(i - 2)
  <2>1. k \in 0 .. 6 /\ i - 2 \in 0 .. 6 /\ k + 1 + (i - 2) = n - 1
    BY <1>1
  <2>2. Unit(n - 1) = Unit(i - 2) * (Base * u)
    <3>1. Unit(n - 1) = Unit(k + 1) * Unit(i - 2)
      <4>1. /\ Bits * (k + 1) \in Nat /\ Bits * (i - 2) \in Nat
            /\ Bits * (k + 1) + Bits * (i - 2) = Bits * (n - 1)
            /\ Bits * (n - 1) <= 8 * Bits
        BY <1>1, <2>1, BitsAssumption
      <4> HIDE DEF k
      <4> QED
        BY <4>1, PowerSum DEF Unit
    <3>2. Unit(k + 1) = u * Base
      BY <2>1, Units
    <3>3. u \in Nat /\ Unit(i - 2) \in Nat
      BY <2>1, Units
    <3> HIDE DEF u, k
    <3> QED
      BY <1>1, <3>1, <3>2, <3>3
  <2>3. u \in Nat /\ u > 0 /\ Unit(i - 2) \in Nat /\ m \in Nat
    BY <1>2, <1>3, <2>1, Units
  <2>4. Tag(n) * Bound(n) = (m * Base) * u /\ m * Base \in Nat
    <3> DEFINE v == Unit(i - 2)
    <3>1. Bound(n) = Low * (v * (Base * u)) /\ v \in Nat
      BY <1>3, <2>2, <2>3
    <3>2. m = Tag(n) * Low * v
      OBVIOUS
    <3> HIDE DEF u, v, m
    <3> QED
      BY <1>1, <1>2, <1>3, <2>3, <3>1, <3>2
  <2>5. t \div u = m * Base + Lead(x, k)
    <3>1. t = (m * Base) * u + x
      BY <2>4
    <3> DEFINE mb == m * Base
    <3> HIDE DEF t, mb
    <3>2. (mb * u + x) \div u = mb + (x \div u)
      BY <2>3, <2>4, DivPlus DEF mb
    <3> QED
      BY <3>1, <3>2 DEF Lead, u, mb
  <2>6. Lead(x, k) \in Nat
    <3>1. k \in 0 .. n - 1
      BY <1>1
    <3> HIDE DEF k
    <3> QED
      BY <3>1, Leads
  <2>7. (m * Base + Lead(x, k)) % Base = Lead(x, k) % Base
    <3> HIDE DEF m, k
    <3> QED
      BY <1>1, <2>3, <2>6, DivPlus
  <2> QED
    BY <2>5, <2>7
<1>9. EncodeIn(x, n)[1] = e(1) /\ \A i \in 2 .. n : EncodeIn(x, n)[i] = e(i)
  BY <1>1, <1>4
<1> HIDE DEF e
<1> QED
  BY <1>6, <1>7, <1>8, <1>9

\* The first byte tells how many there are.
LEMMA AnnouncedIs ==
  ASSUME NEW n \in Lengths, NEW x \in Nat, x < Bound(n)
  PROVE  Announced(EncodeIn(x, n)[1]) = n
<1> DEFINE q == Lead(x, n - 1)
           first == EncodeIn(x, n)[1]
<1>1. q \in Nat /\ q < Low
  BY Leads DEF Lengths
<1>2. first = Tag(n) * Low + q
  BY EncodedBytes
<1>3. Tag(n) \in 0 .. 3 /\ Low \in Nat /\ Low > 0
  BY Units DEF Tag, Lengths
<1> HIDE DEF q, first
<1>4. (Tag(n) + 1) * Low = Tag(n) * Low + Low /\ Tag(n) * Low \in Nat
  BY <1>3
<1>5. first \div Low = Tag(n)
  <2> DEFINE m == Tag(n)
  <2>1. /\ m \in Nat /\ first = m * Low + q /\ first \in Nat
        /\ m * Low <= first /\ first < (m + 1) * Low
    BY <1>1, <1>2, <1>3, <1>4
  <2> HIDE DEF m
  <2>2. first \div Low = m
    BY <1>3, <2>1, DivUnique
  <2> QED
    BY <2>2 DEF m
<1>6. /\ 0 + 1 <= 8 * Bits /\ 1 + 1 <= 8 * Bits /\ 2 + 1 <= 8 * Bits
  BY BitsAssumption
<1>7. Pow2[0] = 1 /\ Pow2[0 + 1] = 2 * Pow2[0] /\ Pow2[1 + 1] = 2 * Pow2[1] /\ Pow2[2 + 1] = 2 * Pow2[2]
  <2>1. 0 \in Nat /\ 1 \in Nat /\ 2 \in Nat
    OBVIOUS
  <2> QED
    BY <1>6, <2>1, Power
<1>8. Pow2[0] = 1 /\ Pow2[1] = 2 /\ Pow2[2] = 4 /\ Pow2[3] = 8
  BY <1>7
<1>9. Pow2[Tag(n)] = n
  BY <1>8 DEF Tag, Lengths
<1> QED
  BY <1>5, <1>9 DEF Announced, Low, first

\* Every byte announces one of the lengths.
LEMMA AnnouncedLengths ==
  ASSUME NEW b \in Byte
  PROVE  Announced(b) \in Lengths
<1> DEFINE q == b \div Low
<1>1. Low \in Nat /\ Low > 0 /\ b \in Nat /\ b < 4 * Low
  BY Units DEF Byte
<1>2. q \in Nat /\ b = Low * q + (b % Low) /\ b % Low \in 0 .. Low - 1
  BY <1>1, DivMod
<1> HIDE DEF q
<1>3. q \in 0 .. 3
  <2>1. ASSUME q >= 4 PROVE FALSE
    <3>1. PICK d \in Nat : q = 4 + d
      BY <1>2, <2>1
    <3>2. Low * (4 + d) = 4 * Low + Low * d /\ Low * d \in Nat
      BY <1>1
    <3> QED
      BY <1>1, <1>2, <3>1, <3>2
  <2> QED
    BY <1>2, <2>1
<1>4. /\ 0 + 1 <= 8 * Bits /\ 1 + 1 <= 8 * Bits /\ 2 + 1 <= 8 * Bits
      /\ 0 \in Nat /\ 1 \in Nat /\ 2 \in Nat
  BY BitsAssumption
<1>5. Pow2[0] = 1 /\ Pow2[0 + 1] = 2 * Pow2[0] /\ Pow2[1 + 1] = 2 * Pow2[1] /\ Pow2[2 + 1] = 2 * Pow2[2]
  BY <1>4, Power
<1>6. Pow2[0] = 1 /\ Pow2[1] = 2 /\ Pow2[2] = 4 /\ Pow2[3] = 8
  BY <1>5
<1>7. Pow2[q] \in Lengths
  BY <1>3, <1>6 DEF Lengths
<1> QED
  BY <1>7 DEF Announced, Low, q

\* read_varint computes the value byte by byte.
LEMMA ValueSteps ==
  ASSUME NEW b \in Seq(Byte), b # <<>>
  PROVE  \E v \in [1 .. Len(b) -> Nat] :
           /\ v[1] = b[1] % Low
           /\ \A i \in 2 .. Len(b) : v[i] = Base * v[i - 1] + b[i]
           /\ Value(b) = v[Len(b)]
<1> DEFINE N == Len(b)
           first == b[1] % Low
           F(v) == [i \in 1 .. N |->
                      IF i = 1 THEN b[1] % Low ELSE Base * v[i - 1] + b[i]]
           C == CHOOSE v : v = F(v)
<1>1. N \in Nat /\ N > 0 /\ \A i \in 1 .. N : b[i] \in Nat
  <2>1. N \in Nat /\ N > 0 /\ \A i \in 1 .. N : b[i] \in Byte
    OBVIOUS
  <2>2. Byte \subseteq Nat
    BY Units DEF Byte
  <2> QED
    BY <2>1, <2>2
<1>2. first \in Nat /\ Base \in Nat
  <2> DEFINE c == b[1]
  <2>1. c \in Nat /\ Low \in Nat /\ Low > 0
    BY <1>1, Units
  <2> HIDE DEF c
  <2>2. c % Low \in Nat
    BY <2>1, DivMod
  <2> QED
    BY <2>2, Units DEF first, c
<1> HIDE DEF N, first
<1>3. \E v : v = F(v) 
  <2> DEFINE next(i, y) == Base * y + (IF i + 2 <= N THEN b[i + 2] ELSE 0)
             step == [p \in Nat \X Nat |-> next(p[1], p[2])]
  <2>1. ASSUME NEW i \in Nat, NEW y \in Nat
        PROVE  next(i, y) \in Nat /\ (i + 2 <= N => next(i, y) = Base * y + b[i + 2])
    <3>1. Base * y \in Nat
      BY <1>2
    <3>2. CASE i + 2 <= N
      BY <1>1, <3>1, <3>2
    <3>3. CASE ~(i + 2 <= N)
      BY <3>1, <3>3
    <3> QED
      BY <3>2, <3>3
  <2> HIDE DEF next
  <2>5. \A i, y \in Nat : step[<<i, y>>] = next(i, y)
    OBVIOUS
  <2>2. step \in [Nat \X Nat -> Nat]
    BY <2>1
  <2> HIDE DEF step
  <2>3. PICK f \in [Nat -> Nat] : Iterates(f, first, step)
    BY <1>2, <2>2, Recursion
  <2> DEFINE v == [i \in 1 .. N |-> f[i - 1]]
  <2>4. ASSUME NEW i \in 1 .. N
        PROVE  v[i] = IF i = 1 THEN first ELSE Base * v[i - 1] + b[i]
    <3>1. CASE i = 1
      BY <2>3, <3>1 DEF Iterates
    <3>2. CASE i # 1
      <4>1. i - 2 \in Nat /\ i - 2 + 1 = i - 1 /\ i - 2 + 2 = i /\ i - 1 \in 1 .. N /\ i - 1 - 1 = i - 2
        BY <1>1, <3>2
      <4>2. f[i - 2 + 1] = step[<<i - 2, f[i - 2]>>] /\ f[i - 2] \in Nat
        BY <2>3, <4>1 DEF Iterates
      <4>3. step[<<i - 2, f[i - 2]>>] = Base * f[i - 2] + b[i]
        <5>1. step[<<i - 2, f[i - 2]>>] = next(i - 2, f[i - 2])
          BY <2>5, <4>1, <4>2
        <5>2. i - 2 + 2 <= N
          BY <1>1, <4>1
        <5> HIDE DEF step
        <5> QED
          BY <2>1, <4>1, <4>2, <5>1, <5>2
      <4>4. v[i] = f[i - 1] /\ v[i - 1] = f[i - 2]
        BY <4>1
      <4> QED
        BY <3>2, <4>1, <4>2, <4>3, <4>4
    <3> QED
      BY <3>1, <3>2
  <2>6. v = F(v)
    BY <2>4 DEF first
  <2> HIDE DEF v, F
  <2> QED
    BY <2>6
<1>4. C = F(C)
  <2> HIDE DEF F
  <2> QED
    BY <1>3
<1>5. Value(b) = C[N]
  BY DEF Value, N, Low
<1> HIDE DEF C
<1>6. C[1] = first /\ \A i \in 2 .. N : C[i] = Base * C[i - 1] + b[i]
  <2>1. \A i \in 1 .. N : C[i] = IF i = 1 THEN b[1] % Low ELSE Base * C[i - 1] + b[i]
    BY <1>4
  <2>2. 1 \in 1 .. N /\ \A i \in 2 .. N : i \in 1 .. N /\ i # 1
    BY <1>1
  <2> HIDE DEF F
  <2> QED
    BY <2>1, <2>2 DEF first
<1>7. C \in [1 .. N -> Nat]
  <2> DEFINE S == {i \in Nat : i + 1 <= N => C[i + 1] \in Nat}
  <2>1. 0 \in S
    BY <1>2, <1>6
  <2>2. ASSUME NEW i \in Nat, i \in S PROVE i + 1 \in S
    <3>1. SUFFICES ASSUME i + 1 + 1 <= N PROVE C[i + 1 + 1] \in Nat
      OBVIOUS
    <3>2. C[i + 1] \in Nat /\ i + 1 + 1 \in 2 .. N /\ i + 1 + 1 - 1 = i + 1
      BY <1>1, <2>2, <3>1
    <3>3. C[i + 1 + 1] = Base * C[i + 1] + b[i + 1 + 1] /\ b[i + 1 + 1] \in Nat
      BY <1>1, <1>6, <3>2
    <3> QED
      BY <1>2, <3>2, <3>3
  <2>3. \A i \in Nat : i \in S
    <3> HIDE DEF S
    <3> QED
      BY <2>1, <2>2, NatSetInduction
  <2>4. ASSUME NEW i \in 1 .. N PROVE C[i] \in Nat
    <3>1. i - 1 \in Nat /\ i - 1 + 1 = i /\ i <= N
      BY <1>1
    <3>2. i - 1 \in S
      BY <2>3, <3>1
    <3> QED
      BY <3>1, <3>2
  <2>5. C = [i \in 1 .. N |-> C[i]]
    BY <1>4
  <2> QED
    BY <2>4, <2>5
<1> QED
  BY <1>5, <1>6, <1>7 DEF N, first

LEMMA ValueNat ==
  ASSUME NEW b \in Seq(Byte), b # <<>>
  PROVE  Value(b) \in Nat
<1>1. Len(b) \in 1 .. Len(b)
  OBVIOUS
<1> QED
  BY <1>1, ValueSteps

\* What write_varint, or another writer in a longer form, makes of an integer,
\* read_varint makes the integer of again.
THEOREM ReadsBack ==
  ASSUME NEW n \in Lengths, NEW x \in Nat, x < Bound(n)
  PROVE  /\ Announced(EncodeIn(x, n)[1]) = Len(EncodeIn(x, n))
         /\ Value(EncodeIn(x, n)) = x
<1> DEFINE b == EncodeIn(x, n)
<1>1. /\ b \in Seq(Byte) /\ Len(b) = n
      /\ b[1] = Tag(n) * Low + Lead(x, n - 1)
      /\ \A i \in 2 .. n : b[i] = Lead(x, n - i) % Base
  BY EncodedBytes
<1>2. n \in Nat /\ n > 0
  BY DEF Lengths
<1> HIDE DEF b
<1>3. b # <<>>
  BY <1>1, <1>2
<1>4. PICK v \in [1 .. n -> Nat] :
        /\ v[1] = b[1] % Low
        /\ \A i \in 2 .. n : v[i] = Base * v[i - 1] + b[i]
        /\ Value(b) = v[n]
  BY <1>1, <1>3, ValueSteps
<1>5. v[1] = Lead(x, n - 1)
  <2> DEFINE m == Tag(n)
             q == Lead(x, n - 1)
  <2>1. m \in Nat /\ Low \in Nat /\ Low > 0
    BY Units DEF Tag, Lengths
  <2>2. q \in Nat /\ q < Low
    BY <1>2, Leads
  <2>3. b[1] = m * Low + q
    BY <1>1
  <2> HIDE DEF m, q
  <2>4. (m * Low + q) % Low = q % Low
    BY <2>1, <2>2, DivPlus
  <2>5. q % Low = q
    BY <2>1, <2>2
  <2> QED
    BY <1>4, <2>3, <2>4, <2>5 DEF q
<1> DEFINE S == {i \in Nat : i + 1 <= n => v[i + 1] = Lead(x, n - (i + 1))}
<1>6. 0 \in S
  BY <1>5
<1>7. ASSUME NEW i \in Nat, i \in S PROVE i + 1 \in S
  <2>1. SUFFICES ASSUME i + 2 <= n PROVE v[i + 2] = Lead(x, n - (i + 2))
    OBVIOUS
  <2> DEFINE k == n - (i + 2)
  <2>2. /\ i + 2 \in 2 .. n /\ i + 2 - 1 = i + 1 /\ i + 1 <= n
        /\ k \in 0 .. n - 2 /\ n - (i + 1) = k + 1
    BY <1>2, <2>1
  <2>3. v[i + 1] = Lead(x, k + 1)
    BY <1>7, <2>2
  <2>4. v[i + 2] = Base * v[i + 1] + b[i + 2] /\ b[i + 2] = Lead(x, k) % Base
    BY <1>1, <1>4, <2>2
  <2> HIDE DEF k
  <2>5. Lead(x, k) = Base * Lead(x, k + 1) + (Lead(x, k) % Base)
    BY <2>2, Leads
  <2> QED
    BY <2>3, <2>4, <2>5 DEF k
<1>8. \A i \in Nat : i \in S
  <2> HIDE DEF S
  <2> QED
    BY <1>6, <1>7, NatSetInduction
<1>9. v[n] = Lead(x, 0)
  <2>1. n - 1 \in Nat /\ n - 1 + 1 = n /\ n - n = 0
    BY <1>2
  <2>2. n - 1 \in S
    BY <1>8, <2>1
  <2> QED
    BY <1>2, <2>1, <2>2
<1>10. Value(b) = x
  BY <1>4, <1>9, Leads
<1> QED
  BY <1>1, <1>10, AnnouncedIs DEF b

-----------------------------------------------------------------------------
(***************************************************************************)
(* Integers within a row of bytes                                          *)
(***************************************************************************)

\* After the first p bytes of w stands x, in n bytes.
Stands(w, p, x, n) ==
  /\ n \in Lengths /\ x \in Nat /\ x < Bound(n)
  /\ p \in Nat /\ p + n <= Len(w)
  /\ \A j \in 1 .. n : w[p + j] = EncodeIn(x, n)[j]

\* An integer that stands somewhere is read there: its first byte announces as
\* many bytes as it has, and these have its value.
LEMMA StandsReads ==
  ASSUME NEW w \in Seq(Byte), NEW p, NEW x, NEW n, Stands(w, p, x, n)
  PROVE  /\ Announced(w[p + 1]) = n
         /\ Value(SubSeq(w, p + 1, p + n)) = x
<1> DEFINE e == EncodeIn(x, n)
           s == SubSeq(w, p + 1, p + n)
<1>1. /\ n \in Lengths /\ n \in Nat /\ n > 0 /\ x \in Nat /\ x < Bound(n)
      /\ p \in Nat /\ p + n <= Len(w) /\ \A j \in 1 .. n : w[p + j] = e[j]
  BY DEF Stands, Lengths
<1>2. e \in Seq(Byte) /\ Len(e) = n
  BY <1>1, EncodedBytes
<1>3. Announced(e[1]) = n /\ Value(e) = x
  BY <1>1, <1>2, ReadsBack
<1> HIDE DEF e
<1>4. Len(w) \in Nat /\ 1 \in 1 .. n
  BY <1>1
<1>5. w[p + 1] = e[1]
  BY <1>1, <1>4
<1>6. s \in Seq(Byte) /\ Len(s) = n /\ \A j \in 1 .. n : s[j] = w[p + j]
  <2> HIDE DEF Byte
  <2> QED
    BY <1>1, <1>4
<1>7. s = e
  <2> HIDE DEF s, Byte
  <2>1. s = [j \in 1 .. n |-> s[j]] /\ e = [j \in 1 .. n |-> e[j]]
    BY <1>2, <1>6
  <2>2. \A j \in 1 .. n : s[j] = e[j]
    BY <1>1, <1>6
  <2> QED
    BY ONLY <2>1, <2>2
<1> QED
  BY <1>3, <1>5, <1>7

\* What stands in a row of bytes stays there when more bytes are written.
LEMMA StandsStays ==
  ASSUME NEW w \in Seq(Byte), NEW more \in Seq(Byte),
         NEW p, NEW x, NEW n, Stands(w, p, x, n)
  PROVE  Stands(w \o more, p, x, n)
<1>1. n \in Nat /\ p \in Nat /\ p + n <= Len(w) /\ Len(w) \in Nat /\ Len(more) \in Nat
  BY DEF Stands, Lengths
<1>2. Len(w \o more) = Len(w) + Len(more) /\ \A j \in 1 .. Len(w) : (w \o more)[j] = w[j]
  OBVIOUS
<1>3. \A j \in 1 .. n : p + j \in 1 .. Len(w)
  BY <1>1
<1> QED
  BY <1>1, <1>2, <1>3 DEF Stands

\* What stands in one of the parts of a row of bytes stands in the row.
LEMMA StandsWithin ==
  ASSUME NEW w \in Seq(Byte), NEW e \in Seq(Byte), NEW p \in Nat, p + Len(e) <= Len(w),
         \A j \in 1 .. Len(e) : w[p + j] = e[j],
         NEW k \in Nat, NEW x, NEW n, Stands(e, k, x, n)
  PROVE  Stands(w, p + k, x, n)
<1>1. /\ n \in Lengths /\ n \in Nat /\ x \in Nat /\ x < Bound(n) /\ k + n <= Len(e)
      /\ \A j \in 1 .. n : e[k + j] = EncodeIn(x, n)[j]
      /\ Len(e) \in Nat /\ Len(w) \in Nat
  BY DEF Stands, Lengths
<1>2. p + k \in Nat /\ p + k + n <= Len(w)
  BY <1>1
<1>3. ASSUME NEW j \in 1 .. n PROVE w[p + k + j] = EncodeIn(x, n)[j]
  <2>1. k + j \in 1 .. Len(e) /\ p + (k + j) = p + k + j
    BY <1>1
  <2> QED
    BY <1>1, <2>1
<1> QED
  BY <1>1, <1>2, <1>3 DEF Stands

\* What is left of a row of bytes after some of it was taken.
LEMMA Remains ==
  ASSUME NEW S, NEW w \in Seq(S), NEW l \in 0 .. Len(w), NEW q \in 0 .. l,
         NEW s, s = SubSeq(w, q + 1, l)
  PROVE  /\ s \in Seq(S) /\ Len(s) = l - q
         /\ \A j \in 1 .. l - q : s[j] = w[q + j]
         /\ \A m \in 0 .. l - q :
              /\ SubSeq(s, 1, m) = SubSeq(w, q + 1, q + m)
              /\ SubSeq(s, m + 1, Len(s)) = SubSeq(w, q + m + 1, l)
<1>1. Len(w) \in Nat /\ l \in Nat /\ q \in Nat
  OBVIOUS
<1>2. s \in Seq(S) /\ Len(s) = l - q /\ \A j \in 1 .. l - q : s[j] = w[q + j]
  BY <1>1
<1>3. ASSUME NEW m \in 0 .. l - q
      PROVE  /\ SubSeq(s, 1, m) = SubSeq(w, q + 1, q + m)
             /\ SubSeq(s, m + 1, Len(s)) = SubSeq(w, q + m + 1, l)
  <2>1. SubSeq(s, 1, m) = [j \in 1 .. m |-> w[q + j]]
    <3>1. SubSeq(s, 1, m) = [j \in 1 .. m |-> s[j]]
      BY <1>1, <1>2
    <3>2. \A j \in 1 .. m : s[j] = w[q + j]
      BY <1>1, <1>2
    <3> QED
      BY <3>1, <3>2
  <2>2. SubSeq(w, q + 1, q + m) = [j \in 1 .. m |-> w[q + j]]
    BY <1>1
  <2>3. SubSeq(s, m + 1, Len(s)) = [j \in 1 .. l - q - m |-> w[q + m + j]]
    <3>1. SubSeq(s, m + 1, Len(s)) = [j \in 1 .. l - q - m |-> s[m + j]]
      <4>1. m \in 0 .. Len(s) /\ Len(s) - m = l - q - m /\ s \in Seq(S)
        BY <1>1, <1>2
      <4>2. SubSeq(s, m + 1, Len(s)) = [j \in 1 .. Len(s) - m |-> s[m + j]]
        BY ONLY <4>1
      <4> QED
        BY <4>1, <4>2
    <3>2. \A j \in 1 .. l - q - m : s[m + j] = w[q + m + j]
      BY <1>1, <1>2
    <3> QED
      BY <3>1, <3>2
  <2>4. SubSeq(w, q + m + 1, l) = [j \in 1 .. l - q - m |-> w[q + m + j]]
    BY <1>1
  <2> QED
    BY <2>1, <2>2, <2>3, <2>4
<1> QED
  BY <1>2, <1>3
\* More bytes are written behind those that remain.
LEMMA Prolonged ==
  ASSUME NEW S, NEW w \in Seq(S), NEW e \in Seq(S), NEW q \in 0 .. Len(w), NEW k \in 0 .. Len(e)
  PROVE  SubSeq(w, q + 1, Len(w)) \o SubSeq(e, 1, k) = SubSeq(w \o e, q + 1, Len(w) + k)
<1> DEFINE v == w \o e
           n == Len(w)
           a == SubSeq(w, q + 1, n)
           b == SubSeq(e, 1, k)
           c == SubSeq(v, q + 1, n + k)
<1>1. /\ n \in Nat /\ Len(e) \in Nat /\ v \in Seq(S) /\ Len(v) = n + Len(e)
      /\ \A j \in 1 .. n : v[j] = w[j]
      /\ \A j \in 1 .. Len(e) : v[n + j] = e[j]
  OBVIOUS
<1>2. n = Len(w)
  OBVIOUS
<1> HIDE DEF v, n
<1>3. q \in Nat /\ k \in Nat /\ q <= n /\ k <= Len(e)
  BY <1>1, <1>2
<1>4. a \in Seq(S) /\ Len(a) = n - q /\ \A j \in 1 .. n - q : a[j] = w[q + j]
  <2>1. n \in 0 .. Len(w) /\ q \in 0 .. n
    BY <1>1, <1>2, <1>3
  <2> QED
    BY <2>1, Remains
<1>5. b \in Seq(S) /\ Len(b) = k /\ \A j \in 1 .. k : b[j] = e[j]
  BY <1>1, <1>3
<1>6. c \in Seq(S) /\ Len(c) = n + k - q /\ \A j \in 1 .. n + k - q : c[j] = v[q + j]
  <2> DEFINE l == n + k
  <2>1. l \in 0 .. Len(v) /\ q \in 0 .. l
    BY <1>1, <1>3
  <2>2. c = SubSeq(v, q + 1, l)
    OBVIOUS
  <2> HIDE DEF c, l
  <2>3. c \in Seq(S) /\ Len(c) = l - q /\ \A j \in 1 .. l - q : c[j] = v[q + j]
    <3>1. v \in Seq(S)
      BY <1>1
    <3> QED
      BY ONLY <2>1, <2>2, <3>1, Remains
  <2> QED
    <3>1. l - q = n + k - q
      BY <1>1, <1>3 DEF l
    <3> QED
      BY ONLY <2>3, <3>1, Zenon
<1> HIDE DEF a, b, c
<1> DEFINE u == a \o b
<1>7. /\ u \in Seq(S) /\ Len(u) = n - q + k
      /\ \A j \in 1 .. n - q : u[j] = a[j]
      /\ \A j \in 1 .. k : u[n - q + j] = b[j]
  <2>1. /\ u \in Seq(S) /\ Len(u) = Len(a) + Len(b)
        /\ \A j \in 1 .. Len(a) : u[j] = a[j]
        /\ \A j \in 1 .. Len(b) : u[Len(a) + j] = b[j]
    <3>1. a \in Seq(S) /\ b \in Seq(S)
      BY <1>4, <1>5
    <3> QED
      BY ONLY <3>1
  <2> HIDE DEF u
  <2> QED
    BY <1>4, <1>5, <2>1
<1> HIDE DEF u
<1>8. ASSUME NEW j \in 1 .. n - q + k PROVE u[j] = c[j]
  <2>1. j \in 1 .. n + k - q
    BY <1>1, <1>3
  <2>2. c[j] = v[q + j]
    BY <1>6, <2>1
  <2>3. CASE j <= n - q
    <3>1. j \in 1 .. n - q /\ q + j \in 1 .. n
      BY <1>1, <1>3, <2>3
    <3> QED
      BY <1>1, <1>4, <1>7, <2>2, <3>1
  <2>4. CASE ~(j <= n - q)
    <3> DEFINE i == j - (n - q)
    <3>1. i \in 1 .. k /\ i \in 1 .. Len(e) /\ n - q + i = j /\ n + i = q + j
      BY <1>1, <1>3, <2>4
    <3> HIDE DEF i
    <3>2. u[n - q + i] = b[i] /\ b[i] = e[i] /\ v[n + i] = e[i]
      BY <1>1, <1>5, <1>7, <3>1
    <3> QED
      BY <2>2, <3>1, <3>2
  <2> QED
    BY <2>3, <2>4
<1>9. u = c
  <2>1. n - q + k = n + k - q
    BY <1>1, <1>3
  <2> QED
    BY <1>6, <1>7, <1>8, <2>1
<1> QED
  BY <1>9 DEF u, a, b, c, v, n

LEMMA OneByte ==
  ASSUME NEW S, NEW w \in Seq(S), NEW k \in 1 .. Len(w)
  PROVE  SubSeq(w, k, k) = <<w[k]>>
<1> DEFINE s == SubSeq(w, k, k)
           c == w[k]
<1>1. s \in Seq(S) /\ Len(s) = 1 /\ s[1] = c /\ c \in S
  OBVIOUS
<1> HIDE DEF s, c
<1>2. s = <<c>>
  BY <1>1
<1> QED
  BY <1>2 DEF s, c

\* The first of some bytes and the others are these bytes.
LEMMA FirstAndRest ==
  ASSUME NEW S, NEW w \in Seq(S), NEW p \in Nat, NEW n \in Nat, n > 0, p + n <= Len(w)
  PROVE  /\ SubSeq(w, p + 1, p + n) = <<w[p + 1]>> \o SubSeq(w, p + 1 + 1, p + n)
         /\ Len(SubSeq(w, p + 1, p + n)) = n
         /\ SubSeq(w, p + 1, p + n)[1] = w[p + 1]
<1> DEFINE v == SubSeq(w, p + 1, p + n)
           t == SubSeq(w, p + 1 + 1, p + n)
           first == w[p + 1]
<1>1. /\ p + n \in 0 .. Len(w) /\ p \in 0 .. p + n /\ p + n - p = n
      /\ p + 1 \in 0 .. p + n /\ p + n - (p + 1) = n - 1
      /\ p + 1 \in 1 .. Len(w)
  OBVIOUS
<1>2. v \in Seq(S) /\ Len(v) = n /\ \A j \in 1 .. n : v[j] = w[p + j]
  <2> DEFINE l == p + n
  <2>1. l \in 0 .. Len(w) /\ p \in 0 .. l /\ l - p = n
    BY <1>1
  <2>2. v = SubSeq(w, p + 1, l)
    OBVIOUS
  <2> HIDE DEF v, l
  <2>3. v \in Seq(S) /\ Len(v) = l - p /\ \A j \in 1 .. l - p : v[j] = w[p + j]
    BY <2>1, <2>2, Remains
  <2> QED
    BY <2>1, <2>3
<1>3. t \in Seq(S) /\ Len(t) = n - 1 /\ \A j \in 1 .. n - 1 : t[j] = w[p + 1 + j]
  <2> DEFINE l == p + n
             q == p + 1
  <2>1. l \in 0 .. Len(w) /\ q \in 0 .. l /\ l - q = n - 1
    BY <1>1
  <2>2. t = SubSeq(w, q + 1, l)
    OBVIOUS
  <2> HIDE DEF t, l, q
  <2>3. t \in Seq(S) /\ Len(t) = l - q /\ \A j \in 1 .. l - q : t[j] = w[q + j]
    BY <2>1, <2>2, Remains
  <2> QED
    BY <2>1, <2>3 DEF q
<1>4. first \in S /\ first = w[p + 1]
  BY <1>1
<1> HIDE DEF v, t, first
<1>5. /\ Len(<<first>> \o t) = n /\ (<<first>> \o t)[1] = first
      /\ \A j \in 2 .. n : (<<first>> \o t)[j] = t[j - 1]
      /\ <<first>> \o t \in Seq(S)
  BY <1>3, <1>4
<1>6. ASSUME NEW j \in 1 .. n PROVE (<<first>> \o t)[j] = v[j]
  <2>1. CASE j = 1
    BY <1>2, <1>4, <1>5, <2>1
  <2>2. CASE j # 1
    <3>1. j \in 2 .. n /\ j - 1 \in 1 .. n - 1 /\ p + 1 + (j - 1) = p + j
      BY <2>2
    <3> QED
      BY <1>2, <1>3, <1>5, <3>1
  <2> QED
    BY <2>1, <2>2
<1> DEFINE u == <<first>> \o t
<1>7. u \in Seq(S) /\ Len(u) = n /\ \A j \in 1 .. n : u[j] = v[j]
  BY <1>5, <1>6
<1> HIDE DEF u
<1>8. u = v
  BY <1>2, <1>7
<1>9. v[1] = first
  BY <1>2, <1>4
<1> QED
  BY <1>2, <1>4, <1>8, <1>9 DEF u, v, t, first

-----------------------------------------------------------------------------
(***************************************************************************)
(* Parts that are written one behind the other                             *)
(***************************************************************************)

\* w consists of the parts, and at[i] is where the first i of them end.
Laid(w, parts, at) ==
  /\ at \in [0 .. Len(parts) -> Nat]
  /\ at[0] = 0 /\ at[Len(parts)] = Len(w)
  /\ \A i \in 1 .. Len(parts) :
       /\ at[i] = at[i - 1] + Len(parts[i]) /\ at[i] <= Len(w)
       /\ \A j \in 1 .. Len(parts[i]) : w[at[i - 1] + j] = parts[i][j]

LEMMA LaidAppend ==
  ASSUME NEW S, NEW w \in Seq(S), NEW parts \in Seq(Seq(S)), NEW at,
         Laid(w, parts, at), NEW part \in Seq(S)
  PROVE  \E to : /\ Laid(w \o part, Append(parts, part), to)
                 /\ \A i \in 0 .. Len(parts) : to[i] = at[i]
<1> DEFINE n == Len(parts)
           v == w \o part
           new == Append(parts, part)
           to == [i \in 0 .. n + 1 |-> IF i = n + 1 THEN Len(w) + Len(part) ELSE at[i]]
<1>1. /\ n \in Nat /\ Len(w) \in Nat /\ Len(part) \in Nat
      /\ Len(v) = Len(w) + Len(part) /\ Len(new) = n + 1
      /\ \A j \in 1 .. Len(w) : v[j] = w[j]
      /\ \A j \in 1 .. Len(part) : v[Len(w) + j] = part[j]
      /\ \A i \in 1 .. n : new[i] = parts[i] /\ Len(parts[i]) \in Nat
      /\ new[n + 1] = part
  OBVIOUS
<1>2. /\ at \in [0 .. n -> Nat] /\ at[0] = 0 /\ at[n] = Len(w)
      /\ \A i \in 1 .. n :
           /\ at[i] = at[i - 1] + Len(parts[i]) /\ at[i] <= Len(w)
           /\ \A j \in 1 .. Len(parts[i]) : w[at[i - 1] + j] = parts[i][j]
  BY DEF Laid
<1>3. /\ to \in [0 .. n + 1 -> Nat]
      /\ to[n + 1] = Len(w) + Len(part) /\ \A i \in 0 .. n : to[i] = at[i]
  BY <1>1, <1>2
<1> HIDE DEF to, v, new, n
<1>4. ASSUME NEW i \in 1 .. n
      PROVE  /\ to[i] = to[i - 1] + Len(new[i]) /\ to[i] <= Len(v)
             /\ \A j \in 1 .. Len(new[i]) : v[to[i - 1] + j] = new[i][j]
  <2>1. i \in 0 .. n /\ i - 1 \in 0 .. n
    BY <1>1
  <2>2. /\ new[i] = parts[i] /\ to[i] = at[i] /\ to[i - 1] = at[i - 1]
        /\ at[i - 1] \in Nat /\ at[i] \in Nat /\ Len(parts[i]) \in Nat
    BY <1>1, <1>2, <1>3, <2>1
  <2>3. at[i] = at[i - 1] + Len(parts[i]) /\ at[i] <= Len(w)
    BY <1>2
  <2>4. ASSUME NEW j \in 1 .. Len(parts[i]) PROVE v[at[i - 1] + j] = parts[i][j]
    <3>1. Len(w) \in Nat
      BY <1>1
    <3>2. at[i - 1] + j \in 1 .. Len(w)
      BY ONLY <2>2, <2>3, <3>1, j \in 1 .. Len(parts[i])
    <3> QED
      BY <1>1, <1>2, <3>2
  <2>5. Len(w) <= Len(v)
    BY <1>1
  <2> QED
    BY <1>1, <1>2, <2>2, <2>3, <2>4, <2>5
<1>5. ASSUME NEW i, i = n + 1
      PROVE  /\ to[i] = to[i - 1] + Len(new[i]) /\ to[i] <= Len(v)
             /\ \A j \in 1 .. Len(new[i]) : v[to[i - 1] + j] = new[i][j]
  <2>1. i - 1 = n /\ n \in 0 .. n
    BY <1>1, <1>5
  <2>2. /\ to[n] = Len(w) /\ to[i] = Len(w) + Len(part) /\ new[i] = part
        /\ Len(v) = Len(w) + Len(part) /\ Len(w) \in Nat /\ Len(part) \in Nat
    BY <1>1, <1>2, <1>3, <1>5, <2>1
  <2>3. \A j \in 1 .. Len(part) : v[to[n] + j] = new[i][j]
    BY <1>1, <2>2
  <2>4. /\ to[i] = to[n] + Len(new[i]) /\ to[i] <= Len(v)
        /\ \A j \in 1 .. Len(new[i]) : v[to[n] + j] = new[i][j]
    BY ONLY <2>2, <2>3
  <2> QED
    BY ONLY <2>1, <2>4, Zenon
<1>6. to[0] = 0 /\ to[Len(new)] = Len(v)
  BY <1>1, <1>2, <1>3
<1>7. Len(new) = n + 1 /\ \A i \in 1 .. n + 1 : i \in 1 .. n \/ i = n + 1
  BY <1>1
<1>8. Laid(v, new, to)
  <2>1. ASSUME NEW i \in 1 .. n + 1
        PROVE  /\ to[i] = to[i - 1] + Len(new[i]) /\ to[i] <= Len(v)
               /\ \A j \in 1 .. Len(new[i]) : v[to[i - 1] + j] = new[i][j]
    <3>1. CASE i \in 1 .. n
      BY ONLY <1>4, <3>1
    <3>2. CASE i = n + 1
      BY ONLY <1>5, <3>2
    <3> QED
      BY ONLY <1>7, <3>1, <3>2, i \in 1 .. n + 1
  <2>2. to \in [0 .. n + 1 -> Nat]
    BY <1>3
  <2> QED
    BY ONLY <1>6, <1>7, <2>1, <2>2 DEF Laid
<1> QED
  BY <1>3, <1>8 DEF v, new, n

\* FlattenSeq lays its parts one behind the other.
LEMMA FlattenLaid ==
  ASSUME NEW S, NEW ss \in Seq(Seq(S))
  PROVE  FlattenSeq(ss) \in Seq(S) /\ \E at : Laid(FlattenSeq(ss), ss, at)
<1> DEFINE N == Len(ss)
           F(f) == [i \in 1 .. N |-> IF i = 1 THEN ss[i] ELSE f[i - 1] \o ss[i]]
           C == CHOOSE f : f = F(f)
<1>1. N \in Nat /\ ss = [i \in 1 .. N |-> ss[i]] /\ \A i \in 1 .. N : ss[i] \in Seq(S)
  OBVIOUS
<1>2. CASE N = 0
  <2>1. ss = <<>> /\ FlattenSeq(ss) = <<>>
    BY <1>2 DEF FlattenSeq
  <2>2. Laid(<<>>, <<>>, [i \in 0 .. 0 |-> 0])
    BY DEF Laid
  <2> QED
    BY <2>1, <2>2
<1>3. CASE N > 0
  <2>1. FlattenSeq(ss) = C[N]
    BY <1>1, <1>3 DEF FlattenSeq
  <2> HIDE DEF N
  <2>2. \E f : f = F(f)
    <3> DEFINE next(i, y) == IF i + 2 <= N THEN y \o ss[i + 2] ELSE y
               step == [p \in Nat \X Seq(S) |-> next(p[1], p[2])]
    <3>1. ASSUME NEW i \in Nat, NEW y \in Seq(S) PROVE next(i, y) \in Seq(S)
      <4>1. CASE i + 2 <= N
        <5>1. ss[i + 2] \in Seq(S)
          BY <1>1, <4>1
        <5> QED
          BY <5>1
      <4>2. CASE ~(i + 2 <= N)
        BY <4>2
      <4> QED
        BY <4>1, <4>2
    <3>2. ss[1] \in Seq(S)
      BY <1>1, <1>3
    <3>3. \A i \in Nat : i + 2 <= N => \A y \in Seq(S) : next(i, y) = y \o ss[i + 2]
      OBVIOUS
    <3> HIDE DEF next
    <3>4. step \in [Nat \X Seq(S) -> Seq(S)] /\ \A i \in Nat, y \in Seq(S) : step[<<i, y>>] = next(i, y)
      BY <3>1
    <3> HIDE DEF step
    <3>5. PICK f \in [Nat -> Seq(S)] : Iterates(f, ss[1], step)
      BY <3>2, <3>4, Recursion
    <3> DEFINE g == [i \in 1 .. N |-> f[i - 1]]
    <3>6. ASSUME NEW i \in 1 .. N
          PROVE  g[i] = IF i = 1 THEN ss[i] ELSE g[i - 1] \o ss[i]
      <4>1. CASE i = 1
        BY <3>5, <4>1 DEF Iterates
      <4>2. CASE i # 1
        <5>1. /\ i - 2 \in Nat /\ i - 2 + 1 = i - 1 /\ i - 2 + 2 = i /\ i - 2 + 2 <= N
              /\ i - 1 \in 1 .. N /\ i - 1 - 1 = i - 2
          <6>1. N \in Nat
            BY <1>1
          <6> QED
            BY ONLY <4>2, <6>1, i \in 1 .. N
        <5>2. f[i - 2 + 1] = step[<<i - 2, f[i - 2]>>] /\ f[i - 2] \in Seq(S)
          BY <3>5, <5>1 DEF Iterates
        <5>3. step[<<i - 2, f[i - 2]>>] = f[i - 2] \o ss[i - 2 + 2]
          BY <3>3, <3>4, <5>1, <5>2
        <5>4. g[i] = f[i - 1] /\ g[i - 1] = f[i - 2]
          BY <5>1
        <5> QED
          BY <4>2, <5>1, <5>2, <5>3, <5>4
      <4> QED
        BY <4>1, <4>2
    <3>7. g = F(g)
      BY <3>6
    <3> HIDE DEF g, F
    <3> QED
      BY <3>7
  <2>3. C = F(C)
    <3> HIDE DEF F
    <3> QED
      BY <2>2
  <2> HIDE DEF C
  <2>4. \A i \in 1 .. N : C[i] = IF i = 1 THEN ss[i] ELSE C[i - 1] \o ss[i]
    BY <2>3
  <2> HIDE DEF F
  <2> DEFINE Part(i) == SubSeq(ss, 1, i)
             Flat(i, w) == w \in Seq(S) /\ (i > 0 => w = C[i])
             Q == {i \in Nat : i <= N =>
                     \E w, at : Flat(i, w) /\ Laid(w, Part(i), at)}
  <2>5. /\ Part(0) = <<>> /\ Part(N) = ss
        /\ \A i \in Nat : i + 1 <= N =>
             /\ Part(i) \in Seq(Seq(S)) /\ ss[i + 1] \in Seq(S)
             /\ Part(i + 1) = Append(Part(i), ss[i + 1])
    BY <1>1 DEF N
  <2> HIDE DEF Part
  <2>6. 0 \in Q
    <3>1. Laid(<<>>, <<>>, [i \in 0 .. 0 |-> 0])
      BY DEF Laid
    <3>2. Flat(0, <<>>)
      OBVIOUS
    <3> QED
      BY <2>5, <3>1, <3>2
  <2>7. ASSUME NEW i \in Nat, i \in Q PROVE i + 1 \in Q
    <3>1. SUFFICES ASSUME i + 1 <= N
                   PROVE  \E w, at : Flat(i + 1, w) /\ Laid(w, Part(i + 1), at)
      OBVIOUS
    <3>2. PICK w, at : Flat(i, w) /\ Laid(w, Part(i), at)
      BY <1>1, <2>7, <3>1
    <3> DEFINE v == w \o ss[i + 1]
    <3>3. ss[i + 1] \in Seq(S) /\ w \in Seq(S) /\ v \in Seq(S)
      BY <2>5, <3>1, <3>2
    <3>4. \E to : Laid(v, Part(i + 1), to)
      <4>1. Part(i) \in Seq(Seq(S)) /\ Part(i + 1) = Append(Part(i), ss[i + 1])
        BY <2>5, <3>1
      <4>2. \E to : Laid(v, Append(Part(i), ss[i + 1]), to)
        <5> DEFINE p == Part(i)
                   s == ss[i + 1]
        <5>1. p \in Seq(Seq(S)) /\ s \in Seq(S) /\ w \in Seq(S) /\ Laid(w, p, at)
          BY <3>2, <3>3, <4>1
        <5> HIDE DEF p, s, Flat
        <5>2. \E to : Laid(w \o s, Append(p, s), to)
          BY ONLY <5>1, LaidAppend
        <5> QED
          BY <5>2 DEF p, s
      <4> QED
        BY ONLY <4>1, <4>2
    <3>5. v = C[i + 1]
      <4>1. i + 1 \in 1 .. N /\ i + 1 - 1 = i
        BY <1>1, <3>1
      <4>2. CASE i = 0
        <5>1. C[i + 1] = ss[i + 1]
          BY <2>4, <4>1, <4>2
        <5>2. w = <<>>
          BY <3>2, <4>2, <2>5 DEF Laid
        <5> QED
          BY <3>3, <5>1, <5>2
      <4>3. CASE i # 0
        <5>1. i + 1 # 1 /\ i > 0
          BY <4>3
        <5>2. w = C[i]
          BY <3>2, <5>1
        <5>3. C[i + 1] = C[i] \o ss[i + 1]
          <6>1. C[i + 1] = IF i + 1 = 1 THEN ss[i + 1] ELSE C[i + 1 - 1] \o ss[i + 1]
            BY <2>4, <4>1
          <6> QED
            BY ONLY <4>1, <5>1, <6>1
        <5> QED
          BY ONLY <5>2, <5>3
      <4> QED
        BY <4>2, <4>3
    <3>6. Flat(i + 1, v)
      BY <3>3, <3>5
    <3> HIDE DEF v, Flat
    <3> QED
      BY <3>4, <3>6
  <2>8. N \in Q
    <3>1. \A i \in Nat : i \in Q
      <4> HIDE DEF Q
      <4> QED
        BY <2>6, <2>7, NatSetInduction
    <3> QED
      BY <1>1, <3>1
  <2>9. \E w, at : Flat(N, w) /\ Laid(w, ss, at)
    <3>1. N <= N
      BY <1>1
    <3>2. \E w, at : Flat(N, w) /\ Laid(w, Part(N), at)
      <4> HIDE DEF Flat
      <4> QED
        BY <2>8, <3>1
    <3> QED
      BY <2>5, <3>2
  <2> QED
    BY <1>3, <2>1, <2>9
<1> QED
  BY <1>1, <1>2, <1>3
=============================================================================
