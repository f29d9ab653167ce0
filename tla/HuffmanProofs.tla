--------------------------- MODULE HuffmanProofs ----------------------------
(***************************************************************************)
(* Proofs about Huffman for every tree of tables: what an encoder makes of *)
(* a string decodes to that string, and what is left of it when bytes are  *)
(* missing at the end decodes to a prefix or not at all.                   *)
(*                                                                         *)
(* A payload is bits packed into bytes, and a window is the number that    *)
(* its bits make.  The walk through the tables is followed over a code, over *)
(* a sequence of codes and over the ones that fill up the last byte.       *)
(***************************************************************************)
EXTENDS Huffman, TLAPS

\* Lemmas about induction, division and sequences.
V == INSTANCE VarIntProofs WITH Bits <- 8

\* Payloads and strings are of these.
Byte  == 0 .. 255
Bytes == Seq(Byte)

\* The bytes of a sequence of them, and its first one.
LEMMA ByteAt ==
  ASSUME NEW d \in Bytes
  PROVE  /\ Len(d) \in Nat
         /\ \A i \in 1 .. Len(d) : d[i] \in Byte /\ d[i] \in Nat /\ d[i] < 256
         /\ d # <<>> => /\ Len(d) >= 1 /\ 1 \in 1 .. Len(d)
                       /\ d[1] \in Byte /\ d[1] \in Nat /\ d[1] < 256
<1>1. /\ Len(d) \in Nat
      /\ \A i \in 1 .. Len(d) : d[i] \in Byte
      /\ d # <<>> => Len(d) >= 1
  BY DEF Bytes
<1>2. \A b \in Byte : b \in Nat /\ b < 256
  BY DEF Byte
<1> QED
  BY <1>1, <1>2

\* Powers of two up to those of two bytes.
LEMMA TwoTo ==
  /\ \A k \in 0 .. 16 : 2 ^ k \in Nat /\ 2 ^ k > 0
  /\ \A k \in 0 .. 15 : 2 ^ (k + 1) = 2 * 2 ^ k
<1>1. /\ 2 ^ 0 = 1 /\ 2 ^ 1 = 2 /\ 2 ^ 2 = 4 /\ 2 ^ 3 = 8 /\ 2 ^ 4 = 16 /\ 2 ^ 5 = 32
      /\ 2 ^ 6 = 64 /\ 2 ^ 7 = 128 /\ 2 ^ 8 = 256 /\ 2 ^ 9 = 512 /\ 2 ^ 10 = 1024
      /\ 2 ^ 11 = 2048 /\ 2 ^ 12 = 4096 /\ 2 ^ 13 = 8192 /\ 2 ^ 14 = 16384
      /\ 2 ^ 15 = 32768 /\ 2 ^ 16 = 65536
  OBVIOUS
<1> DEFINE P(k) == 2 ^ k
<1>2. /\ P(0) = 1 /\ P(1) = 2 /\ P(2) = 4 /\ P(3) = 8 /\ P(4) = 16 /\ P(5) = 32
      /\ P(6) = 64 /\ P(7) = 128 /\ P(8) = 256 /\ P(9) = 512 /\ P(10) = 1024
      /\ P(11) = 2048 /\ P(12) = 4096 /\ P(13) = 8192 /\ P(14) = 16384
      /\ P(15) = 32768 /\ P(16) = 65536
  BY <1>1
<1> HIDE DEF P
<1>3. \A k \in 0 .. 16 :
        \/ k = 0 \/ k = 1 \/ k = 2 \/ k = 3 \/ k = 4 \/ k = 5 \/ k = 6 \/ k = 7 \/ k = 8
        \/ k = 9 \/ k = 10 \/ k = 11 \/ k = 12 \/ k = 13 \/ k = 14 \/ k = 15 \/ k = 16
  OBVIOUS
<1>4. ASSUME NEW k \in 0 .. 16 PROVE P(k) \in Nat /\ P(k) > 0
  BY <1>2, <1>3
<1>5. ASSUME NEW k \in 0 .. 15 PROVE P(k + 1) = 2 * P(k)
  <2>1. k \in 0 .. 16
    OBVIOUS
  <2> QED
    BY <1>2, <1>3, <2>1
<1> QED
  BY <1>4, <1>5 DEF P

\* What the lemmas of VarIntProofs assume of the width of a byte.
LEMMA Eight == 8 \in Nat /\ 8 >= 2
OBVIOUS

-----------------------------------------------------------------------------
(* Numbers of bits                                                         *)

\* The bits of a payload, and of what comes behind it.
Bit  == {0, 1}
Bits == [Nat -> Bit]

\* The numbers that the bits of f behind the first k make.
Number(f, k) == CHOOSE v : v = [n \in 0 .. 16 |-> IF n = 0 THEN 0 ELSE 2 * v[n - 1] + f[k + n]]

\* The numbers of more and more bits, one after the other.
LEMMA NumberIs ==
  ASSUME NEW f \in Bits, NEW k \in Nat
  PROVE  /\ Number(f, k)[0] = 0
         /\ \A n \in 0 .. 15 : Number(f, k)[n + 1] = 2 * Number(f, k)[n] + f[k + n + 1]
         /\ \A n \in 0 .. 16 : Number(f, k)[n] \in Nat /\ Number(f, k)[n] < 2 ^ n
<1> DEFINE F(v) == [n \in 0 .. 16 |-> IF n = 0 THEN 0 ELSE 2 * v[n - 1] + f[k + n]]
           N == Number(f, k)
           step == [p \in Nat \X Nat |-> 2 * p[2] + f[k + p[1] + 1]]
<1>1. \A n \in Nat : f[n] \in Nat /\ f[n] <= 1
  BY DEF Bits, Bit
<1>2. PICK u \in [Nat -> Nat] : V!Iterates(u, 0, step)
  <2>1. ASSUME NEW p \in Nat \X Nat PROVE 2 * p[2] + f[k + p[1] + 1] \in Nat
    <3>1. k + p[1] + 1 \in Nat /\ p[2] \in Nat
      OBVIOUS
    <3>2. f[k + p[1] + 1] \in Nat
      BY <1>1, <3>1
    <3> QED
      BY <3>1, <3>2
  <2>2. step \in [Nat \X Nat -> Nat] /\ 0 \in Nat
    BY <2>1
  <2> HIDE DEF step, F, N
  <2> QED
    BY <2>2, Eight, V!Recursion, Zenon
<1>3. u[0] = 0 /\ \A n \in Nat : u[n + 1] = 2 * u[n] + f[k + n + 1]
  BY <1>2 DEF V!Iterates
<1> HIDE DEF step
<1> DEFINE g == [n \in 0 .. 16 |-> u[n]]
<1>4. ASSUME NEW n \in 0 .. 16, n # 0 PROVE g[n] = 2 * g[n - 1] + f[k + n]
  <2>1. PICK i \in Nat : n = i + 1 /\ i \in 0 .. 16 /\ n - 1 = i /\ k + i + 1 = k + n
    <3>1. n - 1 \in Nat /\ n = n - 1 + 1 /\ n - 1 \in 0 .. 16 /\ k + (n - 1) + 1 = k + n
      BY <1>4
    <3> QED
      BY <3>1
  <2>2. u[n] = 2 * u[i] + f[k + n]
    BY <1>3, <2>1
  <2> QED
    BY <2>1, <2>2
<1>5. g = F(g)
  BY <1>3, <1>4
<1> HIDE DEF g
<1>6. N = F(N)
  <2>1. N = CHOOSE v : v = F(v)
    BY DEF Number
  <2> HIDE DEF N, F
  <2> QED
    BY <1>5, <2>1
<1> HIDE DEF N
<1>7. N[0] = 0
  BY <1>6
<1>8. \A n \in 0 .. 16 : n # 0 => N[n] = 2 * N[n - 1] + f[k + n]
  BY <1>6
<1> HIDE DEF F
<1>9. ASSUME NEW n \in 0 .. 15 PROVE N[n + 1] = 2 * N[n] + f[k + n + 1]
  <2>1. PICK m \in 0 .. 16 : m = n + 1 /\ m # 0 /\ m - 1 = n /\ k + m = k + n + 1
    OBVIOUS
  <2>2. N[m] = 2 * N[m - 1] + f[k + m]
    BY <1>8, <2>1
  <2> QED
    BY <2>1, <2>2, Zenon
<1> DEFINE S == {n \in Nat : n <= 16 => N[n] \in Nat /\ N[n] < 2 ^ n}
<1>10. 0 \in S
  BY <1>7
<1>11. ASSUME NEW n \in Nat, n \in S PROVE n + 1 \in S
  <2>1. SUFFICES ASSUME n + 1 <= 16 PROVE N[n + 1] \in Nat /\ N[n + 1] < 2 ^ (n + 1)
    OBVIOUS
  <2>2. n \in 0 .. 15 /\ n \in 0 .. 16 /\ k + n + 1 \in Nat
    BY <2>1
  <2> DEFINE a == 2 ^ n
             b == 2 ^ (n + 1)
             x == N[n]
             y == N[n + 1]
             z == f[k + n + 1]
  <2>3. b = 2 * a /\ a \in Nat
    BY <2>2, TwoTo
  <2>4. y = 2 * x + z
    BY <1>9, <2>2
  <2>5. x \in Nat /\ x < a
    BY <1>11, <2>2
  <2>6. z \in Nat /\ z <= 1
    BY <1>1, <2>2
  <2> HIDE DEF a, b, x, y, z
  <2>7. y \in Nat /\ y < b
    BY ONLY <2>3, <2>4, <2>5, <2>6
  <2> QED
    BY <2>7 DEF b, y
<1>12. \A n \in Nat : n \in S
  <2> HIDE DEF S
  <2> QED
    BY <1>10, <1>11, V!NatSetInduction
<1>13. \A n \in 0 .. 16 : N[n] \in Nat /\ N[n] < 2 ^ n
  BY <1>12
<1> QED
  BY <1>7, <1>9, <1>13 DEF N

\* The power of a sum.
LEMMA TwoToSum ==
  ASSUME NEW a \in Nat, NEW b \in Nat, a + b <= 16
  PROVE  2 ^ (a + b) = 2 ^ a * 2 ^ b
<1> DEFINE S == {n \in Nat : a + n <= 16 => 2 ^ (a + n) = 2 ^ a * 2 ^ n}
<1>1. 0 \in S
  <2>1. a \in 0 .. 16 /\ a + 0 = a /\ 2 ^ 0 = 1
    OBVIOUS
  <2>2. 2 ^ a \in Nat
    BY <2>1, TwoTo
  <2> QED
    BY <2>1, <2>2
<1>2. ASSUME NEW n \in Nat, n \in S PROVE n + 1 \in S
  <2>1. SUFFICES ASSUME a + (n + 1) <= 16 PROVE 2 ^ (a + (n + 1)) = 2 ^ a * 2 ^ (n + 1)
    OBVIOUS
  <2>2. a + n \in 0 .. 15 /\ n \in 0 .. 15 /\ a \in 0 .. 16 /\ n \in 0 .. 16 /\ a + (n + 1) = a + n + 1
    BY <2>1
  <2>3. 2 ^ (a + n + 1) = 2 * 2 ^ (a + n) /\ 2 ^ (n + 1) = 2 * 2 ^ n /\ 2 ^ a \in Nat /\ 2 ^ n \in Nat
    BY <2>2, TwoTo
  <2> DEFINE x == 2 ^ (a + n)
             y == 2 ^ a
             z == 2 ^ n
  <2>4. x = y * z
    BY <1>2, <2>2
  <2>5. 2 * x = y * (2 * z)
    <3>1. y \in Nat /\ z \in Nat
      BY <2>3
    <3> HIDE DEF x, y, z
    <3> QED
      BY <2>4, <3>1
  <2> QED
    BY <2>2, <2>3, <2>5
<1>3. \A n \in Nat : n \in S
  <2> HIDE DEF S
  <2> QED
    BY <1>1, <1>2, V!NatSetInduction
<1> QED
  BY <1>3

\* a bits are followed by b others.
SplitAt(f, k, a, b) ==
  Number(f, k)[a + b] = Number(f, k)[a] * 2 ^ b + Number(f, k + a)[b]

\* A number of some bits followed by others.
LEMMA NumberSplits ==
  ASSUME NEW f \in Bits, NEW k \in Nat, NEW a \in Nat, NEW b \in Nat, a + b <= 16
  PROVE  SplitAt(f, k, a, b)
<1> DEFINE N == Number(f, k)
           M == Number(f, k + a)
           S == {n \in Nat : a + n <= 16 => N[a + n] = N[a] * 2 ^ n + M[n]}
<1>1. k + a \in Nat /\ a \in 0 .. 16
  OBVIOUS
<1>2. /\ \A n \in 0 .. 15 : N[n + 1] = 2 * N[n] + f[k + n + 1]
      /\ \A n \in 0 .. 16 : N[n] \in Nat
      /\ M[0] = 0
      /\ \A n \in 0 .. 15 : M[n + 1] = 2 * M[n] + f[k + a + n + 1]
      /\ \A n \in 0 .. 16 : M[n] \in Nat
  BY <1>1, NumberIs
<1>3. \A n \in Nat : f[n] \in Nat
  BY DEF Bits, Bit
<1> HIDE DEF N, M
<1>4. 0 \in S
  <2>1. a + 0 = a /\ 2 ^ 0 = 1
    OBVIOUS
  <2> QED
    BY <1>1, <1>2, <2>1
<1>5. ASSUME NEW n \in Nat, n \in S PROVE n + 1 \in S
  <2>1. SUFFICES ASSUME a + (n + 1) <= 16 PROVE N[a + (n + 1)] = N[a] * 2 ^ (n + 1) + M[n + 1]
    OBVIOUS
  <2>2. /\ a + n \in 0 .. 15 /\ n \in 0 .. 15 /\ n \in 0 .. 16 /\ a + (n + 1) = a + n + 1
        /\ k + (a + n) + 1 = k + a + n + 1 /\ k + a + n + 1 \in Nat
    BY <2>1
  <2>3. 2 ^ (n + 1) = 2 * 2 ^ n /\ 2 ^ n \in Nat
    BY <2>2, TwoTo
  <2>4. N[a + n + 1] = 2 * N[a + n] + f[k + (a + n) + 1]
    BY <1>2, <2>2
  <2>5. M[n + 1] = 2 * M[n] + f[k + a + n + 1]
    BY <1>2, <2>2
  <2>6. N[a + n] = N[a] * 2 ^ n + M[n]
    BY <1>5, <2>2
  <2> DEFINE x == N[a]
             p == 2 ^ n
             y == M[n]
             z == f[k + a + n + 1]
  <2>7. x \in Nat /\ p \in Nat /\ y \in Nat /\ z \in Nat
    BY <1>1, <1>2, <1>3, <2>2, <2>3
  <2>8. N[a + (n + 1)] = 2 * (x * p + y) + z /\ M[n + 1] = 2 * y + z /\ 2 ^ (n + 1) = 2 * p
    BY <2>2, <2>3, <2>4, <2>5, <2>6
  <2> HIDE DEF x, p, y, z
  <2>9. 2 * (x * p + y) + z = x * (2 * p) + (2 * y + z)
    BY <2>7
  <2> QED
    BY <2>8, <2>9 DEF x
<1>6. \A n \in Nat : n \in S
  <2> HIDE DEF S
  <2> QED
    BY <1>4, <1>5, V!NatSetInduction
<1> QED
  BY <1>6 DEF N, M, SplitAt

\* The same bits make the same number.
LEMMA NumberAgrees ==
  ASSUME NEW f \in Bits, NEW g \in Bits, NEW k \in Nat, NEW n \in 0 .. 16,
         \A i \in 1 .. n : f[k + i] = g[k + i]
  PROVE  Number(f, k)[n] = Number(g, k)[n]
<1> DEFINE N == Number(f, k)
           M == Number(g, k)
           S == {i \in Nat : i <= n => N[i] = M[i]}
<1>1. /\ N[0] = 0 /\ \A i \in 0 .. 15 : N[i + 1] = 2 * N[i] + f[k + i + 1]
      /\ M[0] = 0 /\ \A i \in 0 .. 15 : M[i + 1] = 2 * M[i] + g[k + i + 1]
  BY NumberIs
<1> HIDE DEF N, M
<1>2. 0 \in S
  BY <1>1
<1>3. ASSUME NEW i \in Nat, i \in S PROVE i + 1 \in S
  <2>1. SUFFICES ASSUME i + 1 <= n PROVE N[i + 1] = M[i + 1]
    OBVIOUS
  <2>2. i \in 0 .. 15 /\ i <= n /\ i + 1 \in 1 .. n /\ k + (i + 1) = k + i + 1
    BY <2>1
  <2>3. f[k + i + 1] = g[k + i + 1] /\ N[i] = M[i]
    BY <1>3, <2>2
  <2> QED
    BY <1>1, <2>2, <2>3
<1>4. \A i \in Nat : i \in S
  <2> HIDE DEF S
  <2> QED
    BY <1>2, <1>3, V!NatSetInduction
<1> QED
  BY <1>4 DEF N, M

\* The number that the bits of a number make is the number.
LEMMA NumberOfBits ==
  ASSUME NEW f \in Bits, NEW k \in Nat, NEW n \in 1 .. 8, NEW w \in Nat, w < 2 ^ n,
         \A i \in 1 .. n : f[k + i] = BitsOf(w, n)[i]
  PROVE  Number(f, k)[n] = w
<1> DEFINE N == Number(f, k)
           S == {i \in Nat : i <= n => N[i] = w \div 2 ^ (n - i)}
<1>1. N[0] = 0 /\ \A i \in 0 .. 15 : N[i + 1] = 2 * N[i] + f[k + i + 1]
  BY NumberIs
<1> HIDE DEF N
<1>2. 0 \in S
  <2>1. n - 0 = n /\ n \in 0 .. 16
    OBVIOUS
  <2>2. 2 ^ n \in Nat /\ 2 ^ n > 0
    BY <2>1, TwoTo
  <2> DEFINE p == 2 ^ n
  <2>3. w \div p = 0
    <3>1. p \in Nat /\ p > 0 /\ w < p
      BY <2>2
    <3> HIDE DEF p
    <3> QED
      BY <3>1
  <2> QED
    BY <1>1, <2>1, <2>3
<1>3. ASSUME NEW i \in Nat, i \in S PROVE i + 1 \in S
  <2>1. SUFFICES ASSUME i + 1 <= n PROVE N[i + 1] = w \div 2 ^ (n - (i + 1))
    OBVIOUS
  <2> DEFINE j == n - (i + 1)
             p == 2 ^ j
             q == w \div p
  <2>2. /\ i \in 0 .. 15 /\ i <= n /\ i + 1 \in 1 .. n /\ k + (i + 1) = k + i + 1
        /\ j \in 0 .. 15 /\ j \in 0 .. 16 /\ n - i = j + 1
    BY <2>1
  <2> HIDE DEF j
  <2>3. 2 ^ (j + 1) = 2 * p /\ p \in Nat /\ p > 0
    BY <2>2, TwoTo
  <2>4. f[k + i + 1] = q % 2
    <3>1. f[k + (i + 1)] = BitsOf(w, n)[i + 1]
      BY <2>2
    <3>2. BitsOf(w, n)[i + 1] = (w \div 2 ^ (n - (i + 1))) % 2
      BY <2>2 DEF BitsOf
    <3> QED
      BY <2>2, <3>1, <3>2 DEF j
  <2>5. N[i] = w \div (p * 2)
    <3>1. N[i] = w \div 2 ^ (n - i)
      BY <1>3, <2>2
    <3>2. 2 ^ (n - i) = 2 ^ (j + 1)
      BY <2>2
    <3>3. 2 * p = p * 2
      BY <2>3
    <3> QED
      BY <2>3, <3>1, <3>2, <3>3, Zenon
  <2> HIDE DEF p
  <2>6. (w \div p) \div 2 = w \div (p * 2)
    <3>1. 2 \in Nat /\ 2 > 0
      OBVIOUS
    <3> QED
      BY ONLY <2>3, <3>1, Eight, V!DivDiv, w \in Nat
  <2>7. q \in Nat
    BY <2>3, V!DivMod
  <2> HIDE DEF q
  <2>8. q = 2 * (q \div 2) + (q % 2)
    BY <2>7
  <2>9. N[i] = q \div 2
    BY <2>5, <2>6 DEF q
  <2>10. N[i + 1] = q
    BY <1>1, <2>2, <2>4, <2>8, <2>9
  <2> QED
    BY <2>10 DEF q, p, j
<1>4. \A i \in Nat : i \in S
  <2> HIDE DEF S
  <2> QED
    BY <1>2, <1>3, V!NatSetInduction
<1>5. n \in Nat /\ n - n = 0 /\ 2 ^ 0 = 1 /\ w \div 1 = w
  OBVIOUS
<1>6. N[n] = w \div 2 ^ (n - n)
  <2>1. n \in S
    BY <1>4, <1>5, Zenon
  <2>2. n <= n
    OBVIOUS
  <2> QED
    BY <2>1, <2>2, Zenon
<1> QED
  BY <1>5, <1>6 DEF N

\* p are the bytes that the bits of f make.
Packs(p, f) == \A b \in 1 .. Len(p) : p[b] = Octet(f, 8 * (b - 1))

\* A byte is the number of its eight bits.
LEMMA OctetIs ==
  ASSUME NEW f \in Bits, NEW k \in Nat
  PROVE  Octet(f, k) = Number(f, k)[8] /\ Octet(f, k) \in Byte
<1> DEFINE N == Number(f, k)
<1>1. N[0] = 0 /\ \A n \in 0 .. 15 : N[n + 1] = 2 * N[n] + f[k + n + 1]
  BY NumberIs
<1>2. N[8] \in Nat /\ N[8] < 256
  <2>1. PICK n \in 0 .. 16 : n = 8
    OBVIOUS
  <2>2. N[n] \in Nat /\ N[n] < 2 ^ n
    BY NumberIs
  <2>3. 2 ^ 8 = 256
    OBVIOUS
  <2> QED
    BY <2>1, <2>2, <2>3, Zenon
<1> HIDE DEF N
<1>3. /\ N[0 + 1] = 2 * N[0] + f[k + 0 + 1] /\ N[1 + 1] = 2 * N[1] + f[k + 1 + 1]
      /\ N[2 + 1] = 2 * N[2] + f[k + 2 + 1] /\ N[3 + 1] = 2 * N[3] + f[k + 3 + 1]
      /\ N[4 + 1] = 2 * N[4] + f[k + 4 + 1] /\ N[5 + 1] = 2 * N[5] + f[k + 5 + 1]
      /\ N[6 + 1] = 2 * N[6] + f[k + 6 + 1] /\ N[7 + 1] = 2 * N[7] + f[k + 7 + 1]
  BY ONLY <1>1
<1>4. /\ k + 0 + 1 = k + 1 /\ k + 1 + 1 = k + 2 /\ k + 2 + 1 = k + 3 /\ k + 3 + 1 = k + 4
      /\ k + 4 + 1 = k + 5 /\ k + 5 + 1 = k + 6 /\ k + 6 + 1 = k + 7 /\ k + 7 + 1 = k + 8
  OBVIOUS
<1>5. /\ N[1] = 2 * N[0] + f[k + 1] /\ N[2] = 2 * N[1] + f[k + 2]
      /\ N[3] = 2 * N[2] + f[k + 3] /\ N[4] = 2 * N[3] + f[k + 4]
      /\ N[5] = 2 * N[4] + f[k + 5] /\ N[6] = 2 * N[5] + f[k + 6]
      /\ N[7] = 2 * N[6] + f[k + 7] /\ N[8] = 2 * N[7] + f[k + 8]
  BY ONLY <1>3, <1>4
<1>6. \A n \in Nat : f[n] \in Nat
  BY DEF Bits, Bit
<1>7. /\ f[k + 1] \in Nat /\ f[k + 2] \in Nat /\ f[k + 3] \in Nat /\ f[k + 4] \in Nat
      /\ f[k + 5] \in Nat /\ f[k + 6] \in Nat /\ f[k + 7] \in Nat /\ f[k + 8] \in Nat
  BY <1>6
<1>8. Octet(f, k) = N[8]
  <2> DEFINE x1 == f[k + 1]
             x2 == f[k + 2]
             x3 == f[k + 3]
             x4 == f[k + 4]
             x5 == f[k + 5]
             x6 == f[k + 6]
             x7 == f[k + 7]
             x8 == f[k + 8]
  <2>1. Octet(f, k) = 128 * x1 + 64 * x2 + 32 * x3 + 16 * x4 + 8 * x5 + 4 * x6 + 2 * x7 + x8
    BY DEF Octet
  <2>2. /\ N[0] = 0 /\ N[1] = 2 * N[0] + x1 /\ N[2] = 2 * N[1] + x2
        /\ N[3] = 2 * N[2] + x3 /\ N[4] = 2 * N[3] + x4 /\ N[5] = 2 * N[4] + x5
        /\ N[6] = 2 * N[5] + x6 /\ N[7] = 2 * N[6] + x7 /\ N[8] = 2 * N[7] + x8
        /\ x1 \in Nat /\ x2 \in Nat /\ x3 \in Nat /\ x4 \in Nat
        /\ x5 \in Nat /\ x6 \in Nat /\ x7 \in Nat /\ x8 \in Nat
    BY <1>1, <1>5, <1>7
  <2> HIDE DEF x1, x2, x3, x4, x5, x6, x7, x8
  <2> QED
    BY ONLY <2>1, <2>2
<1>9. N[8] \in Byte
  BY <1>2 DEF Byte
<1> QED
  BY <1>8, <1>9 DEF N

\* A window is the number that its bits make.
LEMMA WindowIs ==
  ASSUME NEW p \in Bytes, NEW f \in Bits, Packs(p, f), NEW at \in Nat, NEW s \in 1 .. 8,
         at + s <= 8 * Len(p)
  PROVE  Window(p, at, s) = Number(f, at)[s]
<1> DEFINE L == Len(p)
           b == at \div 8 + 1
           k == 8 * (b - 1)
           o == at % 8
           g == [i \in Nat |-> IF i <= 8 * L THEN f[i] ELSE 0]
           next == IF b < L THEN p[b + 1] ELSE 0
           m == 16 - o - s
<1>1. L \in Nat /\ \A i \in 1 .. L : p[i] \in Nat
  BY ByteAt
<1>2. /\ b \in 1 .. L /\ o \in 0 .. 7 /\ k \in Nat /\ at = k + o /\ k + 8 <= 8 * L
      /\ m \in Nat /\ o + s + m = 16 /\ o + s <= 16 /\ k = 8 * (b - 1)
      /\ (~(b < L) => k + 8 = 8 * L) /\ (b < L => k + 16 <= 8 * L)
  BY <1>1
<1>3. g \in Bits /\ \A i \in Nat : (i <= 8 * L => g[i] = f[i]) /\ (i > 8 * L => g[i] = 0)
  <2>1. \A i \in Nat : f[i] \in Bit /\ 0 \in Bit
    BY DEF Bits, Bit
  <2>2. ASSUME NEW i \in Nat PROVE (IF i <= 8 * L THEN f[i] ELSE 0) \in Bit
    BY <2>1
  <2>3. g \in Bits
    BY <2>2 DEF Bits
  <2> QED
    BY <1>1, <2>3
<1>4. Window(p, at, s) = ((p[b] * 256 + next) \div 2 ^ m) % 2 ^ s
  BY DEF Window
<1> HIDE DEF g, o, b, k
<1>5. p[b] = Number(g, k)[8]
  <2>1. p[b] = Octet(f, k)
    BY <1>2 DEF Packs
  <2>2. Octet(f, k) = Number(f, k)[8]
    BY <1>2, OctetIs
  <2>3. \A i \in 1 .. 8 : f[k + i] = g[k + i]
    BY <1>1, <1>2, <1>3
  <2>4. Number(f, k)[8] = Number(g, k)[8]
    <3>1. 8 \in 0 .. 16
      OBVIOUS
    <3> QED
      BY <1>2, <1>3, <2>3, <3>1, NumberAgrees
  <2> QED
    BY <2>1, <2>2, <2>4
<1>6. next = Number(g, k + 8)[8]
  <2>1. k + 8 \in Nat
    BY <1>2
  <2>2. Octet(g, k + 8) = Number(g, k + 8)[8]
    BY <1>3, <2>1, OctetIs
  <2>3. CASE b < L
    <3>1. b + 1 \in 1 .. L /\ 8 * (b + 1 - 1) = k + 8
      BY <1>1, <1>2, <2>3
    <3>2. p[b + 1] = Octet(f, k + 8)
      <4>1. PICK c \in 1 .. L : c = b + 1 /\ 8 * (c - 1) = k + 8
        <5>1. PICK c : c = b + 1
          OBVIOUS
        <5>2. c \in 1 .. L /\ 8 * (c - 1) = k + 8
          BY <1>1, <1>2, <2>3, <5>1
        <5> QED
          BY <5>1, <5>2
      <4>2. p[c] = Octet(f, 8 * (c - 1))
        BY DEF Packs
      <4> QED
        BY <4>1, <4>2, Zenon
    <3>3. \A i \in 1 .. 8 : f[k + 8 + i] = g[k + 8 + i]
      BY <1>1, <1>2, <1>3, <2>3
    <3>4. Number(f, k + 8)[8] = Number(g, k + 8)[8]
      <4>1. 8 \in 0 .. 16
        OBVIOUS
      <4> QED
        BY <1>3, <2>1, <3>3, <4>1, NumberAgrees
    <3>5. Octet(f, k + 8) = Number(f, k + 8)[8]
      BY <2>1, OctetIs
    <3> QED
      BY <2>3, <3>2, <3>4, <3>5
  <2>4. CASE ~(b < L)
    <3>1. \A i \in 1 .. 8 : g[k + 8 + i] = 0
      BY <1>1, <1>2, <1>3, <2>4
    <3> DEFINE q == k + 8
    <3>2. g[q + 1] = 0 /\ g[q + 2] = 0 /\ g[q + 3] = 0 /\ g[q + 4] = 0
          /\ g[q + 5] = 0 /\ g[q + 6] = 0 /\ g[q + 7] = 0 /\ g[q + 8] = 0
      BY <3>1
    <3> HIDE DEF q
    <3>3. Octet(g, q) = 0
      BY ONLY <3>2 DEF Octet
    <3> QED
      BY <2>2, <2>4, <3>3 DEF q
  <2> QED
    BY <2>3, <2>4
<1>7. p[b] * 256 + next = Number(g, k)[16]
  <2>1. Number(g, k)[8 + 8] = Number(g, k)[8] * 2 ^ 8 + Number(g, k + 8)[8]
    <3>1. PICK c \in Nat : c = 8 /\ c + c <= 16
      OBVIOUS
    <3>2. k \in Nat
      BY <1>2
    <3>3. SplitAt(g, k, c, c)
      BY <1>3, <3>1, <3>2, NumberSplits
    <3> QED
      BY <3>1, <3>3, Zenon DEF SplitAt
  <2>2. 8 + 8 = 16 /\ 2 ^ 8 = 256
    OBVIOUS
  <2> QED
    BY <1>5, <1>6, <2>1, <2>2
<1> HIDE DEF next, m
<1> DEFINE h == Number(g, k)[o]
           u == Number(g, k)[o + s]
           w == Number(g, at)[s]
           r == Number(g, k + (o + s))[m]
<1>8. u = h * 2 ^ s + w
  <2>1. k \in Nat /\ o \in Nat /\ s \in Nat /\ o + s <= 16 /\ k + o = at
    BY <1>2
  <2>2. SplitAt(g, k, o, s)
    BY <1>3, <2>1, NumberSplits
  <2> QED
    BY <2>1, <2>2 DEF SplitAt
<1>9. Number(g, k)[16] = u * 2 ^ m + r
  <2>1. k \in Nat /\ o + s \in Nat /\ m \in Nat /\ o + s + m <= 16 /\ o + s + m = 16
    BY <1>2
  <2>2. SplitAt(g, k, o + s, m)
    BY <1>3, <2>1, NumberSplits
  <2> QED
    BY <2>1, <2>2 DEF SplitAt
<1>10. /\ h \in Nat /\ u \in Nat /\ w \in Nat /\ w < 2 ^ s /\ r \in Nat /\ r < 2 ^ m
       /\ 2 ^ s \in Nat /\ 2 ^ s > 0 /\ 2 ^ m \in Nat /\ 2 ^ m > 0
  <2>1. o \in 0 .. 16 /\ o + s \in 0 .. 16 /\ s \in 0 .. 16 /\ m \in 0 .. 16
        /\ k \in Nat /\ k + (o + s) \in Nat
    BY <1>2
  <2>2. h \in Nat /\ u \in Nat
    BY <1>3, <2>1, NumberIs
  <2>3. w \in Nat /\ w < 2 ^ s
    BY <1>3, <2>1, NumberIs
  <2>4. r \in Nat /\ r < 2 ^ m
    BY <1>3, <2>1, NumberIs
  <2>5. 2 ^ s \in Nat /\ 2 ^ s > 0 /\ 2 ^ m \in Nat /\ 2 ^ m > 0
    BY <2>1, TwoTo
  <2> QED
    BY <2>2, <2>3, <2>4, <2>5
<1> HIDE DEF h, u, w, r
<1> DEFINE c == 2 ^ s
           d == 2 ^ m
<1>11. (u * d + r) \div d = u /\ u % c = w
  <2>1. /\ h \in Nat /\ u \in Nat /\ w \in Nat /\ w < c /\ r \in Nat /\ r < d
        /\ c \in Nat /\ c > 0 /\ d \in Nat /\ d > 0 /\ u = h * c + w
    BY <1>8, <1>10
  <2> HIDE DEF c, d
  <2>2. (u * d + r) \div d = u + (r \div d) /\ (h * c + w) % c = w % c
    BY ONLY <2>1, V!DivPlus, Eight
  <2>3. r \div d = 0 /\ w % c = w
    BY ONLY <2>1
  <2> QED
    BY ONLY <2>1, <2>2, <2>3
<1>12. Window(p, at, s) = w
  BY <1>4, <1>7, <1>9, <1>11
<1>13. Number(f, at)[s] = w
  <2>1. \A i \in 1 .. s : f[at + i] = g[at + i]
    BY <1>1, <1>3
  <2>2. s \in 0 .. 16
    OBVIOUS
  <2> QED
    BY <1>3, <2>1, <2>2, NumberAgrees DEF w
<1> QED
  BY <1>12, <1>13

-----------------------------------------------------------------------------
(* The walk through the tables                                             *)

\* The entries of a table, its windows and their length.
Entry(n, w) == Tree[n].table[w]
Windows(n) == DOMAIN Tree[n].table
Step(n) == Tree[n].lookup
IsSym(n, w) == Entry(n, w)[1] = "sym"

\* The assumption on the tree, for one table.
LEMMA TreeFacts ==
  ASSUME NEW n \in DOMAIN Tree
  PROVE  /\ Step(n) \in 1 .. 8 /\ Depth[n] \in 0 .. LongestCode
         /\ \A w \in Windows(n) :
              /\ w \in Nat /\ w < 2 ^ Step(n)
              /\ IsSym(n, w) => Entry(n, w)[2] \in Byte
              /\ ~IsSym(n, w) => /\ Entry(n, w)[2] \in DOMAIN Tree
                                 /\ Depth[Entry(n, w)[2]] = Depth[n] + Step(n)
<1>1. Depth[n] \in 0 .. LongestCode
  BY HuffmanAssumption
<1>2. Step(n) \in 1 .. 8
  BY HuffmanAssumption DEF Step
<1>3. ASSUME NEW w \in Windows(n)
      PROVE  /\ w \in 0 .. 2 ^ Step(n) - 1
             /\ \/ Entry(n, w)[1] = "sym" /\ Entry(n, w)[2] \in Byte
                \/ /\ Entry(n, w)[1] = "node" /\ Entry(n, w)[2] \in DOMAIN Tree
                   /\ Depth[Entry(n, w)[2]] = Depth[n] + Step(n)
  <2>1. \A v \in DOMAIN Tree[n].table :
          /\ v \in 0 .. 2 ^ Tree[n].lookup - 1
          /\ \/ Tree[n].table[v][1] = "sym" /\ Tree[n].table[v][2] \in 0 .. 255
             \/ /\ Tree[n].table[v][1] = "node" /\ Tree[n].table[v][2] \in DOMAIN Tree
                /\ Depth[Tree[n].table[v][2]] = Depth[n] + Tree[n].lookup
    BY HuffmanAssumption
  <2> QED
    BY ONLY <2>1, w \in Windows(n) DEF Windows, Step, Entry, Byte
<1>4. 2 ^ Step(n) \in Nat
  <2>1. Step(n) \in 0 .. 16
    BY <1>2
  <2> QED
    BY <2>1, TwoTo
<1>5. ASSUME NEW w \in Windows(n) PROVE w \in Nat /\ w < 2 ^ Step(n)
  <2> DEFINE p == 2 ^ Step(n)
  <2>1. p \in Nat /\ w \in 0 .. p - 1
    BY <1>3, <1>4
  <2> HIDE DEF p
  <2>2. w \in Nat /\ w < p
    BY <2>1
  <2> QED
    BY <2>2 DEF p
<1>6. "sym" # "node"
  OBVIOUS
<1> QED
  BY <1>1, <1>2, <1>3, <1>5, <1>6, Zenon DEF IsSym

\* What DecodeIter may return from a table on, where f says so of the tables
\* and the places behind it.
NextFrom(f, payload, n, at) ==
  IF ~Fits(payload, at, Step(n)) THEN IF AtEnd(payload, at) THEN {<<>>} ELSE {}
  ELSE IF Window(payload, at, Step(n)) \notin Windows(n) THEN {}
  ELSE IF IsSym(n, Window(payload, at, Step(n)))
  THEN {<<Entry(n, Window(payload, at, Step(n)))[2]>> \o s : s \in f[<<Root, at + Step(n)>>]}
  ELSE f[<<Entry(n, Window(payload, at, Step(n)))[2], at + Step(n)>>]

\* f is what decode_next does.
Follows(f, payload) ==
  \A n \in DOMAIN Tree, at \in Nat : f[<<n, at>>] = NextFrom(f, payload, n, at)

\* decode_next goes by a function of the table and the place in the payload.
LEMMA DecodedFollows ==
  ASSUME NEW payload \in Bytes
  PROVE  \E f : Follows(f, payload) /\ Decoded(payload) = f[<<Root, 0>>]
<1> DEFINE D == (DOMAIN Tree) \X Nat
           T == SUBSET Bytes
           L == 8 * Len(payload)
           G(f) == [p \in D |-> NextFrom(f, payload, p[1], p[2])]
           F == [f \in [D -> T] |-> G(f)]
           m == [p \in D |-> IF p[2] <= L THEN L - p[2] ELSE 0]
           C == CHOOSE f : f = G(f)
<1>1. L \in Nat
  BY ByteAt
<1>2. Decoded(payload) = C[<<Root, 0>>]
  BY DEF Decoded, NextFrom, Step, IsSym, Entry, Windows
<1> HIDE DEF L
<1>3. m \in [D -> Nat]
  BY <1>1
<1>4. ASSUME NEW p \in D PROVE m[p] = IF p[2] <= L THEN L - p[2] ELSE 0
  OBVIOUS
<1> HIDE DEF m
<1>5. ASSUME NEW n \in DOMAIN Tree, NEW at \in Nat, Fits(payload, at, Step(n)),
             NEW k \in DOMAIN Tree
      PROVE  /\ <<k, at + Step(n)>> \in D /\ <<n, at>> \in D
             /\ m[<<k, at + Step(n)>>] < m[<<n, at>>]
  <2>1. Step(n) \in Nat /\ Step(n) > 0 /\ at + Step(n) <= L
    BY <1>5, TreeFacts DEF Fits, L
  <2>2. <<k, at + Step(n)>> \in D /\ <<n, at>> \in D
    BY <2>1
  <2>3. m[<<k, at + Step(n)>>] = L - (at + Step(n)) /\ m[<<n, at>>] = L - at
    BY <1>1, <1>4, <2>1, <2>2
  <2> QED
    BY <1>1, <2>1, <2>2, <2>3
<1>6. ASSUME NEW f \in [D -> T], NEW n \in DOMAIN Tree, NEW at \in Nat
      PROVE  NextFrom(f, payload, n, at) \in T
  <2>1. CASE ~Fits(payload, at, Step(n))
    <3>1. <<>> \in Bytes
      BY DEF Bytes
    <3> QED
      BY <2>1, <3>1 DEF NextFrom
  <2>2. CASE Fits(payload, at, Step(n)) /\ Window(payload, at, Step(n)) \notin Windows(n)
    BY <2>2 DEF NextFrom
  <2>3. CASE Fits(payload, at, Step(n)) /\ Window(payload, at, Step(n)) \in Windows(n)
    <3> DEFINE w == Window(payload, at, Step(n))
               e == Entry(n, w)[2]
    <3>1. CASE IsSym(n, w)
      <4>1. e \in Byte
        BY <2>3, <3>1, TreeFacts
      <4>2. f[<<Root, at + Step(n)>>] \in T
        BY <1>5, <2>3, HuffmanAssumption
      <4>3. NextFrom(f, payload, n, at) = {<<e>> \o s : s \in f[<<Root, at + Step(n)>>]}
        BY <2>3, <3>1 DEF NextFrom
      <4> HIDE DEF e
      <4>4. \A s \in Bytes : <<e>> \o s \in Bytes
        BY <4>1 DEF Bytes
      <4> QED
        BY <4>2, <4>3, <4>4
    <3>2. CASE ~IsSym(n, w)
      <4>1. e \in DOMAIN Tree
        BY <2>3, <3>2, TreeFacts
      <4>2. f[<<e, at + Step(n)>>] \in T
        BY <1>5, <2>3, <4>1
      <4>3. NextFrom(f, payload, n, at) = f[<<e, at + Step(n)>>]
        BY <2>3, <3>2 DEF NextFrom
      <4> QED
        BY <4>2, <4>3
    <3> QED
      BY <3>1, <3>2
  <2> QED
    BY <2>1, <2>2, <2>3
<1>7. ASSUME NEW f \in [D -> T], NEW g \in [D -> T], NEW n \in DOMAIN Tree, NEW at \in Nat,
             \A y \in D : m[y] < m[<<n, at>>] => f[y] = g[y]
      PROVE  NextFrom(f, payload, n, at) = NextFrom(g, payload, n, at)
  <2>1. CASE ~Fits(payload, at, Step(n))
    BY <2>1 DEF NextFrom
  <2>2. CASE Fits(payload, at, Step(n)) /\ Window(payload, at, Step(n)) \notin Windows(n)
    BY <2>2 DEF NextFrom
  <2>3. CASE Fits(payload, at, Step(n)) /\ Window(payload, at, Step(n)) \in Windows(n)
    <3> DEFINE w == Window(payload, at, Step(n))
               e == Entry(n, w)[2]
    <3>1. CASE IsSym(n, w)
      <4>1. f[<<Root, at + Step(n)>>] = g[<<Root, at + Step(n)>>]
        BY <1>5, <1>7, <2>3, HuffmanAssumption
      <4> QED
        BY <2>3, <3>1, <4>1, Zenon DEF NextFrom
    <3>2. CASE ~IsSym(n, w)
      <4>1. e \in DOMAIN Tree
        BY <2>3, <3>2, TreeFacts
      <4>2. f[<<e, at + Step(n)>>] = g[<<e, at + Step(n)>>]
        BY <1>5, <1>7, <2>3, <4>1
      <4> QED
        BY <2>3, <3>2, <4>2, Zenon DEF NextFrom
    <3> QED
      BY <3>1, <3>2
  <2> QED
    BY <2>1, <2>2, <2>3
<1>8. \E f \in [D -> T] : f = F[f]
  <2>1. \A p \in D : p[1] \in DOMAIN Tree /\ p[2] \in Nat /\ p = <<p[1], p[2]>>
    OBVIOUS
  <2>2. ASSUME NEW f \in [D -> T] PROVE G(f) \in [D -> T]
    BY <1>6, <2>1
  <2>3. F \in [[D -> T] -> [D -> T]]
    BY <2>2
  <2>4. ASSUME NEW f \in [D -> T], NEW g \in [D -> T], NEW p \in D,
               \A y \in D : m[y] < m[p] => f[y] = g[y]
        PROVE  F[f][p] = F[g][p]
    <3>1. NextFrom(f, payload, p[1], p[2]) = NextFrom(g, payload, p[1], p[2])
      BY <1>7, <2>1, <2>4
    <3>2. F[f] = G(f) /\ F[g] = G(g)
      OBVIOUS
    <3> QED
      BY <3>1, <3>2
  <2>5. T # {}
    OBVIOUS
  <2> HIDE DEF F, G, D, T, C
  <2>6. \A f, g \in [D -> T] : \A p \in D :
          (\A y \in D : m[y] < m[p] => f[y] = g[y]) => F[f][p] = F[g][p]
    BY <2>4
  <2>7. V!Measured(F, D, T, m)
    BY <1>3, <2>3, <2>5, <2>6 DEF V!Measured
  <2>8. \E f \in [D -> T] : V!Solves(f, F)
    BY <2>7, Eight, V!MeasuredRecursion, Zenon
  <2> QED
    BY <2>8 DEF V!Solves
<1>9. \E f : f = G(f)
  <2>1. PICK f \in [D -> T] : f = F[f]
    BY <1>8
  <2>2. F[f] = G(f)
    OBVIOUS
  <2> HIDE DEF F, G, D, T, C
  <2> QED
    BY <2>1, <2>2
<1>10. C = G(C)
  <2> HIDE DEF G
  <2> QED
    BY <1>9
<1> HIDE DEF C
<1>11. ASSUME NEW n \in DOMAIN Tree, NEW at \in Nat
       PROVE  C[<<n, at>>] = NextFrom(C, payload, n, at)
  <2>1. <<n, at>> \in D /\ <<n, at>>[1] = n /\ <<n, at>>[2] = at
    OBVIOUS
  <2>2. G(C)[<<n, at>>] = NextFrom(C, payload, n, at)
    BY <2>1
  <2> HIDE DEF G
  <2> QED
    BY <1>10, <2>2, Zenon
<1>12. Follows(C, payload)
  BY <1>11 DEF Follows
<1> QED
  BY <1>2, <1>12

\* At most one string.
AtMostOne == {S \in SUBSET Bytes : \A s, t \in S : s = t}

\* From every table and every place on there is at most one string: each window
\* moves on, so that the bits left are a measure.
LEMMA FollowsOne ==
  ASSUME NEW payload \in Bytes, NEW f, Follows(f, payload),
         NEW n \in DOMAIN Tree, NEW at \in Nat
  PROVE  f[<<n, at>>] \in AtMostOne
<1> DEFINE D == (DOMAIN Tree) \X Nat
           L == 8 * Len(payload)
           m == [p \in D |-> IF p[2] <= L THEN L - p[2] ELSE 0]
           S == {p \in D : f[p] \in AtMostOne}
<1>1. L \in Nat
  BY ByteAt
<1>2. m \in [D -> Nat] /\ \A p \in D : m[p] = IF p[2] <= L THEN L - p[2] ELSE 0
  <2> HIDE DEF L
  <2> QED
    BY <1>1
<1> HIDE DEF m
<1>3. ASSUME NEW k \in DOMAIN Tree, NEW i \in Nat,
             \A y \in D : m[y] < m[<<k, i>>] => y \in S
      PROVE  f[<<k, i>>] \in AtMostOne
  <2> DEFINE w == Window(payload, i, Step(k))
             e == Entry(k, w)[2]
  <2>1. f[<<k, i>>] = NextFrom(f, payload, k, i)
    BY DEF Follows
  <2>2. CASE ~Fits(payload, i, Step(k))
    <3>1. <<>> \in Bytes
      BY DEF Bytes
    <3> QED
      BY <2>1, <2>2, <3>1 DEF NextFrom, AtMostOne
  <2>3. CASE Fits(payload, i, Step(k)) /\ w \notin Windows(k)
    BY <2>1, <2>3 DEF NextFrom, AtMostOne
  <2>4. ASSUME Fits(payload, i, Step(k)), NEW j \in DOMAIN Tree
        PROVE  f[<<j, i + Step(k)>>] \in AtMostOne
    <3>1. Step(k) \in Nat /\ Step(k) > 0 /\ i + Step(k) <= L
      BY <2>4, TreeFacts DEF Fits
    <3>2. <<j, i + Step(k)>> \in D /\ <<k, i>> \in D
      BY <3>1
    <3>3. m[<<j, i + Step(k)>>] = L - (i + Step(k)) /\ m[<<k, i>>] = L - i
      <4> HIDE DEF L
      <4> QED
        BY <1>1, <1>2, <3>1, <3>2
    <3>4. m[<<j, i + Step(k)>>] < m[<<k, i>>]
      <4> HIDE DEF L
      <4> QED
        BY <1>1, <3>1, <3>3
    <3> QED
      BY <1>3, <3>2, <3>4
  <2>5. CASE Fits(payload, i, Step(k)) /\ w \in Windows(k) /\ IsSym(k, w)
    <3>1. e \in Byte
      BY <2>5, TreeFacts
    <3>2. f[<<Root, i + Step(k)>>] \in AtMostOne
      BY <2>4, <2>5, HuffmanAssumption
    <3>3. f[<<k, i>>] = {<<e>> \o s : s \in f[<<Root, i + Step(k)>>]}
      BY <2>1, <2>5, Zenon DEF NextFrom
    <3> HIDE DEF e
    <3>4. \A s \in Bytes : <<e>> \o s \in Bytes
      BY <3>1 DEF Bytes
    <3> QED
      BY <3>2, <3>3, <3>4 DEF AtMostOne
  <2>6. CASE Fits(payload, i, Step(k)) /\ w \in Windows(k) /\ ~IsSym(k, w)
    <3>1. e \in DOMAIN Tree
      BY <2>6, TreeFacts
    <3>2. f[<<k, i>>] = f[<<e, i + Step(k)>>]
      BY <2>1, <2>6, Zenon DEF NextFrom
    <3> QED
      BY <2>4, <2>6, <3>1, <3>2
  <2> QED
    BY <2>2, <2>3, <2>5, <2>6
<1>4. \A p \in D : (\A y \in D : m[y] < m[p] => y \in S) => p \in S
  <2>1. ASSUME NEW p \in D, \A y \in D : m[y] < m[p] => y \in S PROVE p \in S
    <3>1. p[1] \in DOMAIN Tree /\ p[2] \in Nat /\ p = <<p[1], p[2]>>
      OBVIOUS
    <3> HIDE DEF S
    <3>2. f[<<p[1], p[2]>>] \in AtMostOne
      BY <1>3, <2>1, <3>1
    <3> QED
      BY <3>1, <3>2 DEF S
  <2> QED
    BY <2>1
<1>5. \A p \in D : p \in S
  <2> HIDE DEF D, S
  <2> QED
    BY <1>2, <1>4, Eight, V!MeasuredInduction, Zenon
<1> QED
  BY <1>5

\* DecodeIter returns one string of bytes or an error.
LEMMA DecodedOne ==
  ASSUME NEW payload \in Bytes
  PROVE  Decoded(payload) \in AtMostOne
<1>1. PICK f : Follows(f, payload) /\ Decoded(payload) = f[<<Root, 0>>]
  BY DecodedFollows
<1>2. Root \in DOMAIN Tree /\ 0 \in Nat
  BY HuffmanAssumption
<1> QED
  BY <1>1, <1>2, FollowsOne

-----------------------------------------------------------------------------
(* Codes                                                                   *)

\* The elements of a concatenation.
LEMMA Concat ==
  ASSUME NEW S, NEW a \in Seq(S), NEW b \in Seq(S)
  PROVE  /\ a \o b \in Seq(S)
         /\ Len(a) \in Nat /\ Len(b) \in Nat /\ Len(a \o b) = Len(a) + Len(b)
         /\ \A i \in 1 .. Len(a) : (a \o b)[i] = a[i]
         /\ \A i \in 1 .. Len(b) : (a \o b)[Len(a) + i] = b[i]
OBVIOUS

\* The bits of a window.
LEMMA BitsAre ==
  ASSUME NEW w \in Nat, NEW n \in 1 .. 8
  PROVE  BitsOf(w, n) \in Seq(Bit) /\ Len(BitsOf(w, n)) = n
<1> DEFINE b(i) == (w \div 2 ^ (n - i)) % 2
<1>1. ASSUME NEW i \in 1 .. n PROVE b(i) \in Bit
  <2> DEFINE p == 2 ^ (n - i)
             q == w \div p
  <2>1. n - i \in 0 .. 16
    OBVIOUS
  <2>2. p \in Nat /\ p > 0
    BY <2>1, TwoTo
  <2> HIDE DEF p
  <2>3. q \in Nat
    BY <2>2, V!DivMod
  <2> HIDE DEF q
  <2>4. q % 2 = 0 \/ q % 2 = 1
    BY <2>3
  <2> QED
    BY <2>4 DEF q, p, Bit
<1>2. BitsOf(w, n) = [i \in 1 .. n |-> b(i)]
  BY DEF BitsOf
<1> HIDE DEF b
<1> QED
  BY <1>1, <1>2

\* The codes below a table that begin with a window, where f has those of the
\* tables behind it.
Branch(f, n, w) ==
  IF IsSym(n, w) THEN {<<Entry(n, w)[2], BitsOf(w, Step(n))>>}
  ELSE {<<c[1], BitsOf(w, Step(n)) \o c[2]>> : c \in f[Entry(n, w)[2]]}

Below(f, n) == UNION {Branch(f, n, w) : w \in Windows(n)}

\* Symbols and their bits.
Coded == Byte \X Seq(Bit)

\* Codes is the function that its recursive definition says it is: the tables
\* behind a table are deeper.
LEMMA CodesBelow ==
  ASSUME NEW n \in DOMAIN Tree
  PROVE  Codes[n] = Below(Codes, n)
<1> DEFINE D == DOMAIN Tree
           T == SUBSET Coded
           G(f) == [k \in D |-> Below(f, k)]
           F == [f \in [D -> T] |-> G(f)]
           m == [k \in D |-> LongestCode - Depth[k]]
<1>1. Codes = CHOOSE f : f = G(f)
  BY DEF Codes, Below, Branch, IsSym, Entry, Step, Windows
<1>2. m \in [D -> Nat] /\ \A k \in D : m[k] = LongestCode - Depth[k]
  <2>1. \A k \in D : Depth[k] \in Nat /\ Depth[k] <= 30
    BY HuffmanAssumption DEF LongestCode
  <2> QED
    BY <2>1 DEF LongestCode
<1>3. ASSUME NEW k \in D, NEW w \in Windows(k), ~IsSym(k, w)
      PROVE  Entry(k, w)[2] \in D /\ m[Entry(k, w)[2]] < m[k]
  <2>1. /\ Entry(k, w)[2] \in D /\ Depth[Entry(k, w)[2]] = Depth[k] + Step(k)
        /\ Step(k) \in Nat /\ Step(k) > 0 /\ Depth[k] \in Nat /\ LongestCode \in Nat
    BY <1>3, TreeFacts DEF LongestCode
  <2> HIDE DEF m
  <2> QED
    BY <1>2, <2>1
<1> HIDE DEF m
<1>4. ASSUME NEW f \in [D -> T], NEW k \in D PROVE Below(f, k) \in T
  <2>1. ASSUME NEW w \in Windows(k) PROVE Branch(f, k, w) \in T
    <3>1. w \in Nat /\ Step(k) \in 1 .. 8
      BY TreeFacts
    <3>2. BitsOf(w, Step(k)) \in Seq(Bit)
      BY <3>1, BitsAre
    <3>3. CASE IsSym(k, w)
      <4>1. Entry(k, w)[2] \in Byte
        BY <3>3, TreeFacts
      <4> QED
        BY <3>2, <3>3, <4>1 DEF Branch, Coded
    <3>4. CASE ~IsSym(k, w)
      <4>1. f[Entry(k, w)[2]] \in T
        BY <1>3, <3>4
      <4> DEFINE b == BitsOf(w, Step(k))
      <4>2. Branch(f, k, w) = {<<c[1], b \o c[2]>> : c \in f[Entry(k, w)[2]]}
        BY <3>4 DEF Branch
      <4> HIDE DEF b
      <4>3. \A c \in Coded : <<c[1], b \o c[2]>> \in Coded
        <5>1. b \in Seq(Bit)
          BY <3>2 DEF b
        <5>2. ASSUME NEW c \in Coded PROVE <<c[1], b \o c[2]>> \in Coded
          <6>1. c[1] \in Byte /\ c[2] \in Seq(Bit)
            BY DEF Coded
          <6>2. b \o c[2] \in Seq(Bit)
            BY <5>1, <6>1, Concat
          <6> QED
            BY <6>1, <6>2 DEF Coded
        <5> QED
          BY <5>2
      <4> QED
        BY <4>1, <4>2, <4>3
    <3> QED
      BY <3>3, <3>4
  <2> QED
    BY <2>1 DEF Below
<1>5. ASSUME NEW f \in [D -> T], NEW g \in [D -> T], NEW k \in D,
             \A y \in D : m[y] < m[k] => f[y] = g[y]
      PROVE  Below(f, k) = Below(g, k)
  <2>1. ASSUME NEW w \in Windows(k) PROVE Branch(f, k, w) = Branch(g, k, w)
    <3>1. CASE IsSym(k, w)
      BY <3>1, Zenon DEF Branch
    <3>2. CASE ~IsSym(k, w)
      <4>1. f[Entry(k, w)[2]] = g[Entry(k, w)[2]]
        BY <1>3, <1>5, <3>2
      <4> QED
        BY <3>2, <4>1, Zenon DEF Branch
    <3> QED
      BY <3>1, <3>2
  <2> QED
    BY <2>1 DEF Below
<1>6. V!Measured(F, D, T, m)
  <2>1. ASSUME NEW f \in [D -> T] PROVE G(f) \in [D -> T]
    BY <1>4
  <2>2. F \in [[D -> T] -> [D -> T]]
    BY <2>1
  <2>3. ASSUME NEW f \in [D -> T], NEW g \in [D -> T], NEW k \in D,
               \A y \in D : m[y] < m[k] => f[y] = g[y]
        PROVE  F[f][k] = F[g][k]
    <3>1. Below(f, k) = Below(g, k)
      BY <1>5, <2>3
    <3>2. F[f] = G(f) /\ F[g] = G(g)
      OBVIOUS
    <3> QED
      BY <3>1, <3>2
  <2>4. T # {}
    OBVIOUS
  <2> HIDE DEF F, G, D, T
  <2>5. \A f, g \in [D -> T] : \A k \in D :
          (\A y \in D : m[y] < m[k] => f[y] = g[y]) => F[f][k] = F[g][k]
    BY <2>3
  <2> QED
    BY <1>2, <2>2, <2>4, <2>5 DEF V!Measured
<1>7. \E f : f = G(f)
  <2>1. \E f \in [D -> T] : V!Solves(f, F)
    <3> HIDE DEF F, G, D, T
    <3> QED
      BY <1>6, Eight, V!MeasuredRecursion, Zenon
  <2>2. PICK f \in [D -> T] : f = F[f]
    <3> HIDE DEF F, G, D, T
    <3> QED
      BY <2>1 DEF V!Solves
  <2>3. F[f] = G(f)
    OBVIOUS
  <2> HIDE DEF F, G, D, T
  <2> QED
    BY <2>2, <2>3
<1>8. Codes = G(Codes)
  <2> HIDE DEF G
  <2> QED
    BY <1>1, <1>7
<1> QED
  BY <1>8

\* The first window of a code.
LEMMA CodesAre ==
  ASSUME NEW n \in DOMAIN Tree, NEW c \in Codes[n]
  PROVE  \E w \in Windows(n) :
           \/ IsSym(n, w) /\ c = <<Entry(n, w)[2], BitsOf(w, Step(n))>>
           \/ ~IsSym(n, w) /\ \E e \in Codes[Entry(n, w)[2]] :
                                c = <<e[1], BitsOf(w, Step(n)) \o e[2]>>
<1>1. c \in Below(Codes, n)
  BY CodesBelow
<1>2. PICK w \in Windows(n) : c \in Branch(Codes, n, w)
  BY <1>1 DEF Below
<1>3. CASE IsSym(n, w)
  BY <1>2, <1>3 DEF Branch
<1>4. CASE ~IsSym(n, w)
  <2>1. c \in {<<e[1], BitsOf(w, Step(n)) \o e[2]>> : e \in Codes[Entry(n, w)[2]]}
    BY <1>2, <1>4, Zenon DEF Branch
  <2> QED
    BY <1>4, <2>1
<1> QED
  BY <1>3, <1>4

\* A set that holds a table whenever it holds those behind it holds all.
LEMMA TreeInduction ==
  ASSUME NEW S,
         \A n \in DOMAIN Tree :
           (\A w \in Windows(n) : ~IsSym(n, w) => Entry(n, w)[2] \in S) => n \in S
  PROVE  \A n \in DOMAIN Tree : n \in S
<1> DEFINE D == DOMAIN Tree
           m == [k \in D |-> LongestCode - Depth[k]]
<1>1. m \in [D -> Nat] /\ \A k \in D : m[k] = LongestCode - Depth[k]
  <2>1. \A k \in D : Depth[k] \in Nat /\ Depth[k] <= 30
    BY HuffmanAssumption DEF LongestCode
  <2> QED
    BY <2>1 DEF LongestCode
<1> HIDE DEF m
<1>2. ASSUME NEW k \in D, \A y \in D : m[y] < m[k] => y \in S PROVE k \in S
  <2>1. ASSUME NEW w \in Windows(k), ~IsSym(k, w) PROVE Entry(k, w)[2] \in S
    <3>1. /\ Entry(k, w)[2] \in D /\ Depth[Entry(k, w)[2]] = Depth[k] + Step(k)
          /\ Step(k) \in Nat /\ Step(k) > 0 /\ Depth[k] \in Nat /\ LongestCode \in Nat
      BY <2>1, TreeFacts DEF LongestCode
    <3>2. m[Entry(k, w)[2]] < m[k]
      BY <1>1, <3>1
    <3> QED
      BY <1>2, <3>1, <3>2
  <2> QED
    BY <2>1
<1> QED
  <2>1. \A k \in D : (\A y \in D : m[y] < m[k] => y \in S) => k \in S
    BY <1>2
  <2> HIDE DEF D
  <2>2. \A k \in D : k \in S
    BY <1>1, <2>1, Eight, V!MeasuredInduction, Zenon
  <2> QED
    BY <2>2 DEF D

\* A code has a symbol and at least one bit.
LEMMA CodesType ==
  ASSUME NEW n \in DOMAIN Tree, NEW c \in Codes[n]
  PROVE  c \in Coded /\ Len(c[2]) \in Nat /\ Len(c[2]) > 0
<1> DEFINE Good(d) == d \in Coded /\ Len(d[2]) \in Nat /\ Len(d[2]) > 0
           S == {k \in DOMAIN Tree : \A d \in Codes[k] : Good(d)}
<1>1. ASSUME NEW k \in DOMAIN Tree,
             \A w \in Windows(k) : ~IsSym(k, w) => Entry(k, w)[2] \in S,
             NEW d \in Codes[k]
      PROVE  Good(d)
  <2>1. PICK w \in Windows(k) :
           \/ IsSym(k, w) /\ d = <<Entry(k, w)[2], BitsOf(w, Step(k))>>
           \/ ~IsSym(k, w) /\ \E e \in Codes[Entry(k, w)[2]] :
                                d = <<e[1], BitsOf(w, Step(k)) \o e[2]>>
    BY CodesAre
  <2> DEFINE b == BitsOf(w, Step(k))
  <2>2. w \in Nat /\ Step(k) \in 1 .. 8
    BY TreeFacts
  <2>3. b \in Seq(Bit) /\ Len(b) \in Nat /\ Len(b) > 0
    <3>1. b \in Seq(Bit) /\ Len(b) = Step(k)
      BY <2>2, BitsAre
    <3>2. Step(k) \in Nat /\ Step(k) > 0
      BY <2>2
    <3> QED
      BY <3>1, <3>2, Zenon
  <2> HIDE DEF b
  <2>4. CASE IsSym(k, w) /\ d = <<Entry(k, w)[2], b>>
    <3>1. Entry(k, w)[2] \in Byte
      BY <2>4, TreeFacts
    <3> QED
      BY <2>3, <2>4, <3>1 DEF Coded
  <2>5. CASE ~IsSym(k, w)
    <3>1. PICK e \in Codes[Entry(k, w)[2]] : d = <<e[1], b \o e[2]>>
      BY <2>1, <2>5 DEF b
    <3>2. Good(e)
      BY <1>1, <2>5
    <3> DEFINE s == e[2]
               t == b \o s
    <3>3. e[1] \in Byte /\ s \in Seq(Bit)
      BY <3>2 DEF Coded
    <3>4. t \in Seq(Bit) /\ Len(t) = Len(b) + Len(s) /\ Len(s) \in Nat
      BY <2>3, <3>3, Concat
    <3> HIDE DEF s, t
    <3>5. Len(t) \in Nat /\ Len(t) > 0
      BY <2>3, <3>4
    <3>6. d[1] = e[1] /\ d[2] = t /\ d \in Coded
      BY <3>1, <3>3, <3>4 DEF Coded, t, s
    <3> QED
      BY <3>5, <3>6
  <2> QED
    BY <2>1, <2>4, <2>5 DEF b
<1>2. \A k \in DOMAIN Tree : k \in S
  <2>1. \A k \in DOMAIN Tree :
          (\A w \in Windows(k) : ~IsSym(k, w) => Entry(k, w)[2] \in S) => k \in S
    <3> HIDE DEF Good
    <3> QED
      BY <1>1
  <2> HIDE DEF S
  <2> QED
    BY <2>1, TreeInduction
<1> QED
  BY <1>2

-----------------------------------------------------------------------------
(* Decoding a code                                                         *)

\* Behind the first at bits of h stand these.
Carries(h, at, bits) == \A i \in 1 .. Len(bits) : h[at + i] = bits[i]

\* Bits that stand somewhere stand there part by part.
LEMMA CarriesParts ==
  ASSUME NEW h, NEW at \in Nat, NEW a \in Seq(Bit), NEW b \in Seq(Bit), Carries(h, at, a \o b)
  PROVE  Carries(h, at, a) /\ Carries(h, at + Len(a), b)
<1>1. /\ Len(a) \in Nat /\ Len(b) \in Nat /\ Len(a \o b) = Len(a) + Len(b)
      /\ \A i \in 1 .. Len(a) : (a \o b)[i] = a[i]
      /\ \A i \in 1 .. Len(b) : (a \o b)[Len(a) + i] = b[i]
  BY Concat
<1> DEFINE c == a \o b
<1>2. Len(c) = Len(a) + Len(b) /\ \A i \in 1 .. Len(c) : h[at + i] = c[i]
  BY <1>1 DEF Carries
<1>3. ASSUME NEW i \in 1 .. Len(a) PROVE h[at + i] = a[i]
  <2>1. i \in 1 .. Len(c) /\ c[i] = a[i]
    BY <1>1, <1>2
  <2> HIDE DEF c
  <2> QED
    BY <1>2, <2>1
<1>4. ASSUME NEW i \in 1 .. Len(b) PROVE h[at + Len(a) + i] = b[i]
  <2>1. Len(a) + i \in 1 .. Len(c) /\ c[Len(a) + i] = b[i] /\ at + (Len(a) + i) = at + Len(a) + i
    BY <1>1, <1>2
  <2> HIDE DEF c
  <2> QED
    BY <1>2, <2>1
<1> QED
  BY <1>3, <1>4 DEF Carries

\* Where the bits of a window stand, that window is read.
LEMMA WindowRead ==
  ASSUME NEW p \in Bytes, NEW h \in Bits, Packs(p, h), NEW n \in DOMAIN Tree, NEW at \in Nat,
         NEW w \in Windows(n), Carries(h, at, BitsOf(w, Step(n))), Fits(p, at, Step(n))
  PROVE  Window(p, at, Step(n)) = w
<1>1. Step(n) \in 1 .. 8 /\ w \in Nat /\ w < 2 ^ Step(n)
  BY TreeFacts
<1>2. at + Step(n) <= 8 * Len(p)
  BY DEF Fits
<1>3. Window(p, at, Step(n)) = Number(h, at)[Step(n)]
  BY <1>1, <1>2, WindowIs
<1>4. \A i \in 1 .. Step(n) : h[at + i] = BitsOf(w, Step(n))[i]
  <2>1. Len(BitsOf(w, Step(n))) = Step(n)
    BY <1>1, BitsAre
  <2> QED
    BY <2>1 DEF Carries
<1>5. Number(h, at)[Step(n)] = w
  <2> DEFINE k == Step(n)
  <2>1. k \in 1 .. 8 /\ w < 2 ^ k /\ \A i \in 1 .. k : h[at + i] = BitsOf(w, k)[i]
    BY <1>1, <1>4
  <2> HIDE DEF k
  <2>2. Number(h, at)[k] = w
    BY <1>1, <2>1, NumberOfBits
  <2> QED
    BY <2>2 DEF k
<1> QED
  BY <1>3, <1>5

\* What decoding makes of the code c behind the first at bits.
Walks(f, p, n, c, at) ==
  /\ at + Len(c[2]) <= 8 * Len(p) =>
       f[<<n, at>>] = {<<c[1]>> \o s : s \in f[<<Root, at + Len(c[2])>>]}
  /\ ~(at + Len(c[2]) <= 8 * Len(p)) => f[<<n, at>>] \subseteq {<<>>}

\* Where the code of a symbol stands, the symbol is decoded if the payload holds
\* the code, and nothing otherwise: by induction over the tree.
LEMMA CodeWalk ==
  ASSUME NEW p \in Bytes, NEW h \in Bits, Packs(p, h), NEW f, Follows(f, p),
         NEW n \in DOMAIN Tree, NEW c \in Codes[n], NEW at \in Nat, Carries(h, at, c[2])
  PROVE  Walks(f, p, n, c, at)
<1> DEFINE L == 8 * Len(p)
           Good(k) == \A d \in Codes[k] : \A z \in Nat :
                        Carries(h, z, d[2]) => Walks(f, p, k, d, z)
           S == {k \in DOMAIN Tree : Good(k)}
<1>1. L \in Nat
  BY ByteAt
<1>2. ASSUME NEW k \in DOMAIN Tree,
             \A w \in Windows(k) : ~IsSym(k, w) => Entry(k, w)[2] \in S,
             NEW d \in Codes[k], NEW z \in Nat, Carries(h, z, d[2])
      PROVE  Walks(f, p, k, d, z)
  <2>1. PICK w \in Windows(k) :
           \/ IsSym(k, w) /\ d = <<Entry(k, w)[2], BitsOf(w, Step(k))>>
           \/ ~IsSym(k, w) /\ \E e \in Codes[Entry(k, w)[2]] :
                                d = <<e[1], BitsOf(w, Step(k)) \o e[2]>>
    BY CodesAre
  <2> DEFINE b == BitsOf(w, Step(k))
             v == Window(p, z, Step(k))
  <2>2. w \in Nat /\ Step(k) \in 1 .. 8 /\ Step(k) \in Nat
    BY TreeFacts
  <2>3. b \in Seq(Bit) /\ Len(b) = Step(k)
    BY <2>2, BitsAre
  <2>4. f[<<k, z>>] = NextFrom(f, p, k, z)
    BY DEF Follows
  <2>5. CASE ~Fits(p, z, Step(k))
    <3>1. f[<<k, z>>] \subseteq {<<>>}
      BY <2>4, <2>5 DEF NextFrom
    <3>2. ~(z + Len(d[2]) <= L)
      <4>1. z + Step(k) > L
        BY <1>1, <2>2, <2>5 DEF Fits
      <4>2. Len(d[2]) >= Step(k) /\ Len(d[2]) \in Nat
        <5>1. CASE IsSym(k, w)
          BY <2>1, <2>2, <2>3, <5>1
        <5>2. CASE ~IsSym(k, w)
          <6>1. PICK e \in Codes[Entry(k, w)[2]] : d = <<e[1], b \o e[2]>>
            BY <2>1, <5>2
          <6>2. Entry(k, w)[2] \in DOMAIN Tree
            BY <5>2, TreeFacts
          <6>3. e[2] \in Seq(Bit)
            BY <6>2, CodesType DEF Coded
          <6>4. Len(b \o e[2]) = Len(b) + Len(e[2]) /\ Len(e[2]) \in Nat
            BY <2>3, <6>3, Concat
          <6>5. Len(d[2]) = Step(k) + Len(e[2])
            BY <2>3, <6>1, <6>4
          <6> QED
            BY <2>2, <6>4, <6>5
        <5> QED
          BY <5>1, <5>2
      <4> QED
        BY <1>1, <2>2, <4>1, <4>2
    <3> QED
      BY <3>1, <3>2 DEF Walks
  <2>6. CASE Fits(p, z, Step(k)) /\ IsSym(k, w) /\ d = <<Entry(k, w)[2], b>>
    <3>1. d[2] = b /\ d[1] = Entry(k, w)[2]
      BY <2>6
    <3>2. v = w
      BY <1>2, <2>6, <3>1, WindowRead
    <3>3. f[<<k, z>>] = {<<d[1]>> \o s : s \in f[<<Root, z + Step(k)>>]}
      BY <2>4, <2>6, <3>1, <3>2, Zenon DEF NextFrom
    <3>4. z + Len(d[2]) <= L /\ Len(d[2]) = Step(k)
      BY <2>3, <2>6, <3>1 DEF Fits
    <3> QED
      BY <3>3, <3>4, Zenon DEF Walks
  <2>7. CASE Fits(p, z, Step(k)) /\ ~IsSym(k, w)
    <3> DEFINE j == Entry(k, w)[2]
    <3>1. PICK e \in Codes[j] : d = <<e[1], b \o e[2]>>
      BY <2>1, <2>7
    <3>2. j \in DOMAIN Tree /\ j \in S
      BY <1>2, <2>7, TreeFacts
    <3>3. e[2] \in Seq(Bit)
      BY <3>2, CodesType DEF Coded
    <3> DEFINE s == e[2]
    <3>4. d[1] = e[1] /\ d[2] = b \o s
      BY <3>1
    <3>5. Len(b \o s) = Len(b) + Len(s) /\ Len(s) \in Nat
      BY <2>3, <3>3, Concat
    <3>6. Carries(h, z, b) /\ Carries(h, z + Step(k), s)
      <4>1. Carries(h, z, b \o s)
        BY <1>2, <3>4
      <4> HIDE DEF b, s
      <4>2. b \in Seq(Bit) /\ s \in Seq(Bit)
        BY <2>3, <3>3 DEF s
      <4>3. Carries(h, z, b) /\ Carries(h, z + Len(b), s)
        BY <4>1, <4>2, CarriesParts
      <4> QED
        BY <2>3, <4>3
    <3>7. v = w
      BY <2>7, <3>6, WindowRead
    <3>8. f[<<k, z>>] = f[<<j, z + Step(k)>>]
      BY <2>4, <2>7, <3>7, Zenon DEF NextFrom
    <3>9. z + Step(k) \in Nat
      BY <2>2
    <3>10. Walks(f, p, j, e, z + Step(k))
      <4>1. Good(j)
        BY <3>2
      <4> QED
        BY <3>6, <3>9, <4>1
    <3>11. z + Step(k) + Len(s) = z + Len(d[2])
      BY <2>2, <2>3, <3>4, <3>5
    <3> HIDE DEF b, v, j, L
    <3> QED
      BY <3>4, <3>8, <3>10, <3>11, Zenon DEF Walks, s
  <2> QED
    BY <2>1, <2>5, <2>6, <2>7
<1>3. \A k \in DOMAIN Tree : k \in S
  <2>1. \A k \in DOMAIN Tree :
          (\A w \in Windows(k) : ~IsSym(k, w) => Entry(k, w)[2] \in S) => k \in S
    BY <1>2
  <2> HIDE DEF S
  <2> QED
    BY <2>1, TreeInduction
<1> QED
  BY <1>3

-----------------------------------------------------------------------------
(* The filling of the last byte                                            *)

\* A multiple leaves no rest.
LEMMA Multiple ==
  ASSUME NEW m \in Nat, NEW c \in Nat, c > 0
  PROVE  (m * c) % c = 0
<1> DEFINE a == m * c
<1>1. (m + 1) * c = m * c + c /\ m * c \in Nat
  OBVIOUS
<1> HIDE DEF a
<1>2. m * c <= a /\ a < (m + 1) * c /\ a \in Nat
  BY <1>1 DEF a
<1>3. a % c = a - m * c
  BY ONLY <1>2, V!DivUnique, m \in Nat, c \in Nat, c > 0, Eight
<1> QED
  BY <1>1, <1>3 DEF a

\* Ones make the number below a power of two.
LEMMA OnesNumber ==
  ASSUME NEW h \in Bits, NEW k \in Nat, NEW n \in 0 .. 16, \A i \in 1 .. n : h[k + i] = 1
  PROVE  Number(h, k)[n] + 1 = 2 ^ n
<1> DEFINE N == Number(h, k)
           S == {i \in Nat : i <= n => N[i] + 1 = 2 ^ i}
<1>1. /\ N[0] = 0 /\ \A i \in 0 .. 15 : N[i + 1] = 2 * N[i] + h[k + i + 1]
      /\ \A i \in 0 .. 16 : N[i] \in Nat
  BY NumberIs
<1> HIDE DEF N
<1>2. 0 \in S
  <2>1. 2 ^ 0 = 1
    OBVIOUS
  <2> QED
    BY <1>1, <2>1
<1>3. ASSUME NEW i \in Nat, i \in S PROVE i + 1 \in S
  <2>1. SUFFICES ASSUME i + 1 <= n PROVE N[i + 1] + 1 = 2 ^ (i + 1)
    OBVIOUS
  <2>2. i \in 0 .. 15 /\ i \in 0 .. 16 /\ i <= n /\ i + 1 \in 1 .. n /\ k + (i + 1) = k + i + 1
    BY <2>1
  <2> DEFINE a == 2 ^ i
             b == 2 ^ (i + 1)
  <2>3. b = 2 * a /\ a \in Nat
    BY <2>2, TwoTo
  <2>4. N[i] + 1 = a /\ N[i + 1] = 2 * N[i] + 1 /\ N[i] \in Nat
    BY <1>1, <1>3, <2>2
  <2> HIDE DEF a, b
  <2> DEFINE x == N[i]
             y == N[i + 1]
  <2>5. y + 1 = b
    <3>1. x + 1 = a /\ y = 2 * x + 1 /\ x \in Nat
      BY <2>4
    <3> HIDE DEF x, y
    <3> QED
      BY ONLY <2>3, <3>1
  <2> QED
    BY <2>5 DEF b
<1>4. \A i \in Nat : i \in S
  <2> HIDE DEF S
  <2> QED
    BY <1>2, <1>3, V!NatSetInduction
<1> QED
  BY <1>4 DEF N

\* check_eof takes less than a byte of ones for the end.
LEMMA AtEndOnes ==
  ASSUME NEW p \in Bytes, NEW h \in Bits, Packs(p, h), NEW at \in Nat,
         at <= 8 * Len(p), 8 * Len(p) < at + 8,
         \A i \in Nat : at < i /\ i <= 8 * Len(p) => h[i] = 1
  PROVE  AtEnd(p, at)
<1> DEFINE b == Len(p)
<1>1. b \in Nat /\ Len(p) = b
  BY ByteAt
<1>2. CASE at = 8 * b
  <2>1. at \div 8 = b
    <3> HIDE DEF b
    <3> QED
      BY <1>1, <1>2
  <2> QED
    BY <1>1, <1>2, <2>1 DEF AtEnd
<1>3. CASE at # 8 * b
  <2> DEFINE k == 8 * (b - 1)
             o == at - k
             r == 8 - o
  <2>1. /\ b >= 1 /\ b \in 1 .. b /\ k \in Nat /\ o \in 1 .. 7 /\ r \in 1 .. 7 /\ at = k + o
        /\ o + r = 8 /\ at + r = 8 * b
    <3>1. at < 8 * b /\ 8 * b < at + 8
      BY <1>1, <1>3
    <3> HIDE DEF b
    <3>2. b >= 1
      BY <1>1, <3>1
    <3> QED
      BY <1>1, <3>1, <3>2
  <2>2. at \div 8 = b - 1 /\ at % 8 = o
    <3> HIDE DEF b, o, r
    <3> QED
      BY <1>1, <2>1
  <2> DEFINE N == Number(h, k)
             M == Number(h, at)
             c == 2 ^ r
             x == N[o]
             y == M[r]
  <2>3. p[b] = N[8]
    <3>1. p[b] = Octet(h, 8 * (b - 1))
      BY <2>1 DEF Packs
    <3>2. Octet(h, k) = N[8]
      BY <2>1, OctetIs
    <3> QED
      BY <3>1, <3>2
  <2> HIDE DEF o, r, k, b
  <2>4. N[o + r] = N[o] * 2 ^ r + M[r]
    <3>1. o \in Nat /\ r \in Nat /\ o + r <= 16
      BY <2>1
    <3>2. Number(h, k)[o + r] = Number(h, k)[o] * 2 ^ r + Number(h, k + o)[r]
      <4> HIDE DEF N, M, c, x, y
      <4>1. k \in Nat /\ h \in Bits
        BY <2>1
      <4> QED
        BY ONLY <3>1, <4>1, NumberSplits DEF SplitAt
    <3> QED
      BY <2>1, <3>2, Zenon
  <2>5. M[r] + 1 = 2 ^ r
    <3>1. \A i \in 1 .. r : h[at + i] = 1
      <4>1. \A i \in 1 .. r : at + i \in Nat /\ at < at + i /\ at + i <= 8 * b
        BY <1>1, <2>1
      <4> QED
        BY <1>1, <4>1
    <3>2. r \in 0 .. 16
      BY <2>1
    <3> QED
      BY <3>1, <3>2, OnesNumber
  <2>6. x \in Nat /\ y \in Nat /\ c \in Nat /\ c > 0
    <3>1. o \in 0 .. 16 /\ r \in 0 .. 16
      BY <2>1
    <3> QED
      BY <2>1, <3>1, NumberIs, TwoTo
  <2>7. p[b] = x * c + y /\ y + 1 = c
    BY <2>1, <2>3, <2>4, <2>5
  <2> HIDE DEF x, y, c, N, M
  <2>8. p[b] + 1 = (x + 1) * c + 0 /\ x + 1 \in Nat
    <3> DEFINE e == p[b]
    <3> HIDE DEF e
    <3>1. e = x * c + y
      BY <2>7 DEF e
    <3>2. e + 1 = (x + 1) * c + 0
      BY ONLY <3>1, <2>6, <2>7
    <3> QED
      BY <2>6, <3>2 DEF e
  <2>9. (p[b] + 1) % c = 0
    <3>1. PICK m \in Nat : m = x + 1 /\ p[b] + 1 = m * c
      <4>1. x + 1 \in Nat /\ (x + 1) * c + 0 = (x + 1) * c
        BY <2>6
      <4> QED
        BY <2>8, <4>1
    <3>2. (m * c) % c = 0
      BY <2>6, Multiple, Zenon
    <3> QED
      BY <3>1, <3>2, Zenon
  <2>10. (p[Len(p)] + 1) % 2 ^ (8 - (at % 8)) = 0
    <3>1. 8 - (at % 8) = r
      BY <2>2 DEF r
    <3> QED
      BY <1>1, <2>9, <3>1, Zenon DEF c
  <2>11. at \div 8 = Len(p) - 1
    BY <1>1, <2>2
  <2> QED
    BY <2>10, <2>11, Zenon DEF AtEnd
<1> QED
  BY <1>2, <1>3

\* The ones that fill up the last byte decode to nothing.
LEMMA FillerWalk ==
  ASSUME NEW p \in Bytes, NEW h \in Bits, Packs(p, h), NEW f, Follows(f, p), NEW at \in Nat,
         at <= 8 * Len(p), 8 * Len(p) < at + 8,
         \A i \in Nat : at < i /\ i <= 8 * Len(p) => h[i] = 1
  PROVE  f[<<Root, at>>] = {<<>>}
<1> DEFINE L == 8 * Len(p)
<1>1. L \in Nat
  BY ByteAt
<1>2. PICK Q \in SUBSET DOMAIN Tree :
        /\ Root \in Q
        /\ \A n \in Q : Depth[n] + Step(n) < 8 =>
             /\ 2 ^ Step(n) - 1 \in Windows(n)
             /\ Entry(n, 2 ^ Step(n) - 1)[1] = "node" /\ Entry(n, 2 ^ Step(n) - 1)[2] \in Q
  BY FillerAssumption DEF Step, Windows, Entry
<1> DEFINE S == {n \in DOMAIN Tree : n \in Q /\ at + Depth[n] <= L => f[<<n, at + Depth[n]>>] = {<<>>}}
<1>3. ASSUME NEW n \in DOMAIN Tree,
             \A w \in Windows(n) : ~IsSym(n, w) => Entry(n, w)[2] \in S,
             n \in Q, at + Depth[n] <= L
      PROVE  f[<<n, at + Depth[n]>>] = {<<>>}
  <2> DEFINE z == at + Depth[n]
             s == Step(n)
             w == 2 ^ s - 1
  <2>1. Depth[n] \in Nat /\ s \in 1 .. 8 /\ z \in Nat /\ s \in 0 .. 16
    <3>1. Depth[n] \in 0 .. 30 /\ s \in 1 .. 8
      BY TreeFacts DEF LongestCode
    <3> DEFINE dn == Depth[n]
    <3> HIDE DEF s, dn
    <3>2. dn \in Nat /\ at + dn \in Nat /\ s \in 0 .. 16
      <4>1. dn \in 0 .. 30 /\ s \in 1 .. 8 /\ at \in Nat
        BY <3>1 DEF dn
      <4> QED
        BY ONLY <4>1
    <3> QED
      BY <3>1, <3>2 DEF dn
  <2>2. f[<<n, z>>] = NextFrom(f, p, n, z)
    <3> HIDE DEF z
    <3> QED
      BY <2>1 DEF Follows
  <2>3. \A i \in Nat : z < i /\ i <= L => h[i] = 1
    <3>1. \A i \in Nat : z < i => at < i
      BY <2>1
    <3> QED
      BY <3>1
  <2>4. z <= L /\ L < z + 8
    BY <1>1, <1>3, <2>1
  <2>5. CASE ~Fits(p, z, s)
    <3>1. AtEnd(p, z)
      <4> HIDE DEF z
      <4> QED
        BY <2>1, <2>3, <2>4, AtEndOnes
    <3> QED
      BY <2>2, <2>5, <3>1 DEF NextFrom
  <2>6. CASE Fits(p, z, s)
    <3>1. z + s <= L /\ Depth[n] + s < 8
      <4>1. z + s <= L
        BY <2>6 DEF Fits
      <4> DEFINE dn == Depth[n]
      <4>2. z = at + dn /\ dn \in Nat /\ L < at + 8
        BY <2>1
      <4> HIDE DEF z, s, L, dn
      <4>3. dn + s < 8
        BY ONLY <1>1, <2>1, <4>1, <4>2, at \in Nat
      <4> QED
        BY <4>1, <4>3 DEF dn
    <3>2. /\ w \in Windows(n) /\ ~IsSym(n, w) /\ Entry(n, w)[2] \in Q
      <4>1. "sym" # "node"
        OBVIOUS
      <4> QED
        BY <1>2, <1>3, <3>1, <4>1, Zenon DEF IsSym
    <3> DEFINE j == Entry(n, w)[2]
    <3>3. j \in S /\ j \in DOMAIN Tree /\ Depth[j] = Depth[n] + s
      BY <1>3, <3>2, TreeFacts
    <3>4. at + Depth[j] = z + s /\ at + Depth[j] <= L
      <4> DEFINE dn == Depth[n]
                 dj == Depth[j]
      <4>1. z = at + dn /\ dn \in Nat /\ dj = dn + s
        BY <2>1, <3>3
      <4> HIDE DEF z, s, L, dn, dj
      <4>2. at + dj = z + s
        BY ONLY <2>1, <4>1, at \in Nat
      <4> QED
        BY <3>1, <4>2 DEF dj
    <3>5. f[<<j, z + s>>] = {<<>>}
      BY <3>2, <3>3, <3>4
    <3>6. Window(p, z, s) = w
      <4>1. Window(p, z, s) = Number(h, z)[s]
        <5> HIDE DEF z, s
        <5> QED
          BY <2>1, <3>1, WindowIs
      <4>2. \A i \in 1 .. s : h[z + i] = 1
        <5>1. \A i \in 1 .. s : z + i \in Nat /\ z < z + i /\ z + i <= L
          <6> HIDE DEF z, s, L
          <6> QED
            BY <1>1, <2>1, <3>1
        <5> QED
          BY <2>3, <5>1
      <4>3. Number(h, z)[s] + 1 = 2 ^ s
        <5> HIDE DEF z, s
        <5> QED
          BY <2>1, <4>2, OnesNumber
      <4>4. Number(h, z)[s] \in Nat
        <5> HIDE DEF z, s
        <5> QED
          BY <2>1, NumberIs
      <4> DEFINE x == Number(h, z)[s]
                 y == 2 ^ s
      <4>5. x = y - 1
        <5>1. x + 1 = y /\ x \in Nat
          BY <4>3, <4>4
        <5> HIDE DEF x, y
        <5> QED
          BY <5>1
      <4> QED
        BY <4>1, <4>5, Zenon
    <3> HIDE DEF z, s, w
    <3>7. f[<<n, z>>] = f[<<j, z + s>>]
      BY <2>2, <2>6, <3>2, <3>6, Zenon DEF NextFrom, s
    <3> QED
      BY <3>5, <3>7, Zenon DEF z
  <2> QED
    BY <2>5, <2>6
<1>4. \A n \in DOMAIN Tree : n \in S
  <2>1. \A n \in DOMAIN Tree :
          (\A w \in Windows(n) : ~IsSym(n, w) => Entry(n, w)[2] \in S) => n \in S
    BY <1>3
  <2> HIDE DEF S
  <2> QED
    BY <2>1, TreeInduction
<1>5. Root \in S /\ at + Depth[Root] = at
  BY <1>4, HuffmanAssumption
<1> QED
  BY <1>2, <1>5

-----------------------------------------------------------------------------
(* Decoding a string                                                       *)

\* The codes of s stand in h, at[i] bits are those of its first i symbols, and
\* ones fill up e bits.
Spells(h, s, at, e) ==
  /\ at \in [0 .. Len(s) -> Nat] /\ at[0] = 0
  /\ \A i \in 0 .. Len(s) - 1 :
       \E c \in Codes[Root] : /\ c[1] = s[i + 1] /\ Carries(h, at[i], c[2])
                              /\ at[i + 1] = at[i] + Len(c[2])
  /\ \A i \in 0 .. Len(s) : at[i] <= at[Len(s)]
  /\ e \in Nat /\ at[Len(s)] <= e /\ e < at[Len(s)] + 8
  /\ \A i \in Nat : at[Len(s)] < i /\ i <= e => h[i] = 1

\* The strings that s without its first i symbols begins with.
Begins(s, i) == {SubSeq(s, i + 1, k) : k \in i .. Len(s)}

\* A payload with the codes of s decodes to s if it is all of them with the
\* filling, and to what s begins with if it lacks bytes at its end: by induction
\* from the last symbol to the first.
LEMMA SpelledWalk ==
  ASSUME NEW p \in Bytes, NEW h \in Bits, Packs(p, h), NEW f, Follows(f, p), NEW s \in Bytes,
         NEW at, NEW e, Spells(h, s, at, e), 8 * Len(p) <= e
  PROVE  /\ f[<<Root, 0>>] \subseteq Begins(s, 0)
         /\ 8 * Len(p) = e => f[<<Root, 0>>] = {s}
<1> DEFINE N == Len(s)
           L == 8 * Len(p)
           R(i) == f[<<Root, at[i]>>]
           P(i) == at[i] <= L => /\ R(i) \subseteq Begins(s, i)
                                 /\ L = e => R(i) = {SubSeq(s, i + 1, N)}
           S == {j \in Nat : j <= N => P(N - j)}
<1>1. N \in Nat /\ L \in Nat /\ L <= e
  BY ByteAt
<1>2. /\ at[0] = 0 /\ \A i \in 0 .. N : at[i] \in Nat /\ at[i] <= at[N]
      /\ e \in Nat /\ at[N] <= e /\ e < at[N] + 8
      /\ \A i \in Nat : at[N] < i /\ i <= e => h[i] = 1
  BY DEF Spells
<1>3. ASSUME NEW i \in 0 .. N - 1
      PROVE  \E c \in Codes[Root] : /\ c[1] = s[i + 1] /\ Carries(h, at[i], c[2])
                                    /\ at[i + 1] = at[i] + Len(c[2])
  BY DEF Spells
<1> HIDE DEF L, N
<1>4. P(N)
  <2>1. SUFFICES ASSUME at[N] <= L
                 PROVE  R(N) \subseteq Begins(s, N) /\ R(N) = {SubSeq(s, N + 1, N)}
    OBVIOUS
  <2>2. at[N] \in Nat /\ L < at[N] + 8 /\ \A i \in Nat : i <= L => i <= e
    BY <1>1, <1>2
  <2>3. \A i \in Nat : at[N] < i /\ i <= L => h[i] = 1
    BY <1>2, <2>2
  <2>4. R(N) = {<<>>}
    BY <2>1, <2>2, <2>3, FillerWalk DEF L
  <2>5. SubSeq(s, N + 1, N) = <<>>
    BY <1>1 DEF Bytes, N
  <2>6. <<>> \in Begins(s, N)
    <3>1. N \in N .. N
      BY <1>1
    <3> QED
      BY <2>5, <3>1 DEF Begins, N
  <2> HIDE DEF R
  <2> QED
    BY <2>4, <2>5, <2>6
<1>5. ASSUME NEW i \in 0 .. N - 1, P(i + 1) PROVE P(i)
  <2>1. SUFFICES ASSUME at[i] <= L
                 PROVE  /\ R(i) \subseteq Begins(s, i)
                        /\ L = e => R(i) = {SubSeq(s, i + 1, N)}
    OBVIOUS
  <2>2. /\ i \in 0 .. N /\ i + 1 \in 0 .. N /\ i \in Nat /\ i + 1 \in 1 .. N
        /\ at[i] \in Nat /\ at[i + 1] \in Nat /\ at[i + 1] <= e
    <3>1. i \in 0 .. N /\ i + 1 \in 0 .. N /\ N \in 0 .. N
      BY <1>1
    <3>2. at[i] \in Nat /\ at[i + 1] \in Nat /\ at[N] \in Nat /\ at[i + 1] <= at[N]
      BY <1>2, <3>1
    <3> QED
      BY <1>1, <1>2, <3>1, <3>2
  <2>3. PICK c \in Codes[Root] : /\ c[1] = s[i + 1] /\ Carries(h, at[i], c[2])
                                 /\ at[i + 1] = at[i] + Len(c[2])
    BY <1>3
  <2>4. Walks(f, p, Root, c, at[i])
    BY <2>2, <2>3, HuffmanAssumption, CodeWalk
  <2>5. CASE at[i + 1] <= L
    <3> DEFINE b == s[i + 1]
    <3>1. R(i) = {<<b>> \o t : t \in R(i + 1)}
      BY <2>3, <2>4, <2>5, Zenon DEF Walks, L
    <3>2. \A k \in i + 1 .. N : <<b>> \o SubSeq(s, i + 1 + 1, k) = SubSeq(s, i + 1, k)
      <4>1. ASSUME NEW k \in i + 1 .. N
            PROVE  <<b>> \o SubSeq(s, i + 1 + 1, k) = SubSeq(s, i + 1, k)
        <5>1. PICK n \in Nat : n > 0 /\ i + n = k /\ i + n <= Len(s)
          <6>1. k - i \in Nat /\ k - i > 0 /\ i + (k - i) = k /\ k <= N
            BY <1>1, <2>2
          <6> QED
            BY <6>1 DEF N
        <5>2. SubSeq(s, i + 1, i + n) = <<s[i + 1]>> \o SubSeq(s, i + 1 + 1, i + n)
          BY <2>2, <5>1, Eight, V!FirstAndRest, Zenon DEF Bytes
        <5> QED
          BY <5>1, <5>2, Zenon
      <4> QED
        BY <4>1
    <3> HIDE DEF b
    <3>3. R(i) \subseteq Begins(s, i)
      <4>1. ASSUME NEW t \in R(i + 1) PROVE <<b>> \o t \in Begins(s, i)
        <5>1. t \in Begins(s, i + 1)
          BY <1>5, <2>5
        <5>2. PICK k \in i + 1 .. N : t = SubSeq(s, i + 1 + 1, k)
          BY <5>1 DEF Begins, N
        <5>3. <<b>> \o t = SubSeq(s, i + 1, k)
          BY <3>2, <5>2
        <5>4. k \in i .. N
          BY <1>1, <2>2
        <5> QED
          BY <5>3, <5>4 DEF Begins, N
      <4> QED
        BY <3>1, <4>1
    <3>4. ASSUME L = e PROVE R(i) = {SubSeq(s, i + 1, N)}
      <4>1. R(i + 1) = {SubSeq(s, i + 1 + 1, N)}
        BY <1>5, <2>5, <3>4
      <4>2. N \in i + 1 .. N
        BY <1>1, <2>2
      <4>3. <<b>> \o SubSeq(s, i + 1 + 1, N) = SubSeq(s, i + 1, N)
        BY <3>2, <4>2
      <4> HIDE DEF R
      <4> QED
        BY <3>1, <4>1, <4>3
    <3> QED
      BY <3>3, <3>4
  <2>6. CASE ~(at[i + 1] <= L)
    <3>1. R(i) \subseteq {<<>>}
      BY <2>3, <2>4, <2>6 DEF Walks, L
    <3>2. SubSeq(s, i + 1, i) = <<>> /\ i \in i .. N
      BY <1>1, <2>2 DEF Bytes
    <3>3. <<>> \in Begins(s, i)
      BY <3>2 DEF Begins, N
    <3>4. L # e
      BY <1>1, <1>2, <2>2, <2>6
    <3> QED
      BY <3>1, <3>3, <3>4
  <2> QED
    BY <2>5, <2>6
<1> HIDE DEF P
<1>6. 0 \in S
  <2>1. N - 0 = N
    BY <1>1
  <2> QED
    BY <1>4, <2>1
<1>7. ASSUME NEW j \in Nat, j \in S PROVE j + 1 \in S
  <2>1. SUFFICES ASSUME j + 1 <= N PROVE P(N - (j + 1))
    OBVIOUS
  <2>2. PICK i \in 0 .. N - 1 : i = N - (j + 1) /\ i + 1 = N - j /\ j <= N
    <3>1. N - (j + 1) \in 0 .. N - 1 /\ N - (j + 1) + 1 = N - j /\ j <= N
      BY <1>1, <2>1
    <3> QED
      BY <3>1
  <2>3. P(i + 1)
    BY <1>7, <2>2
  <2> QED
    BY <1>5, <2>2, <2>3
<1>8. \A j \in Nat : j \in S
  <2> HIDE DEF S
  <2> QED
    BY <1>6, <1>7, V!NatSetInduction
<1>9. P(0)
  <2>1. N \in S /\ N <= N /\ N - N = 0
    BY <1>1, <1>8
  <2> QED
    BY <2>1
<1>10. SubSeq(s, 0 + 1, N) = s
  BY DEF Bytes, N
<1>11. at[0] <= L
  BY <1>1, <1>2
<1> QED
  BY <1>2, <1>9, <1>10, <1>11 DEF P, L, N

\* The code that the encoder picks for a symbol is one of the tree.
LEMMA CodeOfIs ==
  ASSUME NEW x \in DOMAIN CodeOf
  PROVE  <<x, CodeOf[x]>> \in Codes[Root] /\ CodeOf[x] \in Seq(Bit)
<1>1. PICK c \in Codes[Root] : c[1] = x
  BY DEF CodeOf
<1> DEFINE d == CHOOSE d \in Codes[Root] : d[1] = x
<1>2. d \in Codes[Root] /\ d[1] = x
  BY <1>1
<1>3. CodeOf[x] = d[2]
  BY DEF CodeOf
<1> HIDE DEF d
<1>4. d \in Coded
  BY <1>2, CodesType, HuffmanAssumption
<1>5. d = <<d[1], d[2]>> /\ d[2] \in Seq(Bit)
  BY <1>4 DEF Coded
<1> QED
  BY <1>2, <1>3, <1>5

\* Where the parts of a flattened sequence begin.
LEMMA Flattened ==
  ASSUME NEW S, NEW ss \in Seq(Seq(S))
  PROVE  FlattenSeq(ss) \in Seq(S) /\ \E at : V!Laid(FlattenSeq(ss), ss, at)
<1>1. V!FlattenSeq(ss) = FlattenSeq(ss)
  BY DEF FlattenSeq, V!FlattenSeq
<1>2. V!FlattenSeq(ss) \in Seq(S) /\ \E at : V!Laid(V!FlattenSeq(ss), ss, at)
  BY Eight, V!FlattenLaid, Zenon
<1> QED
  BY <1>1, <1>2, Zenon

\* The payload that an encoder makes of s, as bits.
LEMMA EncodingSpells ==
  ASSUME NEW s \in Bytes, NEW p \in Encodings(s)
  PROVE  /\ p \in Bytes
         /\ \E h \in Bits : Packs(p, h) /\ \E at : Spells(h, s, at, 8 * Len(p))
<1> DEFINE N == Len(s)
           codes == [i \in DOMAIN s |-> CodeOf[s[i]]]
           flat == FlattenSeq(codes)
           F == Len(flat)
           r == (0 - F) % 8
           ones == [i \in 1 .. r |-> 1]
           bits == Filled(flat)
           B == F + r
           h == [k \in Nat |-> IF k \in 1 .. B THEN bits[k] ELSE 0]
<1>1. /\ \A i \in 1 .. N : s[i] \in DOMAIN CodeOf
      /\ p = [b \in 1 .. Len(bits) \div 8 |-> Octet(bits, 8 * (b - 1))]
  <2>1. Range(s) \subseteq DOMAIN CodeOf
    BY DEF Encodings
  <2>2. p \in {[b \in 1 .. Len(bits) \div 8 |-> Octet(bits, 8 * (b - 1))]}
    BY <2>1 DEF Encodings
  <2>3. \A i \in 1 .. N : s[i] \in Range(s)
    BY DEF Bytes, Range
  <2> QED
    BY <2>1, <2>2, <2>3
<1>2. N \in Nat /\ DOMAIN s = 1 .. N
  BY DEF Bytes
<1>3. codes \in Seq(Seq(Bit)) /\ Len(codes) = N /\ \A i \in 1 .. N : codes[i] = CodeOf[s[i]]
  <2>1. \A i \in 1 .. N : CodeOf[s[i]] \in Seq(Bit)
    BY <1>1, CodeOfIs
  <2> HIDE DEF N, Bit
  <2>2. codes \in [1 .. N -> Seq(Bit)]
    BY <1>2, <2>1
  <2> QED
    BY <1>2, <2>2
<1> HIDE DEF codes
<1>4. PICK at : flat \in Seq(Bit) /\ V!Laid(flat, codes, at)
  BY <1>3, Flattened, Zenon
<1>5. F \in Nat
  BY <1>4
<1>6. r \in 0 .. 7 /\ (F + r) % 8 = 0
  <2> HIDE DEF F
  <2> QED
    BY <1>5
<1>7. ones \in Seq(Bit) /\ Len(ones) = r /\ \A i \in 1 .. r : ones[i] = 1
  <2> HIDE DEF r
  <2> QED
    BY <1>6 DEF Bit
<1>8. bits = flat \o ones
  BY DEF Filled
<1> HIDE DEF flat, r, ones, bits
<1>9. /\ bits \in Seq(Bit) /\ Len(bits) = B /\ B \in Nat /\ B % 8 = 0
      /\ \A i \in 1 .. F : bits[i] = flat[i]
      /\ \A i \in 1 .. r : bits[F + i] = 1
  <2>1. /\ bits \in Seq(Bit) /\ Len(bits) = Len(flat) + Len(ones)
        /\ \A i \in 1 .. Len(flat) : bits[i] = flat[i]
        /\ \A i \in 1 .. Len(ones) : bits[Len(flat) + i] = ones[i]
    <3> DEFINE c == flat \o ones
    <3>1. /\ c \in Seq(Bit) /\ Len(c) = Len(flat) + Len(ones)
          /\ \A i \in 1 .. Len(flat) : c[i] = flat[i]
          /\ \A i \in 1 .. Len(ones) : c[Len(flat) + i] = ones[i]
      <4>1. flat \in Seq(Bit) /\ ones \in Seq(Bit)
        BY <1>4, <1>7
      <4> HIDE DEF Bit
      <4> QED
        BY <4>1, Concat
    <3>2. bits = c
      BY <1>8
    <3> HIDE DEF c
    <3> QED
      BY <3>1, <3>2
  <2> HIDE DEF Bit
  <2>2. Len(bits) = B /\ B \in Nat /\ B % 8 = 0
    BY <1>5, <1>6, <1>7, <2>1
  <2>3. \A i \in 1 .. r : bits[F + i] = 1
    BY <1>7, <2>1, Zenon DEF F
  <2> QED
    BY <2>1, <2>2, <2>3
<1> DEFINE E == B \div 8
<1>10. E \in Nat /\ 8 * E = B
  <2> HIDE DEF B
  <2> QED
    BY <1>9
<1>11. p = [b \in 1 .. E |-> Octet(bits, 8 * (b - 1))]
  BY <1>1, <1>9
<1> HIDE DEF E
<1>12. h \in Bits /\ \A k \in 1 .. B : k \in Nat /\ h[k] = bits[k]
  <2>1. \A k \in 1 .. B : bits[k] \in Bit /\ k \in Nat
    BY <1>9
  <2>2. 0 \in Bit
    BY DEF Bit
  <2> HIDE DEF B
  <2> QED
    BY <2>1, <2>2 DEF Bits
<1> HIDE DEF h, B, F
<1>13. ASSUME NEW b \in 1 .. E PROVE Octet(bits, 8 * (b - 1)) = Octet(h, 8 * (b - 1))
  <2> DEFINE k == 8 * (b - 1)
  <2>1. /\ k + 1 \in 1 .. B /\ k + 2 \in 1 .. B /\ k + 3 \in 1 .. B /\ k + 4 \in 1 .. B
        /\ k + 5 \in 1 .. B /\ k + 6 \in 1 .. B /\ k + 7 \in 1 .. B /\ k + 8 \in 1 .. B
    BY <1>10
  <2> HIDE DEF k
  <2>2. /\ bits[k + 1] = h[k + 1] /\ bits[k + 2] = h[k + 2] /\ bits[k + 3] = h[k + 3]
        /\ bits[k + 4] = h[k + 4] /\ bits[k + 5] = h[k + 5] /\ bits[k + 6] = h[k + 6]
        /\ bits[k + 7] = h[k + 7] /\ bits[k + 8] = h[k + 8]
    BY <1>12, <2>1
  <2> QED
    BY <2>2, Zenon DEF Octet, k
<1>14. p \in Bytes /\ Len(p) = E /\ Packs(p, h)
  <2>1. \A b \in 1 .. E : 8 * (b - 1) \in Nat
    BY <1>10
  <2>2. \A b \in 1 .. E : Octet(h, 8 * (b - 1)) \in Byte
    BY <1>12, <2>1, OctetIs
  <2>3. p = [b \in 1 .. E |-> Octet(h, 8 * (b - 1))]
    BY <1>11, <1>13
  <2> DEFINE o(b) == Octet(h, 8 * (b - 1))
  <2> HIDE DEF o, Byte
  <2>4. p = [b \in 1 .. E |-> o(b)] /\ \A b \in 1 .. E : o(b) \in Byte
    BY <2>2, <2>3 DEF o
  <2>5. p \in Seq(Byte) /\ Len(p) = E /\ \A b \in 1 .. E : p[b] = o(b)
    BY <1>10, <2>4
  <2> QED
    BY <2>5 DEF Bytes, Packs, o
<1>15. /\ at \in [0 .. N -> Nat] /\ at[0] = 0 /\ at[N] = F
       /\ \A i \in 1 .. N :
            /\ at[i] = at[i - 1] + Len(codes[i]) /\ at[i] <= F
            /\ \A j \in 1 .. Len(codes[i]) : flat[at[i - 1] + j] = codes[i][j]
  BY <1>3, <1>4 DEF V!Laid, F
<1>16. ASSUME NEW i \in 0 .. N - 1
       PROVE  \E c \in Codes[Root] : /\ c[1] = s[i + 1] /\ Carries(h, at[i], c[2])
                                     /\ at[i + 1] = at[i] + Len(c[2])
  <2>1. PICK k \in 1 .. N : k = i + 1 /\ k - 1 = i /\ i \in 0 .. N
    BY <1>2
  <2> DEFINE z == at[i]
             c == CodeOf[s[k]]
  <2>2. <<s[k], c>> \in Codes[Root] /\ c \in Seq(Bit)
    BY <1>1, CodeOfIs
  <2>3. /\ at[k] = z + Len(c) /\ at[k] <= F
        /\ \A j \in 1 .. Len(c) : flat[z + j] = c[j]
    <3>1. codes[k] = c
      BY <1>3
    <3>2. /\ at[k] = at[k - 1] + Len(codes[k]) /\ at[k] <= F
          /\ \A j \in 1 .. Len(codes[k]) : flat[at[k - 1] + j] = codes[k][j]
      BY <1>15
    <3> QED
      BY <2>1, <3>1, <3>2, Zenon
  <2>4. z \in Nat /\ at[k] \in Nat /\ Len(c) \in Nat
    BY <1>15, <2>1, <2>2
  <2> HIDE DEF c, z
  <2>5. Carries(h, z, c)
    <3>1. ASSUME NEW j \in 1 .. Len(c) PROVE h[z + j] = c[j]
      <4>1. z + j \in 1 .. F /\ z + j \in 1 .. B
        BY <1>5, <1>6, <2>3, <2>4 DEF B
      <4>2. h[z + j] = bits[z + j] /\ bits[z + j] = flat[z + j]
        BY <1>9, <1>12, <4>1
      <4> QED
        BY <2>3, <4>2
    <3> QED
      BY <3>1 DEF Carries
  <2> DEFINE e == <<s[k], c>>
  <2>6. e[1] = s[k] /\ e[2] = c
    OBVIOUS
  <2> HIDE DEF e
  <2>7. e[1] = s[i + 1] /\ Carries(h, at[i], e[2]) /\ at[i + 1] = at[i] + Len(e[2])
    BY <2>1, <2>3, <2>5, <2>6, Zenon DEF z
  <2> QED
    BY <2>2, <2>7, Zenon DEF e
<1>17. \A i \in 0 .. N : at[i] <= F
  <2>1. ASSUME NEW i \in 0 .. N, i # 0 PROVE at[i] <= F
    BY <1>15, <2>1
  <2> QED
    BY <1>5, <1>15, <2>1
<1>18. B \in Nat /\ F <= B /\ B < F + 8
  BY <1>5, <1>6 DEF B
<1>19. ASSUME NEW i \in Nat, F < i, i <= B PROVE h[i] = 1
  <2>1. PICK j \in 1 .. r : i = F + j
    <3>1. i - F \in 1 .. r /\ i = F + (i - F)
      BY <1>5, <1>6, <1>19 DEF B
    <3> QED
      BY <3>1
  <2>2. i \in 1 .. B
    BY <1>5, <1>18, <1>19
  <2>3. h[i] = bits[i] /\ bits[F + j] = 1
    BY <1>9, <1>12, <2>2
  <2> QED
    BY <2>1, <2>3
<1>20. 8 * Len(p) = B
  BY <1>10, <1>14
<1>21. Spells(h, s, at, 8 * Len(p))
  <2>1. Spells(h, s, at, B)
    BY <1>15, <1>16, <1>17, <1>18, <1>19, Zenon DEF Spells, N
  <2> QED
    BY <1>20, <2>1
<1> QED
  BY <1>12, <1>14, <1>21

\* What an encoder makes of a string decodes to that string and to no other, and
\* a payload that lacks bytes at its end to an error or to what the string
\* begins with: huffman.rs takes no symbol out of a cut code or out of the ones
\* that fill up the last byte.
THEOREM EncodedDecodes ==
  ASSUME NEW s \in Bytes, NEW p \in Encodings(s)
  PROVE  /\ p \in Bytes
         /\ Decoded(p) = {s}
         /\ \A m \in 0 .. Len(p) : Decoded(SubSeq(p, 1, m)) \subseteq Begins(s, 0)
<1>1. p \in Bytes
  BY EncodingSpells
<1>2. PICK h \in Bits : Packs(p, h) /\ \E at : Spells(h, s, at, 8 * Len(p))
  BY EncodingSpells
<1>3. PICK at : Spells(h, s, at, 8 * Len(p))
  BY <1>2
<1>4. Decoded(p) = {s}
  <2>1. PICK f : Follows(f, p) /\ Decoded(p) = f[<<Root, 0>>]
    BY <1>1, DecodedFollows
  <2>2. 8 * Len(p) <= 8 * Len(p)
    BY <1>1, ByteAt
  <2> QED
    BY <1>1, <1>2, <1>3, <2>1, <2>2, SpelledWalk
<1>5. ASSUME NEW m \in 0 .. Len(p) PROVE Decoded(SubSeq(p, 1, m)) \subseteq Begins(s, 0)
  <2> DEFINE q == SubSeq(p, 1, m)
  <2>1. q \in Bytes /\ Len(q) = m /\ \A b \in 1 .. m : q[b] = p[b]
    BY <1>1 DEF Bytes
  <2> HIDE DEF q
  <2>2. \A b \in 1 .. m : b \in 1 .. Len(p)
    BY <1>1, ByteAt
  <2>3. Packs(q, h)
    BY <1>2, <2>1, <2>2 DEF Packs
  <2>4. 8 * Len(q) <= 8 * Len(p)
    BY <1>1, <2>1, ByteAt
  <2>5. PICK f : Follows(f, q) /\ Decoded(q) = f[<<Root, 0>>]
    BY <2>1, DecodedFollows
  <2>6. Decoded(q) \subseteq Begins(s, 0)
    BY <1>3, <2>1, <2>3, <2>4, <2>5, SpelledWalk
  <2> QED
    BY <2>6 DEF q
<1> QED
  BY <1>1, <1>4, <1>5
=============================================================================
