---------------------------- MODULE QpackProofs -----------------------------
(***************************************************************************)
(* Proofs about Qpack for every word, static table, set of fields and bound *)
(* of lines: the result of Headers::decode is what the writer sent.        *)
(*                                                                         *)
(* A line is read whole and never in part: its first byte tells the form,  *)
(* a prefix integer tells where it ends, and so do the lengths of its      *)
(* strings.  The inductive invariant follows what remains of the block: it *)
(* is the lines of the fields not read yet, with the end behind them, while *)
(* the map keeps the last values of those that were read.                  *)
(***************************************************************************)
EXTENDS Qpack, HuffmanProofs, FiniteSetTheorems

\* The sizes of prefixes and the flags that fit in front of them.
Sizes == {3, 4, 6, 7, 8}
Flags(size) == 0 .. 2 ^ (8 - size) - 1

\* A prefix and the flags in front of it fill one byte.
LEMMA SizeFacts ==
  ASSUME NEW size \in Sizes
  PROVE  /\ 2 ^ size \in Nat /\ 2 ^ size >= 8 /\ 2 ^ size <= 256
         /\ \A flags \in Flags(size) : flags \in Nat /\ flags * 2 ^ size + 2 ^ size <= 256
<1>1. CASE size = 3
  BY <1>1 DEF Flags
<1>2. CASE size = 4
  BY <1>2 DEF Flags
<1>3. CASE size = 6
  BY <1>3 DEF Flags
<1>4. CASE size = 7
  BY <1>4 DEF Flags
<1>5. CASE size = 8
  BY <1>5 DEF Flags
<1> QED
  BY <1>1, <1>2, <1>3, <1>4, <1>5 DEF Sizes

\* Each group of seven bits holds 128 times what the ones before it hold, and
\* MaxGroups of them hold a word.
LEMMA Groups ==
  /\ MaxGroups \in Nat /\ MaxGroups >= 2
  /\ Group(1) = 1
  /\ \A i \in 1 .. MaxGroups + 2 : Group(i) \in Nat /\ Group(i) > 0
  /\ \A i \in 1 .. MaxGroups + 1 : Group(i + 1) = 128 * Group(i)
  /\ Word \in Nat /\ Word >= 512
  /\ Word <= Group(MaxGroups + 1) /\ 2 * Word <= Group(MaxGroups + 2)
<1> DEFINE G == MaxGroups
           N == 7 * (G + 1)
<1>1. G \in Nat /\ G >= 2 /\ WordBits <= 7 * G /\ WordBits \in Nat /\ WordBits >= 9
  BY QpackAssumption DEF MaxGroups
<1>2. V!Doubles(Pow2, N)
  <2>1. N \in Nat
    BY <1>1
  <2>2. Pow2 = V!Powers(N)
    BY DEF Pow2, V!Powers
  <2> QED
    BY <2>1, <2>2, V!Doubling
<1>3. /\ Pow2[0] = 1
      /\ \A n \in Nat : n <= N => Pow2[n] \in Nat /\ Pow2[n] > 0
      /\ \A n \in Nat : n + 1 <= N => Pow2[n + 1] = 2 * Pow2[n]
      /\ \A a, b \in Nat : a + b <= N => Pow2[a + b] = Pow2[a] * Pow2[b]
      /\ \A a, b \in Nat : a <= b /\ b <= N => Pow2[a] <= Pow2[b]
  BY <1>2 DEF V!Doubles
<1>4. N \in Nat /\ N = 7 * G + 7 /\ N >= 21
  BY <1>1
<1> HIDE DEF G, N
<1>5. Pow2[1] = 2 /\ Pow2[7] = 128 /\ Pow2[9] = 512
  <2>1. 0 + 1 <= N /\ 1 + 1 <= N /\ 2 + 1 <= N /\ 3 + 1 <= N /\ 4 + 1 <= N /\ 5 + 1 <= N
        /\ 6 + 1 <= N /\ 7 + 1 <= N /\ 8 + 1 <= N
    BY <1>4
  <2>2. Pow2[0 + 1] = 2 * Pow2[0] /\ Pow2[1 + 1] = 2 * Pow2[1] /\ Pow2[2 + 1] = 2 * Pow2[2]
        /\ Pow2[3 + 1] = 2 * Pow2[3] /\ Pow2[4 + 1] = 2 * Pow2[4] /\ Pow2[5 + 1] = 2 * Pow2[5]
        /\ Pow2[6 + 1] = 2 * Pow2[6] /\ Pow2[7 + 1] = 2 * Pow2[7] /\ Pow2[8 + 1] = 2 * Pow2[8]
    BY ONLY <1>3, <2>1
  <2> QED
    BY <1>3, <2>2
<1>6. ASSUME NEW i \in 1 .. G + 2 PROVE Group(i) \in Nat /\ Group(i) > 0
  <2>1. 7 * (i - 1) \in Nat /\ 7 * (i - 1) <= N
    BY <1>1, <1>4
  <2> QED
    BY <1>3, <2>1 DEF Group
<1>7. ASSUME NEW i \in 1 .. G + 1 PROVE Group(i + 1) = 128 * Group(i)
  <2> DEFINE a == 7 * (i - 1)
  <2>1. a \in Nat /\ 7 \in Nat /\ a + 7 <= N /\ 7 * (i + 1 - 1) = a + 7 /\ a <= N
    BY <1>1, <1>4
  <2> HIDE DEF a
  <2>2. Pow2[a + 7] = Pow2[a] * Pow2[7] /\ Pow2[a] \in Nat
    BY <1>3, <2>1
  <2> QED
    BY <1>5, <2>1, <2>2 DEF Group, a
<1>8. Group(1) = 1
  BY <1>3 DEF Group
<1>9. Word \in Nat /\ Word >= 512
  <2>1. WordBits \in Nat /\ WordBits <= N /\ 9 \in Nat /\ 9 <= WordBits
    BY <1>1, <1>4
  <2>2. Pow2[9] <= Pow2[WordBits] /\ Pow2[WordBits] \in Nat
    BY <1>3, <2>1
  <2> QED
    BY <1>5, <2>2 DEF Word
<1>10. Word <= Group(G + 1)
  <2>1. 7 * (G + 1 - 1) = 7 * G /\ 7 * G \in Nat /\ 7 * G <= N
    BY <1>1, <1>4
  <2>2. Pow2[WordBits] <= Pow2[7 * G]
    BY <1>1, <1>3, <2>1
  <2>3. Group(G + 1) = Pow2[7 * G]
    <3>1. PICK k : k = G + 1
      OBVIOUS
    <3>2. 7 * (k - 1) = 7 * G
      BY <1>1, <3>1
    <3>3. Group(k) = Pow2[7 * G]
      BY <3>2, Zenon DEF Group
    <3> QED
      BY <3>1, <3>3
  <2> QED
    BY ONLY <2>2, <2>3 DEF Word
<1>11. 2 * Word <= Group(G + 2)
  <2>1. G + 1 \in 1 .. G + 1 /\ G + 1 \in 1 .. G + 2 /\ G + 1 + 1 = G + 2
    BY <1>1
  <2>2. Group(G + 2) = 128 * Group(G + 1) /\ Group(G + 1) \in Nat
    BY <1>6, <1>7, <2>1
  <2> QED
    BY <1>9, <1>10, <2>2
<1> QED
  BY <1>1, <1>6, <1>7, <1>8, <1>9, <1>10, <1>11 DEF G

-----------------------------------------------------------------------------
(* Prefix integers                                                         *)

\* The groups of seven bits of what exceeds the mask: n of them, the last one
\* not zero unless it is the only one.
Grouped(more, n) ==
  /\ n \in 1 .. MaxGroups + 1
  /\ more < Group(n + 1) /\ (n > 1 => more >= Group(n))

\* Every excess has its number of groups, and one in a word has at most as
\* many as decode_prefix reads.
LEMMA GroupedExists ==
  ASSUME NEW more \in Nat, more < 2 * Word
  PROVE  /\ \E n : Grouped(more, n)
         /\ \A n : Grouped(more, n) /\ more < Word => n <= MaxGroups
<1> DEFINE G == MaxGroups
           S == {k \in Nat : k <= G + 1 => more >= Group(k + 1)}
<1>1. G \in Nat /\ G >= 2
  BY Groups
<1>2. \A i \in 1 .. G + 2 : Group(i) \in Nat
  BY Groups
<1>3. Word \in Nat /\ Word <= Group(G + 1) /\ 2 * Word <= Group(G + 2) /\ Group(1) = 1
  BY Groups
<1>4. \E n : Grouped(more, n)
  <2>1. SUFFICES ASSUME \A n \in 1 .. G + 1 : n > 1 /\ more >= Group(n) => more >= Group(n + 1),
                        more >= Group(2)
                 PROVE  FALSE
    <3>1. 1 \in 1 .. G + 1 /\ 2 \in 1 .. G + 2 /\ 1 + 1 = 2
      BY <1>1
    <3>2. more < Group(2) => Grouped(more, 1)
      BY <3>1 DEF Grouped
    <3>3. ASSUME NEW n \in 1 .. G + 1, n > 1, more >= Group(n), ~(more >= Group(n + 1))
          PROVE  Grouped(more, n)
      <4>1. n + 1 \in 1 .. G + 2
        BY <1>1
      <4> QED
        BY <1>2, <3>3, <4>1 DEF Grouped
    <3> QED
      BY <1>2, <3>1, <3>2, <3>3
  <2> DEFINE Q == {k \in Nat : k + 2 <= G + 2 => more >= Group(k + 2)}
  <2>2. 0 \in Q
    BY <2>1
  <2>3. ASSUME NEW k \in Nat, k \in Q PROVE k + 1 \in Q
    <3>1. SUFFICES ASSUME k + 1 + 2 <= G + 2 PROVE more >= Group(k + 1 + 2)
      OBVIOUS
    <3>2. k + 2 \in 1 .. G + 1 /\ k + 2 > 1 /\ k + 2 + 1 = k + 1 + 2 /\ k + 2 <= G + 2
      BY <1>1, <3>1
    <3> QED
      BY <2>1, <2>3, <3>2
  <2>4. \A k \in Nat : k \in Q
    <3> HIDE DEF Q
    <3> QED
      BY <2>2, <2>3, V!NatSetInduction
  <2>5. G \in Q
    BY <1>1, <2>4
  <2>6. more >= Group(G + 2) /\ Group(G + 2) \in Nat
    BY <1>1, <1>2, <2>5
  <2> QED
    BY <1>3, <2>6
<1>5. ASSUME NEW n, Grouped(more, n), more < Word PROVE n <= G
  <2>1. SUFFICES ASSUME n = G + 1 PROVE FALSE
    BY <1>1, <1>5 DEF Grouped
  <2>2. n > 1 /\ n \in 1 .. G + 2
    BY <1>1, <2>1
  <2>3. more >= Group(n) /\ Group(n) \in Nat
    BY <1>2, <1>5, <2>2 DEF Grouped
  <2> QED
    BY <1>3, <1>5, <2>1, <2>3
<1> QED
  BY <1>4, <1>5

\* The bytes of a prefix integer.
Digit(more, i) == (more \div Group(i)) % 128

\* The integer fits in front of the mask.
WrittenOne(e, size, flags, value) ==
  e = <<flags * 2 ^ size + value>> /\ value < 2 ^ size - 1

\* The mask stands first and n groups behind it.
WrittenMore(e, size, flags, value, n) ==
  LET more == value - (2 ^ size - 1) IN
  /\ more \in Nat /\ Grouped(more, n) /\ Len(e) = n + 1
  /\ e[1] = flags * 2 ^ size + (2 ^ size - 1)
  /\ \A i \in 1 .. n : /\ Digit(more, i) \in 0 .. 127
                       /\ e[i + 1] = (IF i < n THEN 128 ELSE 0) + Digit(more, i)

\* encode_prefix writes one byte, or the mask and the groups of the excess.
LEMMA EncodePrefixBytes ==
  ASSUME NEW size \in Sizes, NEW flags \in Flags(size), NEW value \in Nat, value < 2 * Word,
         NEW e, e = EncodePrefix(size, flags, value)
  PROVE  /\ e \in Bytes /\ Len(e) > 0
         /\ \/ WrittenOne(e, size, flags, value)
            \/ \E n : WrittenMore(e, size, flags, value, n)
<1> DEFINE M == 2 ^ size
           mask == M - 1
           more == value - mask
           last == CHOOSE n \in 1 .. MaxGroups + 1 :
                     more < Group(n + 1) /\ (n > 1 => more >= Group(n))
           digits == [i \in 1 .. last |-> (IF i < last THEN 128 ELSE 0) + Digit(more, i)]
<1>1. /\ M \in Nat /\ M >= 8 /\ M <= 256
      /\ flags \in Nat /\ flags * M + M <= 256 /\ flags * M \in Nat
  BY SizeFacts
<1>2. e = IF value < mask THEN <<flags * M + value>> ELSE <<flags * M + mask>> \o digits
  BY DEF EncodePrefix, Digit
<1>3. CASE value < mask
  <2>1. e = <<flags * M + value>>
    BY <1>2, <1>3
  <2>2. flags * M + value \in Byte
    <3> DEFINE b == flags * M
    <3>1. b \in Nat /\ b + M <= 256
      BY <1>1
    <3> HIDE DEF b
    <3>2. b + value \in Byte
      BY <1>1, <1>3, <3>1 DEF Byte
    <3> QED
      BY <3>2 DEF b
  <2>3. e \in Bytes /\ Len(e) > 0
    BY <2>1, <2>2 DEF Bytes
  <2> QED
    BY <1>3, <2>1, <2>3 DEF WrittenOne
<1>4. CASE ~(value < mask)
  <2>1. more \in Nat /\ more < 2 * Word
    BY <1>1, <1>4, Groups
  <2>2. e = <<flags * M + mask>> \o digits
    BY <1>2, <1>4
  <2> HIDE DEF more
  <2>3. Grouped(more, last)
    <3>1. \E n \in 1 .. MaxGroups + 1 : more < Group(n + 1) /\ (n > 1 => more >= Group(n))
      BY <2>1, GroupedExists DEF Grouped
    <3> QED
      BY <3>1 DEF Grouped
  <2>4. last \in 1 .. MaxGroups + 1 /\ last \in Nat /\ last > 0
    BY <2>3, Groups DEF Grouped
  <2> HIDE DEF last
  <2>5. ASSUME NEW i \in 1 .. last PROVE Digit(more, i) \in 0 .. 127
    <3>1. i \in 1 .. MaxGroups + 2
      BY <2>4, Groups
    <3>2. Group(i) \in Nat /\ Group(i) > 0
      BY <3>1, Groups
    <3>3. more \div Group(i) \in Nat
      BY <2>1, <3>2
    <3> QED
      BY <3>3 DEF Digit
  <2>6. flags * M + mask \in Byte
    <3> DEFINE b == flags * M
    <3>1. b \in Nat /\ b + M <= 256 /\ M \in Nat /\ M >= 8
      BY <1>1
    <3> HIDE DEF b, M
    <3>2. b + mask \in Byte
      BY <3>1 DEF Byte
    <3> QED
      BY <3>2 DEF b
  <2> DEFINE first == flags * M + mask
  <2>7. \A i \in 1 .. last : digits[i] \in Byte
    BY <2>5 DEF Byte
  <2>8. digits \in Bytes /\ Len(digits) = last
    BY <2>4, <2>7 DEF Bytes
  <2>9. \A i \in 1 .. last : digits[i] = (IF i < last THEN 128 ELSE 0) + Digit(more, i)
    OBVIOUS
  <2> HIDE DEF digits, first
  <2>10. e = <<first>> \o digits /\ first \in Byte
    BY <2>2, <2>6 DEF first
  <2>11. /\ e \in Bytes /\ Len(e) = last + 1 /\ e[1] = first
         /\ \A i \in 1 .. last : e[i + 1] = digits[i]
    BY <2>4, <2>8, <2>10 DEF Bytes
  <2>12. WrittenMore(e, size, flags, value, last)
    BY <2>1, <2>3, <2>5, <2>9, <2>11 DEF WrittenMore, more, first
  <2> QED
    BY <2>4, <2>11, <2>12
<1> QED
  BY <1>3, <1>4

\* The continuation bytes are added up one after the other.
LEMMA TotalSteps ==
  ASSUME NEW d \in Bytes, NEW size \in Sizes, NEW n \in Nat, n < Len(d), n <= MaxGroups
  PROVE  \E u \in [0 .. n -> Nat] :
           /\ u[0] = 2 ^ size - 1
           /\ \A i \in 1 .. n : u[i] = u[i - 1] + Shifted(d, i)
           /\ Total(d, size, n) = u[n]
<1> DEFINE base == 2 ^ size - 1
           F(u) == [i \in 0 .. n |-> IF i = 0 THEN base ELSE u[i - 1] + Shifted(d, i)]
           U == CHOOSE u : u = F(u)
           add(i) == IF i + 1 <= n THEN Shifted(d, i + 1) ELSE 0
           step == [p \in Nat \X Nat |-> p[2] + add(p[1])]
<1>1. base \in Nat
  BY SizeFacts
<1>2. ASSUME NEW i \in 1 .. n PROVE Shifted(d, i) \in Nat
  <2>1. d[i + 1] \in Nat /\ i \in 1 .. MaxGroups + 2
    <3>1. MaxGroups \in Nat
      BY Groups
    <3>2. i + 1 \in 1 .. Len(d) /\ i \in 1 .. MaxGroups + 2
      BY <3>1, ByteAt
    <3> QED
      BY <3>2, ByteAt
  <2>2. Group(i) \in Nat /\ Word \in Nat /\ Word > 0
    BY ONLY <2>1, Groups
  <2>3. d[i + 1] % 128 \in Nat
    BY <2>1
  <2>4. (d[i + 1] % 128) * Group(i) \in Nat
    BY <2>2, <2>3
  <2> QED
    BY <2>2, <2>4, V!DivMod DEF Shifted
<1> HIDE DEF base
<1>3. \A i \in Nat : add(i) \in Nat
  <2>1. ASSUME NEW i \in Nat, i + 1 <= n PROVE Shifted(d, i + 1) \in Nat
    BY <1>2, <2>1
  <2> QED
    BY <2>1
<1>4. PICK f \in [Nat -> Nat] : V!Iterates(f, base, step)
  <2> HIDE DEF add
  <2>1. ASSUME NEW p \in Nat \X Nat PROVE p[2] + add(p[1]) \in Nat
    <3>1. p[1] \in Nat /\ p[2] \in Nat
      OBVIOUS
    <3>2. add(p[1]) \in Nat
      BY <1>3, <3>1
    <3> QED
      BY <3>1, <3>2
  <2>2. step \in [Nat \X Nat -> Nat]
    BY <2>1
  <2> HIDE DEF step, F, U
  <2> QED
    BY <1>1, <2>2, Eight, V!Recursion, Zenon
<1>5. f[0] = base /\ \A i \in Nat : f[i + 1] = f[i] + add(i)
  <2> HIDE DEF add
  <2> QED
    BY <1>4 DEF V!Iterates
<1>6. \A i \in 1 .. n : add(i - 1) = Shifted(d, i)
  OBVIOUS
<1> HIDE DEF add, step
<1> DEFINE g == [i \in 0 .. n |-> f[i]]
<1>7. ASSUME NEW i \in 0 .. n, i # 0 PROVE g[i] = g[i - 1] + Shifted(d, i)
  <2>1. i - 1 \in Nat /\ i - 1 + 1 = i /\ i \in 1 .. n /\ i - 1 \in 0 .. n
    BY <1>7
  <2> QED
    BY <1>5, <1>6, <2>1
<1>8. g = F(g)
  BY <1>5, <1>7
<1> HIDE DEF g
<1>9. U = F(U)
  <2> HIDE DEF F
  <2> QED
    BY <1>8
<1>10. Total(d, size, n) = U[n]
  BY DEF Total, base
<1> HIDE DEF U
<1>11. U[0] = base
  BY <1>9
<1>12. \A i \in 1 .. n : U[i] = U[i - 1] + Shifted(d, i)
  <2>1. \A i \in 1 .. n : i \in 0 .. n /\ i # 0
    OBVIOUS
  <2> QED
    BY <1>9, <2>1
<1> DEFINE S == {i \in Nat : i <= n => U[i] \in Nat}
<1>13. 0 \in S
  BY <1>1, <1>11
<1>14. ASSUME NEW i \in Nat, i \in S PROVE i + 1 \in S
  <2>1. SUFFICES ASSUME i + 1 <= n PROVE U[i + 1] \in Nat
    OBVIOUS
  <2>2. i + 1 \in 1 .. n /\ i + 1 - 1 = i /\ i <= n
    BY <2>1
  <2>3. U[i + 1] = U[i] + Shifted(d, i + 1) /\ U[i] \in Nat /\ Shifted(d, i + 1) \in Nat
    <3> HIDE DEF F
    <3>1. U[i] \in Nat
      BY <1>14, <2>2
    <3>2. PICK k \in 1 .. n : k = i + 1
      BY <2>2
    <3>3. U[k] = U[k - 1] + Shifted(d, k) /\ Shifted(d, k) \in Nat
      BY <1>2, <1>12, Zenon
    <3>4. k - 1 = i
      BY <3>2
    <3> QED
      BY <3>1, <3>2, <3>3, <3>4, Zenon
  <2> QED
    BY ONLY <2>3
<1>15. \A i \in Nat : i \in S
  <2> HIDE DEF S, F
  <2> QED
    BY ONLY <1>13, <1>14, V!NatSetInduction
<1>16. U \in [0 .. n -> Nat]
  <2>1. \A i \in 0 .. n : U[i] \in Nat
    BY <1>15
  <2>2. U = [i \in 0 .. n |-> U[i]]
    BY <1>9
  <2> QED
    BY <2>1, <2>2
<1> QED
  BY <1>10, <1>11, <1>12, <1>16 DEF base

\* decode_prefix, case by case.
Got(d, size, value, used) ==
  [status |-> "ok", flags |-> d[1] \div 2 ^ size, value |-> value,
   rest |-> SubSeq(d, used + 1, Len(d))]

\* Where a continuation byte ends the integer.
EndsIn(d) ==
  {n \in 1 .. MaxGroups : n < Len(d) /\ d[n + 1] < 128 /\ \A i \in 1 .. n - 1 : d[i + 1] >= 128}

\* The outcomes of decode_prefix on any bytes.
LEMMA PrefixCases ==
  ASSUME NEW d, NEW size
  PROVE  /\ d = <<>> => Prefix(d, size) = {Failed}
         /\ d # <<>> /\ d[1] % 2 ^ size < 2 ^ size - 1 =>
              Prefix(d, size) = {Got(d, size, d[1] % 2 ^ size, 1)}
         /\ d # <<>> /\ ~(d[1] % 2 ^ size < 2 ^ size - 1) /\ EndsIn(d) = {} =>
              Prefix(d, size) \subseteq {Failed, Panicked}
         /\ d # <<>> /\ ~(d[1] % 2 ^ size < 2 ^ size - 1) /\ EndsIn(d) # {} =>
              \E n \in EndsIn(d) :
                Prefix(d, size) = {Got(d, size, Total(d, size, n) % Word, n + 1)}
                                    \cup Overflow(Total(d, size, n))
<1> DEFINE mask == 2 ^ size - 1
           Ends == EndsIn(d)
           P == Prefix(d, size)
           n == CHOOSE n \in Ends : TRUE
           cut == Total(d, size, Min({MaxGroups, Len(d) - 1}))
<1>1. P = IF d = <<>> THEN {Failed}
          ELSE IF d[1] % 2 ^ size < mask THEN {Got(d, size, d[1] % 2 ^ size, 1)}
          ELSE IF Ends = {} THEN {Failed} \cup Overflow(cut)
          ELSE {Got(d, size, Total(d, size, n) % Word, n + 1)} \cup Overflow(Total(d, size, n))
  BY DEF Prefix, EndsIn, Got
<1>2. Overflow(cut) \subseteq {Panicked}
  BY DEF Overflow
<1>3. Ends # {} => n \in Ends
  OBVIOUS
<1> HIDE DEF P, mask, Ends, n, cut
<1>4. /\ d = <<>> => P = {Failed}
      /\ d # <<>> /\ d[1] % 2 ^ size < mask => P = {Got(d, size, d[1] % 2 ^ size, 1)}
      /\ d # <<>> /\ ~(d[1] % 2 ^ size < mask) /\ Ends = {} => P = {Failed} \cup Overflow(cut)
      /\ d # <<>> /\ ~(d[1] % 2 ^ size < mask) /\ Ends # {} =>
           P = {Got(d, size, Total(d, size, n) % Word, n + 1)} \cup Overflow(Total(d, size, n))
  BY <1>1, Zenon
<1> QED
  BY <1>2, <1>3, <1>4, Zenon DEF P, mask, Ends

\* What is read leaves a part of the bytes.
PrefixGot(r, d) ==
  /\ r.status = "ok" /\ d # <<>>
  /\ r.value \in Nat /\ r.flags \in Nat
  /\ \E k \in 1 .. Len(d) : r.rest = SubSeq(d, k + 1, Len(d))

\* decode_prefix reads an integer from the front of any bytes, or fails.
LEMMA PrefixAny ==
  ASSUME NEW d \in Bytes, NEW size \in Sizes, NEW r \in Prefix(d, size)
  PROVE  PrefixGot(r, d) \/ r = Failed \/ r = Panicked
<1> DEFINE M == 2 ^ size
           low == d[1] % M
<1>1. M \in Nat /\ M > 0
  BY SizeFacts
<1>2. CASE d = <<>>
  BY <1>2, PrefixCases
<1>3. CASE d # <<>> /\ low < M - 1
  <2>1. r = Got(d, size, low, 1)
    BY <1>3, PrefixCases
  <2>2. d[1] \in Nat /\ 1 \in 1 .. Len(d)
    BY <1>3, ByteAt
  <2>3. low \in Nat /\ d[1] \div M \in Nat
    BY <1>1, <2>2, V!DivMod
  <2> QED
    BY <1>3, <2>1, <2>2, <2>3 DEF Got, PrefixGot
<1>4. CASE d # <<>> /\ ~(low < M - 1) /\ EndsIn(d) = {}
  BY <1>4, PrefixCases
<1>5. CASE d # <<>> /\ ~(low < M - 1) /\ EndsIn(d) # {}
  <2>1. PICK n \in EndsIn(d) :
          Prefix(d, size) = {Got(d, size, Total(d, size, n) % Word, n + 1)}
                              \cup Overflow(Total(d, size, n))
    BY <1>5, PrefixCases
  <2>2. n \in Nat /\ n + 1 \in 1 .. Len(d) /\ n < Len(d) /\ n <= MaxGroups
    BY Groups, ByteAt DEF EndsIn
  <2>3. Total(d, size, n) \in Nat
    <3>1. n \in 0 .. n
      BY <2>2
    <3> QED
      BY <2>2, <3>1, TotalSteps
  <2>4. Total(d, size, n) % Word \in Nat
    BY <2>3, Groups, V!DivMod
  <2>5. d[1] \in Nat
    BY <1>5, ByteAt
  <2>6. d[1] \div M \in Nat
    BY <1>1, <2>5, V!DivMod
  <2>7. r = Got(d, size, Total(d, size, n) % Word, n + 1) \/ r = Panicked
    BY <2>1 DEF Overflow
  <2> QED
    BY <1>5, <2>2, <2>4, <2>6, <2>7 DEF Got, PrefixGot
<1> QED
  BY <1>2, <1>3, <1>4, <1>5

\* d is e with x behind it.
Splits(d, e, x) ==
  /\ d \in Bytes /\ Len(d) = Len(e) + Len(x) /\ Len(e) \in Nat /\ Len(x) \in Nat
  /\ \A i \in 1 .. Len(e) : d[i] = e[i]
  /\ \A i \in 1 .. Len(x) : d[Len(e) + i] = x[i]
  /\ SubSeq(d, 1, Len(e)) = e
  /\ SubSeq(d, Len(e) + 1, Len(d)) = x

\* Where two parts stand in the whole.
LEMMA Joined ==
  ASSUME NEW e \in Bytes, NEW x \in Bytes
  PROVE  Splits(e \o x, e, x)
<1> DEFINE d == e \o x
<1>1. /\ d \in Bytes /\ Len(d) = Len(e) + Len(x) /\ Len(e) \in Nat /\ Len(x) \in Nat
      /\ \A i \in 1 .. Len(e) : d[i] = e[i]
      /\ \A i \in 1 .. Len(x) : d[Len(e) + i] = x[i]
  BY DEF Bytes
<1>2. SubSeq(d, 1, Len(e)) = e
  <2>1. /\ SubSeq(d, 1, Len(e)) \in Bytes /\ Len(SubSeq(d, 1, Len(e))) = Len(e)
        /\ \A i \in 1 .. Len(e) : SubSeq(d, 1, Len(e))[i] = d[i]
    BY <1>1 DEF Bytes
  <2> QED
    BY <1>1, <2>1 DEF Bytes
<1>3. SubSeq(d, Len(e) + 1, Len(d)) = x
  <2> DEFINE s == SubSeq(d, Len(e) + 1, Len(d))
             n == Len(e)
  <2>1. s \in Bytes /\ Len(s) = Len(x) /\ \A i \in 1 .. Len(x) : s[i] = d[n + i]
    BY <1>1 DEF Bytes
  <2> HIDE DEF s
  <2>2. \A i \in 1 .. Len(x) : s[i] = x[i]
    BY <1>1, <2>1
  <2> QED
    BY <2>1, <2>2 DEF Bytes, s
<1> QED
  BY <1>1, <1>2, <1>3 DEF Splits

\* Groups that are added up make the number they come from.
LEMMA DigitAdds ==
  ASSUME NEW more \in Nat, NEW i \in 1 .. MaxGroups
  PROVE  /\ Digit(more, i) \in Nat
         /\ Digit(more, i) * Group(i) \in Nat /\ Digit(more, i) * Group(i) <= more
         /\ more % Group(i + 1) = (more % Group(i)) + Digit(more, i) * Group(i)
         /\ more % Group(i) \in Nat
<1> DEFINE g == Group(i)
           q == more \div g
           p == q \div 128
           digit == q % 128
           r == more % g
           h == 128 * g
<1>1. g \in Nat /\ g > 0 /\ Group(i + 1) = h
  <2>1. i \in 1 .. MaxGroups + 1 /\ i \in 1 .. MaxGroups + 2
    BY Groups
  <2> QED
    BY <2>1, Groups
<1>2. Digit(more, i) = digit
  BY DEF Digit
<1> HIDE DEF g
<1>3. q \in Nat /\ r \in 0 .. g - 1 /\ more = g * q + r
  BY <1>1, V!DivMod
<1> HIDE DEF q, r
<1>4. p \in Nat /\ digit \in 0 .. 127 /\ q = 128 * p + digit
  BY <1>3
<1> HIDE DEF p, digit
<1>5. /\ digit * g \in Nat /\ g * p \in Nat /\ digit * g <= 127 * g
      /\ g * q = 128 * (g * p) + digit * g
  BY <1>1, <1>3, <1>4
<1>6. h \in Nat /\ p * h = 128 * (g * p) /\ (p + 1) * h = 128 * (g * p) + 128 * g
  BY <1>1, <1>4
<1> HIDE DEF h
<1> DEFINE a == g * p
           b == digit * g
           c == p * h
           e == (p + 1) * h
<1>7. /\ a \in Nat /\ b \in Nat /\ b <= 127 * g /\ c = 128 * a /\ e = 128 * a + 128 * g
      /\ more = 128 * a + b + r /\ r \in Nat /\ r < g
  BY <1>1, <1>3, <1>5, <1>6
<1> HIDE DEF a, b, c, e
<1>8. c <= more /\ more < e /\ more - c = r + b /\ b <= more
  BY <1>1, <1>7
<1>9. more % h = more - c
  <2>1. /\ p * h <= more /\ more < (p + 1) * h /\ more - c = more - p * h
        /\ p \in Nat /\ h \in Nat
    BY <1>4, <1>6, <1>8 DEF c, e
  <2>2. more % h = more - p * h
    BY <2>1, Eight, V!DivUnique, Zenon
  <2> QED
    BY <2>1, <2>2
<1> QED
  BY <1>1, <1>2, <1>4, <1>7, <1>8, <1>9 DEF b, g, r

\* decode_prefix reads what encode_prefix wrote.
Result(flags, value, rest) ==
  [status |-> "ok", flags |-> flags, value |-> value, rest |-> rest]

\* An integer that fits in a word is read as it was written, and nothing of
\* what is behind it.
LEMMA PrefixWhole ==
  ASSUME NEW size \in Sizes, NEW flags \in Flags(size), NEW value \in Nat, value < Word,
         NEW x \in Bytes
  PROVE  Prefix(EncodePrefix(size, flags, value) \o x, size) = {Result(flags, value, x)}
<1> DEFINE e == EncodePrefix(size, flags, value)
           d == e \o x
           M == 2 ^ size
           mask == M - 1
           more == value - mask
<1>1. /\ M \in Nat /\ M >= 8 /\ M <= 256 /\ flags \in Nat
      /\ Word \in Nat /\ value < 2 * Word
  BY SizeFacts, Groups
<1>2. /\ e \in Bytes /\ Len(e) > 0
      /\ WrittenOne(e, size, flags, value) \/ \E n : WrittenMore(e, size, flags, value, n)
  BY <1>1, EncodePrefixBytes
<1> HIDE DEF e
<1>3. /\ d \in Bytes /\ Len(d) = Len(e) + Len(x)
      /\ \A i \in 1 .. Len(e) : d[i] = e[i]
      /\ SubSeq(d, Len(e) + 1, Len(d)) = x
      /\ Len(e) \in Nat /\ Len(x) \in Nat
  <2>1. Splits(d, e, x)
    BY <1>2, Joined
  <2> QED
    BY <2>1 DEF Splits
<1> HIDE DEF d
<1>4. d # <<>> /\ d[1] = e[1]
  <2>1. 1 \in 1 .. Len(e) /\ Len(d) # 0
    BY <1>2, <1>3
  <2>2. Len(<<>>) = 0
    OBVIOUS
  <2> QED
    BY <1>3, <2>1, <2>2
<1> HIDE DEF M
<1>5. ASSUME NEW low \in 0 .. M - 1, e[1] = flags * M + low
      PROVE  d[1] % M = low /\ d[1] \div M = flags
  <2>1. low \in Nat /\ low \div M = 0 /\ low % M = low
    BY <1>1
  <2>2. (flags * M + low) \div M = flags + (low \div M) /\ (flags * M + low) % M = low % M
    BY <1>1, <2>1, V!DivPlus
  <2> QED
    BY <1>1, <1>4, <1>5, <2>1, <2>2
<1>6. CASE WrittenOne(e, size, flags, value)
  <2>1. e = <<flags * M + value>> /\ value < M - 1
    BY <1>6 DEF WrittenOne, M
  <2>2. e[1] = flags * M + value /\ Len(e) = 1 /\ value \in 0 .. M - 1
    BY <1>1, <2>1
  <2>3. d[1] % M = value /\ d[1] \div M = flags
    BY <1>5, <2>2
  <2>4. Prefix(d, size) = {Got(d, size, d[1] % M, 1)}
    BY <1>4, <2>1, <2>3, PrefixCases DEF M
  <2> QED
    BY <1>3, <2>2, <2>3, <2>4 DEF Got, Result, M, d, e
<1>7. CASE \E n : WrittenMore(e, size, flags, value, n)
  <2>1. PICK n : WrittenMore(e, size, flags, value, n)
    BY <1>7
  <2>2. /\ more \in Nat /\ Grouped(more, n) /\ Len(e) = n + 1
        /\ e[1] = flags * M + mask
        /\ \A i \in 1 .. n : /\ Digit(more, i) \in 0 .. 127
                             /\ e[i + 1] = (IF i < n THEN 128 ELSE 0) + Digit(more, i)
    BY <2>1 DEF WrittenMore, M
  <2>3. more < Word
    BY <1>1, <2>2
  <2>4. n \in 1 .. MaxGroups /\ n \in Nat /\ MaxGroups \in Nat
    BY <1>1, <2>2, <2>3, GroupedExists, Groups DEF Grouped
  <2>5. d[1] % M = mask /\ d[1] \div M = flags
    <3>1. mask \in 0 .. M - 1
      BY <1>1
    <3> QED
      BY <1>5, <2>2, <3>1
  <2> HIDE DEF more
  <2>6. ASSUME NEW i \in 1 .. n
        PROVE  /\ i < n => d[i + 1] = 128 + Digit(more, i)
               /\ i = n => d[i + 1] = Digit(more, i)
               /\ d[i + 1] % 128 = Digit(more, i)
               /\ d[i + 1] \in Nat /\ Digit(more, i) \in 0 .. 127
    <3>1. i + 1 \in 1 .. Len(e)
      BY <2>2, <2>4
    <3>2. d[i + 1] = (IF i < n THEN 128 ELSE 0) + Digit(more, i) /\ Digit(more, i) \in 0 .. 127
      BY <1>3, <2>2, <3>1
    <3> DEFINE b == d[i + 1]
               t == Digit(more, i)
    <3>3. b = (IF i < n THEN 128 ELSE 0) + t /\ t \in 0 .. 127 /\ i \in Nat /\ n \in Nat /\ i <= n
      BY <2>4, <3>2
    <3> HIDE DEF b, t
    <3>4. (i < n => b = 128 + t) /\ (i = n => b = t) /\ b % 128 = t /\ b \in Nat /\ t \in 0 .. 127
      BY ONLY <3>3
    <3> QED
      BY <3>4 DEF b, t
  <2>7. EndsIn(d) = {n}
    <3>1. d[n + 1] < 128 /\ n < Len(d)
      <4>1. n \in 1 .. n /\ n < Len(d)
        BY <1>3, <2>2, <2>4
      <4>2. d[n + 1] = Digit(more, n) /\ Digit(more, n) \in 0 .. 127
        BY <2>6, <4>1
      <4> DEFINE t == Digit(more, n)
      <4>3. t < 128
        <5> HIDE DEF t
        <5> QED
          BY <4>2 DEF t
      <4> QED
        BY <4>1, <4>2, <4>3, Zenon
    <3>2. \A i \in 1 .. n - 1 : d[i + 1] >= 128
      <4>1. ASSUME NEW i \in 1 .. n - 1 PROVE d[i + 1] >= 128
        <5>1. i \in 1 .. n /\ i < n
          BY <2>4
        <5>2. Digit(more, i) \in 0 .. 127 /\ d[i + 1] = 128 + Digit(more, i)
          BY <2>6, <5>1
        <5> QED
          BY <5>2
      <4> QED
        BY <4>1
    <3>3. n \in EndsIn(d)
      BY <2>4, <3>1, <3>2 DEF EndsIn
    <3>4. ASSUME NEW m \in EndsIn(d) PROVE m = n
      <4>1. m \in Nat /\ d[m + 1] < 128 /\ \A i \in 1 .. m - 1 : d[i + 1] >= 128
        BY <2>4 DEF EndsIn
      <4>2. CASE m < n
        <5>1. m \in 1 .. n - 1
          BY <2>4, <4>1, <4>2 DEF EndsIn
        <5>2. d[m + 1] >= 128 /\ d[m + 1] \in Nat
          <6>1. m \in 1 .. n
            BY <2>4, <5>1
          <6> QED
            BY <2>6, <3>2, <5>1, <6>1
        <5> QED
          BY <4>1, <5>2
      <4>3. CASE m > n
        <5>1. n \in 1 .. m - 1
          BY <2>4, <4>1, <4>3
        <5>2. d[n + 1] >= 128 /\ d[n + 1] < 128
          BY <3>1, <4>1, <5>1
        <5>3. n \in 1 .. n
          BY <2>4
        <5>4. d[n + 1] \in Nat
          BY <2>6, <5>3
        <5> QED
          BY <5>2, <5>4
      <4> QED
        BY <2>4, <4>1, <4>2, <4>3
    <3> QED
      BY <3>3, <3>4
  <2>8. Total(d, size, n) = value
    <3>1. PICK u \in [0 .. n -> Nat] :
            /\ u[0] = mask
            /\ \A i \in 1 .. n : u[i] = u[i - 1] + Shifted(d, i)
            /\ Total(d, size, n) = u[n]
      <4>1. n < Len(d) /\ n <= MaxGroups
        BY <1>3, <2>2, <2>4
      <4> QED
        BY <1>3, <2>4, <4>1, TotalSteps DEF M
    <3>2. mask \in Nat
      BY <1>1
    <3> HIDE DEF mask
    <3> DEFINE S == {i \in Nat : i <= n => u[i] = mask + (more % Group(i + 1))}
    <3>3. 0 \in S
      <4>1. Group(0 + 1) = 1 /\ more % 1 = 0
        BY <2>2, Groups
      <4> QED
        BY <3>1, <3>2, <4>1
    <3>4. ASSUME NEW j \in Nat, j \in S PROVE j + 1 \in S
      <4>1. SUFFICES ASSUME j + 1 <= n PROVE u[j + 1] = mask + (more % Group(j + 1 + 1))
        OBVIOUS
      <4>2. PICK i \in 1 .. n : i = j + 1
        BY <2>4, <4>1
      <4>3. u[i] = u[i - 1] + Shifted(d, i)
        BY <3>1
      <4>4. i - 1 = j /\ i \in 1 .. MaxGroups /\ j <= n
        BY <2>4, <4>2
      <4>5. u[j] = mask + (more % Group(i))
        BY <3>4, <4>2, <4>4
      <4>6. /\ Digit(more, i) * Group(i) \in Nat /\ Digit(more, i) * Group(i) <= more
            /\ more % Group(i + 1) = (more % Group(i)) + Digit(more, i) * Group(i)
            /\ more % Group(i) \in Nat
        BY <2>2, <4>4, DigitAdds
      <4>7. Shifted(d, i) = Digit(more, i) * Group(i)
        <5> DEFINE t == Digit(more, i) * Group(i)
        <5>1. Shifted(d, i) = t % Word
          BY <2>6 DEF Shifted
        <5>2. t \in Nat /\ t < Word
          BY <1>1, <2>2, <2>3, <4>6
        <5> HIDE DEF t
        <5>3. t % Word = t
          BY <1>1, <5>2
        <5> QED
          BY <5>1, <5>3 DEF t
      <4>8. u[i] = u[j] + Digit(more, i) * Group(i)
        BY <4>3, <4>4, <4>7, Zenon
      <4>9. u[i] = mask + (more % Group(i + 1))
        <5> DEFINE t == Digit(more, i) * Group(i)
                   s == more % Group(i)
                   v == more % Group(i + 1)
        <5>1. u[i] = u[j] + t /\ u[j] = mask + s /\ v = s + t /\ t \in Nat /\ s \in Nat
          BY <4>5, <4>6, <4>8
        <5> HIDE DEF t, s, v
        <5>2. u[i] = mask + v
          BY <3>2, <5>1
        <5> QED
          BY <5>2 DEF v
      <4> QED
        BY <4>2, <4>9
    <3>5. n \in S
      <4>1. \A i \in Nat : i \in S
        <5> HIDE DEF S
        <5> QED
          BY <3>3, <3>4, V!NatSetInduction
      <4> QED
        BY <2>4, <4>1
    <3>6. u[n] = mask + (more % Group(n + 1))
      BY <2>4, <3>5
    <3>7. more % Group(n + 1) = more
      <4>1. n + 1 \in 1 .. MaxGroups + 2
        BY <2>4
      <4>2. Group(n + 1) \in Nat /\ more < Group(n + 1)
        BY <2>2, <4>1, Groups DEF Grouped
      <4> DEFINE g == Group(n + 1)
      <4>3. g \in Nat /\ more < g /\ more \in Nat
        BY <2>2, <4>2
      <4> HIDE DEF g
      <4>4. more % g = more
        BY <4>3
      <4> QED
        BY <4>4 DEF g
    <3>8. mask + more = value
      BY <1>1, <3>2 DEF more
    <3> QED
      BY <3>1, <3>6, <3>7, <3>8
  <2>9. Overflow(value) = {} /\ value % Word = value
    BY <1>1 DEF Overflow
  <2>10. Prefix(d, size) = {Got(d, size, value, n + 1)}
    <3>1. ~(d[1] % M < M - 1)
      BY <1>1, <2>5
    <3>2. PICK m \in EndsIn(d) :
            Prefix(d, size) = {Got(d, size, Total(d, size, m) % Word, m + 1)}
                                \cup Overflow(Total(d, size, m))
      BY <1>4, <2>7, <3>1, PrefixCases DEF M
    <3>3. m = n
      BY <2>7
    <3> QED
      BY <2>8, <2>9, <3>2, <3>3
  <2>11. SubSeq(d, n + 1 + 1, Len(d)) = x
    BY <1>3, <2>2
  <2>12. Got(d, size, value, n + 1) = Result(flags, value, x)
    BY <2>5, <2>11 DEF Got, Result, M
  <2> QED
    BY <2>10, <2>12 DEF d, e
<1> QED
  BY <1>2, <1>6, <1>7

\* A prefix integer that lacks bytes at its end is not read.
LEMMA PrefixCut ==
  ASSUME NEW size \in Sizes, NEW flags \in Flags(size), NEW value \in Nat, value < 2 * Word,
         NEW e, e = EncodePrefix(size, flags, value), NEW k \in 0 .. Len(e) - 1
  PROVE  Prefix(SubSeq(e, 1, k), size) \subseteq {Failed, Panicked}
<1> DEFINE d == SubSeq(e, 1, k)
           M == 2 ^ size
<1>1. M \in Nat /\ M >= 8 /\ M <= 256 /\ flags \in Nat
  BY SizeFacts
<1>2. /\ e \in Bytes /\ Len(e) > 0 /\ Len(e) \in Nat /\ k \in Nat /\ k < Len(e)
      /\ WrittenOne(e, size, flags, value) \/ \E n : WrittenMore(e, size, flags, value, n)
  BY EncodePrefixBytes, ByteAt
<1>3. d \in Bytes /\ Len(d) = k /\ \A i \in 1 .. k : d[i] = e[i]
  BY <1>2 DEF Bytes
<1> HIDE DEF d, M
<1>4. CASE k = 0
  <2>1. d = <<>>
    BY <1>3, <1>4 DEF Bytes
  <2> QED
    BY <2>1, PrefixCases DEF d
<1>5. CASE k > 0
  <2>1. Len(e) > 1
    BY <1>2, <1>5
  <2>2. ~WrittenOne(e, size, flags, value)
    BY <2>1 DEF WrittenOne
  <2>3. PICK n : WrittenMore(e, size, flags, value, n)
    BY <1>2, <2>2
  <2> DEFINE more == value - (M - 1)
             mask == M - 1
  <2>4. /\ Grouped(more, n) /\ Len(e) = n + 1
        /\ e[1] = flags * M + mask
        /\ \A i \in 1 .. n : /\ Digit(more, i) \in 0 .. 127
                             /\ e[i + 1] = (IF i < n THEN 128 ELSE 0) + Digit(more, i)
    BY <2>3 DEF WrittenMore, M
  <2>5. n \in Nat
    BY <2>4, Groups DEF Grouped
  <2> HIDE DEF more
  <2>6. d # <<>> /\ d[1] = flags * M + mask
    <3>1. 1 \in 1 .. k /\ Len(<<>>) = 0
      BY <1>2, <1>5
    <3> QED
      BY <1>3, <1>5, <2>4, <3>1
  <2>7. d[1] % M = mask
    <3>1. mask \in Nat /\ mask % M = mask
      BY <1>1
    <3> HIDE DEF mask
    <3>2. (flags * M + mask) % M = mask % M
      BY <1>1, <3>1, V!DivPlus
    <3> QED
      BY <2>6, <3>1, <3>2
  <2>8. EndsIn(d) = {}
    <3>1. SUFFICES ASSUME NEW m \in EndsIn(d) PROVE FALSE
      OBVIOUS
    <3>2. m \in Nat /\ m > 0 /\ m < k /\ d[m + 1] < 128
      BY <1>3, Groups DEF EndsIn
    <3>3. m \in 1 .. n /\ m < n /\ m + 1 \in 1 .. k
      BY <1>2, <2>4, <2>5, <3>2
    <3>4. d[m + 1] = 128 + Digit(more, m) /\ Digit(more, m) \in 0 .. 127
      BY <1>3, <2>4, <3>3
    <3> DEFINE b == d[m + 1]
               t == Digit(more, m)
    <3>5. b < 128 /\ b = 128 + t /\ t \in 0 .. 127
      BY <3>2, <3>4
    <3> HIDE DEF b, t
    <3> QED
      BY ONLY <3>5
  <2>9. ~(d[1] % M < M - 1)
    BY <1>1, <2>7
  <2> QED
    BY <2>6, <2>8, <2>9, PrefixCases DEF d, M
<1> QED
  BY <1>2, <1>4, <1>5

-----------------------------------------------------------------------------
(* Strings                                                                 *)

\* What StringOf makes of a payload behind its length.
StringIs(flags, q, x) ==
  LET strings == IF flags % 2 = 1 THEN Decoded(q) ELSE {q} IN
  IF \E s \in strings : Text(s)
  THEN [status |-> "ok", string |-> CHOOSE s \in strings : TRUE, rest |-> x]
  ELSE Failed

\* The outcomes without a result.
Errors == {Failed, Panicked}

\* The two sizes of the prefix of a string's length.
StringSizes == {3, 7}

\* They are sizes of prefixes.
LEMMA StringSize ==
  ASSUME NEW size \in StringSizes
  PROVE  size \in Sizes /\ size \in Nat
BY DEF StringSizes, Sizes

\* The beginning of two parts.
LEMMA JoinedCut ==
  ASSUME NEW a \in Bytes, NEW b \in Bytes
  PROVE  /\ \A k \in 0 .. Len(a) : SubSeq(a \o b, 1, k) = SubSeq(a, 1, k)
         /\ \A k \in 0 .. Len(b) : SubSeq(a \o b, 1, Len(a) + k) = a \o SubSeq(b, 1, k)
<1> DEFINE e == a \o b
<1>1. Splits(e, a, b)
  BY Joined
<1>2. ASSUME NEW k \in 0 .. Len(a) PROVE SubSeq(e, 1, k) = SubSeq(a, 1, k)
  <2>1. e \in Bytes /\ k \in 0 .. Len(e) /\ \A i \in 1 .. k : e[i] = a[i]
    BY <1>1 DEF Splits
  <2> HIDE DEF e
  <2> QED
    BY <2>1 DEF Bytes
<1>3. ASSUME NEW k \in 0 .. Len(b) PROVE SubSeq(e, 1, Len(a) + k) = a \o SubSeq(b, 1, k)
  <2>1. 0 \in 0 .. Len(a) /\ SubSeq(a, 0 + 1, Len(a)) = a
    BY DEF Bytes
  <2>2. SubSeq(a, 0 + 1, Len(a)) \o SubSeq(b, 1, k) = SubSeq(e, 0 + 1, Len(a) + k)
    BY <2>1, Eight, V!Prolonged, Zenon DEF Bytes
  <2>3. 0 + 1 = 1
    OBVIOUS
  <2> QED
    BY <2>1, <2>2, <2>3, Zenon
<1> QED
  BY <1>2, <1>3

\* The prefix of a string is one bit shorter than what decode_string gets.
LEMMA PrefixOfString ==
  ASSUME NEW d, NEW size \in Nat
  PROVE  String(d, size + 1)
           = {IF z.status = "ok" THEN StringOf(z) ELSE z : z \in Prefix(d, size)}
<1>1. PICK n : n = size + 1 /\ n - 1 = size
  OBVIOUS
<1> DEFINE P == Prefix(d, n - 1)
<1>2. String(d, n) = {IF z.status = "ok" THEN StringOf(z) ELSE z : z \in P}
  BY DEF String
<1>3. P = Prefix(d, size)
  BY <1>1, Zenon
<1> HIDE DEF P
<1> QED
  BY <1>1, <1>2, <1>3

\* One length gives one string.
LEMMA StringOne ==
  ASSUME NEW d, NEW size \in Nat, NEW r, Prefix(d, size) = {r}, r.status = "ok"
  PROVE  String(d, size + 1) = {StringOf(r)}
<1>1. String(d, size + 1) = {IF z.status = "ok" THEN StringOf(z) ELSE z : z \in {r}}
  BY PrefixOfString
<1> QED
  BY <1>1

\* Without a length there is no string.
LEMMA StringNone ==
  ASSUME NEW d, NEW size \in Nat, Prefix(d, size) \subseteq Errors
  PROVE  String(d, size + 1) \subseteq Errors
<1>1. Failed.status # "ok" /\ Panicked.status # "ok"
  BY DEF Failed, Panicked
<1>2. \A z \in Prefix(d, size) : z \in Errors /\ z.status # "ok"
  BY <1>1 DEF Errors
<1>3. \A z \in Prefix(d, size) : (IF z.status = "ok" THEN StringOf(z) ELSE z) \in Errors
  BY <1>2
<1>5. String(d, size + 1) = {IF z.status = "ok" THEN StringOf(z) ELSE z : z \in Prefix(d, size)}
  BY PrefixOfString
<1> QED
  BY <1>3, <1>5

\* What decode_string makes of a string behind its length, whole or cut.
LEMMA StringEncoded ==
  ASSUME NEW size \in StringSizes, NEW flags \in Flags(size), NEW q \in Bytes, Len(q) < Word
  PROVE  /\ EncodeString(size, flags, q) \in Bytes
         /\ \A x \in Bytes : String(EncodeString(size, flags, q) \o x, size + 1)
                               = {StringIs(flags, q, x)}
         /\ \A k \in 0 .. Len(EncodeString(size, flags, q)) - 1 :
              String(SubSeq(EncodeString(size, flags, q), 1, k), size + 1) \subseteq Errors
<1> DEFINE a == EncodePrefix(size, flags, Len(q))
           e == a \o q
<1>1. /\ size \in Sizes /\ size \in Nat /\ Len(q) \in Nat /\ Len(q) < 2 * Word
      /\ Word \in Nat
  BY StringSize, ByteAt, Groups
<1>2. a \in Bytes /\ Len(a) > 0 /\ Len(a) \in Nat
  <2>1. a \in Bytes /\ Len(a) > 0
    BY <1>1, EncodePrefixBytes
  <2> QED
    BY <2>1, ByteAt
<1>3. e = EncodeString(size, flags, q)
  BY DEF EncodeString
<1>4. Splits(e, a, q)
  BY <1>2, Joined
<1>5. e \in Bytes
  BY <1>4 DEF Splits
<1>6. ASSUME NEW d \in Bytes, NEW y \in Bytes, d = a \o y
      PROVE  String(d, size + 1) = {StringOf(Result(flags, Len(q), y))}
  <2>1. Prefix(d, size) = {Result(flags, Len(q), y)}
    BY <1>1, <1>6, PrefixWhole
  <2>2. Result(flags, Len(q), y).status = "ok"
    BY DEF Result
  <2> DEFINE z == Result(flags, Len(q), y)
  <2> HIDE DEF a, z
  <2> QED
    BY <1>1, <2>1, <2>2, StringOne, Zenon DEF z
<1>7. ASSUME NEW x \in Bytes PROVE String(e \o x, size + 1) = {StringIs(flags, q, x)}
  <2> DEFINE y == q \o x
             r == Result(flags, Len(q), y)
  <2>1. Splits(y, q, x)
    BY Joined
  <2>2. y \in Bytes /\ Len(q) <= Len(y) /\ SubSeq(y, 1, Len(q)) = q
        /\ SubSeq(y, Len(q) + 1, Len(y)) = x
    BY <2>1 DEF Splits
  <2>3. e \o x = a \o y /\ a \o y \in Bytes
    BY <1>2, <2>2 DEF Bytes
  <2>4. String(e \o x, size + 1) = {StringOf(r)}
    BY <1>6, <2>2, <2>3
  <2> HIDE DEF y
  <2>5. r.flags = flags /\ r.value = Len(q) /\ r.rest = y
    BY DEF Result
  <2> HIDE DEF r
  <2>6. StringOf(r) = StringIs(flags, q, x)
    BY <2>2, <2>5, Zenon DEF StringOf, StringIs
  <2> QED
    BY <2>4, <2>6
<1>8. ASSUME NEW k \in 0 .. Len(e) - 1 PROVE String(SubSeq(e, 1, k), size + 1) \subseteq Errors
  <2>1. Len(e) = Len(a) + Len(q)
    BY <1>4 DEF Splits
  <2>2. CASE k < Len(a)
    <3>1. k \in 0 .. Len(a) - 1
      BY <1>2, <2>2
    <3>2. Prefix(SubSeq(a, 1, k), size) \subseteq {Failed, Panicked}
      BY <1>1, <3>1, PrefixCut
    <3>3. SubSeq(e, 1, k) = SubSeq(a, 1, k)
      <4>1. k \in 0 .. Len(a)
        BY <1>2, <3>1
      <4> QED
        BY <1>2, <4>1, JoinedCut
    <3>5. Prefix(SubSeq(e, 1, k), size) \subseteq Errors
      BY <1>1, <3>2, <3>3 DEF Errors
    <3> HIDE DEF e
    <3> QED
      BY <1>1, <3>5, StringNone
  <2>3. CASE ~(k < Len(a))
    <3> DEFINE j == k - Len(a)
               y == SubSeq(q, 1, j)
               r == Result(flags, Len(q), y)
    <3>1. j \in Nat /\ j < Len(q) /\ k = Len(a) + j
      BY <1>1, <1>2, <2>1, <2>3
    <3> HIDE DEF j
    <3>2. y \in Bytes /\ Len(y) = j
      BY <3>1 DEF Bytes
    <3>3. SubSeq(e, 1, k) = a \o y
      <4>1. j \in 0 .. Len(q)
        BY <1>1, <3>1
      <4> QED
        BY <1>2, <3>1, <4>1, JoinedCut
    <3>4. String(SubSeq(e, 1, k), size + 1) = {StringOf(r)}
      <4>1. SubSeq(e, 1, k) \in Bytes
        BY <1>5 DEF Bytes
      <4> QED
        BY <1>6, <3>2, <3>3, <4>1
    <3> HIDE DEF y
    <3>5. r.value = Len(q) /\ r.rest = y
      BY DEF Result
    <3>6. ~(Len(q) <= Len(y))
      BY <1>1, <3>1, <3>2
    <3> HIDE DEF r
    <3>7. StringOf(r) = Failed
      BY <3>5, <3>6 DEF StringOf
    <3> QED
      BY <3>4, <3>7 DEF Errors
  <2> QED
    BY <2>2, <2>3
<1> QED
  BY <1>3, <1>5, <1>7, <1>8

\* A string that was read, and what is behind it.
Read(s, x) == [status |-> "ok", string |-> s, rest |-> x]

\* Strings of single-byte characters are text.
LEMMA AsciiText ==
  ASSUME NEW s \in AsciiStrings
  PROVE  s \in Bytes /\ Text(s)
<1> DEFINE A == 0 .. 127
<1>1. s \in Seq(A)
  BY DEF AsciiStrings
<1>2. \A c \in A : c \in Byte /\ c < 128
  BY DEF Byte
<1> HIDE DEF A
<1>3. DOMAIN s = 1 .. Len(s) /\ \A i \in 1 .. Len(s) : s[i] \in A
  BY <1>1
<1>4. s \in Bytes
  BY <1>1, <1>2, <1>3 DEF Bytes
<1> QED
  BY <1>2, <1>3, <1>4 DEF Text

\* The payload q, with a flag that says whether it is coded, stands for s.
Holds(flags, q, s) ==
  \/ flags % 2 = 0 /\ q = s
  \/ flags % 2 = 1 /\ q \in Encodings(s)

\* A payload in either form gives the string that it stands for.
LEMMA StringHeld ==
  ASSUME NEW s \in AsciiStrings, NEW flags, NEW q, Holds(flags, q, s), NEW x
  PROVE  q \in Bytes /\ StringIs(flags, q, x) = Read(s, x)
<1>1. s \in Bytes /\ Text(s)
  BY AsciiText
<1> DEFINE strings == IF flags % 2 = 1 THEN Decoded(q) ELSE {q}
<1>2. q \in Bytes /\ strings = {s}
  <2>1. CASE flags % 2 = 0 /\ q = s
    BY <1>1, <2>1
  <2>2. CASE flags % 2 = 1 /\ q \in Encodings(s)
    BY <1>1, <2>2, EncodedDecodes
  <2> QED
    BY <2>1, <2>2 DEF Holds
<1>3. StringIs(flags, q, x) = IF \E t \in strings : Text(t)
                              THEN Read(CHOOSE t \in strings : TRUE, x) ELSE Failed
  BY DEF StringIs, Read
<1> HIDE DEF strings
<1>4. (CHOOSE t \in strings : TRUE) = s
  BY <1>2
<1> QED
  BY <1>1, <1>2, <1>3, <1>4

\* A coded payload that lacks its end.
LEMMA StringCut ==
  ASSUME NEW s \in AsciiStrings, NEW p \in Encodings(s), NEW m \in 0 .. Len(p), NEW flags,
         flags % 2 = 1, NEW x
  PROVE  \/ StringIs(flags, SubSeq(p, 1, m), x) = Failed
         \/ \E t \in Begins(s, 0) : StringIs(flags, SubSeq(p, 1, m), x) = Read(t, x)
<1> DEFINE q == SubSeq(p, 1, m)
           strings == Decoded(q)
<1>1. strings \subseteq Begins(s, 0)
  BY AsciiText, EncodedDecodes
<1>2. StringIs(flags, q, x) = IF \E t \in strings : Text(t)
                              THEN Read(CHOOSE t \in strings : TRUE, x) ELSE Failed
  BY DEF StringIs, Read
<1> HIDE DEF strings, q
<1>3. (\E t \in strings : Text(t)) => (CHOOSE t \in strings : TRUE) \in strings
  OBVIOUS
<1> QED
  BY <1>1, <1>2, <1>3 DEF q

\* A string behind its length, read with a prefix of the size.
Reads(v, size, s) ==
  /\ v \in Bytes /\ Len(v) > 0
  /\ \A x \in Bytes : String(v \o x, size + 1) = {Read(s, x)}
  /\ \A k \in 0 .. Len(v) - 1 : String(SubSeq(v, 1, k), size + 1) \subseteq Errors

\* The first byte of a prefix integer has the flags.
LEMMA FirstByte ==
  ASSUME NEW size \in Sizes, NEW flags \in Flags(size), NEW value \in Nat, value < 2 * Word,
         NEW e, e = EncodePrefix(size, flags, value)
  PROVE  e[1] \in Nat /\ e[1] >= flags * 2 ^ size /\ e[1] < flags * 2 ^ size + 2 ^ size
<1> DEFINE M == 2 ^ size
<1>1. M \in Nat /\ M >= 8 /\ flags \in Nat
  BY SizeFacts
<1>2. CASE WrittenOne(e, size, flags, value)
  <2>1. e[1] = flags * M + value /\ value < M - 1
    BY <1>2 DEF WrittenOne
  <2> HIDE DEF M
  <2>2. e[1] \in Nat /\ e[1] >= flags * M /\ e[1] < flags * M + M
    BY <1>1, <2>1
  <2> QED
    BY <2>2 DEF M
<1>3. CASE \E n : WrittenMore(e, size, flags, value, n)
  <2>1. e[1] = flags * M + (M - 1)
    BY <1>3 DEF WrittenMore
  <2> HIDE DEF M
  <2>2. e[1] \in Nat /\ e[1] >= flags * M /\ e[1] < flags * M + M
    BY <1>1, <2>1
  <2> QED
    BY <2>2 DEF M
<1> QED
  BY <1>2, <1>3, EncodePrefixBytes

\* A string in either form is read whole and never in part.
LEMMA StringRead ==
  ASSUME NEW size \in StringSizes, NEW flags \in Flags(size), NEW s \in AsciiStrings,
         NEW q, Holds(flags, q, s), Len(q) < Word
  PROVE  Reads(EncodeString(size, flags, q), size, s)
<1> DEFINE v == EncodeString(size, flags, q)
<1>1. q \in Bytes
  BY StringHeld
<1>2. /\ v \in Bytes
      /\ \A x \in Bytes : String(v \o x, size + 1) = {StringIs(flags, q, x)}
      /\ \A k \in 0 .. Len(v) - 1 : String(SubSeq(v, 1, k), size + 1) \subseteq Errors
  BY <1>1, StringEncoded
<1>3. \A x : StringIs(flags, q, x) = Read(s, x)
  BY StringHeld
<1>4. Len(v) > 0
  <2> DEFINE a == EncodePrefix(size, flags, Len(q))
  <2>1. size \in Sizes /\ Len(q) \in Nat /\ Len(q) < 2 * Word
    BY <1>1, StringSize, ByteAt, Groups
  <2>2. a \in Bytes /\ Len(a) > 0
    BY <2>1, EncodePrefixBytes
  <2> HIDE DEF a
  <2>3. Splits(a \o q, a, q)
    BY <1>1, <2>2, Joined
  <2>4. Len(a \o q) > 0
    BY <2>2, <2>3 DEF Splits
  <2> QED
    BY <2>4 DEF EncodeString, a
<1> HIDE DEF v
<1>5. Reads(v, size, s)
  BY <1>2, <1>3, <1>4 DEF Reads
<1> QED
  BY <1>5 DEF v

\* The first byte of a string behind its length.
LEMMA StringFirst ==
  ASSUME NEW size \in StringSizes, NEW flags \in Flags(size), NEW q \in Bytes, Len(q) < Word,
         NEW v, v = EncodeString(size, flags, q)
  PROVE  /\ v[1] \in Nat /\ v[1] >= flags * 2 ^ size /\ v[1] < flags * 2 ^ size + 2 ^ size
         /\ v \in Bytes /\ Len(v) > 0
<1> DEFINE a == EncodePrefix(size, flags, Len(q))
<1>1. size \in Sizes /\ Len(q) \in Nat /\ Len(q) < 2 * Word
  BY StringSize, ByteAt, Groups
<1>2. a \in Bytes /\ Len(a) > 0
  BY <1>1, EncodePrefixBytes
<1>3. a[1] \in Nat /\ a[1] >= flags * 2 ^ size /\ a[1] < flags * 2 ^ size + 2 ^ size
  BY <1>1, FirstByte
<1>4. v = a \o q
  BY DEF EncodeString
<1> HIDE DEF a
<1>5. Splits(v, a, q)
  BY <1>2, <1>4, Joined
<1>6. v[1] = a[1] /\ v \in Bytes /\ Len(v) > 0
  BY <1>2, <1>5 DEF Splits
<1> QED
  BY <1>3, <1>6

\* What a read returns is text, and the rest is bytes.
GoodString(o) ==
  o.status = "ok" /\ o.string \in Bytes /\ Text(o.string) /\ o.rest \in Bytes

\* Behind an integer there are bytes.
LEMMA RestBytes ==
  ASSUME NEW d \in Bytes, NEW r, PrefixGot(r, d)
  PROVE  r.rest \in Bytes
<1>1. PICK k \in 1 .. Len(d) : r.rest = SubSeq(d, k + 1, Len(d))
  BY DEF PrefixGot
<1>2. SubSeq(d, k + 1, Len(d)) \in Bytes
  BY DEF Bytes
<1> QED
  BY <1>1, <1>2

\* decode_string returns text from any bytes, or fails.
LEMMA StringAny ==
  ASSUME NEW d \in Bytes, NEW size \in StringSizes, NEW o \in String(d, size + 1)
  PROVE  o \in Errors \/ GoodString(o)
<1>1. PICK r \in Prefix(d, size) : o = IF r.status = "ok" THEN StringOf(r) ELSE r
  <2>1. size \in Nat
    BY StringSize
  <2>2. String(d, size + 1) = {IF z.status = "ok" THEN StringOf(z) ELSE z : z \in Prefix(d, size)}
    BY <2>1, PrefixOfString
  <2> QED
    BY <2>2
<1>2. PrefixGot(r, d) \/ r \in Errors
  BY StringSize, PrefixAny DEF Errors
<1>3. CASE r \in Errors
  <2>1. r.status # "ok"
    BY <1>3 DEF Errors, Failed, Panicked
  <2> QED
    BY <1>1, <1>3, <2>1
<1>4. CASE PrefixGot(r, d)
  <2> DEFINE payload == SubSeq(r.rest, 1, r.value)
             strings == IF r.flags % 2 = 1 THEN Decoded(payload) ELSE {payload}
             x == SubSeq(r.rest, r.value + 1, Len(r.rest))
  <2>1. r.rest \in Bytes /\ r.value \in Nat /\ r.status = "ok"
    BY <1>4, RestBytes DEF PrefixGot
  <2>2. o = IF r.value <= Len(r.rest) /\ \E s \in strings : Text(s)
            THEN Read(CHOOSE s \in strings : TRUE, x) ELSE Failed
    BY <1>1, <2>1 DEF StringOf, Read
  <2>3. CASE ~(r.value <= Len(r.rest) /\ \E s \in strings : Text(s))
    BY <2>2, <2>3 DEF Errors
  <2>4. CASE r.value <= Len(r.rest) /\ \E s \in strings : Text(s)
    <3>1. payload \in Bytes /\ x \in Bytes
      BY <2>1, <2>4 DEF Bytes
    <3>2. strings \in AtMostOne
      BY <3>1, DecodedOne DEF AtMostOne
    <3> HIDE DEF strings, x, payload
    <3>3. PICK s \in strings : Text(s)
      BY <2>4
    <3>4. s \in Bytes /\ (CHOOSE t \in strings : TRUE) = s
      BY <3>2, <3>3 DEF AtMostOne
    <3>5. o = Read(s, x)
      BY <2>2, <2>4, <3>4
    <3> QED
      BY <3>1, <3>3, <3>4, <3>5 DEF GoodString, Read
  <2> QED
    BY <2>3, <2>4
<1> QED
  BY <1>2, <1>3, <1>4

-----------------------------------------------------------------------------
(* Lines                                                                   *)

\* The static table.
LEMMA TableFacts ==
  ASSUME NEW i \in DOMAIN Table
  PROVE  /\ i \in Nat /\ i < Word
         /\ Table[i] = <<Table[i][1], Table[i][2]>>
         /\ Table[i][1] \in AsciiStrings /\ Table[i][2] \in AsciiStrings
<1>1. PICK n \in 0 .. Word - 1 : DOMAIN Table = 0 .. n - 1
  BY TableAssumption
<1>2. Word \in Nat
  BY Groups
<1>3. i \in Nat /\ i < Word
  BY <1>1, <1>2
<1>4. Table[i] \in AsciiStrings \X AsciiStrings
  BY TableAssumption
<1> QED
  BY <1>3, <1>4

\* The fields that are sent.
LEMMA FieldFacts ==
  ASSUME NEW f \in Fields
  PROVE  /\ f = <<f[1], f[2]>> /\ f[1] \in AsciiStrings /\ f[2] \in AsciiStrings
         /\ \A s \in {f[1], f[2]} : Len(s) < Word /\ \A p \in Encodings(s) : Len(p) < Word
<1>1. f \in AsciiStrings \X AsciiStrings
  BY TableAssumption
<1>2. \A s \in {f[1], f[2]} : \A p \in {s} \cup Encodings(s) : Len(p) < Word
  BY TableAssumption
<1>3. ASSUME NEW s \in {f[1], f[2]}
      PROVE  Len(s) < Word /\ \A p \in Encodings(s) : Len(p) < Word
  <2>1. \A p \in {s} \cup Encodings(s) : Len(p) < Word
    BY <1>2
  <2> QED
    BY <2>1
<1> QED
  BY <1>1, <1>3

\* What reading a line may come to.
Adds(name, value, rest) ==
  [status |-> "ok", name |-> name, value |-> value, rest |-> rest]

\* decode_index, behind the index.
Indexed(r) ==
  IF r.status # "ok" THEN {r}
  ELSE IF r.value \in DOMAIN Table
  THEN {Adds(Table[r.value][1], Table[r.value][2], r.rest)} ELSE {Failed}

\* A value is read for the name.
WithValue(name, d) ==
  {IF v.status = "ok" THEN Adds(name, v.string, v.rest) ELSE v : v \in String(d, 8)}

\* decode_literal_value, behind the index.
Named(r) ==
  IF r.status # "ok" THEN {r}
  ELSE IF r.value \in DOMAIN Table THEN WithValue(Table[r.value][1], r.rest) ELSE {Failed}

\* decode_literal, behind the name.
Literal(n) ==
  IF n.status # "ok" THEN {n} ELSE WithValue(n.string, n.rest)

\* The line that d begins with.
Outcomes(d) ==
  IF d[1] \in IndexBytes THEN UNION {Indexed(r) : r \in Prefix(d, 6)}
  ELSE IF d[1] \in NameRefBytes THEN UNION {Named(r) : r \in Prefix(d, 4)}
  ELSE IF d[1] \in LiteralBytes THEN UNION {Literal(n) : n \in String(d, 4)}
  ELSE {Failed}

\* A failed read adds nothing.
LEMMA ErrorsStop ==
  ASSUME NEW o \in Errors
  PROVE  o.status # "ok" /\ Indexed(o) = {o} /\ Named(o) = {o} /\ Literal(o) = {o}
<1>1. o.status # "ok"
  BY DEF Errors, Failed, Panicked
<1> QED
  BY <1>1 DEF Indexed, Named, Literal

\* A line whose value is read adds it.
LEMMA ValueOne ==
  ASSUME NEW name, NEW d, NEW s, NEW x, String(d, 7 + 1) = {Read(s, x)}
  PROVE  WithValue(name, d) = {Adds(name, s, x)}
<1>1. String(d, 8) = {Read(s, x)}
  OBVIOUS
<1> DEFINE r == Read(s, x)
<1>2. r.status = "ok" /\ r.string = s /\ r.rest = x
  BY DEF Read
<1> HIDE DEF r
<1>3. WithValue(name, d) = {IF v.status = "ok" THEN Adds(name, v.string, v.rest) ELSE v : v \in {r}}
  BY <1>1 DEF WithValue, r
<1> QED
  BY <1>2, <1>3

\* A line whose value is not read adds nothing.
LEMMA ValueNone ==
  ASSUME NEW name, NEW d, String(d, 7 + 1) \subseteq Errors
  PROVE  WithValue(name, d) \subseteq Errors
<1>1. String(d, 8) \subseteq Errors
  OBVIOUS
<1>2. \A v \in Errors : v.status # "ok"
  BY ErrorsStop
<1> QED
  BY <1>1, <1>2 DEF WithValue

\* Which form the first byte tells.
LEMMA FirstBytes ==
  ASSUME NEW b \in Nat
  PROVE  /\ b >= 192 /\ b < 256 => b \in IndexBytes
         /\ (b >= 80 /\ b < 96) \/ (b >= 112 /\ b < 128) =>
              b \in NameRefBytes /\ b \notin IndexBytes
         /\ b >= 32 /\ b < 64 =>
              b \in LiteralBytes /\ b \notin NameRefBytes /\ b \notin IndexBytes
<1>1. b >= 192 /\ b < 256 => b \in IndexBytes
  BY DEF IndexBytes
<1>2. ASSUME (b >= 80 /\ b < 96) \/ (b >= 112 /\ b < 128)
      PROVE  b \in NameRefBytes /\ b \notin IndexBytes
  <2>1. b \in 64 .. 127 /\ (b \div 16) % 2 = 1
    BY <1>2
  <2> QED
    BY <2>1 DEF NameRefBytes, IndexBytes
<1>3. ASSUME b >= 32, b < 64
      PROVE  b \in LiteralBytes /\ b \notin NameRefBytes /\ b \notin IndexBytes
  BY <1>3 DEF NameRefBytes, IndexBytes, LiteralBytes
<1> QED
  BY <1>1, <1>2, <1>3

\* A line that is read whole and never in part.
LineReads(l, name, value) ==
  /\ l \in Bytes /\ Len(l) > 0
  /\ \A x \in Bytes : Outcomes(l \o x) = {Adds(name, value, x)}
  /\ \A k \in 1 .. Len(l) - 1 : Outcomes(SubSeq(l, 1, k)) \subseteq Errors

\* The bytes and the first byte of a line that goes on.
LEMMA Leading ==
  ASSUME NEW a \in Bytes, Len(a) > 0
  PROVE  /\ \A x \in Bytes : a \o x \in Bytes /\ (a \o x)[1] = a[1] /\ a \o x # <<>>
                             /\ Len(a \o x) = Len(a) + Len(x)
         /\ \A k \in 1 .. Len(a) : /\ SubSeq(a, 1, k) \in Bytes /\ SubSeq(a, 1, k)[1] = a[1]
                                   /\ Len(SubSeq(a, 1, k)) = k
<1>1. Len(a) \in Nat /\ 1 \in 1 .. Len(a)
  BY ByteAt
<1>2. ASSUME NEW x \in Bytes
      PROVE  /\ a \o x \in Bytes /\ (a \o x)[1] = a[1] /\ a \o x # <<>>
             /\ Len(a \o x) = Len(a) + Len(x)
  <2>1. Splits(a \o x, a, x)
    BY Joined
  <2> DEFINE d == a \o x
  <2> HIDE DEF d
  <2>2. d \in Bytes /\ d[1] = a[1] /\ Len(d) = Len(a) + Len(x) /\ Len(d) # 0
    BY <1>1, <2>1 DEF Splits, d
  <2>3. d # <<>>
    BY <2>2
  <2> QED
    BY <2>2, <2>3 DEF d
<1>3. ASSUME NEW k \in 1 .. Len(a)
      PROVE  /\ SubSeq(a, 1, k) \in Bytes /\ SubSeq(a, 1, k)[1] = a[1]
             /\ Len(SubSeq(a, 1, k)) = k
  BY <1>1 DEF Bytes
<1> QED
  BY <1>2, <1>3

\* The flags and the size of a prefix, and the range of its first byte.
Form(size, flags, low, width) ==
  size \in Sizes /\ flags \in Flags(size) /\ flags * 2 ^ size = low /\ 2 ^ size = width

\* The forms in use.
LEMMA Forms ==
  /\ Form(6, 3, 192, 64) /\ Form(4, 5, 80, 16) /\ Form(4, 7, 112, 16)
  /\ Form(3, 4, 32, 8) /\ Form(3, 5, 40, 8) /\ Form(3, 6, 48, 8) /\ Form(3, 7, 56, 8)
  /\ Form(7, 0, 0, 128) /\ Form(7, 1, 128, 128) /\ Form(8, 0, 0, 256)
BY DEF Form, Sizes, Flags

\* The first byte of a prefix integer in one of the forms.
LEMMA FirstByteIs ==
  ASSUME NEW size, NEW flags, NEW low, NEW width, Form(size, flags, low, width),
         NEW value \in Nat, value < 2 * Word, NEW e, e = EncodePrefix(size, flags, value)
  PROVE  e[1] \in Nat /\ e[1] >= low /\ e[1] < low + width
BY FirstByte, Zenon DEF Form

\* A reference to the table is read whole and never in part.
LEMMA IndexReads ==
  ASSUME NEW i \in Nat, i < 2 * Word, NEW l, l = IndexLine(i)
  PROVE  /\ l \in Bytes /\ Len(l) > 0
         /\ i < Word => \A x \in Bytes : Outcomes(l \o x) = Indexed(Result(3, i, x))
         /\ \A k \in 1 .. Len(l) - 1 : Outcomes(SubSeq(l, 1, k)) \subseteq Errors
<1>1. 6 \in Sizes /\ 3 \in Flags(6) /\ 3 * 2 ^ 6 = 192 /\ 2 ^ 6 = 64
  BY DEF Sizes, Flags
<1>2. l = EncodePrefix(6, 3, i)
  BY DEF IndexLine
<1>3. l \in Bytes /\ Len(l) > 0
  BY <1>1, <1>2, EncodePrefixBytes
<1>4. l[1] \in IndexBytes
  <2>2. l[1] \in Nat /\ l[1] >= 192 /\ l[1] < 192 + 64
    BY <1>2, Forms, FirstByteIs, Zenon
  <2> QED
    BY <2>2, FirstBytes
<1>5. ASSUME i < Word, NEW x \in Bytes PROVE Outcomes(l \o x) = Indexed(Result(3, i, x))
  <2>1. (l \o x)[1] \in IndexBytes
    BY <1>3, <1>4, Leading
  <2>2. Prefix(l \o x, 6) = {Result(3, i, x)}
    BY <1>1, <1>2, <1>5, PrefixWhole
  <2> DEFINE d == l \o x
             r == Result(3, i, x)
  <2>3. Outcomes(d) = UNION {Indexed(z) : z \in Prefix(d, 6)}
    BY <2>1 DEF Outcomes
  <2> HIDE DEF d, r
  <2>4. Prefix(d, 6) = {r}
    BY <2>2 DEF d, r
  <2>5. Outcomes(d) = Indexed(r)
    BY <2>3, <2>4
  <2> QED
    BY <2>5 DEF d, r
<1>6. ASSUME NEW k \in 1 .. Len(l) - 1 PROVE Outcomes(SubSeq(l, 1, k)) \subseteq Errors
  <2> DEFINE d == SubSeq(l, 1, k)
  <2>1. Prefix(d, 6) \subseteq Errors
    <3>1. k \in 0 .. Len(l) - 1
      OBVIOUS
    <3>2. Prefix(d, 6) \subseteq {Failed, Panicked}
      BY <1>1, <1>2, <3>1, PrefixCut
    <3> QED
      BY <3>2 DEF Errors
  <2>2. d[1] \in IndexBytes
    <3>1. k \in 1 .. Len(l)
      BY <1>3, ByteAt
    <3> QED
      BY <1>3, <1>4, <3>1, Leading
  <2> HIDE DEF d
  <2>3. Outcomes(d) = UNION {Indexed(z) : z \in Prefix(d, 6)}
    BY <2>2 DEF Outcomes
  <2>4. Outcomes(d) \subseteq Errors
    BY <2>1, <2>3, ErrorsStop
  <2> QED
    BY <2>4 DEF d
<1> QED
  BY <1>3, <1>5, <1>6

\* The part of a line before its value, which tells the name.
Heading(a, name) ==
  /\ a \in Bytes /\ Len(a) > 0
  /\ \A y \in Bytes : Outcomes(a \o y) = WithValue(name, y)
  /\ \A k \in 1 .. Len(a) - 1 : Outcomes(SubSeq(a, 1, k)) \subseteq Errors

\* Concatenation is associative.
LEMMA Together ==
  ASSUME NEW a \in Bytes, NEW b \in Bytes, NEW c \in Bytes
  PROVE  (a \o b) \o c = a \o (b \o c)
BY DEF Bytes

\* A heading and a value are a line.
LEMMA HeadingReads ==
  ASSUME NEW a, NEW name, Heading(a, name), NEW v, NEW s, Reads(v, 7, s)
  PROVE  LineReads(a \o v, name, s)
<1>1. a \in Bytes /\ Len(a) > 0 /\ v \in Bytes /\ Len(v) > 0 /\ Len(a) \in Nat /\ Len(v) \in Nat
  BY ByteAt DEF Heading, Reads
<1>2. Splits(a \o v, a, v)
  BY <1>1, Joined
<1>3. a \o v \in Bytes /\ Len(a \o v) = Len(a) + Len(v)
  BY <1>2 DEF Splits
<1>4. ASSUME NEW x \in Bytes PROVE Outcomes((a \o v) \o x) = {Adds(name, s, x)}
  <2> DEFINE y == v \o x
  <2>1. y \in Bytes /\ (a \o v) \o x = a \o y
    BY <1>1, Joined, Together DEF Splits
  <2>2. String(y, 7 + 1) = {Read(s, x)}
    BY DEF Reads
  <2> HIDE DEF y
  <2>3. WithValue(name, y) = {Adds(name, s, x)}
    BY <2>2, ValueOne, Zenon
  <2> QED
    BY <2>1, <2>3 DEF Heading
<1>5. ASSUME NEW k \in 1 .. Len(a \o v) - 1 PROVE Outcomes(SubSeq(a \o v, 1, k)) \subseteq Errors
  <2>1. CASE k < Len(a)
    <3>1. k \in 0 .. Len(a) /\ k \in 1 .. Len(a) - 1
      BY <1>1, <2>1
    <3>2. SubSeq(a \o v, 1, k) = SubSeq(a, 1, k)
      BY <1>1, <3>1, JoinedCut
    <3> QED
      BY <3>1, <3>2 DEF Heading
  <2>2. CASE ~(k < Len(a))
    <3> DEFINE j == k - Len(a)
               y == SubSeq(v, 1, j)
    <3>1. j \in 0 .. Len(v) /\ j \in 0 .. Len(v) - 1 /\ k = Len(a) + j
      BY <1>1, <1>3, <2>2
    <3> HIDE DEF j
    <3>2. SubSeq(a \o v, 1, k) = a \o y /\ y \in Bytes
      <4>1. y \in Bytes
        BY <1>1, <3>1 DEF Bytes
      <4> HIDE DEF y
      <4>2. SubSeq(a \o v, 1, Len(a) + j) = a \o SubSeq(v, 1, j)
        BY <1>1, <3>1, JoinedCut
      <4> QED
        BY <3>1, <4>1, <4>2 DEF y
    <3>3. String(y, 7 + 1) \subseteq Errors
      BY <3>1 DEF Reads
    <3> HIDE DEF y
    <3>4. WithValue(name, y) \subseteq Errors
      BY <3>3, ValueNone, Zenon
    <3> QED
      BY <3>2, <3>4 DEF Heading
  <2> QED
    BY <2>1, <2>2
<1> QED
  BY <1>1, <1>3, <1>4, <1>5 DEF LineReads

\* A name from the table is a heading.
LEMMA NameHeading ==
  ASSUME NEW flags \in {5, 7}, NEW i \in DOMAIN Table, NEW a, a = EncodePrefix(4, flags, i)
  PROVE  Heading(a, Table[i][1])
<1>1. 4 \in Sizes /\ flags \in Flags(4)
  BY DEF Sizes, Flags
<1>2. i \in Nat /\ i < Word /\ i < 2 * Word
  BY TableFacts, Groups
<1>3. a \in Bytes /\ Len(a) > 0
  BY <1>1, <1>2, EncodePrefixBytes
<1>4. a[1] \in NameRefBytes /\ a[1] \notin IndexBytes
  <2>1. CASE flags = 5
    <3>1. a[1] \in Nat /\ a[1] >= 80 /\ a[1] < 80 + 16
      BY <1>2, <2>1, Forms, FirstByteIs, Zenon
    <3> QED
      BY <3>1, FirstBytes
  <2>2. CASE flags = 7
    <3>1. a[1] \in Nat /\ a[1] >= 112 /\ a[1] < 112 + 16
      BY <1>2, <2>2, Forms, FirstByteIs, Zenon
    <3> QED
      BY <3>1, FirstBytes
  <2> QED
    BY <2>1, <2>2
<1>5. ASSUME NEW x \in Bytes PROVE Outcomes(a \o x) = WithValue(Table[i][1], x)
  <2> DEFINE d == a \o x
             r == Result(flags, i, x)
  <2>1. d[1] = a[1]
    BY <1>3, Leading
  <2>2. Prefix(d, 4) = {r}
    BY <1>1, <1>2, PrefixWhole
  <2>3. r.status = "ok" /\ r.value = i /\ r.rest = x
    BY DEF Result
  <2> HIDE DEF d, r
  <2>4. Outcomes(d) = UNION {Named(z) : z \in Prefix(d, 4)}
    BY <1>4, <2>1 DEF Outcomes
  <2>5. Outcomes(d) = Named(r)
    BY <2>2, <2>4
  <2>6. Named(r) = WithValue(Table[i][1], x)
    BY <2>3 DEF Named
  <2> QED
    BY <2>5, <2>6 DEF d
<1>6. ASSUME NEW k \in 1 .. Len(a) - 1 PROVE Outcomes(SubSeq(a, 1, k)) \subseteq Errors
  <2> DEFINE d == SubSeq(a, 1, k)
  <2>1. Prefix(d, 4) \subseteq Errors
    <3>1. k \in 0 .. Len(a) - 1
      OBVIOUS
    <3>2. Prefix(d, 4) \subseteq {Failed, Panicked}
      BY <1>1, <1>2, <3>1, PrefixCut
    <3> QED
      BY <3>2 DEF Errors
  <2>2. d[1] = a[1]
    <3>1. k \in 1 .. Len(a)
      BY <1>3, ByteAt
    <3> QED
      BY <1>3, <3>1, Leading
  <2> HIDE DEF d
  <2>3. Outcomes(d) = UNION {Named(z) : z \in Prefix(d, 4)}
    BY <1>4, <2>2 DEF Outcomes
  <2>4. Outcomes(d) \subseteq Errors
    BY <2>1, <2>3, ErrorsStop
  <2> QED
    BY <2>4 DEF d
<1> QED
  BY <1>3, <1>5, <1>6 DEF Heading

\* A literal name is a heading.
LEMMA LiteralHeading ==
  ASSUME NEW flags \in {4, 5, 6, 7}, NEW name \in AsciiStrings, NEW q, Holds(flags, q, name),
         Len(q) < Word, NEW n, n = EncodeString(3, flags, q)
  PROVE  Heading(n, name)
<1>1. 3 \in StringSizes /\ flags \in Flags(3) /\ 3 \in Sizes
  BY DEF StringSizes, Sizes, Flags
<1>2. /\ n \in Bytes /\ Len(n) > 0
      /\ \A x \in Bytes : String(n \o x, 3 + 1) = {Read(name, x)}
      /\ \A k \in 0 .. Len(n) - 1 : String(SubSeq(n, 1, k), 3 + 1) \subseteq Errors
  <2>1. Reads(n, 3, name)
    BY <1>1, StringRead
  <2> QED
    BY <2>1 DEF Reads
<1>3. n[1] \in LiteralBytes /\ n[1] \notin NameRefBytes /\ n[1] \notin IndexBytes
  <2> DEFINE a == EncodePrefix(3, flags, Len(q))
  <2>1. q \in Bytes /\ Len(q) \in Nat /\ Len(q) < 2 * Word
    <3>1. q \in Bytes
      BY StringHeld
    <3> QED
      BY <3>1, ByteAt, Groups
  <2>2. a \in Bytes /\ Len(a) > 0
    BY <1>1, <2>1, EncodePrefixBytes
  <2>3. n = a \o q
    BY DEF EncodeString
  <2>4. a[1] \in Nat /\ a[1] >= 32 /\ a[1] < 64
    <3>1. CASE flags = 4
      <4>1. a[1] \in Nat /\ a[1] >= 32 /\ a[1] < 32 + 8
        BY <2>1, <3>1, Forms, FirstByteIs, Zenon
      <4> QED
        BY <4>1
    <3>2. CASE flags = 5
      <4>1. a[1] \in Nat /\ a[1] >= 40 /\ a[1] < 40 + 8
        BY <2>1, <3>2, Forms, FirstByteIs, Zenon
      <4> QED
        BY <4>1
    <3>3. CASE flags = 6
      <4>1. a[1] \in Nat /\ a[1] >= 48 /\ a[1] < 48 + 8
        BY <2>1, <3>3, Forms, FirstByteIs, Zenon
      <4> QED
        BY <4>1
    <3>4. CASE flags = 7
      <4>1. a[1] \in Nat /\ a[1] >= 56 /\ a[1] < 56 + 8
        BY <2>1, <3>4, Forms, FirstByteIs, Zenon
      <4> QED
        BY <4>1
    <3> QED
      BY <3>1, <3>2, <3>3, <3>4
  <2> HIDE DEF a
  <2>5. n[1] = a[1]
    BY <2>1, <2>2, <2>3, Leading
  <2> QED
    BY <2>4, <2>5, FirstBytes
<1>4. ASSUME NEW x \in Bytes PROVE Outcomes(n \o x) = WithValue(name, x)
  <2> DEFINE d == n \o x
             r == Read(name, x)
  <2>1. d[1] = n[1]
    BY <1>2, Leading
  <2>2. String(d, 4) = {r}
    BY <1>2
  <2>3. r.status = "ok" /\ r.string = name /\ r.rest = x
    BY DEF Read
  <2> HIDE DEF d, r
  <2>4. Outcomes(d) = UNION {Literal(z) : z \in String(d, 4)}
    BY <1>3, <2>1 DEF Outcomes
  <2>5. Outcomes(d) = Literal(r)
    BY <2>2, <2>4
  <2>6. Literal(r) = WithValue(name, x)
    BY <2>3 DEF Literal
  <2> QED
    BY <2>5, <2>6 DEF d
<1>5. ASSUME NEW k \in 1 .. Len(n) - 1 PROVE Outcomes(SubSeq(n, 1, k)) \subseteq Errors
  <2> DEFINE d == SubSeq(n, 1, k)
  <2>1. String(d, 4) \subseteq Errors
    BY <1>2
  <2>2. d[1] = n[1]
    <3>1. k \in 1 .. Len(n)
      BY <1>2, ByteAt
    <3> QED
      BY <1>2, <3>1, Leading
  <2> HIDE DEF d
  <2>3. Outcomes(d) = UNION {Literal(z) : z \in String(d, 4)}
    BY <1>3, <2>2 DEF Outcomes
  <2>4. Outcomes(d) \subseteq Errors
    BY <2>1, <2>3, ErrorsStop
  <2> QED
    BY <2>4 DEF d
<1> QED
  BY <1>2, <1>4, <1>5 DEF Heading

\* The least of some numbers is one of them.
LEMMA MinIn ==
  ASSUME NEW S \in SUBSET Nat, S # {}
  PROVE  Min(S) \in S
<1> DEFINE None == {}
           m == [x \in S |-> x]
<1>1. SUFFICES ASSUME \A x \in S : \E y \in S : ~(x =< y) PROVE FALSE
  BY DEF Min
<1>2. m \in [S -> Nat] /\ \A x \in S : m[x] = x
  OBVIOUS
<1> HIDE DEF m, None
<1>3. \A x \in S : (\A y \in S : m[y] < m[x] => y \in None) => x \in None
  BY <1>1, <1>2 DEF None
<1>4. \A x \in S : x \in None
  BY <1>2, <1>3, Eight, V!MeasuredInduction, Zenon
<1> QED
  BY <1>4 DEF None

\* The indices of the table are numbers.
LEMMA TableIndices == DOMAIN Table \subseteq Nat
BY TableFacts

\* StaticTable::find returns an entry that is the field.
LEMMA Finds ==
  ASSUME NEW f, f \in Range(Table)
  PROVE  Find(f) \in DOMAIN Table /\ Table[Find(f)] = f
<1> DEFINE S == {i \in DOMAIN Table : Table[i] = f}
<1>1. S # {} /\ S \in SUBSET Nat
  BY TableIndices DEF Range
<1>2. Min(S) \in S
  BY <1>1, MinIn
<1> QED
  BY <1>2 DEF Find

\* StaticTable::find_name returns an entry with the name.
LEMMA FindsName ==
  ASSUME NEW name, \E i \in DOMAIN Table : Table[i][1] = name
  PROVE  FindName(name) \in DOMAIN Table /\ Table[FindName(name)][1] = name
<1> DEFINE S == {i \in DOMAIN Table : Table[i][1] = name}
<1>1. S # {} /\ S \in SUBSET Nat
  BY TableIndices
<1>2. Min(S) \in S
  BY <1>1, MinIn
<1> QED
  BY <1>2 DEF FindName

\* A string behind the flags of its line, in either form.
WrittenString(v, size, flags, s) ==
  \E g \in {2 * flags, 2 * flags + 1} : \E q \in {s} \cup Encodings(s) :
    v = EncodeString(size, g, q) /\ Holds(g, q, s)

\* Any writer's string is in one of the two forms.
LEMMA StringsAre ==
  ASSUME NEW size, NEW flags \in Nat, NEW s, NEW v \in Strings(size, flags, s)
  PROVE  WrittenString(v, size, flags, s)
<1> DEFINE a == 2 * flags
           b == 2 * flags + 1
<1>1. a % 2 = 0 /\ b % 2 = 1
  OBVIOUS
<1>2. v = EncodeString(size, a, s) \/ \E p \in Encodings(s) : v = EncodeString(size, b, p)
  BY DEF Strings
<1> HIDE DEF a, b
<1>3. CASE v = EncodeString(size, a, s)
  <2>1. Holds(a, s, s)
    BY <1>1 DEF Holds
  <2> QED
    BY <1>3, <2>1 DEF WrittenString, a, b
<1>4. ASSUME NEW p \in Encodings(s), v = EncodeString(size, b, p) PROVE WrittenString(v, size, flags, s)
  <2>1. Holds(b, p, s)
    BY <1>1 DEF Holds
  <2> QED
    BY <1>4, <2>1 DEF WrittenString, a, b
<1> QED
  BY <1>2, <1>3, <1>4

\* Any writer's value is read.
LEMMA ValueReads ==
  ASSUME NEW s \in AsciiStrings, \A p \in {s} \cup Encodings(s) : Len(p) < Word,
         NEW v \in Strings(7, 0, s)
  PROVE  Reads(v, 7, s)
<1>1. PICK g \in {0, 1} : \E q \in {s} \cup Encodings(s) : v = EncodeString(7, g, q) /\ Holds(g, q, s)
  <2>1. WrittenString(v, 7, 0, s)
    BY StringsAre
  <2> QED
    BY <2>1 DEF WrittenString
<1>2. PICK q \in {s} \cup Encodings(s) : v = EncodeString(7, g, q) /\ Holds(g, q, s)
  BY <1>1
<1>3. 7 \in StringSizes /\ g \in Flags(7) /\ Len(q) < Word
  BY DEF StringSizes, Flags
<1> QED
  BY <1>2, <1>3, StringRead

\* Any writer's name is a heading.
LEMMA NameReads ==
  ASSUME NEW s \in AsciiStrings, \A p \in {s} \cup Encodings(s) : Len(p) < Word,
         NEW n \in Strings(3, 2, s) \cup Strings(3, 3, s)
  PROVE  Heading(n, s)
<1>1. PICK g \in {4, 5, 6, 7} : \E q \in {s} \cup Encodings(s) : n = EncodeString(3, g, q) /\ Holds(g, q, s)
  <2>1. CASE n \in Strings(3, 2, s)
    <3>1. WrittenString(n, 3, 2, s)
      BY <2>1, StringsAre
    <3> QED
      BY <3>1 DEF WrittenString
  <2>2. CASE n \in Strings(3, 3, s)
    <3>1. WrittenString(n, 3, 3, s)
      BY <2>2, StringsAre
    <3> QED
      BY <3>1 DEF WrittenString
  <2> QED
    BY <2>1, <2>2
<1>2. PICK q \in {s} \cup Encodings(s) : n = EncodeString(3, g, q) /\ Holds(g, q, s)
  BY <1>1
<1>3. Len(q) < Word
  OBVIOUS
<1> QED
  BY <1>2, <1>3, LiteralHeading

\* A reference to the table reads as the entry.
LEMMA IndexLineReads ==
  ASSUME NEW i \in DOMAIN Table
  PROVE  LineReads(IndexLine(i), Table[i][1], Table[i][2])
<1> DEFINE l == IndexLine(i)
<1>1. i \in Nat /\ i < Word /\ i < 2 * Word
  BY TableFacts, Groups
<1>2. /\ l \in Bytes /\ Len(l) > 0
      /\ \A x \in Bytes : Outcomes(l \o x) = Indexed(Result(3, i, x))
      /\ \A k \in 1 .. Len(l) - 1 : Outcomes(SubSeq(l, 1, k)) \subseteq Errors
  BY <1>1, IndexReads
<1> HIDE DEF l
<1>3. ASSUME NEW x PROVE Indexed(Result(3, i, x)) = {Adds(Table[i][1], Table[i][2], x)}
  <2> DEFINE r == Result(3, i, x)
  <2>1. r.status = "ok" /\ r.value = i /\ r.rest = x
    BY DEF Result
  <2> HIDE DEF r
  <2>2. Indexed(r) = {Adds(Table[i][1], Table[i][2], x)}
    BY <2>1 DEF Indexed
  <2> QED
    BY <2>2 DEF r
<1>4. LineReads(l, Table[i][1], Table[i][2])
  BY <1>2, <1>3 DEF LineReads
<1> QED
  BY <1>4 DEF l

\* The forms of a line.
LineForm(l, f) ==
  \/ \E i \in DOMAIN Table : Table[i] = f /\ l = IndexLine(i)
  \/ \E flags \in {5, 7}, i \in DOMAIN Table, v \in Strings(7, 0, f[2]) :
       Table[i][1] = f[1] /\ l = NameLine(flags, i, v)
  \/ \E n \in Strings(3, 2, f[1]) \cup Strings(3, 3, f[1]), v \in Strings(7, 0, f[2]) :
       l = LiteralLine(n, v)

\* Headers::encode writes one of the three forms.
LEMMA OwnLineForm ==
  ASSUME NEW f
  PROVE  LineForm(OwnLine(f), f)
<1> DEFINE v == EncodeString(7, 0, f[2])
           n == EncodeString(3, 4, f[1])
<1>1. v \in Strings(7, 0, f[2]) /\ n \in Strings(3, 2, f[1])
  BY DEF Strings
<1>2. CASE f \in Range(Table)
  BY <1>2, Finds DEF OwnLine, LineForm
<1>3. CASE f \notin Range(Table) /\ \E i \in DOMAIN Table : Table[i][1] = f[1]
  <2> DEFINE i == FindName(f[1])
  <2>1. i \in DOMAIN Table /\ Table[i][1] = f[1]
    BY <1>3, FindsName
  <2>2. OwnLine(f) = NameLine(5, i, v)
    BY <1>3 DEF OwnLine
  <2> HIDE DEF v, n, i
  <2> QED
    BY <1>1, <2>1, <2>2 DEF LineForm
<1>4. CASE f \notin Range(Table) /\ ~\E i \in DOMAIN Table : Table[i][1] = f[1]
  <2>2. OwnLine(f) = LiteralLine(n, v)
    BY <1>4 DEF OwnLine
  <2> HIDE DEF v, n
  <2> QED
    BY <1>1, <2>2 DEF LineForm
<1> QED
  BY <1>2, <1>3, <1>4

\* Every writer uses one of the three forms.
LEMMA LinesForm ==
  ASSUME NEW f, NEW l \in Lines(f)
  PROVE  LineForm(l, f)
<1>1. CASE l = OwnLine(f)
  BY <1>1, OwnLineForm
<1>2. CASE \E i \in DOMAIN Table : Table[i] = f /\ l = IndexLine(i)
  BY <1>2 DEF LineForm
<1>3. CASE \E flags \in {5, 7}, i \in DOMAIN Table, v \in Strings(7, 0, f[2]) :
             Table[i][1] = f[1] /\ l = NameLine(flags, i, v)
  BY <1>3 DEF LineForm
<1>4. CASE \E n \in Strings(3, 2, f[1]) \cup Strings(3, 3, f[1]), v \in Strings(7, 0, f[2]) :
             l = LiteralLine(n, v)
  BY <1>4 DEF LineForm
<1> QED
  BY <1>1, <1>2, <1>3, <1>4 DEF Lines

\* Any writer's line is read as its field, whole and never in part.
LEMMA LineIs ==
  ASSUME NEW f \in Fields, NEW l \in Lines(f)
  PROVE  LineReads(l, f[1], f[2])
<1>1. /\ f[1] \in AsciiStrings /\ f[2] \in AsciiStrings
      /\ \A p \in {f[1]} \cup Encodings(f[1]) : Len(p) < Word
      /\ \A p \in {f[2]} \cup Encodings(f[2]) : Len(p) < Word
  BY FieldFacts
<1>2. CASE \E i \in DOMAIN Table : Table[i] = f /\ l = IndexLine(i)
  BY <1>2, IndexLineReads
<1>3. ASSUME NEW flags \in {5, 7}, NEW i \in DOMAIN Table, NEW v \in Strings(7, 0, f[2]),
             Table[i][1] = f[1], l = NameLine(flags, i, v)
      PROVE  LineReads(l, f[1], f[2])
  <2> DEFINE a == EncodePrefix(4, flags, i)
  <2>1. Heading(a, f[1])
    BY <1>3, NameHeading
  <2>2. Reads(v, 7, f[2])
    BY <1>1, ValueReads
  <2>3. l = a \o v
    BY <1>3 DEF NameLine
  <2> HIDE DEF a
  <2> QED
    BY <2>1, <2>2, <2>3, HeadingReads
<1>4. ASSUME NEW n \in Strings(3, 2, f[1]) \cup Strings(3, 3, f[1]), NEW v \in Strings(7, 0, f[2]),
             l = LiteralLine(n, v)
      PROVE  LineReads(l, f[1], f[2])
  <2>1. Heading(n, f[1])
    BY <1>1, NameReads
  <2>2. Reads(v, 7, f[2])
    BY <1>1, ValueReads
  <2>3. l = n \o v
    BY <1>4 DEF LiteralLine
  <2> QED
    BY <2>1, <2>2, <2>3, HeadingReads
<1>5. LineForm(l, f)
  BY LinesForm
<1> QED
  BY <1>2, <1>3, <1>4, <1>5 DEF LineForm

-----------------------------------------------------------------------------
(* Ends of a block                                                         *)

\* The end of a block that is refused.
Refuses(e) == e \in Bytes /\ e # <<>> /\ Outcomes(e) \subseteq Errors

\* The end of a block that is refused, or adds the beginning of the value of f.
ShortEnd(e, f) ==
  /\ e \in Bytes /\ e # <<>>
  /\ Outcomes(e) \subseteq Errors \cup {Adds(f[1], SubSeq(f[2], 1, k), <<>>) : k \in 0 .. Len(f[2])}

\* A line that is cut is refused.
LEMMA CutRefuses ==
  ASSUME NEW f \in Fields, NEW l \in Lines(f), NEW n \in 1 .. Len(l) - 1
  PROVE  Refuses(SubSeq(l, 1, n))
<1>1. l \in Bytes /\ Outcomes(SubSeq(l, 1, n)) \subseteq Errors
  BY LineIs DEF LineReads
<1>2. SubSeq(l, 1, n) \in Bytes /\ SubSeq(l, 1, n) # <<>>
  BY <1>1 DEF Bytes
<1> QED
  BY <1>1, <1>2 DEF Refuses

\* Bytes with nothing behind them.
LEMMA NothingBehind ==
  ASSUME NEW d \in Bytes
  PROVE  d \o <<>> = d /\ <<>> \in Bytes
BY DEF Bytes

\* References to a dynamic table are refused.
LEMMA ByteRefuses ==
  ASSUME NEW b \in {128, 64, 16, 0}
  PROVE  Refuses(<<b>>)
<1>1. <<b>> \in Bytes /\ <<b>> # <<>> /\ <<b>>[1] = b
  BY DEF Bytes, Byte
<1>2. b \notin IndexBytes /\ b \notin NameRefBytes /\ b \notin LiteralBytes
  BY DEF IndexBytes, NameRefBytes, LiteralBytes
<1>3. Outcomes(<<b>>) = {Failed}
  BY <1>1, <1>2 DEF Outcomes
<1> QED
  BY <1>1, <1>3 DEF Refuses, Errors

\* The first index beyond the static table is refused.
LEMMA BeyondRefuses == Refuses(IndexLine(Cardinality(DOMAIN Table)))
<1>1. PICK n \in 0 .. Word - 1 : DOMAIN Table = 0 .. n - 1
  BY TableAssumption
<1>2. Word \in Nat /\ n \in Nat /\ n < Word /\ n < 2 * Word /\ n - 1 \in Int
  BY Groups
<1>3. Cardinality(0 .. n - 1) = n
  <2>1. Cardinality(0 .. n - 1) = IF 0 > n - 1 THEN 0 ELSE (n - 1) - 0 + 1
    BY <1>2, FS_Interval
  <2> QED
    BY <1>2, <2>1
<1> DEFINE l == IndexLine(n)
<1>4. /\ l \in Bytes /\ Len(l) > 0
      /\ \A x \in Bytes : Outcomes(l \o x) = Indexed(Result(3, n, x))
  BY <1>2, IndexReads
<1>5. n \notin DOMAIN Table
  BY <1>1, <1>2
<1> HIDE DEF l
<1>6. Indexed(Result(3, n, <<>>)) = {Failed}
  <2> DEFINE r == Result(3, n, <<>>)
  <2>1. r.status = "ok" /\ r.value = n
    BY DEF Result
  <2> HIDE DEF r
  <2>2. Indexed(r) = {Failed}
    BY <1>5, <2>1 DEF Indexed
  <2> QED
    BY <2>2 DEF r
<1>7. Outcomes(l) = {Failed}
  BY <1>4, <1>6, NothingBehind
<1>8. l # <<>>
  BY <1>4
<1>9. Refuses(l)
  BY <1>4, <1>7, <1>8 DEF Refuses, Errors
<1> QED
  BY <1>1, <1>3, <1>9 DEF l

\* A literal line whose value is q behind its length.
LEMMA LiteralEnd ==
  ASSUME NEW name \in AsciiStrings, Len(name) < Word, NEW g \in {0, 1},
         NEW q \in Bytes, Len(q) < Word,
         NEW l, l = LiteralLine(EncodeString(3, 4, name), EncodeString(7, g, q))
  PROVE  /\ l \in Bytes /\ l # <<>>
         /\ StringIs(g, q, <<>>) \in Errors => Outcomes(l) \subseteq Errors
         /\ \A s : StringIs(g, q, <<>>) = Read(s, <<>>) => Outcomes(l) = {Adds(name, s, <<>>)}
<1> DEFINE n == EncodeString(3, 4, name)
           v == EncodeString(7, g, q)
<1>1. Heading(n, name)
  <2>1. Holds(4, name, name)
    BY DEF Holds
  <2> QED
    BY <2>1, LiteralHeading
<1>2. 7 \in StringSizes /\ g \in Flags(7)
  BY DEF StringSizes, Flags
<1>3. v \in Bytes /\ String(v, 7 + 1) = {StringIs(g, q, <<>>)}
  <2>1. v \in Bytes /\ \A x \in Bytes : String(v \o x, 7 + 1) = {StringIs(g, q, x)}
    BY <1>2, StringEncoded, Zenon
  <2> HIDE DEF v
  <2> QED
    BY <2>1, NothingBehind
<1>4. l = n \o v
  BY DEF LiteralLine
<1> HIDE DEF n, v
<1>5. n \in Bytes /\ Len(n) > 0 /\ Outcomes(l) = WithValue(name, v)
  BY <1>1, <1>3, <1>4 DEF Heading
<1>6. l \in Bytes /\ l # <<>>
  BY <1>3, <1>4, <1>5, Leading
<1>7. ASSUME StringIs(g, q, <<>>) \in Errors PROVE Outcomes(l) \subseteq Errors
  <2>1. String(v, 7 + 1) \subseteq Errors
    BY <1>3, <1>7
  <2> QED
    BY <1>5, <2>1, ValueNone, Zenon
<1>8. ASSUME NEW s, StringIs(g, q, <<>>) = Read(s, <<>>)
      PROVE  Outcomes(l) = {Adds(name, s, <<>>)}
  <2>1. String(v, 7 + 1) = {Read(s, <<>>)}
    BY <1>3, <1>8
  <2> QED
    BY <1>5, <2>1, ValueOne, Zenon
<1> QED
  BY <1>6, <1>7, <1>8

\* A literal line is refused for its value.
LEMMA LiteralRefuses ==
  ASSUME NEW g \in {0, 1}, NEW q \in Bytes, Len(q) < Word, StringIs(g, q, <<>>) = Failed
  PROVE  Refuses(LiteralLine(EncodeString(3, 4, <<1>>), EncodeString(7, g, q)))
<1>1. <<1>> \in AsciiStrings
  BY DEF AsciiStrings
<1>2. Len(<<1>>) < Word
  BY Groups
<1>3. Failed \in Errors
  BY DEF Errors
<1> DEFINE l == LiteralLine(EncodeString(3, 4, <<1>>), EncodeString(7, g, q))
<1>4. l \in Bytes /\ l # <<>> /\ Outcomes(l) \subseteq Errors
  BY <1>1, <1>2, <1>3, LiteralEnd
<1> QED
  BY <1>4 DEF Refuses

\* All of Refused is refused.
LEMMA RefusedRefuses ==
  ASSUME NEW l \in Refused
  PROVE  Refuses(l)
<1>1. <<200>> \in Bytes /\ <<255, 0>> \in Bytes /\ <<0>> \in Bytes
  BY DEF Bytes, Byte
<1>2. Len(<<200>>) < Word /\ Len(<<255, 0>>) < Word /\ Len(<<0>>) < Word
  BY Groups
<1>3. StringIs(0, <<200>>, <<>>) = Failed
  <2>1. 0 % 2 # 1
    OBVIOUS
  <2>2. ~Text(<<200>>)
    BY DEF Text
  <2> QED
    BY <2>1, <2>2 DEF StringIs
<1>4. StringIs(1, <<255, 0>>, <<>>) = Failed /\ StringIs(1, <<0>>, <<>>) = Failed
  BY RefusedAssumption DEF StringIs
<1>5. /\ Refuses(LiteralLine(EncodeString(3, 4, <<1>>), EncodeString(7, 0, <<200>>)))
      /\ Refuses(LiteralLine(EncodeString(3, 4, <<1>>), EncodeString(7, 1, <<255, 0>>)))
      /\ Refuses(LiteralLine(EncodeString(3, 4, <<1>>), EncodeString(7, 1, <<0>>)))
  BY <1>1, <1>2, <1>3, <1>4, LiteralRefuses
<1>6. Refuses(<<128>>) /\ Refuses(<<64>>) /\ Refuses(<<16>>) /\ Refuses(<<0>>)
  BY ByteRefuses
<1> QED
  BY <1>5, <1>6, BeyondRefuses DEF Refused

\* A coded value that lacks its end is refused, or read as its beginning.
LEMMA ShortEnds ==
  ASSUME NEW f \in Fields, NEW p \in Encodings(f[2]), NEW n \in 0 .. Len(p) - 1,
         NEW l, l = LiteralLine(EncodeString(3, 4, f[1]), EncodeString(7, 1, SubSeq(p, 1, n)))
  PROVE  ShortEnd(l, f)
<1> DEFINE q == SubSeq(p, 1, n)
           s == f[2]
<1>1. /\ f[1] \in AsciiStrings /\ s \in AsciiStrings
      /\ Len(f[1]) < Word /\ Len(p) < Word
  BY FieldFacts
<1>2. s \in Bytes /\ p \in Bytes
  BY <1>1, AsciiText, EncodedDecodes
<1>3. Len(p) \in Nat /\ n \in 0 .. Len(p)
  BY <1>2, ByteAt
<1>4. q \in Bytes /\ Len(q) = n
  BY <1>2, <1>3 DEF Bytes
<1>5. Len(q) < Word
  BY <1>1, <1>3, <1>4, Groups
<1>6. \/ StringIs(1, q, <<>>) = Failed
      \/ \E t \in Begins(s, 0) : StringIs(1, q, <<>>) = Read(t, <<>>)
  <2>1. ASSUME NEW one, one % 2 = 1
        PROVE  \/ StringIs(one, q, <<>>) = Failed
               \/ \E t \in Begins(s, 0) : StringIs(one, q, <<>>) = Read(t, <<>>)
    BY <1>1, <1>3, <2>1, StringCut
  <2>2. 1 % 2 = 1
    OBVIOUS
  <2> QED
    BY <2>1, <2>2, Zenon
<1> HIDE DEF q
<1>7. /\ l \in Bytes /\ l # <<>>
      /\ StringIs(1, q, <<>>) \in Errors => Outcomes(l) \subseteq Errors
      /\ \A t : StringIs(1, q, <<>>) = Read(t, <<>>) => Outcomes(l) = {Adds(f[1], t, <<>>)}
  <2>1. l = LiteralLine(EncodeString(3, 4, f[1]), EncodeString(7, 1, q))
    BY DEF q
  <2>2. 1 \in {0, 1}
    OBVIOUS
  <2> QED
    BY <1>1, <1>4, <1>5, <2>1, <2>2, LiteralEnd
<1>8. CASE StringIs(1, q, <<>>) = Failed
  BY <1>7, <1>8 DEF ShortEnd, Errors
<1>9. ASSUME NEW k \in 0 .. Len(s), StringIs(1, q, <<>>) = Read(SubSeq(s, 1, k), <<>>)
      PROVE  ShortEnd(l, f)
  BY <1>7, <1>9 DEF ShortEnd
<1>10. Begins(s, 0) = {SubSeq(s, 1, k) : k \in 0 .. Len(s)}
  <2>1. 0 + 1 = 1
    OBVIOUS
  <2> QED
    BY <2>1, Zenon DEF Begins
<1> QED
  BY <1>6, <1>8, <1>9, <1>10

-----------------------------------------------------------------------------
(* Steps                                                                   *)

\* What a line adds is text, and the rest is bytes.
GoodLine(o) ==
  o.status = "ok" /\ Text(o.name) /\ Text(o.value) /\ o.rest \in Bytes

\* The static table has text.
LEMMA TableText ==
  ASSUME NEW i \in DOMAIN Table
  PROVE  Text(Table[i][1]) /\ Text(Table[i][2])
BY TableFacts, AsciiText

\* Text that is added is good.
LEMMA GoodAdds ==
  ASSUME NEW name, Text(name), NEW value, Text(value), NEW x \in Bytes
  PROVE  GoodLine(Adds(name, value, x))
BY DEF GoodLine, Adds

\* A value that is read is text.
LEMMA WithValueAny ==
  ASSUME NEW name, Text(name), NEW d \in Bytes, NEW o \in WithValue(name, d)
  PROVE  o \in Errors \/ GoodLine(o)
<1>1. PICK v \in String(d, 8) : o = IF v.status = "ok" THEN Adds(name, v.string, v.rest) ELSE v
  BY DEF WithValue
<1>2. v \in Errors \/ GoodString(v)
  <2>1. PICK size \in StringSizes : size + 1 = 8
    BY DEF StringSizes
  <2>2. v \in String(d, size + 1)
    BY <2>1
  <2> QED
    BY <2>2, StringAny
<1>3. CASE v \in Errors
  BY <1>1, <1>3, ErrorsStop
<1>4. CASE GoodString(v)
  BY <1>1, <1>4, GoodAdds DEF GoodString
<1> QED
  BY <1>2, <1>3, <1>4

\* A line of any bytes adds text or fails.
LEMMA OutcomesAny ==
  ASSUME NEW d \in Bytes, NEW o \in Outcomes(d)
  PROVE  o \in Errors \/ GoodLine(o)
<1>1. ASSUME NEW r \in Prefix(d, 6), o \in Indexed(r) PROVE o \in Errors \/ GoodLine(o)
  <2>1. r \in Errors \/ PrefixGot(r, d)
    <3>1. 6 \in Sizes
      BY DEF Sizes
    <3> QED
      BY <3>1, PrefixAny DEF Errors
  <2>2. CASE r \in Errors
    BY <1>1, <2>2, ErrorsStop
  <2>3. CASE PrefixGot(r, d)
    <3>1. r.rest \in Bytes /\ r.status = "ok"
      BY <2>3, RestBytes DEF PrefixGot
    <3>2. CASE r.value \in DOMAIN Table
      <4>1. o = Adds(Table[r.value][1], Table[r.value][2], r.rest)
        BY <1>1, <3>1, <3>2 DEF Indexed
      <4> QED
        BY <3>1, <3>2, <4>1, TableText, GoodAdds
    <3>3. CASE r.value \notin DOMAIN Table
      BY <1>1, <3>1, <3>3 DEF Indexed, Errors
    <3> QED
      BY <3>2, <3>3
  <2> QED
    BY <2>1, <2>2, <2>3
<1>2. ASSUME NEW r \in Prefix(d, 4), o \in Named(r) PROVE o \in Errors \/ GoodLine(o)
  <2>1. r \in Errors \/ PrefixGot(r, d)
    <3>1. 4 \in Sizes
      BY DEF Sizes
    <3> QED
      BY <3>1, PrefixAny DEF Errors
  <2>2. CASE r \in Errors
    BY <1>2, <2>2, ErrorsStop
  <2>3. CASE PrefixGot(r, d)
    <3>1. r.rest \in Bytes /\ r.status = "ok"
      BY <2>3, RestBytes DEF PrefixGot
    <3>2. CASE r.value \in DOMAIN Table
      <4>1. o \in WithValue(Table[r.value][1], r.rest)
        BY <1>2, <3>1, <3>2 DEF Named
      <4> QED
        BY <3>1, <3>2, <4>1, TableText, WithValueAny
    <3>3. CASE r.value \notin DOMAIN Table
      BY <1>2, <3>1, <3>3 DEF Named, Errors
    <3> QED
      BY <3>2, <3>3
  <2> QED
    BY <2>1, <2>2, <2>3
<1>3. ASSUME NEW n \in String(d, 4), o \in Literal(n) PROVE o \in Errors \/ GoodLine(o)
  <2>1. n \in Errors \/ GoodString(n)
    <3>1. PICK size \in StringSizes : size + 1 = 4
      BY DEF StringSizes
    <3>2. n \in String(d, size + 1)
      BY <3>1
    <3> QED
      BY <3>2, StringAny
  <2>2. CASE n \in Errors
    BY <1>3, <2>2, ErrorsStop
  <2>3. CASE GoodString(n)
    <3>1. o \in WithValue(n.string, n.rest)
      BY <1>3, <2>3 DEF Literal, GoodString
    <3> QED
      BY <2>3, <3>1, WithValueAny DEF GoodString
  <2> QED
    BY <2>1, <2>2, <2>3
<1>4. CASE o = Failed
  BY <1>4 DEF Errors
<1> QED
  BY <1>1, <1>2, <1>3, <1>4 DEF Outcomes

\* The map st after name was read with the value.
Added(st, name, value) ==
  [n \in DOMAIN st \cup {name} |-> IF n = name THEN value ELSE st[n]]

\* A line comes to o.
Takes(o) ==
  \/ /\ o.status = "ok" /\ status' = status /\ data' = o.rest
     /\ fields' = Added(fields, o.name, o.value)
  \/ o.status # "ok" /\ status' = o.status /\ data' = data /\ fields' = fields

\* One line is read.
ReadLine == ReadIndex \/ ReadNameRef \/ ReadLiteral \/ RefuseLine

\* A read that fails takes that outcome.
LEMMA TakesStop ==
  ASSUME NEW o, Stop(o)
  PROVE  Takes(o) /\ o.status # "ok"
BY DEF Stop, Takes

\* Inserting a field takes that outcome.
LEMMA TakesAdds ==
  ASSUME NEW name, NEW value, NEW x, Insert(name, value, x)
  PROVE  Takes(Adds(name, value, x))
BY DEF Insert, Takes, Adds, Added

\* The first byte tells one form only.
LEMMA Apart ==
  /\ \A b \in NameRefBytes : b \notin IndexBytes
  /\ \A b \in LiteralBytes : b \notin IndexBytes /\ b \notin NameRefBytes
<1>1. ASSUME NEW b \in NameRefBytes PROVE b \notin IndexBytes
  <2>1. b \in 64 .. 127
    BY DEF NameRefBytes
  <2> QED
    BY <2>1 DEF IndexBytes
<1>2. ASSUME NEW b \in LiteralBytes PROVE b \notin IndexBytes /\ b \notin NameRefBytes
  <2>1. b \in 32 .. 63
    BY DEF LiteralBytes
  <2>2. b \notin 64 .. 127 /\ b \notin IndexBytes
    BY <2>1 DEF IndexBytes
  <2> QED
    BY <2>2 DEF NameRefBytes
<1> QED
  BY <1>1, <1>2

\* Each action that reads a line takes one of its outcomes.
LEMMA ReadLineTakes ==
  ASSUME ReadLine
  PROVE  /\ status = "lines" /\ data # <<>> /\ sent' = sent /\ tail' = tail
         /\ \E o \in Outcomes(data) : Takes(o)
<1>1. CASE ReadIndex
  <2>1. status = "lines" /\ data # <<>> /\ data[1] \in IndexBytes /\ sent' = sent /\ tail' = tail
    BY <1>1 DEF ReadIndex, NextIn
  <2>2. PICK r \in Prefix(data, 6) :
          \/ Stop(r)
          \/ /\ r.status = "ok"
             /\ IF r.value \in DOMAIN Table
                THEN Insert(Table[r.value][1], Table[r.value][2], r.rest)
                ELSE Stop(Failed)
    BY <1>1 DEF ReadIndex
  <2>3. Indexed(r) \subseteq Outcomes(data)
    BY <2>1, <2>2 DEF Outcomes
  <2>4. \E o \in Indexed(r) : Takes(o)
    <3>1. CASE Stop(r)
      BY <3>1, TakesStop DEF Indexed
    <3>2. CASE r.status = "ok" /\ r.value \in DOMAIN Table
               /\ Insert(Table[r.value][1], Table[r.value][2], r.rest)
      BY <3>2, TakesAdds DEF Indexed
    <3>3. CASE r.status = "ok" /\ r.value \notin DOMAIN Table /\ Stop(Failed)
      BY <3>3, TakesStop DEF Indexed
    <3> QED
      BY <2>2, <3>1, <3>2, <3>3
  <2> QED
    BY <2>1, <2>3, <2>4
<1>2. CASE ReadNameRef
  <2>1. status = "lines" /\ data # <<>> /\ data[1] \in NameRefBytes /\ sent' = sent /\ tail' = tail
    BY <1>2 DEF ReadNameRef, NextIn
  <2>2. PICK r \in Prefix(data, 4) :
          \/ Stop(r)
          \/ r.status = "ok" /\ r.value \notin DOMAIN Table /\ Stop(Failed)
          \/ /\ r.status = "ok" /\ r.value \in DOMAIN Table
             /\ \E v \in String(r.rest, 8) :
                  \/ Stop(v)
                  \/ v.status = "ok" /\ Insert(Table[r.value][1], v.string, v.rest)
    BY <1>2 DEF ReadNameRef
  <2>3. Named(r) \subseteq Outcomes(data)
    <3>1. data[1] \notin IndexBytes
      BY <2>1, Apart
    <3> QED
      BY <2>1, <2>2, <3>1 DEF Outcomes
  <2>4. \E o \in Named(r) : Takes(o)
    <3>1. CASE Stop(r)
      BY <3>1, TakesStop DEF Named
    <3>2. ASSUME r.status = "ok", r.value \in DOMAIN Table, NEW v \in String(r.rest, 8), Stop(v)
          PROVE  \E o \in Named(r) : Takes(o)
      BY <3>2, TakesStop DEF Named, WithValue
    <3>3. ASSUME r.status = "ok", r.value \in DOMAIN Table, NEW v \in String(r.rest, 8),
                 v.status = "ok", Insert(Table[r.value][1], v.string, v.rest)
          PROVE  \E o \in Named(r) : Takes(o)
      BY <3>3, TakesAdds DEF Named, WithValue
    <3>4. CASE r.status = "ok" /\ r.value \notin DOMAIN Table /\ Stop(Failed)
      BY <3>4, TakesStop DEF Named
    <3> QED
      BY <2>2, <3>1, <3>2, <3>3, <3>4
  <2> QED
    BY <2>1, <2>3, <2>4
<1>3. CASE ReadLiteral
  <2>1. status = "lines" /\ data # <<>> /\ data[1] \in LiteralBytes /\ sent' = sent /\ tail' = tail
    BY <1>3 DEF ReadLiteral, NextIn
  <2>2. PICK n \in String(data, 4) :
          \/ Stop(n)
          \/ /\ n.status = "ok"
             /\ \E v \in String(n.rest, 8) :
                  \/ Stop(v)
                  \/ v.status = "ok" /\ Insert(n.string, v.string, v.rest)
    BY <1>3 DEF ReadLiteral
  <2>3. Literal(n) \subseteq Outcomes(data)
    <3>1. data[1] \notin IndexBytes /\ data[1] \notin NameRefBytes
      BY <2>1, Apart
    <3> QED
      BY <2>1, <2>2, <3>1 DEF Outcomes
  <2>4. \E o \in Literal(n) : Takes(o)
    <3>1. CASE Stop(n)
      BY <3>1, TakesStop DEF Literal
    <3>2. ASSUME n.status = "ok", NEW v \in String(n.rest, 8), Stop(v)
          PROVE  \E o \in Literal(n) : Takes(o)
      BY <3>2, TakesStop DEF Literal, WithValue
    <3>3. ASSUME n.status = "ok", NEW v \in String(n.rest, 8),
                 v.status = "ok", Insert(n.string, v.string, v.rest)
          PROVE  \E o \in Literal(n) : Takes(o)
      BY <3>3, TakesAdds DEF Literal, WithValue
    <3> QED
      BY <2>2, <3>1, <3>2, <3>3
  <2> QED
    BY <2>1, <2>3, <2>4
<1>4. CASE RefuseLine
  <2>1. /\ status = "lines" /\ data # <<>> /\ sent' = sent /\ tail' = tail
        /\ data[1] \notin IndexBytes /\ data[1] \notin NameRefBytes /\ data[1] \notin LiteralBytes
        /\ Stop(Failed)
    BY <1>4 DEF RefuseLine, NextIn
  <2>2. Failed \in Outcomes(data)
    BY <2>1 DEF Outcomes
  <2> QED
    BY <2>1, <2>2, TakesStop
<1> QED
  BY <1>1, <1>2, <1>3, <1>4 DEF ReadLine

\* What reading the head may come to.
HeadOutcomes(d) ==
  UNION {IF r.status = "ok" THEN Prefix(r.rest, 7) ELSE {r} : r \in Prefix(d, 8)}

\* A head that is read whole and never in part.
HeadReads(h) ==
  /\ h \in Bytes
  /\ \A y \in Bytes : \E r : HeadOutcomes(h \o y) = {r} /\ r.status = "ok" /\ r.rest = y
  /\ \A k \in 0 .. Len(h) - 1 : HeadOutcomes(SubSeq(h, 1, k)) \subseteq Errors

\* Two integers behind each other are a head.
LEMMA TwoIntegers ==
  ASSUME NEW f \in {0, 1}, NEW u \in Nat, u < Word, NEW w \in Nat, w < Word
  PROVE  HeadReads(EncodePrefix(8, 0, u) \o EncodePrefix(7, f, w))
<1> DEFINE a == EncodePrefix(8, 0, u)
           b == EncodePrefix(7, f, w)
<1>1. 8 \in Sizes /\ 0 \in Flags(8) /\ 7 \in Sizes /\ f \in Flags(7)
  BY DEF Sizes, Flags
<1>2. u < 2 * Word /\ w < 2 * Word
  BY Groups
<1>3. a \in Bytes /\ b \in Bytes
  BY <1>1, <1>2, EncodePrefixBytes
<1>4. /\ Splits(a \o b, a, b)
      /\ Len(a) \in Nat /\ Len(b) \in Nat
  BY <1>3, Joined DEF Splits
<1>5. \A y \in Bytes : Prefix(a \o y, 8) = {Result(0, u, y)}
  BY <1>1, PrefixWhole
<1>6. \A y \in Bytes : Prefix(b \o y, 7) = {Result(f, w, y)}
  BY <1>1, PrefixWhole
<1>7. \A k \in 0 .. Len(a) - 1 : Prefix(SubSeq(a, 1, k), 8) \subseteq Errors
  BY <1>1, <1>2, PrefixCut DEF Errors
<1>8. \A k \in 0 .. Len(b) - 1 : Prefix(SubSeq(b, 1, k), 7) \subseteq Errors
  BY <1>1, <1>2, PrefixCut DEF Errors
<1> HIDE DEF a, b
<1>9. ASSUME NEW y \in Bytes PROVE HeadOutcomes(a \o y) = Prefix(y, 7)
  <2> DEFINE r == Result(0, u, y)
             d == a \o y
  <2>1. r.status = "ok" /\ r.rest = y
    BY DEF Result
  <2>2. Prefix(d, 8) = {r}
    BY <1>5
  <2> HIDE DEF r, d
  <2>3. HeadOutcomes(d) = Prefix(y, 7)
    BY <2>1, <2>2 DEF HeadOutcomes
  <2> QED
    BY <2>3 DEF d
<1>10. ASSUME NEW y \in Bytes
       PROVE  \E r : HeadOutcomes((a \o b) \o y) = {r} /\ r.status = "ok" /\ r.rest = y
  <2> DEFINE r == Result(f, w, y)
  <2>1. b \o y \in Bytes /\ (a \o b) \o y = a \o (b \o y)
    BY <1>3, Joined, Together DEF Splits
  <2>2. HeadOutcomes((a \o b) \o y) = {r}
    BY <1>6, <1>9, <2>1
  <2>3. r.status = "ok" /\ r.rest = y
    BY DEF Result
  <2> HIDE DEF r
  <2> QED
    BY <2>2, <2>3
<1>11. ASSUME NEW k \in 0 .. Len(a \o b) - 1
       PROVE  HeadOutcomes(SubSeq(a \o b, 1, k)) \subseteq Errors
  <2>1. Len(a \o b) = Len(a) + Len(b)
    BY <1>4 DEF Splits
  <2>2. CASE k < Len(a)
    <3>1. k \in 0 .. Len(a) - 1 /\ k \in 0 .. Len(a)
      BY <1>4, <2>1, <2>2
    <3>2. SubSeq(a \o b, 1, k) = SubSeq(a, 1, k)
      BY <1>3, <3>1, JoinedCut
    <3> DEFINE d == SubSeq(a, 1, k)
    <3>3. Prefix(d, 8) \subseteq Errors
      BY <1>7, <3>1
    <3> HIDE DEF d
    <3>4. HeadOutcomes(d) \subseteq Errors
      BY <3>3, ErrorsStop DEF HeadOutcomes
    <3> QED
      BY <3>2, <3>4 DEF d
  <2>3. CASE ~(k < Len(a))
    <3> DEFINE j == k - Len(a)
    <3>1. j \in 0 .. Len(b) - 1 /\ j \in 0 .. Len(b) /\ k = Len(a) + j
      BY <1>4, <2>1, <2>3
    <3> HIDE DEF j
    <3>2. SubSeq(a \o b, 1, Len(a) + j) = a \o SubSeq(b, 1, j)
      BY <1>3, <3>1, JoinedCut
    <3> DEFINE y == SubSeq(b, 1, j)
    <3>3. y \in Bytes
      BY <1>3, <3>1 DEF Bytes
    <3>4. Prefix(y, 7) \subseteq Errors
      BY <1>8, <3>1
    <3> HIDE DEF y
    <3>5. HeadOutcomes(a \o y) \subseteq Errors
      BY <1>9, <3>3, <3>4
    <3> QED
      BY <3>1, <3>2, <3>5 DEF y
  <2> QED
    BY <2>2, <2>3
<1>12. HeadReads(a \o b)
  BY <1>4, <1>10, <1>11 DEF HeadReads, Splits
<1> QED
  BY <1>12 DEF a, b

\* Both heads are read whole and never in part.
LEMMA HeadsRead ==
  ASSUME NEW h \in Heads
  PROVE  HeadReads(h)
<1>1. Word >= 512 /\ Word \in Nat
  BY Groups
<1>2. CASE h = <<0, 0>>
  <2>1. EncodePrefix(8, 0, 0) = <<0>> /\ EncodePrefix(7, 0, 0) = <<0>>
    BY DEF EncodePrefix
  <2>2. <<0>> \o <<0>> = <<0, 0>>
    <3> DEFINE z == <<0>>
               d == z \o z
    <3>1. z \in Bytes /\ Len(z) = 1 /\ z[1] = 0
      BY DEF Bytes, Byte
    <3> HIDE DEF z
    <3>2. Splits(d, z, z)
      BY <3>1, Joined
    <3> HIDE DEF d
    <3>3. d \in Bytes /\ Len(d) = 2 /\ d[1] = 0 /\ d[1 + 1] = 0
      BY <3>1, <3>2 DEF Splits
    <3>4. d \in Seq(Byte) /\ Len(d) = 2 /\ d[1] = 0 /\ d[2] = 0
      BY <3>3 DEF Bytes
    <3>5. d = <<0, 0>>
      BY <3>4
    <3> QED
      BY <3>5 DEF d, z
  <2>3. HeadReads(EncodePrefix(8, 0, 0) \o EncodePrefix(7, 0, 0))
    BY <1>1, TwoIntegers
  <2> QED
    BY <1>2, <2>1, <2>2, <2>3
<1>3. CASE h = EncodePrefix(8, 0, 300) \o EncodePrefix(7, 1, 127)
  BY <1>1, <1>3, TwoIntegers
<1> QED
  BY <1>2, <1>3 DEF Heads

\* The head of any bytes leaves bytes or fails.
LEMMA HeadAny ==
  ASSUME NEW d \in Bytes, NEW q \in HeadOutcomes(d)
  PROVE  q \in Errors \/ (q.status = "ok" /\ q.rest \in Bytes)
<1>1. PICK r \in Prefix(d, 8) : q \in IF r.status = "ok" THEN Prefix(r.rest, 7) ELSE {r}
  BY DEF HeadOutcomes
<1>2. 8 \in Sizes /\ 7 \in Sizes
  BY DEF Sizes
<1>3. r \in Errors \/ PrefixGot(r, d)
  BY <1>2, PrefixAny DEF Errors
<1>4. CASE r \in Errors
  BY <1>1, <1>4, ErrorsStop
<1>5. CASE PrefixGot(r, d)
  <2>1. r.rest \in Bytes /\ r.status = "ok"
    BY <1>5, RestBytes DEF PrefixGot
  <2>2. q \in Prefix(r.rest, 7)
    BY <1>1, <2>1
  <2>3. q \in Errors \/ PrefixGot(q, r.rest)
    BY <1>2, <2>1, <2>2, PrefixAny DEF Errors
  <2> QED
    BY <2>1, <2>3, RestBytes DEF PrefixGot
<1> QED
  BY <1>3, <1>4, <1>5

\* ReadHead takes one of the outcomes of the head.
LEMMA ReadHeadTakes ==
  ASSUME ReadHead
  PROVE  /\ status = "head" /\ sent' = sent /\ tail' = tail /\ fields' = fields
         /\ \E q \in HeadOutcomes(data) :
              \/ q.status # "ok" /\ status' = q.status /\ data' = data
              \/ q.status = "ok" /\ status' = "lines" /\ data' = q.rest
<1>1. status = "head" /\ sent' = sent /\ tail' = tail
  BY DEF ReadHead
<1>2. PICK r \in Prefix(data, 8) :
        \/ Stop(r)
        \/ /\ r.status = "ok"
           /\ \E q \in Prefix(r.rest, 7) :
                \/ Stop(q)
                \/ /\ q.status = "ok"
                   /\ status' = "lines" /\ data' = q.rest
                   /\ UNCHANGED fields
  BY DEF ReadHead
<1>3. CASE Stop(r)
  <2>1. r \in HeadOutcomes(data)
    BY <1>2, <1>3 DEF HeadOutcomes, Stop
  <2> QED
    BY <1>1, <1>3, <2>1 DEF Stop
<1>4. ASSUME r.status = "ok", NEW q \in Prefix(r.rest, 7),
             \/ Stop(q)
             \/ q.status = "ok" /\ status' = "lines" /\ data' = q.rest /\ UNCHANGED fields
      PROVE  /\ fields' = fields
             /\ \E z \in HeadOutcomes(data) :
                  \/ z.status # "ok" /\ status' = z.status /\ data' = data
                  \/ z.status = "ok" /\ status' = "lines" /\ data' = z.rest
  <2>1. q \in HeadOutcomes(data)
    BY <1>2, <1>4 DEF HeadOutcomes
  <2> QED
    BY <1>4, <2>1 DEF Stop
<1> QED
  BY <1>1, <1>2, <1>3, <1>4

-----------------------------------------------------------------------------
(* The invariant                                                           *)

\* Field i of the list s is the last of the first r with its name.
LastOf(s, i, r) == \A j \in 1 .. r : s[j][1] = s[i][1] => j <= i

\* The map st holds the last value of each of the first r fields of s.
Kept(s, st, r) ==
  /\ st = [k \in {s[i][1] : i \in 1 .. r} |-> st[k]]
  /\ \A k \in {s[i][1] : i \in 1 .. r} :
       \E i \in 1 .. r : s[i][1] = k /\ LastOf(s, i, r) /\ st[k] = s[i][2]

\* rem[i] is what remains of the block behind the first i of its N lines.
Chain(rem, N) ==
  /\ sent \in Seq(Fields) /\ N \in 0 .. Len(sent)
  /\ rem \in [0 .. N -> Bytes]
  /\ \A i \in 1 .. N : \E l \in Lines(sent[i]) : rem[i - 1] = l \o rem[i]
  /\ \/ tail = "none" /\ N = Len(sent) /\ rem[N] = <<>>
     \/ tail \in {"cut", "refused"} /\ N = Len(sent) /\ Refuses(rem[N])
     \/ tail = "short" /\ Len(sent) = N + 1 /\ ShortEnd(rem[N], sent[N + 1])

\* The block is cut inside its head.
CutHead ==
  status = "head" /\ tail = "cut" /\ HeadOutcomes(data) \subseteq Errors

\* The head is still to be read.
InHead(rem, N) ==
  status = "head" /\ Kept(sent, fields, 0) /\ \E h \in Heads : data = h \o rem[0]

\* The first r lines were read, and their fields are in the map.
InLines(rem, N) ==
  status = "lines" /\ \E r \in 0 .. N : data = rem[r] /\ Kept(sent, fields, r)

\* The last field was added with the first k bytes of its value.
ShortRead(N, st, k) ==
  /\ N \in Nat /\ Len(sent) = N + 1 /\ Kept(sent, st, N) /\ k \in 0 .. Len(sent[N + 1][2])
  /\ fields = Added(st, sent[N + 1][1], SubSeq(sent[N + 1][2], 1, k))

\* The block ended with a short value that was taken.
ShortDone ==
  /\ status \in {"lines", "ok"} /\ tail = "short" /\ data = <<>> /\ sent \in Seq(Fields)
  /\ \E N, st, k : ShortRead(N, st, k)

\* All lines were read and the map was returned.
AllRead ==
  status = "ok" /\ tail = "none" /\ sent \in Seq(Fields) /\ Kept(sent, fields, Len(sent))

\* The block was refused, and not without a reason.
Refusing == status \in {"failed", "panicked"} /\ tail # "none"

\* How far decode has come in a block without an index beyond a usize.
Progress ==
  \/ CutHead
  \/ \E rem, N : Chain(rem, N) /\ (InHead(rem, N) \/ InLines(rem, N))
  \/ ShortDone
  \/ AllRead
  \/ Refusing

\* Bytes are left, and text was decoded.
Typed ==
  /\ data \in Bytes
  /\ \A n \in DOMAIN fields : Text(n) /\ Text(fields[n])
  /\ tail \in {"none", "cut", "refused", "short", "excess"}
  /\ status \in {"head", "lines", "ok", "failed", "panicked"}

\* The inductive invariant.
IInv == Typed /\ (tail = "excess" => Excess) /\ (tail # "excess" => Progress)

\* Bounded sequences are sequences.
LEMMA BoundedIsSeq ==
  ASSUME NEW S, NEW n \in Nat, NEW s \in BoundedSeq(S, n)
  PROVE  s \in Seq(S)
<1>1. PICK m \in 0 .. n : s \in [1 .. m -> S]
  BY DEF BoundedSeq, SeqOf
<1> QED
  BY <1>1

\* The four kinds of ends.
TailForm(e) ==
  \/ e[1] = "none" /\ e[2] = <<>> /\ e[3] = <<>>
  \/ e[1] \in {"cut", "refused"} /\ Refuses(e[2]) /\ e[3] = <<>>
  \/ e[1] = "short" /\ \E f \in Fields : e[3] = <<f>> /\ ShortEnd(e[2], f)
  \/ e[1] = "excess" /\ Excess /\ e[2] \in Bytes /\ e[3] = <<>>

\* Every end of a block is of one of the kinds.
LEMMA TailsForm ==
  ASSUME NEW e \in Tails
  PROVE  TailForm(e)
<1>1. CASE e = <<"none", <<>>, <<>>>>
  BY <1>1 DEF TailForm
<1>2. ASSUME NEW w \in Written, NEW n \in 1 .. Len(w[2]) - 1,
             e = <<"cut", SubSeq(w[2], 1, n), <<>>>>
      PROVE  TailForm(e)
  <2>1. PICK f \in Fields : \E l \in Lines(f) : w = <<f, l>>
    BY DEF Written
  <2>2. w[2] \in Lines(f)
    BY <2>1
  <2>3. Refuses(SubSeq(w[2], 1, n))
    BY <2>2, CutRefuses
  <2> QED
    BY <1>2, <2>3 DEF TailForm
<1>3. ASSUME NEW l \in Refused, e = <<"refused", l, <<>>>> PROVE TailForm(e)
  BY <1>3, RefusedRefuses DEF TailForm
<1>4. ASSUME NEW f \in Fields, NEW l \in Shorts(f), e = <<"short", l[1], l[2]>> PROVE TailForm(e)
  <2>1. PICK p \in Encodings(f[2]) : \E n \in 0 .. Len(p) - 1 :
          l = <<LiteralLine(EncodeString(3, 4, f[1]), EncodeString(7, 1, SubSeq(p, 1, n))), <<f>>>>
    BY DEF Shorts
  <2>2. PICK n \in 0 .. Len(p) - 1 :
          l = <<LiteralLine(EncodeString(3, 4, f[1]), EncodeString(7, 1, SubSeq(p, 1, n))), <<f>>>>
    BY <2>1
  <2>3. l[1] = LiteralLine(EncodeString(3, 4, f[1]), EncodeString(7, 1, SubSeq(p, 1, n)))
        /\ l[2] = <<f>>
    BY <2>2
  <2>4. ShortEnd(l[1], f)
    BY <2>3, ShortEnds
  <2> QED
    BY <1>4, <2>3, <2>4 DEF TailForm
<1>5. ASSUME Excess, NEW l \in Excesses, e = <<"excess", l, <<>>>> PROVE TailForm(e)
  <2>1. PICK i \in DOMAIN Table : l = IndexLine(Word + i)
    BY DEF Excesses
  <2>2. Word + i \in Nat /\ Word + i < 2 * Word
    BY TableFacts, Groups
  <2>3. l \in Bytes
    BY <2>1, <2>2, IndexReads
  <2> QED
    BY <1>5, <2>3 DEF TailForm
<1>6. \/ e = <<"none", <<>>, <<>>>>
      \/ \E w \in Written : \E n \in 1 .. Len(w[2]) - 1 : e = <<"cut", SubSeq(w[2], 1, n), <<>>>>
      \/ \E l \in Refused : e = <<"refused", l, <<>>>>
      \/ \E f \in Fields : \E l \in Shorts(f) : e = <<"short", l[1], l[2]>>
      \/ Excess /\ \E l \in Excesses : e = <<"excess", l, <<>>>>
  <2> DEFINE Cuts == UNION {{<<"cut", SubSeq(w[2], 1, n), <<>>>> : n \in 1 .. Len(w[2]) - 1}
                           : w \in Written}
             Refusals == {<<"refused", l, <<>>>> : l \in Refused}
             Shortened == {<<"short", l[1], l[2]>> : l \in UNION {Shorts(f) : f \in Fields}}
             Exceeding == {<<"excess", l, <<>>>> : l \in IF Excess THEN Excesses ELSE {}}
  <2>1. Tails = {<<"none", <<>>, <<>>>>} \cup Cuts \cup Refusals \cup Shortened \cup Exceeding
    BY DEF Tails
  <2>2. ASSUME e \in Cuts
        PROVE  \E w \in Written : \E n \in 1 .. Len(w[2]) - 1 :
                 e = <<"cut", SubSeq(w[2], 1, n), <<>>>>
    BY <2>2
  <2>3. ASSUME e \in Refusals PROVE \E l \in Refused : e = <<"refused", l, <<>>>>
    BY <2>3
  <2>4. ASSUME e \in Shortened
        PROVE  \E f \in Fields : \E l \in Shorts(f) : e = <<"short", l[1], l[2]>>
    BY <2>4
  <2>5. ASSUME e \in Exceeding PROVE Excess /\ \E l \in Excesses : e = <<"excess", l, <<>>>>
    BY <2>5
  <2> HIDE DEF Cuts, Refusals, Shortened, Exceeding
  <2> QED
    BY <2>1, <2>2, <2>3, <2>4, <2>5
<1> QED
  BY <1>1, <1>2, <1>3, <1>4, <1>5, <1>6

\* What remains of a whole behind one of its parts.
LEMMA PartOff ==
  ASSUME NEW w \in Bytes, NEW p \in Nat, NEW part \in Bytes, p + Len(part) <= Len(w),
         \A j \in 1 .. Len(part) : w[p + j] = part[j]
  PROVE  SubSeq(w, p + 1, Len(w)) = part \o SubSeq(w, p + Len(part) + 1, Len(w))
<1> DEFINE n == Len(w)
           m == Len(part)
           q == p + m
           a == SubSeq(w, p + 1, n)
           b == SubSeq(w, q + 1, n)
<1>1. n \in Nat /\ m \in Nat /\ q \in Nat /\ q <= n
  BY ByteAt
<1>2. a \in Bytes /\ Len(a) = n - p /\ \A j \in 1 .. n - p : a[j] = w[p + j]
  BY <1>1 DEF Bytes
<1>3. b \in Bytes /\ Len(b) = n - q /\ \A j \in 1 .. n - q : b[j] = w[q + j]
  BY <1>1 DEF Bytes
<1>4. Splits(part \o b, part, b)
  BY <1>3, Joined
<1> DEFINE c == part \o b
<1>5. /\ c \in Bytes /\ Len(c) = m + (n - q)
      /\ \A j \in 1 .. m : c[j] = part[j]
      /\ \A j \in 1 .. n - q : c[m + j] = b[j]
  BY <1>3, <1>4 DEF Splits
<1> HIDE DEF a, b, c, n
<1>6. Len(c) = Len(a)
  BY <1>1, <1>2, <1>5
<1>7. ASSUME NEW j \in 1 .. Len(a) PROVE a[j] = c[j]
  <2>1. j \in 1 .. n - p
    BY <1>2
  <2>2. CASE j \in 1 .. m
    BY <1>2, <1>5, <2>1, <2>2
  <2>3. CASE j \notin 1 .. m
    <3> DEFINE i == j - m
    <3>1. i \in 1 .. n - q /\ j = m + i /\ q + i = p + j
      BY <1>1, <2>1, <2>3
    <3> HIDE DEF i, m, q
    <3>2. c[m + i] = w[q + i]
      BY <1>3, <1>5, <3>1
    <3> QED
      BY <1>2, <2>1, <3>1, <3>2
  <2> QED
    BY <2>2, <2>3
<1>8. a = c
  <2>1. a \in Seq(Byte) /\ c \in Seq(Byte)
    BY <1>2, <1>5 DEF Bytes
  <2> QED
    BY ONLY <1>6, <1>7, <2>1
<1> QED
  BY <1>8 DEF a, b, c, n

\* A written line is a line of its field.
LEMMA WrittenIs ==
  ASSUME NEW w \in Written
  PROVE  w[1] \in Fields /\ w[2] \in Lines(w[1]) /\ w[2] \in Bytes
<1>1. PICK f \in Fields : \E l \in Lines(f) : w = <<f, l>>
  BY DEF Written
<1>2. w[1] = f /\ w[2] \in Lines(f)
  BY <1>1
<1> QED
  BY <1>2, LineIs DEF LineReads

\* What remains behind each line of the list, with e behind them all.
Flat(list) == FlattenSeq([i \in DOMAIN list |-> list[i][2]])

Remaining(rem, N, list, e) ==
  /\ rem \in [0 .. N -> Bytes] /\ rem[0] = Flat(list) \o e /\ rem[N] = e
  /\ \A i \in 1 .. N : rem[i - 1] = list[i][2] \o rem[i]

\* A block can be read off line by line.
LEMMA Remainders ==
  ASSUME NEW list \in Seq(Written), NEW e \in Bytes
  PROVE  Flat(list) \in Bytes /\ \E rem : Remaining(rem, Len(list), list, e)
<1> DEFINE ss == [i \in DOMAIN list |-> list[i][2]]
           N == Len(list)
           flat == Flat(list)
<1>1. N \in Nat /\ DOMAIN list = 1 .. N /\ \A i \in 1 .. N : list[i] \in Written
  OBVIOUS
<1>2. ss = [i \in 1 .. N |-> list[i][2]] /\ \A i \in 1 .. N : list[i][2] \in Bytes
  BY <1>1, WrittenIs
<1>3. ss \in Seq(Bytes) /\ Len(ss) = N /\ \A i \in 1 .. N : ss[i] = list[i][2] /\ ss[i] \in Bytes
  BY <1>1, <1>2
<1> HIDE DEF ss, N, flat
<1>4. flat \in Bytes /\ \E at : V!Laid(flat, ss, at)
  <2>1. FlattenSeq(ss) \in Seq(Byte) /\ \E at : V!Laid(FlattenSeq(ss), ss, at)
    BY <1>3, Flattened, Zenon DEF Bytes
  <2>2. flat = FlattenSeq(ss)
    BY DEF ss, flat, Flat
  <2> QED
    BY <2>1, <2>2, Zenon DEF Bytes
<1>5. PICK at : V!Laid(flat, ss, at)
  BY <1>4
<1>6. /\ at \in [0 .. N -> Nat] /\ at[0] = 0 /\ at[N] = Len(flat)
      /\ \A i \in 1 .. N :
           /\ at[i] = at[i - 1] + Len(ss[i]) /\ at[i] <= Len(flat)
           /\ \A j \in 1 .. Len(ss[i]) : flat[at[i - 1] + j] = ss[i][j]
  BY <1>3, <1>5, Zenon DEF V!Laid
<1> DEFINE left(i) == SubSeq(flat, at[i] + 1, Len(flat))
           rem == [i \in 0 .. N |-> left(i) \o e]
<1>7. \A i \in 0 .. N : left(i) \in Bytes
  <2> SUFFICES ASSUME NEW i \in 0 .. N PROVE left(i) \in Bytes
    OBVIOUS
  <2> DEFINE p == at[i]
  <2>1. p \in Nat /\ p <= Len(flat)
    <3>1. i = 0 \/ i \in 1 .. N
      BY <1>1
    <3> QED
      BY <1>4, <1>6, <3>1, ByteAt
  <2> HIDE DEF p
  <2>2. SubSeq(flat, p + 1, Len(flat)) \in Bytes
    BY <1>4, <2>1 DEF Bytes
  <2> QED
    BY <2>2 DEF p
<1>8. \A i \in 1 .. N : left(i - 1) = ss[i] \o left(i)
  <2> SUFFICES ASSUME NEW i \in 1 .. N PROVE left(i - 1) = ss[i] \o left(i)
    OBVIOUS
  <2> DEFINE p == at[i - 1]
             part == ss[i]
  <2>1. /\ p \in Nat /\ part \in Bytes /\ at[i] = p + Len(part) /\ p + Len(part) <= Len(flat)
        /\ \A j \in 1 .. Len(part) : flat[p + j] = part[j]
    BY <1>1, <1>3, <1>6
  <2> HIDE DEF p, part
  <2>2. SubSeq(flat, p + 1, Len(flat)) = part \o SubSeq(flat, p + Len(part) + 1, Len(flat))
    BY <1>4, <2>1, PartOff
  <2> QED
    BY <2>1, <2>2 DEF p, part
<1>9. left(0) = flat /\ left(N) = <<>>
  BY <1>4, <1>6 DEF Bytes
<1> HIDE DEF left
<1>10. \A i \in 0 .. N : left(i) \o e \in Bytes
  BY <1>7, Joined DEF Splits
<1>11. /\ rem \in [0 .. N -> Bytes]
       /\ \A i \in 0 .. N : rem[i] = left(i) \o e
  BY <1>10
<1>12. \A i \in 1 .. N : rem[i - 1] = list[i][2] \o rem[i]
  <2> SUFFICES ASSUME NEW i \in 1 .. N PROVE rem[i - 1] = list[i][2] \o rem[i]
    OBVIOUS
  <2>1. i \in 0 .. N /\ i - 1 \in 0 .. N
    BY <1>1
  <2>2. ss[i] \in Bytes /\ left(i) \in Bytes /\ ss[i] = list[i][2]
    BY <1>3, <1>7, <2>1
  <2> HIDE DEF rem
  <2>3. rem[i - 1] = (ss[i] \o left(i)) \o e
    BY <1>8, <1>11, <2>1
  <2> DEFINE x == ss[i]
             y == left(i)
  <2>4. rem[i] = y \o e
    BY <1>11, <2>1
  <2> HIDE DEF x, y
  <2>5. (x \o y) \o e = x \o (y \o e)
    BY <2>2, Together DEF x, y
  <2> QED
    BY <2>2, <2>3, <2>4, <2>5 DEF x, y
<1>13. rem[0] = flat \o e /\ rem[N] = e
  <2>1. 0 \in 0 .. N /\ N \in 0 .. N
    BY <1>1
  <2>2. <<>> \o e = e
    BY DEF Bytes
  <2> HIDE DEF rem
  <2> QED
    BY <1>9, <1>11, <2>1, <2>2
<1> HIDE DEF rem
<1>14. Remaining(rem, N, list, e)
  BY <1>11, <1>12, <1>13 DEF Remaining, flat
<1> QED
  BY <1>4, <1>14 DEF flat, N

\* An end is bytes.
LEMMA TailBytes ==
  ASSUME NEW e, TailForm(e)
  PROVE  /\ e[2] \in Bytes /\ e[3] \in Seq(Fields)
         /\ e[1] \in {"none", "cut", "refused", "short", "excess"}
         /\ e[1] = "excess" => Excess
<1>1. CASE e[1] = "none" /\ e[2] = <<>> /\ e[3] = <<>>
  BY <1>1 DEF Bytes
<1>2. CASE e[1] \in {"cut", "refused"} /\ Refuses(e[2]) /\ e[3] = <<>>
  BY <1>2 DEF Refuses
<1>3. CASE e[1] = "short" /\ \E f \in Fields : e[3] = <<f>> /\ ShortEnd(e[2], f)
  BY <1>3 DEF ShortEnd
<1>4. CASE e[1] = "excess" /\ Excess /\ e[2] \in Bytes /\ e[3] = <<>>
  BY <1>4
<1> QED
  BY <1>1, <1>2, <1>3, <1>4 DEF TailForm

\* Nothing is read at first.
LEMMA NothingKept ==
  ASSUME fields = [n \in {} |-> <<>>]
  PROVE  Kept(sent, fields, 0) /\ DOMAIN fields = {}
<1>1. {sent[i][1] : i \in 1 .. 0} = {}
  OBVIOUS
<1> QED
  BY <1>1 DEF Kept

\* The invariant holds of every block, before it is read.
LEMMA InitIInv == Init => IInv
<1> SUFFICES ASSUME Init PROVE IInv
  OBVIOUS
<1>1. fields = [n \in {} |-> <<>>] /\ status = "head"
  BY DEF Init
<1>2. Kept(sent, fields, 0) /\ DOMAIN fields = {}
  BY <1>1, NothingKept
<1>3. ASSUME NEW head \in Heads, NEW list \in BoundedSeq(Written, MaxLines), NEW e \in Tails,
             sent = [i \in DOMAIN list |-> list[i][1]] \o e[3], tail = e[1],
             data = head \o FlattenSeq([i \in DOMAIN list |-> list[i][2]]) \o e[2]
      PROVE  IInv
  <2> DEFINE N == Len(list)
             flat == Flat(list)
             fs == [i \in DOMAIN list |-> list[i][1]]
  <2>1. list \in Seq(Written)
    BY QpackAssumption, BoundedIsSeq
  <2>2. /\ N \in Nat /\ DOMAIN list = 1 .. N
        /\ \A i \in 1 .. N : list[i][1] \in Fields /\ list[i][2] \in Lines(list[i][1])
    BY <2>1, WrittenIs
  <2>3. TailForm(e)
    BY TailsForm
  <2>4. /\ e[2] \in Bytes /\ e[3] \in Seq(Fields)
        /\ tail \in {"none", "cut", "refused", "short", "excess"} /\ (tail = "excess" => Excess)
    BY <1>3, <2>3, TailBytes
  <2>5. fs \in Seq(Fields) /\ Len(fs) = N /\ \A i \in 1 .. N : fs[i] = list[i][1]
    BY <2>2
  <2>6. flat \in Bytes /\ \E rem : Remaining(rem, N, list, e[2])
    BY <2>1, <2>4, Remainders
  <2>7. head \in Bytes
    BY HeadsRead DEF HeadReads
  <2> HIDE DEF flat, fs, N
  <2>8. data = head \o (flat \o e[2]) /\ data \in Bytes
    <3>1. data = head \o flat \o e[2]
      BY <1>3 DEF flat, Flat
    <3>2. flat \o e[2] \in Bytes
      BY <2>4, <2>6, Joined DEF Splits
    <3>3. data = head \o (flat \o e[2])
      BY <2>4, <2>6, <2>7, <3>1, Together
    <3> QED
      BY <2>7, <3>2, <3>3, Joined DEF Splits
  <2>9. Typed
    BY <1>1, <1>2, <2>4, <2>8 DEF Typed
  <2>10. /\ sent \in Seq(Fields) /\ Len(sent) = N + Len(e[3])
         /\ \A i \in 1 .. N : sent[i] = list[i][1]
         /\ \A i \in 1 .. Len(e[3]) : sent[N + i] = e[3][i]
    <3>1. sent = fs \o e[3]
      BY <1>3 DEF fs
    <3> DEFINE t == e[3]
    <3>2. t \in Seq(Fields)
      BY <2>4
    <3> HIDE DEF t
    <3>3. /\ fs \o t \in Seq(Fields) /\ Len(fs \o t) = N + Len(t)
          /\ \A i \in 1 .. N : (fs \o t)[i] = fs[i]
          /\ \A i \in 1 .. Len(t) : (fs \o t)[N + i] = t[i]
      BY <2>2, <2>5, <3>2
    <3> QED
      BY <2>5, <3>1, <3>3 DEF t
  <2>11. ASSUME tail # "excess" PROVE Progress
    <3> PICK rem : Remaining(rem, N, list, e[2])
      BY <2>6
    <3>1. /\ rem \in [0 .. N -> Bytes] /\ rem[0] = flat \o e[2] /\ rem[N] = e[2]
          /\ \A i \in 1 .. N : rem[i - 1] = list[i][2] \o rem[i]
      BY DEF Remaining, flat
    <3>2. \A i \in 1 .. N : \E l \in Lines(sent[i]) : rem[i - 1] = l \o rem[i]
      BY <2>2, <2>10, <3>1
    <3>3. \/ tail = "none" /\ N = Len(sent) /\ rem[N] = <<>>
          \/ tail \in {"cut", "refused"} /\ N = Len(sent) /\ Refuses(rem[N])
          \/ tail = "short" /\ Len(sent) = N + 1 /\ ShortEnd(rem[N], sent[N + 1])
      <4>1. CASE e[1] = "none" /\ e[2] = <<>> /\ e[3] = <<>>
        BY <1>3, <2>2, <2>10, <3>1, <4>1
      <4>2. CASE e[1] \in {"cut", "refused"} /\ Refuses(e[2]) /\ e[3] = <<>>
        <5>1. Len(e[3]) = 0
          BY <4>2
        <5>2. N = Len(sent)
          BY <2>2, <2>10, <5>1
        <5> QED
          BY <1>3, <3>1, <4>2, <5>2
      <4>3. CASE e[1] = "short" /\ \E f \in Fields : e[3] = <<f>> /\ ShortEnd(e[2], f)
        <5>1. PICK f \in Fields : e[3] = <<f>> /\ ShortEnd(e[2], f)
          BY <4>3
        <5>2. Len(e[3]) = 1 /\ e[3][1] = f /\ 1 \in 1 .. Len(e[3])
          BY <5>1
        <5>3. Len(sent) = N + 1 /\ sent[N + 1] = f
          BY <2>10, <5>2
        <5> QED
          BY <1>3, <3>1, <4>3, <5>1, <5>3
      <4> QED
        BY <1>3, <2>3, <2>11, <4>1, <4>2, <4>3 DEF TailForm
    <3>4. N \in 0 .. Len(sent)
      BY <2>2, <2>4, <2>10 DEF N
    <3>5. Chain(rem, N)
      BY <2>10, <3>1, <3>2, <3>3, <3>4 DEF Chain
    <3>6. InHead(rem, N)
      BY <1>1, <1>2, <2>8, <3>1 DEF InHead
    <3> QED
      BY <3>5, <3>6 DEF Progress
  <2> QED
    BY <2>4, <2>9, <2>11 DEF IInv
<1>4. ASSUME NEW head \in Heads, sent = <<>>, tail = "cut", NEW n \in 0 .. Len(head) - 1,
             data = SubSeq(head, 1, n)
      PROVE  IInv
  <2>1. head \in Bytes /\ HeadOutcomes(data) \subseteq Errors
    BY <1>4, HeadsRead DEF HeadReads
  <2>2. data \in Bytes
    BY <1>4, <2>1 DEF Bytes
  <2>3. Typed
    BY <1>1, <1>2, <1>4, <2>2 DEF Typed
  <2>4. Progress
    BY <1>1, <1>4, <2>1 DEF Progress, CutHead
  <2> QED
    BY <1>4, <2>3, <2>4 DEF IInv
<1> QED
  BY <1>3, <1>4 DEF Init

\* The field added is the last one with its name.
LEMMA KeptAdded ==
  ASSUME NEW st, NEW r \in Nat, NEW s, Kept(s, st, r)
  PROVE  Kept(s, Added(st, s[r + 1][1], s[r + 1][2]), r + 1)
<1> DEFINE key == s[r + 1][1]
           v == s[r + 1][2]
           old == {s[i][1] : i \in 1 .. r}
           names == {s[i][1] : i \in 1 .. r + 1}
           new == Added(st, key, v)
<1>1. DOMAIN st = old
  BY DEF Kept
<1>2. new = [k \in old \cup {key} |-> IF k = key THEN v ELSE st[k]]
  BY <1>1 DEF Added
<1>3. names = old \cup {key}
  <2>1. 1 .. r + 1 = (1 .. r) \cup {r + 1}
    OBVIOUS
  <2> QED
    BY <2>1
<1>4. ASSUME NEW k \in names
      PROVE  \E i \in 1 .. r + 1 : s[i][1] = k /\ LastOf(s, i, r + 1) /\ new[k] = s[i][2]
  <2>1. CASE k = key
    <3>1. new[k] = v
      BY <1>2, <1>3, <2>1
    <3>2. r + 1 \in 1 .. r + 1 /\ LastOf(s, r + 1, r + 1)
      BY DEF LastOf
    <3> QED
      BY <2>1, <3>1, <3>2
  <2>2. CASE k # key
    <3>1. k \in old /\ new[k] = st[k]
      <4> HIDE DEF names, old, key, v, new
      <4> QED
        BY <1>2, <1>3, <1>4, <2>2
    <3>2. PICK i \in 1 .. r : s[i][1] = k /\ LastOf(s, i, r) /\ st[k] = s[i][2]
      BY <3>1 DEF Kept
    <3>3. LastOf(s, i, r + 1)
      <4>1. SUFFICES ASSUME NEW j \in 1 .. r + 1, s[j][1] = s[i][1] PROVE j <= i
        BY DEF LastOf
      <4>2. j # r + 1
        BY <2>2, <3>2, <4>1
      <4>3. j \in 1 .. r
        BY <4>2
      <4> QED
        BY <3>2, <4>1, <4>3 DEF LastOf
    <3>4. i \in 1 .. r + 1
      OBVIOUS
    <3> HIDE DEF new
    <3> QED
      BY <3>1, <3>2, <3>3, <3>4
  <2> QED
    BY <2>1, <2>2
<1>5. new = [k \in names |-> new[k]]
  <2> HIDE DEF names, old, key, v, new
  <2> QED
    BY <1>2, <1>3
<1> HIDE DEF new
<1>6. Kept(s, new, r + 1)
  BY <1>4, <1>5 DEF Kept
<1> QED
  BY <1>6 DEF new

\* The two statuses without a result.
LEMMA ErrorStatus ==
  ASSUME NEW o \in Errors
  PROVE  o.status \in {"failed", "panicked"}
BY DEF Errors, Failed, Panicked

\* Reading the head keeps the types.
LEMMA HeadTyped ==
  ASSUME Typed, ReadHead
  PROVE  Typed'
<1>1. /\ sent' = sent /\ tail' = tail /\ fields' = fields
      /\ \E q \in HeadOutcomes(data) :
           \/ q.status # "ok" /\ status' = q.status /\ data' = data
           \/ q.status = "ok" /\ status' = "lines" /\ data' = q.rest
  BY ReadHeadTakes
<1>2. PICK q \in HeadOutcomes(data) :
        \/ q.status # "ok" /\ status' = q.status /\ data' = data
        \/ q.status = "ok" /\ status' = "lines" /\ data' = q.rest
  BY <1>1
<1>3. q \in Errors \/ (q.status = "ok" /\ q.rest \in Bytes)
  BY HeadAny DEF Typed
<1>4. data' \in Bytes /\ status' \in {"head", "lines", "ok", "failed", "panicked"}
  BY <1>2, <1>3, ErrorStatus, ErrorsStop DEF Typed
<1> QED
  BY <1>1, <1>4 DEF Typed

\* Reading a line keeps the types.
LEMMA LineTyped ==
  ASSUME Typed, ReadLine
  PROVE  Typed'
<1>1. /\ tail' = tail /\ status = "lines"
      /\ \E o \in Outcomes(data) : Takes(o)
  BY ReadLineTakes
<1>2. PICK o \in Outcomes(data) : Takes(o)
  BY <1>1
<1>3. o \in Errors \/ GoodLine(o)
  BY OutcomesAny DEF Typed
<1>4. CASE o \in Errors
  <2>1. status' \in {"failed", "panicked"} /\ data' = data /\ fields' = fields
    BY <1>2, <1>4, ErrorStatus, ErrorsStop DEF Takes
  <2> QED
    BY <1>1, <2>1 DEF Typed
<1>5. CASE GoodLine(o)
  <2>1. status' = status /\ data' \in Bytes /\ fields' = Added(fields, o.name, o.value)
    BY <1>2, <1>5 DEF Takes, GoodLine
  <2>2. \A n \in DOMAIN fields' : Text(n) /\ Text(fields'[n])
    BY <1>5, <2>1 DEF Typed, Added, GoodLine
  <2> QED
    BY <1>1, <2>1, <2>2 DEF Typed
<1> QED
  BY <1>3, <1>4, <1>5

\* Behind the head there are the lines, or it was cut.
LEMMA HeadProgress ==
  ASSUME Typed, Progress, ReadHead
  PROVE  Progress'
<1>1. /\ status = "head" /\ sent' = sent /\ tail' = tail /\ fields' = fields
      /\ \E q \in HeadOutcomes(data) :
           \/ q.status # "ok" /\ status' = q.status /\ data' = data
           \/ q.status = "ok" /\ status' = "lines" /\ data' = q.rest
  BY ReadHeadTakes
<1>2. PICK q \in HeadOutcomes(data) :
        \/ q.status # "ok" /\ status' = q.status /\ data' = data
        \/ q.status = "ok" /\ status' = "lines" /\ data' = q.rest
  BY <1>1
<1>3. CASE CutHead
  <2>1. q \in Errors /\ tail = "cut"
    BY <1>2, <1>3 DEF CutHead
  <2>2. status' \in {"failed", "panicked"}
    BY <1>2, <2>1, ErrorStatus, ErrorsStop
  <2> QED
    BY <1>1, <2>1, <2>2 DEF Progress, Refusing
<1>4. ASSUME NEW rem, NEW N, Chain(rem, N), InHead(rem, N)
      PROVE  Progress'
  <2>1. PICK h \in Heads : data = h \o rem[0]
    BY <1>4 DEF InHead
  <2>2. rem[0] \in Bytes /\ 0 \in 0 .. N
    BY <1>4 DEF Chain
  <2>3. \E r : HeadOutcomes(h \o rem[0]) = {r} /\ r.status = "ok" /\ r.rest = rem[0]
    BY <2>2, HeadsRead DEF HeadReads
  <2>4. q.status = "ok" /\ q.rest = rem[0]
    BY <1>2, <2>1, <2>3
  <2>5. status' = "lines" /\ data' = rem[0]
    BY <1>2, <2>4
  <2>6. Chain(rem, N)'
    BY <1>1, <1>4 DEF Chain
  <2>7. InLines(rem, N)'
    BY <1>1, <1>4, <2>2, <2>5 DEF InLines, InHead
  <2> QED
    BY <2>6, <2>7 DEF Progress
<1> QED
  BY <1>1, <1>3, <1>4 DEF Progress, InLines, ShortDone, AllRead, Refusing

\* A line that is whole adds its field.
LEMMA WholeLine ==
  ASSUME ReadLine, NEW rem, NEW N, Chain(rem, N), NEW r \in 0 .. N - 1,
         data = rem[r], Kept(sent, fields, r)
  PROVE  Progress'
<1>1. /\ status = "lines" /\ data # <<>> /\ sent' = sent /\ tail' = tail
      /\ \E o \in Outcomes(data) : Takes(o)
  BY ReadLineTakes
<1> DEFINE i == r + 1
<1>2. N \in Nat /\ N <= Len(sent) /\ sent \in Seq(Fields)
  BY DEF Chain
<1>3. i \in 1 .. N /\ i \in 0 .. N /\ i - 1 = r /\ i \in 1 .. Len(sent) /\ r \in Nat
  BY <1>2
<1>4. sent[i] \in Fields
  BY <1>2, <1>3
<1> HIDE DEF i
<1>5. PICK l \in Lines(sent[i]) : rem[i - 1] = l \o rem[i]
  BY <1>3 DEF Chain
<1>6. rem[i] \in Bytes
  BY <1>3 DEF Chain
<1>7. Outcomes(data) = {Adds(sent[i][1], sent[i][2], rem[i])}
  <2>1. LineReads(l, sent[i][1], sent[i][2])
    BY <1>4, LineIs
  <2> QED
    BY <1>3, <1>5, <1>6, <2>1 DEF LineReads
<1>8. Takes(Adds(sent[i][1], sent[i][2], rem[i]))
  BY <1>1, <1>7
<1>9. status' = "lines" /\ data' = rem[i] /\ fields' = Added(fields, sent[i][1], sent[i][2])
  BY <1>1, <1>8 DEF Takes, Adds
<1>10. Kept(sent, Added(fields, sent[r + 1][1], sent[r + 1][2]), r + 1)
  BY <1>3, KeptAdded
<1>11. Kept(sent, fields, i)'
  BY <1>1, <1>9, <1>10 DEF i
<1>12. Chain(rem, N)'
  BY <1>1 DEF Chain
<1>13. InLines(rem, N)'
  BY <1>3, <1>9, <1>11 DEF InLines
<1> QED
  BY <1>12, <1>13 DEF Progress

\* At the end of the block a line is refused, or adds a part of a value.
LEMMA EndLine ==
  ASSUME ReadLine, NEW rem, NEW N, Chain(rem, N), data = rem[N], Kept(sent, fields, N)
  PROVE  Progress'
<1>1. /\ status = "lines" /\ data # <<>> /\ sent' = sent /\ tail' = tail
      /\ \E o \in Outcomes(data) : Takes(o)
  BY ReadLineTakes
<1>2. PICK o \in Outcomes(data) : Takes(o)
  BY <1>1
<1>3. ASSUME o \in Errors, tail # "none" PROVE Progress'
  <2>1. status' \in {"failed", "panicked"}
    BY <1>2, <1>3, ErrorStatus, ErrorsStop DEF Takes
  <2> QED
    BY <1>1, <1>3, <2>1 DEF Progress, Refusing
<1>4. CASE tail \in {"cut", "refused"} /\ Refuses(rem[N])
  <2>1. o \in Errors
    BY <1>2, <1>4 DEF Refuses
  <2> QED
    BY <1>3, <1>4, <2>1
<1>5. CASE tail = "short" /\ Len(sent) = N + 1 /\ ShortEnd(rem[N], sent[N + 1])
  <2> DEFINE f == sent[N + 1]
  <2>1. o \in Errors \/ \E k \in 0 .. Len(f[2]) : o = Adds(f[1], SubSeq(f[2], 1, k), <<>>)
    BY <1>2, <1>5 DEF ShortEnd
  <2>2. ASSUME NEW k \in 0 .. Len(f[2]), o = Adds(f[1], SubSeq(f[2], 1, k), <<>>)
        PROVE  Progress'
    <3>1. /\ o.status = "ok" /\ o.name = f[1] /\ o.value = SubSeq(f[2], 1, k) /\ o.rest = <<>>
      BY <2>2 DEF Adds
    <3>2. /\ status' = "lines" /\ data' = <<>>
          /\ fields' = Added(fields, f[1], SubSeq(f[2], 1, k))
      BY <1>1, <1>2, <3>1 DEF Takes
    <3>3. N \in Nat /\ sent \in Seq(Fields)
      BY DEF Chain
    <3>4. PICK old : old = fields
      OBVIOUS
    <3>5. ShortRead(N, old, k)'
      BY <1>1, <1>5, <3>2, <3>3, <3>4 DEF ShortRead
    <3>6. ShortDone'
      BY <1>1, <1>5, <3>2, <3>3, <3>5 DEF ShortDone
    <3> QED
      BY <3>6 DEF Progress
  <2> QED
    BY <1>3, <1>5, <2>1, <2>2
<1> QED
  BY <1>1, <1>4, <1>5 DEF Chain

\* A line read is the next one of the chain, or its end.
LEMMA LineProgress ==
  ASSUME Progress, ReadLine
  PROVE  Progress'
<1>1. status = "lines" /\ data # <<>>
  BY ReadLineTakes
<1>2. PICK rem, N : Chain(rem, N) /\ InLines(rem, N)
  BY <1>1 DEF Progress, CutHead, InHead, ShortDone, AllRead, Refusing
<1>3. PICK r \in 0 .. N : data = rem[r] /\ Kept(sent, fields, r)
  BY <1>2 DEF InLines
<1>4. r \in 0 .. N - 1 \/ r = N
  BY <1>2 DEF Chain
<1> QED
  BY <1>2, <1>3, <1>4, WholeLine, EndLine

\* Only a block of whole lines is returned, or one with a short value.
LEMMA ReturnProgress ==
  ASSUME Progress, Return
  PROVE  Progress'
<1>1. /\ status = "lines" /\ data = <<>> /\ status' = "ok"
      /\ sent' = sent /\ tail' = tail /\ data' = data /\ fields' = fields
  BY DEF Return
<1>2. CASE ShortDone
  <2>1. PICK N, st, k : ShortRead(N, st, k)
    BY <1>2 DEF ShortDone
  <2>2. ShortRead(N, st, k)'
    BY <1>1, <2>1 DEF ShortRead
  <2>3. ShortDone'
    BY <1>1, <1>2, <2>2 DEF ShortDone
  <2> QED
    BY <2>3 DEF Progress
<1>3. ASSUME NEW rem, NEW N, Chain(rem, N), InLines(rem, N) PROVE Progress'
  <2>1. PICK r \in 0 .. N : data = rem[r] /\ Kept(sent, fields, r)
    BY <1>3 DEF InLines
  <2>2. /\ N \in 0 .. Len(sent) /\ sent \in Seq(Fields) /\ Len(sent) \in Nat
        /\ rem \in [0 .. N -> Bytes]
    BY <1>3 DEF Chain
  <2>3. r = N
    <3>1. SUFFICES ASSUME r # N PROVE FALSE
      OBVIOUS
    <3> DEFINE i == r + 1
    <3>2. i \in 1 .. N /\ i \in 0 .. N /\ i - 1 = r /\ i \in 1 .. Len(sent)
      BY <2>2, <3>1
    <3> HIDE DEF i
    <3>3. PICK l \in Lines(sent[i]) : rem[i - 1] = l \o rem[i]
      BY <1>3, <3>2 DEF Chain
    <3>4. sent[i] \in Fields /\ rem[i] \in Bytes
      BY <2>2, <3>2
    <3>5. l \in Bytes /\ Len(l) > 0
      BY <3>4, LineIs DEF LineReads
    <3>6. l \o rem[i] # <<>>
      BY <3>4, <3>5, Leading
    <3> QED
      BY <1>1, <2>1, <3>2, <3>3, <3>6
  <2>4. tail = "none" /\ N = Len(sent)
    BY <1>1, <1>3, <2>1, <2>3 DEF Chain, Refuses, ShortEnd
  <2>5. AllRead'
    BY <1>1, <2>1, <2>2, <2>3, <2>4 DEF AllRead
  <2> QED
    BY <2>5 DEF Progress
<1> QED
  BY <1>1, <1>2, <1>3 DEF Progress, CutHead, InHead, AllRead, Refusing

\* The invariant is inductive.
LEMMA StepIInv == IInv /\ [Next]_vars => IInv'
<1> SUFFICES ASSUME IInv, [Next]_vars PROVE IInv'
  OBVIOUS
<1>1. Typed /\ (tail = "excess" => Excess) /\ (tail # "excess" => Progress)
  BY DEF IInv
<1>2. CASE ReadHead
  <2>1. tail' = tail
    BY <1>2 DEF ReadHead
  <2> QED
    BY <1>1, <1>2, <2>1, HeadTyped, HeadProgress DEF IInv
<1>3. CASE ReadLine
  <2>1. tail' = tail
    BY <1>3, ReadLineTakes
  <2> QED
    BY <1>1, <1>3, <2>1, LineTyped, LineProgress DEF IInv
<1>4. CASE Return
  <2>1. /\ status' = "ok" /\ sent' = sent /\ tail' = tail /\ data' = data /\ fields' = fields
    BY <1>4 DEF Return
  <2>2. Typed'
    BY <1>1, <2>1 DEF Typed
  <2> QED
    BY <1>1, <1>4, <2>1, <2>2, ReturnProgress DEF IInv
<1>5. CASE UNCHANGED vars
  <2>1. /\ sent' = sent /\ tail' = tail /\ data' = data /\ fields' = fields /\ status' = status
    BY <1>5 DEF vars
  <2>2. Typed' /\ (tail' = "excess" => Excess)
    BY <1>1, <2>1 DEF Typed
  <2>3. Progress => Progress'
    <3>1. \A rem, N : Chain(rem, N) => Chain(rem, N)'
      BY <2>1 DEF Chain
    <3>2. \A rem, N : (InHead(rem, N) => InHead(rem, N)') /\ (InLines(rem, N) => InLines(rem, N)')
      BY <2>1 DEF InHead, InLines
    <3>3. \A N, st, k : ShortRead(N, st, k) => ShortRead(N, st, k)'
      BY <2>1 DEF ShortRead
    <3>4. ShortDone => ShortDone'
      BY <2>1, <3>3 DEF ShortDone
    <3>5. (CutHead => CutHead') /\ (AllRead => AllRead') /\ (Refusing => Refusing')
      BY <2>1 DEF CutHead, AllRead, Refusing
    <3> QED
      BY <3>1, <3>2, <3>4, <3>5 DEF Progress
  <2> QED
    BY <1>1, <2>1, <2>2, <2>3 DEF IInv
<1> QED
  BY <1>2, <1>3, <1>4, <1>5 DEF Next, ReadLine

\* It holds in every state.
LEMMA AlwaysIInv == Spec => []IInv
<1> QED
  BY InitIInv, StepIInv, PTL DEF Spec

-----------------------------------------------------------------------------
(* The properties                                                          *)

\* The greatest of some numbers.
LEMMA MaxIs ==
  ASSUME NEW S \in SUBSET Nat, NEW x \in S, \A y \in S : y <= x
  PROVE  Max(S) = x
<1>1. Max(S) \in S /\ \A y \in S : Max(S) >= y
  <2>1. \E z \in S : \A y \in S : z >= y
    OBVIOUS
  <2> QED
    BY <2>1 DEF Max
<1>2. Max(S) >= x /\ Max(S) <= x /\ Max(S) \in Nat /\ x \in Nat
  BY <1>1
<1> QED
  BY <1>2

\* A map that keeps all fields of the block is the one that was sent.
LEMMA KeptLast ==
  ASSUME NEW N \in Nat, DOMAIN sent = 1 .. N, NEW st, Kept(sent, st, N)
  PROVE  st = LastSent
<1> DEFINE names == {sent[i][1] : i \in 1 .. N}
           S(n) == {i \in DOMAIN sent : sent[i][1] = n}
<1>1. LastSent = [n \in names |-> sent[Max(S(n))][2]]
  BY DEF LastSent
<1>2. ASSUME NEW n \in names PROVE st[n] = sent[Max(S(n))][2]
  <2>1. PICK i \in 1 .. N : sent[i][1] = n /\ LastOf(sent, i, N) /\ st[n] = sent[i][2]
    BY DEF Kept
  <2>2. S(n) \in SUBSET Nat /\ i \in S(n) /\ \A j \in S(n) : j <= i
    BY <2>1 DEF LastOf
  <2> HIDE DEF S
  <2>3. Max(S(n)) = i
    BY <2>2, MaxIs
  <2> QED
    BY <2>1, <2>3
<1>3. st = [n \in names |-> st[n]]
  BY DEF Kept
<1> HIDE DEF names, S
<1> QED
  BY <1>1, <1>2, <1>3

\* The invariant has the types.
LEMMA IInvTypeOK == IInv => TypeOK
<1> SUFFICES ASSUME IInv PROVE TypeOK
  OBVIOUS
<1>1. Typed
  BY DEF IInv
<1>2. \A i \in DOMAIN data : data[i] \in 0 .. 255
  <2>1. data \in Bytes
    BY <1>1 DEF Typed
  <2>2. DOMAIN data = 1 .. Len(data)
    BY <2>1 DEF Bytes
  <2>3. \A i \in DOMAIN data : data[i] \in Byte
    BY <2>1, <2>2, ByteAt
  <2> QED
    BY <2>3 DEF Byte
<1>3. \A n \in DOMAIN fields : Text(n) /\ \A i \in DOMAIN fields[n] : fields[n][i] < 128
  BY <1>1 DEF Typed, Text
<1> QED
  BY <1>1, <1>2, <1>3 DEF TypeOK, Typed

\* The invariant says what was decoded.
LEMMA IInvDecodesSent ==
  ASSUME ~Excess
  PROVE  IInv => DecodesSent
<1> SUFFICES ASSUME IInv PROVE DecodesSent
  OBVIOUS
<1>1. Progress
  BY DEF IInv
<1>2. ASSUME status = "ok", tail # "short" PROVE tail = "none" /\ fields = LastSent
  <2>1. AllRead
    BY <1>1, <1>2 DEF Progress, CutHead, InHead, InLines, ShortDone, Refusing
  <2>2. Len(sent) \in Nat /\ DOMAIN sent = 1 .. Len(sent) /\ Kept(sent, fields, Len(sent))
    BY <2>1 DEF AllRead
  <2> QED
    BY <2>1, <2>2, KeptLast DEF AllRead
<1>3. ASSUME status \in {"failed", "panicked"} PROVE tail # "none"
  BY <1>1, <1>3 DEF Progress, CutHead, InHead, InLines, ShortDone, AllRead, Refusing
<1> QED
  BY <1>2, <1>3 DEF DecodesSent

\* The invariant says what a short value decodes to.
LEMMA IInvShortIsPrefix == IInv => ShortIsPrefix
<1> SUFFICES ASSUME IInv, tail = "short", status = "ok"
             PROVE  /\ IsPrefix(fields[Last(sent)[1]], Last(sent)[2])
                    /\ fields = [LastSent EXCEPT ![Last(sent)[1]] = fields[Last(sent)[1]]]
  BY DEF ShortIsPrefix
<1>1. ShortDone
  BY DEF IInv, Progress, CutHead, InHead, InLines, ShortDone, AllRead, Refusing
<1>2. PICK N, st, k : ShortRead(N, st, k)
  BY <1>1 DEF ShortDone
<1>3. /\ N \in Nat /\ Len(sent) = N + 1 /\ sent \in Seq(Fields) /\ DOMAIN sent = 1 .. N + 1
      /\ N + 1 \in 1 .. Len(sent)
  BY <1>1, <1>2 DEF ShortDone, ShortRead
<1> DEFINE f == sent[N + 1]
           name == f[1]
           value == f[2]
           full == Added(st, name, value)
<1>4. Last(sent) = f /\ f \in Fields
  BY <1>3 DEF Last
<1>5. fields = Added(st, name, SubSeq(value, 1, k)) /\ k \in 0 .. Len(value) /\ Kept(sent, st, N)
  BY <1>2 DEF ShortRead
<1>6. value \in Bytes
  BY <1>4, FieldFacts, AsciiText
<1>7. full = LastSent
  <2>1. Kept(sent, full, N + 1)
    BY <1>3, <1>5, KeptAdded
  <2> HIDE DEF full
  <2> QED
    BY <1>3, <2>1, KeptLast
<1> HIDE DEF f
<1>8. IsPrefix(SubSeq(value, 1, k), value)
  <2> DEFINE v == value
             p == SubSeq(v, 1, k)
  <2>1. v \in Bytes /\ k \in 0 .. Len(v)
    BY <1>5, <1>6
  <2> HIDE DEF v
  <2>2. Len(p) = k /\ p \in Bytes
    BY <2>1 DEF Bytes
  <2>3. SubSeq(p, 1, Len(p)) = p
    BY <2>2 DEF Bytes
  <2>4. IsPrefix(p, v)
    BY <2>1, <2>2, <2>3 DEF IsPrefix
  <2> QED
    BY <2>4 DEF v
<1> HIDE DEF name, value
<1>9. fields[name] = SubSeq(value, 1, k)
  BY <1>5 DEF Added
<1>10. fields = [full EXCEPT ![name] = fields[name]]
  BY <1>5, <1>9 DEF Added
<1> HIDE DEF full
<1> QED
  BY <1>4, <1>7, <1>8, <1>9, <1>10 DEF name, value

\* Headers::decode never returns a name or a value that is no text.
THEOREM QpackTypeOK == Spec => []TypeOK
<1> QED
  BY AlwaysIInv, IInvTypeOK, PTL

\* Without indices beyond a usize, whatever form the writer chose for each
\* field, Headers::decode returns the last value of each name that was sent; it
\* never returns for a block that is cut inside a line or refers to a table it
\* does not have, and refuses no block of whole lines that needs none.
THEOREM QpackDecodesSent ==
  ASSUME ~Excess
  PROVE  Spec => []DecodesSent
<1> QED
  BY AlwaysIInv, IInvDecodesSent, PTL

\* A Huffman coded value that lacks bytes at its end is refused by
\* Headers::decode or comes out as a prefix of what was sent, and no other field
\* is touched.
THEOREM QpackShortIsPrefix == Spec => []ShortIsPrefix
<1> QED
  BY AlwaysIInv, IInvShortIsPrefix, PTL
=============================================================================
