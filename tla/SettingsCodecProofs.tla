------------------------ MODULE SettingsCodecProofs ------------------------
(***************************************************************************)
(* Settings::decode reads the settings that were encoded: proofs for any   *)
(* identifiers, values and ends of the payload, of SettingsCodec.          *)
(***************************************************************************)
EXTENDS SettingsCodec, VarIntProofs

\* After the first p bytes of w stands a setting, with na and nb bytes for its
\* identifier and its value.
PairStands(w, p, setting, na, nb, next) ==
  /\ Stands(w, p, setting[1], na)
  /\ Stands(w, p + na, setting[2], nb)
  /\ next = p + na + nb /\ next <= Len(w)

\* w consists of the settings in list, and at[i] is where the first i of them
\* end.
Payload(w, list, at) ==
  /\ w \in Seq(Byte) /\ list \in Seq(Pairs) /\ at \in [0 .. Len(list) -> Nat]
  /\ at[0] = 0 /\ at[Len(list)] = Len(w)
  /\ \A i \in 0 .. Len(list) - 1 :
       \E na, nb : PairStands(w, at[i], list[i + 1], na, nb, at[i + 1])

-----------------------------------------------------------------------------
(***************************************************************************)
(* Settings in a payload                                                   *)
(***************************************************************************)

LEMMA U32Is == U32 \in Nat /\ U32 > 0
<1>1. 4 * Bits \in Nat /\ 4 * Bits <= 8 * Bits
  BY BitsAssumption
<1> QED
  BY <1>1, Power DEF U32

\* The parts of an encoded setting.
LEMMA PairParts ==
  ASSUME NEW setting \in Pairs
  PROVE  /\ EncodePair(setting) \in Seq(Byte)
         /\ \E na, nb : PairStands(EncodePair(setting), 0, setting, na, nb, Len(EncodePair(setting)))
<1> DEFINE x == setting[1]
           y == setting[2]
           na == Fitting(x)
           nb == Fitting(y)
           a == EncodeIn(x, na)
           b == EncodeIn(y, nb)
           e == a \o b
<1>1. x \in 0 .. Bound(8) - 1 /\ y \in 0 .. Bound(8) - 1
  BY SettingsAssumption DEF Pairs
<1>2. EncodePair(setting) = e
  BY DEF EncodePair, Encode
<1>3. x \in Nat /\ y \in Nat
  BY <1>1
<1>4. na \in Lengths /\ x < Bound(na) /\ nb \in Lengths /\ y < Bound(nb)
  BY <1>1, FittingFits
<1> HIDE DEF x, y, na, nb
<1>5. a \in Seq(Byte) /\ Len(a) = na /\ b \in Seq(Byte) /\ Len(b) = nb
  BY <1>3, <1>4, EncodedBytes
<1>6. na \in Nat /\ nb \in Nat
  BY <1>4 DEF Lengths
<1> HIDE DEF a, b
<1>7. /\ e \in Seq(Byte) /\ Len(e) = na + nb
      /\ \A j \in 1 .. na : e[0 + j] = a[j]
      /\ \A j \in 1 .. nb : e[0 + na + j] = b[j]
  BY ONLY <1>5, <1>6
<1> HIDE DEF e
<1>8. Stands(e, 0, x, na)
  BY <1>3, <1>4, <1>6, <1>7 DEF Stands, a
<1>9. Stands(e, 0 + na, y, nb)
  BY <1>3, <1>4, <1>6, <1>7 DEF Stands, b
<1>10. PairStands(e, 0, setting, na, nb, Len(e))
  BY <1>6, <1>7, <1>8, <1>9 DEF PairStands, x, y
<1> QED
  BY <1>2, <1>7, <1>10

\* A row of encoded settings is a payload of them.
LEMMA PartsPayload ==
  ASSUME NEW w \in Seq(Byte), NEW list \in Seq(Pairs), NEW parts \in Seq(Seq(Byte)), NEW at,
         Len(parts) = Len(list), \A i \in 1 .. Len(list) : parts[i] = EncodePair(list[i]),
         Laid(w, parts, at)
  PROVE  Payload(w, list, at)
<1> DEFINE N == Len(list)
<1>1. /\ N \in Nat /\ at \in [0 .. N -> Nat] /\ at[0] = 0 /\ at[N] = Len(w)
      /\ \A i \in 1 .. N :
           /\ at[i] = at[i - 1] + Len(parts[i]) /\ at[i] <= Len(w)
           /\ \A j \in 1 .. Len(parts[i]) : w[at[i - 1] + j] = parts[i][j]
  BY DEF Laid
<1>2. ASSUME NEW i \in 0 .. N - 1
      PROVE  \E na, nb : PairStands(w, at[i], list[i + 1], na, nb, at[i + 1])
  <2>1. i + 1 \in 1 .. N /\ i + 1 - 1 = i /\ i \in 0 .. N /\ Len(w) \in Nat
    BY <1>1
  <2>2. list[i + 1] \in Pairs /\ parts[i + 1] = EncodePair(list[i + 1])
    BY <2>1
  <2>3. PICK setting, e : /\ setting \in Pairs /\ setting = list[i + 1]
                          /\ e = parts[i + 1] /\ e = EncodePair(setting)
    BY <2>2
  <2>4. e \in Seq(Byte)
    BY <2>3, PairParts
  <2>5. PICK na, nb : PairStands(e, 0, setting, na, nb, Len(e))
    BY <2>3, PairParts
  <2>6. at[i] \in Nat /\ at[i + 1] = at[i] + Len(e) /\ at[i + 1] <= Len(w)
        /\ \A j \in 1 .. Len(e) : w[at[i] + j] = e[j]
    <3>1. PICK k \in 1 .. N : k = i + 1
      BY <2>1
    <3>2. k - 1 = i
      BY <3>1
    <3>3. /\ at[k] = at[k - 1] + Len(parts[k]) /\ at[k] <= Len(w)
          /\ \A j \in 1 .. Len(parts[k]) : w[at[k - 1] + j] = parts[k][j]
      BY <1>1
    <3>4. at[i] \in Nat /\ parts[k] = e
      BY <1>1, <2>1, <2>3, <3>1
    <3> QED
      BY <3>1, <3>2, <3>3, <3>4, Zenon
  <2> DEFINE p == at[i]
             x == setting[1]
             y == setting[2]
  <2>7. Stands(e, 0, x, na) /\ Stands(e, 0 + na, y, nb) /\ Len(e) = 0 + na + nb
    BY <2>5 DEF PairStands
  <2>8. na \in Nat /\ nb \in Nat
    BY <2>7 DEF Stands, Lengths
  <2>9. 0 \in Nat /\ 0 + na \in Nat /\ p + Len(e) <= Len(w) /\ p \in Nat
        /\ \A j \in 1 .. Len(e) : w[p + j] = e[j]
    BY <2>6, <2>8
  <2> HIDE DEF p, x, y
  <2>10. Stands(w, p + 0, x, na) /\ Stands(w, p + (0 + na), y, nb)
    BY <2>4, <2>7, <2>9, StandsWithin
  <2>11. p + 0 = p /\ p + (0 + na) = p + na /\ p + Len(e) = p + na + nb
    BY <2>7, <2>8, <2>9
  <2>12. PairStands(w, p, setting, na, nb, at[i + 1])
    BY <2>6, <2>10, <2>11 DEF PairStands, p, x, y
  <2> QED
    BY <2>3, <2>12 DEF p
<1> QED
  BY <1>1, <1>2 DEF Payload

\* The settings end one after the other.
LEMMA PayloadAt ==
  ASSUME NEW w, NEW list, NEW at, Payload(w, list, at),
         NEW i \in 0 .. Len(list), NEW j \in 0 .. Len(list), i < j
  PROVE  at[i] < at[j]
<1> DEFINE N == Len(list)
           S == {k \in Nat : i + 1 + k <= N => at[i] < at[i + 1 + k]}
<1>1. N \in Nat /\ i \in Nat /\ j \in Nat
  BY DEF Payload
<1>2. \A k \in 0 .. N : at[k] \in Nat
  BY DEF Payload
<1>3. ASSUME NEW k \in 0 .. N - 1 PROVE at[k] < at[k + 1]
  <2>1. PICK na, nb : PairStands(w, at[k], list[k + 1], na, nb, at[k + 1])
    BY DEF Payload
  <2>2. na \in Nat /\ nb \in Nat /\ na > 0 /\ at[k + 1] = at[k] + na + nb
    BY <2>1 DEF PairStands, Stands, Lengths
  <2>3. at[k] \in Nat
    BY <1>1, <1>2
  <2> QED
    BY ONLY <2>2, <2>3
<1> HIDE DEF N
<1>4. 0 \in S
  <2>1. SUFFICES ASSUME i + 1 <= N PROVE at[i] < at[i + 1 + 0]
    BY <1>1
  <2>2. i \in 0 .. N - 1 /\ i + 1 + 0 = i + 1
    BY <1>1, <2>1
  <2> QED
    BY <1>3, <2>2
<1>5. ASSUME NEW k \in Nat, k \in S PROVE k + 1 \in S
  <2>1. SUFFICES ASSUME i + 1 + (k + 1) <= N PROVE at[i] < at[i + 1 + (k + 1)]
    OBVIOUS
  <2>2. /\ i + 1 + k \in 0 .. N - 1 /\ i + 1 + k + 1 = i + 1 + (k + 1) /\ i + 1 + k <= N
        /\ i \in 0 .. N /\ i + 1 + k \in 0 .. N /\ i + 1 + k + 1 \in 0 .. N
    BY <1>1, <2>1
  <2>3. at[i] < at[i + 1 + k] /\ at[i + 1 + k] < at[i + 1 + k + 1]
    BY <1>3, <1>5, <2>2
  <2>4. at[i] \in Nat /\ at[i + 1 + k] \in Nat /\ at[i + 1 + k + 1] \in Nat
    BY <1>2, <2>2
  <2>5. at[i] < at[i + 1 + k + 1]
    BY ONLY <2>3, <2>4
  <2> QED
    BY <2>2, <2>5
<1>6. \A k \in Nat : k \in S
  <2> HIDE DEF S
  <2> QED
    BY <1>4, <1>5, NatSetInduction
<1>7. j - (i + 1) \in Nat /\ i + 1 + (j - (i + 1)) = j /\ j <= N
  BY <1>1 DEF N
<1>8. j - (i + 1) \in S
  BY <1>6, <1>7
<1> QED
  BY <1>7, <1>8
-----------------------------------------------------------------------------
(***************************************************************************)
(* The inductive invariant                                                 *)
(***************************************************************************)

\* The payload is the first l bytes of w, the settings of list: those that were
\* sent whole and the one it ends in.
Whole(w, list, at, l) ==
  /\ Payload(w, list, at) /\ sent \in Seq(Pairs)
  /\ \E setting \in Pairs : list = Append(sent, setting)
  /\ cut \in Nat /\ l = at[Len(sent)] + cut /\ l < Len(w)

\* The first r settings were read, or the identifier of the next one with them:
\* q bytes.
Reader(w, list, at, q, r) ==
  \/ id = <<>> /\ q = at[r]
  \/ \E na, nb :
       /\ PairStands(w, at[r], list[r + 1], na, nb, at[r + 1])
       /\ id = <<list[r + 1][1]>> /\ q = at[r] + na

\* Setting i of the list s is the last of the first r with its identifier.
LastOf(s, i, r) ==
  \A j \in 1 .. r : s[j][1] = s[i][1] => j <= i

\* The map st holds the last value of each of the first r settings of s.
Kept(s, st, r) ==
  /\ st = [k \in {s[i][1] : i \in 1 .. r} |-> st[k]]
  /\ \A k \in {s[i][1] : i \in 1 .. r} :
       \E i \in 1 .. r : s[i][1] = k /\ LastOf(s, i, r) /\ st[k] = s[i][2] % U32

Stage(w, list, at, l, q, r) ==
  /\ Whole(w, list, at, l)
  /\ q \in 0 .. l /\ data = SubSeq(w, q + 1, l)
  /\ r \in 0 .. Len(sent) /\ Reader(w, list, at, q, r)
  /\ Kept(sent, settings, r)
  /\ status \in {"decoding", "ok", "failed", "panicked"}
  /\ status = "ok" => cut = 0 /\ r = Len(sent)
  /\ status \in {"failed", "panicked"} => cut > 0

IInv == \E w, list, at, l, q, r : Stage(w, list, at, l, q, r)

-----------------------------------------------------------------------------

LEMMA BoundedIsSeq ==
  ASSUME NEW S, NEW n \in Nat, NEW s \in BoundedSeq(S, n)
  PROVE  s \in Seq(S)
<1>1. PICK m \in 0 .. n : s \in [1 .. m -> S]
  BY DEF BoundedSeq, SeqOf
<1> QED
  BY <1>1

LEMMA InitIInv == Init => IInv
<1> SUFFICES ASSUME Init PROVE IInv
  OBVIOUS
<1>1. sent \in Seq(Pairs)
  <2>1. MaxSettings \in Nat /\ sent \in BoundedSeq(Pairs, MaxSettings)
    BY SettingsAssumption DEF Init
  <2> QED
    BY <2>1, BoundedIsSeq
<1>2. PICK setting, e :
        /\ setting \in Pairs /\ e = EncodePair(setting) /\ cut \in 0 .. Len(e) - 1
        /\ data = EncodePairs(sent) \o SubSeq(e, 1, cut)
  BY DEF Init
<1> DEFINE N == Len(sent)
           parts == [i \in DOMAIN sent |-> EncodePair(sent[i])]
           v == EncodePairs(sent)
           w == v \o e
           list == Append(sent, setting)
           new == Append(parts, e)
<1>3. N \in Nat /\ DOMAIN sent = 1 .. N /\ \A i \in 1 .. N : sent[i] \in Pairs
  BY <1>1
<1>4. /\ parts \in Seq(Seq(Byte)) /\ Len(parts) = N
      /\ \A i \in 1 .. N : parts[i] = EncodePair(sent[i])
  <2>1. \A i \in 1 .. N : EncodePair(sent[i]) \in Seq(Byte)
    BY <1>3, PairParts
  <2> HIDE DEF Byte
  <2>2. parts \in [1 .. N -> Seq(Byte)]
    BY <1>3, <2>1
  <2> QED
    BY <1>3, <2>2
<1>5. e \in Seq(Byte) /\ Len(e) \in Nat
  BY <1>2, PairParts
<1>6. v = FlattenSeq(parts)
  BY DEF EncodePairs
<1> HIDE DEF parts, v
<1>7. PICK at : v \in Seq(Byte) /\ Laid(v, parts, at)
  BY <1>4, <1>6, FlattenLaid
<1>8. PICK to : Laid(w, new, to) /\ \A i \in 0 .. N : to[i] = at[i]
  BY <1>4, <1>5, <1>7, LaidAppend
<1>9. /\ new \in Seq(Seq(Byte)) /\ Len(new) = N + 1 /\ new[N + 1] = e
      /\ \A i \in 1 .. N : new[i] = parts[i]
  <2> HIDE DEF Byte
  <2> QED
    BY <1>4, <1>5
<1>10. /\ list \in Seq(Pairs) /\ Len(list) = N + 1 /\ list[N + 1] = setting
       /\ \A i \in 1 .. N : list[i] = sent[i]
  <2> HIDE DEF Pairs
  <2> QED
    BY <1>1, <1>2
<1>11. w \in Seq(Byte) /\ Len(w) = Len(v) + Len(e) /\ Len(v) \in Nat
  BY <1>5, <1>7
<1> HIDE DEF w, new
<1>12. Payload(w, list, to)
  <2>1. \A i \in 1 .. Len(list) : new[i] = EncodePair(list[i])
    <3>1. ASSUME NEW i \in 1 .. Len(list) PROVE new[i] = EncodePair(list[i])
      <4>1. i \in 1 .. N \/ i = N + 1
        BY <1>3, <1>10
      <4> QED
        BY <1>2, <1>4, <1>9, <1>10, <4>1
    <3> QED
      BY <3>1
  <2> HIDE DEF list
  <2> QED
    BY <1>8, <1>9, <1>10, <1>11, <2>1, PartsPayload
<1>13. to[N] = Len(v) /\ to[0] = 0
  <2>1. at[N] = Len(v) /\ at[0] = 0
    BY <1>4, <1>7 DEF Laid
  <2>2. N \in 0 .. N /\ 0 \in 0 .. N
    BY <1>3
  <2> QED
    BY <1>8, <2>1, <2>2
<1> DEFINE l == Len(v) + cut
<1>14. cut \in Nat /\ cut \in 0 .. Len(e) /\ l < Len(w) /\ l \in Nat
  BY <1>2, <1>5, <1>11
<1>15. data = SubSeq(w, 0 + 1, l)
  <2>1. SubSeq(v, 0 + 1, Len(v)) = v
    BY <1>7
  <2>2. SubSeq(v, 0 + 1, Len(v)) \o SubSeq(e, 1, cut) = SubSeq(w, 0 + 1, Len(v) + cut)
    <3>1. 0 \in 0 .. Len(v)
      BY <1>11
    <3> QED
      BY <1>5, <1>7, <1>14, <3>1, Prolonged DEF w
  <2> QED
    BY <1>2, <2>1, <2>2 DEF v
<1>16. Whole(w, list, to, l)
  BY <1>1, <1>2, <1>12, <1>13, <1>14 DEF Whole
<1>17. Reader(w, list, to, 0, 0)
  BY <1>13 DEF Init, Reader
<1>18. Kept(sent, settings, 0)
  <2>1. {sent[i][1] : i \in 1 .. 0} = {}
    OBVIOUS
  <2>2. settings = [k \in {} |-> 0]
    BY DEF Init
  <2> QED
    BY <2>1, <2>2 DEF Kept
<1>19. Stage(w, list, to, l, 0, 0)
  <2>1. 0 \in 0 .. l /\ 0 \in 0 .. N /\ status = "decoding"
    BY <1>3, <1>14 DEF Init
  <2> HIDE DEF l, list
  <2> QED
    BY <1>15, <1>16, <1>17, <1>18, <2>1 DEF Stage
<1> QED
  BY <1>19 DEF IInv

\* What a read of the integer x finds, which stands after the q bytes read.
Finds(w, l, q, x, n) ==
  /\ Take = "ok" => Head1 = x /\ q + n \in 0 .. l /\ Rest = SubSeq(w, q + n + 1, l)
  /\ Take # "ok" => l < q + n /\ Take \in {"failed", "panicked"}

LEMMA TakeFinds ==
  ASSUME NEW w \in Seq(Byte), NEW l \in 0 .. Len(w), NEW q \in 0 .. l,
         data = SubSeq(w, q + 1, l), NEW x, NEW n, Stands(w, q, x, n)
  PROVE  Finds(w, l, q, x, n)
<1>1. n \in Nat /\ n > 0 /\ q + n <= Len(w) /\ l \in Nat /\ q \in Nat /\ Len(w) \in Nat
  BY DEF Stands, Lengths
<1>2. /\ data \in Seq(Byte) /\ Len(data) = l - q
      /\ \A j \in 1 .. l - q : data[j] = w[q + j]
      /\ \A m \in 0 .. l - q :
           /\ SubSeq(data, 1, m) = SubSeq(w, q + 1, q + m)
           /\ SubSeq(data, m + 1, Len(data)) = SubSeq(w, q + m + 1, l)
  BY Remains
<1>3. Announced(w[q + 1]) = n /\ Value(SubSeq(w, q + 1, q + n)) = x
  BY StandsReads
<1>4. CASE data = <<>>
  <2>1. l - q = 0
    BY <1>2, <1>4
  <2>2. Take = "panicked" /\ l < q + n
    BY <1>1, <1>4, <2>1 DEF Take
  <2> QED
    BY <2>2 DEF Finds
<1>5. CASE data # <<>>
  <2>1. l - q > 0
    <3>1. Len(data) # 0
      BY <1>2, <1>5
    <3> QED
      BY <1>1, <1>2, <3>1
  <2>2. 1 \in 1 .. l - q
    BY <1>1, <2>1
  <2>3. data[1] = w[q + 1]
    BY <1>2, <2>2
  <2>4. Announced(data[1]) = n
    BY <1>3, <2>3
  <2>5. Take = IF l - q < n THEN "failed" ELSE "ok"
    BY <1>2, <1>5, <2>4 DEF Take
  <2>6. CASE l - q < n
    BY <1>1, <2>5, <2>6 DEF Finds
  <2>7. CASE ~(l - q < n)
    <3>1. n \in 0 .. l - q /\ q + n \in 0 .. l
      BY <1>1, <2>7
    <3>2. Head1 = x /\ Rest = SubSeq(w, q + n + 1, l)
      BY <1>2, <1>3, <2>4, <3>1 DEF Head1, Rest
    <3> QED
      BY <2>5, <2>7, <3>1, <3>2 DEF Finds
  <2> QED
    BY <2>6, <2>7
<1> QED
  BY <1>4, <1>5

\* Where the payload ends: before the end of the setting it ends in, and after
\* that of every other.
LEMMA EndsWithin ==
  ASSUME NEW w, NEW list, NEW at, NEW l, Whole(w, list, at, l), NEW r \in 0 .. Len(sent)
  PROVE  /\ w \in Seq(Byte) /\ l \in 0 .. Len(w) /\ Len(sent) \in Nat
         /\ at[r] \in Nat /\ at[Len(sent)] \in Nat
         /\ at[r] <= l
         /\ r = Len(sent) => l < at[r + 1]
         /\ r # Len(sent) => at[r + 1] <= at[Len(sent)] /\ list[r + 1] = sent[r + 1]
         /\ \E na, nb : PairStands(w, at[r], list[r + 1], na, nb, at[r + 1])
<1> DEFINE N == Len(sent)
<1>1. /\ Payload(w, list, at) /\ sent \in Seq(Pairs) /\ cut \in Nat
      /\ l = at[N] + cut /\ l < Len(w)
  BY DEF Whole
<1>2. PICK setting \in Pairs : list = Append(sent, setting)
  BY DEF Whole
<1>3. N \in Nat /\ Len(list) = N + 1 /\ \A i \in 1 .. N : list[i] = sent[i]
  BY <1>1, <1>2
<1> HIDE DEF N
<1>4. w \in Seq(Byte) /\ Len(w) \in Nat /\ \A i \in 0 .. N + 1 : at[i] \in Nat
  BY <1>1, <1>3 DEF Payload
<1>5. N \in 0 .. N + 1 /\ r \in 0 .. N + 1 /\ r + 1 \in 0 .. N + 1 /\ r \in 0 .. N + 1 - 1
  BY <1>3 DEF N
<1>6. \A i \in 0 .. N + 1 : \A j \in 0 .. N + 1 : i < j => at[i] < at[j]
  BY <1>1, <1>3, PayloadAt
<1>7. l \in 0 .. Len(w)
  BY <1>1, <1>4, <1>5
<1>8. at[r] <= at[N] /\ (r # N => at[r + 1] <= at[N])
  <2>1. r = N \/ r < N
    BY <1>3 DEF N
  <2>2. r < N => r + 1 = N \/ r + 1 < N
    BY <1>3
  <2>3. at[r] \in Nat /\ at[N] \in Nat /\ at[r + 1] \in Nat
    BY <1>4, <1>5
  <2>4. r < N => at[r] < at[N]
    BY <1>5, <1>6
  <2>5. r + 1 < N => at[r + 1] < at[N]
    BY <1>5, <1>6
  <2>6. r + 1 = N => at[r + 1] = at[N]
    OBVIOUS
  <2>7. CASE r = N
    BY <2>3, <2>7
  <2>8. CASE r < N
    BY <2>2, <2>3, <2>4, <2>5, <2>6, <2>8
  <2> QED
    BY <2>1, <2>7, <2>8
<1>9. at[r] <= l
  <2>1. at[r] \in Nat /\ at[N] \in Nat
    BY <1>4, <1>5
  <2> QED
    BY <1>1, <1>8, <2>1
<1>10. at[N + 1] = Len(w)
  BY <1>1, <1>3 DEF Payload
<1>11. r = N => l < at[r + 1]
  BY <1>1, <1>10
<1>12. r # N => list[r + 1] = sent[r + 1]
  <2>1. r # N => r + 1 \in 1 .. N
    BY <1>3 DEF N
  <2> QED
    BY <1>3, <2>1
<1>13. \E na, nb : PairStands(w, at[r], list[r + 1], na, nb, at[r + 1])
  BY <1>1, <1>3, <1>5 DEF Payload
<1> QED
  BY <1>3, <1>4, <1>5, <1>7, <1>8, <1>9, <1>11, <1>12, <1>13 DEF N

\* The value read is the last one of its identifier.
LEMMA KeptInsert ==
  ASSUME NEW st, NEW r \in Nat, NEW s \in Seq(Pairs), r + 1 <= Len(s), Kept(s, st, r)
  PROVE  Kept(s, Insert(st, s[r + 1][1], s[r + 1][2] % U32), r + 1)
<1> DEFINE key == s[r + 1][1]
           v == s[r + 1][2] % U32
           old == {s[i][1] : i \in 1 .. r}
           ids == {s[i][1] : i \in 1 .. r + 1}
           new == Insert(st, key, v)
<1>1. DOMAIN st = old
  BY DEF Kept
<1>2. new = [k \in {key} \cup old |-> IF k = key THEN v ELSE st[k]]
  BY <1>1 DEF Insert
<1>3. ids = {key} \cup old
  <2>1. 1 .. r + 1 = (1 .. r) \cup {r + 1}
    OBVIOUS
  <2> QED
    BY <2>1
<1>4. ASSUME NEW k \in ids
      PROVE  \E i \in 1 .. r + 1 : s[i][1] = k /\ LastOf(s, i, r + 1) /\ new[k] = s[i][2] % U32
  <2>1. CASE k = key
    <3>1. new[k] = v
      BY <1>2, <1>3, <2>1
    <3>2. r + 1 \in 1 .. r + 1 /\ LastOf(s, r + 1, r + 1)
      BY DEF LastOf
    <3> QED
      BY <2>1, <3>1, <3>2
  <2>2. CASE k # key
    <3>1. k \in old /\ new[k] = st[k]
      <4> HIDE DEF ids, old, key, v, new
      <4> QED
        BY <1>2, <1>3, <1>4, <2>2
    <3>2. PICK i \in 1 .. r : s[i][1] = k /\ LastOf(s, i, r) /\ st[k] = s[i][2] % U32
      BY <3>1 DEF Kept
    <3>3. LastOf(s, i, r + 1)
      <4>1. SUFFICES ASSUME NEW j \in 1 .. r + 1, s[j][1] = s[i][1] PROVE j <= i
        BY DEF LastOf
      <4>2. j # r + 1
        BY <2>2, <3>2, <4>1
      <4>3. j \in 1 .. r
        BY <4>2
      <4> QED
        BY <3>2, <4>1, <4>3 DEF LastOf
    <3>4. i \in 1 .. r + 1
      OBVIOUS
    <3> HIDE DEF new
    <3> QED
      BY <3>1, <3>2, <3>3, <3>4
  <2> QED
    BY <2>1, <2>2
<1>5. new = [k \in ids |-> new[k]]
  <2> HIDE DEF ids, old, key, v, new
  <2> QED
    BY <1>2, <1>3
<1> HIDE DEF new
<1>6. Kept(s, new, r + 1)
  BY <1>4, <1>5 DEF Kept
<1> QED
  BY <1>6 DEF new

LEMMA ReadIdentifierIInv ==
  ASSUME IInv, ReadIdentifier
  PROVE  IInv'
<1>1. PICK w, list, at, l, q, r : Stage(w, list, at, l, q, r)
  BY DEF IInv
<1>2. /\ status = "decoding" /\ id = <<>> /\ data # <<>>
      /\ UNCHANGED <<sent, cut, settings>>
  BY DEF ReadIdentifier
<1>3. /\ Whole(w, list, at, l) /\ q \in 0 .. l /\ data = SubSeq(w, q + 1, l)
      /\ r \in 0 .. Len(sent) /\ Reader(w, list, at, q, r) /\ Kept(sent, settings, r)
  BY <1>1 DEF Stage
<1>4. /\ w \in Seq(Byte) /\ l \in 0 .. Len(w) /\ Len(sent) \in Nat
      /\ at[r] \in Nat /\ at[Len(sent)] \in Nat
      /\ r # Len(sent) => at[r + 1] <= at[Len(sent)]
      /\ \E na, nb : PairStands(w, at[r], list[r + 1], na, nb, at[r + 1])
  BY <1>3, EndsWithin
<1>5. q = at[r]
  BY <1>2, <1>3 DEF Reader
<1>6. PICK na, nb : PairStands(w, at[r], list[r + 1], na, nb, at[r + 1])
  BY <1>4
<1> DEFINE x == list[r + 1][1]
<1>7. /\ Stands(w, q, x, na) /\ na \in Nat /\ nb \in Nat /\ nb > 0
      /\ at[r + 1] = at[r] + na + nb
  BY <1>5, <1>6 DEF PairStands, Stands, Lengths
<1> HIDE DEF x
<1>8. Finds(w, l, q, x, na)
  BY <1>3, <1>4, <1>7, TakeFinds
<1>9. Whole(w, list, at, l)' /\ Kept(sent, settings, r)' /\ (r \in 0 .. Len(sent))'
  BY <1>2, <1>3 DEF Whole
<1>10. CASE Take = "ok" /\ id' = <<Head1>> /\ data' = Rest /\ UNCHANGED status
  <2> DEFINE k == q + na
  <2>1. id' = <<x>> /\ data' = SubSeq(w, k + 1, l) /\ k \in 0 .. l
    BY <1>8, <1>10 DEF Finds
  <2>2. Reader(w, list, at, k, r)'
    BY <1>5, <1>6, <2>1 DEF Reader, x
  <2> HIDE DEF k
  <2>3. Stage(w, list, at, l, k, r)'
    BY <1>2, <1>9, <1>10, <2>1, <2>2 DEF Stage
  <2> QED
    BY <2>3 DEF IInv
<1>11. CASE Take # "ok" /\ status' = Take /\ UNCHANGED <<id, data>>
  <2>1. l < q + na /\ status' \in {"failed", "panicked"}
    BY <1>8, <1>11 DEF Finds
  <2>2. l = at[Len(sent)] + cut /\ cut \in Nat
    BY <1>3 DEF Whole
  <2>3. r = Len(sent)
    <3>1. SUFFICES ASSUME r # Len(sent) PROVE FALSE
      OBVIOUS
    <3>2. at[r + 1] <= at[Len(sent)]
      BY <1>4, <3>1
    <3> QED
      BY <1>4, <1>5, <1>7, <2>1, <2>2, <3>2
  <2>4. q < l
    <3>1. Len(data) = l - q /\ data \in Seq(Byte)
      BY <1>3, <1>4, Remains
    <3>2. Len(data) # 0
      BY <1>2, <3>1
    <3> QED
      BY <1>3, <1>4, <3>1, <3>2
  <2>5. cut > 0
    BY <1>4, <1>5, <2>2, <2>3, <2>4
  <2>6. Reader(w, list, at, q, r)'
    BY <1>3, <1>11 DEF Reader
  <2>7. cut' > 0 /\ status' # "ok" /\ data' = data
    BY <1>2, <1>11, <2>5
  <2>8. Stage(w, list, at, l, q, r)'
    BY <1>3, <1>9, <2>1, <2>6, <2>7 DEF Stage
  <2> QED
    BY <2>8 DEF IInv
<1> QED
  BY <1>10, <1>11 DEF ReadIdentifier

LEMMA ReadValueIInv ==
  ASSUME IInv, ReadValue
  PROVE  IInv'
<1>1. PICK w, list, at, l, q, r : Stage(w, list, at, l, q, r)
  BY DEF IInv
<1>2. status = "decoding" /\ id # <<>> /\ UNCHANGED <<sent, cut>>
  BY DEF ReadValue
<1>3. /\ Whole(w, list, at, l) /\ q \in 0 .. l /\ data = SubSeq(w, q + 1, l)
      /\ r \in 0 .. Len(sent) /\ Reader(w, list, at, q, r) /\ Kept(sent, settings, r)
  BY <1>1 DEF Stage
<1>4. /\ w \in Seq(Byte) /\ l \in 0 .. Len(w) /\ Len(sent) \in Nat
      /\ at[r] \in Nat /\ at[Len(sent)] \in Nat
      /\ r = Len(sent) => l < at[r + 1]
      /\ r # Len(sent) => at[r + 1] <= at[Len(sent)] /\ list[r + 1] = sent[r + 1]
  BY <1>3, EndsWithin
<1>5. PICK na, nb :
        /\ PairStands(w, at[r], list[r + 1], na, nb, at[r + 1])
        /\ id = <<list[r + 1][1]>> /\ q = at[r] + na
  BY <1>2, <1>3 DEF Reader
<1> DEFINE x == list[r + 1][2]
<1>6. /\ Stands(w, q, x, nb) /\ na \in Nat /\ nb \in Nat /\ na > 0
      /\ at[r + 1] = q + nb
  BY <1>5 DEF PairStands, Stands, Lengths
<1>7. id[1] = list[r + 1][1]
  BY <1>5
<1> HIDE DEF x
<1>8. Finds(w, l, q, x, nb)
  BY <1>3, <1>4, <1>6, TakeFinds
<1>9. Whole(w, list, at, l)' /\ Len(sent') = Len(sent) /\ sent \in Seq(Pairs)
  BY <1>2, <1>3 DEF Whole
<1>10. CASE /\ Take = "ok" /\ settings' = Insert(settings, id[1], Head1 % U32)
            /\ id' = <<>> /\ data' = Rest /\ UNCHANGED status
  <2> DEFINE k == q + nb
             s == r + 1
  <2>1. Head1 = x /\ data' = SubSeq(w, k + 1, l) /\ k \in 0 .. l
    BY <1>8, <1>10 DEF Finds
  <2>2. r # Len(sent)
    <3>1. SUFFICES ASSUME r = Len(sent) PROVE FALSE
      OBVIOUS
    <3>2. l < k
      BY <1>4, <1>6, <3>1
    <3> QED
      BY <1>4, <2>1, <3>2
  <2>3. r \in Nat /\ r + 1 <= Len(sent) /\ s \in 0 .. Len(sent)
    BY <1>3, <1>4, <2>2
  <2>4. settings' = Insert(settings, sent[r + 1][1], sent[r + 1][2] % U32)
    BY <1>4, <1>7, <1>10, <2>1, <2>2 DEF x
  <2>5. Kept(sent, settings', s)
    BY <1>3, <1>9, <2>3, <2>4, KeptInsert
  <2>6. Reader(w, list, at, k, s)'
    BY <1>6, <1>10 DEF Reader
  <2> HIDE DEF k, s
  <2>7. Kept(sent, settings, s)'
    BY <1>2, <2>5
  <2>8. Stage(w, list, at, l, k, s)'
    BY <1>2, <1>9, <1>10, <2>1, <2>3, <2>6, <2>7 DEF Stage
  <2> QED
    BY <2>8 DEF IInv
<1>11. CASE Take # "ok" /\ status' = Take /\ UNCHANGED <<settings, id, data>>
  <2>1. l < q + nb /\ status' \in {"failed", "panicked"}
    BY <1>8, <1>11 DEF Finds
  <2>2. l = at[Len(sent)] + cut /\ cut \in Nat
    BY <1>3 DEF Whole
  <2>3. r = Len(sent)
    <3>1. SUFFICES ASSUME r # Len(sent) PROVE FALSE
      OBVIOUS
    <3>2. at[r + 1] <= at[Len(sent)]
      BY <1>4, <3>1
    <3> QED
      BY <1>3, <1>4, <1>6, <2>1, <2>2, <3>2
  <2>4. cut > 0
    <3> DEFINE p == at[r]
    <3>1. p \in Nat /\ l \in Nat /\ q <= l /\ q = p + na
      BY <1>3, <1>4, <1>5
    <3>2. l = p + cut
      BY <2>2, <2>3
    <3> HIDE DEF p
    <3> QED
      BY <1>6, <2>2, <3>1, <3>2
  <2>5. Reader(w, list, at, q, r)'
    BY <1>3, <1>11 DEF Reader
  <2>6. cut' > 0 /\ status' # "ok" /\ data' = data /\ Kept(sent, settings, r)'
    BY <1>2, <1>3, <1>11, <2>1, <2>4
  <2>7. Stage(w, list, at, l, q, r)'
    BY <1>3, <1>9, <2>1, <2>5, <2>6 DEF Stage
  <2> QED
    BY <2>7 DEF IInv
<1> QED
  BY <1>10, <1>11 DEF ReadValue

LEMMA ReturnIInv ==
  ASSUME IInv, Return
  PROVE  IInv'
<1>1. PICK w, list, at, l, q, r : Stage(w, list, at, l, q, r)
  BY DEF IInv
<1>2. /\ status = "decoding" /\ id = <<>> /\ data = <<>> /\ status' = "ok"
      /\ UNCHANGED <<sent, cut, data, id, settings>>
  BY DEF Return
<1>3. /\ Whole(w, list, at, l) /\ q \in 0 .. l /\ data = SubSeq(w, q + 1, l)
      /\ r \in 0 .. Len(sent) /\ Reader(w, list, at, q, r)
  BY <1>1 DEF Stage
<1>4. /\ w \in Seq(Byte) /\ l \in 0 .. Len(w) /\ Len(sent) \in Nat
      /\ at[r] \in Nat /\ at[Len(sent)] \in Nat
      /\ r # Len(sent) => at[r + 1] <= at[Len(sent)]
      /\ \E na, nb : PairStands(w, at[r], list[r + 1], na, nb, at[r + 1])
  BY <1>3, EndsWithin
<1>5. q = at[r] /\ q = l
  <2>1. q = at[r]
    BY <1>2, <1>3 DEF Reader
  <2>2. Len(data) = l - q
    BY <1>3, <1>4, Remains
  <2>3. l - q = 0
    BY <1>2, <2>2
  <2> QED
    BY <1>3, <1>4, <2>1, <2>3
<1>6. l = at[Len(sent)] + cut /\ cut \in Nat
  BY <1>3 DEF Whole
<1>7. r = Len(sent)
  <2>1. SUFFICES ASSUME r # Len(sent) PROVE FALSE
    OBVIOUS
  <2>2. PICK na, nb : PairStands(w, at[r], list[r + 1], na, nb, at[r + 1])
    BY <1>4
  <2>3. na \in Nat /\ nb \in Nat /\ nb > 0 /\ at[r + 1] = at[r] + na + nb
    BY <2>2 DEF PairStands, Stands, Lengths
  <2> DEFINE p == at[r]
             e == at[Len(sent)]
  <2>4. at[r + 1] <= e /\ e \in Nat /\ p \in Nat /\ l = p /\ l = e + cut
    BY <1>4, <1>5, <1>6, <2>1
  <2>5. at[r + 1] = p + na + nb
    BY <2>3
  <2> HIDE DEF p, e
  <2> QED
    BY ONLY <1>6, <2>3, <2>4, <2>5
<1>8. cut = 0
  <2> DEFINE p == at[r]
  <2>1. p \in Nat /\ l = p
    BY <1>4, <1>5
  <2>2. l = p + cut
    BY <1>6, <1>7
  <2> HIDE DEF p
  <2> QED
    BY <1>6, <2>1, <2>2
<1>9. Stage(w, list, at, l, q, r)'
  <2>1. Whole(w, list, at, l)' /\ Reader(w, list, at, q, r)' /\ Kept(sent, settings, r)'
    BY <1>1, <1>2 DEF Stage, Whole, Reader
  <2>2. (status = "ok" => cut = 0 /\ r = Len(sent))'
    BY <1>2, <1>7, <1>8
  <2> QED
    BY <1>2, <1>3, <2>1, <2>2 DEF Stage
<1> QED
  BY <1>9 DEF IInv

LEMMA StepIInv == IInv /\ [Next]_vars => IInv'
<1> SUFFICES ASSUME IInv, [Next]_vars PROVE IInv'
  OBVIOUS
<1>1. CASE UNCHANGED vars
  <2>1. PICK w, list, at, l, q, r : Stage(w, list, at, l, q, r)
    BY DEF IInv
  <2>2. UNCHANGED <<sent, cut, data, id, settings, status>>
    BY <1>1 DEF vars
  <2>3. Stage(w, list, at, l, q, r)'
    BY <2>1, <2>2 DEF Stage, Whole, Reader
  <2> QED
    BY <2>3 DEF IInv
<1> QED
  BY <1>1, ReadIdentifierIInv, ReadValueIInv, ReturnIInv DEF Next

LEMMA IInvTypeOK == IInv => TypeOK
<1> SUFFICES ASSUME IInv PROVE TypeOK
  OBVIOUS
<1>1. PICK w, list, at, l, q, r : Stage(w, list, at, l, q, r)
  BY DEF IInv
<1>2. /\ Whole(w, list, at, l) /\ q \in 0 .. l /\ data = SubSeq(w, q + 1, l)
      /\ r \in 0 .. Len(sent) /\ Kept(sent, settings, r) /\ sent \in Seq(Pairs)
      /\ status \in {"decoding", "ok", "failed", "panicked"}
  BY <1>1 DEF Stage, Whole
<1>3. w \in Seq(Byte) /\ l \in 0 .. Len(w)
  BY <1>2, EndsWithin
<1>4. data \in Seq(Byte)
  BY <1>2, <1>3, Remains
<1>5. \A i \in DOMAIN data : data[i] \in Byte
  BY <1>4
<1>6. \A i \in 1 .. r : sent[i] \in Pairs
  BY <1>2
<1>7. DOMAIN settings = {sent[i][1] : i \in 1 .. r}
  BY <1>2 DEF Kept
<1>8. DOMAIN settings \subseteq Identifiers
  BY <1>6, <1>7 DEF Pairs
<1>9. ASSUME NEW k \in DOMAIN settings PROVE settings[k] \in 0 .. U32 - 1
  <2>1. PICK i \in 1 .. r : settings[k] = sent[i][2] % U32
    BY <1>2, <1>7 DEF Kept
  <2> DEFINE x == sent[i][2]
  <2>2. x \in Nat
    <3>1. x \in Amounts
      BY <1>6 DEF Pairs
    <3>2. x \in 0 .. Bound(8) - 1
      BY <3>1, SettingsAssumption
    <3> HIDE DEF x
    <3> QED
      BY <3>2
  <2> HIDE DEF x
  <2>3. x % U32 \in 0 .. U32 - 1
    BY <2>2, U32Is, DivMod
  <2> QED
    BY <2>1, <2>3 DEF x
<1> QED
  BY <1>2, <1>5, <1>8, <1>9 DEF TypeOK

LEMMA IInvDecodesSent == IInv => DecodesSent
<1> SUFFICES ASSUME IInv PROVE DecodesSent
  OBVIOUS
<1>1. PICK w, list, at, l, q, r : Stage(w, list, at, l, q, r)
  BY DEF IInv
<1>2. status \in {"failed", "panicked"} => cut > 0
  BY <1>1 DEF Stage
<1>3. ASSUME status = "ok"
      PROVE  cut = 0 /\ settings = [k \in DOMAIN LastSent |-> LastSent[k] % U32]
  <2> DEFINE N == Len(sent)
             ids == {sent[i][1] : i \in 1 .. N}
             last(k) == CHOOSE i \in DOMAIN sent :
                          sent[i][1] = k /\ \A j \in DOMAIN sent : sent[j][1] = k => j <= i
  <2>1. cut = 0 /\ r = N /\ Kept(sent, settings, N) /\ sent \in Seq(Pairs)
    BY <1>1, <1>3 DEF Stage, Whole
  <2>2. DOMAIN sent = 1 .. N /\ N \in Nat
    BY <2>1
  <2>3. LastSent = [k \in ids |-> sent[last(k)][2]]
    <3>1. {sent[i][1] : i \in DOMAIN sent} = ids
      BY <2>2
    <3> QED
      BY <3>1 DEF LastSent
  <2> HIDE DEF last
  <2>4. ASSUME NEW k \in ids PROVE settings[k] = sent[last(k)][2] % U32
    <3>1. PICK i \in 1 .. N :
            sent[i][1] = k /\ LastOf(sent, i, N) /\ settings[k] = sent[i][2] % U32
      BY <2>1 DEF Kept
    <3>2. i \in DOMAIN sent /\ sent[i][1] = k /\ \A j \in DOMAIN sent : sent[j][1] = k => j <= i
      BY <2>2, <3>1 DEF LastOf
    <3>3. /\ last(k) \in DOMAIN sent /\ sent[last(k)][1] = k
          /\ \A j \in DOMAIN sent : sent[j][1] = k => j <= last(k)
      BY <3>2 DEF last
    <3>4. last(k) = i
      <4>1. last(k) <= i /\ i <= last(k)
        BY <3>2, <3>3
      <4>2. last(k) \in Nat /\ i \in Nat
        BY <2>2, <3>3
      <4> QED
        BY <4>1, <4>2
    <3> QED
      BY <3>1, <3>4
  <2>5. settings = [k \in ids |-> settings[k]]
    BY <2>1 DEF Kept
  <2> DEFINE lasts == LastSent
  <2>6. DOMAIN lasts = ids /\ \A k \in ids : lasts[k] = sent[last(k)][2]
    BY <2>3
  <2> HIDE DEF lasts, ids
  <2>7. settings = [k \in DOMAIN lasts |-> lasts[k] % U32]
    BY <2>4, <2>5, <2>6
  <2> QED
    BY <2>1, <2>7 DEF lasts
<1> QED
  BY <1>2, <1>3 DEF DecodesSent

LEMMA AlwaysIInv == Spec => []IInv
<1> QED
  BY InitIInv, StepIInv, PTL DEF Spec

-----------------------------------------------------------------------------
(***************************************************************************)
(* Theorems                                                                *)
(***************************************************************************)

\* Settings::decode never leaves the payload and keeps u32 values of
\* identifiers that occur.
THEOREM SettingsTypeOK == Spec => []TypeOK
<1> QED
  BY AlwaysIInv, IInvTypeOK, PTL

\* Settings::decode returns exactly the settings that were encoded, the last
\* value of each, when the payload holds whole settings, and returns none when
\* the payload ends within one.
THEOREM SettingsDecodesSent == Spec => []DecodesSent
<1> QED
  BY AlwaysIInv, IInvDecodesSent, PTL
=============================================================================
