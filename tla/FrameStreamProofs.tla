-------------------------- MODULE FrameStreamProofs --------------------------
(***************************************************************************)
(* Frame::accept returns the frames that were written: proofs for any      *)
(* frames, payloads, lengths of integers and pieces, of FrameStream.       *)
(***************************************************************************)
EXTENDS FrameStream, VarIntProofs

Frames == [type : Types, data : Payloads]

-----------------------------------------------------------------------------
(***************************************************************************)
(* The frames that mean something                                          *)
(***************************************************************************)

LEMMA MeantSteps ==
  ASSUME NEW fs \in Seq(Frames)
  PROVE  /\ MeantOf(fs) \in [0 .. Len(fs) -> Seq(Frames)]
         /\ MeantOf(fs)[0] = <<>>
         /\ \A i \in 1 .. Len(fs) :
              MeantOf(fs)[i] = IF IsGrease(fs[i].type) THEN MeantOf(fs)[i - 1]
                               ELSE Append(MeantOf(fs)[i - 1], fs[i])
<1> DEFINE N == Len(fs)
           after(i, y) == IF IsGrease(fs[i].type) THEN y ELSE Append(y, fs[i])
           F(m) == [i \in 0 .. N |->
                      IF i = 0 THEN <<>>
                      ELSE IF IsGrease(fs[i].type) THEN m[i - 1]
                      ELSE Append(m[i - 1], fs[i])]
           G(m) == [i \in 0 .. N |-> IF i = 0 THEN <<>> ELSE after(i, m[i - 1])]
           M == CHOOSE m : m = F(m)
<1>1. N \in Nat /\ \A i \in 1 .. N : fs[i] \in Frames
  OBVIOUS
<1>2. MeantOf(fs) = M
  BY DEF MeantOf
<1>3. \A m : F(m) = G(m)
  OBVIOUS
<1>4. ASSUME NEW i \in 1 .. N, NEW y \in Seq(Frames) PROVE after(i, y) \in Seq(Frames)
  BY <1>1
<1> HIDE DEF N, F, after
<1>5. \E m : m = G(m)
  <2> DEFINE next(i, y) == IF i + 1 <= N THEN after(i + 1, y) ELSE y
             step == [p \in Nat \X Seq(Frames) |-> next(p[1], p[2])]
  <2>1. ASSUME NEW i \in Nat, NEW y \in Seq(Frames) PROVE next(i, y) \in Seq(Frames)
    <3>1. i + 1 <= N => i + 1 \in 1 .. N
      BY <1>1
    <3> QED
      BY <1>4, <3>1
  <2>2. \A i \in Nat, y \in Seq(Frames) : i + 1 <= N => next(i, y) = after(i + 1, y)
    OBVIOUS
  <2> HIDE DEF next
  <2>3. /\ step \in [Nat \X Seq(Frames) -> Seq(Frames)]
        /\ \A i \in Nat, y \in Seq(Frames) : step[<<i, y>>] = next(i, y)
    BY <2>1
  <2> HIDE DEF step
  <2>4. <<>> \in Seq(Frames)
    OBVIOUS
  <2>5. PICK f \in [Nat -> Seq(Frames)] : Iterates(f, <<>>, step)
    BY <2>3, <2>4, Recursion
  <2> DEFINE m == [i \in 0 .. N |-> f[i]]
  <2>6. ASSUME NEW i \in 0 .. N
        PROVE  m[i] = IF i = 0 THEN <<>> ELSE after(i, m[i - 1])
    <3>1. CASE i = 0
      BY <2>5, <3>1 DEF Iterates
    <3>2. CASE i # 0
      <4>1. i - 1 \in Nat /\ i - 1 + 1 = i /\ i - 1 + 1 <= N /\ i - 1 \in 0 .. N
        BY <1>1, <3>2
      <4>2. f[i - 1 + 1] = step[<<i - 1, f[i - 1]>>] /\ f[i - 1] \in Seq(Frames)
        BY <2>5, <4>1 DEF Iterates
      <4>3. step[<<i - 1, f[i - 1]>>] = after(i - 1 + 1, f[i - 1])
        BY <2>2, <2>3, <4>1, <4>2
      <4> QED
        BY <3>2, <4>1, <4>2, <4>3
    <3> QED
      BY <3>1, <3>2
  <2>7. m = G(m)
    BY <2>6
  <2> HIDE DEF m, G
  <2> QED
    BY <2>7
<1>6. M = G(M)
  <2>1. \E m : m = F(m)
    BY <1>3, <1>5
  <2>2. M = F(M)
    BY <2>1
  <2> QED
    BY <1>3, <2>2
<1> HIDE DEF M
<1>7. M[0] = <<>> /\ \A i \in 1 .. N : M[i] = after(i, M[i - 1])
  <2>1. \A i \in 0 .. N : M[i] = IF i = 0 THEN <<>> ELSE after(i, M[i - 1])
    BY <1>6
  <2>2. 0 \in 0 .. N /\ \A i \in 1 .. N : i \in 0 .. N /\ i # 0
    BY <1>1
  <2> HIDE DEF G
  <2> QED
    BY <2>1, <2>2
<1> DEFINE S == {i \in Nat : i <= N => M[i] \in Seq(Frames)}
<1>8. 0 \in S
  <2>1. <<>> \in Seq(Frames)
    OBVIOUS
  <2> HIDE DEF G
  <2> QED
    BY <1>7, <2>1
<1>9. ASSUME NEW i \in Nat, i \in S PROVE i + 1 \in S
  <2>1. SUFFICES ASSUME i + 1 <= N PROVE M[i + 1] \in Seq(Frames)
    OBVIOUS
  <2>2. i <= N /\ i + 1 \in 1 .. N /\ i + 1 - 1 = i
    BY <1>1, <2>1
  <2>3. M[i + 1] = after(i + 1, M[i])
    BY <1>7, <2>2
  <2>4. M[i] \in Seq(Frames)
    BY <1>9, <2>2
  <2> QED
    BY <1>4, <2>2, <2>3, <2>4
<1>10. \A i \in Nat : i \in S
  <2> HIDE DEF S
  <2> QED
    BY <1>8, <1>9, NatSetInduction
<1>11. M \in [0 .. N -> Seq(Frames)]
  <2>1. \A i \in 0 .. N : M[i] \in Seq(Frames)
    BY <1>1, <1>10
  <2>2. M = [i \in 0 .. N |-> M[i]]
    BY <1>6
  <2> QED
    BY <2>1, <2>2
<1> QED
  BY <1>2, <1>7, <1>11 DEF N, after

\* What is meant so far is a prefix of what is meant later.
LEMMA MeantPrefix ==
  ASSUME NEW fs \in Seq(Frames), NEW i \in 0 .. Len(fs)
  PROVE  IsPrefix(MeantOf(fs)[i], MeantOf(fs)[Len(fs)])
<1> DEFINE N == Len(fs)
           M == MeantOf(fs)
           S == {j \in Nat : i + j <= N => IsPrefix(M[i], M[i + j])}
<1>1. /\ N \in Nat /\ M \in [0 .. N -> Seq(Frames)]
      /\ \A k \in 1 .. N : M[k] = IF IsGrease(fs[k].type) THEN M[k - 1] ELSE Append(M[k - 1], fs[k])
      /\ \A k \in 1 .. N : fs[k] \in Frames
  BY MeantSteps
<1>2. i \in Nat /\ i <= N /\ M[i] \in Seq(Frames)
  BY <1>1
<1> HIDE DEF M, N
<1>3. 0 \in S
  BY <1>2 DEF IsPrefix
<1>4. ASSUME NEW j \in Nat, j \in S PROVE j + 1 \in S
  <2>1. SUFFICES ASSUME i + (j + 1) <= N PROVE IsPrefix(M[i], M[i + (j + 1)])
    OBVIOUS
  <2> DEFINE k == i + (j + 1)
             s == M[i]
             t == M[i + j]
  <2>2. k \in 1 .. N /\ k - 1 = i + j /\ i + j <= N /\ i + j \in 0 .. N
    BY <1>1, <1>2, <2>1
  <2>3. IsPrefix(s, t) /\ s \in Seq(Frames) /\ t \in Seq(Frames) /\ fs[k] \in Frames
    BY <1>1, <1>2, <1>4, <2>2
  <2>4. M[k] = IF IsGrease(fs[k].type) THEN t ELSE Append(t, fs[k])
    BY <1>1, <2>2
  <2> HIDE DEF s, t, k
  <2>5. IsPrefix(s, Append(t, fs[k]))
    <3> DEFINE u == Append(t, fs[k])
               n == Len(s)
    <3>1. n \in Nat /\ n <= Len(t) /\ SubSeq(s, 1, n) = SubSeq(t, 1, n) /\ Len(t) \in Nat
      BY <2>3 DEF IsPrefix
    <3>2. Len(u) = Len(t) + 1 /\ \A x \in 1 .. Len(t) : u[x] = t[x]
      BY <2>3
    <3>3. u \in Seq(Frames)
      BY <2>3
    <3> HIDE DEF u, n
    <3>4. SubSeq(t, 1, n) = SubSeq(u, 1, n)
      BY <2>3, <3>1, <3>2, <3>3
    <3>5. n <= Len(u) /\ SubSeq(s, 1, n) = SubSeq(u, 1, n)
      BY <3>1, <3>2, <3>4
    <3> QED
      BY <3>5 DEF IsPrefix, u, n
  <2> QED
    BY <2>3, <2>4, <2>5 DEF s, k
<1>5. \A j \in Nat : j \in S
  <2> HIDE DEF S
  <2> QED
    BY <1>3, <1>4, NatSetInduction
<1>6. N - i \in Nat /\ i + (N - i) = N /\ N <= N
  BY <1>1, <1>2
<1>7. N - i \in S
  BY <1>5, <1>6
<1> QED
  BY <1>6, <1>7 DEF M, N

\* Another frame changes nothing of what was meant before.
LEMMA MeantAppend ==
  ASSUME NEW fs \in Seq(Frames), NEW f \in Frames
  PROVE  \A i \in 0 .. Len(fs) : MeantOf(Append(fs, f))[i] = MeantOf(fs)[i]
<1> DEFINE N == Len(fs)
           gs == Append(fs, f)
           M == MeantOf(fs)
           L == MeantOf(gs)
           S == {i \in Nat : i <= N => L[i] = M[i]}
<1>1. gs \in Seq(Frames) /\ Len(gs) = N + 1 /\ N \in Nat /\ \A k \in 1 .. N : gs[k] = fs[k]
  OBVIOUS
<1>2. /\ M[0] = <<>>
      /\ \A k \in 1 .. N : M[k] = IF IsGrease(fs[k].type) THEN M[k - 1] ELSE Append(M[k - 1], fs[k])
  BY MeantSteps
<1>3. /\ L[0] = <<>>
      /\ \A k \in 1 .. N + 1 : L[k] = IF IsGrease(gs[k].type) THEN L[k - 1] ELSE Append(L[k - 1], gs[k])
  <2> HIDE DEF gs
  <2> QED
    BY <1>1, MeantSteps
<1> HIDE DEF M, L, N, gs
<1>4. 0 \in S
  BY <1>2, <1>3
<1>5. ASSUME NEW i \in Nat, i \in S PROVE i + 1 \in S
  <2>1. SUFFICES ASSUME i + 1 <= N PROVE L[i + 1] = M[i + 1]
    OBVIOUS
  <2>2. i + 1 \in 1 .. N /\ i + 1 \in 1 .. N + 1 /\ i + 1 - 1 = i /\ i <= N
    BY <1>1, <2>1
  <2> QED
    BY <1>1, <1>2, <1>3, <1>5, <2>2
<1>6. \A i \in Nat : i \in S
  <2> HIDE DEF S
  <2> QED
    BY <1>4, <1>5, NatSetInduction
<1> QED
  BY <1>1, <1>6 DEF M, L, N, gs
-----------------------------------------------------------------------------
(***************************************************************************)
(* Frames on the wire                                                      *)
(***************************************************************************)

\* After the first p bytes of w stands f, with nt and nl bytes for its integers.
FrameStands(w, p, f, nt, nl, next) ==
  /\ Stands(w, p, f.type, nt)
  /\ Stands(w, p + nt, Len(f.data), nl)
  /\ next = p + nt + nl + Len(f.data) /\ next <= Len(w)
  /\ \A j \in 1 .. Len(f.data) : w[p + nt + nl + j] = f.data[j]

\* w consists of the frames fs, and at[i] is where the first i of them end.
Wire(w, fs, at) ==
  /\ w \in Seq(Byte) /\ fs \in Seq(Frames)
  /\ \E parts \in Seq(Seq(Byte)) :
       /\ Len(parts) = Len(fs)
       /\ \A i \in 1 .. Len(fs) : \E n \in Least : parts[i] = EncodeFrame(fs[i], n)
       /\ Laid(w, parts, at)

\* Whatever least length a writer has, the integer fits in the form it takes.
LEMMA FormFits ==
  ASSUME NEW x \in 0 .. Bound(8) - 1, NEW n \in Lengths
  PROVE  x \in Nat /\ Form(x, n) \in Lengths /\ x < Bound(Form(x, n))
<1>1. Fitting(x) \in Lengths /\ x < Bound(Fitting(x))
  BY FittingFits
<1>2. x \in Nat /\ Bound(8) \in Nat /\ Lengths \subseteq Nat
  BY Bounds DEF Lengths
<1>3. CASE n < Fitting(x)
  BY <1>1, <1>2, <1>3 DEF Form
<1>4. CASE ~(n < Fitting(x))
  <2>1. Fitting(x) <= n
    <3>1. Fitting(x) \in Nat /\ n \in Nat
      BY <1>1, <1>2
    <3> QED
      BY ONLY <1>4, <3>1
  <2>2. Bound(Fitting(x)) <= Bound(n) /\ Bound(Fitting(x)) \in Nat /\ Bound(n) \in Nat
    BY <1>1, <2>1, Bounds
  <2>3. x < Bound(n)
    BY <1>1, <1>2, <2>2
  <2> QED
    BY <1>2, <1>4, <2>3 DEF Form
<1> QED
  BY <1>3, <1>4

\* The parts of an encoded frame.
LEMMA FrameParts ==
  ASSUME NEW f \in Frames, NEW n \in Least
  PROVE  /\ EncodeFrame(f, n) \in Seq(Byte)
         /\ \E nt, nl : FrameStands(EncodeFrame(f, n), 0, f, nt, nl, Len(EncodeFrame(f, n)))
<1> DEFINE t == f.type
           d == f.data
           l == Len(d)
           nt == Form(t, n)
           nl == Form(l, n)
           a == EncodeIn(t, nt)
           b == EncodeIn(l, nl)
           e == a \o b \o d
<1>1. n \in Lengths /\ t \in 0 .. Bound(8) - 1 /\ d \in Seq(Byte) /\ l \in 0 .. Bound(8) - 1
  <2>1. d \in Payloads /\ t \in Types /\ l < Bound(8)
    BY StreamAssumption DEF Frames
  <2>2. d \in Seq(Byte) /\ n \in Lengths /\ t \in 0 .. Bound(8) - 1
    BY <2>1, StreamAssumption
  <2>3. Bound(8) \in Nat
    BY Bounds DEF Lengths
  <2>4. l \in Nat
    BY <2>2
  <2> QED
    BY ONLY <2>1, <2>2, <2>3, <2>4
<1>2. EncodeFrame(f, n) = e
  BY DEF EncodeFrame
<1> HIDE DEF l
<1>3. /\ t \in Nat /\ nt \in Lengths /\ t < Bound(nt)
      /\ l \in Nat /\ nl \in Lengths /\ l < Bound(nl)
  BY <1>1, FormFits
<1> HIDE DEF nt, nl
<1>4. a \in Seq(Byte) /\ Len(a) = nt /\ b \in Seq(Byte) /\ Len(b) = nl
  BY <1>3, EncodedBytes
<1>5. nt \in Nat /\ nl \in Nat
  BY <1>3 DEF Lengths
<1> HIDE DEF a, b, t, d
<1>6. /\ e \in Seq(Byte) /\ Len(e) = nt + nl + l
      /\ \A j \in 1 .. nt : e[0 + j] = a[j]
      /\ \A j \in 1 .. nl : e[0 + nt + j] = b[j]
      /\ \A j \in 1 .. l : e[0 + nt + nl + j] = d[j]
  <2> DEFINE ab == a \o b
  <2> HIDE DEF Byte, e
  <2>1. d \in Seq(Byte) /\ Len(d) = l /\ l \in Nat
    BY <1>1, <1>3 DEF l
  <2>2. /\ ab \in Seq(Byte) /\ Len(ab) = nt + nl
        /\ \A j \in 1 .. nt : ab[j] = a[j]
        /\ \A j \in 1 .. nl : ab[nt + j] = b[j]
    BY ONLY <1>4, <1>5
  <2>3. e = ab \o d
    BY DEF e
  <2> HIDE DEF ab
  <2>4. /\ e \in Seq(Byte) /\ Len(e) = nt + nl + l
        /\ \A j \in 1 .. nt + nl : e[j] = ab[j]
        /\ \A j \in 1 .. l : e[nt + nl + j] = d[j]
    <3>1. Len(ab) \in Nat /\ Len(d) \in Nat /\ ab \in Seq(Byte) /\ d \in Seq(Byte)
      BY <2>1, <2>2
    <3>2. /\ ab \o d \in Seq(Byte) /\ Len(ab \o d) = Len(ab) + Len(d)
          /\ \A j \in 1 .. Len(ab) : (ab \o d)[j] = ab[j]
          /\ \A j \in 1 .. Len(d) : (ab \o d)[Len(ab) + j] = d[j]
      BY ONLY <3>1
    <3> QED
      BY ONLY <2>1, <2>2, <2>3, <3>2
  <2>5. /\ \A j \in 1 .. nt : 0 + j = j /\ j \in 1 .. nt + nl
        /\ \A j \in 1 .. nl : 0 + nt + j = nt + j /\ nt + j \in 1 .. nt + nl
        /\ \A j \in 1 .. l : 0 + nt + nl + j = nt + nl + j
    BY ONLY <1>5
  <2> QED
    BY ONLY <2>2, <2>4, <2>5
<1> HIDE DEF e
<1>7. Stands(e, 0, t, nt)
  BY <1>3, <1>5, <1>6 DEF Stands, a
<1>8. Stands(e, 0 + nt, l, nl)
  BY <1>3, <1>5, <1>6 DEF Stands, b
<1>9. FrameStands(e, 0, f, nt, nl, Len(e))
  BY <1>3, <1>5, <1>6, <1>7, <1>8 DEF FrameStands, t, d, l
<1> QED
  BY <1>2, <1>6, <1>9

\* Each frame stands between the end of the one before it and its own.
LEMMA WireStands ==
  ASSUME NEW w, NEW fs, NEW at, Wire(w, fs, at), NEW i \in 1 .. Len(fs)
  PROVE  \E nt, nl : FrameStands(w, at[i - 1], fs[i], nt, nl, at[i])
<1>1. PICK parts \in Seq(Seq(Byte)) :
        /\ Len(parts) = Len(fs)
        /\ \A k \in 1 .. Len(fs) : \E n \in Least : parts[k] = EncodeFrame(fs[k], n)
        /\ Laid(w, parts, at)
  BY DEF Wire
<1>2. PICK n \in Least : parts[i] = EncodeFrame(fs[i], n)
  BY <1>1
<1> DEFINE e == EncodeFrame(fs[i], n)
           p == at[i - 1]
           f == fs[i]
           l == Len(f.data)
<1>3. w \in Seq(Byte) /\ fs \in Seq(Frames) /\ Len(fs) \in Nat /\ f \in Frames
  BY DEF Wire
<1>4. e \in Seq(Byte) /\ \E nt, nl : FrameStands(e, 0, f, nt, nl, Len(e))
  BY <1>3, FrameParts
<1>5. PICK nt, nl : FrameStands(e, 0, f, nt, nl, Len(e))
  BY <1>4
<1>6. /\ p \in Nat /\ at[i] = p + Len(e) /\ at[i] <= Len(w)
      /\ \A j \in 1 .. Len(e) : w[p + j] = e[j]
  <2>1. i - 1 \in 0 .. Len(parts) /\ i \in 1 .. Len(parts)
    BY <1>1, <1>3
  <2>2. /\ at \in [0 .. Len(parts) -> Nat]
        /\ at[i] = at[i - 1] + Len(parts[i]) /\ at[i] <= Len(w)
        /\ \A j \in 1 .. Len(parts[i]) : w[at[i - 1] + j] = parts[i][j]
    BY <1>1, <2>1 DEF Laid
  <2>3. at[i - 1] \in Nat
    BY <2>1, <2>2
  <2> HIDE DEF e
  <2> QED
    BY <1>2, <2>2, <2>3 DEF e
<1> HIDE DEF p, e, f
<1>7. /\ Stands(e, 0, f.type, nt) /\ Stands(e, 0 + nt, l, nl)
      /\ Len(e) = 0 + nt + nl + l /\ \A j \in 1 .. l : e[0 + nt + nl + j] = f.data[j]
  BY <1>5 DEF FrameStands
<1>8. nt \in Nat /\ nl \in Nat /\ l \in Nat
  BY <1>7 DEF Stands, Lengths
<1> HIDE DEF l
<1>9. 0 \in Nat /\ 0 + nt \in Nat /\ p + Len(e) <= Len(w)
  BY <1>6, <1>8
<1>10. Stands(w, p + 0, f.type, nt) /\ Stands(w, p + (0 + nt), l, nl)
  BY <1>3, <1>4, <1>6, <1>7, <1>9, StandsWithin
<1>11. p + 0 = p /\ p + (0 + nt) = p + nt /\ p + Len(e) = p + nt + nl + l
  BY <1>6, <1>7, <1>8
<1>12. ASSUME NEW j \in 1 .. l PROVE w[p + nt + nl + j] = f.data[j]
  <2>1. 0 + nt + nl + j \in 1 .. Len(e) /\ p + (0 + nt + nl + j) = p + nt + nl + j
    BY <1>6, <1>7, <1>8
  <2>2. w[p + (0 + nt + nl + j)] = e[0 + nt + nl + j]
    BY <1>6, <2>1
  <2> QED
    BY <1>7, <2>1, <2>2
<1>13. FrameStands(w, p, f, nt, nl, at[i])
  BY <1>6, <1>10, <1>11, <1>12 DEF FrameStands, l
<1> QED
  BY <1>13 DEF p, f

\* The same for the frame after the first i.
LEMMA WireNext ==
  ASSUME NEW w, NEW fs, NEW at, Wire(w, fs, at), NEW i \in Nat, i < Len(fs)
  PROVE  \E nt, nl : FrameStands(w, at[i], fs[i + 1], nt, nl, at[i + 1])
<1>1. Len(fs) \in Nat
  BY DEF Wire
<1>2. i + 1 \in 1 .. Len(fs)
  BY <1>1
<1>3. PICK j \in 1 .. Len(fs) : j = i + 1
  BY <1>2
<1>4. j - 1 = i
  BY <1>3
<1>5. \E nt, nl : FrameStands(w, at[j - 1], fs[j], nt, nl, at[j])
  BY WireStands
<1> QED
  BY <1>3, <1>4, <1>5, Zenon

\* The frames end one after the other, the last one with the wire.
LEMMA WireAt ==
  ASSUME NEW w, NEW fs, NEW at, Wire(w, fs, at)
  PROVE  /\ at \in [0 .. Len(fs) -> Nat] /\ at[0] = 0 /\ at[Len(fs)] = Len(w)
         /\ \A i \in 0 .. Len(fs) : \A j \in 0 .. Len(fs) : i <= j => at[i] <= at[j]
<1> DEFINE N == Len(fs)
<1>1. N \in Nat /\ Len(w) \in Nat
  BY DEF Wire
<1>2. at \in [0 .. N -> Nat] /\ at[0] = 0 /\ at[N] = Len(w)
  BY DEF Wire, Laid
<1>3. ASSUME NEW k \in 1 .. N PROVE at[k - 1] <= at[k]
  <2>1. PICK parts \in Seq(Seq(Byte)) : Len(parts) = N /\ Laid(w, parts, at)
    BY DEF Wire
  <2>2. parts[k] \in Seq(Byte)
    BY <2>1
  <2>3. Len(parts[k]) \in Nat
    BY <2>2
  <2>4. at[k] = at[k - 1] + Len(parts[k])
    BY <2>1 DEF Laid
  <2>5. at[k - 1] \in Nat
    <3>1. k - 1 \in 0 .. N
      BY <1>1
    <3> HIDE DEF N
    <3> QED
      BY <1>2, <3>1
  <2> QED
    BY ONLY <2>3, <2>4, <2>5
<1> HIDE DEF N
<1>4. ASSUME NEW i \in 0 .. N, NEW j \in 0 .. N, i <= j PROVE at[i] <= at[j]
  <2> DEFINE S == {k \in Nat : i + k <= N => at[i] <= at[i + k]}
  <2>1. 0 \in S
    BY <1>1, <1>2
  <2>2. ASSUME NEW k \in Nat, k \in S PROVE k + 1 \in S
    <3>1. SUFFICES ASSUME i + (k + 1) <= N PROVE at[i] <= at[i + (k + 1)]
      OBVIOUS
    <3>2. /\ i + k <= N /\ i + k \in 0 .. N /\ i + (k + 1) \in 1 .. N
          /\ i + (k + 1) - 1 = i + k /\ i + (k + 1) \in 0 .. N
      BY <1>1, <3>1
    <3>3. at[i + k] <= at[i + (k + 1)] /\ at[i] <= at[i + k]
      BY <1>3, <2>2, <3>2
    <3>4. at[i] \in Nat /\ at[i + k] \in Nat /\ at[i + (k + 1)] \in Nat
      BY <1>2, <3>2
    <3> QED
      BY ONLY <3>3, <3>4
  <2>3. \A k \in Nat : k \in S
    <3> HIDE DEF S
    <3> QED
      BY <2>1, <2>2, NatSetInduction
  <2>4. j - i \in Nat /\ i + (j - i) = j /\ j <= N
    BY <1>1, <1>4
  <2>5. j - i \in S
    BY <2>3, <2>4
  <2> QED
    BY <2>4, <2>5
<1> QED
  BY <1>2, <1>4 DEF N

\* One more frame on the wire.
LEMMA WireAppend ==
  ASSUME NEW w, NEW fs, NEW at, Wire(w, fs, at), NEW f \in Frames, NEW n \in Least
  PROVE  \E to : /\ Wire(w \o EncodeFrame(f, n), Append(fs, f), to)
                 /\ \A i \in 0 .. Len(fs) : to[i] = at[i]
<1> DEFINE e == EncodeFrame(f, n)
           gs == Append(fs, f)
<1>1. PICK parts \in Seq(Seq(Byte)) :
        /\ Len(parts) = Len(fs)
        /\ \A k \in 1 .. Len(fs) : \E m \in Least : parts[k] = EncodeFrame(fs[k], m)
        /\ Laid(w, parts, at)
  BY DEF Wire
<1>2. w \in Seq(Byte) /\ fs \in Seq(Frames) /\ Len(fs) \in Nat /\ e \in Seq(Byte)
  BY FrameParts DEF Wire
<1> DEFINE new == Append(parts, e)
<1>3. PICK to : Laid(w \o e, new, to) /\ \A i \in 0 .. Len(fs) : to[i] = at[i]
  <2> HIDE DEF e
  <2> QED
    BY <1>1, <1>2, LaidAppend
<1>4. /\ new \in Seq(Seq(Byte)) /\ Len(new) = Len(fs) + 1 /\ new[Len(fs) + 1] = e
      /\ \A k \in 1 .. Len(fs) : new[k] = parts[k]
  <2> HIDE DEF e, Byte
  <2> QED
    BY <1>1, <1>2
<1>5. /\ gs \in Seq(Frames) /\ Len(gs) = Len(fs) + 1 /\ gs[Len(fs) + 1] = f
      /\ \A k \in 1 .. Len(fs) : gs[k] = fs[k]
  BY <1>2
<1>6. w \o e \in Seq(Byte)
  BY <1>2
<1> HIDE DEF new, gs
<1>7. ASSUME NEW k \in 1 .. Len(gs)
      PROVE  \E m \in Least : new[k] = EncodeFrame(gs[k], m)
  <2>1. CASE k \in 1 .. Len(fs)
    BY <1>1, <1>4, <1>5, <2>1
  <2>2. CASE k = Len(fs) + 1
    BY <1>4, <1>5, <2>2
  <2> QED
    BY <1>2, <1>5, <2>1, <2>2
<1>8. Wire(w \o e, gs, to)
  <2> HIDE DEF e
  <2> QED
    BY <1>3, <1>4, <1>5, <1>6, <1>7 DEF Wire
<1> QED
  BY <1>3, <1>8 DEF gs, e
-----------------------------------------------------------------------------
(***************************************************************************)
(* The inductive invariant                                                 *)
(***************************************************************************)

\* At most the first byte of a longer integer has been read.
Begun(w, p, n, b) ==
  \/ b = <<>>
  \/ n > 1 /\ b = <<w[p + 1]>>

\* w is all that the writer means to write, the frame it stopped in with it;
\* the first l bytes of it are or were on the wire.
Sent(w, fs, at, l) ==
  /\ Wire(w, fs, at) /\ l \in 0 .. Len(w)
  /\ written \in Seq(Frames)
  /\ end # "fin" => fs = written /\ l = Len(w)
  /\ end = "fin" =>
       \E f \in Frames : fs = Append(written, f) /\ at[Len(written)] <= l /\ l < Len(w)

\* The reader has taken q of these bytes.
Unread(w, q, l) ==
  /\ q \in 0 .. l
  /\ pipe = IF end = "reset" THEN <<>> ELSE SubSeq(w, q + 1, l)
  /\ arrived \in 0 .. Len(pipe)

\* It has read r frames and what field tells of the next.
Reader(w, fs, at, q, r) ==
  \/ r = Len(fs) /\ field = "type" /\ buf = <<>> /\ q = at[r]
  \/ /\ r < Len(fs)
     /\ \E nt, nl :
          /\ FrameStands(w, at[r], fs[r + 1], nt, nl, at[r + 1])
          /\ \/ /\ field = "type" /\ Begun(w, at[r], nt, buf)
                /\ q = at[r] + Len(buf)
             \/ /\ field = "length" /\ Begun(w, at[r] + nt, nl, buf)
                /\ ftype = fs[r + 1].type
                /\ q = at[r] + nt + Len(buf)
             \/ /\ field = "payload" /\ buf = <<>>
                /\ ftype = fs[r + 1].type /\ len = Len(fs[r + 1].data)
                /\ q = at[r] + nt + nl

Stage(w, fs, at, l, q, r) ==
  /\ Sent(w, fs, at, l) /\ Unread(w, q, l)
  /\ r \in 0 .. Len(fs) /\ Reader(w, fs, at, q, r)
  /\ out = MeantOf(fs)[r]
  /\ status = "ended" => end # "open" /\ (end = "fin" => r = Len(written))
  /\ end \in {"open", "fin", "reset"} /\ status \in {"reading", "ended"}
  /\ ftype \in Nat /\ len \in Nat

IInv == \E w, fs, at, l, q, r : Stage(w, fs, at, l, q, r)

-----------------------------------------------------------------------------

LEMMA InitIInv == Init => IInv
<1> SUFFICES ASSUME Init PROVE Stage(<<>>, <<>>, [i \in 0 .. 0 |-> 0], 0, 0, 0)
  BY DEF IInv
<1> DEFINE at == [i \in 0 .. 0 |-> 0]
<1>1. Laid(<<>>, <<>>, at)
  BY DEF Laid
<1>2. Wire(<<>>, <<>>, at)
  BY <1>1 DEF Wire
<1>3. MeantOf(<<>>)[0] = <<>>
  <2>1. <<>> \in Seq(Frames)
    OBVIOUS
  <2> QED
    BY <2>1, MeantSteps
<1>4. at[0] = 0 /\ <<>> \in Seq(Frames) /\ Len(<<>>) = 0
  OBVIOUS
<1> HIDE DEF at
<1>5. Sent(<<>>, <<>>, at, 0)
  BY <1>2, <1>4 DEF Init, Sent
<1>6. Unread(<<>>, 0, 0)
  BY DEF Init, Unread
<1>7. Reader(<<>>, <<>>, at, 0, 0)
  BY <1>4 DEF Init, Reader
<1>8. Stage(<<>>, <<>>, at, 0, 0, 0)
  BY <1>3, <1>4, <1>5, <1>6, <1>7 DEF Init, Stage
<1> QED
  BY <1>8 DEF at

\* The bytes a read takes are the next ones that were written.
LEMMA TakesNext ==
  ASSUME NEW w \in Seq(Byte), NEW l \in 0 .. Len(w), NEW q, Unread(w, q, l),
         TakeBytes, NEW m \in Nat, m = Missing
  PROVE  /\ q + m \in 0 .. l
         /\ Taken = SubSeq(w, q + 1, q + m)
         /\ Unread(w, q + m, l)'
<1>1. /\ m \in Nat /\ arrived >= m /\ pipe' = SubSeq(pipe, m + 1, Len(pipe))
      /\ arrived' = arrived - m /\ end' = end
  BY DEF TakeBytes
<1>2. q \in 0 .. l /\ arrived \in 0 .. Len(pipe) /\ Len(w) \in Nat
  BY DEF Unread
<1>3. Taken = SubSeq(pipe, 1, m)
  BY DEF Taken
<1>4. CASE end = "reset"
  <2>1. pipe = <<>> /\ arrived = 0 /\ m = 0
    BY <1>1, <1>2, <1>4 DEF Unread
  <2>2. pipe' = <<>> /\ Taken = <<>> /\ arrived' = 0
    BY <1>1, <1>3, <2>1
  <2>3. q + m = q /\ SubSeq(w, q + 1, q + m) = <<>> /\ q + m \in 0 .. l
    BY <1>2, <2>1
  <2> QED
    BY <1>1, <1>4, <2>2, <2>3 DEF Unread
<1>5. CASE end # "reset"
  <2>1. pipe = SubSeq(w, q + 1, l)
    BY <1>5 DEF Unread
  <2>2. Len(pipe) = l - q
    BY <1>2, <2>1, Remains
  <2>3. m \in 0 .. l - q /\ q + m \in 0 .. l /\ l - (q + m) = (l - q) - m
    BY <1>1, <1>2, <2>2
  <2>4. /\ Taken = SubSeq(w, q + 1, q + m)
        /\ pipe' = SubSeq(w, q + m + 1, l)
    BY <1>1, <1>2, <1>3, <2>1, <2>3, Remains
  <2>5. Len(pipe') = l - (q + m)
    BY <2>3, <2>4, Remains
  <2>6. arrived' \in 0 .. Len(pipe')
    BY <1>1, <1>2, <2>2, <2>3, <2>5
  <2> QED
    BY <1>1, <1>5, <2>3, <2>4, <2>6 DEF Unread
<1> QED
  BY <1>4, <1>5

\* How many bytes a read within an integer waits for.
Wanted(b) == IF b = <<>> THEN 1 ELSE Announced(b[1]) - Len(b)

\* From q in an integer x, of which b was read before, a read of the m bytes t
\* leads to its first byte or to its end.
Advances(p, w, x, n, b, m, q, t) ==
  /\ m \in Nat /\ q + m = p + Len(b \o t)
  /\ Incomplete(b \o t) => Begun(w, p, n, b \o t)
  /\ ~Incomplete(b \o t) => Value(b \o t) = x /\ q + m = p + n

\* A read within an integer takes its first byte, or completes it.
LEMMA IntegerRead ==
  ASSUME NEW w \in Seq(Byte), NEW p, NEW x, NEW n, Stands(w, p, x, n),
         NEW b, Begun(w, p, n, b), NEW m, m = Wanted(b),
         NEW q, q = p + Len(b), NEW t, t = SubSeq(w, q + 1, q + m)
  PROVE  Advances(p, w, x, n, b, m, q, t)
<1>1. /\ p \in Nat /\ n \in Nat /\ n > 0 /\ p + n <= Len(w) /\ Len(w) \in Nat
      /\ Announced(w[p + 1]) = n /\ Value(SubSeq(w, p + 1, p + n)) = x
  <2>1. Announced(w[p + 1]) = n /\ Value(SubSeq(w, p + 1, p + n)) = x
    BY StandsReads
  <2>2. p \in Nat /\ n \in Nat /\ n > 0 /\ p + n <= Len(w)
    BY DEF Stands, Lengths
  <2> QED
    BY <2>1, <2>2
<1>2. CASE b = <<>>
  <2>1. m = 1 /\ Len(b) = 0 /\ q = p
    BY <1>1, <1>2 DEF Wanted
  <2>2. t = SubSeq(w, p + 1, p + 1)
    BY <2>1
  <2> DEFINE c == w[p + 1]
  <2>3. b \o t = <<c>> /\ b \o t = t /\ Len(b \o t) = 1 /\ (b \o t)[1] = c
    <3>1. p + 1 \in 1 .. Len(w)
      BY <1>1
    <3>2. t = <<c>> /\ c \in Byte
      <4> HIDE DEF Byte
      <4>1. SubSeq(w, p + 1, p + 1) = <<w[p + 1]>>
        BY <3>1, OneByte
      <4>2. w[p + 1] \in Byte
        BY <3>1
      <4> QED
        BY ONLY <2>2, <4>1, <4>2
    <3> HIDE DEF c, Byte
    <3>3. <<>> \o <<c>> = <<c>> /\ Len(<<c>>) = 1 /\ <<c>>[1] = c
      BY ONLY <3>2
    <3> QED
      BY ONLY <1>2, <3>2, <3>3
  <2>4. Incomplete(b \o t) <=> 1 < n
    BY ONLY <1>1, <2>3 DEF Incomplete
  <2>5. ASSUME ~Incomplete(b \o t) PROVE Value(b \o t) = x /\ n = 1
    <3>1. n = 1
      BY ONLY <1>1, <2>4, <2>5
    <3>2. b \o t = SubSeq(w, p + 1, p + n)
      BY ONLY <2>2, <2>3, <3>1
    <3> QED
      BY ONLY <1>1, <3>1, <3>2
  <2>6. m \in Nat /\ q + m = p + Len(b \o t) /\ (n = 1 => q + m = p + n)
    BY ONLY <1>1, <2>1, <2>3
  <2>7. Incomplete(b \o t) => Begun(w, p, n, b \o t)
    BY ONLY <1>1, <2>3, <2>4 DEF Begun
  <2> QED
    BY ONLY <2>5, <2>6, <2>7 DEF Advances
<1>3. CASE n > 1 /\ b = <<w[p + 1]>>
  <2>1. Len(b) = 1 /\ b[1] = w[p + 1] /\ b # <<>>
    BY <1>3
  <2>2. m = n - 1 /\ m \in Nat /\ q = p + 1 /\ q + m = p + n
    BY <1>1, <1>3, <2>1 DEF Wanted
  <2>3. t = SubSeq(w, p + 1 + 1, p + n)
    BY ONLY <2>2, t = SubSeq(w, q + 1, q + m)
  <2> DEFINE v == SubSeq(w, p + 1, p + n)
  <2>4. b \o t = v /\ Len(v) = n /\ v[1] = w[p + 1]
    BY ONLY <1>1, <1>3, <2>3, w \in Seq(Byte), FirstAndRest
  <2> HIDE DEF v
  <2>5. ~Incomplete(b \o t)
    <3>1. Len(b \o t) = n /\ (b \o t)[1] = w[p + 1]
      BY ONLY <2>4
    <3> QED
      BY ONLY <1>1, <3>1 DEF Incomplete
  <2>6. Value(b \o t) = x
    BY ONLY <1>1, <2>4 DEF v
  <2>7. q + m = p + Len(b \o t)
    BY ONLY <2>2, <2>4
  <2> QED
    BY ONLY <2>2, <2>5, <2>6, <2>7 DEF Advances
<1> QED
  BY <1>2, <1>3 DEF Begun
-----------------------------------------------------------------------------
(***************************************************************************)
(* The writer's steps                                                      *)
(***************************************************************************)

\* What was on the wire stays as it is when a frame is added to it.
LEMMA FrameStays ==
  ASSUME NEW w \in Seq(Byte), NEW e \in Seq(Byte), NEW p, NEW f \in Frames,
         NEW nt, NEW nl, NEW next, FrameStands(w, p, f, nt, nl, next)
  PROVE  /\ FrameStands(w \o e, p, f, nt, nl, next)
         /\ \A b : Begun(w, p, nt, b) => Begun(w \o e, p, nt, b)
         /\ \A b : Begun(w, p + nt, nl, b) => Begun(w \o e, p + nt, nl, b)
<1> DEFINE v == w \o e
           l == Len(f.data)
<1>1. /\ Len(v) = Len(w) + Len(e) /\ Len(w) \in Nat /\ Len(e) \in Nat
      /\ \A j \in 1 .. Len(w) : v[j] = w[j]
  OBVIOUS
<1>2. /\ Stands(w, p, f.type, nt) /\ Stands(w, p + nt, l, nl)
      /\ next = p + nt + nl + l /\ next <= Len(w)
      /\ \A j \in 1 .. l : w[p + nt + nl + j] = f.data[j]
  BY DEF FrameStands
<1>3. /\ p \in Nat /\ nt \in Nat /\ nt > 0 /\ nl \in Nat /\ nl > 0 /\ l \in Nat
      /\ p + nt <= Len(w) /\ p + nt + nl <= Len(w)
  BY <1>2 DEF Stands, Lengths
<1>4. Stands(v, p, f.type, nt) /\ Stands(v, p + nt, l, nl)
  BY <1>2, StandsStays
<1> HIDE DEF v, l
<1>5. ASSUME NEW j \in 1 .. l PROVE v[p + nt + nl + j] = f.data[j]
  <2>1. p + nt + nl + j \in 1 .. Len(w)
    BY <1>1, <1>2, <1>3
  <2> QED
    BY <1>1, <1>2, <2>1
<1>6. next <= Len(v)
  <2>1. next \in Nat
    BY <1>2, <1>3
  <2> QED
    BY <1>1, <1>2, <2>1
<1>7. p + 1 \in 1 .. Len(w) /\ p + nt + 1 \in 1 .. Len(w)
  BY <1>1, <1>3
<1>8. v[p + 1] = w[p + 1] /\ v[p + nt + 1] = w[p + nt + 1]
  BY <1>1, <1>7
<1>9. FrameStands(v, p, f, nt, nl, next)
  BY <1>2, <1>4, <1>5, <1>6 DEF FrameStands, l
<1> QED
  BY <1>8, <1>9 DEF Begun, v

\* The wire v with one more frame, e, of which k bytes are written.
Continues(v, to, gs, e, k, l, q, r) ==
  /\ Wire(v, gs, to) /\ Len(v) = l + Len(e) /\ to[Len(written)] = l
  /\ Reader(v, gs, to, q, r)
  /\ pipe \o SubSeq(e, 1, k) = SubSeq(v, q + 1, l + k)
  /\ q \in 0 .. l + k /\ l + k \in 0 .. Len(v)
  /\ arrived \in 0 .. Len(SubSeq(v, q + 1, l + k))
  /\ r \in 0 .. Len(written) /\ out = MeantOf(gs)[r]

\* f is written, with n bytes at least for its integers, or k bytes of it.
LEMMA FrameWritten ==
  ASSUME NEW w, NEW fs, NEW at, NEW l, NEW q, NEW r, Stage(w, fs, at, l, q, r),
         end = "open", NEW f \in Frames, NEW n \in Least,
         NEW e, e = EncodeFrame(f, n), NEW gs, gs = Append(written, f),
         NEW k \in 0 .. Len(e)
  PROVE  \E v, to : Continues(v, to, gs, e, k, l, q, r)
<1> DEFINE v == w \o e
<1>1. /\ Wire(w, fs, at) /\ fs = written /\ l = Len(w) /\ w \in Seq(Byte) /\ fs \in Seq(Frames)
      /\ q \in 0 .. l /\ pipe = SubSeq(w, q + 1, l) /\ arrived \in 0 .. Len(pipe)
      /\ r \in 0 .. Len(fs) /\ Reader(w, fs, at, q, r) /\ out = MeantOf(fs)[r]
  BY DEF Stage, Sent, Unread, Wire
<1>2. e \in Seq(Byte)
  BY FrameParts
<1>3. PICK to : Wire(v, gs, to) /\ \A i \in 0 .. Len(fs) : to[i] = at[i]
  BY <1>1, WireAppend
<1>4. /\ Len(v) = Len(w) + Len(e) /\ Len(w) \in Nat /\ Len(e) \in Nat /\ k \in 0 .. Len(e)
  BY <1>1, <1>2
<1>5. pipe \o SubSeq(e, 1, k) = SubSeq(v, q + 1, l + k)
  BY <1>1, <1>2, <1>4, Prolonged
<1>6. q \in 0 .. l + k /\ l + k \in 0 .. Len(v)
  BY <1>1, <1>4
<1>7. arrived \in 0 .. Len(SubSeq(v, q + 1, l + k))
  <2> DEFINE m == l + k
  <2>1. m \in 0 .. Len(v) /\ q \in 0 .. m /\ m - q >= l - q /\ m - q \in Nat /\ l - q \in Nat
    BY <1>1, <1>4
  <2>2. v \in Seq(Byte)
    BY <1>3 DEF Wire
  <2>3. Len(pipe) = l - q
    <3>1. l \in 0 .. Len(w)
      BY <1>1, <1>4
    <3> QED
      BY <1>1, <3>1, Remains
  <2> HIDE DEF m, v
  <2>4. Len(SubSeq(v, q + 1, m)) = m - q
    BY <2>1, <2>2, Remains
  <2>5. arrived \in 0 .. Len(SubSeq(v, q + 1, m))
    BY <1>1, <2>1, <2>3, <2>4
  <2> QED
    BY <2>5 DEF m
<1>8. out = MeantOf(gs)[r]
  BY <1>1, MeantAppend
<1>9. /\ Len(fs) \in Nat /\ Len(gs) = Len(fs) + 1 /\ \A i \in 1 .. Len(fs) : gs[i] = fs[i] /\ gs[i] \in Frames
      /\ \A i \in 1 .. Len(gs) : gs[i] \in Frames
  <2>1. fs \in Seq(Frames) /\ gs = Append(fs, f)
    BY <1>1
  <2> QED
    BY ONLY <2>1, f \in Frames
<1>10. to[Len(fs)] = l
  <2>1. Len(fs) \in 0 .. Len(fs)
    BY <1>9
  <2>2. at[Len(fs)] = Len(w)
    BY <1>1, WireAt
  <2> QED
    BY <1>1, <1>3, <2>1, <2>2
<1> HIDE DEF v
<1>11. Reader(v, gs, to, q, r)
  <2>1. r \in Nat /\ r < Len(gs) /\ r + 1 \in 1 .. Len(gs) /\ r + 1 - 1 = r /\ to[r] = at[r]
    BY <1>1, <1>3, <1>9
  <2>2. CASE r = Len(fs) /\ field = "type" /\ buf = <<>> /\ q = at[r]
    <3>1. PICK nt, nl : FrameStands(v, to[r], gs[r + 1], nt, nl, to[r + 1])
      <4>1. \A i \in 1 .. Len(gs) : \E nt, nl : FrameStands(v, to[i - 1], gs[i], nt, nl, to[i])
        BY <1>3, WireStands
      <4> QED
        BY <2>1, <4>1
    <3>2. Begun(v, to[r], nt, buf)
      BY <2>2 DEF Begun
    <3>3. q = to[r] + Len(buf)
      <4>1. to[r] \in Nat
        BY <3>1 DEF FrameStands, Stands
      <4> QED
        BY <2>1, <2>2, <4>1
    <3> QED
      BY <2>1, <2>2, <3>1, <3>2, <3>3 DEF Reader
  <2>3. CASE r < Len(fs)
    <3>1. r + 1 \in 1 .. Len(fs) /\ r + 1 \in 0 .. Len(fs)
      BY <1>9, <2>1, <2>3
    <3>2. gs[r + 1] = fs[r + 1] /\ fs[r + 1] \in Frames /\ to[r + 1] = at[r + 1]
      BY <1>3, <1>9, <3>1
    <3>3. PICK nt, nl :
            /\ FrameStands(w, at[r], fs[r + 1], nt, nl, at[r + 1])
            /\ \/ /\ field = "type" /\ Begun(w, at[r], nt, buf)
                  /\ q = at[r] + Len(buf)
               \/ /\ field = "length" /\ Begun(w, at[r] + nt, nl, buf)
                  /\ ftype = fs[r + 1].type
                  /\ q = at[r] + nt + Len(buf)
               \/ /\ field = "payload" /\ buf = <<>>
                  /\ ftype = fs[r + 1].type /\ len = Len(fs[r + 1].data)
                  /\ q = at[r] + nt + nl
      <4>1. r # Len(fs)
        BY <1>9, <2>1, <2>3
      <4> QED
        BY <1>1, <4>1 DEF Reader
    <3>4. /\ FrameStands(v, at[r], fs[r + 1], nt, nl, at[r + 1])
          /\ Begun(w, at[r], nt, buf) => Begun(v, at[r], nt, buf)
          /\ Begun(w, at[r] + nt, nl, buf) => Begun(v, at[r] + nt, nl, buf)
      BY <1>1, <1>2, <3>2, <3>3, FrameStays DEF v
    <3> QED
      BY <2>1, <3>2, <3>3, <3>4 DEF Reader
  <2> QED
    BY <1>1, <2>2, <2>3 DEF Reader
<1> QED
  BY <1>1, <1>3, <1>4, <1>5, <1>6, <1>7, <1>8, <1>10, <1>11 DEF Continues
LEMMA WriteIInv ==
  ASSUME IInv, NEW f \in Frames, NEW n \in Least, Write(f, n)
  PROVE  IInv'
<1>1. PICK w, fs, at, l, q, r : Stage(w, fs, at, l, q, r)
  BY DEF IInv
<1>2. PICK gs, e : gs = Append(written, f) /\ e = EncodeFrame(f, n)
  OBVIOUS
<1> DEFINE k == Len(e)
<1>3. /\ end = "open" /\ end' = end /\ pipe' = pipe \o e /\ written' = gs
      /\ UNCHANGED <<arrived, field, buf, ftype, len, out, status>>
  BY <1>2 DEF Write
<1>4. k \in Nat /\ k \in 0 .. k /\ SubSeq(e, 1, k) = e
  <2>1. e \in Seq(Byte)
    BY <1>2, FrameParts
  <2> QED
    BY <2>1
<1> HIDE DEF k
<1>5. PICK v, to : Continues(v, to, gs, e, k, l, q, r)
  <2>1. k \in 0 .. Len(e)
    BY <1>4 DEF k
  <2> QED
    BY <1>1, <1>2, <1>3, <2>1, FrameWritten
<1> DEFINE m == l + k
<1>6. Sent(v, gs, to, m)'
  <2>1. gs \in Seq(Frames) /\ Wire(v, gs, to) /\ m \in 0 .. Len(v) /\ m = Len(v)
    BY <1>5 DEF Wire, Continues, k
  <2> HIDE DEF m
  <2> QED
    BY <1>3, <2>1 DEF Sent
<1>7. Unread(v, q, m)'
  BY <1>3, <1>4, <1>5 DEF Unread, Continues
<1>8. Reader(v, gs, to, q, r)'
  BY <1>3, <1>5 DEF Reader, Continues
<1>9. r \in 0 .. Len(gs) /\ status' # "ended" /\ out' = MeantOf(gs)[r]
  <2>1. written \in Seq(Frames) /\ (status = "ended" => end # "open")
    BY <1>1 DEF Stage, Sent
  <2>2. Len(gs) = Len(written) + 1 /\ Len(written) \in Nat
    BY <1>2, <2>1
  <2> QED
    BY <1>3, <1>5, <2>1, <2>2 DEF Continues
<1>10. Stage(v, gs, to, m, q, r)'
  <2>1. /\ end' \in {"open", "fin", "reset"} /\ status' \in {"reading", "ended"}
        /\ ftype' \in Nat /\ len' \in Nat
    BY <1>1, <1>3 DEF Stage
  <2> HIDE DEF m
  <2> QED
    BY <1>6, <1>7, <1>8, <1>9, <2>1 DEF Stage
<1> QED
  BY <1>10 DEF IInv

LEMMA FinishIInv ==
  ASSUME IInv, NEW f \in Frames, NEW n \in Least,
         NEW k \in 0 .. Len(EncodeFrame(f, n)) - 1, Finish(f, n, k)
  PROVE  IInv'
<1>1. PICK w, fs, at, l, q, r : Stage(w, fs, at, l, q, r)
  BY DEF IInv
<1>2. PICK gs, e : gs = Append(written, f) /\ e = EncodeFrame(f, n)
  OBVIOUS
<1>3. /\ end = "open" /\ end' = "fin" /\ pipe' = pipe \o SubSeq(e, 1, k)
      /\ UNCHANGED <<written, arrived, field, buf, ftype, len, out, status>>
  BY <1>2 DEF Finish
<1>4. Len(e) \in Nat /\ k \in 0 .. Len(e) /\ k \in Nat /\ k < Len(e)
  <2>1. e \in Seq(Byte)
    BY <1>2, FrameParts
  <2>2. Len(e) \in Nat
    BY <2>1
  <2> QED
    BY <1>2, <2>2
<1>5. PICK v, to : Continues(v, to, gs, e, k, l, q, r)
  BY <1>1, <1>2, <1>3, <1>4, FrameWritten
<1> DEFINE m == l + k
<1>6. Sent(v, gs, to, m)'
  <2>1. written \in Seq(Frames) /\ l \in Nat
    BY <1>1 DEF Stage, Sent
  <2>2. Wire(v, gs, to) /\ m \in 0 .. Len(v) /\ to[Len(written)] = l /\ Len(v) = l + Len(e)
    BY <1>5 DEF Continues
  <2>3. l <= m /\ m < Len(v)
    BY <1>4, <2>1, <2>2
  <2> HIDE DEF m
  <2> QED
    BY <1>2, <1>3, <2>1, <2>2, <2>3 DEF Sent
<1>7. Unread(v, q, m)'
  BY <1>3, <1>4, <1>5 DEF Unread, Continues
<1>8. Reader(v, gs, to, q, r)'
  BY <1>3, <1>5 DEF Reader, Continues
<1>9. r \in 0 .. Len(gs) /\ status' # "ended" /\ out' = MeantOf(gs)[r]
  <2>1. written \in Seq(Frames) /\ (status = "ended" => end # "open")
    BY <1>1 DEF Stage, Sent
  <2>2. Len(gs) = Len(written) + 1 /\ Len(written) \in Nat
    BY <1>2, <2>1
  <2> QED
    BY <1>3, <1>5, <2>1, <2>2 DEF Continues
<1>10. Stage(v, gs, to, m, q, r)'
  <2>1. /\ end' \in {"open", "fin", "reset"} /\ status' \in {"reading", "ended"}
        /\ ftype' \in Nat /\ len' \in Nat
    BY <1>1, <1>3 DEF Stage
  <2> HIDE DEF m
  <2> QED
    BY <1>6, <1>7, <1>8, <1>9, <2>1 DEF Stage
<1> QED
  BY <1>10 DEF IInv

LEMMA ResetIInv ==
  ASSUME IInv, Reset
  PROVE  IInv'
<1>1. PICK w, fs, at, l, q, r : Stage(w, fs, at, l, q, r)
  BY DEF IInv
<1>2. /\ end = "open" /\ end' = "reset" /\ pipe' = <<>> /\ arrived' = 0
      /\ UNCHANGED <<written, field, buf, ftype, len, out, status>>
  BY DEF Reset
<1>3. Sent(w, fs, at, l)'
  BY <1>1, <1>2 DEF Stage, Sent
<1>4. Unread(w, q, l)'
  BY <1>1, <1>2 DEF Stage, Unread
<1>5. Reader(w, fs, at, q, r)'
  BY <1>1, <1>2 DEF Stage, Reader
<1>6. Stage(w, fs, at, l, q, r)'
  BY <1>1, <1>2, <1>3, <1>4, <1>5 DEF Stage
<1> QED
  BY <1>6 DEF IInv

LEMMA ArriveIInv ==
  ASSUME IInv, Arrive
  PROVE  IInv'
<1>1. PICK w, fs, at, l, q, r : Stage(w, fs, at, l, q, r)
  BY DEF IInv
<1>2. /\ arrived < Len(pipe) /\ arrived' = arrived + 1
      /\ UNCHANGED <<written, pipe, end, field, buf, ftype, len, out, status>>
  BY DEF Arrive
<1>3. Sent(w, fs, at, l)'
  BY <1>1, <1>2 DEF Stage, Sent
<1>4. Unread(w, q, l)'
  <2>1. arrived' \in 0 .. Len(pipe)
    <3>1. arrived \in 0 .. Len(pipe)
      BY <1>1 DEF Stage, Unread
    <3> QED
      BY <1>2, <3>1
  <2> QED
    BY <1>1, <1>2, <2>1 DEF Stage, Unread
<1>5. Reader(w, fs, at, q, r)'
  BY <1>1, <1>2 DEF Stage, Reader
<1>6. Stage(w, fs, at, l, q, r)'
  BY <1>1, <1>2, <1>3, <1>4, <1>5 DEF Stage
<1> QED
  BY <1>6 DEF IInv

-----------------------------------------------------------------------------
(***************************************************************************)
(* The reader's steps                                                      *)
(***************************************************************************)

\* What a read leaves alone.
LEMMA ReadKeeps ==
  ASSUME NEW w, NEW fs, NEW at, NEW l, NEW q, NEW r, Stage(w, fs, at, l, q, r), TakeBytes
  PROVE  /\ w \in Seq(Byte) /\ fs \in Seq(Frames) /\ l \in 0 .. Len(w) /\ q \in 0 .. l
         /\ Wire(w, fs, at) /\ Unread(w, q, l)
         /\ r \in Nat /\ r <= Len(fs) /\ Len(fs) \in Nat
         /\ Sent(w, fs, at, l)'
         /\ end' \in {"open", "fin", "reset"} /\ status' = "reading"
<1>1. Sent(w, fs, at, l) /\ UNCHANGED <<written, end>>
  BY DEF Stage, TakeBytes
<1>2. Sent(w, fs, at, l)'
  BY <1>1 DEF Sent
<1>3. w \in Seq(Byte) /\ fs \in Seq(Frames) /\ Wire(w, fs, at)
  BY <1>1 DEF Sent, Wire
<1>4. Len(fs) \in Nat
  BY <1>3
<1>5. r \in Nat /\ r <= Len(fs)
  BY <1>4 DEF Stage
<1> QED
  BY <1>1, <1>2, <1>3, <1>4, <1>5 DEF Stage, Sent, Unread, TakeBytes

\* A read within an integer is within a frame that was begun.
LEMMA WithinFrame ==
  ASSUME NEW w, NEW fs, NEW at, NEW l, NEW q, NEW r, Stage(w, fs, at, l, q, r),
         TakeBytes
  PROVE  /\ r < Len(fs) /\ r + 1 \in 1 .. Len(fs) /\ fs[r + 1] \in Frames
         /\ \E nt, nl :
              /\ FrameStands(w, at[r], fs[r + 1], nt, nl, at[r + 1])
              /\ \/ /\ field = "type" /\ Begun(w, at[r], nt, buf)
                    /\ q = at[r] + Len(buf)
                 \/ /\ field = "length" /\ Begun(w, at[r] + nt, nl, buf)
                    /\ ftype = fs[r + 1].type
                    /\ q = at[r] + nt + Len(buf)
                 \/ /\ field = "payload" /\ buf = <<>>
                    /\ ftype = fs[r + 1].type /\ len = Len(fs[r + 1].data)
                    /\ q = at[r] + nt + nl
<1>1. Reader(w, fs, at, q, r)
  BY DEF Stage
<1>2. /\ w \in Seq(Byte) /\ fs \in Seq(Frames) /\ l \in 0 .. Len(w) /\ q \in 0 .. l
      /\ Wire(w, fs, at) /\ Unread(w, q, l) /\ r \in Nat /\ r <= Len(fs) /\ Len(fs) \in Nat
  BY ReadKeeps
<1>3. ~(r = Len(fs) /\ field = "type" /\ buf = <<>> /\ q = at[r])
  <2>1. SUFFICES ASSUME r = Len(fs), field = "type", buf = <<>>, q = at[r] PROVE FALSE
    OBVIOUS
  <2>2. Missing = 1
    BY <2>1 DEF Missing
  <2>3. q + 1 \in 0 .. l
    <3>1. 1 \in Nat /\ 1 = Missing
      BY <2>2
    <3> QED
      BY ONLY <1>2, <3>1, TakeBytes, TakesNext
  <2>4. q = Len(w) /\ Len(w) \in Nat
    BY <1>2, <2>1, WireAt
  <2> QED
    BY <1>2, <2>3, <2>4
<1>4. r < Len(fs)
  BY <1>1, <1>2, <1>3 DEF Reader
<1>5. r + 1 \in 1 .. Len(fs)
  BY <1>2, <1>4
<1>6. fs[r + 1] \in Frames
  BY <1>2, <1>5
<1> QED
  BY <1>1, <1>3, <1>4, <1>5, <1>6 DEF Reader

\* m bytes of the type of a frame are read.
TypeLeads(w, fs, at, l, q, r, nt, nl, m) ==
  /\ FrameStands(w, at[r], fs[r + 1], nt, nl, at[r + 1])
  /\ r < Len(fs) /\ Unread(w, q + m, l)'
  /\ Incomplete(buf \o Taken) =>
       Begun(w, at[r], nt, buf \o Taken) /\ q + m = at[r] + Len(buf \o Taken)
  /\ ~Incomplete(buf \o Taken) =>
       Value(buf \o Taken) = fs[r + 1].type /\ q + m = at[r] + nt

LEMMA TypeRead ==
  ASSUME NEW w, NEW fs, NEW at, NEW l, NEW q, NEW r, Stage(w, fs, at, l, q, r),
         TakeBytes, field = "type"
  PROVE  \E nt, nl, m : TypeLeads(w, fs, at, l, q, r, nt, nl, m)
<1>1. PICK nt, nl :
        /\ FrameStands(w, at[r], fs[r + 1], nt, nl, at[r + 1])
        /\ Begun(w, at[r], nt, buf) /\ q = at[r] + Len(buf) /\ r < Len(fs)
  BY WithinFrame
<1>2. w \in Seq(Byte) /\ l \in 0 .. Len(w) /\ q \in 0 .. l /\ Unread(w, q, l)
  BY ReadKeeps
<1>3. Stands(w, at[r], fs[r + 1].type, nt)
  BY <1>1 DEF FrameStands
<1> DEFINE p == at[r]
           x == fs[r + 1].type
<1>4. PICK m, b, t : m = Wanted(b) /\ b = buf /\ t = SubSeq(w, q + 1, q + m)
  OBVIOUS
<1>5. m = Missing
  BY <1>4 DEF Missing, Wanted
<1>6. Begun(w, p, nt, b) /\ Stands(w, p, x, nt) /\ q = p + Len(b)
  BY <1>1, <1>3, <1>4
<1> HIDE DEF p, x
<1>7. Advances(p, w, x, nt, b, m, q, t)
  BY <1>2, <1>4, <1>6, IntegerRead
<1>8. Taken = t /\ Unread(w, q + m, l)'
  <2>1. m \in Nat
    BY <1>7 DEF Advances
  <2> QED
    BY <1>2, <1>4, <1>5, <2>1, TakesNext
<1> QED
  BY <1>1, <1>4, <1>7, <1>8 DEF p, x, Advances, TypeLeads

\* m bytes of the length of a frame are read.
LengthLeads(w, fs, at, l, q, r, nt, nl, m) ==
  /\ FrameStands(w, at[r], fs[r + 1], nt, nl, at[r + 1])
  /\ r < Len(fs) /\ Unread(w, q + m, l)' /\ ftype = fs[r + 1].type
  /\ Incomplete(buf \o Taken) =>
       /\ Begun(w, at[r] + nt, nl, buf \o Taken)
       /\ q + m = at[r] + nt + Len(buf \o Taken)
  /\ ~Incomplete(buf \o Taken) =>
       Value(buf \o Taken) = Len(fs[r + 1].data) /\ q + m = at[r] + nt + nl

LEMMA LengthRead ==
  ASSUME NEW w, NEW fs, NEW at, NEW l, NEW q, NEW r, Stage(w, fs, at, l, q, r),
         TakeBytes, field = "length"
  PROVE  \E nt, nl, m : LengthLeads(w, fs, at, l, q, r, nt, nl, m)
<1>1. PICK nt, nl :
        /\ FrameStands(w, at[r], fs[r + 1], nt, nl, at[r + 1])
        /\ Begun(w, at[r] + nt, nl, buf) /\ q = at[r] + nt + Len(buf) /\ r < Len(fs)
        /\ ftype = fs[r + 1].type
  BY WithinFrame
<1>2. w \in Seq(Byte) /\ l \in 0 .. Len(w) /\ q \in 0 .. l /\ Unread(w, q, l)
  BY ReadKeeps
<1>3. Stands(w, at[r] + nt, Len(fs[r + 1].data), nl)
  BY <1>1 DEF FrameStands
<1> DEFINE p == at[r] + nt
           x == Len(fs[r + 1].data)
<1>4. PICK m, b, t : m = Wanted(b) /\ b = buf /\ t = SubSeq(w, q + 1, q + m)
  OBVIOUS
<1>5. m = Missing
  BY <1>4 DEF Missing, Wanted
<1>6. Begun(w, p, nl, b) /\ Stands(w, p, x, nl) /\ q = p + Len(b)
  BY <1>1, <1>3, <1>4
<1> HIDE DEF p, x
<1>7. Advances(p, w, x, nl, b, m, q, t)
  BY <1>2, <1>4, <1>6, IntegerRead
<1>8. Taken = t /\ Unread(w, q + m, l)'
  <2>1. m \in Nat
    BY <1>7 DEF Advances
  <2> QED
    BY <1>2, <1>4, <1>5, <2>1, TakesNext
<1> QED
  BY <1>1, <1>4, <1>7, <1>8 DEF p, x, Advances, LengthLeads
LEMMA ReadFirstIInv ==
  ASSUME IInv, ReadFirst
  PROVE  IInv'
<1>1. PICK w, fs, at, l, q, r : Stage(w, fs, at, l, q, r)
  BY DEF IInv
<1>2. /\ TakeBytes /\ field # "payload" /\ Incomplete(buf \o Taken)
      /\ buf' = buf \o Taken /\ UNCHANGED <<field, ftype, len, out>>
  BY DEF ReadFirst
<1>3. /\ Sent(w, fs, at, l)' /\ end' \in {"open", "fin", "reset"} /\ status' = "reading"
  BY <1>1, <1>2, ReadKeeps
<1>4. ASSUME NEW m, Unread(w, q + m, l)', Reader(w, fs, at, q + m, r)' PROVE IInv'
  <2> DEFINE k == q + m
  <2>1. Unread(w, k, l)' /\ Reader(w, fs, at, k, r)'
    BY <1>4
  <2> HIDE DEF k
  <2>2. Stage(w, fs, at, l, k, r)'
    BY <1>1, <1>2, <1>3, <2>1 DEF Stage
  <2> QED
    BY <2>2 DEF IInv
<1>5. CASE field = "type"
  <2>1. PICK nt, nl, m :
          /\ FrameStands(w, at[r], fs[r + 1], nt, nl, at[r + 1])
          /\ r < Len(fs) /\ Unread(w, q + m, l)'
          /\ Begun(w, at[r], nt, buf \o Taken) /\ q + m = at[r] + Len(buf \o Taken)
    <3>1. PICK nt, nl, m : TypeLeads(w, fs, at, l, q, r, nt, nl, m)
      BY <1>1, <1>2, <1>5, TypeRead
    <3> QED
      BY <1>2, <3>1 DEF TypeLeads
  <2>2. /\ field' = "type" /\ Begun(w, at[r], nt, buf') /\ q + m = at[r] + Len(buf')
    BY <1>2, <1>5, <2>1
  <2>3. Reader(w, fs, at, q + m, r)'
    BY <2>1, <2>2 DEF Reader
  <2> QED
    BY <1>4, <2>1, <2>3
<1>6. CASE field = "length"
  <2>1. PICK nt, nl, m :
          /\ FrameStands(w, at[r], fs[r + 1], nt, nl, at[r + 1])
          /\ r < Len(fs) /\ Unread(w, q + m, l)' /\ ftype = fs[r + 1].type
          /\ Begun(w, at[r] + nt, nl, buf \o Taken)
          /\ q + m = at[r] + nt + Len(buf \o Taken)
    <3>1. PICK nt, nl, m : LengthLeads(w, fs, at, l, q, r, nt, nl, m)
      BY <1>1, <1>2, <1>6, LengthRead
    <3> QED
      BY <1>2, <3>1 DEF LengthLeads
  <2>2. /\ field' = "length" /\ Begun(w, at[r] + nt, nl, buf') /\ ftype' = fs[r + 1].type
        /\ q + m = at[r] + nt + Len(buf')
    BY <1>2, <1>6, <2>1
  <2>3. Reader(w, fs, at, q + m, r)'
    BY <2>1, <2>2 DEF Reader
  <2> QED
    BY <1>4, <2>1, <2>3
<1>7. field = "type" \/ field = "length"
  BY <1>1, <1>2, WithinFrame
<1> QED
  BY <1>5, <1>6, <1>7

LEMMA ReadTypeIInv ==
  ASSUME IInv, ReadType
  PROVE  IInv'
<1>1. PICK w, fs, at, l, q, r : Stage(w, fs, at, l, q, r)
  BY DEF IInv
<1>2. /\ TakeBytes /\ field = "type" /\ ~Incomplete(buf \o Taken)
      /\ ftype' = Value(buf \o Taken) /\ field' = "length" /\ buf' = <<>>
      /\ UNCHANGED <<len, out>>
  BY DEF ReadType
<1>3. /\ Sent(w, fs, at, l)' /\ end' \in {"open", "fin", "reset"} /\ status' = "reading"
  BY <1>1, <1>2, ReadKeeps
<1>4. PICK nt, nl, m :
        /\ FrameStands(w, at[r], fs[r + 1], nt, nl, at[r + 1])
        /\ r < Len(fs) /\ Unread(w, q + m, l)'
        /\ Value(buf \o Taken) = fs[r + 1].type /\ q + m = at[r] + nt
  <2>1. PICK nt, nl, m : TypeLeads(w, fs, at, l, q, r, nt, nl, m)
    BY <1>1, <1>2, TypeRead
  <2> QED
    BY <1>2, <2>1 DEF TypeLeads
<1>5. /\ at[r] \in Nat /\ nt \in Nat /\ fs[r + 1].type \in Nat
  BY <1>4 DEF FrameStands, Stands, Lengths
<1> DEFINE k == at[r] + nt
<1>6. k = k + Len(<<>>) /\ Begun(w, k, nl, <<>>)
  BY <1>5 DEF Begun
<1>7. Reader(w, fs, at, k, r)'
  BY <1>2, <1>4, <1>6 DEF Reader
<1>8. Unread(w, k, l)'
  BY <1>4
<1> HIDE DEF k
<1>9. Stage(w, fs, at, l, k, r)'
  BY <1>1, <1>2, <1>3, <1>4, <1>5, <1>7, <1>8 DEF Stage
<1> QED
  BY <1>9 DEF IInv

LEMMA ReadLengthIInv ==
  ASSUME IInv, ReadLength
  PROVE  IInv'
<1>1. PICK w, fs, at, l, q, r : Stage(w, fs, at, l, q, r)
  BY DEF IInv
<1>2. /\ TakeBytes /\ field = "length" /\ ~Incomplete(buf \o Taken)
      /\ len' = Value(buf \o Taken) /\ field' = "payload" /\ buf' = <<>>
      /\ UNCHANGED <<ftype, out>>
  BY DEF ReadLength
<1>3. /\ Sent(w, fs, at, l)' /\ end' \in {"open", "fin", "reset"} /\ status' = "reading"
  BY <1>1, <1>2, ReadKeeps
<1>4. PICK nt, nl, m :
        /\ FrameStands(w, at[r], fs[r + 1], nt, nl, at[r + 1])
        /\ r < Len(fs) /\ Unread(w, q + m, l)' /\ ftype = fs[r + 1].type
        /\ Value(buf \o Taken) = Len(fs[r + 1].data) /\ q + m = at[r] + nt + nl
  <2>1. PICK nt, nl, m : LengthLeads(w, fs, at, l, q, r, nt, nl, m)
    BY <1>1, <1>2, LengthRead
  <2> QED
    BY <1>2, <2>1 DEF LengthLeads
<1>5. Len(fs[r + 1].data) \in Nat
  BY <1>4 DEF FrameStands, Stands
<1> DEFINE k == at[r] + nt + nl
<1>6. Reader(w, fs, at, k, r)'
  BY <1>2, <1>4 DEF Reader
<1>7. Unread(w, k, l)'
  BY <1>4
<1> HIDE DEF k
<1>8. Stage(w, fs, at, l, k, r)'
  BY <1>1, <1>2, <1>3, <1>4, <1>5, <1>6, <1>7 DEF Stage
<1> QED
  BY <1>8 DEF IInv

LEMMA ReadPayloadIInv ==
  ASSUME IInv, ReadPayload
  PROVE  IInv'
<1>1. PICK w, fs, at, l, q, r : Stage(w, fs, at, l, q, r)
  BY DEF IInv
<1>2. /\ TakeBytes /\ field = "payload" /\ field' = "type"
      /\ out' = IF IsGrease(ftype) THEN out ELSE Append(out, Frame(ftype, Taken))
      /\ UNCHANGED <<buf, ftype, len>>
  BY DEF ReadPayload
<1>3. /\ w \in Seq(Byte) /\ fs \in Seq(Frames) /\ l \in 0 .. Len(w) /\ q \in 0 .. l
      /\ Wire(w, fs, at) /\ Unread(w, q, l)
      /\ r \in Nat /\ r <= Len(fs) /\ Len(fs) \in Nat
      /\ Sent(w, fs, at, l)'
      /\ end' \in {"open", "fin", "reset"} /\ status' = "reading"
  BY <1>1, <1>2, ReadKeeps
<1> DEFINE f == fs[r + 1]
           d == f.data
<1>4. /\ r < Len(fs) /\ r + 1 \in 1 .. Len(fs) /\ f \in Frames
      /\ \E nt, nl : /\ FrameStands(w, at[r], f, nt, nl, at[r + 1])
                     /\ buf = <<>> /\ ftype = f.type /\ len = Len(d) /\ q = at[r] + nt + nl
  BY <1>1, <1>2, WithinFrame
<1>5. PICK nt, nl : /\ FrameStands(w, at[r], f, nt, nl, at[r + 1])
                    /\ buf = <<>> /\ ftype = f.type /\ len = Len(d) /\ q = at[r] + nt + nl
  BY <1>4
<1>6. f.type \in Types /\ d \in Payloads /\ f = [type |-> f.type, data |-> d]
  BY <1>4 DEF Frames
<1>7. d \in Seq(Byte)
  BY <1>6, StreamAssumption
<1> HIDE DEF f
<1>8. PICK m : m = Len(d)
  OBVIOUS
<1>9. m \in Nat /\ m = Missing
  BY <1>2, <1>5, <1>7, <1>8 DEF Missing
<1>10. /\ q + m \in 0 .. l /\ Taken = SubSeq(w, q + 1, q + m) /\ Unread(w, q + m, l)'
  BY <1>2, <1>3, <1>9, TakesNext
<1>11. Taken = d
  <2>1. \A j \in 1 .. m : w[q + j] = d[j]
    BY <1>5, <1>8 DEF FrameStands
  <2>2. q + m \in 0 .. Len(w) /\ q \in 0 .. q + m /\ q + m - q = m
    BY <1>3, <1>9, <1>10
  <2> DEFINE k == q + m
             s == SubSeq(w, q + 1, k)
  <2>3. s \in Seq(Byte) /\ Len(s) = k - q /\ \A j \in 1 .. k - q : s[j] = w[q + j]
    <3>1. k \in 0 .. Len(w) /\ q \in 0 .. k
      BY <2>2
    <3> HIDE DEF k
    <3> QED
      BY <1>3, <3>1, Remains
  <2>4. k - q = m
    BY <1>3, <1>9
  <2> HIDE DEF s, k, d
  <2>5. s = d
    <3>1. s = [j \in 1 .. m |-> s[j]] /\ d = [j \in 1 .. m |-> d[j]]
      BY <1>7, <1>8, <2>3, <2>4
    <3>2. \A j \in 1 .. m : s[j] = d[j]
      BY <2>1, <2>3, <2>4
    <3> QED
      BY ONLY <3>1, <3>2
  <2> QED
    BY <1>10, <2>5 DEF s, k
<1>12. Frame(ftype, Taken) = f
  BY <1>5, <1>6, <1>11 DEF Frame
<1> DEFINE i == r + 1
<1>13. i \in 1 .. Len(fs) /\ i - 1 = r /\ fs[i] = f /\ i \in 0 .. Len(fs) /\ i \in Nat
  BY <1>3, <1>4 DEF f
<1>14. out' = MeantOf(fs)[i]
  <2>1. MeantOf(fs)[i] = IF IsGrease(f.type) THEN MeantOf(fs)[r] ELSE Append(MeantOf(fs)[r], f)
    BY <1>3, <1>13, MeantSteps
  <2>2. out = MeantOf(fs)[r]
    BY <1>1 DEF Stage
  <2> QED
    BY <1>2, <1>5, <1>12, <2>1, <2>2
<1>15. q + m = at[i] /\ at[i] \in Nat
  <2>1. at[r + 1] = at[r] + nt + nl + Len(d)
    BY <1>5 DEF FrameStands
  <2>2. at[i] \in Nat
    BY <1>3, <1>13, WireAt
  <2> QED
    BY <1>5, <1>8, <2>1, <2>2
<1> HIDE DEF i
<1> DEFINE k == at[i]
<1>16. Unread(w, k, l)'
  BY <1>10, <1>15
<1>17. Reader(w, fs, at, k, i)'
  <2>1. field' = "type" /\ buf' = <<>>
    BY <1>2, <1>5
  <2>2. CASE i = Len(fs)
    BY <2>1, <2>2 DEF Reader
  <2>3. CASE i # Len(fs)
    <3>1. i \in Nat /\ i < Len(fs)
      BY <1>3, <1>13, <2>3
    <3>2. PICK a, b : FrameStands(w, at[i], fs[i + 1], a, b, at[i + 1])
      BY <1>3, <3>1, WireNext
    <3>3. Begun(w, at[i], a, <<>>) /\ k = at[i] + Len(<<>>)
      BY <1>15 DEF Begun
    <3> QED
      BY <2>1, <3>1, <3>2, <3>3 DEF Reader
  <2> QED
    BY <2>2, <2>3
<1> HIDE DEF k
<1>18. Stage(w, fs, at, l, k, i)'
  <2>1. ftype' \in Nat /\ len' \in Nat
    BY <1>1, <1>2 DEF Stage
  <2> QED
    BY <1>3, <1>13, <1>14, <1>16, <1>17, <2>1 DEF Stage
<1> QED
  BY <1>18 DEF IInv

\* The end of the stream is not met before every complete frame was read: the
\* bytes of such a frame are all on the wire.
LEMMA ReadEndIInv ==
  ASSUME IInv, ReadEnd
  PROVE  IInv'
<1>1. PICK w, fs, at, l, q, r : Stage(w, fs, at, l, q, r)
  BY DEF IInv
<1>2. /\ end # "open" /\ arrived = Len(pipe) /\ arrived < Missing
      /\ status' = "ended" /\ UNCHANGED <<wire, field, buf, ftype, len, out>>
  BY DEF ReadEnd
<1>3. UNCHANGED <<written, pipe, arrived, end>>
  BY <1>2 DEF wire
<1>4. /\ Wire(w, fs, at) /\ w \in Seq(Byte) /\ fs \in Seq(Frames)
      /\ l \in 0 .. Len(w) /\ q \in 0 .. l /\ r \in 0 .. Len(fs) /\ Len(fs) \in Nat
      /\ Len(w) \in Nat /\ written \in Seq(Frames)
  <2>1. Sent(w, fs, at, l) /\ Unread(w, q, l) /\ r \in 0 .. Len(fs)
    BY <1>1 DEF Stage
  <2>2. Wire(w, fs, at) /\ l \in 0 .. Len(w) /\ written \in Seq(Frames) /\ q \in 0 .. l
    BY <2>1 DEF Sent, Unread
  <2>3. w \in Seq(Byte) /\ fs \in Seq(Frames)
    BY <2>2 DEF Wire
  <2>4. Len(w) \in Nat /\ Len(fs) \in Nat
    BY <2>3
  <2> QED
    BY <2>1, <2>2, <2>3, <2>4
<1>5. Sent(w, fs, at, l)'
  BY <1>1, <1>3 DEF Stage, Sent
<1>6. Unread(w, q, l)'
  BY <1>1, <1>3 DEF Stage, Unread
<1>7. Reader(w, fs, at, q, r)'
  BY <1>1, <1>2 DEF Stage, Reader
<1>8. ASSUME end = "fin" PROVE r = Len(written)
  <2>1. PICK f \in Frames : fs = Append(written, f) /\ at[Len(written)] <= l /\ l < Len(w)
    BY <1>1, <1>8 DEF Stage, Sent
  <2> DEFINE N == Len(written)
  <2>2. N \in Nat /\ Len(fs) = N + 1
    BY <1>4, <2>1
  <2>3. pipe = SubSeq(w, q + 1, l)
    BY <1>1, <1>8 DEF Stage, Unread
  <2>4. l - q < Missing
    <3>1. Len(pipe) = l - q
      BY <1>4, <2>3, Remains
    <3> QED
      BY <1>2, <3>1
  <2> HIDE DEF N
  <2>5. /\ at \in [0 .. Len(fs) -> Nat] /\ at[Len(fs)] = Len(w)
        /\ \A i \in 0 .. Len(fs) : \A j \in 0 .. Len(fs) : i <= j => at[i] <= at[j]
    BY <1>4, WireAt
  <2>6. r # N + 1
    <3>1. SUFFICES ASSUME r = Len(fs) PROVE FALSE
      BY <2>2
    <3>2. q = at[r]
      BY <1>1, <1>4, <3>1 DEF Stage, Reader
    <3> QED
      BY <1>4, <2>1, <2>5, <3>1, <3>2
  <2>7. ~(r < N)
    <3>1. SUFFICES ASSUME r < N PROVE FALSE
      OBVIOUS
    <3>2. /\ r + 1 \in 0 .. Len(fs) /\ N \in 0 .. Len(fs) /\ r + 1 <= N /\ r < Len(fs)
          /\ r # Len(fs)
      BY <1>4, <2>2, <3>1
    <3>3. at[r + 1] <= at[N] /\ at[r + 1] \in Nat /\ at[N] \in Nat /\ at[N] <= l
      BY <2>1, <2>5, <3>2 DEF N
    <3>4. at[r + 1] <= l
      BY <1>4, <3>3
    <3>5. Reader(w, fs, at, q, r)
      BY <1>1 DEF Stage
    <3>6. PICK nt, nl :
            /\ FrameStands(w, at[r], fs[r + 1], nt, nl, at[r + 1])
            /\ \/ /\ field = "type" /\ Begun(w, at[r], nt, buf)
                  /\ q = at[r] + Len(buf)
               \/ /\ field = "length" /\ Begun(w, at[r] + nt, nl, buf)
                  /\ q = at[r] + nt + Len(buf)
               \/ /\ field = "payload" /\ len = Len(fs[r + 1].data)
                  /\ q = at[r] + nt + nl
      BY <3>2, <3>5 DEF Reader
    <3> DEFINE d == Len(fs[r + 1].data)
    <3>7. /\ at[r] \in Nat /\ nt \in Nat /\ nl \in Nat /\ nt > 0 /\ nl > 0 /\ d \in Nat
          /\ at[r + 1] = at[r] + nt + nl + d
          /\ Stands(w, at[r], fs[r + 1].type, nt) /\ Stands(w, at[r] + nt, d, nl)
      BY <3>6 DEF FrameStands, Stands, Lengths
    <3>8. ASSUME NEW p \in Nat, NEW x, NEW n \in Nat, n > 0, Stands(w, p, x, n), Begun(w, p, n, buf),
                 field # "payload", q = p + Len(buf)
          PROVE  Missing \in Nat /\ q + Missing <= p + n
      <4>1. CASE buf = <<>>
        BY <3>8, <4>1 DEF Missing
      <4>2. CASE buf # <<>>
        <5>1. buf = <<w[p + 1]>>
          BY <3>8, <4>2 DEF Begun
        <5>2. buf[1] = w[p + 1] /\ Len(buf) = 1
          BY <5>1
        <5>3. Announced(buf[1]) = n
          BY <1>4, <3>8, <5>2, StandsReads
        <5>4. Missing = n - 1
          BY <3>8, <4>2, <5>2, <5>3 DEF Missing
        <5> QED
          BY <3>8, <5>2, <5>4
      <4> QED
        BY <4>1, <4>2
    <3> HIDE DEF d
    <3>9. q + Missing <= at[r + 1] /\ Missing \in Nat
      <4>1. CASE field = "type"
        <5>1. Missing \in Nat /\ q + Missing <= at[r] + nt
          BY <3>6, <3>7, <3>8, <4>1
        <5> QED
          BY <1>4, <3>7, <5>1
      <4>2. CASE field = "length"
        <5> DEFINE p == at[r] + nt
        <5>1. p \in Nat /\ Stands(w, p, d, nl) /\ Begun(w, p, nl, buf) /\ q = p + Len(buf)
          BY <3>6, <3>7, <4>2
        <5> HIDE DEF p
        <5>2. Missing \in Nat /\ q + Missing <= p + nl
          BY <3>7, <3>8, <4>2, <5>1
        <5>3. p = at[r] + nt /\ q \in Nat
          BY <1>4 DEF p
        <5> QED
          BY ONLY <3>7, <5>2, <5>3
      <4>3. CASE field = "payload"
        <5>1. Missing = d /\ q = at[r] + nt + nl
          BY <3>6, <4>3 DEF Missing, d
        <5> QED
          BY <3>7, <5>1
      <4> QED
        BY <3>6, <4>1, <4>2, <4>3
    <3>10. q \in Nat /\ l \in Nat /\ at[r + 1] \in Nat
      BY <1>4, <3>3
    <3> QED
      BY ONLY <2>4, <3>4, <3>9, <3>10
  <2> QED
    BY <1>4, <2>2, <2>6, <2>7 DEF N
<1>9. Stage(w, fs, at, l, q, r)'
  <2>1. status' = "ended" => end' # "open" /\ (end' = "fin" => r = Len(written'))
    BY <1>2, <1>3, <1>8
  <2> QED
    BY <1>1, <1>2, <1>3, <1>5, <1>6, <1>7, <2>1 DEF Stage
<1> QED
  BY <1>9 DEF IInv
-----------------------------------------------------------------------------

LEMMA StepIInv == IInv /\ [Next]_vars => IInv'
<1> SUFFICES ASSUME IInv, [Next]_vars PROVE IInv'
  OBVIOUS
<1>1. CASE \E type \in Types, data \in Payloads, n \in Least :
             LET f == Frame(type, data) IN
             \/ Write(f, n)
             \/ \E k \in 0 .. Len(EncodeFrame(f, n)) - 1 : Finish(f, n, k)
  <2>1. PICK type \in Types, data \in Payloads, n \in Least :
             \/ Write(Frame(type, data), n)
             \/ \E k \in 0 .. Len(EncodeFrame(Frame(type, data), n)) - 1 :
                  Finish(Frame(type, data), n, k)
    BY <1>1
  <2>2. Frame(type, data) \in Frames
    BY DEF Frame, Frames
  <2>3. PICK f \in Frames : f = Frame(type, data)
    BY <2>2
  <2>4. \/ Write(f, n)
        \/ \E k \in 0 .. Len(EncodeFrame(f, n)) - 1 : Finish(f, n, k)
    BY <2>1, <2>3
  <2>5. CASE Write(f, n)
    BY <2>5, WriteIInv
  <2>6. CASE \E k \in 0 .. Len(EncodeFrame(f, n)) - 1 : Finish(f, n, k)
    BY <2>6, FinishIInv
  <2> QED
    BY <2>4, <2>5, <2>6
<1>2. CASE Reset
  BY <1>2, ResetIInv
<1>3. CASE Arrive
  BY <1>3, ArriveIInv
<1>4. CASE ReadFirst
  BY <1>4, ReadFirstIInv
<1>5. CASE ReadType
  BY <1>5, ReadTypeIInv
<1>6. CASE ReadLength
  BY <1>6, ReadLengthIInv
<1>7. CASE ReadPayload
  BY <1>7, ReadPayloadIInv
<1>8. CASE ReadEnd
  BY <1>8, ReadEndIInv
<1>9. CASE UNCHANGED vars
  <2>1. PICK w, fs, at, l, q, r : Stage(w, fs, at, l, q, r)
    BY DEF IInv
  <2>2. UNCHANGED <<written, pipe, arrived, end, field, buf, ftype, len, out, status>>
    BY <1>9 DEF vars
  <2>3. Sent(w, fs, at, l)'
    BY <2>1, <2>2 DEF Stage, Sent
  <2>4. Unread(w, q, l)' /\ Reader(w, fs, at, q, r)'
    BY <2>1, <2>2 DEF Stage, Unread, Reader
  <2>5. Stage(w, fs, at, l, q, r)'
    BY <2>1, <2>2, <2>3, <2>4 DEF Stage
  <2> QED
    BY <2>5 DEF IInv
<1> QED
  BY <1>1, <1>2, <1>3, <1>4, <1>5, <1>6, <1>7, <1>8, <1>9 DEF Next, Read

\* What IInv says of the frames written and those returned: the first r of
\* the written ones were read.
LEMMA ReadSoFar ==
  ASSUME NEW w, NEW fs, NEW at, NEW l, NEW q, NEW r, Stage(w, fs, at, l, q, r)
  PROVE  /\ written \in Seq(Frames) /\ r \in 0 .. Len(written)
         /\ out = MeantOf(written)[r]
<1>1. /\ Wire(w, fs, at) /\ l \in 0 .. Len(w) /\ q \in 0 .. l
      /\ written \in Seq(Frames) /\ r \in 0 .. Len(fs) /\ out = MeantOf(fs)[r]
  BY DEF Stage, Sent, Unread
<1>2. w \in Seq(Byte) /\ Len(w) \in Nat /\ Len(written) \in Nat
  BY <1>1 DEF Wire
<1>3. CASE end # "fin"
  BY <1>1, <1>3 DEF Stage, Sent
<1>4. CASE end = "fin"
  <2>1. PICK f \in Frames : fs = Append(written, f) /\ l < Len(w)
    BY <1>4 DEF Stage, Sent
  <2>2. Len(fs) = Len(written) + 1
    BY <1>1, <2>1
  <2>3. r # Len(fs)
    <3>1. SUFFICES ASSUME r = Len(fs) PROVE FALSE
      OBVIOUS
    <3>2. Reader(w, fs, at, q, r)
      BY DEF Stage
    <3>3. q = at[r]
      BY <1>2, <2>2, <3>1, <3>2 DEF Reader
    <3>4. at[Len(fs)] = Len(w)
      BY <1>1, WireAt
    <3> QED
      BY <1>1, <1>2, <2>1, <3>1, <3>3, <3>4
  <2>4. r \in 0 .. Len(written)
    BY <1>1, <1>2, <2>2, <2>3
  <2> QED
    BY <1>1, <2>1, <2>4, MeantAppend
<1> QED
  BY <1>3, <1>4

LEMMA IInvTypeOK == IInv => TypeOK
<1> SUFFICES ASSUME IInv PROVE TypeOK
  OBVIOUS
<1>1. PICK w, fs, at, l, q, r : Stage(w, fs, at, l, q, r)
  BY DEF IInv
<1>2. /\ Wire(w, fs, at) /\ l \in 0 .. Len(w) /\ q \in 0 .. l
      /\ w \in Seq(Byte) /\ written \in Seq(Frames)
  BY <1>1 DEF Stage, Sent, Unread, Wire
<1>3. \A i \in DOMAIN pipe : pipe[i] \in Byte
  <2>1. CASE end = "reset"
    <3>1. pipe = <<>>
      BY <1>1, <2>1 DEF Stage, Unread
    <3> QED
      BY <3>1
  <2>2. CASE end # "reset"
    <3>1. pipe = SubSeq(w, q + 1, l)
      BY <1>1, <2>2 DEF Stage, Unread
    <3>2. pipe \in Seq(Byte)
      BY <1>2, <3>1, Remains
    <3> QED
      BY <3>2
  <2> QED
    BY <2>1, <2>2
<1>4. arrived \in 0 .. Len(pipe)
  BY <1>1 DEF Stage, Unread
<1>5. Len(buf) < 8 /\ field \in {"type", "length", "payload"}
  <2>1. Reader(w, fs, at, q, r)
    BY <1>1 DEF Stage
  <2>2. buf = <<>> \/ \E x : buf = <<x>>
    BY <2>1 DEF Reader, Begun
  <2>3. Len(buf) < 8
    BY <2>2
  <2> QED
    BY <2>1, <2>3 DEF Reader
<1>6. /\ end \in {"open", "fin", "reset"} /\ status \in {"reading", "ended"}
      /\ ftype \in Nat /\ len \in Nat
  BY <1>1 DEF Stage
<1> QED
  BY <1>2, <1>3, <1>4, <1>5, <1>6 DEF TypeOK, Frames

LEMMA IInvOnlyWritten == IInv => OnlyWritten
<1> SUFFICES ASSUME IInv PROVE OnlyWritten
  OBVIOUS
<1>1. PICK w, fs, at, l, q, r : Stage(w, fs, at, l, q, r)
  BY DEF IInv
<1>2. written \in Seq(Frames) /\ r \in 0 .. Len(written) /\ out = MeantOf(written)[r]
  BY <1>1, ReadSoFar
<1>3. IsPrefix(MeantOf(written)[r], MeantOf(written)[Len(written)])
  BY <1>2, MeantPrefix
<1> QED
  BY <1>2, <1>3 DEF OnlyWritten, Meant

LEMMA IInvNothingMissed == IInv => NothingMissed
<1> SUFFICES ASSUME IInv, status = "ended", end = "fin" PROVE out = Meant
  BY DEF NothingMissed
<1>1. PICK w, fs, at, l, q, r : Stage(w, fs, at, l, q, r)
  BY DEF IInv
<1>2. out = MeantOf(written)[r]
  BY <1>1, ReadSoFar
<1>3. r = Len(written)
  BY <1>1 DEF Stage
<1> QED
  BY <1>2, <1>3 DEF Meant

LEMMA AlwaysIInv == Spec => []IInv
<1> QED
  BY InitIInv, StepIInv, PTL DEF Spec

-----------------------------------------------------------------------------
(***************************************************************************)
(* Theorems                                                                *)
(***************************************************************************)

\* What Frame::accept keeps between two reads is what its fields can hold: the
\* buffer of read_varint never reaches the eight bytes of the longest integer.
THEOREM FrameStreamTypeOK == Spec => []TypeOK
<1> QED
  BY AlwaysIInv, IInvTypeOK, PTL

\* Whatever frames are written, in whichever forms of their integers, however
\* their bytes arrive and wherever the stream stops, Frame::accept has returned
\* the first of the written frames, without the greased ones.
THEOREM FrameStreamOnlyWritten == Spec => []OnlyWritten
<1> QED
  BY AlwaysIInv, IInvOnlyWritten, PTL

\* When accept fails because the stream was finished, it has returned every
\* frame that was completely written.
THEOREM FrameStreamNothingMissed == Spec => []NothingMissed
<1> QED
  BY AlwaysIInv, IInvNothingMissed, PTL
=============================================================================
