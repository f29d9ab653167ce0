--------------------------- MODULE SessionProofs ---------------------------
(***************************************************************************)
(* What an end of a session makes of its peer, whatever implementation the *)
(* peer is: open and upgrade hand out a session only on the grounds the    *)
(* first frames that count give, and refuse one only for what they lack or *)
(* because a stream was stopped or ended.                                  *)
(* Two wt-rs ends agree: a client that holds a session has a server that   *)
(* holds it.  The constants stay arbitrary.                                *)
(***************************************************************************)
EXTENDS Session, TLAPS

\* The frames that may be on the wire.
WireFrames ==
  ForeignFrames \cup ForeignHeaders["client"] \cup ForeignHeaders["server"]
    \cup {Frame("settings", OwnSettings), OwnRequest, OwnOk, Frame("end", NoSettings)}

\* A wt-rs end leaves the name of its control stream alone until it gives up.
WireType ==
  /\ uni \in [Ends -> Seq(WireFrames)]
  /\ bi \in [Ends -> Seq(WireFrames)]
  /\ theirs = [e \in Ends |-> theirs[e]]
  /\ \A e \in Ends \ foreign : phase[e] \in Working => utype[e] \in {"none", "control"}

TypeInv == TypeOK /\ WireType

\* The first n frames are still there.
Kept(new, old, n) == n <= Len(new) /\ \A i \in 1 .. n : new[i] = old[i]

\* Nothing that e has read changes, be it by a reset; what is wrong stays wrong.
Keeps(e) ==
  LET p == Peer(e) IN
  /\ Kept(uni'[p], uni[p], nuni[e])
  /\ Kept(bi'[p], bi[p], nbi[e])
  /\ acc[e] # "stream" /\ utype[p] # "none" => utype'[p] = utype[p]
  /\ utype[p] \in {"other", "end"} => utype'[p] \in {"other", "end"}
  /\ stopped[e] \subseteq stopped'[e]

Greased(q, n) == \A j \in 1 .. n : q[j].type = "grease"

\* The exchange of settings: what has been read so far, and what of it is kept.
SettingsRead(e) ==
  LET q == uni[Peer(e)] IN
  /\ nbi[e] = 0
  /\ acc[e] = "stream" => nuni[e] = 0
  /\ acc[e] # "stream" => utype[Peer(e)] = "control"
  /\ acc[e] # "done" => Greased(q, nuni[e])
  /\ acc[e] = "done" =>
       /\ Counts(q, nuni[e]) /\ q[nuni[e]].type = "settings"
       /\ theirs[e] = Decoded(q[nuni[e]].body)

\* Both parts of the grounds.
Announced(e) ==
  LET p == Peer(e) IN
  /\ acc[e] # "stream" /\ utype[p] = "control"
  /\ \E i \in 1 .. nuni[e] : Counts(uni[p], i) /\ Announces(uni[p][i])
Agreed(e) ==
  LET p == Peer(e) IN \E i \in 1 .. nbi[e] : Counts(bi[p], i) /\ Agrees(e, bi[p][i])

\* What holds of a wt-rs end at each of its awaits.  The server answers what it
\* has read and checked, the client reads the answer last.
Judged(e) ==
  /\ phase[e] = "settings" => SettingsRead(e)
  /\ phase[e] \in {"connect", "answer", "established"} => Announced(e)
  /\ phase[e] = "connect" \/ (phase[e] = "answer" /\ e = "client")
       => Greased(bi[Peer(e)], nbi[e])
  /\ phase[e] = "established" \/ (phase[e] = "answer" /\ e = "server") => Agreed(e)
  /\ phase[e] \in {"failed", "panicked"} => Objection(e)

PeerInv == TypeInv /\ \A e \in Ends \ foreign : Judged(e)

-----------------------------------------------------------------------------
(* What happens on the wire                                                *)

LEMMA PeerType == \A e \in Ends : Peer(e) \in Ends /\ Peer(Peer(e)) = e /\ Peer(e) # e
BY DEF Ends, Peer

\* What the first n frames of q may be followed by after a step.
Later(q, n) ==
  {q} \cup {Append(q, f) : f \in WireFrames} \cup {EndBehind(q, m) : m \in n .. Len(q)}

\* A stream is named once; a reset takes the name away if nobody has read it.
Renamed(e, ty) ==
  /\ ty \in {"control", "other", "end"}
  /\ utype[e] \in {"none", ty} \/ (acc[Peer(e)] = "stream" /\ ty = "end")

\* What a step of e may do on the wire: it writes on its own streams, ends them or
\* stops those of its peer.
WireNext(e) ==
  /\ uni' = uni \/ \E r \in Later(uni[e], nuni[Peer(e)]) : uni' = [uni EXCEPT ![e] = r]
  /\ bi' = bi \/ \E r \in Later(bi[e], nbi[Peer(e)]) : bi' = [bi EXCEPT ![e] = r]
  /\ utype' = utype \/ \E ty : Renamed(e, ty) /\ utype' = [utype EXCEPT ![e] = ty]
  /\ \/ stopped' = stopped
     \/ \E s \in StreamNames : stopped' = [stopped EXCEPT ![Peer(e)] = @ \cup {s}]
  /\ e \notin foreign /\ phase'[e] \in Working => utype'[e] \in {utype[e], "control"}
  /\ UNCHANGED <<foreign, nuni, nbi>>

LEMMA LaterKeeps ==
  ASSUME NEW q \in Seq(WireFrames), NEW n \in Nat, n <= Len(q), NEW r \in Later(q, n)
  PROVE  r \in Seq(WireFrames) /\ Kept(r, q, n)
<1>1. CASE r = q
  BY <1>1 DEF Kept
<1>2. ASSUME NEW f \in WireFrames, r = Append(q, f) PROVE r \in Seq(WireFrames) /\ Kept(r, q, n)
  BY <1>2 DEF Kept
<1>3. ASSUME NEW m \in n .. Len(q), r = EndBehind(q, m)
      PROVE  r \in Seq(WireFrames) /\ Kept(r, q, n)
  <2> DEFINE cut == SubSeq(q, 1, m)
             f == Frame("end", NoSettings)
  <2>1. f \in WireFrames /\ m \in Nat /\ m <= Len(q) /\ n <= m
    BY DEF WireFrames
  <2>2. cut \in Seq(WireFrames) /\ Len(cut) = m /\ \A i \in 1 .. m : cut[i] = q[i]
    BY <2>1
  <2> HIDE DEF cut, f
  <2>3. r = Append(cut, f)
    BY <1>3 DEF EndBehind, cut, f
  <2> QED BY <2>1, <2>2, <2>3 DEF Kept
<1> QED BY <1>1, <1>2, <1>3 DEF Later

LEMMA OwnFrames ==
  /\ Frame("settings", OwnSettings) \in WireFrames
  /\ OwnRequest \in WireFrames /\ OwnOk \in WireFrames
BY DEF WireFrames

\* A foreign end writes, a wt-rs end that gave up finishes a stream.
LEMMA StreamNext ==
  ASSUME TypeInv, NEW e \in Ends, NEW s \in StreamNames,
         ForeignWrite(e, s) \/ Finish(e, s), e \in foreign \/ phase'[e] \notin Working,
         UNCHANGED <<foreign, nuni, nbi, stopped>>
  PROVE  WireNext(e)
<1>0. /\ Len(uni[e]) \in Nat /\ Len(bi[e]) \in Nat /\ Peer(e) \in Ends
      /\ nuni[Peer(e)] \in 0 .. Len(uni[e]) /\ nbi[Peer(e)] \in 0 .. Len(bi[e])
      /\ utype[e] \in {"none", "control", "other", "end"}
  BY PeerType DEF TypeInv, TypeOK, WireType
<1>1. CASE ForeignOpen(e)
  BY <1>1 DEF ForeignOpen, WireNext, Renamed
<1>2. ASSUME NEW f \in ForeignFrames, ForeignUni(e, f) PROVE WireNext(e)
  BY <1>2 DEF ForeignUni, WireNext, Later, WireFrames
<1>3. ASSUME NEW f \in ForeignHeaders[e], ForeignBi(e, f) PROVE WireNext(e)
  BY <1>3 DEF ForeignBi, WireNext, Later, WireFrames, Ends
<1>4. CASE Finish(e, s) \/ Reset(e, s)
  <2>1. /\ \A n \in nuni[Peer(e)] .. Len(uni[e]) : EndBehind(uni[e], n) \in Later(uni[e], nuni[Peer(e)])
        /\ \A n \in nbi[Peer(e)] .. Len(bi[e]) : EndBehind(bi[e], n) \in Later(bi[e], nbi[Peer(e)])
    BY DEF Later
  <2>2. \/ /\ UNCHANGED <<uni, bi>> /\ utype' = [utype EXCEPT ![e] = "end"]
           /\ utype[e] = "none" \/ acc[Peer(e)] = "stream"
        \/ UNCHANGED <<utype, bi>> /\ \E n \in nuni[Peer(e)] .. Len(uni[e]) :
                                       uni' = [uni EXCEPT ![e] = EndBehind(uni[e], n)]
        \/ UNCHANGED <<utype, uni>> /\ \E n \in nbi[Peer(e)] .. Len(bi[e]) :
                                       bi' = [bi EXCEPT ![e] = EndBehind(bi[e], n)]
    <3>1. /\ nuni[Peer(e)] \in nuni[Peer(e)] .. Len(uni[e])
          /\ Len(uni[e]) \in nuni[Peer(e)] .. Len(uni[e])
          /\ nbi[Peer(e)] \in nbi[Peer(e)] .. Len(bi[e])
          /\ Len(bi[e]) \in nbi[Peer(e)] .. Len(bi[e])
      BY <1>0
    <3>2. CASE Finish(e, s)
      BY <3>1, <3>2 DEF Finish
    <3>3. CASE Reset(e, s)
      BY <3>1, <3>3 DEF Reset
    <3> QED BY <1>4, <3>2, <3>3
  <2>3. Renamed(e, "end") \/ ~(utype[e] = "none" \/ acc[Peer(e)] = "stream")
    BY DEF Renamed
  <2> QED BY <2>1, <2>2, <2>3 DEF WireNext
<1> QED BY <1>1, <1>2, <1>3, <1>4 DEF ForeignWrite

\* Every step leaves the wire alone or changes it as WireNext says.
LEMMA WireStep ==
  ASSUME TypeInv, [Next]_vars
  PROVE  UNCHANGED wire \/ \E e \in Ends : WireNext(e)
<1>0. foreign \subseteq Ends
  BY SessionAssumption DEF TypeInv, TypeOK
<1>1. ASSUME NEW e \in Ends \ foreign, Step(e) PROVE UNCHANGED wire \/ WireNext(e)
  <2>1. CASE OpenControl(e)
    <3>1. utype[e] \in {"none", "control"}
      BY <2>1 DEF OpenControl, OpenAs, Working, TypeInv, WireType
    <3>2. utype \in [Ends -> {"none", "control", "other", "end"}]
      BY DEF TypeInv, TypeOK
    <3>3. utype' = utype \/ (utype' = [utype EXCEPT ![e] = "control"] /\ Renamed(e, "control"))
      BY <2>1, <3>1 DEF OpenControl, OpenAs, Renamed
    <3>4. utype'[e] \in {utype[e], "control"}
      BY <3>2, <3>3
    <3> QED BY <2>1, <3>3, <3>4 DEF OpenControl, OpenAs, WireNext
  <2>2. CASE SendSettings(e)
    BY <2>2, OwnFrames DEF SendSettings, Written, WireNext, Later
  <2>3. ASSUME NEW f \in WireFrames, NEW p, SendHeaders(e, f, p) PROVE WireNext(e)
    BY <2>3 DEF SendHeaders, Written, WireNext, Later, half
  <2>4. CASE \/ AcceptControl(e) \/ ReadSettings(e) \/ CheckSupport(e)
             \/ ReadResponse \/ ReadRequest \/ Disconnected(e)
    BY <2>4 DEF AcceptControl, ReadSettings, CheckSupport, ReadResponse, ReadRequest,
                ReadHeaders, Disconnected
  <2> QED BY <1>1, <2>1, <2>2, <2>3, <2>4, OwnFrames DEF Step, SendRequest, SendOk
<1>2. ASSUME NEW e \in Ends, NEW s \in StreamNames,
             Stop(e, s), UNCHANGED <<foreign, utype, uni, bi, nuni, nbi>>
      PROVE  WireNext(e)
  BY <1>2 DEF Stop, WireNext
<1>3. ASSUME NEW e \in Ends, NEW s \in StreamNames, DropStream(e, s) PROVE WireNext(e)
  BY <1>2, <1>3, StreamNext DEF DropStream, Quit, Working, half
<1>4. ASSUME NEW e \in foreign \cap Ends, ForeignStep(e) PROVE WireNext(e)
  BY <1>2, <1>4, StreamNext DEF ForeignStep, half
<1>5. ASSUME NEW e \in Ends, Abandon(e) \/ Lose(e) PROVE UNCHANGED wire
  BY <1>5 DEF Abandon, Lose
<1>6. CASE UNCHANGED vars
  BY <1>6 DEF vars, wire
<1>7. CASE Next
  BY <1>0, <1>1, <1>3, <1>4, <1>5, <1>7 DEF Next
<1> QED BY <1>6, <1>7

-----------------------------------------------------------------------------
(* Typing                                                                  *)

\* The variables that are neither on the wire nor counters.
LocalTyped ==
  /\ foreign \subseteq Ends /\ foreign \in Pairings
  /\ down \in [Ends -> BOOLEAN]
  /\ phase \in [Ends -> Working \cup Final]
  /\ acc \in [Ends -> {"stream", "frame", "done"}]
  /\ opn \in [Ends -> {"stream", "frame", "done"}]
  /\ theirs = [e \in Ends |-> theirs[e]]

LEMMA LocalType == ASSUME TypeInv PROVE LocalTyped
BY SessionAssumption DEF TypeInv, TypeOK, WireType, LocalTyped

\* Every step types the local variables, and no end that is done works again.
LEMMA LocalStep ==
  ASSUME TypeInv, [Next]_vars
  PROVE  /\ LocalTyped' /\ foreign' = foreign
         /\ \A d \in Ends : phase'[d] \in Working => phase[d] \in Working
<1> DEFINE Moves(e) == \/ UNCHANGED phase
                       \/ phase[e] \in Working /\ \E p \in Working \cup Final : Goto(e, p)
<1> USE LocalType
<1>0. foreign \subseteq Ends
  BY DEF LocalTyped
<1>1. ASSUME NEW e \in Ends, Moves(e),
             UNCHANGED <<foreign, down>>,
             acc' = acc \/ \E x \in {"frame", "done"} : acc' = [acc EXCEPT ![e] = x],
             opn' = opn \/ \E x \in {"frame", "done"} : opn' = [opn EXCEPT ![e] = x],
             theirs' = theirs \/ \E x : theirs' = [theirs EXCEPT ![e] = x]
      PROVE  /\ LocalTyped' /\ foreign' = foreign
             /\ \A d \in Ends : phase'[d] \in Working => phase[d] \in Working
  <2>1. /\ phase' \in [Ends -> Working \cup Final]
        /\ \A d \in Ends : phase'[d] \in Working => phase[d] \in Working
    BY <1>1 DEF Goto, LocalTyped
  <2>2. acc' \in [Ends -> {"stream", "frame", "done"}]
    BY <1>1 DEF LocalTyped
  <2>3. opn' \in [Ends -> {"stream", "frame", "done"}]
    BY <1>1 DEF LocalTyped
  <2>4. theirs' = [d \in Ends |-> theirs'[d]]
    BY <1>1 DEF LocalTyped
  <2> QED BY <1>1, <2>1, <2>2, <2>3, <2>4 DEF LocalTyped
<1>2. ASSUME NEW e \in Ends, Step(e)
      PROVE  /\ LocalTyped' /\ foreign' = foreign
             /\ \A d \in Ends : phase'[d] \in Working => phase[d] \in Working
  <2> USE DEF Working, Final
  <2>1. CASE OpenControl(e) \/ SendSettings(e)
    BY <1>1, <2>1 DEF OpenControl, OpenAs, SendSettings, WriteFails
  <2>2. CASE AcceptControl(e)
    BY <1>1, <2>2 DEF AcceptControl
  <2>3. CASE ReadSettings(e)
    BY <1>1, <2>3 DEF ReadSettings
  <2>4. CASE CheckSupport(e)
    BY <1>1, <2>4 DEF CheckSupport, half
  <2>5. CASE SendRequest \/ SendOk
    BY <1>1, <2>5 DEF SendRequest, SendOk, SendHeaders, WriteFails, half, Ends
  <2>6. CASE ReadRequest \/ ReadResponse
    BY <1>1, <2>6 DEF ReadRequest, ReadResponse, ReadHeaders, half, Ends
  <2>7. CASE Disconnected(e)
    BY <1>1, <2>7 DEF Disconnected, half
  <2> QED BY <1>2, <2>1, <2>2, <2>3, <2>4, <2>5, <2>6, <2>7 DEF Step
<1>3. ASSUME NEW e \in Ends, Abandon(e) PROVE Moves(e)
  BY <1>3 DEF Abandon, Final
<1>4. ASSUME NEW e \in Ends, \/ Abandon(e) \/ ForeignStep(e)
                             \/ \E s \in StreamNames : DropStream(e, s)
      PROVE  /\ LocalTyped' /\ foreign' = foreign
             /\ \A d \in Ends : phase'[d] \in Working => phase[d] \in Working
  BY <1>1, <1>3, <1>4 DEF Abandon, ForeignStep, DropStream, half
<1>5. ASSUME NEW e \in Ends, Lose(e)
      PROVE  /\ LocalTyped' /\ foreign' = foreign
             /\ \A d \in Ends : phase'[d] \in Working => phase[d] \in Working
  BY <1>5 DEF Lose, LocalTyped, half
<1>6. CASE UNCHANGED vars
  BY <1>6 DEF vars, LocalTyped
<1> HIDE DEF Moves
<1> QED BY <1>0, <1>2, <1>4, <1>5, <1>6 DEF Next

\* An end counts a frame as read only if it is there.
LEMMA CountStep ==
  ASSUME TypeInv, [Next]_vars
  PROVE  \/ UNCHANGED <<nuni, nbi>>
         \/ \E e \in Ends :
              /\ UNCHANGED wire
              /\ \/ /\ nuni' = [nuni EXCEPT ![e] = @ + 1] /\ nbi' = nbi
                    /\ nuni[e] < Len(uni[Peer(e)])
                 \/ /\ nbi' = [nbi EXCEPT ![e] = @ + 1] /\ nuni' = nuni
                    /\ nbi[e] < Len(bi[Peer(e)])
<1>0. foreign \subseteq Ends
  BY LocalType DEF LocalTyped
<1>1. ASSUME NEW e \in Ends, ReadSettings(e)
      PROVE  /\ nuni' = [nuni EXCEPT ![e] = @ + 1] /\ nbi' = nbi
             /\ UNCHANGED wire /\ nuni[e] < Len(uni[Peer(e)])
  BY <1>1 DEF ReadSettings
<1>2. ASSUME NEW e \in Ends, \/ e = "client" /\ ReadResponse
                             \/ e = "server" /\ ReadRequest
      PROVE  /\ nbi' = [nbi EXCEPT ![e] = @ + 1] /\ nuni' = nuni
             /\ UNCHANGED wire /\ nbi[e] < Len(bi[Peer(e)])
  BY <1>2 DEF ReadResponse, ReadRequest, ReadHeaders, half
<1>3. ASSUME NEW e \in Ends, \/ OpenControl(e) \/ SendSettings(e) \/ AcceptControl(e)
                             \/ CheckSupport(e) \/ SendRequest \/ SendOk
                             \/ Disconnected(e) \/ Abandon(e) \/ Lose(e) \/ ForeignStep(e)
                             \/ \E s \in StreamNames : DropStream(e, s)
      PROVE  UNCHANGED <<nuni, nbi>>
  BY <1>3 DEF OpenControl, OpenAs, SendSettings, AcceptControl, CheckSupport, SendRequest,
              SendOk, SendHeaders, Disconnected, Abandon, Lose, ForeignStep, DropStream, half
<1>4. CASE UNCHANGED vars
  BY <1>4 DEF vars
<1>5. ASSUME NEW e \in Ends, Step(e)
      PROVE  \/ UNCHANGED <<nuni, nbi>> \/ ReadSettings(e)
             \/ e = "client" /\ ReadResponse
             \/ e = "server" /\ ReadRequest
  BY <1>3, <1>5 DEF Step
<1> QED BY <1>0, <1>1, <1>2, <1>3, <1>4, <1>5 DEF Next

\* Every other variable keeps its type, and what has been read stays.
LEMMA TypeStep == ASSUME TypeInv, [Next]_vars PROVE TypeInv' /\ \A d \in Ends : Keeps(d)
<1>0. /\ uni \in [Ends -> Seq(WireFrames)] /\ bi \in [Ends -> Seq(WireFrames)]
      /\ nuni \in [Ends -> Nat] /\ nbi \in [Ends -> Nat]
      /\ \A d \in Ends : nuni[d] <= Len(uni[Peer(d)]) /\ nbi[d] <= Len(bi[Peer(d)])
      /\ utype \in [Ends -> {"none", "control", "other", "end"}]
      /\ stopped \in [Ends -> SUBSET StreamNames]
      /\ foreign \subseteq Ends
      /\ \A e \in Ends \ foreign : phase[e] \in Working => utype[e] \in {"none", "control"}
  BY LocalType DEF TypeInv, TypeOK, WireType, LocalTyped
<1>1. /\ LocalTyped' /\ foreign' = foreign
      /\ \A d \in Ends : phase'[d] \in Working => phase[d] \in Working
  BY LocalStep
<1>2. ASSUME NEW d \in Ends, UNCHANGED wire PROVE Keeps(d)
  BY <1>0, <1>2, PeerType DEF Keeps, Kept, wire
<1>3. ASSUME NEW e \in Ends, WireNext(e)
      PROVE  /\ uni' \in [Ends -> Seq(WireFrames)] /\ bi' \in [Ends -> Seq(WireFrames)]
             /\ utype' \in [Ends -> {"none", "control", "other", "end"}]
             /\ stopped' \in [Ends -> SUBSET StreamNames]
             /\ nuni' = nuni /\ nbi' = nbi
             /\ \A d \in Ends : Keeps(d)
             /\ \A x \in Ends \ foreign : phase'[x] \in Working => utype'[x] \in {"none", "control"}
  <2> DEFINE d == Peer(e)
  <2>1. d \in Ends /\ Peer(d) = e /\ d # e /\ Ends = {e, d}
    BY PeerType DEF Ends
  <2>2. \A q \in Seq(WireFrames), n \in Nat : n <= Len(q) => Kept(q, q, n)
    BY DEF Kept
  <2> HIDE DEF d
  <2>3. uni' \in [Ends -> Seq(WireFrames)] /\ Kept(uni'[e], uni[e], nuni[d]) /\ uni'[d] = uni[d]
    BY <1>0, <1>3, <2>1, <2>2, LaterKeeps DEF WireNext, d
  <2>4. bi' \in [Ends -> Seq(WireFrames)] /\ Kept(bi'[e], bi[e], nbi[d]) /\ bi'[d] = bi[d]
    BY <1>0, <1>3, <2>1, <2>2, LaterKeeps DEF WireNext, d
  <2>5. /\ utype' \in [Ends -> {"none", "control", "other", "end"}]
        /\ utype'[d] = utype[d]
        /\ acc[d] # "stream" /\ utype[e] # "none" => utype'[e] = utype[e]
        /\ utype[e] \in {"other", "end"} => utype'[e] \in {"other", "end"}
    BY <1>0, <1>3, <2>1 DEF WireNext, Renamed, d
  <2>6. /\ stopped' \in [Ends -> SUBSET StreamNames]
        /\ \A x \in Ends : stopped[x] \subseteq stopped'[x]
    BY <1>0, <1>3, <2>1 DEF WireNext, d
  <2>7. Keeps(d)
    BY <2>1, <2>3, <2>4, <2>5, <2>6 DEF Keeps
  <2>8. Keeps(e)
    BY <1>0, <2>1, <2>2, <2>3, <2>4, <2>5, <2>6 DEF Keeps, d
  <2>9. \A x \in Ends \ foreign : phase'[x] \in Working => utype'[x] \in {"none", "control"}
    BY <1>0, <1>1, <1>3, <2>1, <2>5 DEF WireNext
  <2> QED BY <1>3, <2>1, <2>3, <2>4, <2>5, <2>6, <2>7, <2>8, <2>9 DEF WireNext
<1>4. /\ uni' \in [Ends -> Seq(WireFrames)] /\ bi' \in [Ends -> Seq(WireFrames)]
      /\ utype' \in [Ends -> {"none", "control", "other", "end"}]
      /\ stopped' \in [Ends -> SUBSET StreamNames]
      /\ \A d \in Ends : Keeps(d)
  BY <1>0, <1>2, <1>3, WireStep DEF wire
<1>5. /\ nuni' \in [Ends -> Nat] /\ nbi' \in [Ends -> Nat]
      /\ \A d \in Ends : nuni'[d] <= Len(uni'[Peer(d)]) /\ nbi'[d] <= Len(bi'[Peer(d)])
  <2>1. CASE UNCHANGED <<nuni, nbi>>
    BY <1>0, <1>4, <2>1 DEF Keeps, Kept
  <2>2. ASSUME NEW e \in Ends, UNCHANGED wire,
               \/ /\ nuni' = [nuni EXCEPT ![e] = @ + 1] /\ nbi' = nbi
                  /\ nuni[e] < Len(uni[Peer(e)])
               \/ /\ nbi' = [nbi EXCEPT ![e] = @ + 1] /\ nuni' = nuni
                  /\ nbi[e] < Len(bi[Peer(e)])
        PROVE  /\ nuni' \in [Ends -> Nat] /\ nbi' \in [Ends -> Nat]
               /\ \A d \in Ends : nuni'[d] <= Len(uni'[Peer(d)]) /\ nbi'[d] <= Len(bi'[Peer(d)])
    <3>1. \A d \in Ends : Len(uni[Peer(d)]) \in Nat /\ Len(bi[Peer(d)]) \in Nat
      BY <1>0, PeerType
    <3>2. uni' = uni /\ bi' = bi /\ \A d \in Ends : Peer(d)' = Peer(d)
      BY <2>2 DEF wire, Peer
    <3>0. nuni \in [Ends -> Nat] /\ nbi \in [Ends -> Nat]
      BY <1>0
    <3>b. \/ nuni' = [nuni EXCEPT ![e] = nuni[e] + 1] /\ nbi' = nbi
          \/ nbi' = [nbi EXCEPT ![e] = nbi[e] + 1] /\ nuni' = nuni
      BY <2>2
    <3>3. nuni' \in [Ends -> Nat] /\ nbi' \in [Ends -> Nat]
      BY <3>0, <3>b
    <3>4. ASSUME NEW d \in Ends PROVE nuni'[d] <= Len(uni[Peer(d)]) /\ nbi'[d] <= Len(bi[Peer(d)])
      <4>1. nuni[d] <= Len(uni[Peer(d)]) /\ nbi[d] <= Len(bi[Peer(d)])
        BY <1>0
      <4>2. CASE d # e
        BY <3>0, <3>b, <4>1, <4>2
      <4>3. CASE d = e
        BY <2>2, <3>0, <3>1, <4>1, <4>3
      <4> QED BY <4>2, <4>3
    <3> QED BY <3>2, <3>3, <3>4
  <2> QED BY <2>1, <2>2, CountStep
<1>6. \A e \in Ends \ foreign : phase'[e] \in Working => utype'[e] \in {"none", "control"}
  BY <1>0, <1>1, <1>3, WireStep DEF wire
<1>7. TypeOK' /\ WireType'
  BY <1>1, <1>4, <1>5, <1>6 DEF TypeOK, WireType, LocalTyped
<1> QED BY <1>4, <1>7 DEF TypeInv

-----------------------------------------------------------------------------
(* Frames                                                                  *)

\* What has been found among the frames that were read stays there.
LEMMA FoundStays ==
  ASSUME NEW S, NEW old \in Seq(S), NEW new \in Seq(S), NEW n \in Nat,
         n <= Len(old), Kept(new, old, n)
  PROVE  /\ \A i \in 1 .. n : new[i] = old[i] /\ (Counts(old, i) => Counts(new, i))
         /\ Greased(old, n) => Greased(new, n)
BY DEF Kept, Counts, Greased

\* The next frame is greased too, or it is the one that counts.
LEMMA NextFrame ==
  ASSUME NEW S, NEW q \in Seq(S), NEW n \in Nat, n < Len(q), Greased(q, n)
  PROVE  /\ n + 1 \in DOMAIN q /\ q[n + 1] \in S
         /\ q[n + 1].type = "grease" => Greased(q, n + 1)
         /\ q[n + 1].type # "grease" => Counts(q, n + 1)
BY DEF Greased, Counts

\* The body of a SETTINGS frame maps settings of WebTransport to numbers.
LEMMA SettingsBody ==
  ASSUME NEW f \in WireFrames, f.type = "settings"
  PROVE  \E D \in SUBSET SettingNames : f.body \in [D -> Nat]
<1>1. CASE f \in ForeignFrames \cup ForeignHeaders["client"] \cup ForeignHeaders["server"]
  BY <1>1, SessionAssumption DEF Ends
<1>2. CASE f = Frame("settings", OwnSettings)
  BY <1>2 DEF Frame, OwnSettings
<1>3. CASE f = OwnRequest \/ f = OwnOk \/ f = Frame("end", NoSettings)
  BY <1>3 DEF OwnRequest, OwnOk, Frame
<1> QED BY <1>1, <1>2, <1>3 DEF WireFrames

\* Of the settings an end reads, supports_webtransport says yes only if one was
\* announced, and no only if there is none or one that reads as zero.
LEMMA SupportsFair ==
  ASSUME NEW f \in WireFrames, f.type = "settings"
  PROVE  /\ Supports(Decoded(f.body)) => Announces(f)
         /\ ~Supports(Decoded(f.body)) => Disables(f)
<1>1. PICK D \in SUBSET SettingNames : f.body \in [D -> Nat]
  BY SettingsBody
<1>2. U32 \in Nat \ {0, 1}
  BY SessionAssumption
<1>3. \A x \in Nat : x % U32 \in Nat /\ (x = 0 => x % U32 = 0)
  BY <1>2
<1> DEFINE st == Decoded(f.body)
<1>4. /\ DOMAIN st = D /\ DOMAIN f.body = D
      /\ \A k \in D : st[k] = f.body[k] % U32 /\ f.body[k] \in Nat /\ st[k] \in Nat
  BY <1>1, <1>3 DEF Decoded
<1> HIDE DEF st
<1>5. ASSUME Supports(st) PROVE Announces(f)
  <2>1. PICK k \in D : st[k] >= 1
    BY <1>4, <1>5 DEF Supports
  <2>2. f.body[k] >= 1
    BY <1>3, <1>4, <2>1
  <2> QED BY <1>4, <2>2 DEF Announces
<1>6. ASSUME ~Supports(st), D # {} PROVE \E k \in D : st[k] = 0
  <2>1. "enable" \in D \/ "max" \in D \/ "max_old" \in D
    BY <1>6 DEF SettingNames
  <2>2. PICK k \in D : ~(st[k] >= 1)
    BY <1>4, <1>6, <2>1 DEF Supports
  <2> QED BY <1>4, <2>2
<1> QED BY <1>4, <1>5, <1>6 DEF Disables, st

\* The checks of a response, or a request, ask for what a wt-rs end sends.
LEMMA ValidFair ==
  ASSUME NEW e \in Ends, NEW f, f.type = "headers"
  PROVE  Valid(e, f.body) <=> Agrees(e, f)
<1>1. CASE e = "client"
  BY <1>1 DEF Agrees, Model, OwnOk, Frame, Valid, ValidResponse
<1>2. CASE e = "server"
  BY <1>2 DEF Agrees, Model, OwnRequest, Frame, Valid, ValidRequest
<1> QED BY <1>1, <1>2 DEF Ends

-----------------------------------------------------------------------------
(* What an end makes of its peer                                           *)

\* What has been read of the peer is judged the same after a step that reads
\* nothing.
LEMMA PeerKeeps ==
  ASSUME TypeInv, TypeInv', NEW e \in Ends, Judged(e), Keeps(e),
         phase'[e] = phase[e], acc'[e] = acc[e], theirs'[e] = theirs[e],
         nuni'[e] = nuni[e], nbi'[e] = nbi[e]
  PROVE  Judged(e)'
<1> DEFINE p == Peer(e)
<1>0. /\ p \in Ends
      /\ uni[p] \in Seq(WireFrames) /\ uni'[p] \in Seq(WireFrames)
      /\ bi[p] \in Seq(WireFrames) /\ bi'[p] \in Seq(WireFrames)
      /\ Kept(uni'[p], uni[p], nuni[e]) /\ Kept(bi'[p], bi[p], nbi[e])
      /\ acc[e] # "stream" /\ utype[p] # "none" => utype'[p] = utype[p]
      /\ utype[p] \in {"other", "end"} => utype'[p] \in {"other", "end"}
      /\ stopped[e] \subseteq stopped'[e]
      /\ nuni[e] \in Nat /\ nuni[e] <= Len(uni[p])
      /\ nbi[e] \in Nat /\ nbi[e] <= Len(bi[p])
  BY PeerType DEF TypeInv, TypeOK, WireType, Keeps
<1> HIDE DEF p
<1>1. /\ \A i \in 1 .. nuni[e] : /\ uni'[p][i] = uni[p][i]
                                 /\ Counts(uni[p], i) => Counts(uni'[p], i)
      /\ Greased(uni[p], nuni[e]) => Greased(uni'[p], nuni[e])
  BY <1>0, FoundStays
<1>2. /\ \A i \in 1 .. nbi[e] : /\ bi'[p][i] = bi[p][i]
                                /\ Counts(bi[p], i) => Counts(bi'[p], i)
      /\ Greased(bi[p], nbi[e]) => Greased(bi'[p], nbi[e])
  BY <1>0, FoundStays
<1>3. p' = p
  BY DEF p, Peer
<1>4. ASSUME SettingsRead(e) PROVE SettingsRead(e)'
  <2>1. ASSUME acc[e] = "done" PROVE nuni[e] \in 1 .. nuni[e]
    BY <1>0, <1>4, <2>1 DEF SettingsRead, Counts, p
  <2> QED BY <1>0, <1>1, <1>3, <1>4, <2>1 DEF SettingsRead, p
<1>5. (Announced(e) => Announced(e)') /\ (Agreed(e) => Agreed(e)')
  BY <1>0, <1>1, <1>2, <1>3 DEF Announced, Agreed, p
<1>6. Objection(e) => Objection(e)'
  BY <1>0, <1>1, <1>2, <1>3 DEF Objection, p
<1>7. Greased(bi[Peer(e)], nbi[e]) => Greased(bi[Peer(e)], nbi[e])'
  BY <1>2, <1>3 DEF p, Greased
<1> QED BY <1>4, <1>5, <1>6, <1>7 DEF Judged

\* What e has of its peer, as a step of e leaves it.
SameWire(e) ==
  LET p == Peer(e) IN
  utype'[p] = utype[p] /\ uni'[p] = uni[p] /\ bi'[p] = bi[p] /\ stopped'[e] = stopped[e]

\* An end writes on its own streams only.
LEMMA OwnWire ==
  ASSUME TypeInv, NEW e \in Ends, Step(e) \/ Abandon(e)
  PROVE  SameWire(e)
<1> DEFINE p == Peer(e)
<1>1. p \in Ends /\ p # e
  BY PeerType
<1> HIDE DEF p
<1> USE DEF SameWire, p
<1>2. CASE OpenControl(e)
  BY <1>1, <1>2 DEF OpenControl, OpenAs, TypeInv, TypeOK
<1>3. CASE SendSettings(e)
  BY <1>1, <1>3 DEF SendSettings, Written, TypeInv, WireType
<1>4. ASSUME NEW f, NEW to, SendHeaders(e, f, to) PROVE SameWire(e)
  BY <1>1, <1>4 DEF SendHeaders, Written, TypeInv, WireType
<1>5. CASE (e = "client" /\ SendRequest) \/ (e = "server" /\ SendOk)
  BY <1>4, <1>5 DEF SendRequest, SendOk
<1>6. CASE \/ AcceptControl(e) \/ ReadSettings(e) \/ CheckSupport(e)
           \/ ReadResponse \/ ReadRequest \/ Disconnected(e) \/ Abandon(e)
  BY <1>6 DEF AcceptControl, ReadSettings, CheckSupport, ReadResponse, ReadRequest,
              ReadHeaders, Disconnected, Abandon, wire
<1> QED BY <1>2, <1>3, <1>5, <1>6 DEF Step

\* A write fails because the peer stopped the stream.
LEMMA Stopped ==
  ASSUME TypeInv, NEW e \in Ends, NEW s \in stopped[e], Goto(e, "failed"),
         stopped'[e] = stopped[e]
  PROVE  Judged(e)'
<1>1. phase'[e] = "failed"
  BY DEF TypeInv, TypeOK, Goto
<1>2. Objection(e)'
  BY DEF Objection
<1> QED BY <1>1, <1>2 DEF Judged

\* The settings exchange judges a peer by the first thing that counts.
LEMMA SettingsKeep ==
  ASSUME TypeInv, TypeInv', NEW e \in Ends, Judged(e),
         SameWire(e),
         \/ OpenControl(e) \/ SendSettings(e) \/ AcceptControl(e)
         \/ ReadSettings(e) \/ CheckSupport(e)
  PROVE  Judged(e)'
<1> DEFINE p == Peer(e)
<1>0. /\ p \in Ends /\ p' = p
      /\ uni[p] \in Seq(WireFrames) /\ nuni[e] \in Nat /\ nuni[e] <= Len(uni[p])
      /\ utype[p] \in {"none", "control", "other", "end"}
      /\ utype'[p] = utype[p] /\ uni'[p] = uni[p] /\ stopped'[e] = stopped[e]
      /\ phase \in [Ends -> Working \cup Final]
      /\ acc \in [Ends -> {"stream", "frame", "done"}]
      /\ nuni \in [Ends -> Nat] /\ theirs = [d \in Ends |-> theirs[d]]
  BY PeerType DEF TypeInv, TypeOK, WireType, Peer, SameWire
<1>1. SettingsRead(e) /\ phase[e] = "settings"
  BY DEF Judged, OpenControl, OpenAs, SendSettings, AcceptControl, ReadSettings, CheckSupport
<1>2. CASE OpenControl(e) \/ SendSettings(e)
  <2>1. CASE UNCHANGED <<phase, acc, theirs, nuni, nbi>>
    BY <1>0, <1>1, <2>1 DEF Judged, SettingsRead, Counts, Greased
  <2>2. CASE WriteFails(e, "uni")
    BY <1>0, <2>2, Stopped DEF WriteFails
  <2> QED BY <1>2, <2>1, <2>2 DEF OpenControl, OpenAs, SendSettings
<1>3. CASE AcceptControl(e)
  <2>1. acc[e] = "stream" /\ UNCHANGED <<theirs, nuni, nbi>>
    BY <1>3 DEF AcceptControl, half
  <2>2. CASE utype[p] = "control" /\ acc' = [acc EXCEPT ![e] = "frame"] /\ UNCHANGED phase
    <3>1. SettingsRead(e)'
      BY <1>0, <1>1, <2>1, <2>2 DEF SettingsRead, Greased
    <3> QED BY <1>1, <2>2, <3>1 DEF Judged
  <2>3. CASE utype[p] \notin {"none", "control"} /\ phase' = [phase EXCEPT ![e] = "failed"]
    <3>1. Objection(e)'
      BY <1>0, <2>3 DEF Objection
    <3> QED BY <1>0, <2>3, <3>1 DEF Judged
  <2> QED BY <1>3, <2>2, <2>3 DEF AcceptControl, Goto
<1>4. CASE ReadSettings(e)
  <2> DEFINE f == uni[p][nuni[e] + 1]
  <2>1. /\ acc[e] = "frame" /\ nuni[e] < Len(uni[p])
        /\ nuni' = [nuni EXCEPT ![e] = @ + 1] /\ nuni'[e] = nuni[e] + 1
        /\ UNCHANGED nbi /\ utype[p] = "control" /\ Greased(uni[p], nuni[e])
    BY <1>0, <1>1, <1>4 DEF ReadSettings, SettingsRead
  <2>2. /\ nuni[e] + 1 \in DOMAIN uni[p] /\ f \in WireFrames
        /\ f.type = "grease" => Greased(uni[p], nuni[e] + 1)
        /\ f.type # "grease" => Counts(uni[p], nuni[e] + 1)
    BY <1>0, <2>1, NextFrame
  <2>3. CASE f.type = "grease" /\ UNCHANGED <<phase, acc, theirs>>
    <3>1. SettingsRead(e)'
      BY <1>0, <1>1, <2>1, <2>2, <2>3 DEF SettingsRead, Greased
    <3> QED BY <1>1, <2>3, <3>1 DEF Judged
  <2>4. CASE /\ f.type = "settings" /\ UNCHANGED phase
             /\ theirs' = [theirs EXCEPT ![e] = Decoded(f.body)]
             /\ acc' = [acc EXCEPT ![e] = "done"]
    <3>1. /\ theirs'[e] = Decoded(f.body) /\ acc'[e] = "done"
          /\ Counts(uni[p], nuni'[e]) /\ nbi'[e] = 0
      BY <1>0, <1>1, <2>1, <2>2, <2>4 DEF SettingsRead
    <3>2. SettingsRead(e)'
      BY <1>0, <2>1, <2>4, <3>1 DEF SettingsRead, Counts
    <3> QED BY <1>1, <2>4, <3>2 DEF Judged
  <2>5. CASE /\ f.type \notin {"grease", "settings"}
             /\ phase'[e] \in {"failed", "panicked"}
    <3>1. Counts(uni'[p], nuni[e] + 1) /\ uni'[p][nuni[e] + 1].type # "settings"
      BY <1>0, <2>2, <2>5
    <3>2. Objection(e)'
      <4>1. nuni[e] + 1 \in 1 .. nuni'[e]
        BY <1>0, <2>1
      <4> QED BY <1>0, <3>1, <4>1 DEF Objection, Disables
    <3> QED BY <2>5, <3>2 DEF Judged
  <2>6. \/ f.type = "grease" /\ UNCHANGED <<phase, acc, theirs>>
        \/ /\ f.type = "settings" /\ UNCHANGED phase
           /\ theirs' = [theirs EXCEPT ![e] = Decoded(f.body)]
           /\ acc' = [acc EXCEPT ![e] = "done"]
        \/ /\ f.type \notin {"grease", "settings"}
           /\ \E how \in {"failed", "panicked"} : phase' = [phase EXCEPT ![e] = how]
    BY <1>4, <2>1 DEF ReadSettings, Goto
  <2> QED BY <1>0, <2>3, <2>4, <2>5, <2>6
<1>5. CASE CheckSupport(e)
  <2> DEFINE n == nuni[e]
             f == uni[p][n]
  <2>1. /\ acc[e] = "done" /\ Counts(uni[p], n) /\ f.type = "settings"
        /\ theirs[e] = Decoded(f.body) /\ utype[p] = "control" /\ nbi[e] = 0
        /\ UNCHANGED nbi
    BY <1>1, <1>5 DEF CheckSupport, SettingsRead, half
  <2>2. n \in 1 .. nuni'[e] /\ f \in WireFrames /\ acc'[e] = "done"
    BY <1>0, <1>5, <2>1 DEF Counts, CheckSupport, half
  <2>3. CASE Supports(theirs[e]) /\ phase' = [phase EXCEPT ![e] = "connect"]
    <3>1. Announces(f)
      BY <2>1, <2>2, <2>3, SupportsFair
    <3>2. Announced(e)'
      BY <1>0, <2>1, <2>2, <3>1 DEF Announced, Counts, Announces
    <3>3. Greased(bi[Peer(e)], nbi[e])'
      BY <2>1 DEF Greased
    <3>4. phase'[e] = "connect"
      BY <1>0, <2>3
    <3> QED BY <3>2, <3>3, <3>4 DEF Judged
  <2>4. CASE ~Supports(theirs[e]) /\ phase' = [phase EXCEPT ![e] = "failed"]
    <3>1. Disables(f)
      BY <2>1, <2>2, <2>4, SupportsFair
    <3>2. Objection(e)'
      BY <1>0, <2>1, <2>2, <3>1 DEF Objection, Counts, Disables
    <3>3. phase'[e] = "failed"
      BY <1>0, <2>4
    <3> QED BY <3>2, <3>3 DEF Judged
  <2> QED BY <1>5, <2>3, <2>4 DEF CheckSupport, Goto
<1> QED BY <1>2, <1>3, <1>4, <1>5

\* A frame on the request stream is skipped, agreed to or objected to.
LEMMA HeadersKeep ==
  ASSUME TypeInv, TypeInv', NEW e \in Ends, NEW next \in {"answer", "established"},
         SameWire(e),
         Announced(e), Greased(bi[Peer(e)], nbi[e]), ReadHeaders(e, next),
         \/ e = "client" /\ phase[e] = "answer" /\ next = "established"
         \/ e = "server" /\ phase[e] = "connect" /\ next = "answer"
  PROVE  Judged(e)'
<1> DEFINE p == Peer(e)
           n == nbi[e] + 1
           f == bi[p][n]
<1>0. /\ p \in Ends /\ p' = p
      /\ bi[p] \in Seq(WireFrames) /\ nbi[e] \in Nat
      /\ utype'[p] = utype[p] /\ uni'[p] = uni[p] /\ bi'[p] = bi[p]
      /\ UNCHANGED <<acc, nuni>>
      /\ phase \in [Ends -> Working \cup Final] /\ nbi \in [Ends -> Nat]
  BY PeerType DEF TypeInv, TypeOK, WireType, Peer, SameWire, ReadHeaders, half
<1>1. nbi[e] < Len(bi[p]) /\ nbi'[e] = n
  BY <1>0 DEF ReadHeaders
<1>2. /\ n \in DOMAIN bi[p] /\ f \in WireFrames
      /\ f.type = "grease" => Greased(bi[p], n)
      /\ f.type # "grease" => Counts(bi[p], n)
  BY <1>0, <1>1, NextFrame
<1>3. Announced(e)'
  BY <1>0 DEF Announced, Counts, Announces
<1>4. CASE f.type = "grease" /\ UNCHANGED phase
  <2>1. Greased(bi[Peer(e)], nbi[e])'
    BY <1>0, <1>1, <1>2, <1>4 DEF Greased
  <2> QED BY <1>3, <1>4, <2>1 DEF Judged
<1>5. CASE f.type = "headers" /\ Valid(e, f.body) /\ phase'[e] = next
  <2>1. Agrees(e, f) /\ Counts(bi[p], n)
    BY <1>2, <1>5, ValidFair
  <2>2. Agreed(e)'
    <3>1. n \in 1 .. nbi'[e] /\ Counts(bi'[p], n) /\ Agrees(e, bi'[p][n])
      BY <1>0, <1>1, <2>1
    <3> HIDE DEF n
    <3> QED BY <1>0, <3>1 DEF Agreed, Counts, Agrees, Has, Model
  <2> QED BY <1>3, <1>5, <2>2 DEF Judged
<1>6. CASE /\ f.type # "grease" /\ ~(f.type = "headers" /\ Valid(e, f.body))
           /\ phase'[e] = "failed"
  <2>1. ~Agrees(e, f) /\ Counts(bi[p], n)
    BY <1>2, <1>6, ValidFair DEF Agrees
  <2>2. n \in 1 .. nbi'[e]
    BY <1>0, <1>1
  <2>3. Objection(e)'
    BY <1>0, <2>1, <2>2 DEF Objection, Counts, Agrees, Has, Model
  <2> QED BY <1>6, <2>3 DEF Judged
<1> QED BY <1>0, <1>1, <1>4, <1>5, <1>6 DEF ReadHeaders, Goto

\* The request and its answer.
LEMMA RequestKeep ==
  ASSUME TypeInv, TypeInv', NEW e \in Ends, Judged(e),
         SameWire(e),
         \/ e = "client" /\ (SendRequest \/ ReadResponse)
         \/ e = "server" /\ (ReadRequest \/ SendOk)
         \/ Disconnected(e) \/ Abandon(e)
  PROVE  Judged(e)'
<1>0. /\ phase \in [Ends -> Working \cup Final] /\ Peer(e)' = Peer(e)
      /\ utype'[Peer(e)] = utype[Peer(e)] /\ uni'[Peer(e)] = uni[Peer(e)]
      /\ bi'[Peer(e)] = bi[Peer(e)] /\ stopped'[e] = stopped[e]
  BY DEF TypeInv, TypeOK, Peer, SameWire
<1>1. CASE (e = "client" /\ ReadResponse) \/ (e = "server" /\ ReadRequest)
  BY <1>1, HeadersKeep DEF ReadResponse, ReadRequest, Judged
<1>2. CASE (e = "client" /\ SendRequest) \/ (e = "server" /\ SendOk)
  <2>1. CASE WriteFails(e, "bi")
    BY <1>0, <2>1, Stopped DEF WriteFails
  <2>2. CASE /\ UNCHANGED <<acc, nuni, nbi>>
             /\ \/ e = "client" /\ phase[e] = "connect" /\ phase'[e] = "answer"
                \/ e = "server" /\ phase[e] = "answer" /\ phase'[e] = "established"
    <3>1. Announced(e)'
      BY <1>0, <2>2 DEF Judged, Announced, Counts, Announces
    <3>2. e = "client" => Greased(bi[Peer(e)], nbi[e])'
      BY <1>0, <2>2 DEF Judged, Greased
    <3>3. e = "server" => Agreed(e)'
      BY <1>0, <2>2 DEF Judged, Agreed, Counts, Agrees, Has, Model
    <3> QED BY <2>2, <3>1, <3>2, <3>3 DEF Judged
  <2> QED BY <1>0, <1>2, <2>1, <2>2 DEF SendRequest, SendOk, SendHeaders, Goto, half
<1>3. CASE Disconnected(e) \/ Abandon(e)
  <2>1. phase'[e] \in {"lost", "abandoned"}
    BY <1>0, <1>3 DEF Disconnected, Abandon, Goto
  <2> QED BY <2>1 DEF Judged
<1> QED BY <1>1, <1>2, <1>3

\* A step of the other end, or of the connection, reads nothing for this end.
WireOnly(d) == ForeignStep(d) \/ Lose(d) \/ \E s \in StreamNames : DropStream(d, s)

LEMMA OthersLocal ==
  ASSUME TypeInv, NEW e \in Ends, NEW d \in Ends,
         (d # e /\ (Step(d) \/ Abandon(d))) \/ WireOnly(d)
  PROVE  /\ phase'[e] = phase[e] /\ acc'[e] = acc[e] /\ theirs'[e] = theirs[e]
         /\ nuni'[e] = nuni[e] /\ nbi'[e] = nbi[e]
<1>0. /\ phase \in [Ends -> Working \cup Final]
      /\ acc \in [Ends -> {"stream", "frame", "done"}]
      /\ nuni \in [Ends -> Nat] /\ nbi \in [Ends -> Nat]
      /\ theirs = [x \in Ends |-> theirs[x]]
  BY DEF TypeInv, TypeOK, WireType
<1>1. CASE WireOnly(d)
  BY <1>1 DEF WireOnly, ForeignStep, DropStream, Lose, half
<1>2. CASE d # e /\ (OpenControl(d) \/ SendSettings(d))
  BY <1>0, <1>2 DEF OpenControl, OpenAs, SendSettings, WriteFails, Goto
<1>3. CASE d # e /\ (AcceptControl(d) \/ CheckSupport(d))
  BY <1>0, <1>3 DEF AcceptControl, CheckSupport, Goto, half
<1>4. CASE d # e /\ ReadSettings(d)
  BY <1>0, <1>4 DEF ReadSettings, Goto
<1>5. CASE /\ d # e
           /\ \/ d = "client" /\ (SendRequest \/ ReadResponse)
              \/ d = "server" /\ (ReadRequest \/ SendOk)
  <2>1. UNCHANGED phase \/ \E to : phase' = [phase EXCEPT ![d] = to]
    BY <1>5 DEF SendRequest, ReadResponse, ReadRequest, SendOk, SendHeaders, ReadHeaders,
                WriteFails, Goto
  <2>2. /\ UNCHANGED <<acc, theirs, nuni>>
        /\ UNCHANGED nbi \/ nbi' = [nbi EXCEPT ![d] = @ + 1]
    BY <1>5 DEF SendRequest, ReadResponse, ReadRequest, SendOk, SendHeaders, ReadHeaders, half
  <2> QED BY <1>0, <1>5, <2>1, <2>2
<1>6. CASE d # e /\ (Disconnected(d) \/ Abandon(d))
  BY <1>0, <1>6 DEF Disconnected, Abandon, Goto, half
<1> QED BY <1>1, <1>2, <1>3, <1>4, <1>5, <1>6 DEF Step

LEMMA PeerInvStep == ASSUME PeerInv, [Next]_vars PROVE PeerInv'
<1>1. TypeInv /\ TypeInv' /\ \A d \in Ends : Keeps(d)
  BY TypeStep DEF PeerInv
<1>2. foreign \subseteq Ends /\ foreign' = foreign
  BY <1>1, LocalType, LocalStep DEF LocalTyped
<1>3. ASSUME NEW e \in Ends \ foreign PROVE Judged(e)'
  <2>0. Judged(e) /\ Keeps(e)
    BY <1>1 DEF PeerInv
  <2>1. CASE Step(e) \/ Abandon(e)
    <3>1. SameWire(e)
      BY <1>1, <2>1, OwnWire
    <3> QED BY <1>1, <2>0, <2>1, <3>1, SettingsKeep, RequestKeep DEF Step
  <2>2. ASSUME NEW d \in Ends,
               (d # e /\ (Step(d) \/ Abandon(d))) \/ WireOnly(d)
        PROVE  Judged(e)'
    <3>1. /\ phase'[e] = phase[e] /\ acc'[e] = acc[e] /\ theirs'[e] = theirs[e]
          /\ nuni'[e] = nuni[e] /\ nbi'[e] = nbi[e]
      BY <1>1, <2>2, OthersLocal
    <3> QED BY <1>1, <2>0, <3>1, PeerKeeps
  <2>3. CASE UNCHANGED vars
    BY <1>1, <2>0, <2>3, PeerKeeps DEF vars
  <2> QED BY <1>2, <2>1, <2>2, <2>3 DEF Next, WireOnly
<1> QED BY <1>1, <1>2, <1>3 DEF PeerInv

LEMMA PeerInvInit == ASSUME Init PROVE PeerInv
<1>1. TypeOK
  BY SessionAssumption DEF Init, TypeOK, Ends, Peer, Working, Final, StreamNames
<1>2. WireType
  BY DEF Init, WireType, Ends
<1>3. ASSUME NEW e \in Ends PROVE Judged(e)
  BY <1>3 DEF Init, Judged, SettingsRead, Greased
<1> QED BY <1>1, <1>2, <1>3 DEF PeerInv, TypeInv

-----------------------------------------------------------------------------

\* The variables of both ends keep their types.
THEOREM SessionTypeCorrect == Spec => []TypeOK
<1>1. PeerInv => TypeOK
  BY DEF PeerInv, TypeInv
<1> QED BY <1>1, PeerInvInit, PeerInvStep, PTL DEF Spec

\* Whatever its peer is, an end holds a session only if the peer announced
\* WebTransport and asked for the session or agreed to it.
THEOREM JustifiedCorrect == Spec => []Justified
<1>1. PeerInv => Justified
  BY DEF PeerInv, Justified, Judged, Grounds, Announced, Agreed
<1> QED BY <1>1, PeerInvInit, PeerInvStep, PTL DEF Spec

\* Whatever its peer is, an end that fails objects to the first frame that counts
\* among those it has read on one of the peer's streams, to the type or the end of
\* the first stream, or to one of its own streams being stopped.
THEOREM FailsForCauseCorrect == Spec => []FailsForCause
<1>1. PeerInv => FailsForCause
  BY DEF PeerInv, FailsForCause, Judged
<1> QED BY <1>1, PeerInvInit, PeerInvStep, PTL DEF Spec

-----------------------------------------------------------------------------
(***************************************************************************)
(* Two wt-rs ends                                                          *)
(***************************************************************************)

\* No end is another implementation.
OnlyWtRs == Pairings = {{}}

\* The server answers after its settings exchange, as its last step, and only
\* that answer lets the client go on.
AgreeInv ==
  /\ foreign = {}
  /\ phase["server"] \in {"connect", "answer", "established"}
       => acc["server"] = "done"
  /\ phase["server"] # "established"
       => \A i \in DOMAIN bi["server"] : bi["server"][i].type = "end"
  /\ phase["client"] = "established" => phase["server"] = "established"

\* Every step of a wt-rs end keeps the invariant.
LEMMA AgreeStep ==
  ASSUME OnlyWtRs, TypeInv, AgreeInv, [Next]_vars PROVE AgreeInv'
<1> USE DEF Ends
<1>0. /\ phase \in [Ends -> Working \cup Final]
      /\ acc \in [Ends -> {"stream", "frame", "done"}]
      /\ bi \in [Ends -> Seq(WireFrames)] /\ nbi \in [Ends -> Nat]
  BY DEF TypeInv, TypeOK, WireType
<1>1. ASSUME NEW e \in Ends, OpenControl(e) \/ SendSettings(e) PROVE AgreeInv'
  BY <1>0, <1>1 DEF AgreeInv, OpenControl, OpenAs, SendSettings, WriteFails, Goto
<1>2. ASSUME NEW e \in Ends, AcceptControl(e) PROVE AgreeInv'
  BY <1>0, <1>2 DEF AgreeInv, AcceptControl, Goto, wire
<1>3. ASSUME NEW e \in Ends, ReadSettings(e) PROVE AgreeInv'
  BY <1>0, <1>3 DEF AgreeInv, ReadSettings, Goto, wire
<1>4. ASSUME NEW e \in Ends, CheckSupport(e) PROVE AgreeInv'
  BY <1>0, <1>4 DEF AgreeInv, CheckSupport, Goto, wire, half
<1>5. CASE SendRequest
  <2>1. bi'["server"] = bi["server"]
    BY <1>0, <1>5 DEF SendRequest, SendHeaders, Written
  <2> QED BY <1>0, <1>5, <2>1
          DEF AgreeInv, SendRequest, SendHeaders, WriteFails, Goto, half
<1>6. CASE ReadResponse
  <2>1. nbi["client"] + 1 \in DOMAIN bi["server"] /\ UNCHANGED <<foreign, bi, acc>>
    BY <1>0, <1>6 DEF ReadResponse, ReadHeaders, Peer, wire, half
  <2>2. CASE phase["server"] = "established"
    BY <1>0, <1>6, <2>1, <2>2 DEF AgreeInv, ReadResponse, ReadHeaders, Goto
  <2>3. CASE phase["server"] # "established"
    <3>1. bi["server"][nbi["client"] + 1].type = "end"
      BY <2>1, <2>3 DEF AgreeInv
    <3>2. Goto("client", "failed")
      BY <1>0, <1>6, <3>1 DEF ReadResponse, ReadHeaders, Peer
    <3> QED BY <1>0, <2>1, <3>2 DEF AgreeInv, Goto
  <2> QED BY <2>2, <2>3
<1>7. CASE ReadRequest
  BY <1>0, <1>7 DEF AgreeInv, ReadRequest, ReadHeaders, Goto, wire, half
<1>8. CASE SendOk
  BY <1>0, <1>8 DEF AgreeInv, SendOk, SendHeaders, WriteFails, Goto, half
<1>9. ASSUME NEW e \in Ends, Disconnected(e) \/ Abandon(e) \/ Lose(e)
      PROVE  AgreeInv'
  BY <1>0, <1>9 DEF AgreeInv, Disconnected, Abandon, Lose, Goto, Working, wire, half
<1>10. ASSUME NEW e \in Ends, NEW s \in StreamNames, DropStream(e, s) PROVE AgreeInv'
  <2>1. /\ UNCHANGED <<foreign, phase, acc>>
        /\ bi' = bi \/ (bi' = [bi EXCEPT ![e] = EndBehind(@, Len(@))] /\ phase[e] \in Quit)
    BY <1>10 DEF DropStream, Finish, half
  <2>2. CASE bi'["server"] = bi["server"]
    BY <2>1, <2>2 DEF AgreeInv
  <2>3. CASE e = "server" /\ bi' = [bi EXCEPT ![e] = EndBehind(@, Len(@))] /\ phase[e] \in Quit
    <3> DEFINE q == bi["server"]
               r == EndBehind(q, Len(q))
    <3>1. q \in Seq(WireFrames) /\ \A i \in DOMAIN q : q[i].type = "end"
      BY <1>0, <2>3 DEF AgreeInv, Quit
    <3>2. SubSeq(q, 1, Len(q)) = q
      BY <3>1
    <3>3. \A i \in DOMAIN r : r[i] = Frame("end", NoSettings) \/ (i \in DOMAIN q /\ r[i] = q[i])
      BY <3>1, <3>2 DEF EndBehind
    <3>4. \A i \in DOMAIN r : r[i].type = "end"
      BY <3>1, <3>3 DEF Frame
    <3>5. bi'["server"] = r
      BY <1>0, <2>3
    <3> QED BY <2>1, <3>4, <3>5 DEF AgreeInv
  <2> QED BY <1>0, <2>1, <2>2, <2>3
<1>11. CASE UNCHANGED vars
  BY <1>11 DEF AgreeInv, vars
<1> QED BY <1>1, <1>2, <1>3, <1>4, <1>5, <1>6, <1>7, <1>8, <1>9, <1>10, <1>11
        DEF Next, Step, AgreeInv

\* A client that waits for the response never holds a session alone.
THEOREM AgreementCorrect == ASSUME OnlyWtRs PROVE Spec => []Agreement
<1>1. Init => TypeInv /\ AgreeInv
  BY PeerInvInit DEF PeerInv, Init, AgreeInv, OnlyWtRs, Ends
<1>2. TypeInv /\ AgreeInv /\ [Next]_vars => (TypeInv /\ AgreeInv)'
  BY AgreeStep, TypeStep
<1>3. AgreeInv => Agreement
  BY DEF AgreeInv, Agreement
<1> QED BY <1>1, <1>2, <1>3, PTL DEF Spec
=============================================================================
