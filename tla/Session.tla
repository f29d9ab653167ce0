------------------------------ MODULE Session ------------------------------
(***************************************************************************)
(* How two ends of one QUIC connection become a WebTransport session:      *)
(* Connection::open on the client, Connection::upgrade on the server.      *)
(*                                                                         *)
(* Each end first exchanges SETTINGS (Settings::accept runs                *)
(* h3::Settings::accept and h3::Settings::open concurrently), then the     *)
(* client sends a CONNECT request on the first bidirectional stream and    *)
(* the server answers it.  An end that fails drops its streams, which      *)
(* finishes or stops them, and then every handle of its quinn connection,  *)
(* which closes it.                                                        *)
(*                                                                         *)
(* Every await is a step of its own.  A frame is one item on the wire.  An *)
(* end in foreign is some other HTTP/3 implementation: it writes what      *)
(* ForeignFrames and ForeignHeaders allow, in any order, and finishes,     *)
(* resets and stops streams as it likes.                                   *)
(***************************************************************************)
EXTENDS Naturals, Sequences

CONSTANTS
  Pairings,       \* which ends may not run wt-rs: a set of sets of ends
  ForeignFrames,  \* frames a foreign end may write on its first uni stream
  ForeignHeaders, \* the same for the request stream, for each end
  MaxFrames,      \* bound: frames a foreign end writes on each stream
  Faults,         \* may the connection be lost, or its user drop it?
  U32             \* 2^32: setting values are cut to that many

Ends == {"client", "server"}
Peer(e) == IF e = "client" THEN "server" ELSE "client"

\* A frame: its type as Frame::accept tells it apart, its decoded body.
Frame(type, body) == [type |-> type, body |-> body]
FrameTypes ==
  {"settings", "headers", "grease", "other",
   "malformed",  \* of the expected type, but its decoder returns Err
   "cut",        \* SETTINGS that end after an identifier: its decoder panics
   "end"}        \* not a frame: the stream ends here

\* The settings supports_webtransport looks at.
SettingNames == {"enable", "max", "max_old"}

ASSUME SessionAssumption ==
  /\ Pairings \subseteq SUBSET Ends
  /\ \A e \in Ends : \A f \in ForeignFrames \cup ForeignHeaders[e] :
       /\ f.type \in FrameTypes \ {"end"}
       /\ f.type = "settings" => \E D \in SUBSET SettingNames : f.body \in [D -> Nat]
  /\ MaxFrames \in Nat
  /\ Faults \in BOOLEAN
  /\ U32 \in Nat \ {0, 1}

VARIABLES
  foreign, \* the ends that do not run wt-rs, the same throughout: of their own
           \* state only what they have on the wire is modelled
  utype,   \* stream type on the first uni stream of each end
  uni,     \* frames each end has written behind it
  bi,      \* frames each end has written on the request stream
  stopped, \* the streams of each end that its peer has stopped (STOP_SENDING)
  down,    \* the quinn::Connection of this end has its final error
  phase,   \* where open / upgrade is
  acc,     \* where h3::Settings::accept is
  opn,     \* where h3::Settings::open is
  theirs,  \* the decoded SETTINGS of the peer
  nuni,    \* frames read from the peer's uni stream
  nbi      \* frames read from the peer's half of the request stream

wire == <<utype, uni, bi, stopped>>
half == <<acc, opn, theirs, nuni>>
vars == <<foreign, utype, uni, bi, stopped, down, phase, acc, opn, theirs, nuni, nbi>>

Working == {"settings", "connect", "answer"}
Final   == {"established", "failed", "panicked", "lost", "abandoned"}

\* The call ended without a session although the connection was there.
Quit    == {"failed", "panicked", "abandoned"}

NoSettings == [k \in {} |-> 0]

Init ==
  /\ foreign \in Pairings
  /\ utype = [e \in Ends |-> "none"]
  /\ uni = [e \in Ends |-> <<>>]
  /\ bi = [e \in Ends |-> <<>>]
  /\ stopped = [e \in Ends |-> {}]
  /\ down = [e \in Ends |-> FALSE]
  /\ phase = [e \in Ends |-> "settings"]
  /\ acc = [e \in Ends |-> "stream"]
  /\ opn = [e \in Ends |-> "stream"]
  /\ theirs = [e \in Ends |-> NoSettings]
  /\ nuni = [e \in Ends |-> 0]
  /\ nbi = [e \in Ends |-> 0]

-----------------------------------------------------------------------------
(* Settings and headers                                                    *)

\* Settings::default() after enable_webtransport(1), as far as
\* supports_webtransport looks at it.
OwnSettings == [k \in SettingNames |-> 1]

\* Settings::decode casts each value to u32.
Decoded(body) == [k \in DOMAIN body |-> body[k] % U32]

\* supports_webtransport: the first of these that is present decides.
Supports(st) ==
  LET k == IF "enable" \in DOMAIN st THEN "enable"
           ELSE IF "max" \in DOMAIN st THEN "max" ELSE "max_old"
  IN k \in DOMAIN st /\ st[k] >= 1

Has(headers, name, value) == name \in DOMAIN headers /\ headers[name] = value

\* Connect::open.
OwnRequest == Frame("headers", [method |-> "CONNECT", protocol |-> "webtransport"])

\* Mutant of ValidRequest: is_some_and for is_none_or, an absent header passes.
ValidRequestLax(headers) ==
  /\ "method" \in DOMAIN headers => Has(headers, "method", "CONNECT")
  /\ "protocol" \in DOMAIN headers => Has(headers, "protocol", "webtransport")

\* Request::accept, then Connect::accept.
ValidRequest(headers) ==
  Has(headers, "method", "CONNECT") /\ Has(headers, "protocol", "webtransport")

\* Mutant of OwnOk: the draft header is forgotten.
OwnOkNoDraft == Frame("headers", [status |-> "200"])

\* Request::ok.
OwnOk == Frame("headers", [status |-> "200", draft |-> "draft02"])

\* Request::open.
ValidResponse(headers) ==
  Has(headers, "status", "200") /\ Has(headers, "draft", "draft02")

\* The check each end makes on what it reads from the request stream.
Valid(e, headers) ==
  IF e = "client" THEN ValidResponse(headers) ELSE ValidRequest(headers)

-----------------------------------------------------------------------------
(* Steps of an end that runs wt-rs                                         *)

\* What is written after the peer's connection is gone never arrives.
Written(q, e, f) ==
  IF down[Peer(e)] THEN q ELSE [q EXCEPT ![e] = Append(@, f)]

Goto(e, p) == phase' = [phase EXCEPT ![e] = p]

\* A write on a stream that the peer has stopped is an error.
WriteFails(e, s) == s \in stopped[e] /\ Goto(e, "failed")

\* UniStream::open: a stream is opened and its type written.  A stop that comes
\* between the two comes before this step.
OpenAs(e, ty) ==
  /\ phase[e] = "settings" /\ opn[e] = "stream" /\ ~down[e]
  /\ \/ WriteFails(e, "uni") /\ UNCHANGED <<utype, opn>>
     \/ /\ "uni" \notin stopped[e]
        /\ utype' = IF down[Peer(e)] THEN utype ELSE [utype EXCEPT ![e] = ty]
        /\ opn' = [opn EXCEPT ![e] = "frame"]
        /\ UNCHANGED phase
  /\ UNCHANGED <<foreign, uni, bi, stopped, down, acc, theirs, nuni, nbi>>

\* Mutant of OpenControl: the settings are sent after the peer's arrived.
OpenControlLast(e) == acc[e] = "done" /\ OpenAs(e, "control")

\* Mutant of OpenControl: the stream is opened as a push stream.
OpenPush(e) == OpenAs(e, "push")

\* h3::Settings::open: UniStream::CONTROL.open.
OpenControl(e) == OpenAs(e, "control")

\* h3::Settings::open: the SETTINGS frame is written.
SendSettings(e) ==
  /\ phase[e] = "settings" /\ opn[e] = "frame" /\ ~down[e]
  /\ \/ WriteFails(e, "uni") /\ UNCHANGED <<uni, opn>>
     \/ /\ "uni" \notin stopped[e]
        /\ uni' = Written(uni, e, Frame("settings", OwnSettings))
        /\ opn' = [opn EXCEPT ![e] = "done"]
        /\ UNCHANGED phase
  /\ UNCHANGED <<foreign, utype, bi, stopped, down, acc, theirs, nuni, nbi>>

\* h3::Settings::accept: UniStream::accept, and its type is checked.
AcceptControl(e) ==
  /\ phase[e] = "settings" /\ acc[e] = "stream"
  /\ utype[Peer(e)] # "none"
  /\ IF utype[Peer(e)] = "control"
     THEN acc' = [acc EXCEPT ![e] = "frame"] /\ UNCHANGED phase
     ELSE Goto(e, "failed") /\ UNCHANGED acc
  /\ UNCHANGED <<foreign, wire, down, opn, theirs, nuni, nbi>>

\* h3::Settings::accept: Frame::accept skips grease, the frame is decoded.
ReadSettings(e) ==
  /\ phase[e] = "settings" /\ acc[e] = "frame"
  /\ nuni[e] < Len(uni[Peer(e)])
  /\ nuni' = [nuni EXCEPT ![e] = @ + 1]
  /\ LET f == uni[Peer(e)][nuni'[e]] IN
     \/ /\ f.type = "grease"
        /\ UNCHANGED <<phase, acc, theirs>>
     \/ /\ f.type = "settings"
        /\ theirs' = [theirs EXCEPT ![e] = Decoded(f.body)]
        /\ acc' = [acc EXCEPT ![e] = "done"]
        /\ UNCHANGED phase
     \/ /\ f.type \notin {"grease", "settings"}
        /\ Goto(e, IF f.type = "cut" THEN "panicked" ELSE "failed")
        /\ UNCHANGED <<acc, theirs>>
  /\ UNCHANGED <<foreign, wire, down, opn, nbi>>

\* Settings::accept: try_join! has both results.
CheckSupport(e) ==
  /\ phase[e] = "settings" /\ acc[e] = "done" /\ opn[e] = "done"
  /\ Goto(e, IF Supports(theirs[e]) THEN "connect" ELSE "failed")
  /\ UNCHANGED <<foreign, wire, down, half, nbi>>

\* HEADERS are written on the request stream, which leads to phase p.
SendHeaders(e, f, p) ==
  /\ ~down[e]
  /\ \/ WriteFails(e, "bi") /\ UNCHANGED bi
     \/ "bi" \notin stopped[e] /\ bi' = Written(bi, e, f) /\ Goto(e, p)
  /\ UNCHANGED <<foreign, utype, uni, stopped, down, half, nbi>>

\* Mutant of SendRequest: the response is not awaited.
SendRequestOnly ==
  phase["client"] = "connect" /\ SendHeaders("client", OwnRequest, "established")

\* Request::open: the request stream is opened and HEADERS written.
SendRequest ==
  phase["client"] = "connect" /\ SendHeaders("client", OwnRequest, "answer")

\* Mutant of ReadHeaders: a greased frame is an error.
ReadHeadersNoGrease(e, p) ==
  /\ nbi[e] < Len(bi[Peer(e)])
  /\ nbi' = [nbi EXCEPT ![e] = @ + 1]
  /\ LET f == bi[Peer(e)][nbi'[e]] IN
     Goto(e, IF f.type = "headers" /\ Valid(e, f.body) THEN p ELSE "failed")
  /\ UNCHANGED <<foreign, wire, down, half>>

\* Frame::accept on the request stream: grease is skipped, headers that pass
\* Valid lead to phase p, everything else is an error.
ReadHeaders(e, p) ==
  /\ nbi[e] < Len(bi[Peer(e)])
  /\ nbi' = [nbi EXCEPT ![e] = @ + 1]
  /\ LET f == bi[Peer(e)][nbi'[e]] IN
     \/ f.type = "grease" /\ UNCHANGED phase
     \/ f.type = "headers" /\ Valid(e, f.body) /\ Goto(e, p)
     \/ /\ f.type # "grease" /\ ~(f.type = "headers" /\ Valid(e, f.body))
        /\ Goto(e, "failed")
  /\ UNCHANGED <<foreign, wire, down, half>>

\* Request::open reads the response.
ReadResponse ==
  phase["client"] = "answer" /\ ReadHeaders("client", "established")

\* Request::accept takes the first bidirectional stream and reads the request.
ReadRequest ==
  phase["server"] = "connect" /\ ReadHeaders("server", "answer")

\* Request::ok.
SendOk == phase["server"] = "answer" /\ SendHeaders("server", OwnOk, "established")

\* The connection is gone: an await may still find what had arrived (the steps
\* above), or return the error.
Disconnected(e) ==
  /\ down[e] /\ phase[e] \in Working
  /\ Goto(e, "lost")
  /\ UNCHANGED <<foreign, wire, down, half, nbi>>

-----------------------------------------------------------------------------
(* The connection and the application                                      *)

\* The handles of the connection of e are gone, or its peer has closed it.
Closing(e) == phase[e] \in Quit \/ down[Peer(e)]

\* The connection of e gets its final error: it is closed, or, if there are
\* faults, it times out or the application drops the session.
Lose(e) ==
  /\ ~down[e]
  /\ Faults \/ Closing(e)
  /\ down' = [down EXCEPT ![e] = TRUE]
  /\ UNCHANGED <<foreign, wire, phase, half, nbi>>

\* The application drops the future of open / upgrade.
Abandon(e) ==
  /\ Faults /\ phase[e] \in Working
  /\ Goto(e, "abandoned")
  /\ UNCHANGED <<foreign, wire, down, half, nbi>>

-----------------------------------------------------------------------------
(* Streams that are given up.  What comes when a stream is not used any    *)
(* more changes nothing and is left out.                                   *)

StreamNames == {"uni", "bi"}

Alive(e) == ~down[e] /\ ~down[Peer(e)]

\* Will e still read from, or write to, the stream?  The server's half of the
\* request stream can be stopped before the server has taken the stream.
Reads(e, s) ==
  /\ e \notin foreign /\ phase[e] \in Working
  /\ IF s = "uni" THEN phase[e] = "settings" /\ acc[e] # "done"
     ELSE ~(e = "server" /\ phase[e] = "answer")

Writes(e, s) ==
  /\ e \notin foreign /\ phase[e] \in Working
  /\ IF s = "uni" THEN phase[e] = "settings" /\ opn[e] # "done"
     ELSE e = "client" => phase[e] = "connect"

Ended(q) == q # <<>> /\ q[Len(q)].type = "end"
EndBehind(q, n) == Append(SubSeq(q, 1, n), Frame("end", NoSettings))

\* A FIN comes behind what was written, and may be all there is of a stream.
Finish(e, s) ==
  \/ /\ s = "uni" /\ utype[e] = "none"
     /\ utype' = [utype EXCEPT ![e] = "end"]
     /\ UNCHANGED <<uni, bi>>
  \/ /\ s = "uni" /\ utype[e] \notin {"none", "end"} /\ ~Ended(uni[e])
     /\ uni' = [uni EXCEPT ![e] = EndBehind(@, Len(@))]
     /\ UNCHANGED <<utype, bi>>
  \/ /\ s = "bi" /\ ~Ended(bi[e])
     /\ bi' = [bi EXCEPT ![e] = EndBehind(@, Len(@))]
     /\ UNCHANGED <<utype, uni>>

\* A reset discards what has not been read, the stream type included.
Reset(e, s) ==
  \/ /\ s = "uni" /\ utype[e] \notin {"none", "end"} /\ acc[Peer(e)] = "stream"
     /\ utype' = [utype EXCEPT ![e] = "end"]
     /\ UNCHANGED <<uni, bi>>
  \/ /\ s = "uni" /\ acc[Peer(e)] # "stream"
     /\ uni' = [uni EXCEPT ![e] = EndBehind(@, nuni[Peer(e)])]
     /\ UNCHANGED <<utype, bi>>
  \/ /\ s = "bi"
     /\ bi' = [bi EXCEPT ![e] = EndBehind(@, nbi[Peer(e)])]
     /\ UNCHANGED <<utype, uni>>

\* STOP_SENDING: the peer's next write fails.
Stop(e, s) ==
  /\ Writes(Peer(e), s) /\ s \notin stopped[Peer(e)]
  /\ stopped' = [stopped EXCEPT ![Peer(e)] = @ \cup {s}]

\* An end whose call is over without a session had these streams: its control
\* stream, which it may not have opened, the peer's if that has come, and the
\* request stream if it got that far.
Held(e, s) ==
  IF s = "bi"
  THEN /\ acc[e] = "done" /\ opn[e] = "done" /\ Supports(theirs[e])
       /\ e = "server" => bi["client"] # <<>>
  ELSE TRUE

\* They are dropped one by one before the handles of the connection: quinn
\* finishes what e writes and stops what it reads.
DropStream(e, s) ==
  /\ phase[e] \in Quit /\ Alive(e) /\ Held(e, s)
  /\ \/ Reads(Peer(e), s) /\ Finish(e, s) /\ UNCHANGED stopped
     \/ /\ s = "uni" => utype[Peer(e)] # "none"
        /\ Stop(e, s) /\ UNCHANGED <<utype, uni, bi>>
  /\ UNCHANGED <<foreign, down, phase, half, nbi>>

-----------------------------------------------------------------------------
(* A foreign end                                                           *)

\* A frame that counts is not followed by another: it would not be read.  The
\* stream may end behind it.
MayWrite(q) == Len(q) < MaxFrames /\ \A i \in DOMAIN q : q[i].type = "grease"

ForeignOpen(e) ==
  /\ utype[e] = "none"
  /\ \E ty \in {"control", "other"} : utype' = [utype EXCEPT ![e] = ty]
  /\ UNCHANGED <<uni, bi>>

ForeignUni(e, f) ==
  /\ utype[e] \notin {"none", "end"} /\ MayWrite(uni[e])
  /\ uni' = [uni EXCEPT ![e] = Append(@, f)]
  /\ UNCHANGED <<utype, bi>>

ForeignBi(e, f) ==
  /\ MayWrite(bi[e])
  /\ bi' = [bi EXCEPT ![e] = Append(@, f)]
  /\ UNCHANGED <<utype, uni>>

\* The client's first frame opens the request stream.
ForeignWrite(e, s) ==
  /\ (s = "bi" /\ e = "server") => bi["client"] # <<>>
  /\ \/ s = "uni" /\ (ForeignOpen(e) \/ \E f \in ForeignFrames : ForeignUni(e, f))
     \/ s = "bi" /\ \E f \in ForeignHeaders[e] : ForeignBi(e, f)
     \/ Finish(e, s)
     \/ Reset(e, s)

-----------------------------------------------------------------------------

Step(e) ==
  \/ OpenControl(e)
  \/ SendSettings(e)
  \/ AcceptControl(e)
  \/ ReadSettings(e)
  \/ CheckSupport(e)
  \/ e = "client" /\ (SendRequest \/ ReadResponse)
  \/ e = "server" /\ (ReadRequest \/ SendOk)
  \/ Disconnected(e)

ForeignStep(e) ==
  /\ Alive(e)
  /\ \E s \in StreamNames :
       \/ Reads(Peer(e), s) /\ ForeignWrite(e, s) /\ UNCHANGED stopped
       \/ Stop(e, s) /\ UNCHANGED <<utype, uni, bi>>
  /\ UNCHANGED <<foreign, down, phase, half, nbi>>

Next ==
  \/ \E e \in Ends \ foreign :
       Step(e) \/ Abandon(e) \/ Lose(e) \/ \E s \in StreamNames : DropStream(e, s)
  \/ \E e \in foreign : ForeignStep(e)

Spec == Init /\ [][Next]_vars

(***************************************************************************)
(* quinn retransmits what was written until it arrives, so a step that can *)
(* go on eventually does.  An end that has dropped its handles closes its  *)
(* connection, and one whose peer is gone eventually learns it, from the   *)
(* peer's close or from the idle timeout.                                  *)
(***************************************************************************)
Fairness ==
  \A e \in Ends :
    /\ WF_vars(e \notin foreign /\ Step(e))
    /\ WF_vars(e \notin foreign /\ Closing(e) /\ Lose(e))

FairSpec == Spec /\ Fairness

-----------------------------------------------------------------------------
(* Properties                                                              *)

TypeOK ==
  /\ foreign \in Pairings
  /\ utype \in [Ends -> {"none", "control", "other", "end"}]
  /\ stopped \in [Ends -> SUBSET StreamNames]
  /\ down \in [Ends -> BOOLEAN]
  /\ phase \in [Ends -> Working \cup Final]
  /\ acc \in [Ends -> {"stream", "frame", "done"}]
  /\ opn \in [Ends -> {"stream", "frame", "done"}]
  /\ nuni \in [Ends -> Nat] /\ nbi \in [Ends -> Nat]
  /\ \A e \in Ends : /\ nuni[e] <= Len(uni[Peer(e)])
                     /\ nbi[e] <= Len(bi[Peer(e)])

\* Between two wt-rs ends the client holds a session only if the server holds
\* it too: the client waits for the response, and the server sends it last.
Agreement ==
  (foreign = {} /\ phase["client"] = "established") =>
    /\ phase["server"] = "established"
    /\ acc["server"] = "done"

\* Two wt-rs ends never wait for each other: open and upgrade both return, with
\* a session or an error, whatever happens to the connection and whoever gives
\* up (h3::Settings::accept and open run concurrently in Settings::accept).
\* Before another implementation, which may stay silent, they return at least
\* when the connection is lost: no await has a timeout of its own.
Settled ==
  \A e \in Ends :
    (e \notin foreign /\ (foreign = {} \/ down[e])) ~> phase[e] \in Final

\* A connection lost before either end failed, or a future that was dropped.
Faulted ==
  \E e \in Ends : \/ phase[e] = "abandoned"
                 \/ /\ down[e]
                    /\ \A p \in Ends : phase[p] \notin {"failed", "panicked"}

\* Without a fault two wt-rs ends accept each other's settings, request and
\* response: enable_webtransport announces what supports_webtransport looks
\* for, and Connect::open and Request::ok send what the other end requires.
BothEstablish ==
  foreign = {} => <>(Faulted \/ \A e \in Ends : phase[e] = "established")

\* The frame at i is the first one that counts: those before it are greased.
Counts(q, i) ==
  /\ i \in DOMAIN q /\ q[i].type # "grease"
  /\ \A j \in 1 .. i - 1 : q[j].type = "grease"

\* What a wt-rs end sends to the peer of e, and e wants of its peer at least.
Model(e) == IF e = "client" THEN OwnOk ELSE OwnRequest

Announces(f) == f.type = "settings" /\ \E k \in DOMAIN f.body : f.body[k] >= 1
Agrees(e, f) ==
  /\ f.type = "headers"
  /\ \A name \in DOMAIN Model(e).body : Has(f.body, name, Model(e).body[name])

\* Among the frames that e has read its peer announced WebTransport and asked
\* for, or agreed to, the session.
Grounds(e) ==
  LET p == Peer(e) IN
  /\ utype[p] = "control"
  /\ \E i \in 1 .. nuni[e] : Counts(uni[p], i) /\ Announces(uni[p][i])
  /\ \E i \in 1 .. nbi[e] : Counts(bi[p], i) /\ Agrees(e, bi[p][i])

\* No end takes a peer into a session that did not ask for it or agree to it:
\* it has announced WebTransport in its SETTINGS and the request, or response,
\* says what Connect::accept, or Request::open, requires (an absent header is
\* not good enough).
Justified ==
  \A e \in Ends \ foreign : phase[e] = "established" => Grounds(e)

\* SETTINGS without a setting of WebTransport, or with one that reads as zero.
Disables(f) ==
  f.type = "settings" =>
    DOMAIN f.body = {} \/ \E k \in DOMAIN f.body : f.body[k] % U32 = 0

\* Among what e has read, the first thing that counts on a stream of its peer is
\* wrong, be it the end of the stream; or the peer has stopped a stream of e.
Objection(e) ==
  LET p == Peer(e) IN
  \/ stopped[e] # {}
  \/ utype[p] \in {"other", "end"}
  \/ \E i \in 1 .. nuni[e] : Counts(uni[p], i) /\ Disables(uni[p][i])
  \/ \E i \in 1 .. nbi[e] : Counts(bi[p], i) /\ ~Agrees(e, bi[p][i])

\* Unless the connection is lost, an end fails only because its peer has stopped
\* one of its streams, or because of the first thing that counts on one of the
\* peer's: never because of grease before it or of what follows it, and not
\* because the peer reset a stream that had been read as far as it matters.
FailsForCause ==
  \A e \in Ends \ foreign : phase[e] \in {"failed", "panicked"} => Objection(e)
=============================================================================
