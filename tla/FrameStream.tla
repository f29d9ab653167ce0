----------------------------- MODULE FrameStream -----------------------------
(***************************************************************************)
(* HTTP/3 frames on a QUIC stream: Frame::encode on one end and            *)
(* Frame::accept, with the read_varint of a RecvStream, on the other.  A   *)
(* frame is two VarInts, its type and the length of its payload, and the   *)
(* payload.  The bytes arrive in any pieces; the writer may be another     *)
(* implementation, which may take longer forms of its integers, and may    *)
(* finish, drop or reset the stream after any byte.  The reader calls      *)
(* Frame::accept again when it has returned a frame.                       *)
(***************************************************************************)
EXTENDS VarInt, SequencesExt

CONSTANTS
  Types,      \* frame types that are written
  Payloads,   \* payloads that are written
  Least,      \* lengths a writer's integers have at least
  MaxFrames   \* bound: frames written, the last one perhaps in part

ASSUME StreamAssumption ==
  /\ Types \subseteq 0 .. Bound(8) - 1
  /\ Payloads \subseteq Seq(Byte)
  /\ \A p \in Payloads : Len(p) < Bound(8)
  /\ Least \subseteq Lengths
  /\ MaxFrames \in Nat

VARIABLES
  written,  \* the frames completely written, in order
  pipe,     \* bytes on their way, those that have arrived first
  arrived,  \* how many bytes of pipe have arrived
  end,      \* the writer's half: "open", "fin" or "reset"
  field,    \* what accept reads: "type", "length" or "payload"
  buf,      \* bytes of that field read so far
  ftype,    \* the type it has read
  len,      \* the length it has read
  out,      \* frames accept has returned
  status    \* "reading", or "ended" after accept returned an error

vars == <<written, pipe, arrived, end, field, buf, ftype, len, out, status>>

wire == <<written, pipe, arrived, end>>

Init ==
  /\ written = <<>> /\ pipe = <<>> /\ arrived = 0 /\ end = "open"
  /\ field = "type" /\ buf = <<>> /\ ftype = 0 /\ len = 0
  /\ out = <<>> /\ status = "reading"

-----------------------------------------------------------------------------

Frame(type, data) == [type |-> type, data |-> data]

\* is_grease: 0x21 and every 0x1f above.
IsGrease(type) == type >= 33 /\ (type - 33) % 31 = 0

\* The form of x for a writer that uses n bytes at least; wt-rs has n = 1.
Form(x, n) == IF n < Fitting(x) THEN Fitting(x) ELSE n

\* Frame::encode.
EncodeFrame(f, n) ==
  EncodeIn(f.type, Form(f.type, n))
    \o EncodeIn(Len(f.data), Form(Len(f.data), n))
    \o f.data

Write(f, n) ==
  /\ end = "open" /\ Len(written) < MaxFrames
  /\ pipe' = pipe \o EncodeFrame(f, n)
  /\ written' = Append(written, f)
  /\ UNCHANGED <<arrived, end, field, buf, ftype, len, out, status>>

\* The stream is finished, or its writer dropped, within a frame or between
\* two: k is how many bytes of the frame were written.
Finish(f, n, k) ==
  /\ end = "open" /\ Len(written) < MaxFrames
  /\ k < Len(EncodeFrame(f, n))
  /\ pipe' = pipe \o SubSeq(EncodeFrame(f, n), 1, k)
  /\ end' = "fin"
  /\ UNCHANGED <<written, arrived, field, buf, ftype, len, out, status>>

\* A reset takes the bytes that were not read yet.
Reset ==
  /\ end = "open"
  /\ end' = "reset" /\ pipe' = <<>> /\ arrived' = 0
  /\ UNCHANGED <<written, field, buf, ftype, len, out, status>>

Arrive ==
  /\ arrived < Len(pipe)
  /\ arrived' = arrived + 1
  /\ UNCHANGED <<written, pipe, end, field, buf, ftype, len, out, status>>

-----------------------------------------------------------------------------

\* Mutant of Missing: the length of an integer does not count its first byte.
MissingOneMore ==
  IF field = "payload" THEN len
  ELSE IF buf = <<>> THEN 1 ELSE Announced(buf[1])

\* How many bytes the pending read_exact waits for.
Missing ==
  IF field = "payload" THEN len
  ELSE IF buf = <<>> THEN 1 ELSE Announced(buf[1]) - Len(buf)

\* Mutant of TakeBytes: the bytes are counted whether or not they are taken.
TakeUncounted ==
  /\ status = "reading"
  /\ arrived >= Missing
  /\ pipe' = SubSeq(pipe, Missing + 1, Len(pipe))
  /\ UNCHANGED <<written, arrived, end, status>>

\* read_exact has all its bytes and returns them.
TakeBytes ==
  /\ status = "reading"
  /\ arrived >= Missing
  /\ pipe' = SubSeq(pipe, Missing + 1, Len(pipe))
  /\ arrived' = arrived - Missing
  /\ UNCHANGED <<written, end, status>>

Taken == SubSeq(pipe, 1, Missing)

\* The integer that begins with the bytes b is not complete yet.
Incomplete(b) == Len(b) < Announced(b[1])

\* The first byte of a longer integer.
ReadFirst ==
  /\ field # "payload" /\ TakeBytes
  /\ Incomplete(buf \o Taken)
  /\ buf' = buf \o Taken
  /\ UNCHANGED <<field, ftype, len, out>>

ReadType ==
  /\ field = "type" /\ TakeBytes
  /\ ~Incomplete(buf \o Taken)
  /\ ftype' = Value(buf \o Taken)
  /\ field' = "length" /\ buf' = <<>>
  /\ UNCHANGED <<len, out>>

\* Mutant of ReadLength: a greased frame is skipped before its payload.
ReadLengthSkip ==
  /\ field = "length" /\ TakeBytes
  /\ ~Incomplete(buf \o Taken)
  /\ len' = Value(buf \o Taken)
  /\ field' = IF IsGrease(ftype) THEN "type" ELSE "payload"
  /\ buf' = <<>>
  /\ UNCHANGED <<ftype, out>>

ReadLength ==
  /\ field = "length" /\ TakeBytes
  /\ ~Incomplete(buf \o Taken)
  /\ len' = Value(buf \o Taken)
  /\ field' = "payload" /\ buf' = <<>>
  /\ UNCHANGED <<ftype, out>>

\* The payload is complete: a greased frame is skipped, any other returned.
ReadPayload ==
  /\ field = "payload" /\ TakeBytes
  /\ field' = "type"
  /\ out' = IF IsGrease(ftype) THEN out ELSE Append(out, Frame(ftype, Taken))
  /\ UNCHANGED <<buf, ftype, len>>

\* Mutant of ReadEnd: the end of the stream is noticed at the first read that
\* could not be answered at once.
ReadEndEarly ==
  /\ status = "reading"
  /\ end # "open" /\ arrived < Missing
  /\ status' = "ended"
  /\ UNCHANGED <<wire, field, buf, ftype, len, out>>

\* read_exact meets the end of the stream or its reset, and accept returns
\* the error.
ReadEnd ==
  /\ status = "reading"
  /\ end # "open" /\ arrived = Len(pipe) /\ arrived < Missing
  /\ status' = "ended"
  /\ UNCHANGED <<wire, field, buf, ftype, len, out>>

Read == ReadFirst \/ ReadType \/ ReadLength \/ ReadPayload \/ ReadEnd

Next ==
  \/ \E type \in Types, data \in Payloads, n \in Least :
       LET f == Frame(type, data) IN
       \/ Write(f, n)
       \/ \E k \in 0 .. Len(EncodeFrame(f, n)) - 1 : Finish(f, n, k)
  \/ Reset \/ Arrive \/ Read

Spec == Init /\ [][Next]_vars

\* What arrives is read: the task that awaits accept is polled.
FairSpec == Spec /\ WF_vars(Arrive) /\ WF_vars(Read)

-----------------------------------------------------------------------------

\* The frames that mean something, among the first i of some frames, for each i.
MeantOf(frames) ==
  LET meant[i \in 0 .. Len(frames)] ==
        IF i = 0 THEN <<>>
        ELSE IF IsGrease(frames[i].type) THEN meant[i - 1]
        ELSE Append(meant[i - 1], frames[i])
  IN meant

Meant == MeantOf(written)[Len(written)]

TypeOK ==
  /\ written \in Seq([type : Types, data : Payloads])
  /\ \A i \in DOMAIN pipe : pipe[i] \in Byte
  /\ arrived \in 0 .. Len(pipe)
  /\ end \in {"open", "fin", "reset"} /\ status \in {"reading", "ended"}
  /\ field \in {"type", "length", "payload"} /\ Len(buf) < 8
  /\ ftype \in Nat /\ len \in Nat

\* However the bytes are cut into pieces and whichever forms the writer chose,
\* Frame::accept returns the frames written, in order and without the greased
\* ones, and never one that was only written in part.
OnlyWritten == IsPrefix(out, Meant)

\* The error that accept meets at the end of the stream comes after every
\* complete frame.
NothingMissed == status = "ended" /\ end = "fin" => out = Meant

\* Every complete frame is returned in the end, unless the stream is reset.
AllRead ==
  \A i \in 1 .. MaxFrames :
    Len(Meant) >= i ~> (Len(out) >= i \/ end = "reset")
=============================================================================
