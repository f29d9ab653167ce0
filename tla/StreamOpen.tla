----------------------------- MODULE StreamOpen -----------------------------
(***************************************************************************)
(* Streams from end to end: Connection::open_uni / open_bi on one side of  *)
(* a session (wt-rs/src/conn.rs, wt-rs/src/streams.rs and                  *)
(* wt-proto/src/h3/streams.rs) and WTAccept on the other.                  *)
(*                                                                         *)
(* An open call writes the header of its stream in two writes, the stream  *)
(* type and the session id, and awaits each; the application may drop the  *)
(* call in between.  What is written arrives later and in order, the end   *)
(* of the stream last; a reset overtakes and discards what came before it. *)
(***************************************************************************)
EXTENDS WTAccept

CONSTANT Called  \* the streams open_uni / open_bi open; the rest are H3 streams

ASSUME CalledAssumption == Called \subseteq {s \in Streams : Ours(s)}

VARIABLES
  call,  \* where the open call of each stream is, or what became of it
  sent,  \* header varints it has written
  ended  \* has the sending half been finished or reset?

openVars == <<call, sent, ended>>
allVars  == <<vars, openVars>>

Calls == {"none", "id", "open", "dropped", "failed"}
Endings == {"finished", "reset"}

OpenTypeOK ==
  /\ TypeOK
  /\ call \in [Streams -> Calls]
  /\ sent \in [Streams -> 0..2]
  /\ ended \in [Streams -> {"no"} \cup Endings]

OpenInit ==
  /\ Init
  /\ call = [s \in Streams |-> "none"]
  /\ sent = [s \in Streams |-> 0]
  /\ ended = [s \in Streams |-> "no"]

-----------------------------------------------------------------------------
(* open_uni / open_bi                                                      *)

Step(s, from, to) ==
  /\ s \in Called /\ call[s] = from /\ ~closed
  /\ call' = [call EXCEPT ![s] = to]
  /\ UNCHANGED vars

\* UniStream::open, BiStream::open: quinn hands out a stream, of which nobody
\* hears yet, and the stream type is written to it.
WriteType(s) ==
  /\ Step(s, "none", "id")
  /\ sent' = [sent EXCEPT ![s] = 1]
  /\ UNCHANGED ended

\* Mutant of WriteId: the id is written again when the call has returned.
WriteIdAgain(s) ==
  /\ \E at \in {"id", "open"} : Step(s, at, "open")
  /\ sent' = [sent EXCEPT ![s] = @ + 1]
  /\ UNCHANGED ended

\* WriteStream::open: the session id is written and the call returns.
WriteId(s) ==
  /\ Step(s, "id", "open")
  /\ sent' = [sent EXCEPT ![s] = 2]
  /\ UNCHANGED ended

\* Mutant of DropCall: the call still awaits something when all is written.
DropCallLate(s) ==
  /\ \E at \in {"none", "id", "open"} : Step(s, at, "dropped")
  /\ ended[s] = "no"
  /\ ended' = [ended EXCEPT ![s] = "finished"]
  /\ UNCHANGED sent

\* The application drops the call, which drops the SendStream and finishes it;
\* at "none" the stream is there but nothing is written.
DropCall(s) ==
  /\ \E at \in {"none", "id"} : Step(s, at, "dropped")
  /\ ended' = [ended EXCEPT ![s] = "finished"]
  /\ UNCHANGED sent

\* The application drops its WriteStream, or finishes or resets the SendStream
\* that it finds in inner; it may still reset one that is finished.
EndStream(s, how) ==
  /\ Step(s, "open", "open")
  /\ ended[s] = "no" \/ (ended[s] = "finished" /\ how = "reset")
  /\ ended' = [ended EXCEPT ![s] = how]
  /\ UNCHANGED sent

\* The connection is lost on both sides: the writes that are awaited fail.
LoseCalls ==
  /\ Close
  /\ call' = [s \in Streams |-> IF call[s] = "id" THEN "failed" ELSE call[s]]
  /\ UNCHANGED <<sent, ended>>

-----------------------------------------------------------------------------
(* The way to the peer                                                     *)

\* The first that the peer hears of a stream: a byte, or its end.
Appear(s) == (sent[s] > 0 \/ ended[s] # "no") /\ PeerOpen(s)

HeaderArrives(s) == hdr[s] < sent[s] /\ PeerHeader(s)

\* A FIN stands behind all that was written, a reset may come at any time.  A
\* FIN that is under way when the stream is reset is left out: it would come
\* behind a whole header and change nothing.
EndArrives(s) ==
  \/ ended[s] = "finished" /\ hdr[s] = sent[s] /\ PeerEnd(s, "finished")
  \/ ended[s] = "reset" /\ PeerEnd(s, "reset")

Arrive(s) ==
  /\ s \in Called
  /\ Appear(s) \/ HeaderArrives(s) \/ EndArrives(s)
  /\ UNCHANGED openVars

\* Whatever opens the other streams does as it likes.
OtherStream(s) ==
  /\ s \notin Called
  /\ PeerOpen(s) \/ PeerHeader(s) \/ \E f \in Endings : PeerEnd(s, f)
  /\ UNCHANGED openVars

AcceptStep(t) ==
  /\ \/ \E d \in Dirs : Call(t, d)
     \/ Cancel(t)
     \/ StartPoll(t)
     \/ PollStep(t)
  /\ UNCHANGED openVars

OpenNext ==
  \/ \E s \in Streams :
       \/ WriteType(s) \/ WriteId(s) \/ DropCall(s)
       \/ \E how \in Endings : EndStream(s, how)
       \/ Arrive(s) \/ OtherStream(s)
  \/ LoseCalls
  \/ \E t \in Tasks : AcceptStep(t)

OpenSpec == OpenInit /\ [][OpenNext]_allVars

\* QUIC delivers what was sent, and the accepting side is as LoopingSpec says.
OpenFairSpec ==
  /\ OpenSpec
  /\ \A s \in Called : WF_allVars(Arrive(s))
  /\ \A t \in Tasks :
       /\ SF_allVars(StartPoll(t) /\ UNCHANGED openVars)
       /\ WF_allVars(PollStep(t) /\ UNCHANGED openVars)
       /\ WF_allVars(\E d \in Dirs : Call(t, d) /\ UNCHANGED openVars)

-----------------------------------------------------------------------------
(* Properties                                                              *)

\* A stream comes out of accept only when its open call has returned it, and
\* accept refuses one only if its open call was dropped or failed, the
\* application has reset it since, or the connection was lost: the two writes
\* of an open call never look like a stream when they are cut short, and never
\* like a broken one when not, whether the stream is finished at once or not.
OnlyOpened ==
  \A s \in Called :
    /\ loc[s] = "delivered" => call[s] = "open"
    /\ loc[s] = "failed" /\ call[s] = "open" => closed \/ ended[s] = "reset"

\* A stream that an open call has returned, and that the application does not
\* reset, comes out of an accept call of the other side, which keeps accepting,
\* whatever happens to the streams beside it: half-written headers, dropped
\* open calls, resets, errors of accept.
OpenedDelivered ==
  \A s \in Called :
    (call[s] = "open")
      ~> (loc[s] = "delivered" \/ ended[s] = "reset" \/ closed)
=============================================================================
