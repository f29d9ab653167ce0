------------------------------ MODULE WTAccept ------------------------------
(***************************************************************************)
(* The accept side of a WebTransport connection: wt-rs/src/conn.rs,        *)
(* WTAccept and Connection::accept_uni / accept_bi.                        *)
(*                                                                         *)
(* Clones of one Connection share one WTAccept behind a Mutex.  A call to  *)
(* accept polls it: the poll drains every stream quinn has, turns each     *)
(* into a future that reads the two header varints (stream type, session   *)
(* id), and then takes a finished future, if there is one.  Futures, the   *)
(* wakers they hold and the tasks the wakers name are modelled explicitly, *)
(* because a poll that returns Pending with the wrong waker registered     *)
(* leaves a task asleep for ever.                                          *)
(*                                                                         *)
(* The state of both directions is kept per direction; only the Mutex is   *)
(* shared between them.  The order in which quinn hands over streams and   *)
(* in which FuturesUnordered polls ready futures is left open.             *)
(***************************************************************************)
EXTENDS FiniteSets, Naturals

CONSTANTS
  Streams,    \* the streams the peer may open
  Tasks,      \* the async tasks that call accept on clones of the connection
  NoTask,     \* "no waker registered"
  Kind,       \* what the peer writes in the header of each stream
  Ids,        \* session ids that occur on the wire
  SessionId,  \* WTAccept.id
  Roles       \* which task accepts which direction: a set of <<task, dir>>

Dirs == {"uni", "bi"}

\* UniStream and BiStream; every value without an arm of its own is "other".
StreamTypes == {"webtransport", "qpack_encoder", "qpack_decoder", "push", "other"}

\* The H3 stream types poll_accept_uni keeps in a field of WTAccept.
Placeholders == {"qpack_encoder", "qpack_decoder", "push"}

Kinds == [dir : Dirs, type : StreamTypes, sid : Ids]

ASSUME ConstantsAssumption ==
  /\ Kind \in [Streams -> Kinds]
  /\ NoTask \notin Tasks
  /\ SessionId \in Ids
  /\ Roles \subseteq Tasks \X Dirs

VARIABLES
  loc,          \* who owns the handle of each stream
  hdr,          \* header varints of the stream received so far (0..2)
  fate,         \* has the peer finished or reset its side?
  closed,       \* quinn::Connection has its final error
  ready,        \* drained futures in the ready-to-run queue
  task,         \* where each accept call is
  want,         \* the direction the task's call accepts
  woken,        \* the task is scheduled to be polled
  acceptWaker,  \* waker in the pending accept_uni/accept_bi future of quinn
  queueWaker    \* waker registered with drained_uni/drained_bi

vars == <<loc, hdr, fate, closed, ready, task, want, woken,
          acceptWaker, queueWaker>>
streamVars == <<loc, hdr, fate, closed>>
callVars   == <<task, want>>
wakerVars  == <<woken, acceptWaker, queueWaker>>

Locations == {"unopened", "incoming", "drained", "delivered", "stored",
              "dropped", "failed"}
Phases == {"idle", "calling", "waiting", "draining", "selecting"}

TypeOK ==
  /\ loc \in [Streams -> Locations]
  /\ hdr \in [Streams -> 0..2]
  /\ fate \in [Streams -> {"open", "finished", "reset"}]
  /\ closed \in BOOLEAN
  /\ ready \in SUBSET Streams
  /\ task \in [Tasks -> Phases]
  /\ want \in [Tasks -> Dirs]
  /\ woken \in [Tasks -> BOOLEAN]
  /\ acceptWaker \in [Dirs -> Tasks \cup {NoTask}]
  /\ queueWaker \in [Dirs -> Tasks \cup {NoTask}]

Init ==
  /\ loc = [s \in Streams |-> "unopened"]
  /\ hdr = [s \in Streams |-> 0]
  /\ fate = [s \in Streams |-> "open"]
  /\ closed = FALSE
  /\ ready = {}
  /\ task = [t \in Tasks |-> "idle"]
  /\ want = [t \in Tasks |-> "uni"]
  /\ woken = [t \in Tasks |-> FALSE]
  /\ acceptWaker = [d \in Dirs |-> NoTask]
  /\ queueWaker = [d \in Dirs |-> NoTask]

-----------------------------------------------------------------------------
(* The decode futures                                                      *)

\* A stream of this session, for the application.
Ours(s) == Kind[s].type = "webtransport" /\ Kind[s].sid = SessionId

\* Both read_varint calls of decode_uni / decode_bi return.
Decodable(s) == hdr[s] = 2 /\ fate[s] # "reset"

\* One of them returns an error: the stream was reset, or it ended or the
\* connection was lost before the header was complete.
Unreadable(s) ==
  \/ fate[s] = "reset"
  \/ hdr[s] < 2 /\ (fate[s] = "finished" \/ closed)

\* Mutant of DecodeFails: the end of a complete stream is taken for an error.
DecodeFailsAtEnd(s) ==
  \/ Unreadable(s)
  \/ fate[s] = "finished"
  \/ Decodable(s) /\ Kind[s].sid # SessionId

\* decode_uni / decode_bi return Err: a read failed or the session differs.
DecodeFails(s) ==
  \/ Unreadable(s)
  \/ Decodable(s) /\ Kind[s].sid # SessionId

DecodePends(s) == ~Decodable(s) /\ ~Unreadable(s)

-----------------------------------------------------------------------------
(* Wakers                                                                  *)

Incoming(d) == {s \in Streams : loc[s] = "incoming" /\ Kind[s].dir = d}
Drained(d)  == {s \in Streams : loc[s] = "drained" /\ Kind[s].dir = d}
Ready(d)    == {s \in ready : Kind[s].dir = d}

Wake(T) == woken' = [t \in Tasks |-> woken[t] \/ t \in T]

\* The future of stream s was pending on a read and becomes ready: it enters
\* the ready-to-run queue and the queue's waker is taken and woken.  A future
\* that is not pending on a read has no waker to call.
WakeReader(s) ==
  LET d == Kind[s].dir IN
  IF loc[s] = "drained" /\ s \notin ready
  THEN /\ ready' = ready \cup {s}
       /\ Wake({queueWaker[d]})
       /\ queueWaker' = [queueWaker EXCEPT ![d] = NoTask]
  ELSE UNCHANGED <<ready, woken, queueWaker>>

-----------------------------------------------------------------------------
(* The peer and the connection driver                                      *)

\* The first frame of a stream arrives: quinn queues it for accept and wakes
\* the pending accept future.
PeerOpen(s) ==
  LET d == Kind[s].dir IN
  /\ ~closed
  /\ loc[s] = "unopened"
  /\ loc' = [loc EXCEPT ![s] = "incoming"]
  /\ Wake({acceptWaker[d]})
  /\ acceptWaker' = [acceptWaker EXCEPT ![d] = NoTask]
  /\ UNCHANGED <<hdr, fate, closed, ready, queueWaker, callVars>>

\* Mutant of PeerHeader: a third varint is sent.
PeerHeaderThird(s) ==
  /\ ~closed
  /\ loc[s] # "unopened"
  /\ fate[s] = "open"
  /\ hdr[s] < 3
  /\ hdr' = [hdr EXCEPT ![s] = @ + 1]
  /\ WakeReader(s)
  /\ UNCHANGED <<loc, fate, closed, acceptWaker, callVars>>

\* The next header varint arrives.  A wt-rs peer writes the type and the
\* session id in two separate writes of open_uni / open_bi.
PeerHeader(s) ==
  /\ ~closed
  /\ loc[s] # "unopened"
  /\ fate[s] = "open"
  /\ hdr[s] < 2
  /\ hdr' = [hdr EXCEPT ![s] = @ + 1]
  /\ WakeReader(s)
  /\ UNCHANGED <<loc, fate, closed, acceptWaker, callVars>>

\* The peer's send half ends: FIN (also when open_uni is cancelled between its
\* two writes, which drops the SendStream), or a reset.
PeerEnd(s, f) ==
  /\ ~closed
  /\ loc[s] # "unopened"
  /\ fate[s] # "reset" /\ fate[s] # f
  /\ fate' = [fate EXCEPT ![s] = f]
  /\ WakeReader(s)
  /\ UNCHANGED <<loc, hdr, closed, acceptWaker, callVars>>

\* The connection is closed by either side or lost: every blocked reader and
\* both pending accept futures are woken.
Close ==
  /\ ~closed
  /\ closed' = TRUE
  /\ ready' = ready \cup Drained("uni") \cup Drained("bi")
  /\ Wake({acceptWaker[d] : d \in Dirs}
          \cup {queueWaker[d] : d \in {e \in Dirs : Drained(e) \ ready # {}}})
  /\ acceptWaker' = [d \in Dirs |-> NoTask]
  /\ queueWaker' = [d \in Dirs |-> IF Drained(d) \ ready # {} THEN NoTask
                                   ELSE queueWaker[d]]
  /\ UNCHANGED <<loc, hdr, fate, callVars>>

-----------------------------------------------------------------------------
(* accept_uni / accept_bi                                                  *)

Locked == \E t \in Tasks : task[t] \in {"draining", "selecting"}

\* The application awaits accept: poll_fn is polled at once and locks the
\* Mutex, which blocks the thread while another poll has it.
Call(t, d) ==
  /\ <<t, d>> \in Roles
  /\ task[t] = "idle"
  /\ task' = [task EXCEPT ![t] = "calling"]
  /\ want' = [want EXCEPT ![t] = d]
  /\ woken' = [woken EXCEPT ![t] = TRUE]
  /\ UNCHANGED <<streamVars, ready, acceptWaker, queueWaker>>

\* The application drops the pending accept future (select!, a timeout).
Cancel(t) ==
  /\ task[t] = "waiting"
  /\ task' = [task EXCEPT ![t] = "idle"]
  /\ UNCHANGED <<streamVars, ready, want, wakerVars>>

\* The closure of poll_fn, first polled by the call and then whenever the task
\* is woken, has the Mutex.
StartPoll(t) ==
  /\ task[t] \in {"calling", "waiting"} /\ woken[t]
  /\ ~Locked
  /\ task' = [task EXCEPT ![t] = "draining"]
  /\ woken' = [woken EXCEPT ![t] = FALSE]
  /\ UNCHANGED <<streamVars, ready, want, acceptWaker, queueWaker>>

\* Mutant of DrainStream: if let for while let, one stream per poll.
DrainOne(t, s) ==
  /\ task[t] = "draining"
  /\ s \in Incoming(want[t])
  /\ loc' = [loc EXCEPT ![s] = "drained"]
  /\ ready' = ready \cup {s}
  /\ acceptWaker' = [acceptWaker EXCEPT ![want[t]] = NoTask]
  /\ task' = [task EXCEPT ![t] = "selecting"]
  /\ UNCHANGED <<hdr, fate, closed, want, woken, queueWaker>>

\* drain_uni / drain_bi, quinn yields a stream: its decode future is pushed.
\* The accept future that yielded it is gone, and its waker with it.
DrainStream(t, s) ==
  /\ task[t] = "draining"
  /\ s \in Incoming(want[t])
  /\ loc' = [loc EXCEPT ![s] = "drained"]
  /\ ready' = ready \cup {s}
  /\ acceptWaker' = [acceptWaker EXCEPT ![want[t]] = NoTask]
  /\ UNCHANGED <<hdr, fate, closed, callVars, woken, queueWaker>>

\* Mutant of DrainDone: quinn is polled with a waker that wakes nobody.
DrainDoneNoWaker(t) ==
  /\ task[t] = "draining"
  /\ Incoming(want[t]) = {} /\ ~closed
  /\ task' = [task EXCEPT ![t] = "selecting"]
  /\ UNCHANGED <<streamVars, ready, want, woken, acceptWaker, queueWaker>>

\* drain_uni / drain_bi, no stream left: the accept future is pending on t.
DrainDone(t) ==
  /\ task[t] = "draining"
  /\ Incoming(want[t]) = {} /\ ~closed
  /\ acceptWaker' = [acceptWaker EXCEPT ![want[t]] = t]
  /\ task' = [task EXCEPT ![t] = "selecting"]
  /\ UNCHANGED <<streamVars, ready, want, woken, queueWaker>>

\* drain_uni / drain_bi, quinn yields the connection error: accept returns it.
DrainError(t) ==
  /\ task[t] = "draining"
  /\ Incoming(want[t]) = {} /\ closed
  /\ task' = [task EXCEPT ![t] = "idle"]
  /\ acceptWaker' = [acceptWaker EXCEPT ![want[t]] = NoTask]
  /\ UNCHANGED <<streamVars, ready, want, woken, queueWaker>>

\* select_uni / select_bi: poll_next registers the waker and polls a future
\* of the ready-to-run queue.
SelectFuture(t, s) ==
  /\ task[t] = "selecting"
  /\ s \in Ready(want[t])
  /\ ready' = ready \ {s}
  /\ queueWaker' = [queueWaker EXCEPT ![want[t]] = t]
  /\ UNCHANGED <<hdr, fate, closed, want, acceptWaker>>

\* Mutant of SelectPending: a queue that waits for its first element, as
\* FuturesOrdered would.
SelectFirst(t, s) ==
  /\ SelectFuture(t, s)
  /\ DecodePends(s)
  /\ task' = [task EXCEPT ![t] = "waiting"]
  /\ UNCHANGED <<loc, woken>>

\* The future still waits for its header; poll_next goes on, or yields after
\* a full round by waking the task that polls.
SelectPending(t, s) ==
  /\ SelectFuture(t, s)
  /\ DecodePends(s)
  /\ \/ UNCHANGED <<task, woken>>
     \/ /\ task' = [task EXCEPT ![t] = "waiting"]
        /\ woken' = [woken EXCEPT ![t] = TRUE]
  /\ UNCHANGED loc

\* The future failed: accept returns its error, the stream is dropped.
SelectError(t, s) ==
  /\ SelectFuture(t, s)
  /\ DecodeFails(s)
  /\ loc' = [loc EXCEPT ![s] = "failed"]
  /\ task' = [task EXCEPT ![t] = "idle"]
  /\ UNCHANGED woken

\* Mutant of ReturnStream: the stream type is not looked at.
ReturnAnyStream(t, s) ==
  /\ SelectFuture(t, s)
  /\ Decodable(s) /\ ~DecodeFails(s)
  /\ loc' = [loc EXCEPT ![s] = "delivered"]
  /\ task' = [task EXCEPT ![t] = "idle"]
  /\ UNCHANGED woken

\* A WebTransport stream: accept returns it.
ReturnStream(t, s) ==
  /\ SelectFuture(t, s)
  /\ Decodable(s) /\ ~DecodeFails(s) /\ Kind[s].type = "webtransport"
  /\ loc' = [loc EXCEPT ![s] = "delivered"]
  /\ task' = [task EXCEPT ![t] = "idle"]
  /\ UNCHANGED woken

\* An H3 uni stream is kept in its field; the stream that was there before is
\* dropped.  The loop of poll_accept_uni starts over.
KeepPlaceholder(t, s) ==
  /\ SelectFuture(t, s)
  /\ Decodable(s) /\ ~DecodeFails(s)
  /\ want[t] = "uni" /\ Kind[s].type \in Placeholders
  /\ loc' = [r \in Streams |->
               IF r = s THEN "stored"
               ELSE IF loc[r] = "stored" /\ Kind[r].type = Kind[s].type
                    THEN "dropped" ELSE loc[r]]
  /\ task' = [task EXCEPT ![t] = "draining"]
  /\ UNCHANGED woken

\* Any other header is warned about and the stream dropped.
DropUnknown(t, s) ==
  /\ SelectFuture(t, s)
  /\ Decodable(s) /\ ~DecodeFails(s) /\ Kind[s].type # "webtransport"
  /\ ~(want[t] = "uni" /\ Kind[s].type \in Placeholders)
  /\ loc' = [loc EXCEPT ![s] = "dropped"]
  /\ task' = [task EXCEPT ![t] = "draining"]
  /\ UNCHANGED woken

\* Nothing ready: poll_next has registered the waker, accept returns Pending
\* and the Mutex is released.
SelectNone(t) ==
  /\ task[t] = "selecting"
  /\ Ready(want[t]) = {}
  /\ queueWaker' = [queueWaker EXCEPT ![want[t]] = t]
  /\ task' = [task EXCEPT ![t] = "waiting"]
  /\ UNCHANGED <<streamVars, ready, want, woken, acceptWaker>>

-----------------------------------------------------------------------------

Peer ==
  \/ \E s \in Streams :
       \/ PeerOpen(s)
       \/ PeerHeader(s)
       \/ \E f \in {"finished", "reset"} : PeerEnd(s, f)
  \/ Close

\* What a poll does once it holds the Mutex.
PollStep(t) ==
  \/ \E s \in Streams :
       \/ DrainStream(t, s)
       \/ SelectPending(t, s)
       \/ SelectError(t, s)
       \/ ReturnStream(t, s)
       \/ KeepPlaceholder(t, s)
       \/ DropUnknown(t, s)
  \/ DrainDone(t)
  \/ DrainError(t)
  \/ SelectNone(t)

Next ==
  \/ Peer
  \/ \E t \in Tasks :
       \/ \E d \in Dirs : Call(t, d)
       \/ Cancel(t)
       \/ StartPoll(t)
       \/ PollStep(t)

Spec == Init /\ [][Next]_vars

(***************************************************************************)
(* A woken task is polled and a poll runs to its end: tokio schedules      *)
(* every woken task, and poll_accept_uni / poll_accept_bi never block once *)
(* they hold the Mutex.  The Mutex is held only inside a poll, so a thread *)
(* that waits for it finds it free again and again; strong fairness says   *)
(* that it eventually gets it.  Nothing is assumed of the peer or of the   *)
(* application.                                                            *)
(***************************************************************************)
Fairness ==
  \A t \in Tasks : SF_vars(StartPoll(t)) /\ WF_vars(PollStep(t))

FairSpec == Spec /\ Fairness

\* An application that calls accept again after every result.  The loops of
\* the examples do so too, but stop at the first error.
LoopingSpec ==
  FairSpec /\ \A t \in Tasks : WF_vars(\E d \in Dirs : Call(t, d))

-----------------------------------------------------------------------------
(* Properties                                                              *)

Parked(t) == task[t] = "waiting" /\ ~woken[t]

\* No lost wakeup: while an accept call sleeps there is nothing it could act
\* on: no connection error, no stream quinn has to hand over, no future ready
\* to run or able to finish.  (poll_accept_uni / poll_accept_bi return Pending
\* only with a waker registered for each of these events.)
NoLostWakeup ==
  \A t \in Tasks : Parked(t) =>
    /\ ~closed
    /\ Incoming(want[t]) = {}
    /\ Ready(want[t]) = {}
    /\ \A s \in Drained(want[t]) : DecodePends(s)

\* A stream of this session is refused only because of what its peer or the
\* connection did to it, and it is never taken for an H3 or unknown stream.
OursNeverLost ==
  \A s \in Streams : Ours(s) =>
    /\ loc[s] \notin {"stored", "dropped"}
    /\ loc[s] = "failed" => Unreadable(s)

\* A call that has something to return does return, also when what it has is
\* the connection error, however the Mutex is contended for.
CallAnswered ==
  \A t \in Tasks :
    (/\ task[t] \in {"calling", "waiting"}
     /\ \/ closed
        \/ \E s \in Incoming(want[t]) \cup Drained(want[t]) :
             Ours(s) /\ Decodable(s))
      ~> (task[t] = "idle")

\* The accept calls as the application sees them.
InboxPlace(l) ==
  CASE l = "unopened" -> "away"
    [] l \in {"incoming", "drained"} -> "inbox"
    [] l = "delivered" -> "taken"
    [] l = "failed" -> "refused"
    [] l \in {"stored", "dropped"} -> "aside"

Inbox == INSTANCE StreamInbox WITH
  Callers <- Tasks,
  Dir     <- [s \in Streams |-> Kind[s].dir],
  Mine    <- {s \in Streams : Ours(s)},
  place   <- [s \in Streams |-> InboxPlace(loc[s])],
  broken  <- {s \in Streams : Unreadable(s)},
  asking  <- [t \in Tasks |-> IF task[t] = "idle" THEN "none" ELSE want[t]],
  shut    <- closed

\* Polling, draining and waking never show: every stream is handed over at
\* most once, to one call, of its direction, and one of the session is refused
\* only if it cannot be read (poll_accept_uni and poll_accept_bi implement
\* accept_uni and accept_bi).
ImplementsInbox == Inbox!Spec

\* What the fields qpack_encoder, qpack_decoder and push of WTAccept are
\* there for: an H3 stream that its peer keeps open is not dropped while the
\* connection lives.  The code does not keep this: see the README.
PlaceholdersKept ==
  \A s \in Streams :
    (/\ Kind[s].dir = "uni" /\ Kind[s].type \in Placeholders
     /\ fate[s] = "open" /\ ~closed)
      => loc[s] \notin {"dropped", "failed"}

\* Step 2 of the strategy of WTAccept: a stream that was drained into the
\* queue is found there by a later poll.  The code does not keep this for a
\* stream drained when the connection closes: see the README.
DrainedSelected ==
  \A s \in Streams :
    (Ours(s) /\ loc[s] = "drained" /\ Decodable(s))
      ~> (loc[s] = "delivered" \/ fate[s] = "reset")
=============================================================================
