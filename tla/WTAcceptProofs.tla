--------------------------- MODULE WTAcceptProofs ---------------------------
(***************************************************************************)
(* Proofs about WTAccept for every set of streams and tasks: typing, that  *)
(* no accept call sleeps through an event it waits for, that a stream of   *)
(* the session is never mistaken for another one, and that WTAccept        *)
(* implements StreamInbox: the initial state maps to the initial state of  *)
(* the inbox, and every step of the peer or of a poll maps to one step of  *)
(* the inbox or to none.                                                   *)
(*                                                                         *)
(* Then proofs about StreamOpen: the peer it adds is one that WTAccept     *)
(* allows, so that what is proved of WTAccept holds there too, and what    *)
(* comes out of accept is what open has returned.                          *)
(***************************************************************************)
EXTENDS StreamOpen, TLAPS

\* No two tasks accept in the same direction: FuturesUnordered and quinn's
\* accept future each remember one waker, that of the last poll.
OneAcceptor ==
  \A t, u \in Tasks, d \in Dirs :
    <<t, d>> \in Roles /\ <<u, d>> \in Roles => t = u

\* An accept call waits for a direction its task has.
RolesKept == \A t \in Tasks : task[t] # "idle" => <<t, want[t]>> \in Roles

\* FuturesUnordered: the futures ready to run are among those it holds, and
\* one that is not ready to run still waits for its header.
QueueSound ==
  /\ \A s \in ready : loc[s] = "drained"
  /\ \A s \in Streams : loc[s] = "drained" /\ s \notin ready => DecodePends(s)

\* Quinn's accept future has nothing to yield and will wake t.
AcceptRegistered(t) ==
  /\ acceptWaker[want[t]] = t
  /\ ~closed
  /\ \A s \in Streams : Kind[s].dir = want[t] => loc[s] # "incoming"

\* No future of the queue is ready and the queue will wake t.
QueueRegistered(t) ==
  /\ queueWaker[want[t]] = t
  /\ \A s \in ready : Kind[s].dir # want[t]

Registered ==
  \A t \in Tasks : ~woken[t] =>
    /\ task[t] \in {"selecting", "waiting"} => AcceptRegistered(t)
    /\ task[t] = "waiting" => QueueRegistered(t)

WakeInv == TypeOK /\ RolesKept /\ QueueSound /\ Registered

-----------------------------------------------------------------------------
(* Typing                                                                  *)

\* Waking tasks leaves each of them woken or as it was.
LEMMA WakeType ==
  ASSUME woken \in [Tasks -> BOOLEAN], NEW T, Wake(T)
  PROVE  woken' \in [Tasks -> BOOLEAN]
BY DEF Wake

\* Waking the reader of a stream keeps the queue and the wakers typed.
LEMMA WakeReaderType ==
  ASSUME TypeOK, NEW s \in Streams, WakeReader(s)
  PROVE  /\ ready' \in SUBSET Streams
         /\ woken' \in [Tasks -> BOOLEAN]
         /\ queueWaker' \in [Dirs -> Tasks \cup {NoTask}]
<1>1. CASE loc[s] = "drained" /\ s \notin ready
  <2>1. woken' \in [Tasks -> BOOLEAN]
    BY <1>1, WakeType DEF TypeOK, WakeReader
  <2> QED BY <1>1, <2>1 DEF TypeOK, WakeReader
<1>2. CASE ~(loc[s] = "drained" /\ s \notin ready)
  BY <1>2 DEF TypeOK, WakeReader
<1> QED BY <1>1, <1>2

\* Every step keeps the variables of WTAccept within their types.
LEMMA TypeStep == ASSUME TypeOK, [Next]_vars PROVE TypeOK'
<1> USE DEF Locations, Phases, Dirs
<1>k. Kind \in [Streams -> Kinds] /\ NoTask \notin Tasks
  BY ConstantsAssumption
<1>1. CASE Peer
  <2>1. ASSUME NEW s \in Streams, PeerOpen(s) PROVE TypeOK'
    BY <2>1, <1>k DEF TypeOK, PeerOpen, Wake, callVars, Kinds
  <2>2. ASSUME NEW s \in Streams, PeerHeader(s) PROVE TypeOK'
    BY <2>2, WakeReaderType DEF TypeOK, PeerHeader, callVars
  <2>3. ASSUME NEW s \in Streams, NEW f \in {"finished", "reset"}, PeerEnd(s, f)
        PROVE TypeOK'
    BY <2>3, WakeReaderType DEF TypeOK, PeerEnd, callVars
  <2>4. ASSUME Close PROVE TypeOK'
    BY <2>4 DEF TypeOK, Close, Wake, Drained, callVars
  <2> QED BY <1>1, <2>1, <2>2, <2>3, <2>4 DEF Peer
<1>2. ASSUME NEW t \in Tasks, NEW d \in Dirs, Call(t, d) PROVE TypeOK'
  BY <1>2 DEF TypeOK, Call, streamVars
<1>3. ASSUME NEW t \in Tasks, Cancel(t) PROVE TypeOK'
  BY <1>3 DEF TypeOK, Cancel, streamVars, wakerVars
<1>4. ASSUME NEW t \in Tasks, StartPoll(t) PROVE TypeOK'
  BY <1>4 DEF TypeOK, StartPoll, streamVars
<1>5. ASSUME NEW t \in Tasks, PollStep(t) PROVE TypeOK'
  <2>1. ASSUME NEW s \in Streams, DrainStream(t, s) PROVE TypeOK'
    BY <2>1 DEF TypeOK, DrainStream, callVars
  <2>2. ASSUME NEW s \in Streams, SelectPending(t, s) PROVE TypeOK'
    BY <2>2 DEF TypeOK, SelectPending, SelectFuture
  <2>3. ASSUME NEW s \in Streams, SelectError(t, s) PROVE TypeOK'
    BY <2>3 DEF TypeOK, SelectError, SelectFuture
  <2>4. ASSUME NEW s \in Streams, ReturnStream(t, s) PROVE TypeOK'
    BY <2>4 DEF TypeOK, ReturnStream, SelectFuture
  <2>5. ASSUME NEW s \in Streams, KeepPlaceholder(t, s) PROVE TypeOK'
    BY <2>5 DEF TypeOK, KeepPlaceholder, SelectFuture
  <2>6. ASSUME NEW s \in Streams, DropUnknown(t, s) PROVE TypeOK'
    BY <2>6 DEF TypeOK, DropUnknown, SelectFuture
  <2>7. ASSUME DrainDone(t) PROVE TypeOK'
    BY <2>7 DEF TypeOK, DrainDone, streamVars
  <2>8. ASSUME DrainError(t) PROVE TypeOK'
    BY <2>8 DEF TypeOK, DrainError, streamVars
  <2>9. ASSUME SelectNone(t) PROVE TypeOK'
    BY <2>9 DEF TypeOK, SelectNone, streamVars
  <2> QED BY <1>5, <2>1, <2>2, <2>3, <2>4, <2>5, <2>6, <2>7, <2>8, <2>9
          DEF PollStep
<1>6. CASE UNCHANGED vars
  BY <1>6 DEF TypeOK, vars
<1> QED BY <1>1, <1>2, <1>3, <1>4, <1>5, <1>6 DEF Next

\* The initial state is typed.
LEMMA TypeInit == ASSUME Init PROVE TypeOK
<1>1. /\ loc \in [Streams -> Locations]
      /\ hdr \in [Streams -> 0..2]
      /\ fate \in [Streams -> {"open", "finished", "reset"}]
      /\ task \in [Tasks -> Phases]
      /\ want \in [Tasks -> Dirs]
  BY DEF Init, Locations, Phases, Dirs
<1>2. /\ woken \in [Tasks -> BOOLEAN]
      /\ acceptWaker \in [Dirs -> Tasks \cup {NoTask}]
      /\ queueWaker \in [Dirs -> Tasks \cup {NoTask}]
  BY DEF Init
<1>3. closed \in BOOLEAN /\ ready \in SUBSET Streams
  BY DEF Init
<1> QED BY <1>1, <1>2, <1>3 DEF TypeOK

\* The variables of WTAccept keep their types in every behaviour.
THEOREM TypeCorrect == Spec => []TypeOK
<1>1. Init => TypeOK
  BY TypeInit
<1>2. TypeOK /\ [Next]_vars => TypeOK'
  BY TypeStep
<1> QED BY <1>1, <1>2, PTL DEF Spec

-----------------------------------------------------------------------------
(* No lost wakeup                                                          *)

\* The peer and the connection driver wake whoever waits for what they bring.
LEMMA PeerWakes == ASSUME WakeInv, TypeOK', Peer PROVE WakeInv'
<1>t. TypeOK /\ RolesKept /\ QueueSound /\ Registered
  BY DEF WakeInv
<1>k. Kind \in [Streams -> Kinds]
  BY ConstantsAssumption
<1>1. ASSUME NEW s \in Streams, PeerOpen(s) PROVE WakeInv'
  <2>1. RolesKept'
    BY <1>1, <1>t DEF RolesKept, PeerOpen, callVars
  <2>2. QueueSound'
    BY <1>1, <1>t DEF QueueSound, PeerOpen, TypeOK,
                      DecodePends, Decodable, Unreadable
  <2>3. ASSUME NEW t \in Tasks, ~woken'[t]
        PROVE  /\ task'[t] \in {"selecting", "waiting"} => AcceptRegistered(t)'
               /\ task'[t] = "waiting" => QueueRegistered(t)'
    <3>1. ~woken[t] /\ acceptWaker[Kind[s].dir] # t
      BY <1>1, <2>3, <1>t DEF PeerOpen, Wake, TypeOK
    <3>2. task[t] \in {"selecting", "waiting"} => AcceptRegistered(t)
      BY <3>1, <1>t DEF Registered
    <3>3. task[t] \in {"selecting", "waiting"} => want[t] # Kind[s].dir
      BY <3>1, <3>2 DEF AcceptRegistered
    <3>4. task[t] = "waiting" => QueueRegistered(t)
      BY <3>1, <1>t DEF Registered
    <3>5. task[t] \in {"selecting", "waiting"} => AcceptRegistered(t)'
      BY <1>1, <3>2, <3>3, <1>t, <1>k
         DEF AcceptRegistered, PeerOpen, TypeOK, callVars, Kinds
    <3>6. task[t] = "waiting" => QueueRegistered(t)'
      BY <1>1, <3>4 DEF QueueRegistered, PeerOpen, callVars
    <3> QED BY <1>1, <3>5, <3>6 DEF PeerOpen, callVars
  <2>4. Registered'
    BY <2>3 DEF Registered
  <2> QED BY <2>1, <2>2, <2>4 DEF WakeInv
<1>2. ASSUME NEW s \in Streams, WakeReader(s),
             \A r \in Streams \ {s} : hdr'[r] = hdr[r] /\ fate'[r] = fate[r],
             UNCHANGED <<loc, closed, acceptWaker, callVars>>,
             loc[s] = "drained" => s \in ready'
      PROVE WakeInv'
  <2>1. RolesKept'
    BY <1>2, <1>t DEF RolesKept, callVars
  <2>2. QueueSound'
    BY <1>2, <1>t DEF QueueSound, WakeReader,
                      TypeOK, DecodePends, Decodable, Unreadable
  <2>3. Registered'
    BY <1>2, <1>t, <1>k DEF Registered, AcceptRegistered, QueueRegistered,
                      WakeReader, Wake, TypeOK, callVars, Kinds
  <2> QED BY <2>1, <2>2, <2>3 DEF WakeInv
<1>3. ASSUME NEW s \in Streams, WakeReader(s)
      PROVE  loc[s] = "drained" => s \in ready'
  BY <1>3 DEF WakeReader
<1>4. ASSUME NEW s \in Streams, PeerHeader(s) PROVE WakeInv'
  BY <1>2, <1>3, <1>4, <1>t DEF PeerHeader, TypeOK
<1>5. ASSUME NEW s \in Streams, NEW f \in {"finished", "reset"}, PeerEnd(s, f)
      PROVE WakeInv'
  BY <1>2, <1>3, <1>5, <1>t DEF PeerEnd, TypeOK
<1>6. ASSUME Close PROVE WakeInv'
  <2>1. RolesKept'
    BY <1>6, <1>t DEF RolesKept, Close, callVars
  <2>2. QueueSound'
    BY <1>6, <1>t, <1>k DEF QueueSound, Close, Drained, Kinds, Dirs
  <2>3. ASSUME NEW t \in Tasks, ~woken'[t]
        PROVE  task'[t] \notin {"selecting", "waiting"}
    <3>1. ~woken[t] /\ \A d \in Dirs : acceptWaker[d] # t
      BY <1>6, <2>3, <1>t DEF Close, Wake, TypeOK
    <3>2. task[t] \in {"selecting", "waiting"} => acceptWaker[want[t]] = t
      BY <3>1, <1>t DEF Registered, AcceptRegistered
    <3>3. want[t] \in Dirs
      BY <1>t DEF TypeOK
    <3> QED BY <1>6, <3>1, <3>2, <3>3 DEF Close, callVars
  <2>4. Registered'
    BY <2>3 DEF Registered
  <2> QED BY <2>1, <2>2, <2>4 DEF WakeInv
<1> QED BY <1>1, <1>4, <1>5, <1>6 DEF Peer

\* What Registered says of one task.
RegisteredTask(t) ==
  ~woken[t] =>
    /\ task[t] \in {"selecting", "waiting"} => AcceptRegistered(t)
    /\ task[t] = "waiting" => QueueRegistered(t)

\* A poll touches the streams, the queue and the wakers of its own direction
\* only, so it does not disturb the registrations of another task.
LEMMA PollDisturbsNoOther ==
  ASSUME OneAcceptor, WakeInv, NEW t \in Tasks, task[t] # "idle",
         NEW u \in Tasks \ {t},
         UNCHANGED <<closed, want>>,
         task'[u] = task[u], woken'[u] = woken[u],
         \A d \in Dirs \ {want[t]} : /\ acceptWaker'[d] = acceptWaker[d]
                                     /\ queueWaker'[d] = queueWaker[d],
         \A s \in Streams : loc'[s] = "incoming" => loc[s] = "incoming",
         \A s \in ready' : s \in ready \/ Kind[s].dir = want[t]
  PROVE  RegisteredTask(u)'
<1>t. TypeOK /\ RolesKept /\ Registered
  BY DEF WakeInv
<1>1. CASE task[u] = "idle"
  BY <1>1 DEF RegisteredTask
<1>2. CASE task[u] # "idle"
  <2>1. want[t] \in Dirs /\ want[u] \in Dirs
    BY <1>t DEF TypeOK
  <2>2. want[u] # want[t]
    BY <1>2, <1>t, <2>1 DEF RolesKept, OneAcceptor
  <2>3. ~woken[u] /\ task[u] \in {"selecting", "waiting"}
          => AcceptRegistered(u) /\ AcceptRegistered(u)'
    BY <1>t, <2>1, <2>2 DEF Registered, AcceptRegistered
  <2>4. ~woken[u] /\ task[u] = "waiting"
          => QueueRegistered(u) /\ QueueRegistered(u)'
    BY <1>t, <2>1, <2>2 DEF Registered, QueueRegistered
  <2> QED BY <2>3, <2>4 DEF RegisteredTask
<1> QED BY <1>1, <1>2

\* Before a poll and outside it nothing is unregistered.
LEMMA CallWakes ==
  ASSUME WakeInv, TypeOK', NEW t \in Tasks,
         (\E d \in Dirs : Call(t, d)) \/ Cancel(t) \/ StartPoll(t)
  PROVE  WakeInv'
<1>t. TypeOK /\ RolesKept /\ QueueSound /\ Registered
  BY DEF WakeInv
<1>1. RolesKept'
  BY <1>t DEF RolesKept, Call, Cancel, StartPoll, TypeOK
<1>2. UNCHANGED <<streamVars, ready, acceptWaker, queueWaker>>
  BY DEF Call, Cancel, StartPoll, wakerVars
<1>3. QueueSound'
  BY <1>2, <1>t DEF QueueSound, streamVars, DecodePends, Decodable, Unreadable
<1>4. ASSUME NEW u \in Tasks, ~woken'[u],
             task'[u] \in {"selecting", "waiting"}
      PROVE  ~woken[u] /\ task'[u] = task[u] /\ want'[u] = want[u]
  BY <1>4, <1>t DEF Call, Cancel, StartPoll, wakerVars, TypeOK
<1>5. ASSUME NEW u \in Tasks PROVE RegisteredTask(u)'
  BY <1>2, <1>4, <1>t DEF RegisteredTask, Registered, AcceptRegistered,
                          QueueRegistered, streamVars
<1>6. Registered'
  BY <1>5 DEF Registered, RegisteredTask
<1> QED BY <1>1, <1>3, <1>6 DEF WakeInv

\* It is enough to look at the polling task and at the queue.
LEMMA PollKeeps ==
  ASSUME OneAcceptor, WakeInv, TypeOK', NEW t \in Tasks, task[t] # "idle",
         UNCHANGED <<closed, want>>,
         \A u \in Tasks \ {t} : task'[u] = task[u] /\ woken'[u] = woken[u],
         \A d \in Dirs \ {want[t]} : /\ acceptWaker'[d] = acceptWaker[d]
                                     /\ queueWaker'[d] = queueWaker[d],
         \A s \in Streams : loc'[s] = "incoming" => loc[s] = "incoming",
         \A s \in ready' : s \in ready \/ Kind[s].dir = want[t],
         QueueSound', RegisteredTask(t)'
  PROVE  WakeInv'
<1>t. TypeOK /\ RolesKept
  BY DEF WakeInv
<1>1. RolesKept'
  BY <1>t DEF RolesKept
<1>2. ASSUME NEW u \in Tasks \ {t} PROVE RegisteredTask(u)'
  BY <1>2, PollDisturbsNoOther
<1>3. Registered'
  BY <1>2 DEF Registered, RegisteredTask
<1> QED BY <1>1, <1>3 DEF WakeInv

\* A future that is taken from the ready-to-run queue and does not return
\* still waits for its header; every other outcome ends or restarts the poll.
LEMMA SelectKeeps ==
  ASSUME OneAcceptor, WakeInv, TypeOK', NEW t \in Tasks, NEW s \in Streams,
         SelectFuture(t, s),
         \A u \in Tasks \ {t} : task'[u] = task[u] /\ woken'[u] = woken[u],
         \A r \in Streams \ {s} :
           loc'[r] = loc[r] \/ (loc[r] = "stored" /\ loc'[r] = "dropped"),
         loc'[s] # "incoming",
         loc'[s] = "drained" => DecodePends(s),
         \/ task'[t] \in {"idle", "draining"}
         \/ task'[t] = "waiting" /\ woken'[t]
         \/ task'[t] = "selecting" /\ woken'[t] = woken[t] /\ UNCHANGED loc
  PROVE  WakeInv'
<1>t. TypeOK /\ QueueSound /\ Registered
  BY DEF WakeInv
<1>s. /\ task[t] = "selecting" /\ s \in ready /\ Kind[s].dir = want[t]
      /\ want[t] \in Dirs
  BY <1>t DEF SelectFuture, Ready, TypeOK
<1>1. QueueSound'
  <2>1. \A r \in ready' : loc'[r] = "drained"
    BY <1>t DEF QueueSound, SelectFuture, TypeOK
  <2>2. ASSUME NEW r \in Streams, loc'[r] = "drained", r \notin ready'
        PROVE  DecodePends(r)
    BY <2>2, <1>t DEF QueueSound, SelectFuture
  <2> QED BY <2>1, <2>2
          DEF QueueSound, SelectFuture, DecodePends, Decodable, Unreadable
<1>2. RegisteredTask(t)'
  <2>1. CASE task'[t] = "selecting" /\ woken'[t] = woken[t] /\ UNCHANGED loc
    BY <2>1, <1>s, <1>t DEF RegisteredTask, Registered, AcceptRegistered,
                            SelectFuture
  <2>2. CASE task'[t] \in {"idle", "draining"}
    BY <2>2 DEF RegisteredTask
  <2>3. CASE task'[t] = "waiting" /\ woken'[t]
    BY <2>3 DEF RegisteredTask
  <2> QED BY <2>1, <2>2, <2>3
<1>3. \A d \in Dirs \ {want[t]} : /\ acceptWaker'[d] = acceptWaker[d]
                                  /\ queueWaker'[d] = queueWaker[d]
  BY <1>t DEF SelectFuture, TypeOK
<1>4. \A r \in Streams : loc'[r] = "incoming" => loc[r] = "incoming"
  OBVIOUS
<1> QED BY <1>1, <1>2, <1>3, <1>4, <1>s, PollKeeps DEF SelectFuture

\* A poll returns Pending only with both wakers registered.
LEMMA PollWakes ==
  ASSUME OneAcceptor, WakeInv, TypeOK', NEW t \in Tasks, PollStep(t)
  PROVE  WakeInv'
<1>t. TypeOK /\ QueueSound /\ Registered /\ want[t] \in Dirs
  BY DEF WakeInv, TypeOK
<1>1. ASSUME NEW s \in Streams, DrainStream(t, s) PROVE WakeInv'
  <2>1. loc[s] = "incoming" /\ Kind[s].dir = want[t]
    BY <1>1 DEF DrainStream, Incoming
  <2>2. QueueSound'
    BY <1>1, <2>1, <1>t DEF QueueSound, DrainStream, TypeOK,
                            DecodePends, Decodable, Unreadable
  <2>3. RegisteredTask(t)'
    BY <1>1 DEF RegisteredTask, DrainStream, callVars
  <2> QED BY <1>1, <2>1, <2>2, <2>3, <1>t, PollKeeps
          DEF DrainStream, callVars, TypeOK
<1>2. ASSUME DrainDone(t) PROVE WakeInv'
  <2>1. QueueSound'
    BY <1>2, <1>t DEF QueueSound, DrainDone, streamVars,
                      DecodePends, Decodable, Unreadable
  <2>2. RegisteredTask(t)'
    BY <1>2, <1>t DEF RegisteredTask, AcceptRegistered, DrainDone, streamVars,
                      Incoming, TypeOK
  <2> QED BY <1>2, <2>1, <2>2, <1>t, PollKeeps
          DEF DrainDone, streamVars, TypeOK
<1>3. ASSUME DrainError(t) PROVE WakeInv'
  <2>1. QueueSound'
    BY <1>3, <1>t DEF QueueSound, DrainError, streamVars,
                      DecodePends, Decodable, Unreadable
  <2>2. RegisteredTask(t)'
    BY <1>3, <1>t DEF RegisteredTask, DrainError, TypeOK
  <2> QED BY <1>3, <2>1, <2>2, <1>t, PollKeeps
          DEF DrainError, streamVars, TypeOK
<1>4. ASSUME SelectNone(t) PROVE WakeInv'
  <2>1. QueueSound'
    BY <1>4, <1>t DEF QueueSound, SelectNone, streamVars,
                      DecodePends, Decodable, Unreadable
  <2>2. ~woken[t] => AcceptRegistered(t)
    BY <1>4, <1>t DEF Registered, SelectNone
  <2>3. ~woken'[t] => AcceptRegistered(t)' /\ QueueRegistered(t)'
    BY <1>4, <2>2, <1>t DEF AcceptRegistered, QueueRegistered, SelectNone,
                            streamVars, Ready, TypeOK
  <2>4. RegisteredTask(t)'
    BY <2>3 DEF RegisteredTask
  <2> QED BY <1>4, <2>1, <2>4, <1>t, PollKeeps
          DEF SelectNone, streamVars, TypeOK
<1>5. ASSUME NEW s \in Streams, SelectPending(t, s) PROVE WakeInv'
  <2>1. loc[s] = "drained"
    BY <1>5, <1>t DEF SelectPending, SelectFuture, Ready, QueueSound
  <2> QED BY <1>5, <2>1, <1>t, SelectKeeps
          DEF SelectPending, SelectFuture, TypeOK
<1>6. ASSUME NEW s \in Streams, SelectError(t, s) PROVE WakeInv'
  BY <1>6, <1>t, SelectKeeps DEF SelectError, TypeOK
<1>7. ASSUME NEW s \in Streams, ReturnStream(t, s) PROVE WakeInv'
  BY <1>7, <1>t, SelectKeeps DEF ReturnStream, TypeOK
<1>8. ASSUME NEW s \in Streams, DropUnknown(t, s) PROVE WakeInv'
  BY <1>8, <1>t, SelectKeeps DEF DropUnknown, TypeOK
<1>9. ASSUME NEW s \in Streams, KeepPlaceholder(t, s) PROVE WakeInv'
  <2>1. task'[t] = "draining"
    BY <1>9, <1>t DEF KeepPlaceholder, TypeOK
  <2>2. \A u \in Tasks \ {t} : task'[u] = task[u] /\ woken'[u] = woken[u]
    BY <1>9, <1>t DEF KeepPlaceholder, TypeOK
  <2>3. \A r \in Streams \ {s} :
          loc'[r] = loc[r] \/ (loc[r] = "stored" /\ loc'[r] = "dropped")
    BY <1>9 DEF KeepPlaceholder
  <2>4. loc'[s] = "stored"
    BY <1>9 DEF KeepPlaceholder
  <2> QED BY <1>9, <2>1, <2>2, <2>3, <2>4, SelectKeeps DEF KeepPlaceholder
<1> QED BY <1>1, <1>2, <1>3, <1>4, <1>5, <1>6, <1>7, <1>8, <1>9 DEF PollStep

\* NoLostWakeup follows from the registrations and the soundness of the queue.
LEMMA WakeInvSuffices == ASSUME WakeInv PROVE NoLostWakeup
<1> SUFFICES ASSUME NEW t \in Tasks, Parked(t)
             PROVE  /\ ~closed
                    /\ Incoming(want[t]) = {}
                    /\ Ready(want[t]) = {}
                    /\ \A s \in Drained(want[t]) : DecodePends(s)
  BY DEF NoLostWakeup
<1>1. AcceptRegistered(t) /\ QueueRegistered(t)
  BY DEF WakeInv, Registered, Parked
<1>2. ~closed /\ Incoming(want[t]) = {} /\ Ready(want[t]) = {}
  BY <1>1 DEF AcceptRegistered, QueueRegistered, Incoming, Ready
<1>3. \A s \in Drained(want[t]) : s \notin ready
  BY <1>1 DEF QueueRegistered, Drained
<1>4. \A s \in Drained(want[t]) : DecodePends(s)
  BY <1>3 DEF WakeInv, QueueSound, Drained
<1> QED BY <1>2, <1>4

\* No accept call sleeps through a stream, a header or the end of the
\* connection, whatever the streams and the tasks, if no two tasks accept in
\* the same direction (AcceptShared shows that the condition is needed).
THEOREM NoLostWakeupCorrect ==
  ASSUME OneAcceptor PROVE Spec => []NoLostWakeup
<1>1. Init => WakeInv
  <2> SUFFICES ASSUME Init PROVE WakeInv
    OBVIOUS
  <2>1. TypeOK
    BY TypeInit
  <2>2. RolesKept /\ QueueSound /\ Registered
    BY DEF Init, RolesKept, QueueSound, Registered
  <2> QED BY <2>1, <2>2 DEF WakeInv
<1>2. WakeInv /\ [Next]_vars => WakeInv'
  <2> SUFFICES ASSUME WakeInv, [Next]_vars PROVE WakeInv'
    OBVIOUS
  <2>1. TypeOK'
    BY TypeStep DEF WakeInv
  <2>2. CASE Peer
    BY <2>1, <2>2, PeerWakes
  <2>3. CASE \E t \in Tasks :
               (\E d \in Dirs : Call(t, d)) \/ Cancel(t) \/ StartPoll(t)
    BY <2>1, <2>3, CallWakes
  <2>4. CASE \E t \in Tasks : PollStep(t)
    BY <2>1, <2>4, PollWakes
  <2>5. CASE UNCHANGED vars
    BY <2>5 DEF vars, WakeInv, TypeOK, RolesKept, QueueSound, Registered,
                AcceptRegistered, QueueRegistered, DecodePends, Decodable,
                Unreadable
  <2> QED BY <2>2, <2>3, <2>4, <2>5 DEF Next
<1>3. WakeInv => NoLostWakeup
  BY WakeInvSuffices
<1> QED BY <1>1, <1>2, <1>3, PTL DEF Spec

-----------------------------------------------------------------------------
(* Streams of the session                                                  *)

\* An unreadable stream stays unreadable: nothing arrives after its end.
LEMMA UnreadableStable ==
  ASSUME TypeOK, NEW s \in Streams, Unreadable(s), [Next]_vars
  PROVE  Unreadable(s)'
<1>1. ASSUME NEW r \in Streams, PeerHeader(r) PROVE Unreadable(s)'
  BY <1>1 DEF PeerHeader, Unreadable, TypeOK
<1>2. ASSUME NEW r \in Streams, NEW f \in {"finished", "reset"}, PeerEnd(r, f)
      PROVE  Unreadable(s)'
  BY <1>2 DEF PeerEnd, Unreadable, TypeOK
<1>3. CASE Close
  BY <1>3 DEF Close, Unreadable
<1>4. CASE UNCHANGED <<hdr, fate, closed>>
  BY <1>4 DEF Unreadable
<1>5. (\E r \in Streams : PeerOpen(r)) => UNCHANGED <<hdr, fate, closed>>
  BY DEF PeerOpen
<1>6. ASSUME NEW t \in Tasks,
             \/ \E d \in Dirs : Call(t, d)
             \/ Cancel(t) \/ StartPoll(t) \/ PollStep(t)
      PROVE  UNCHANGED <<hdr, fate, closed>>
  BY <1>6 DEF Call, Cancel, StartPoll, PollStep, DrainStream, DrainDone,
              DrainError, SelectFuture, SelectPending, SelectError,
              ReturnStream, KeepPlaceholder, DropUnknown, SelectNone, streamVars
<1> QED BY <1>1, <1>2, <1>3, <1>4, <1>5, <1>6 DEF Next, Peer, vars

\* Only the end of the stream or of the connection makes accept refuse a
\* stream of the session, and the H3 placeholders never take one.
THEOREM OursNeverLostCorrect == Spec => []OursNeverLost
<1>1. Init => OursNeverLost
  BY DEF Init, OursNeverLost
<1>2. TypeOK /\ OursNeverLost /\ [Next]_vars => OursNeverLost'
  <2> SUFFICES ASSUME TypeOK, OursNeverLost, [Next]_vars,
                      NEW s \in Streams, Ours(s)
               PROVE  /\ loc'[s] \notin {"stored", "dropped"}
                      /\ loc'[s] = "failed" => Unreadable(s)'
    BY DEF OursNeverLost, Ours
  <2>1. loc[s] \notin {"stored", "dropped"} /\ (loc[s] = "failed" => Unreadable(s))
    BY DEF OursNeverLost
  <2>2. CASE loc'[s] = loc[s]
    BY <2>1, <2>2, UnreadableStable
  <2>3. CASE loc'[s] # loc[s]
    <3>1. ASSUME NEW r \in Streams, PeerOpen(r) PROVE loc'[s] = "incoming"
      BY <2>3, <3>1 DEF PeerOpen, TypeOK
    <3>2. ASSUME NEW t \in Tasks, NEW r \in Streams, DrainStream(t, r)
          PROVE  loc'[s] = "drained"
      BY <2>3, <3>2 DEF DrainStream, TypeOK
    <3>3. ASSUME NEW t \in Tasks, NEW r \in Streams, SelectError(t, r)
          PROVE  loc'[s] = "failed" /\ Unreadable(s)'
      <4>1. s = r /\ loc'[s] = "failed" /\ DecodeFails(s)
        BY <2>3, <3>3 DEF SelectError, TypeOK
      <4>2. Unreadable(s)
        BY <4>1 DEF DecodeFails, Ours
      <4> QED BY <4>1, <4>2, UnreadableStable
    <3>4. ASSUME NEW t \in Tasks, NEW r \in Streams, ReturnStream(t, r)
          PROVE  loc'[s] = "delivered"
      BY <2>3, <3>4 DEF ReturnStream, TypeOK
    <3>5. ASSUME NEW t \in Tasks, NEW r \in Streams, KeepPlaceholder(t, r)
          PROVE  FALSE
      BY <2>3, <3>5 DEF KeepPlaceholder, Placeholders, Ours
    <3>6. ASSUME NEW t \in Tasks, NEW r \in Streams, DropUnknown(t, r)
          PROVE  FALSE
      BY <2>3, <3>6 DEF DropUnknown, Ours, TypeOK
    <3>7. ~UNCHANGED streamVars /\ ~UNCHANGED loc
      BY <2>3 DEF streamVars
    <3> QED BY <3>1, <3>2, <3>3, <3>4, <3>5, <3>6, <3>7
            DEF Next, Peer, PollStep, PeerHeader, PeerEnd, Close, Call, Cancel,
                StartPoll, DrainDone, DrainError, SelectPending, SelectNone, vars
  <2> QED BY <2>2, <2>3
<1> QED BY <1>1, <1>2, TypeCorrect, PTL DEF Spec

-----------------------------------------------------------------------------
(* WTAccept implements StreamInbox                                         *)

\* The futures that are ready to run belong to streams in the queue.
ReadyDrained == \A s \in ready : loc[s] = "drained"

\* The queue holds exactly the streams that were drained and not yet selected.
LEMMA ReadyDrainedCorrect == Spec => []ReadyDrained
<1>1. Init => ReadyDrained
  BY DEF Init, ReadyDrained
<1>2. TypeOK /\ ReadyDrained /\ [Next]_vars => ReadyDrained'
  <2> SUFFICES ASSUME TypeOK, ReadyDrained, [Next]_vars PROVE ReadyDrained'
    OBVIOUS
  <2>1. CASE Peer
    <3>1. ASSUME NEW s \in Streams, PeerOpen(s) PROVE ReadyDrained'
      BY <3>1 DEF PeerOpen, ReadyDrained, TypeOK
    <3>2. ASSUME NEW s \in Streams, WakeReader(s), UNCHANGED loc
          PROVE ReadyDrained'
      BY <3>2 DEF WakeReader, ReadyDrained
    <3>3. ASSUME Close PROVE ReadyDrained'
      BY <3>3 DEF Close, Drained, ReadyDrained
    <3> QED BY <2>1, <3>1, <3>2, <3>3 DEF Peer, PeerHeader, PeerEnd
  <2>2. ASSUME NEW t \in Tasks,
               (\E d \in Dirs : Call(t, d)) \/ Cancel(t) \/ StartPoll(t)
        PROVE ReadyDrained'
    BY <2>2 DEF Call, Cancel, StartPoll, streamVars, ReadyDrained
  <2>3. ASSUME NEW t \in Tasks, PollStep(t) PROVE ReadyDrained'
    <3>1. ASSUME NEW s \in Streams, DrainStream(t, s) PROVE ReadyDrained'
      BY <3>1 DEF DrainStream, ReadyDrained, TypeOK
    <3>2. CASE DrainDone(t) \/ DrainError(t) \/ SelectNone(t)
      BY <3>2 DEF DrainDone, DrainError, SelectNone, streamVars, ReadyDrained
    <3>3. ASSUME NEW s \in Streams, SelectFuture(t, s),
                 \A r \in Streams \ {s} : loc'[r] = loc[r] \/ loc[r] = "stored"
          PROVE ReadyDrained'
      BY <3>3 DEF SelectFuture, ReadyDrained, TypeOK
    <3> QED BY <2>3, <3>1, <3>2, <3>3
            DEF PollStep, SelectPending, SelectError, ReturnStream,
                KeepPlaceholder, DropUnknown, TypeOK
  <2>4. CASE UNCHANGED vars
    BY <2>4 DEF vars, ReadyDrained
  <2> QED BY <2>1, <2>2, <2>3, <2>4 DEF Next
<1> QED BY <1>1, <1>2, TypeCorrect, PTL DEF Spec

-----------------------------------------------------------------------------

\* Moving one stream moves it in the inbox.
LEMMA MoveMaps ==
  ASSUME TypeOK, NEW s \in Streams, NEW v, loc' = [loc EXCEPT ![s] = v]
  PROVE  [r \in Streams |-> InboxPlace(loc'[r])]
           = [[r \in Streams |-> InboxPlace(loc[r])] EXCEPT ![s] = InboxPlace(v)]
<1>1. \A r \in Streams : (r = s => loc'[r] = v) /\ (r # s => loc'[r] = loc[r])
  BY DEF TypeOK
<1>2. \A r \in Streams : InboxPlace(loc'[r])
        = IF r = s THEN InboxPlace(v) ELSE InboxPlace(loc[r])
  BY <1>1
<1>3. [[r \in Streams |-> InboxPlace(loc[r])] EXCEPT ![s] = InboxPlace(v)]
        = [r \in Streams |-> IF r = s THEN InboxPlace(v)
                             ELSE InboxPlace(loc[r])]
  OBVIOUS
<1> QED BY <1>2, <1>3

\* The place of each location, with the CASE evaluated.
LEMMA Places ==
  /\ InboxPlace("unopened") = "away"
  /\ InboxPlace("incoming") = "inbox" /\ InboxPlace("drained") = "inbox"
  /\ InboxPlace("delivered") = "taken"
  /\ InboxPlace("failed") = "refused"
  /\ InboxPlace("stored") = "aside" /\ InboxPlace("dropped") = "aside"
BY DEF InboxPlace

\* Nothing is delivered, refused or broken when the connection starts.
LEMMA InboxInit == ASSUME Init PROVE Inbox!Init
<1>1. \A s \in Streams : ~Unreadable(s)
  BY DEF Init, Unreadable
<1> QED BY <1>1 DEF Init, Inbox!Init, InboxPlace

\* The peer's steps are arrivals, broken streams, the end, or invisible.
LEMMA InboxPeer == ASSUME TypeOK, Peer PROVE [Inbox!Next]_(Inbox!vars)
<1>1. ASSUME NEW s \in Streams, PeerOpen(s) PROVE Inbox!Arrive(s)
  <2>1. [r \in Streams |-> InboxPlace(loc'[r])]
          = [[r \in Streams |-> InboxPlace(loc[r])] EXCEPT ![s] = "inbox"]
    <3>1. loc' = [loc EXCEPT ![s] = "incoming"]
      BY <1>1 DEF PeerOpen
    <3>2. [r \in Streams |-> InboxPlace(loc'[r])]
            = [[r \in Streams |-> InboxPlace(loc[r])]
                 EXCEPT ![s] = InboxPlace("incoming")]
      BY <3>1, MoveMaps
    <3> QED BY <3>2, Places
  <2>2. [r \in Streams |-> InboxPlace(loc[r])][s] = "away"
    BY <1>1, Places DEF PeerOpen
  <2> QED BY <1>1, <2>1, <2>2 DEF PeerOpen, callVars, Inbox!Arrive, Unreadable
<1>2. ASSUME NEW s \in Streams, PeerHeader(s) PROVE UNCHANGED Inbox!vars
  <2>1. \A r \in Streams : Unreadable(r)' <=> Unreadable(r)
    BY <1>2 DEF PeerHeader, Unreadable, TypeOK
  <2> QED BY <1>2, <2>1 DEF PeerHeader, callVars, Inbox!vars
<1>3. ASSUME NEW s \in Streams, NEW f \in {"finished", "reset"}, PeerEnd(s, f)
      PROVE  Inbox!Break(s) \/ UNCHANGED Inbox!vars
  <2>1. \A r \in Streams \ {s} : Unreadable(r)' <=> Unreadable(r)
    BY <1>3 DEF PeerEnd, Unreadable, TypeOK
  <2>2. Unreadable(s) => Unreadable(s)'
    BY <1>3 DEF PeerEnd, Unreadable, TypeOK
  <2>3. CASE Unreadable(s)' <=> Unreadable(s)
    <3>1. {r \in Streams : Unreadable(r)}' = {r \in Streams : Unreadable(r)}
      BY <2>1, <2>3
    <3> QED BY <1>3, <3>1 DEF PeerEnd, callVars, Inbox!vars
  <2>4. CASE Unreadable(s)' /\ ~Unreadable(s)
    <3>1. {r \in Streams : Unreadable(r)}'
            = {r \in Streams : Unreadable(r)} \cup {s}
      BY <2>1, <2>4
    <3> QED BY <1>3, <3>1 DEF PeerEnd, callVars, Inbox!Break
  <2> QED BY <2>2, <2>3, <2>4
<1>4. ASSUME Close PROVE Inbox!Shut
  <2>1. \A r \in Streams : Unreadable(r) => Unreadable(r)'
    BY <1>4 DEF Close, Unreadable
  <2>2. {r \in Streams : Unreadable(r)}'
          = {r \in Streams : Unreadable(r)} \cup {r \in Streams : Unreadable(r)}'
    BY <2>1
  <2>3. {r \in Streams : Unreadable(r)}' \in SUBSET Streams
    OBVIOUS
  <2> QED BY <1>4, <2>2, <2>3 DEF Close, callVars, Inbox!Shut
<1> QED BY <1>1, <1>2, <1>3, <1>4 DEF Peer, Inbox!Next

\* Calling, cancelling and the start of a poll.
LEMMA InboxCall ==
  ASSUME TypeOK, NEW t \in Tasks,
         (\E d \in Dirs : Call(t, d)) \/ Cancel(t) \/ StartPoll(t)
  PROVE  [Inbox!Next]_(Inbox!vars)
<1>s. UNCHANGED streamVars
  BY DEF Call, Cancel, StartPoll
<1>1. /\ UNCHANGED <<closed, [r \in Streams |-> InboxPlace(loc[r])]>>
      /\ UNCHANGED {r \in Streams : Unreadable(r)}
  BY <1>s DEF streamVars, Unreadable
<1>2. ASSUME NEW d \in Dirs, Call(t, d) PROVE Inbox!Ask(t, d)
  <2>1. \A u \in Tasks : (IF task'[u] = "idle" THEN "none" ELSE want'[u])
           = IF u = t THEN d ELSE IF task[u] = "idle" THEN "none" ELSE want[u]
    BY <1>2 DEF Call, TypeOK
  <2> QED BY <1>1, <1>2, <2>1 DEF Call, Inbox!Ask
<1>3. CASE Cancel(t)
  <2>1. \A u \in Tasks : (IF task'[u] = "idle" THEN "none" ELSE want'[u])
           = IF u = t THEN "none" ELSE IF task[u] = "idle" THEN "none" ELSE want[u]
    BY <1>3 DEF Cancel, TypeOK
  <2>2. task[t] # "idle" /\ want[t] # "none"
    BY <1>3 DEF Cancel, TypeOK, Dirs
  <2>3. Inbox!Leave(t)
    BY <1>1, <2>1, <2>2 DEF Inbox!Leave
  <2> QED BY <2>3 DEF Inbox!Next
<1>4. CASE StartPoll(t)
  <2>1. \A u \in Tasks : (IF task'[u] = "idle" THEN "none" ELSE want'[u])
           = IF task[u] = "idle" THEN "none" ELSE want[u]
    BY <1>4 DEF StartPoll, TypeOK
  <2> QED BY <1>1, <2>1 DEF Inbox!vars
<1> QED BY <1>2, <1>3, <1>4 DEF Inbox!Next

\* What a caller asks for is kept by a call that goes on.
LEMMA AskingKept ==
  ASSUME TypeOK, NEW t \in Tasks, UNCHANGED want, task[t] # "idle",
         NEW p, p # "idle", task' = [task EXCEPT ![t] = p]
  PROVE  UNCHANGED [u \in Tasks |-> IF task[u] = "idle" THEN "none" ELSE want[u]]
<1>1. \A u \in Tasks : task'[u] = "idle" <=> task[u] = "idle"
  BY DEF TypeOK
<1> QED BY <1>1

\* A call that returns asks for nothing any more.
LEMMA AskingEnds ==
  ASSUME TypeOK, NEW t \in Tasks, UNCHANGED want,
         task' = [task EXCEPT ![t] = "idle"]
  PROVE  [u \in Tasks |-> IF task'[u] = "idle" THEN "none" ELSE want'[u]]
           = [[u \in Tasks |-> IF task[u] = "idle" THEN "none" ELSE want[u]]
                EXCEPT ![t] = "none"]
<1>1. \A u \in Tasks : task'[u] = "idle" <=> u = t \/ task[u] = "idle"
  BY DEF TypeOK
<1> QED BY <1>1

\* A stream selected by t is in the inbox, in the direction t asks for.
LEMMA SelectedInInbox ==
  ASSUME TypeOK, ReadyDrained, NEW t \in Tasks, NEW s \in Streams,
         SelectFuture(t, s)
  PROVE  s \in Inbox!InboxFor(t)
<1>1. loc[s] = "drained" /\ Kind[s].dir = want[t] /\ task[t] # "idle"
  BY DEF SelectFuture, Ready, ReadyDrained
<1> QED BY <1>1, Places DEF Inbox!InboxFor

\* The end of a poll is a returned stream, a refusal, or invisible.
LEMMA InboxPoll ==
  ASSUME TypeOK, ReadyDrained, NEW t \in Tasks, PollStep(t)
  PROVE  [Inbox!Next]_(Inbox!vars)
<1>u. (UNCHANGED <<hdr, fate, closed>>)
        => /\ UNCHANGED <<closed, {r \in Streams : Unreadable(r)}>>
  BY DEF Unreadable
<1>1. ASSUME NEW s \in Streams, DrainStream(t, s) PROVE UNCHANGED Inbox!vars
  <2>1. InboxPlace(loc[s]) = InboxPlace("drained")
    BY <1>1, Places DEF DrainStream, Incoming
  <2>2. [r \in Streams |-> InboxPlace(loc'[r])]
          = [r \in Streams |-> InboxPlace(loc[r])]
    BY <1>1, <2>1, MoveMaps DEF DrainStream
  <2> QED BY <1>1, <1>u, <2>2 DEF DrainStream, callVars, Inbox!vars
<1>2. ASSUME DrainDone(t) \/ SelectNone(t) PROVE UNCHANGED Inbox!vars
  <2>1. UNCHANGED [u \in Tasks |-> IF task[u] = "idle" THEN "none" ELSE want[u]]
    BY <1>2, AskingKept DEF DrainDone, SelectNone
  <2> QED BY <1>2, <1>u, <2>1 DEF DrainDone, SelectNone, streamVars, Inbox!vars
<1>3. ASSUME DrainError(t) PROVE Inbox!Leave(t)
  <2>1. task[t] # "idle" /\ want[t] # "none"
    BY <1>3 DEF DrainError, TypeOK, Dirs
  <2> QED BY <1>3, <1>u, <2>1, AskingEnds
          DEF DrainError, streamVars, Inbox!Leave
<1>4. ASSUME NEW s \in Streams, SelectPending(t, s) PROVE UNCHANGED Inbox!vars
  <2>1. UNCHANGED [u \in Tasks |-> IF task[u] = "idle" THEN "none" ELSE want[u]]
    BY <1>4, AskingKept DEF SelectPending, SelectFuture
  <2> QED BY <1>4, <1>u, <2>1 DEF SelectPending, SelectFuture, Inbox!vars
<1>5. ASSUME NEW s \in Streams, SelectError(t, s) PROVE Inbox!Refuse(t, s)
  <2>1. [r \in Streams |-> InboxPlace(loc'[r])]
          = [[r \in Streams |-> InboxPlace(loc[r])] EXCEPT ![s] = "refused"]
    <3>1. loc' = [loc EXCEPT ![s] = "failed"]
      BY <1>5 DEF SelectError
    <3>2. [r \in Streams |-> InboxPlace(loc'[r])]
            = [[r \in Streams |-> InboxPlace(loc[r])]
                 EXCEPT ![s] = InboxPlace("failed")]
      BY <3>1, MoveMaps
    <3> QED BY <3>2, Places
  <2>2. Ours(s) => Unreadable(s)
    BY <1>5 DEF SelectError, DecodeFails, Ours
  <2> QED BY <1>5, <1>u, <2>1, <2>2, SelectedInInbox, AskingEnds
          DEF SelectError, SelectFuture, Inbox!Refuse
<1>6. ASSUME NEW s \in Streams, ReturnStream(t, s) PROVE Inbox!Serve(t, s)
  <2>1. [r \in Streams |-> InboxPlace(loc'[r])]
          = [[r \in Streams |-> InboxPlace(loc[r])] EXCEPT ![s] = "taken"]
    <3>1. loc' = [loc EXCEPT ![s] = "delivered"]
      BY <1>6 DEF ReturnStream
    <3>2. [r \in Streams |-> InboxPlace(loc'[r])]
            = [[r \in Streams |-> InboxPlace(loc[r])]
                 EXCEPT ![s] = InboxPlace("delivered")]
      BY <3>1, MoveMaps
    <3> QED BY <3>2, Places
  <2>2. Ours(s) /\ ~Unreadable(s)
    BY <1>6 DEF ReturnStream, DecodeFails, Ours
  <2> QED BY <1>6, <1>u, <2>1, <2>2, SelectedInInbox, AskingEnds
          DEF ReturnStream, SelectFuture, Inbox!Serve
<1>7. ASSUME NEW s \in Streams, KeepPlaceholder(t, s) PROVE Inbox!Skip(t, s)
  <2>1. \A r \in Streams : InboxPlace(loc'[r])
          = IF r = s THEN "aside" ELSE InboxPlace(loc[r])
    BY <1>7, Places DEF KeepPlaceholder
  <2>2. ~Ours(s)
    BY <1>7 DEF KeepPlaceholder, Placeholders, Ours
  <2>3. UNCHANGED [u \in Tasks |-> IF task[u] = "idle" THEN "none" ELSE want[u]]
    BY <1>7, AskingKept DEF KeepPlaceholder, SelectFuture
  <2> QED BY <1>7, <1>u, <2>1, <2>2, <2>3, SelectedInInbox
          DEF KeepPlaceholder, SelectFuture, Inbox!Skip
<1>8. ASSUME NEW s \in Streams, DropUnknown(t, s) PROVE Inbox!Skip(t, s)
  <2>1. [r \in Streams |-> InboxPlace(loc'[r])]
          = [[r \in Streams |-> InboxPlace(loc[r])] EXCEPT ![s] = "aside"]
    <3>1. loc' = [loc EXCEPT ![s] = "dropped"]
      BY <1>8 DEF DropUnknown
    <3>2. [r \in Streams |-> InboxPlace(loc'[r])]
            = [[r \in Streams |-> InboxPlace(loc[r])]
                 EXCEPT ![s] = InboxPlace("dropped")]
      BY <3>1, MoveMaps
    <3> QED BY <3>2, Places
  <2>2. ~Ours(s)
    BY <1>8 DEF DropUnknown, Ours
  <2>3. UNCHANGED [u \in Tasks |-> IF task[u] = "idle" THEN "none" ELSE want[u]]
    BY <1>8, AskingKept DEF DropUnknown, SelectFuture
  <2> QED BY <1>8, <1>u, <2>1, <2>2, <2>3, SelectedInInbox
          DEF DropUnknown, SelectFuture, Inbox!Skip
<1> QED BY <1>1, <1>2, <1>3, <1>4, <1>5, <1>6, <1>7, <1>8
        DEF PollStep, Inbox!Next

\* The accept calls of every WTAccept are those of a StreamInbox.
THEOREM Implementation == Spec => ImplementsInbox
<1>1. Init => Inbox!Init
  BY InboxInit
<1>2. TypeOK /\ ReadyDrained /\ [Next]_vars => [Inbox!Next]_(Inbox!vars)
  <2> SUFFICES ASSUME TypeOK, ReadyDrained, [Next]_vars
               PROVE  [Inbox!Next]_(Inbox!vars)
    OBVIOUS
  <2>1. CASE Peer
    BY <2>1, InboxPeer
  <2>2. ASSUME NEW t \in Tasks,
               (\E d \in Dirs : Call(t, d)) \/ Cancel(t) \/ StartPoll(t)
        PROVE  [Inbox!Next]_(Inbox!vars)
    BY <2>2, InboxCall
  <2>3. ASSUME NEW t \in Tasks, PollStep(t)
        PROVE  [Inbox!Next]_(Inbox!vars)
    BY <2>3, InboxPoll
  <2>4. CASE UNCHANGED vars
    BY <2>4 DEF vars, Inbox!vars, Unreadable
  <2> QED BY <2>1, <2>2, <2>3, <2>4 DEF Next
<1> QED BY <1>1, <1>2, TypeCorrect, ReadyDrainedCorrect, PTL
        DEF Spec, ImplementsInbox, Inbox!Spec

-----------------------------------------------------------------------------
(* StreamOpen                                                              *)

\* How the two ends of a stream of an open call stand to each other: all is
\* written exactly when the call has returned, the header arrives before the
\* FIN, only what was returned is reset, and the accepting side goes by nothing
\* else.
Matched(s) ==
  /\ call[s] = "open" <=> sent[s] = 2
  /\ ended[s] # "no" => call[s] \in {"open", "dropped"}
  /\ ended[s] = "reset" => call[s] = "open"
  /\ hdr[s] <= sent[s]
  /\ fate[s] = "reset" => ended[s] = "reset"
  /\ fate[s] = "finished" => ended[s] # "no" /\ hdr[s] = sent[s]
  /\ loc[s] = "delivered" => hdr[s] = 2
  /\ loc[s] = "failed" => closed \/ call[s] = "dropped" \/ ended[s] = "reset"

OpenInv == OpenTypeOK /\ \A s \in Called : Matched(s)

-----------------------------------------------------------------------------
(* A peer of WTAccept                                                      *)

\* Every step of StreamOpen is a step of WTAccept or none.
LEMMA StepRefines == ASSUME [OpenNext]_allVars PROVE [Next]_vars
<1>1. ASSUME NEW s \in Streams,
             \/ WriteType(s) \/ WriteId(s) \/ DropCall(s)
             \/ \E how \in Endings : EndStream(s, how)
      PROVE  UNCHANGED vars
  BY <1>1 DEF WriteType, WriteId, DropCall, EndStream, Step
<1>2. ASSUME NEW s \in Streams, Arrive(s) \/ OtherStream(s)
      PROVE  Next
  BY <1>2 DEF Arrive, Appear, HeaderArrives, EndArrives, OtherStream, Next, Peer,
              Endings, PeerEnd
<1>3. ASSUME LoseCalls PROVE Next
  BY <1>3 DEF LoseCalls, Next, Peer
<1>4. ASSUME NEW t \in Tasks, AcceptStep(t) PROVE Next
  BY <1>4 DEF AcceptStep, Next
<1>5. CASE UNCHANGED allVars
  BY <1>5 DEF allVars
<1> QED BY <1>1, <1>2, <1>3, <1>4, <1>5 DEF OpenNext

\* Connection::open_uni and open_bi are one of the peers that WTAccept is
\* written for.
THEOREM Refinement == OpenSpec => Spec
<1>1. OpenInit => Init
  BY DEF OpenInit
<1>2. [OpenNext]_allVars => [Next]_vars
  BY StepRefines
<1> QED BY <1>1, <1>2, PTL DEF OpenSpec, Spec

-----------------------------------------------------------------------------
(* Typing                                                                  *)

LEMMA OpenTypeStep ==
  ASSUME OpenTypeOK, [OpenNext]_allVars PROVE OpenTypeOK'
<1>0. TypeOK'
  BY StepRefines, TypeStep DEF OpenTypeOK
<1>1. ASSUME NEW s \in Streams, WriteType(s) \/ WriteId(s) PROVE OpenTypeOK'
  BY <1>0, <1>1 DEF OpenTypeOK, WriteType, WriteId, Step, Calls
<1>2. ASSUME NEW s \in Streams, DropCall(s) \/ \E how \in Endings : EndStream(s, how)
      PROVE  OpenTypeOK'
  BY <1>0, <1>2 DEF OpenTypeOK, DropCall, EndStream, Step, Calls, Endings
<1>3. ASSUME LoseCalls PROVE OpenTypeOK'
  BY <1>0, <1>3 DEF OpenTypeOK, LoseCalls, Calls
<1>4. CASE UNCHANGED openVars
  BY <1>0, <1>4 DEF OpenTypeOK, openVars
<1> QED BY <1>1, <1>2, <1>3, <1>4
        DEF OpenNext, Arrive, OtherStream, AcceptStep, allVars

\* The variables of both sides keep their types.
THEOREM OpenTypeCorrect == OpenSpec => []OpenTypeOK
<1>1. OpenInit => OpenTypeOK
  BY TypeInit DEF OpenInit, OpenTypeOK, Calls
<1>2. OpenTypeOK /\ [OpenNext]_allVars => OpenTypeOK'
  BY OpenTypeStep
<1> QED BY <1>1, <1>2, PTL DEF OpenSpec

-----------------------------------------------------------------------------
(* What the two ends have to do with each other                            *)

\* The steps of the open calls.
LEMMA CallMatches ==
  ASSUME OpenInv, NEW s \in Called, NEW r \in Streams,
         \/ WriteType(r) \/ WriteId(r) \/ DropCall(r)
         \/ \E how \in Endings : EndStream(r, how)
  PROVE  Matched(s)'
<1>1. /\ s \in Streams /\ Matched(s)
      /\ call \in [Streams -> Calls] /\ sent \in [Streams -> 0..2]
      /\ ended \in [Streams -> {"no"} \cup Endings] /\ hdr \in [Streams -> 0..2]
  BY CalledAssumption DEF OpenInv, OpenTypeOK, TypeOK
<1>2. /\ UNCHANGED vars /\ ~closed
  BY DEF WriteType, WriteId, DropCall, EndStream, Step
<1>3. CASE WriteType(r)
  BY <1>1, <1>2, <1>3 DEF WriteType, Step, Matched, vars
<1>4. CASE WriteId(r)
  BY <1>1, <1>2, <1>4 DEF WriteId, Step, Matched, vars
<1>5. CASE DropCall(r)
  BY <1>1, <1>2, <1>5 DEF DropCall, Step, Matched, vars
<1>6. ASSUME NEW how \in Endings, EndStream(r, how) PROVE Matched(s)'
  BY <1>1, <1>2, <1>6 DEF EndStream, Step, Matched, vars
<1> QED BY <1>3, <1>4, <1>5, <1>6

\* What arrives at the accepting side.
LEMMA ArrivalMatches ==
  ASSUME OpenInv, NEW s \in Called, NEW r \in Streams,
         Arrive(r) \/ OtherStream(r)
  PROVE  Matched(s)'
<1>1. /\ s \in Streams /\ Matched(s)
      /\ sent \in [Streams -> 0..2] /\ hdr \in [Streams -> 0..2]
      /\ fate \in [Streams -> {"open", "finished", "reset"}]
      /\ loc \in [Streams -> Locations]
  BY CalledAssumption DEF OpenInv, OpenTypeOK, TypeOK
<1>2. UNCHANGED openVars /\ UNCHANGED closed
  BY DEF Arrive, OtherStream, Appear, HeaderArrives, EndArrives, PeerOpen,
         PeerHeader, PeerEnd
<1>3. ASSUME r \notin Called, OtherStream(r) PROVE Matched(s)'
  BY <1>1, <1>2, <1>3
  DEF OtherStream, PeerOpen, PeerHeader, PeerEnd, Matched, openVars
<1>4. ASSUME Appear(r) PROVE Matched(s)'
  BY <1>1, <1>2, <1>4 DEF Appear, PeerOpen, Matched, openVars
<1>5. ASSUME HeaderArrives(r) PROVE Matched(s)'
  BY <1>1, <1>2, <1>5 DEF HeaderArrives, PeerHeader, Matched, openVars
<1>6. ASSUME EndArrives(r) PROVE Matched(s)'
  BY <1>1, <1>2, <1>6 DEF EndArrives, PeerEnd, Matched, openVars
<1> QED BY <1>3, <1>4, <1>5, <1>6 DEF Arrive, OtherStream

\* What an accept call may do to a stream.
Polled(s) ==
  /\ UNCHANGED <<hdr, fate, closed>>
  /\ \/ loc'[s] = loc[s]
     \/ loc'[s] \in {"drained", "stored", "dropped"}
     \/ loc'[s] = "delivered" /\ Decodable(s)
     \/ loc'[s] = "failed" /\ DecodeFails(s)

\* A poll delivers a stream whose header is complete, and refuses one of an
\* open call only if the call was dropped, the stream reset or the connection
\* lost.
LEMMA AcceptMatches ==
  ASSUME OpenInv, NEW s \in Called, NEW t \in Tasks, AcceptStep(t)
  PROVE  Matched(s)'
<1>1. /\ s \in Streams /\ Ours(s) /\ Matched(s)
      /\ sent \in [Streams -> 0..2] /\ hdr \in [Streams -> 0..2]
      /\ call \in [Streams -> Calls]
      /\ loc \in [Streams -> Locations]
  BY CalledAssumption DEF OpenInv, OpenTypeOK, TypeOK
<1>2. UNCHANGED openVars
  BY DEF AcceptStep
<1>3. Polled(s)
  <2>1. CASE \/ \E d \in Dirs : Call(t, d)
             \/ Cancel(t) \/ StartPoll(t) \/ DrainDone(t) \/ DrainError(t) \/ SelectNone(t)
    BY <2>1
    DEF Call, Cancel, StartPoll, DrainDone, DrainError, SelectNone, streamVars,
        Polled
  <2>2. ASSUME NEW r \in Streams, DrainStream(t, r) \/ SelectPending(t, r)
        PROVE  Polled(s)
    BY <1>1, <2>2 DEF DrainStream, SelectPending, SelectFuture, Polled
  <2>3. ASSUME NEW r \in Streams, SelectError(t, r) \/ ReturnStream(t, r)
        PROVE  Polled(s)
    BY <1>1, <2>3 DEF SelectError, ReturnStream, SelectFuture, Polled
  <2>4. ASSUME NEW r \in Streams, KeepPlaceholder(t, r) \/ DropUnknown(t, r)
        PROVE  Polled(s)
    BY <1>1, <2>4 DEF KeepPlaceholder, DropUnknown, SelectFuture, Polled
  <2> QED BY <2>1, <2>2, <2>3, <2>4 DEF AcceptStep, PollStep
<1>4. ASSUME DecodeFails(s)
      PROVE  closed \/ call[s] = "dropped" \/ ended[s] = "reset"
  BY <1>1, <1>4 DEF DecodeFails, Decodable, Unreadable, Ours, Matched
<1>5. ASSUME Decodable(s) PROVE hdr[s] = 2
  BY <1>5 DEF Decodable
<1> QED BY <1>1, <1>2, <1>3, <1>4, <1>5 DEF Matched, openVars, Polled

LEMMA OpenInvStep == ASSUME OpenInv, [OpenNext]_allVars PROVE OpenInv'
<1>1. OpenTypeOK'
  BY OpenTypeStep DEF OpenInv
<1>2. ASSUME NEW s \in Called PROVE Matched(s)'
  <2>1. CASE LoseCalls
    BY <2>1, CalledAssumption
    DEF LoseCalls, Close, OpenInv, OpenTypeOK, Matched
  <2>2. CASE UNCHANGED allVars
    BY <2>2 DEF allVars, vars, openVars, OpenInv, Matched
  <2> QED BY <2>1, <2>2, CallMatches, ArrivalMatches, AcceptMatches
          DEF OpenNext
<1> QED BY <1>1, <1>2 DEF OpenInv

\* What comes out of accept was returned by open, and accept refuses a stream
\* of an open call only if that call was cut short, or what it returned reset.
THEOREM OnlyOpenedCorrect == OpenSpec => []OnlyOpened
<1>1. OpenInit => OpenInv
  <2> SUFFICES ASSUME OpenInit PROVE OpenInv
    OBVIOUS
  <2>1. OpenTypeOK
    BY TypeInit DEF OpenInit, OpenTypeOK, Calls
  <2>2. \A s \in Called : Matched(s)
    BY CalledAssumption DEF OpenInit, Init, Matched
  <2> QED BY <2>1, <2>2 DEF OpenInv
<1>2. OpenInv /\ [OpenNext]_allVars => OpenInv'
  BY OpenInvStep
<1>3. OpenInv => OnlyOpened
  BY CalledAssumption DEF OpenInv, OpenTypeOK, TypeOK, Matched, OnlyOpened
<1> QED BY <1>1, <1>2, <1>3, PTL DEF OpenSpec

\* What is proved of WTAccept for any peer, of a session between two wt-rs
\* ends: no accept call sleeps through an event.
THEOREM OpenNoLostWakeup == ASSUME OneAcceptor PROVE OpenSpec => []NoLostWakeup
BY Refinement, NoLostWakeupCorrect
=============================================================================
