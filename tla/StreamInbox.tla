---------------------------- MODULE StreamInbox ----------------------------
(***************************************************************************)
(* What accept_uni and accept_bi promise the application, without polling, *)
(* queues or wakers: streams of the peer arrive at an inbox, a call takes  *)
(* at most one stream of its direction out of it, every stream leaves the  *)
(* inbox at most once, and only a stream that is foreign to the session or *)
(* broken by its peer is refused.                                          *)
(***************************************************************************)
CONSTANTS
  Streams,   \* streams of the peer
  Callers,   \* tasks that may call accept
  Dirs,      \* directions of a stream
  Dir,       \* the direction of each stream
  Mine       \* the WebTransport streams of the session

VARIABLES
  place,     \* where each stream is
  broken,    \* streams whose header will never be read
  asking,    \* the direction a caller waits for, or "none"
  shut       \* the connection has ended

vars == <<place, broken, asking, shut>>

Init ==
  /\ place = [s \in Streams |-> "away"]
  /\ broken = {}
  /\ asking = [c \in Callers |-> "none"]
  /\ shut = FALSE

Arrive(s) ==
  /\ ~shut
  /\ place[s] = "away"
  /\ place' = [place EXCEPT ![s] = "inbox"]
  /\ UNCHANGED <<broken, asking, shut>>

\* The peer breaks a stream.
Break(s) ==
  /\ ~shut
  /\ broken' = broken \cup {s}
  /\ UNCHANGED <<place, asking, shut>>

\* The end of the connection breaks the streams it cuts off.
Shut ==
  /\ ~shut
  /\ shut' = TRUE
  /\ \E B \in SUBSET Streams : broken' = broken \cup B
  /\ UNCHANGED <<place, asking>>

Ask(c, d) ==
  /\ asking[c] = "none"
  /\ asking' = [asking EXCEPT ![c] = d]
  /\ UNCHANGED <<place, broken, shut>>

\* The call ends without a stream: cancelled, or the connection is gone.
Leave(c) ==
  /\ asking[c] # "none"
  /\ asking' = [asking EXCEPT ![c] = "none"]
  /\ UNCHANGED <<place, broken, shut>>

InboxFor(c) == {s \in Streams : place[s] = "inbox" /\ Dir[s] = asking[c]}

\* The call returns a stream of the session.
Serve(c, s) ==
  /\ s \in InboxFor(c) /\ s \in Mine /\ s \notin broken
  /\ place' = [place EXCEPT ![s] = "taken"]
  /\ asking' = [asking EXCEPT ![c] = "none"]
  /\ UNCHANGED <<broken, shut>>

\* The call returns an error that a foreign or broken stream caused.
Refuse(c, s) ==
  /\ s \in InboxFor(c) /\ (s \in Mine => s \in broken)
  /\ place' = [place EXCEPT ![s] = "refused"]
  /\ asking' = [asking EXCEPT ![c] = "none"]
  /\ UNCHANGED <<broken, shut>>

\* A foreign stream is put aside; the call goes on.
Skip(c, s) ==
  /\ s \in InboxFor(c) /\ s \notin Mine
  /\ place' = [place EXCEPT ![s] = "aside"]
  /\ UNCHANGED <<broken, asking, shut>>

Next ==
  \/ \E s \in Streams : Arrive(s) \/ Break(s)
  \/ Shut
  \/ \E c \in Callers :
       \/ \E d \in Dirs : Ask(c, d)
       \/ Leave(c)
       \/ \E s \in Streams : Serve(c, s) \/ Refuse(c, s) \/ Skip(c, s)

Spec == Init /\ [][Next]_vars
=============================================================================
