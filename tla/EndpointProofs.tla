--------------------------- MODULE EndpointProofs ---------------------------
(***************************************************************************)
(* Proofs about Endpoint for every set of connections and every kind of    *)
(* client: no connection is lost between quinn's queue, a pending accept   *)
(* and the application.                                                    *)
(***************************************************************************)
EXTENDS Endpoint, TLAPS

\* A client that has not connected is unknown to the server, and no connection
\* waits twice.
QueueSound ==
  /\ \A c \in Conns : client[c] = "away" => stage[c] = "none"
  /\ \A i, j \in DOMAIN queue : queue[i] = queue[j] => i = j

EndpointInv == TypeOK /\ QueueSound /\ NoneForgotten

-----------------------------------------------------------------------------

LEMMA DropAllType ==
  ASSUME stage \in [Conns -> Stages]
  PROVE  /\ DropAll \in [Conns -> Stages]
         /\ \A c \in Conns :
              /\ stage[c] \in {"none", "returned", "refused"} => DropAll[c] = stage[c]
              /\ stage[c] \notin {"none", "returned", "refused"} => DropAll[c] = "dropped"
BY DEF DropAll, Stages

\* What becomes of the connections when accept returns an error.
LEMMA ReturnErrorKeeps ==
  ASSUME EndpointInv, NEW c \in Current, ReturnError(c), UNCHANGED <<fixed, client, sent>>,
         app = "accepting"
  PROVE  EndpointInv'
<1>1. /\ c \in Conns /\ stage \in [Conns -> Stages] /\ queue \in Seq(Conns)
      /\ stage[c] \in {"handshaking", "upgrading", "answered"}
      /\ \A d \in Current : d = c
  BY DEF Current, EndpointInv, TypeOK, NoneForgotten
<1>2. CASE tolerant
  <2>1. /\ app' = "idle" /\ UNCHANGED queue
        /\ stage' = [stage EXCEPT ![c] = "refused"]
    BY <1>2 DEF ReturnError
  <2>2. TypeOK'
    BY <1>1, <2>1 DEF EndpointInv, TypeOK, Stages, fixed
  <2>3. QueueSound'
    BY <1>1, <2>1 DEF EndpointInv, QueueSound
  <2>4. NoneForgotten'
    BY <1>1, <2>1 DEF EndpointInv, NoneForgotten, Current
  <2> QED BY <2>2, <2>3, <2>4 DEF EndpointInv
<1>3. CASE ~tolerant
  <2>1. /\ app' = "ended" /\ queue' = <<>>
        /\ stage' = [DropAll EXCEPT ![c] = "refused"]
    BY <1>3 DEF ReturnError
  <2>2. TypeOK'
    BY <1>1, <2>1, DropAllType DEF EndpointInv, TypeOK, Stages, fixed
  <2>3. QueueSound'
    BY <1>1, <2>1, DropAllType DEF EndpointInv, QueueSound
  <2>4. NoneForgotten'
    BY <1>1, <2>1, DropAllType DEF NoneForgotten, Current
  <2> QED BY <2>2, <2>3, <2>4 DEF EndpointInv
<1> QED BY <1>2, <1>3 DEF EndpointInv, TypeOK

LEMMA ClientKeeps ==
  ASSUME EndpointInv, NEW c \in Conns, Connect(c) \/ ClientStep(c) \/ GiveUp(c)
  PROVE  EndpointInv'
<1>0. /\ stage \in [Conns -> Stages] /\ client \in [Conns -> ClientStages]
      /\ sent \in [Conns -> Progress] /\ queue \in Seq(Conns)
  BY DEF EndpointInv, TypeOK
<1>1. CASE Connect(c)
  <2>1. /\ Running /\ client[c] = "away" /\ stage[c] = "none"
        /\ client' = [client EXCEPT ![c] = "connecting"]
        /\ stage' = [stage EXCEPT ![c] = "queued"]
        /\ queue' = Append(queue, c)
        /\ UNCHANGED <<fixed, sent, app>>
    BY <1>1 DEF Connect, EndpointInv, QueueSound
  <2>2. TypeOK'
    BY <1>0, <2>1 DEF EndpointInv, TypeOK, Stages, ClientStages, fixed
  <2>3. \A i \in DOMAIN queue : queue[i] # c
    BY <2>1 DEF EndpointInv, NoneForgotten
  <2>4. /\ DOMAIN queue' = 1 .. Len(queue) + 1 /\ DOMAIN queue = 1 .. Len(queue)
        /\ \A i \in DOMAIN queue : queue'[i] = queue[i]
        /\ queue'[Len(queue) + 1] = c
    BY <1>0, <2>1
  <2>5. QueueSound'
    BY <1>0, <2>1, <2>3, <2>4 DEF EndpointInv, QueueSound
  <2>6. NoneForgotten'
    <3>1. ASSUME NEW d \in Conns
          PROVE  stage'[d] = "queued" <=> \E i \in DOMAIN queue' : queue'[i] = d
      BY <1>0, <2>1, <2>3, <2>4 DEF EndpointInv, NoneForgotten
    <3> QED BY <1>0, <2>1, <3>1 DEF EndpointInv, NoneForgotten, Current
  <2> QED BY <2>2, <2>5, <2>6 DEF EndpointInv
<1>2. CASE ClientStep(c) \/ GiveUp(c)
  <2>1. /\ UNCHANGED <<fixed, server>> /\ client[c] # "away"
        /\ \E x \in ClientStages \ {"away"} : client' = [client EXCEPT ![c] = x]
        /\ sent' \in [Conns -> Progress]
    BY <1>0, <1>2 DEF ClientStep, Connected, Ask, Opened, Rejected, GiveUp,
                      ClientStages, Progress
  <2>2. TypeOK'
    BY <1>0, <2>1 DEF EndpointInv, TypeOK, fixed, server
  <2>3. QueueSound' /\ NoneForgotten'
    BY <1>0, <2>1
    DEF EndpointInv, QueueSound, NoneForgotten, Current, server
  <2> QED BY <2>2, <2>3 DEF EndpointInv
<1> QED BY <1>1, <1>2

LEMMA AcceptKeeps ==
  ASSUME EndpointInv, NEW c \in Conns, AcceptStep(c) PROVE EndpointInv'
<1>0. /\ stage \in [Conns -> Stages] /\ queue \in Seq(Conns)
  BY DEF EndpointInv, TypeOK
<1>1. ASSUME c \in Current, app = "accepting", ReturnError(c),
             UNCHANGED <<fixed, client, sent>>
      PROVE  EndpointInv'
  BY <1>1, ReturnErrorKeeps
<1>2. ASSUME stage[c] = "handshaking", stage' = [stage EXCEPT ![c] = "upgrading"],
             app = "accepting", UNCHANGED <<queue, app, fixed, client, sent>>
      PROVE  EndpointInv'
  <2>1. TypeOK' /\ QueueSound'
    BY <1>0, <1>2
    DEF EndpointInv, TypeOK, Stages, fixed, QueueSound
  <2>2. NoneForgotten'
    BY <1>0, <1>2 DEF EndpointInv, NoneForgotten, Current
  <2> QED BY <2>1, <2>2 DEF EndpointInv
<1>3. ASSUME app' = "panicked", stage' = DropAll, queue' = <<>>,
             UNCHANGED <<fixed, client, sent>>
      PROVE  EndpointInv'
  <2>1. TypeOK' /\ QueueSound'
    BY <1>0, <1>3, DropAllType
    DEF EndpointInv, TypeOK, fixed, QueueSound
  <2>2. NoneForgotten'
    BY <1>0, <1>3, DropAllType DEF NoneForgotten, Current
  <2> QED BY <2>1, <2>2 DEF EndpointInv
<1>4. ASSUME stage[c] = "upgrading", stage' = [stage EXCEPT ![c] = "answered"],
             app = "accepting", UNCHANGED <<queue, app, fixed, client, sent>>
      PROVE  EndpointInv'
  <2>1. TypeOK' /\ QueueSound'
    BY <1>0, <1>4 DEF EndpointInv, TypeOK, Stages, fixed, QueueSound
  <2>2. NoneForgotten'
    BY <1>0, <1>4 DEF EndpointInv, NoneForgotten, Current
  <2> QED BY <2>1, <2>2 DEF EndpointInv
<1>5. CASE UpgradeDone(c)
  <2>1. /\ stage[c] = "answered" /\ stage' = [stage EXCEPT ![c] = "returned"]
        /\ app' = "idle" /\ UNCHANGED <<fixed, client, sent, queue>>
        /\ \A d \in Current : d = c
    BY <1>5 DEF UpgradeDone, EndpointInv, NoneForgotten, Current
  <2>2. TypeOK' /\ QueueSound'
    BY <1>0, <2>1
    DEF EndpointInv, TypeOK, Stages, fixed, QueueSound
  <2>3. NoneForgotten'
    BY <1>0, <2>1 DEF EndpointInv, NoneForgotten, Current
  <2> QED BY <2>2, <2>3 DEF EndpointInv
<1> QED BY <1>1, <1>2, <1>3, <1>4, <1>5
        DEF AcceptStep, HandshakeDone, HandshakeFails, Answer, UpgradeFails, Current

LEMMA LoopKeeps ==
  ASSUME EndpointInv, Call \/ Cancel \/ \E c \in Conns : Take(c)
  PROVE  EndpointInv'
<1>0. /\ stage \in [Conns -> Stages] /\ queue \in Seq(Conns)
  BY DEF EndpointInv, TypeOK
<1>1. CASE Call
  BY <1>1 DEF Call, EndpointInv, TypeOK, fixed, QueueSound, NoneForgotten, Current
<1>2. CASE Cancel
  <2>1. /\ app' = "idle" /\ UNCHANGED <<fixed, client, sent, queue>>
        /\ stage' = [c \in Conns |-> IF c \in Current THEN "dropped" ELSE stage[c]]
    BY <1>2 DEF Cancel
  <2>2. TypeOK' /\ QueueSound'
    BY <1>0, <2>1 DEF EndpointInv, TypeOK, Stages, fixed, QueueSound, Current
  <2>3. NoneForgotten'
    BY <1>0, <2>1 DEF EndpointInv, NoneForgotten, Current
  <2> QED BY <2>2, <2>3 DEF EndpointInv
<1>3. ASSUME NEW c \in Conns, Take(c) PROVE EndpointInv'
  <2>1. /\ app = "accepting" /\ Current = {} /\ queue # <<>> /\ c = Head(queue)
        /\ queue' = Tail(queue) /\ stage' = [stage EXCEPT ![c] = "handshaking"]
        /\ UNCHANGED <<fixed, client, sent, app>>
    BY <1>3 DEF Take
  <2>2. /\ Len(queue) \in Nat \ {0} /\ DOMAIN queue = 1 .. Len(queue)
        /\ DOMAIN queue' = 1 .. Len(queue) - 1 /\ queue[1] = c
        /\ \A i \in DOMAIN queue' : queue'[i] = queue[i + 1]
        /\ queue' \in Seq(Conns)
    BY <1>0, <2>1
  <2>3. stage[c] = "queued"
    BY <2>2 DEF EndpointInv, NoneForgotten
  <2>4. TypeOK'
    BY <1>0, <2>1, <2>2, <2>3
    DEF EndpointInv, TypeOK, Stages, fixed
  <2>5. QueueSound'
    BY <1>0, <2>1, <2>2, <2>3 DEF EndpointInv, QueueSound
  <2>6. ASSUME NEW d \in Conns
        PROVE  stage'[d] = "queued" <=> \E i \in DOMAIN queue' : queue'[i] = d
    <3>1. CASE d = c
      <4>1. ASSUME NEW i \in DOMAIN queue' PROVE queue'[i] # c
        BY <2>2, <4>1 DEF EndpointInv, QueueSound
      <4> QED BY <1>0, <2>1, <3>1, <4>1
    <3>2. CASE d # c
      <4>1. ASSUME NEW i \in DOMAIN queue, queue[i] = d
            PROVE  i - 1 \in DOMAIN queue' /\ queue'[i - 1] = d
        BY <2>2, <3>2, <4>1
      <4>2. stage'[d] = stage[d]
        BY <1>0, <2>1, <3>2
      <4>3. ASSUME NEW i \in DOMAIN queue', queue'[i] = d
            PROVE  i + 1 \in DOMAIN queue /\ queue[i + 1] = d
        BY <2>2, <4>3
      <4> QED BY <4>1, <4>2, <4>3 DEF EndpointInv, NoneForgotten
    <3> QED BY <3>1, <3>2
  <2>7. NoneForgotten'
    BY <1>0, <2>1, <2>6 DEF NoneForgotten, Current
  <2> QED BY <2>4, <2>5, <2>7 DEF EndpointInv
<1> QED BY <1>1, <1>2, <1>3

LEMMA EndpointInvInit == ASSUME Init PROVE EndpointInv
<1>1. TypeOK
  BY DEF Init, TypeOK, ClientStages, Progress, Stages
<1>2. QueueSound /\ NoneForgotten
  BY DEF Init, QueueSound, NoneForgotten, Current
<1> QED BY <1>1, <1>2 DEF EndpointInv

LEMMA EndpointInvStep == ASSUME EndpointInv, [Next]_vars PROVE EndpointInv'
<1>1. CASE UNCHANGED vars
  BY <1>1 DEF vars, EndpointInv, TypeOK, QueueSound, NoneForgotten, Current
<1> QED BY <1>1, ClientKeeps, AcceptKeeps, LoopKeeps DEF Next

-----------------------------------------------------------------------------

\* The variables of the endpoint keep their types.
THEOREM TypeCorrect == Spec => []TypeOK
<1>1. EndpointInv => TypeOK
  BY DEF EndpointInv
<1> QED BY <1>1, EndpointInvInit, EndpointInvStep, PTL DEF Spec

\* Between quinn's queue, a pending call of accept and what accept has returned,
\* no connection is ever in two places or in none.
THEOREM NoneForgottenCorrect == Spec => []NoneForgotten
<1>1. EndpointInv => NoneForgotten
  BY DEF EndpointInv
<1> QED BY <1>1, EndpointInvInit, EndpointInvStep, PTL DEF Spec
=============================================================================
