------------------------------ MODULE Endpoint ------------------------------
(***************************************************************************)
(* The endpoint of a server and its clients: wt-rs/src/endpoint.rs.        *)
(*                                                                         *)
(* Endpoint<Server>::accept takes one incoming connection, waits for its   *)
(* QUIC handshake, looks at the negotiated ALPN and upgrades it, all       *)
(* before it returns.  Connections that arrive meanwhile wait in quinn's   *)
(* queue, their handshakes not even begun.  Clients are in                 *)
(* Endpoint<Client>::connect, give up when they like, or stay silent.      *)
(*                                                                         *)
(* The steps of an upgrade are those of Session; here a client has asked   *)
(* for its session or not.  The application calls accept in a loop, drops  *)
(* calls when it likes, and ends at the first error, as main of            *)
(* echo-server does, unless it is tolerant.                                *)
(***************************************************************************)
EXTENDS Naturals, Sequences

CONSTANTS
  Conns,     \* the connections clients may make
  Kinds,     \* what each client may be like
  Patience   \* does the application go on after an error? a set of BOOLEANs

\* The ALPN a handshake negotiates; "refused" when the two ends share none.
Alpns == {"h3", "other", "none", "refused"}

\* A proper client is a wt-rs client, a rude one asks for something that
\* upgrade refuses, a silent one keeps its connection and asks for nothing.
Manners == {"proper", "rude", "silent"}

ASSUME EndpointAssumption ==
  /\ Kinds \in [Conns -> SUBSET [alpn : Alpns, manner : Manners]]
  /\ Patience \subseteq BOOLEAN

VARIABLES
  kind,      \* the kind of each client, the same throughout
  tolerant,  \* accept is called again after an error, the same throughout
  client,    \* where connect is
  sent,      \* how far the client has got: what reaches the server
  queue,     \* connections quinn has for accept, oldest first
  stage,     \* what the server has done with each connection
  app        \* where the accept loop is

vars == <<kind, tolerant, client, sent, queue, stage, app>>
fixed == <<kind, tolerant>>
server == <<queue, stage, app>>

ClientStages == {"away", "connecting", "opening", "open", "failed"}
Progress == {"nothing", "handshake", "request"}

\* The response of an "answered" connection is on its way.  "returned" and
\* "refused" are the results of accept; a connection is "dropped" with a call of
\* accept or with the whole program.
Stages == {"none", "queued", "handshaking", "upgrading", "answered",
           "returned", "refused", "dropped"}

Init ==
  /\ kind \in [Conns -> [alpn : Alpns, manner : Manners]]
  /\ \A c \in Conns : kind[c] \in Kinds[c]
  /\ tolerant \in Patience
  /\ client = [c \in Conns |-> "away"]
  /\ sent = [c \in Conns |-> "nothing"]
  /\ queue = <<>>
  /\ stage = [c \in Conns |-> "none"]
  /\ app = "idle"

-----------------------------------------------------------------------------
(* Clients                                                                 *)

\* The connections in the hands of the pending accept.
Current == {c \in Conns : stage[c] \in {"handshaking", "upgrading", "answered"}}

\* The program that listens is still there.
Running == app \notin {"ended", "panicked"}

\* connect: the first packet makes a connection wait at the server.
Connect(c) ==
  /\ Running
  /\ client[c] = "away"
  /\ client' = [client EXCEPT ![c] = "connecting"]
  /\ stage' = [stage EXCEPT ![c] = "queued"]
  /\ queue' = Append(queue, c)
  /\ UNCHANGED <<fixed, sent, app>>

\* The handshake succeeds for the client, which it may do before it does for
\* the server, and Connection::open begins.
Connected(c) ==
  /\ client[c] = "connecting"
  /\ stage[c] = "handshaking" /\ kind[c].alpn # "refused"
  /\ client' = [client EXCEPT ![c] = "opening"]
  /\ sent' = [sent EXCEPT ![c] = "handshake"]
  /\ UNCHANGED <<fixed, server>>

\* Connection::open has sent its request.
Ask(c) ==
  /\ client[c] = "opening" /\ sent[c] = "handshake"
  /\ stage[c] = "upgrading" /\ kind[c].manner # "silent"
  /\ sent' = [sent EXCEPT ![c] = "request"]
  /\ UNCHANGED <<fixed, client, server>>

\* The response arrives, which it may do before accept has returned: connect
\* returns the session.
Opened(c) ==
  /\ client[c] = "opening" /\ stage[c] \in {"answered", "returned"}
  /\ client' = [client EXCEPT ![c] = "open"]
  /\ UNCHANGED <<fixed, sent, server>>

\* connect returns an error because the server closed the connection.
Rejected(c) ==
  /\ client[c] \in {"connecting", "opening"}
  /\ stage[c] \in {"refused", "dropped"}
  /\ client' = [client EXCEPT ![c] = "failed"]
  /\ UNCHANGED <<fixed, sent, server>>

\* connect times out or is dropped; what it sent may still arrive.
GiveUp(c) ==
  /\ client[c] \in {"connecting", "opening"}
  /\ client' = [client EXCEPT ![c] = "failed"]
  /\ UNCHANGED <<fixed, sent, server>>

-----------------------------------------------------------------------------
(* Endpoint<Server>::accept                                                *)

Call ==
  /\ app = "idle"
  /\ app' = "accepting"
  /\ UNCHANGED <<fixed, client, sent, queue, stage>>

\* The endpoint and all it holds go with the program.
DropAll == [c \in Conns |-> IF stage[c] \in {"none", "returned", "refused"}
                            THEN stage[c] ELSE "dropped"]

\* Mutant of ReturnError: accept is left in a state nobody expects.
ReturnErrorCode(c) ==
  /\ app' = "failed"
  /\ stage' = [stage EXCEPT ![c] = "refused"]
  /\ UNCHANGED queue

\* accept returns the error of connection c.
ReturnError(c) ==
  LET refused == [stage EXCEPT ![c] = "refused"] IN
  IF tolerant
  THEN app' = "idle" /\ stage' = refused /\ UNCHANGED queue
  ELSE /\ app' = "ended"
       /\ stage' = [DropAll EXCEPT ![c] = "refused"]
       /\ queue' = <<>>

\* inner.accept() yields the oldest connection, and its handshake is awaited.
Take(c) ==
  /\ app = "accepting" /\ Current = {}
  /\ queue # <<>> /\ c = Head(queue)
  /\ queue' = Tail(queue)
  /\ stage' = [stage EXCEPT ![c] = "handshaking"]
  /\ UNCHANGED <<fixed, client, sent, app>>

\* The handshake is over, and up to the first await of upgrade nothing comes in
\* between: without an ALPN unwrap panics, another one than h3 is an error.
HandshakeDone(c) ==
  /\ app = "accepting" /\ stage[c] = "handshaking"
  /\ sent[c] # "nothing"
  /\ \/ /\ kind[c].alpn = "h3"
        /\ stage' = [stage EXCEPT ![c] = "upgrading"]
        /\ UNCHANGED <<queue, app>>
     \/ kind[c].alpn = "other" /\ ReturnError(c)
     \/ /\ kind[c].alpn = "none"
        /\ app' = "panicked" /\ stage' = DropAll /\ queue' = <<>>
  /\ UNCHANGED <<fixed, client, sent>>

\* Mutant of HandshakeFails: a handshake without a common ALPN hangs.
HandshakeLost(c) ==
  /\ app = "accepting" /\ stage[c] = "handshaking"
  /\ client[c] = "failed"
  /\ ReturnError(c)
  /\ UNCHANGED <<fixed, client, sent>>

\* i.await fails: no ALPN in common, or the client is gone, which quinn may
\* learn only from a timeout.
HandshakeFails(c) ==
  /\ app = "accepting" /\ stage[c] = "handshaking"
  /\ kind[c].alpn = "refused" \/ client[c] = "failed"
  /\ ReturnError(c)
  /\ UNCHANGED <<fixed, client, sent>>

Requested(c, manner) == sent[c] = "request" /\ kind[c].manner = manner

\* Connection::upgrade writes the response.
Answer(c) ==
  /\ app = "accepting" /\ stage[c] = "upgrading"
  /\ Requested(c, "proper")
  /\ stage' = [stage EXCEPT ![c] = "answered"]
  /\ UNCHANGED <<fixed, client, sent, queue, app>>

\* accept returns the connection, which the client may have left by now.
UpgradeDone(c) ==
  /\ app = "accepting" /\ stage[c] = "answered"
  /\ stage' = [stage EXCEPT ![c] = "returned"]
  /\ app' = "idle"
  /\ UNCHANGED <<fixed, client, sent, queue>>

\* Mutant of UpgradeFails: the loss of the connection is not noticed.
UpgradeRefuses(c) ==
  /\ app = "accepting" /\ stage[c] = "upgrading"
  /\ Requested(c, "rude")
  /\ ReturnError(c)
  /\ UNCHANGED <<fixed, client, sent>>

\* Connection::upgrade fails: because of what the client sent, or because the
\* connection is lost.
UpgradeFails(c) ==
  /\ app = "accepting" /\ stage[c] = "upgrading"
  /\ client[c] = "failed" \/ Requested(c, "rude")
  /\ ReturnError(c)
  /\ UNCHANGED <<fixed, client, sent>>

\* Mutant of Cancel: the connection taken stays with nobody.
CancelKeeps ==
  /\ app = "accepting"
  /\ app' = "idle"
  /\ UNCHANGED <<fixed, client, sent, queue, stage>>

\* The application drops the pending accept (select!, a timeout): what waits in
\* quinn's queue stays, the connection that accept has taken goes.  A future is
\* dropped only where it waits, and behind the last write of the response accept
\* does not wait any more.
Cancel ==
  /\ app = "accepting" /\ \A c \in Conns : stage[c] # "answered"
  /\ app' = "idle"
  /\ stage' = [c \in Conns |-> IF c \in Current THEN "dropped" ELSE stage[c]]
  /\ UNCHANGED <<fixed, client, sent, queue>>

-----------------------------------------------------------------------------

ClientStep(c) == Connected(c) \/ Ask(c) \/ Opened(c) \/ Rejected(c)

AcceptStep(c) ==
  \/ HandshakeDone(c) \/ HandshakeFails(c)
  \/ Answer(c) \/ UpgradeDone(c) \/ UpgradeFails(c)

Next ==
  \/ \E c \in Conns :
       Connect(c) \/ ClientStep(c) \/ GiveUp(c) \/ Take(c) \/ AcceptStep(c)
  \/ Call \/ Cancel

Spec == Init /\ [][Next]_vars

(***************************************************************************)
(* Packets get through, a silent client's as well, so handshakes complete  *)
(* and a lost connection is noticed, by a timeout of quinn at the latest.  *)
(* The application calls accept again after each result.  It may drop      *)
(* pending calls again and again, but a call that is awaited is polled at  *)
(* once, so one that finds connections in the queue eventually takes one   *)
(* (strong fairness).  Nobody has to connect, and a silent client need not *)
(* ever ask or leave.                                                      *)
(***************************************************************************)
Fairness ==
  /\ WF_vars(Call)
  /\ \A c \in Conns : /\ SF_vars(Take(c))
                      /\ WF_vars(ClientStep(c))
                      /\ WF_vars(AcceptStep(c))

FairSpec == Spec /\ Fairness

-----------------------------------------------------------------------------
(* Properties                                                              *)

TypeOK ==
  /\ DOMAIN kind = Conns /\ \A c \in Conns : kind[c] \in Kinds[c]
  /\ tolerant \in Patience
  /\ client \in [Conns -> ClientStages]
  /\ sent \in [Conns -> Progress]
  /\ queue \in Seq(Conns)
  /\ stage \in [Conns -> Stages]
  /\ app \in {"idle", "accepting", "ended", "panicked"}

\* Every connection is in one place: those in quinn's queue have not been taken,
\* a pending accept holds at most one, and between calls there is none that
\* nobody holds and nobody closed.
NoneForgotten ==
  /\ \A c \in Conns : stage[c] = "queued" <=> \E i \in DOMAIN queue : queue[i] = c
  /\ \A c, d \in Current : c = d
  /\ Current # {} => app = "accepting"

\* What can end the accept loop: an unwrap without an ALPN, and an error when
\* the application stops at errors.
Stopped ==
  \/ app = "panicked" /\ \E c \in Conns : kind[c].alpn = "none" /\ stage[c] = "dropped"
  \/ app = "ended" /\ ~tolerant /\ \E c \in Conns : stage[c] = "refused"

\* A connection that waits is answered, whatever the clients before it do wrong
\* and whenever they leave, unless the loop stopped or accept is busy with a
\* client that stays silent: accept upgrades one connection at a time and has
\* no timeout.
Served ==
  \A c \in Conns :
    (stage[c] = "queued")
      ~> \/ stage[c] \in {"returned", "refused", "dropped"}
         \/ Stopped
         \/ \E d \in Current : kind[d].manner = "silent"

\* connect returns, unless its server is busy with a silent client: even if the
\* server dropped, refused or never took the connection.
ConnectReturns ==
  \A c \in Conns :
    (client[c] = "connecting" /\ kind[c].manner # "silent")
      ~> \/ client[c] \in {"open", "failed"}
         \/ \E d \in Current : kind[d].manner = "silent"
=============================================================================
