----------------------------- MODULE MCEndpoint -----------------------------
(***************************************************************************)
(* An instance of Endpoint for TLC: a proper client, one whose handshake   *)
(* may fail, and one of any kind, in any order.                            *)
(***************************************************************************)
EXTENDS Endpoint

Client(alpn, manner) == [alpn |-> alpn, manner |-> manner]

Unlucky == {Client(alpn, "proper") : alpn \in {"other", "none", "refused"}}
Willing == {Client("h3", manner) : manner \in Manners}

MCKinds ==
  <<{Client("h3", "proper")},
    {Client("h3", "proper"), Client("refused", "proper")},
    Unlucky \cup Willing>>
=============================================================================
