----------------------------- MODULE MCSession -----------------------------
(***************************************************************************)
(* Instances of Session for TLC.                                           *)
(***************************************************************************)
EXTENDS Session, TLC

Bare(ty) == Frame(ty, NoSettings)

\* SETTINGS with WebTransport enabled, disabled in a setting that counts more
\* than the one that enables it, announced with a value of which the low 32
\* bits are zero, and not mentioned.
MCFrames ==
  {Frame("settings", "enable" :> 1),
   Frame("settings", ("enable" :> 0) @@ ("max" :> 1)),
   Frame("settings", "max_old" :> 2),
   Bare("settings"), Bare("grease"), Bare("headers"),
   Bare("malformed"), Bare("cut")}

\* Requests: a right one, one of another protocol, one without a protocol, one
\* of another method.
MCRequests ==
  {OwnRequest,
   Frame("headers", [method |-> "CONNECT", protocol |-> "websocket"]),
   Frame("headers", [method |-> "CONNECT"]),
   Frame("headers", [method |-> "GET", protocol |-> "webtransport"]),
   Bare("grease"), Bare("other"), Bare("malformed")}

\* Responses: a right one, a refusal, one without the draft header.
MCResponses ==
  {OwnOk,
   Frame("headers", [status |-> "404", draft |-> "draft02"]),
   Frame("headers", [status |-> "200"]),
   Bare("grease"), Bare("settings"), Bare("malformed")}

MCHeaders == [client |-> MCRequests, server |-> MCResponses]
=============================================================================
