----------------------------- MODULE MCWTAccept -----------------------------
(***************************************************************************)
(* Instances of WTAccept for TLC.                                          *)
(***************************************************************************)
EXTENDS WTAccept, TLC

CONSTANTS u1, u2, b1, tu, tb, t1, t2

Stream(d, ty, sid) == [dir |-> d, type |-> ty, sid |-> sid]

MCIds == {0, 1}

\* A WebTransport stream behind a QPACK stream whose second varint is not the
\* session id, and a bidirectional WebTransport stream.
MixedKind ==
  u1 :> Stream("uni", "qpack_encoder", 1)
  @@ u2 :> Stream("uni", "webtransport", 0)
  @@ b1 :> Stream("bi", "webtransport", 0)

\* A push stream and a stream of the session that share a queue, and a
\* bidirectional stream of a type the code does not know.
InboxKind ==
  u1 :> Stream("uni", "push", 0)
  @@ u2 :> Stream("uni", "webtransport", 0)
  @@ b1 :> Stream("bi", "other", 0)

\* Two streams of the session in the same direction.
PlainKind == [s \in {u1, u2} |-> Stream("uni", "webtransport", 0)]

\* One task per direction, as in the examples of the repository.
PairRoles == {<<tu, "uni">>, <<tb, "bi">>}
\* One task accepts uni streams only, or both in turn.
UniRoles == {<<tu, "uni">>}
BothRoles == {<<tu, "uni">>, <<tu, "bi">>}
\* Two clones of the connection wait for the same direction.
SharedRoles == {<<t1, "uni">>, <<t2, "uni">>}
=============================================================================
