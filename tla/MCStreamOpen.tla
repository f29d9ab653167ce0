---------------------------- MODULE MCStreamOpen ----------------------------
(***************************************************************************)
(* Instances of StreamOpen for TLC.                                        *)
(***************************************************************************)
EXTENDS StreamOpen, TLC

CONSTANTS u1, u2, tu, tb

Stream(d, ty, sid) == [dir |-> d, type |-> ty, sid |-> sid]

MCIds == {0, 1}

\* A QPACK stream whose second varint is not the session id, which another
\* implementation opens, and an open_uni behind it.
BlockedKind ==
  u1 :> Stream("uni", "qpack_encoder", 1)
  @@ u2 :> Stream("uni", "webtransport", 0)

\* One task per direction, as in the examples of the repository.
PairRoles == {<<tu, "uni">>, <<tb, "bi">>}
=============================================================================
