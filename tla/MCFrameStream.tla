---------------------------- MODULE MCFrameStream ----------------------------
(***************************************************************************)
(* FrameStream with bytes of three bits, so that the lengths hold 1, 4, 10 *)
(* and 22 bits.  The types lie around the first two bounds, and 33 and 64  *)
(* are greased; one payload would itself read as the beginning of a frame. *)
(***************************************************************************)
EXTENDS FrameStream

MCTypes == {1, 2, 16, 33, 64}
MCPayloads == {<<>>, <<1, 1>>}
=============================================================================
