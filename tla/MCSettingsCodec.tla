-------------------------- MODULE MCSettingsCodec --------------------------
(***************************************************************************)
(* SettingsCodec with bytes of three bits: identifiers of one and of two   *)
(* bytes, values up to and beyond the twelve bits of a u32.                *)
(***************************************************************************)
EXTENDS SettingsCodec

MCIdentifiers == {1, Bound(1)}
MCAmounts == {0, 1, U32 - 1, U32 + 1}
=============================================================================
