--------------------------- MODULE SettingsCodec ---------------------------
(***************************************************************************)
(* Settings::decode on the payload of a SETTINGS frame: identifiers and    *)
(* values are read with the VarIntExt::read_varint of a Buf, which has all *)
(* its bytes from the start and must notice when they run out.  The        *)
(* payload may end anywhere, since its length comes from the frame header. *)
(***************************************************************************)
EXTENDS VarInt, SequencesExt

CONSTANTS
  Identifiers,  \* identifiers of settings that occur
  Amounts,      \* values that occur
  MaxSettings   \* bound: settings in one frame

Pairs == Identifiers \X Amounts

ASSUME SettingsAssumption ==
  /\ Identifiers \cup Amounts \subseteq 0 .. Bound(8) - 1
  /\ MaxSettings \in Nat

\* u32 is four bytes wide.
U32 == Pow2[4 * Bits]

VARIABLES
  sent,      \* the settings that are complete in the payload, in order
  cut,       \* bytes of one more setting the payload ends with
  data,      \* the bytes not read yet
  id,        \* <<identifier>> read and waiting for its value, or <<>>
  settings,  \* the map decoded so far
  status     \* "decoding", or what decode does: "ok", "failed", "panicked"

vars == <<sent, cut, data, id, settings, status>>

\* Settings::encode writes one pair after the other.
EncodePair(p) == Encode(p[1]) \o Encode(p[2])
EncodePairs(list) == FlattenSeq([i \in DOMAIN list |-> EncodePair(list[i])])

Init ==
  /\ sent \in BoundedSeq(Pairs, MaxSettings)
  /\ \E p \in Pairs :
       /\ cut \in 0 .. Len(EncodePair(p)) - 1
       /\ data = EncodePairs(sent) \o SubSeq(EncodePair(p), 1, cut)
  /\ id = <<>>
  /\ settings = [k \in {} |-> 0]
  /\ status = "decoding"

\* VarIntExt::read_varint: get_u8 panics on an empty buffer, the bytes after
\* the first are checked for.
Take ==
  IF data = <<>> THEN "panicked"
  ELSE IF Len(data) < Announced(data[1]) THEN "failed" ELSE "ok"
Head1 == Value(SubSeq(data, 1, Announced(data[1])))
Rest  == SubSeq(data, Announced(data[1]) + 1, Len(data))

\* The loop of decode starts over while there are bytes.
ReadIdentifier ==
  /\ status = "decoding" /\ id = <<>> /\ data # <<>>
  /\ \/ /\ Take = "ok"
        /\ id' = <<Head1>> /\ data' = Rest
        /\ UNCHANGED status
     \/ /\ Take # "ok"
        /\ status' = Take
        /\ UNCHANGED <<id, data>>
  /\ UNCHANGED <<sent, cut, settings>>

\* Mutant of Insert: the first value of a setting stays, as with or_insert.
InsertFirst(st, k, v) ==
  [x \in DOMAIN st \cup {k} |-> IF x \in DOMAIN st THEN st[x] ELSE v]

\* Settings::insert: the HashMap keeps the last value of a setting.
Insert(st, k, v) == [x \in DOMAIN st \cup {k} |-> IF x = k THEN v ELSE st[x]]

\* Mutant of ReadValue: the value keeps its 62 bits.
ReadWideValue ==
  /\ status = "decoding" /\ id # <<>>
  /\ \/ /\ Take = "ok"
        /\ settings' = Insert(settings, id[1], Head1)
        /\ id' = <<>> /\ data' = Rest
        /\ UNCHANGED status
     \/ /\ Take # "ok"
        /\ status' = Take
        /\ UNCHANGED <<settings, id, data>>
  /\ UNCHANGED <<sent, cut>>

\* The value is cast to u32 and inserted.
ReadValue ==
  /\ status = "decoding" /\ id # <<>>
  /\ \/ /\ Take = "ok"
        /\ settings' = Insert(settings, id[1], Head1 % U32)
        /\ id' = <<>> /\ data' = Rest
        /\ UNCHANGED status
     \/ /\ Take # "ok"
        /\ status' = Take
        /\ UNCHANGED <<settings, id, data>>
  /\ UNCHANGED <<sent, cut>>

\* Nothing remains: decode returns the settings.
Return ==
  /\ status = "decoding" /\ id = <<>> /\ data = <<>>
  /\ status' = "ok"
  /\ UNCHANGED <<sent, cut, data, id, settings>>

Next == ReadIdentifier \/ ReadValue \/ Return

Spec == Init /\ [][Next]_vars

-----------------------------------------------------------------------------

TypeOK ==
  /\ \A i \in DOMAIN data : data[i] \in Byte
  /\ DOMAIN settings \subseteq Identifiers
  /\ \A k \in DOMAIN settings : settings[k] \in 0 .. U32 - 1
  /\ status \in {"decoding", "ok", "failed", "panicked"}

\* The value of each setting that is sent last.
LastSent ==
  [k \in {sent[i][1] : i \in DOMAIN sent} |->
     LET i == CHOOSE i \in DOMAIN sent :
                sent[i][1] = k /\ \A j \in DOMAIN sent : sent[j][1] = k => j <= i
     IN sent[i][2]]

\* decode returns settings exactly for a payload of whole pairs, and they are
\* the ones that were sent, as far as a u32 holds them: no byte of one integer
\* is taken for another, and nothing is made up from a payload that is cut.
DecodesSent ==
  /\ status = "ok" =>
       cut = 0 /\ settings = [k \in DOMAIN LastSent |-> LastSent[k] % U32]
  /\ status \in {"failed", "panicked"} => cut > 0

\* CodingError::UnexpectedEnd says what happens when there is not enough data
\* for an integer: read_varint returns it.  The code does not keep this when
\* there is no data at all: see the README.
ShortIsError == status # "panicked"
=============================================================================
