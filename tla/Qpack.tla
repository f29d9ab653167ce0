------------------------------- MODULE Qpack -------------------------------
(***************************************************************************)
(* Header blocks: wt-proto/src/h3/qpack.rs.  A block is a head of two      *)
(* prefix integers and then field lines, each a reference into the static  *)
(* table, a name from the table with a literal value, or two literals.     *)
(* Headers::decode reads a block that another implementation may have      *)
(* written in any of these forms, or in one that refers to a dynamic table *)
(* it does not have, with literals Huffman coded or not, and that may end  *)
(* anywhere.                                                               *)
(*                                                                         *)
(* Names and values are sequences of bytes.  WordBits stands for the 64    *)
(* bits of a usize: prefix integers are shifted and added up in one word.  *)
(***************************************************************************)
EXTENDS Huffman

CONSTANTS
  WordBits,  \* bits of a usize
  Table,     \* the static table: index -> <<name, value>>
  Fields,    \* the header fields that occur, <<name, value>>
  MaxLines,  \* bound: field lines in a block, its end included
  Excess     \* may a block end with an index that is beyond a usize?

ASSUME QpackAssumption ==
  /\ WordBits \in Nat /\ WordBits > 8
  /\ MaxLines \in Nat
  /\ Excess \in BOOLEAN

\* MAX_POWER / 7: continuation bytes that are read at most.
MaxGroups == (WordBits + 6) \div 7

\* Powers of two up to those of one continuation byte more.
Pow2[n \in 0 .. 7 * (MaxGroups + 1)] == IF n = 0 THEN 1 ELSE 2 * Pow2[n - 1]

Word == Pow2[WordBits]

\* What the continuation bytes before the i-th can hold.
Group(i) == Pow2[7 * (i - 1)]

\* Strings of single-byte characters.
AsciiStrings == Seq(0 .. 127)

\* A usize counts the entries of the table and the bytes of every string.
ASSUME TableAssumption ==
  /\ \E n \in 0 .. Word - 1 : DOMAIN Table = 0 .. n - 1
  /\ \A i \in DOMAIN Table : Table[i] \in AsciiStrings \X AsciiStrings
  /\ Fields \subseteq AsciiStrings \X AsciiStrings
  /\ \A f \in Fields : \A s \in {f[1], f[2]} :
       \A p \in {s} \cup Encodings(s) : Len(p) < Word

VARIABLES
  sent,    \* the fields of the block, in order
  tail,    \* its end: "none", "cut", "refused", "short" or "excess"
  data,    \* the bytes not read yet
  fields,  \* the map decoded so far
  status   \* "head" and "lines" while decoding, "ok", "failed", "panicked"

vars == <<sent, tail, data, fields, status>>

-----------------------------------------------------------------------------
(* Prefix integers                                                         *)

\* encode_prefix.
EncodePrefix(size, flags, value) ==
  LET mask == 2 ^ size - 1
      more == value - mask
      last == CHOOSE n \in 1 .. MaxGroups + 1 :
                more < Group(n + 1) /\ (n > 1 => more >= Group(n))
  IN IF value < mask THEN <<flags * 2 ^ size + value>>
     ELSE <<flags * 2 ^ size + mask>>
            \o [i \in 1 .. last |-> (IF i < last THEN 128 ELSE 0)
                                      + ((more \div Group(i)) % 128)]

Failed   == [status |-> "failed"]
Panicked == [status |-> "panicked"]

\* A continuation byte is shifted; what leaves the word is lost.
Shifted(d, i) == ((d[i + 1] % 128) * Group(i)) % Word

\* n continuation bytes of d, added to what the first byte holds.
Total(d, size, n) ==
  LET upTo[i \in 0 .. n] ==
        IF i = 0 THEN 2 ^ size - 1 ELSE upTo[i - 1] + Shifted(d, i)
  IN upTo[n]

\* A sum beyond the word panics in a debug build and wraps in a release build.
Overflow(total) == IF total < Word THEN {} ELSE {Panicked}

\* decode_prefix: what it may do on d.
Prefix(d, size) ==
  LET mask == 2 ^ size - 1
      Ends == {n \in 1 .. MaxGroups : /\ n < Len(d) /\ d[n + 1] < 128
                                      /\ \A i \in 1 .. n - 1 : d[i + 1] >= 128}
      Got(value, used) == [status |-> "ok", flags |-> d[1] \div 2 ^ size,
                           value |-> value, rest |-> SubSeq(d, used + 1, Len(d))]
  IN IF d = <<>> THEN {Failed}
     ELSE IF d[1] % 2 ^ size < mask THEN {Got(d[1] % 2 ^ size, 1)}
     ELSE IF Ends = {}
     THEN {Failed} \cup Overflow(Total(d, size, Min({MaxGroups, Len(d) - 1})))
     ELSE LET n == CHOOSE n \in Ends : TRUE
              total == Total(d, size, n)
          IN {Got(total % Word, n + 1)} \cup Overflow(total)

-----------------------------------------------------------------------------
(* Strings and the static table                                            *)

\* Mutant of Text: any bytes are taken for a string.
TextUnchecked(bytes) == TRUE

\* str::from_utf8, as far as single bytes tell.
Text(bytes) == \A i \in DOMAIN bytes : bytes[i] < 128

\* decode_string and from_utf8: the flag before the length says whether the
\* payload is Huffman coded.
StringOf(r) ==
  LET payload == SubSeq(r.rest, 1, r.value)
      strings == IF r.flags % 2 = 1 THEN Decoded(payload) ELSE {payload}
  IN IF r.value <= Len(r.rest) /\ \E s \in strings : Text(s)
     THEN [status |-> "ok", string |-> CHOOSE s \in strings : TRUE,
           rest |-> SubSeq(r.rest, r.value + 1, Len(r.rest))]
     ELSE Failed

String(d, size) ==
  {IF r.status = "ok" THEN StringOf(r) ELSE r : r \in Prefix(d, size - 1)}

\* StaticTable::find and find_name: the first entry that fits.
Find(f) == Min({i \in DOMAIN Table : Table[i] = f})
FindName(name) == Min({i \in DOMAIN Table : Table[i][1] = name})

-----------------------------------------------------------------------------
(* Writers                                                                 *)

EncodeString(size, flags, payload) ==
  EncodePrefix(size, flags, Len(payload)) \o payload

\* encode_index, encode_literal_value and encode_literal.
IndexLine(i) == EncodePrefix(6, 3, i)
NameLine(flags, i, value) == EncodePrefix(4, flags, i) \o value
LiteralLine(name, value) == name \o value

\* Headers::encode, one field.
OwnLine(f) ==
  IF f \in Range(Table) THEN IndexLine(Find(f))
  ELSE IF \E i \in DOMAIN Table : Table[i][1] = f[1]
  THEN NameLine(5, FindName(f[1]), EncodeString(7, 0, f[2]))
  ELSE LiteralLine(EncodeString(3, 4, f[1]), EncodeString(7, 0, f[2]))

\* A string as any writer may put it, behind the flags of its line.
Strings(size, flags, string) ==
  {EncodeString(size, 2 * flags, string)}
    \cup {EncodeString(size, 2 * flags + 1, p) : p \in Encodings(string)}

\* A field as any writer may put it; the bit before the name tells
\* intermediaries never to index it.
Lines(f) ==
  {OwnLine(f)}
    \cup {IndexLine(i) : i \in {j \in DOMAIN Table : Table[j] = f}}
    \cup {NameLine(flags, i, v) :
            flags \in {5, 7}, v \in Strings(7, 0, f[2]),
            i \in {j \in DOMAIN Table : Table[j][1] = f[1]}}
    \cup {LiteralLine(n, v) : n \in Strings(3, 2, f[1]) \cup Strings(3, 3, f[1]),
                              v \in Strings(7, 0, f[2])}

\* Lines a decoder without a dynamic table has to refuse: the four references
\* to a dynamic table, an index beyond the table, a value that is no text, a
\* coded one that goes on behind the end-of-string symbol, and one filled up
\* with zeros.
Refused ==
  {<<128>>, <<64>>, <<16>>, <<0>>, IndexLine(Cardinality(DOMAIN Table)),
   LiteralLine(EncodeString(3, 4, <<1>>), EncodeString(7, 0, <<200>>)),
   LiteralLine(EncodeString(3, 4, <<1>>), EncodeString(7, 1, <<255, 0>>)),
   LiteralLine(EncodeString(3, 4, <<1>>), EncodeString(7, 1, <<0>>))}

\* No string has one of the two coded values.
ASSUME RefusedAssumption == Decoded(<<255, 0>>) = {} /\ Decoded(<<0>>) = {}

\* A field whose coded value lacks its last bytes, beside the field.
Shorts(f) ==
  UNION {{<<LiteralLine(EncodeString(3, 4, f[1]),
                        EncodeString(7, 1, SubSeq(p, 1, n))), <<f>>>> :
            n \in 0 .. Len(p) - 1} : p \in Encodings(f[2])}

\* Indices that a word cuts to one of the table.
Excesses == {IndexLine(Word + i) : i \in DOMAIN Table}

\* The head as wt-rs writes it, and with an insert count and a delta base.
Heads == {<<0, 0>>, EncodePrefix(8, 0, 300) \o EncodePrefix(7, 1, 127)}

\* Complete lines beside the fields they stand for.
Written == UNION {{<<f, l>> : l \in Lines(f)} : f \in Fields}

\* How a block may end behind its complete lines: what the end is, its bytes,
\* and the field that it still sends.
Tails ==
  {<<"none", <<>>, <<>>>>}
    \cup (UNION {{<<"cut", SubSeq(w[2], 1, n), <<>>>> : n \in 1 .. Len(w[2]) - 1}
                : w \in Written})
    \cup {<<"refused", l, <<>>>> : l \in Refused}
    \cup {<<"short", l[1], l[2]>> : l \in UNION {Shorts(f) : f \in Fields}}
    \cup {<<"excess", l, <<>>>> : l \in IF Excess THEN Excesses ELSE {}}

Init ==
  /\ \/ \E head \in Heads, list \in BoundedSeq(Written, MaxLines), end \in Tails :
          /\ end[1] # "none" => Len(list) < MaxLines
          /\ sent = [i \in DOMAIN list |-> list[i][1]] \o end[3]
          /\ tail = end[1]
          /\ data = head \o FlattenSeq([i \in DOMAIN list |-> list[i][2]]) \o end[2]
     \/ \E head \in Heads :
          /\ sent = <<>> /\ tail = "cut"
          /\ \E n \in 0 .. Len(head) - 1 : data = SubSeq(head, 1, n)
  /\ fields = [n \in {} |-> <<>>]
  /\ status = "head"

-----------------------------------------------------------------------------
(* Headers::decode                                                         *)

\* An outcome without a result: decode returns Err, or panics.
Stop(r) ==
  /\ r.status # "ok"
  /\ status' = r.status
  /\ UNCHANGED <<data, fields>>

\* fields.insert: the last value of a name stays.
Insert(name, value, rest) ==
  /\ fields' = [n \in DOMAIN fields \cup {name} |->
                   IF n = name THEN value ELSE fields[n]]
  /\ data' = rest
  /\ UNCHANGED status

\* The two integers of the head are skipped.
ReadHead ==
  /\ status = "head"
  /\ \E r \in Prefix(data, 8) :
       \/ Stop(r)
       \/ /\ r.status = "ok"
          /\ \E q \in Prefix(r.rest, 7) :
               \/ Stop(q)
               \/ /\ q.status = "ok"
                  /\ status' = "lines" /\ data' = q.rest
                  /\ UNCHANGED fields
  /\ UNCHANGED <<sent, tail>>

\* The first byte of the next line tells its form.
NextIn(bytes) == status = "lines" /\ data # <<>> /\ data[1] \in bytes

IndexBytes   == 192 .. 255
LiteralBytes == 32 .. 63

\* Mutant of NameRefBytes: the bit of fields never to be indexed is taken for
\* a part of the form.
PlainNameRefBytes == 80 .. 95

\* With a clear bit 4 the name is in the dynamic table.
NameRefBytes == {b \in 64 .. 127 : (b \div 16) % 2 = 1}

\* decode_index.
ReadIndex ==
  /\ NextIn(IndexBytes)
  /\ \E r \in Prefix(data, 6) :
       \/ Stop(r)
       \/ /\ r.status = "ok"
          /\ IF r.value \in DOMAIN Table
             THEN Insert(Table[r.value][1], Table[r.value][2], r.rest)
             ELSE Stop(Failed)
  /\ UNCHANGED <<sent, tail>>

\* decode_literal_value.
ReadNameRef ==
  /\ NextIn(NameRefBytes)
  /\ \E r \in Prefix(data, 4) :
       \/ Stop(r)
       \/ r.status = "ok" /\ r.value \notin DOMAIN Table /\ Stop(Failed)
       \/ /\ r.status = "ok" /\ r.value \in DOMAIN Table
          /\ \E v \in String(r.rest, 8) :
               \/ Stop(v)
               \/ v.status = "ok" /\ Insert(Table[r.value][1], v.string, v.rest)
  /\ UNCHANGED <<sent, tail>>

\* decode_literal.
ReadLiteral ==
  /\ NextIn(LiteralBytes)
  /\ \E n \in String(data, 4) :
       \/ Stop(n)
       \/ /\ n.status = "ok"
          /\ \E v \in String(n.rest, 8) :
               \/ Stop(v)
               \/ v.status = "ok" /\ Insert(n.string, v.string, v.rest)
  /\ UNCHANGED <<sent, tail>>

\* Every other line refers to a dynamic table.
RefuseLine ==
  /\ NextIn(0 .. 255 \ (IndexBytes \cup NameRefBytes \cup LiteralBytes))
  /\ Stop(Failed)
  /\ UNCHANGED <<sent, tail>>

Return ==
  /\ status = "lines" /\ data = <<>>
  /\ status' = "ok"
  /\ UNCHANGED <<sent, tail, data, fields>>

Next == ReadHead \/ ReadIndex \/ ReadNameRef \/ ReadLiteral \/ RefuseLine \/ Return

Spec == Init /\ [][Next]_vars

-----------------------------------------------------------------------------
(* Properties                                                              *)

TypeOK ==
  /\ \A i \in DOMAIN data : data[i] \in 0 .. 255
  /\ \A n \in DOMAIN fields : Text(n) /\ \A i \in DOMAIN fields[n] : fields[n][i] < 128
  /\ tail \in {"none", "cut", "refused", "short", "excess"}
  /\ status \in {"head", "lines", "ok", "failed", "panicked"}

\* The value that each name is sent with last.
LastSent ==
  [n \in {sent[i][1] : i \in DOMAIN sent} |->
     sent[Max({i \in DOMAIN sent : sent[i][1] = n})][2]]

\* In whichever form the writer put each field, decode returns the fields that
\* were sent, and it returns nothing for a block that is cut inside a line or
\* refers to a table it does not have: a line never runs into the next one.
DecodesSent ==
  /\ status = "ok" /\ tail # "short" => tail = "none" /\ fields = LastSent
  /\ status \in {"failed", "panicked"} => tail # "none"

\* A Huffman coded value that lacks bytes at its end is refused or decodes to
\* a prefix of the value: no symbol comes out that was not sent, and the other
\* fields are not touched.
ShortIsPrefix ==
  tail = "short" /\ status = "ok" =>
    LET name == Last(sent)[1] IN
    /\ IsPrefix(fields[name], Last(sent)[2])
    /\ fields = [LastSent EXCEPT ![name] = fields[name]]

\* DecodeError::BoundsExceeded is there for integers that do not fit: they are
\* never taken for another one, and decode does not panic.  The code does not
\* keep this: see the README.
ExcessIsError == tail = "excess" => status \notin {"ok", "panicked"}
=============================================================================
