------------------------------- MODULE VarInt -------------------------------
(***************************************************************************)
(* QUIC variable-length integers: wt-proto/src/coding.rs.  The two top     *)
(* bits of the first byte say how long the integer is; the rest is the     *)
(* value, most significant byte first.  Bits is the width of a byte, 8 in  *)
(* the code; a smaller width keeps every length within TLC's integers.     *)
(***************************************************************************)
EXTENDS Integers, Sequences

CONSTANT Bits  \* bits of a byte

ASSUME BitsAssumption == Bits \in Nat /\ Bits >= 2

\* Powers of two up to those of eight bytes.
Pow2[n \in 0 .. 8 * Bits] == IF n = 0 THEN 1 ELSE 2 * Pow2[n - 1]

Base == Pow2[Bits]
Byte == 0 .. Base - 1
Lengths == {1, 2, 4, 8}

\* Values below Bound(n) fit in n bytes, two bits of which are the tag.
Bound(n) == Pow2[Bits * n - 2]

\* write_varint: the first length that is long enough.
Fitting(x) == CHOOSE n \in Lengths :
  x < Bound(n) /\ \A m \in Lengths : x < Bound(m) => n <= m

Tag(n) == CASE n = 1 -> 0 [] n = 2 -> 1 [] n = 4 -> 2 [] n = 8 -> 3

\* x in n bytes.  write_varint takes n = Fitting(x); another writer may take a
\* longer one.
EncodeIn(x, n) ==
  [i \in 1 .. n |-> ((Tag(n) * Bound(n) + x) \div Pow2[Bits * (n - i)]) % Base]
Encode(x) == EncodeIn(x, Fitting(x))

\* read_varint: the length the first byte announces, and the value of that
\* many bytes without the tag bits (from_be_bytes).
Announced(first) == Pow2[first \div Pow2[Bits - 2]]
Value(bytes) ==
  LET upTo[i \in 1 .. Len(bytes)] ==
        IF i = 1 THEN bytes[1] % Pow2[Bits - 2] ELSE Base * upTo[i - 1] + bytes[i]
  IN upTo[Len(bytes)]
=============================================================================
