------------------------------- MODULE Huffman -------------------------------
(***************************************************************************)
(* Huffman coded strings: wt-proto/src/h3/huffman.rs.  The decoder is a    *)
(* tree of tables.  Each table looks up a window of a few bits and yields  *)
(* a symbol or the table for the bits that follow; a string ends where a   *)
(* window no longer fits.  The 256 symbols of HPACK are a constant, Tree.  *)
(* Payloads and strings are sequences of bytes.                            *)
(***************************************************************************)
EXTENDS Integers, SequencesExt

CONSTANTS
  Tree,   \* table -> [lookup: its window, table: window -> <<"sym" or "node", _>>]
  Depth,  \* table -> how many bits lead to it
  Root    \* HPACK_STRING

\* Bits of the longest code.
LongestCode == 30

ASSUME HuffmanAssumption ==
  /\ Depth \in [DOMAIN Tree -> 0 .. LongestCode]
  /\ Root \in DOMAIN Tree /\ Depth[Root] = 0
  /\ \A n \in DOMAIN Tree :
       /\ Tree[n].lookup \in 1 .. 8
       /\ \A w \in DOMAIN Tree[n].table :
            LET entry == Tree[n].table[w] IN
            /\ w \in 0 .. 2 ^ Tree[n].lookup - 1
            /\ \/ entry[1] = "sym" /\ entry[2] \in 0 .. 255
               \/ /\ entry[1] = "node" /\ entry[2] \in DOMAIN Tree
                  /\ Depth[entry[2]] = Depth[n] + Tree[n].lookup

\* Fewer than eight ones lead to no symbol: they can fill up the last byte.
ASSUME FillerAssumption ==
  \E S \in SUBSET DOMAIN Tree :
    /\ Root \in S
    /\ \A n \in S : Depth[n] + Tree[n].lookup < 8 =>
         LET ones == 2 ^ Tree[n].lookup - 1 IN
         /\ ones \in DOMAIN Tree[n].table
         /\ Tree[n].table[ones][1] = "node" /\ Tree[n].table[ones][2] \in S

-----------------------------------------------------------------------------
(* Decoding                                                                *)

\* Are there step bits behind the first at bits of a payload?
Fits(payload, at, step) == at + step <= 8 * Len(payload)

\* Mutant of Window: the bits in the next byte are lost.
WindowOneByte(payload, at, step) ==
  ((payload[at \div 8 + 1] * 256) \div 2 ^ (16 - (at % 8) - step)) % 2 ^ step

\* read_bits: these bits as a number.
Window(payload, at, step) ==
  LET b == at \div 8 + 1
      next == IF b < Len(payload) THEN payload[b + 1] ELSE 0
  IN ((payload[b] * 256 + next) \div 2 ^ (16 - (at % 8) - step)) % 2 ^ step

\* check_eof, where no window fits: nothing is left, or only ones.  A code
\* that is cut by the last byte, or in front of ones, ends the string too.
AtEnd(payload, at) ==
  \/ at \div 8 >= Len(payload)
  \/ /\ at \div 8 = Len(payload) - 1
     /\ (payload[Len(payload)] + 1) % 2 ^ (8 - (at % 8)) = 0

\* decode_next and DecodeIter: {string}, or {} for an error.
Decoded(payload) ==
  LET From[p \in (DOMAIN Tree) \X Nat] ==
        LET n == p[1]
            at == p[2]
            step == Tree[n].lookup
            window == Window(payload, at, step)
        IN IF ~Fits(payload, at, step)
           THEN IF AtEnd(payload, at) THEN {<<>>} ELSE {}
           ELSE IF window \notin DOMAIN Tree[n].table THEN {}
           ELSE LET entry == Tree[n].table[window] IN
                IF entry[1] = "sym"
                THEN {<<entry[2]>> \o s : s \in From[<<Root, at + step>>]}
                ELSE From[<<entry[2], at + step>>]
  IN From[<<Root, 0>>]

-----------------------------------------------------------------------------
(* Another implementation's encoder                                        *)

BitsOf(value, n) == [i \in 1 .. n |-> (value \div 2 ^ (n - i)) % 2]

\* The codes below each table: <<symbol, bits>>.
Codes[n \in DOMAIN Tree] ==
  UNION {LET entry == Tree[n].table[w]
             bits == BitsOf(w, Tree[n].lookup)
         IN IF entry[1] = "sym" THEN {<<entry[2], bits>>}
            ELSE {<<c[1], bits \o c[2]>> : c \in Codes[entry[2]]}
         : w \in DOMAIN Tree[n].table}

CodeOf == [s \in {c[1] : c \in Codes[Root]} |->
             (CHOOSE c \in Codes[Root] : c[1] = s)[2]]

\* The last byte is filled up with ones.
Filled(bits) == bits \o [i \in 1 .. (0 - Len(bits)) % 8 |-> 1]

\* The byte that begins behind the first k of some bits.
Octet(bits, k) ==
  128 * bits[k + 1] + 64 * bits[k + 2] + 32 * bits[k + 3] + 16 * bits[k + 4]
    + 8 * bits[k + 5] + 4 * bits[k + 6] + 2 * bits[k + 7] + bits[k + 8]

\* {payload}, or {} for a string that has a symbol without a code.
Encodings(string) ==
  IF ~(Range(string) \subseteq DOMAIN CodeOf) THEN {}
  ELSE LET bits == Filled(FlattenSeq([i \in DOMAIN string |-> CodeOf[string[i]]]))
       IN {[b \in 1 .. Len(bits) \div 8 |-> Octet(bits, 8 * (b - 1))]}
=============================================================================
