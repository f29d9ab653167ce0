------------------------------ MODULE MCQpack ------------------------------
(***************************************************************************)
(* Instances of Qpack for TLC: a word of 15 bits, one more than a multiple *)
(* of seven as the 64 bits of a usize are, and a static table of 70        *)
(* entries, more than fit into the first byte of any reference.            *)
(***************************************************************************)
EXTENDS Qpack

Method  == <<58, 1>>
Status  == <<58, 2>>
Connect == <<3>>
Get     == <<4, 5>>
Draft   == [i \in 1 .. 8 |-> 7]  \* a name as long as to need a second byte
Long    == <<3, 5, 7, 7, 7, 5, 3>>  \* codes across byte boundaries, cut in three tables

\* :method twice, an entry behind the 63rd, and fillers.
MCTable ==
  [i \in 0 .. 69 |-> CASE i = 15 -> <<Method, Connect>>
                       [] i = 17 -> <<Method, Get>>
                       [] i = 64 -> <<Status, Get>>
                       [] OTHER  -> <<<<9, i>>, <<>>>>]

\* Codes of three to eight bits; eight ones are the end-of-string symbol.
Sym(s) == <<"sym", s>>
Node(n) == <<"node", n>>
Lookup(step, entries) ==
  [lookup |-> step, table |-> [w \in 0 .. Len(entries) - 1 |-> entries[w + 1]]]
MCTree ==
  [root |-> Lookup(3, <<Sym(4), Sym(101), Sym(102), Sym(103), Sym(104), Sym(7),
                       Node("end3_110"), Node("end3_111")>>),
   end3_110 |-> Lookup(1, <<Sym(105), Sym(5)>>),
   end3_111 |-> Lookup(2, <<Sym(106), Sym(107), Sym(108), Node("end5")>>),
   end5 |-> Lookup(3, <<Sym(3), Sym(109), Sym(110), Sym(111), Sym(112), Sym(113),
                       Sym(200), Node("eof")>>),
   eof |-> Lookup(8, <<>>)]

MCDepth == [root |-> 0, end3_110 |-> 3, end3_111 |-> 3, end5 |-> 5, eof |-> 8]

MCFields == {<<Method, Connect>>, <<Method, Get>>, <<Status, Get>>,
             <<Status, <<>>>>, <<Draft, Long>>}
MCOneField == {<<Status, Get>>}
=============================================================================
