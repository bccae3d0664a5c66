---------------------------- MODULE MCCoreRegion ----------------------------
(***************************************************************************)
(* Instances of CoreRegion for TLC.  Bytes are 0 or 255, so that the sign  *)
(* extension of a set byte shows; stored words have one byte set or none.  *)
(* Words 0 and 1 are in the RAM, words 2 and 3 behind AXI; word addresses  *)
(* 0 and 1 differ in addr[2].                                              *)
(***************************************************************************)
EXTENDS CoreRegion

OneHot(k) == [l \in Lane |-> IF l = k THEN 255 ELSE 0]

Base == [we |-> FALSE, spsw |-> FALSE, tagWe |-> FALSE, tag |-> FALSE, word |-> 0,
         off |-> 0, type |-> "word", sext |-> FALSE, data |-> ZeroWord, second |-> FALSE]

At(words, offs, types) ==
    {[Base EXCEPT !.word = w, !.off = o, !.type = t] : w \in words, o \in offs, t \in types}

Loads(words, offs, types) == At(words, offs, types)
SignedLoads(words, offs, types) == {[a EXCEPT !.sext = TRUE] : a \in At(words, offs, types)}
Stores(words, offs, types, values) ==
    {[a EXCEPT !.we = TRUE, !.data = d] : a \in At(words, offs, types), d \in values}
TagStores(words, offs, types) ==
    {[a EXCEPT !.we = TRUE, !.data = OneHot(0), !.tagWe = e[1], !.tag = e[2]] :
        a \in At(words, offs, types),
        e \in {<<TRUE, TRUE>>, <<TRUE, FALSE>>, <<FALSE, TRUE>>}}
SetTags(words, offs, types) == {[a EXCEPT !.spsw = TRUE] : a \in At(words, offs, types)}

(* Data: every offset of every type, misaligned pairs, both extensions. *)
DataAccess ==
    Loads({0}, Lane, {"word", "half"}) \cup Loads({1}, Lane, {"byte"})
    \cup SignedLoads({0}, {1, 3}, {"half", "byte"})
    \cup Stores({0}, {0, 1, 3}, {"word"}, {OneHot(0)})
    \cup Stores({0}, {2, 3}, {"half"}, {OneHot(1)})
    \cup Stores({1}, {1}, {"byte"}, {OneHot(0)})

(* Both memories: aligned and misaligned pairs in each, and back to back. *)
RegionAccess ==
    Loads({0}, {0, 3}, {"word"}) \cup Loads({2}, {3}, {"word"})
    \cup Stores({0}, {3}, {"word"}, {OneHot(3)})

(* Tags: aligned accesses to words whose address bit 2 is clear, and an AXI *)
(* store between them; the tagged stores also set a byte.                   *)
TagAccess ==
    {a \in Loads({0}, Lane, Type) : ~CrossesWord(a.type, a.off)}
    \cup TagStores({0}, {0}, {"word"}) \cup TagStores({0}, {1}, {"half"})
    \cup SetTags({0}, {3}, {"byte"}) \cup Stores({2}, {0}, {"word"}, {ZeroWord})

SharedTagAccess == SetTags({0}, {0}, {"word"})

OtherRead == {[word |-> 1, we |-> FALSE, be |-> Lane, wdata |-> ZeroWord]}
OtherWrite == {[word |-> 0, we |-> TRUE, be |-> {0, 1}, wdata |-> OneHot(1)],
               [word |-> 1, we |-> FALSE, be |-> Lane, wdata |-> ZeroWord]}

NoOther == {}
PeripheralWord == {ZeroWord, OneHot(0)}
NeverStalls == {FALSE}
MayStall == BOOLEAN
Ram == {0, 1}
=============================================================================
