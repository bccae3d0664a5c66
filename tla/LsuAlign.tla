------------------------------ MODULE LsuAlign ------------------------------
(***************************************************************************)
(* The combinational part of the load/store unit (riscv.patch,            *)
(* load_store_unit.sv, built with DIFT and DIFT_H): byte enables, rotation *)
(* of the stored word, assembly and extension of the loaded word and of    *)
(* its tag bits.                                                           *)
(*                                                                         *)
(* The repository has the unit's unchanged lines only in a backup the      *)
(* patch adds, load_store_unit.sv.bak (from riscv.patch:21586 on); the     *)
(* hunks of the file itself (21207 to 21585) have the tag half.            *)
(*                                                                         *)
(* A data word is a function from the four byte lanes to bytes, lane 0     *)
(* the least significant.  A tag word is the set of its bits that are 1.   *)
(***************************************************************************)
EXTENDS Integers

Lane == 0 .. 3
Word == [Lane -> 0 .. 255]
Type == {"word", "half", "byte"}
Size(type) == IF type = "word" THEN 4 ELSE IF type = "half" THEN 2 ELSE 1

(* data_misaligned_o, for an access that is not already in its second part. *)
CrossesWord(type, off) ==
    \/ type = "word" /\ off # 0
    \/ type = "half" /\ off = 3

(* Mutant: the second part of a halfword enables the lanes of the first. *)
ByteEnableSamePart(type, off, second) == {l \in off .. off + Size(type) - 1 : l < 4}

(* data_be: the lanes of this part of the access. *)
ByteEnable(type, off, second) ==
    IF second THEN 0 .. off + Size(type) - 5
              ELSE {l \in off .. off + Size(type) - 1 : l < 4}

(* data_wdata: byte k of the register goes to lane off + k, modulo four.   *)
(* data_reg_offset_ex_i is 0: no decoded instruction selects another one.  *)
Rotate(data, off) == [l \in Lane |-> data[(l - off) % 4]]

(* Mutant: the sign is extended in a signed number. *)
FillByteSigned(sext, b) == IF sext /\ b >= 128 THEN -1 ELSE 0

(* The byte that fills the upper lanes of a byte or halfword. *)
FillByte(sext, b) == IF sext /\ b >= 128 THEN 255 ELSE 0

Widen(size, sext, bytes) ==
    [l \in Lane |-> IF l < size THEN bytes[l] ELSE FillByte(sext, bytes[size - 1])]

(* data_rdata_ext: `q' holds the access as it was granted, `hold' is      *)
(* rdata_q (the first word of a misaligned access), `word' the new word.   *)
Extend(q, hold, word) ==
    Widen(Size(q.type), q.sext,
          [l \in Lane |-> IF CrossesWord(q.type, q.off) /\ q.off + l < 4
                          THEN hold[q.off + l]
                          ELSE word[(q.off + l) % 4]])

(* Bits from .. from+n-1 of a tag word, moved down to bit 0. *)
Bits(tags, from, n) == {b \in 0 .. n - 1 : from + b \in tags}
Shifted(tags, up) == {b + up : b \in tags}

(* data_rdata_ext_tag.  The offset has three bits here: addr[2:0].         *)
WordTag(off, hold, tags) ==
    IF off \in 1 .. 3
    THEN Bits(hold, off, 4 - off) \cup Shifted(Bits(tags, 0, off), 4 - off)
         \cup (tags \cap {4, 5})
    ELSE tags

HalfTag(off, hold, tags) ==
    CASE off \in 0 .. 2 -> Bits(tags, off, 2)
      [] off = 3        -> Bits(hold, 3, 1) \cup Shifted(Bits(tags, 0, 1), 1)
      [] off \in {4, 5} -> Bits(tags, 4, 2)
      [] OTHER          -> {}

ByteTag(off, tags) == IF off \in 0 .. 5 THEN Bits(tags, off, 1) ELSE {}

(* Mutant: the halfword tags are one bit short. *)
ExtendTagShort(q, hold, tags) ==
    CASE q.type = "word" -> WordTag(q.off, hold, tags)
      [] OTHER           -> ByteTag(q.off, tags)

ExtendTag(q, hold, tags) ==
    CASE q.type = "word" -> WordTag(q.off, hold, tags)
      [] q.type = "half" -> HalfTag(q.off, hold, tags)
      [] q.type = "byte" -> ByteTag(q.off, tags)

-----------------------------------------------------------------------------
(* Reference definitions: bytes at consecutive addresses. *)

(* Byte `at' of the two words that start at the word of the access. *)
ByteAt(first, second, at) == IF at < 4 THEN first[at] ELSE second[at - 4]

(* What a load of this type at this offset returns. *)
LoadedWord(type, off, sext, first, second) ==
    Widen(Size(type), sext, [l \in Lane |-> ByteAt(first, second, off + l)])

(* Whether one of the loaded bytes is tagged. *)
LoadedTag(type, off, first, second) ==
    \E at \in off .. off + Size(type) - 1 :
        IF at < 4 THEN at \in first ELSE at - 4 \in second

(* The word this part of a store leaves in memory. *)
StoredWord(type, off, second, data, old) ==
    [l \in Lane |->
        LET k == IF second THEN l + 4 - off ELSE l - off
        IN IF k \in 0 .. Size(type) - 1 THEN data[k] ELSE old[l]]

(* The lanes of this part. *)
StoredLanes(type, off, second) ==
    {l \in Lane : (IF second THEN l + 4 - off ELSE l - off) \in 0 .. Size(type) - 1}
=============================================================================
