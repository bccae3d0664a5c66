----------------------------- MODULE CoreRegion -----------------------------
(***************************************************************************)
(* The data side of core_region.sv: the load/store unit, the demultiplexer *)
(* that sends an access to the data RAM or to the AXI master, the shared   *)
(* RAMs of DataRam.tla, and what surrounds them: an EX stage that offers   *)
(* memory accesses in program order, the WB stage that takes the result of *)
(* a load, the other master of the RAM and the peripherals behind AXI.     *)
(*                                                                         *)
(* One step is one rising edge of clk.  The combinational signals of the   *)
(* cycle are definitions; what the surroundings decide (the other master's *)
(* request, the grant and the answer of AXI, a stall of another EX unit,   *)
(* the next access) is chosen in the step.                                 *)
(***************************************************************************)
EXTENDS LoadStoreUnit, DataRam

CONSTANTS
    Access,      \* the accesses that can enter EX
    OtherAccess, \* the requests of the other master
    AxiWord,     \* the words the peripherals can answer with
    ExStall,     \* whether another unit of EX may stall (a set of Booleans)
    NoAnswer     \* no access of the core is under way on AXI

(* An access as the ID stage issues it: we is a store; spsw writes only    *)
(* the tags (p.spsw); tagWe is the enable of the propagation policy.       *)
AccessType ==
    [we : BOOLEAN, spsw : BOOLEAN, tagWe : BOOLEAN, tag : BOOLEAN,
     word : Int, off : Lane, type : Type, sext : BOOLEAN,
     data : Word, second : BOOLEAN]

ASSUME AccessAssumption ==
    /\ NoAccess \notin AccessType
    /\ Access \subseteq AccessType
    /\ \A a \in Access :
          /\ ~a.second /\ ~(a.we /\ a.spsw)
          /\ CrossesWord(a.type, a.off) => (a.word \in RamWord <=> a.word + 1 \in RamWord)

ASSUME SurroundingsAssumption ==
    /\ OtherAccess \subseteq Request
    /\ AxiWord \subseteq Word /\ NoAnswer \notin Word
    /\ ExStall \subseteq BOOLEAN

VARIABLES
    ex,             \* the access in EX
    wb,             \* the load in WB: none, the first part of one, or a whole one
    memory_set,     \* memory_set_o_tag of the ID/EX registers
    lsu_resp_CS,    \* which memory answers
    axi,            \* the answer that is on its way from AXI
    first,          \* history: what memory held when a first part was granted
    want,           \* history: what the last granted load has to return
    goldMem,        \* history: the RAM, written byte by byte
    goldTags        \* history: its tags, likewise

stageVars == <<ex, wb, memory_set, lsu_resp_CS, axi>>
history == <<first, want, goldMem, goldTags>>
vars == <<lsuVars, ramVars, stageVars, history>>

ZeroWord == [l \in Lane |-> 0]

(* The history variables when no load has been granted. *)
nothing == [first |-> [word |-> 0, data |-> ZeroWord, tags |-> {}],
            want  |-> [data |-> ZeroWord, tag |-> FALSE]]

Init ==
    /\ LsuInit
    /\ RamInit
    /\ ex = NoAccess
    /\ wb = "none"
    /\ memory_set = FALSE
    /\ lsu_resp_CS = "RAM"
    /\ axi = NoAnswer
    /\ first = nothing.first
    /\ want = nothing.want
    /\ goldMem = mem
    /\ goldTags = tagmem

-----------------------------------------------------------------------------
(* The combinational signals of one cycle. *)

IsAxiAddr == ex # NoAccess /\ ex.word \notin RamWord

IsLoad == ex # NoAccess /\ ~ex.we /\ ~ex.spsw

core_lsu_rvalid(axiAnswers) == port1_rvalid \/ axiAnswers

(* core_data_req and the signals that go with it *)
CoreDataReq(rvalid) ==
    IF Requests(ex, rvalid) /\ ~IsAxiAddr
    THEN [word |-> ex.word, we |-> ex.we,
          be |-> ByteEnable(ex.type, ex.off, ex.second),
          wdata |-> Rotate(ex.data, ex.off)]
    ELSE NoRequest

core_lsu_gnt(port0, axiGrants, rvalid) ==
    IF IsAxiAddr THEN axiGrants /\ Requests(ex, rvalid)
                 ELSE Port1Grant(port0, CoreDataReq(rvalid))

core_lsu_rdata == IF lsu_resp_CS = "AXI" THEN axi ELSE rdata_o
core_lsu_rdata_tag == IF lsu_resp_CS = "AXI" THEN {} ELSE rdata_o_tag

(* data_we_ex_o_tag and data_wdata_ex_o_tag of the EX stage *)
WeTag == memory_set \/ (ex # NoAccess /\ ex.we /\ ex.tagWe)
WdataTag == memory_set \/ (ex # NoAccess /\ ex.tag)

ExValid(gnt, rvalid, stall) == ~stall /\ ReadyEx(ex, gnt, rvalid) /\ ReadyWb(rvalid)

-----------------------------------------------------------------------------
(* The pipeline registers around the unit. *)

(* A branch in EX makes room without ex_valid: an empty EX can always be   *)
(* filled.  memory_set keeps its value over a multiply and latches what is *)
(* decoded from a squashed instruction: in a bubble it may be anything.    *)
Issue ==
    \E a \in Access \cup {NoAccess} :
        /\ ex' = a
        /\ IF a # NoAccess THEN memory_set' = a.spsw ELSE memory_set' \in BOOLEAN

(* Mutant: the second part starts at the address of the first. *)
SecondPartSameWord(a) == {[a EXCEPT !.second = TRUE]}

(* The second part is at the next word.  The tags of its operands are the  *)
(* tag just propagated and that of an immediate: a policy that joins with  *)
(* OR keeps the tag of the data, AND loses it.                             *)
SecondPart(a) ==
    {[a EXCEPT !.second = TRUE, !.word = @ + 1, !.tag = tag] : tag \in {a.tag, FALSE}}

(* The ID/EX registers: the second part follows the first in EX. *)
StepEx(exValid) ==
    \/ /\ exValid /\ Misaligned(ex)
       /\ ex' \in SecondPart(ex)
       /\ UNCHANGED memory_set
    \/ /\ exValid \/ ex = NoAccess
       /\ ~Misaligned(ex)
       /\ Issue
    \/ /\ ~exValid
       /\ UNCHANGED <<ex, memory_set>>

(* The EX/WB registers.  A load in WB is written to the register file in   *)
(* every cycle it waits; only the last write is ever read, because ID is   *)
(* stalled until then, so it is the one that counts here.                  *)
StepWb(exValid, rvalid) ==
    wb' = CASE exValid -> IF ~IsLoad THEN "none" ELSE IF Misaligned(ex) THEN "first" ELSE "load"
            [] ~exValid /\ ReadyWb(rvalid) -> "none"
            [] OTHER -> wb

(* Mutant: the response register follows grants, not requests. *)
RouteLate(gnt, rvalid) == lsu_resp_CS' = IF gnt /\ ~IsAxiAddr THEN "RAM" ELSE lsu_resp_CS

(* The demultiplexer remembers where the last request went. *)
Route(gnt, rvalid) ==
    lsu_resp_CS' = IF Requests(ex, rvalid) THEN IF IsAxiAddr THEN "AXI" ELSE "RAM"
                                           ELSE lsu_resp_CS

(* The AXI side: one access at a time, answered in a later cycle. *)
StepAxi(gnt, axiAnswers) ==
    IF IsAxiAddr /\ gnt THEN axi' \in AxiWord
                        ELSE axi' = IF axiAnswers THEN NoAnswer ELSE axi

(* History: byte by byte, what this cycle's grant has to read and write:   *)
(* the second part of an access is in the word after the first.            *)
Observe(port0, gnt) ==
    LET word == IF ex.second THEN first.word + 1 ELSE ex.word
        now == IF word \in RamWord
               THEN [word |-> word, data |-> mem[word], tags |-> tagmem[word]]
               ELSE [word |-> word, data |-> axi', tags |-> {}]
        before == IF ex.second THEN first ELSE now
        lanes == StoredLanes(ex.type, ex.off, ex.second)
        writes == gnt /\ word \in RamWord
    IN /\ first' = IF gnt THEN IF Misaligned(ex) THEN now ELSE nothing.first
                          ELSE first
       /\ want' = IF gnt
                  THEN IF IsLoad /\ ~Misaligned(ex)
                       THEN [data |-> LoadedWord(ex.type, ex.off, ex.sext, before.data, now.data),
                             tag  |-> LoadedTag(ex.type, ex.off, before.tags, now.tags)]
                       ELSE nothing.want
                  ELSE want
       /\ goldMem' =
              IF port0 # NoRequest /\ port0.we
              THEN [goldMem EXCEPT ![port0.word] =
                       [l \in Lane |-> IF l \in port0.be THEN port0.wdata[l] ELSE @[l]]]
              ELSE IF writes /\ ex.we
              THEN [goldMem EXCEPT ![word] =
                       StoredWord(ex.type, ex.off, ex.second, ex.data, @)]
              ELSE goldMem
       /\ goldTags' =
              IF writes /\ (ex.spsw \/ (ex.we /\ ex.tagWe))
              THEN [goldTags EXCEPT ![word] =
                       IF ex.spsw \/ ex.tag THEN @ \cup lanes ELSE @ \ lanes]
              ELSE goldTags

(* One clock edge. *)
Clock(port0, axiGrants, axiAnswers, stall) ==
    LET rvalid  == core_lsu_rvalid(axiAnswers)
        gnt     == core_lsu_gnt(port0, axiGrants, rvalid)
        exValid == ExValid(gnt, rvalid, stall)
    IN /\ axiAnswers => axi # NoAnswer
       /\ StepAxi(gnt, axiAnswers)
       /\ LsuClock(ex, gnt, rvalid, core_lsu_rdata, gnt /\ ~IsAxiAddr, WeTag,
                   port1_rvalid, core_lsu_rdata_tag, exValid)
       /\ RamClock(port0, CoreDataReq(rvalid), WeTag, WdataTag)
       /\ Route(gnt, rvalid)
       /\ StepWb(exValid, rvalid)
       /\ Observe(port0, gnt)
       /\ StepEx(exValid)

Next ==
    \E port0 \in OtherAccess \cup {NoRequest}, axiGrants, axiAnswers \in BOOLEAN, stall \in ExStall :
        Clock(port0, axiGrants, axiAnswers, stall)

(* The surroundings: there is always a later cycle in which the other      *)
(* master leaves the RAM idle, one in which AXI grants, and, while an      *)
(* access is on its way there, one in which AXI answers.                   *)
QuietCycle == \E g, a \in BOOLEAN, s \in ExStall : Clock(NoRequest, g, a, s)
AxiGrantCycle ==
    \E p \in OtherAccess \cup {NoRequest}, a \in BOOLEAN, s \in ExStall : Clock(p, TRUE, a, s)
AxiAnswerCycle ==
    \E p \in OtherAccess \cup {NoRequest}, g \in BOOLEAN, s \in ExStall : Clock(p, g, TRUE, s)

Fairness ==
    /\ WF_vars(QuietCycle)
    /\ WF_vars(AxiGrantCycle)
    /\ WF_vars(AxiAnswerCycle)

Spec == Init /\ [][Next]_vars
FairSpec == Spec /\ Fairness

-----------------------------------------------------------------------------
(* Types. *)
TypeOK ==
    /\ CS \in States
    /\ req_q \in [type : Type, off : Lane, sext : BOOLEAN, we : BOOLEAN]
    /\ req_q_tag \in [type : Type, off : 0 .. 7, we : BOOLEAN]
    /\ rdata_q \in Word
    /\ rdata_q_tag \in SUBSET Lane
    /\ mem \in [RamWord -> Word]
    /\ rdata_o \in Word
    /\ tagmem \in [RamWord -> SUBSET Lane]
    /\ rdata_o_tag \in SUBSET Lane
    /\ port1_rvalid \in BOOLEAN
    /\ ex \in AccessType \cup {NoAccess}
    /\ wb \in {"none", "first", "load"}
    /\ memory_set \in BOOLEAN
    /\ lsu_resp_CS \in {"AXI", "RAM"}
    /\ axi \in Word \cup {NoAnswer}

(* The three handshake assertions at the end of load_store_unit.sv (their  *)
(* text is in the .bak copy, riscv.patch:22199), as one statement: an      *)
(* access is under way, in exactly one memory and in the one the response  *)
(* multiplexer listens to, if and only if the controller waits for its     *)
(* answer.                                                                 *)
AnswersAreAwaited ==
    /\ (port1_rvalid \/ axi # NoAnswer) <=> CS \in {"WAIT_RVALID", "WAIT_RVALID_EX_STALL"}
    /\ port1_rvalid => axi = NoAnswer /\ lsu_resp_CS = "RAM"
    /\ axi # NoAnswer => lsu_resp_CS = "AXI"

(* The value WB writes for a load is the bytes its address range held when *)
(* its parts were granted, extended as the instruction asks: no answer is  *)
(* taken for another access, across misaligned pairs and the other master. *)
LoadsReturnMemory ==
    wb = "load" => RegisterData(CS = "WAIT_RVALID", core_lsu_rdata) = want.data

(* Stores change the bytes of their address range, in program order, and   *)
(* no others, whatever the other master does in between.                   *)
StoresWriteTheirBytes == mem = goldMem

(* The tag WB sees for a load is the OR of the tags of the loaded bytes    *)
(* (data_rdata_ex_o_tag, the requested tag); AXI has no tags.              *)
LoadsReturnTags ==
    wb = "load" =>
        RegisterTag(CS = "WAIT_RVALID" /\ lsu_resp_CS = "RAM", core_lsu_rdata_tag) = want.tag

(* A tag changes only when the core's store or p.spsw to that byte is      *)
(* granted (M[RS1+offset]: destination tag).                               *)
TagsFollowStores == tagmem = goldTags

(* A waiting request is granted: the other master cannot keep the core     *)
(* out if it leaves idle cycles, and no answer is waited for twice.        *)
RequestsAreGranted == (ex # NoAccess /\ CS = "IDLE") ~> (CS # "IDLE")

(* Once the first part of a misaligned load is done the whole of it        *)
(* reaches WB.                                                             *)
MisalignedLoadsComplete == (wb = "first") ~> (wb = "load")
=============================================================================
