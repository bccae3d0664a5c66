------------------------------ MODULE DataRam ------------------------------
(***************************************************************************)
(* ram_mux.sv and sp_ram_wrap.sv as core_region.sv connects them: two     *)
(* masters share a single-port data RAM with a one-cycle read, and a tag   *)
(* RAM of one bit per byte sits beside it.                                 *)
(*                                                                         *)
(* The SoC sets AXI_DATA_WIDTH to 32, so ram_mux passes both ports through *)
(* (the size adaptation is not generated).  Port 0 (AXI: debug unit, SPI   *)
(* slave) has priority over port 1 (the core).                             *)
(*                                                                         *)
(* en, address, byte enables and data of both RAMs come from the selected  *)
(* port, but the tag RAM's write enable and tag come from the core alone.  *)
(***************************************************************************)
EXTENDS LsuAlign

CONSTANTS
    RamWord,     \* the word addresses of the data RAM
    NoRequest    \* the port is idle

(* What a port asks for. *)
Request == [word : RamWord, we : BOOLEAN, be : SUBSET Lane, wdata : Word]

ASSUME RequestAssumption == NoRequest \notin Request

VARIABLES
    mem,             \* data RAM: word address -> word
    rdata_o,         \* its output register
    tagmem,          \* tag RAM: word address -> tagged lanes
    rdata_o_tag,     \* its output register
    port1_rvalid     \* port1_rvalid_o

ramVars == <<mem, rdata_o, tagmem, rdata_o_tag, port1_rvalid>>

RamInit ==
    /\ mem = [w \in RamWord |-> [l \in Lane |-> 0]]
    /\ rdata_o = [l \in Lane |-> 0]
    /\ tagmem = [w \in RamWord |-> {}]
    /\ rdata_o_tag = {}
    /\ port1_rvalid = FALSE

(* port1_gnt_o *)
Port1Grant(port0, port1) == port1 # NoRequest /\ port0 = NoRequest

(* The port whose signals reach the RAMs. *)
Selected(port0, port1) == IF port0 # NoRequest THEN port0 ELSE port1

(* The enabled lanes take the new bytes. *)
WriteLanes(old, be, new) == [l \in Lane |-> IF l \in be THEN new[l] ELSE old[l]]

(* The data RAM: a write of the enabled lanes, a read of the old word.     *)
(* (sp_ram reads in every cycle; without en the output is never looked at.) *)
DataRamClock(sel) ==
    IF sel = NoRequest
    THEN UNCHANGED <<mem, rdata_o>>
    ELSE /\ rdata_o' = mem[sel.word]
         /\ mem' = IF sel.we
                   THEN [mem EXCEPT ![sel.word] = WriteLanes(@, sel.be, sel.wdata)]
                   ELSE mem

(* Mutant: the tag write ignores the byte enables. *)
TagRamClockAllLanes(sel, weTag, wdataTag) ==
    IF sel = NoRequest
    THEN UNCHANGED <<tagmem, rdata_o_tag>>
    ELSE IF weTag
    THEN /\ tagmem' = [tagmem EXCEPT ![sel.word] = IF wdataTag THEN Lane ELSE {}]
         /\ UNCHANGED rdata_o_tag
    ELSE /\ rdata_o_tag' = tagmem[sel.word]
         /\ UNCHANGED tagmem

(* The tag RAM: every enabled lane gets the one tag of the core, and the   *)
(* read port is closed in a cycle with a tag write (read_en).              *)
TagRamClock(sel, weTag, wdataTag) ==
    IF sel = NoRequest
    THEN UNCHANGED <<tagmem, rdata_o_tag>>
    ELSE IF weTag
    THEN /\ tagmem' = [tagmem EXCEPT ![sel.word] =
                           IF wdataTag THEN @ \cup sel.be ELSE @ \ sel.be]
         /\ UNCHANGED rdata_o_tag
    ELSE /\ rdata_o_tag' = tagmem[sel.word]
         /\ UNCHANGED tagmem

RamClock(port0, port1, weTag, wdataTag) ==
    /\ DataRamClock(Selected(port0, port1))
    /\ TagRamClock(Selected(port0, port1), weTag, wdataTag)
    /\ port1_rvalid' = Port1Grant(port0, port1)
=============================================================================
