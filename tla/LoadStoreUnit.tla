--------------------------- MODULE LoadStoreUnit ---------------------------
(***************************************************************************)
(* The clocked part of the load/store unit: the four-state controller, the *)
(* registers that remember the granted access, and rdata_q, which holds    *)
(* the first word of a misaligned access and the last result.              *)
(*                                                                         *)
(* Its text is that of load_store_unit.sv.bak (riscv.patch:21586), the     *)
(* only copy of the lines the patch leaves as they are in the file built;  *)
(* the tag registers are in the hunks of that file (riscv.patch:21207).    *)
(*                                                                         *)
(* The unit sits between an EX stage, which offers an access in `ex', and  *)
(* a memory that grants (data_gnt_i) and answers (data_rvalid_i).  Both    *)
(* inputs are parameters here; CoreRegion.tla connects them.               *)
(***************************************************************************)
EXTENDS LsuAlign

CONSTANT NoAccess   \* EX holds no memory access

VARIABLES
    CS,            \* controller state
    req_q,         \* data_type_q, rdata_offset_q, data_sign_ext_q, data_we_q
    rdata_q,
    req_q_tag,     \* data_type_q_tag, rdata_offset_q_tag, data_we_q_tag
    rdata_q_tag

lsuVars == <<CS, req_q, rdata_q, req_q_tag, rdata_q_tag>>

States == {"IDLE", "WAIT_RVALID", "WAIT_RVALID_EX_STALL", "IDLE_EX_STALL"}

LsuInit ==
    /\ CS = "IDLE"
    /\ req_q = [type |-> "word", off |-> 0, sext |-> FALSE, we |-> FALSE]
    /\ rdata_q = [l \in Lane |-> 0]
    /\ req_q_tag = [type |-> "word", off |-> 0, we |-> FALSE]
    /\ rdata_q_tag = {}

(* data_misaligned_o *)
Misaligned(ex) == ex # NoAccess /\ ~ex.second /\ CrossesWord(ex.type, ex.off)

(* Mutant: a request refused in WAIT_RVALID is not repeated from IDLE. *)
RequestsAfterAnswer(ex, rvalid) == ex # NoAccess /\ CS = "WAIT_RVALID" /\ rvalid

(* data_req_o *)
Requests(ex, rvalid) ==
    /\ ex # NoAccess
    /\ CS = "IDLE" \/ (CS = "WAIT_RVALID" /\ rvalid)

(* Mutant: a new access may leave EX before the old one was answered. *)
ReadyWbAlways(rvalid) == TRUE

ReadyWb(rvalid) == CS = "WAIT_RVALID" => rvalid

ReadyEx(ex, gnt, rvalid) == Requests(ex, rvalid) => gnt

(* A grant takes the access out of EX, or leaves it there if EX stalls. *)
TakeGrant(gnt, exValid) ==
    /\ gnt
    /\ CS' = IF exValid THEN "WAIT_RVALID" ELSE "WAIT_RVALID_EX_STALL"

(* Mutant: the state is kept when the answer comes and nothing is granted. *)
TakeAnswerStays(gnt, rvalid) == CS = "WAIT_RVALID" /\ rvalid /\ ~gnt /\ CS' = CS

(* WAIT_RVALID is left by the answer: no new request, or one not granted. *)
TakeAnswer(gnt, rvalid) == CS = "WAIT_RVALID" /\ rvalid /\ ~gnt /\ CS' = "IDLE"

(* Mutant: the answer is waited for once more when EX is released. *)
AnswerInStallWaits(rvalid, exValid) ==
    /\ CS = "WAIT_RVALID_EX_STALL"
    /\ rvalid
    /\ CS' = IF exValid THEN "WAIT_RVALID" ELSE "IDLE_EX_STALL"

(* The answer arrives while EX is stalled or has just been released. *)
AnswerInStall(rvalid, exValid) ==
    /\ CS = "WAIT_RVALID_EX_STALL"
    /\ rvalid
    /\ CS' = IF exValid THEN "IDLE" ELSE "IDLE_EX_STALL"

(* EX is released before the answer, or after it. *)
LeaveStall(rvalid, exValid) ==
    /\ exValid
    /\ \/ CS = "WAIT_RVALID_EX_STALL" /\ ~rvalid /\ CS' = "WAIT_RVALID"
       \/ CS = "IDLE_EX_STALL" /\ CS' = "IDLE"

(* No condition of the FSM holds in this cycle. *)
StayPut(gnt, rvalid, exValid) ==
    /\ \/ CS = "IDLE" /\ ~gnt
       \/ CS = "WAIT_RVALID" /\ ~rvalid
       \/ CS = "WAIT_RVALID_EX_STALL" /\ ~rvalid /\ ~exValid
       \/ CS = "IDLE_EX_STALL" /\ ~exValid
    /\ CS' = CS

(* NS: data_gnt_i answers data_req_o, so it is never seen in another state. *)
Fsm(gnt, rvalid, exValid) ==
    \/ TakeGrant(gnt, exValid)
    \/ TakeAnswer(gnt, rvalid)
    \/ AnswerInStall(rvalid, exValid)
    \/ LeaveStall(rvalid, exValid)
    \/ StayPut(gnt, rvalid, exValid)

(* data_rdata_ex_o *)
RegisterData(rvalid, rdata) == IF rvalid THEN Extend(req_q, rdata_q, rdata) ELSE rdata_q

(* data_rdata_ex_o_tag: the OR of the selected bits; rdata_q_tag has only  *)
(* room for that OR in its bit 0, which is what the one-bit output shows.  *)
RegisterTag(rvalidTag, tags) ==
    IF rvalidTag THEN ExtendTag(req_q_tag, rdata_q_tag, tags) # {} ELSE 0 \in rdata_q_tag

(* The request registers: loaded by a grant. *)
LatchRequest(ex, gnt) ==
    req_q' = IF gnt THEN [type |-> ex.type, off |-> ex.off, sext |-> ex.sext, we |-> ex.we]
                    ELSE req_q

LatchRequestTag(ex, gntTag, weTag) ==
    req_q_tag' = IF gntTag THEN [type |-> ex.type, off |-> ex.off + 4 * (ex.word % 2),
                                 we |-> weTag]
                           ELSE req_q_tag

(* Mutant: the raw word is kept only while the first part is in EX. *)
HoldDataFirstOnly(ex, rvalid, rdata) ==
    rdata_q' = IF ~rvalid \/ req_q.we THEN rdata_q
               ELSE IF Misaligned(ex) THEN rdata ELSE Extend(req_q, rdata_q, rdata)

(* Mutant: the raw word is kept always. *)
HoldDataRaw(ex, rvalid, rdata) ==
    rdata_q' = IF ~rvalid \/ req_q.we THEN rdata_q ELSE rdata

(* While one part of a misaligned access is in EX the raw word is kept,    *)
(* otherwise the value that goes to the register file.                     *)
HoldData(ex, rvalid, rdata) ==
    rdata_q' = IF ~rvalid \/ req_q.we THEN rdata_q
               ELSE IF Misaligned(ex) \/ (ex # NoAccess /\ ex.second) THEN rdata
               ELSE Extend(req_q, rdata_q, rdata)

(* A reduction OR is stored: its bit 0 only. *)
HoldTag(ex, rvalidTag, tags) ==
    LET kept == IF Misaligned(ex) \/ (ex # NoAccess /\ ex.second) THEN tags
                ELSE ExtendTag(req_q_tag, rdata_q_tag, tags)
    IN rdata_q_tag' = IF ~rvalidTag \/ req_q_tag.we THEN rdata_q_tag
                      ELSE IF kept \cap Lane # {} THEN {0} ELSE {}

(* One clock edge of the unit. *)
LsuClock(ex, gnt, rvalid, rdata, gntTag, weTag, rvalidTag, tags, exValid) ==
    /\ Fsm(gnt, rvalid, exValid)
    /\ LatchRequest(ex, gnt)
    /\ HoldData(ex, rvalid, rdata)
    /\ LatchRequestTag(ex, gntTag, weTag)
    /\ HoldTag(ex, rvalidTag, tags)
=============================================================================
