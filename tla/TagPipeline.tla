---------------------------- MODULE TagPipeline ----------------------------
(***************************************************************************)
(* The tags on their way through the pipeline: the ID stage with its       *)
(* forwarding multiplexers, the tag half of the ID/EX registers, the EX    *)
(* and WB stages, the register file of tags and the hierarchy register     *)
(* THR of the control and status registers.                                *)
(*                                                                         *)
(* One step is one rising edge of clk.  The program, the memory's grants   *)
(* and answers, the outcome of branches and the fetch are chosen by the    *)
(* step.  The core's main controller and forwarding control are not in     *)
(* the repository; they are modelled from how id_stage.sv uses them.       *)
(***************************************************************************)
EXTENDS TagUnits, FiniteSets

CONSTANTS
    Instr,      \* the instructions of the program
    MayFollow,  \* pairs of instructions that may follow each other in the IF/ID register
    Bubble      \* no instruction

ASSUME ProgramAssumption ==
    /\ Instr \subseteq InstrType
    /\ MayFollow \subseteq Instr \X Instr
    /\ Bubble \notin InstrType

VARIABLES
    id,          \* IF/ID register: the instruction word and instr_valid_id
    ex,          \* what the data half of ID/EX carries: an instruction or a bubble
    t,           \* the tag half of ID/EX
    wb,          \* the access in WB, or a bubble
    rs1_tag,     \* rs1_o_tag
    rdata_tag,   \* rdata_q_tag of the load/store unit
    rf_reg,      \* the register file of tags
    thr,         \* THR: the current level and the buffered one
    gold,        \* history: tags and THR of the instructions done so far
    blame        \* history: what the policies say of the instruction in EX and in WB

vars == <<id, ex, t, wb, rs1_tag, rdata_tag, rf_reg, thr, gold, blame>>

nop == [op |-> "branch", rd |-> 0, rs1 |-> 0, rs2 |-> 0, level |-> 0, mtag |-> FALSE]

Init ==
    /\ id = [instr |-> nop, valid |-> FALSE]
    /\ ex = Bubble
    /\ t = [mode |-> "OLD", a |-> FALSE, b |-> FALSE, checks |-> {}, set |-> FALSE,
            hier |-> FALSE, waddr |-> 0, use_store_ops |-> FALSE, dest_addr |-> FALSE,
            source |-> FALSE, thr_set |-> FALSE, thr_apply |-> FALSE, level |-> 0]
    /\ wb = Bubble
    /\ rs1_tag = FALSE
    /\ rdata_tag = FALSE
    /\ rf_reg = [r \in Reg |-> FALSE]
    /\ thr = [current |-> 3, buffer |-> 3]
    /\ gold = [tags |-> rf_reg, thr |-> thr]
    /\ blame = [ex |-> FALSE, wb |-> FALSE]

-----------------------------------------------------------------------------
(* What an instruction does to the tags, by the policies alone. *)

TagOf(tags, r) == r # 0 /\ tags[r]
Put(tags, r, tag) == [q \in Reg |-> IF q = r THEN tag ELSE tags[q]]

(* The operands of a store pass the enable bits of the TPR. *)
IsaResult(tags, i) ==
    LET a == TagOf(tags, i.rs1)  b == TagOf(tags, i.rs2)
    IN IF i.op = "store"
       THEN Propagate(AluMode(i.op), a /\ TPR.EN_DEST_ADDR, b /\ TPR.EN_SOURCE)
       ELSE Propagate(AluMode(i.op), a, b)

(* p.set marks its register; a link register holds an address, unmarked;   *)
(* p.hmark writes all three bits of the tag, the level and no mark.        *)
IsaTags(tags, i) ==
    CASE i.op = "p.set" -> Put(tags, i.rd, TRUE)
      [] i.op \in {"jal", "p.hmark"} -> Put(tags, i.rd, FALSE)
      [] i.op = "load"  -> IF LoadWrites
                           THEN Put(tags, i.rd, LoadResult(TagOf(tags, i.rs1), i.mtag)) ELSE tags
      [] OTHER          -> IF AluWrites(i.op) /\ AluMode(i.op) # "OLD"
                           THEN Put(tags, i.rd, IsaResult(tags, i)) ELSE tags

IsaViolates(tags, i) ==
    IF i.op = "load" THEN LoadCheckFails(TagOf(tags, i.rs1), i.mtag)
    ELSE CheckFails(Checks(i.op), TagOf(tags, i.rs1), TagOf(tags, i.rs2), IsaResult(tags, i))

(* p.hset buffers a level, which the next jal makes the current one. *)
IsaThr(h, i) ==
    CASE i.op = "p.hset" -> [h EXCEPT !.buffer = i.level]
      [] i.op = "jal"    -> [h EXCEPT !.current = h.buffer]
      [] OTHER           -> h

-----------------------------------------------------------------------------
(* The combinational signals of one cycle. *)

WbLoads == wb # Bubble /\ wb.op = "load"
ExLoads == ex # Bubble /\ ex.op = "load"
ExBranches == ex # Bubble /\ ex.op = "branch"

(* regfile_wdata_wb_i_tag: the load/store unit shows its register until    *)
(* the memory answers.                                                     *)
WbTag(answer) == IF answer /\ WbLoads THEN wb.mtag ELSE rdata_tag

WbReady(answer) == wb # Bubble => answer
ExValid(done, answer) == done /\ WbReady(answer)
ExReady(done, answer) == ExValid(done, answer) \/ ExBranches

(* The ports of EX towards the register file of tags. *)
alu_result_tag == Propagate(t.mode, t.a, t.b)
fw_tag == IF t.set THEN ~t.hier ELSE alu_result_tag

(* Mutant: the write enable does not look at what EX carries. *)
fw_we_ungated == t.set \/ t.mode # "OLD"

fw_we == t.set \/ (t.mode # "OLD" /\ ex # Bubble /\ AluWrites(ex.op))

(* Mutant: a store is checked behind the enable bits of the propagation. *)
ExExceptionEnabled ==
    ~ExLoads /\ CheckFails(t.checks, t.a, t.b, alu_result_tag)

(* exception_o_tag *)
ExException ==
    /\ ~ExLoads
    /\ CheckFails(t.checks, IF t.use_store_ops THEN t.dest_addr ELSE t.a,
                  IF t.use_store_ops THEN t.source ELSE t.b, alu_result_tag)

(* exception_i_tag: load_check, without its hierarchy half (TagUnits). *)
LoadException(answer) == WbLoads /\ LoadCheckFails(rs1_tag, WbTag(answer))

(* illegal_insn_dec_dift *)
Illegal(answer) ==
    \/ ExException
    \/ LoadException(answer)
    \/ HierarchyViolation(id.instr, thr.current)

(* Mutant: WB is forwarded before EX. *)
ReadTagWbFirst(r, answer) ==
    IF r = 0 THEN FALSE
    ELSE IF WbLoads /\ wb.rd = r THEN WbTag(answer)
    ELSE IF ex # Bubble /\ AluWrites(ex.op) /\ ex.rd = r THEN fw_tag
    ELSE rf_reg[r]

(* The forwarding multiplexers: the youngest writer of the data register.  *)
ReadTag(r, answer) ==
    IF r = 0 THEN FALSE
    ELSE IF ex # Bubble /\ AluWrites(ex.op) /\ ex.rd = r THEN fw_tag
    ELSE IF WbLoads /\ wb.rd = r THEN WbTag(answer)
    ELSE rf_reg[r]

(* load_stall: the result of a load is needed before memory has answered.  *)
LoadStall(answer) ==
    \/ ExLoads /\ ex.rd \in {id.instr.rs1, id.instr.rs2} \ {0}
    \/ WbLoads /\ ~answer /\ wb.rd \in {id.instr.rs1, id.instr.rs2} \ {0}

IdReady(done, answer) == ~LoadStall(answer) /\ ExReady(done, answer)

-----------------------------------------------------------------------------
(* The registers. *)

(* What the ID stage offers to the tag half of ID/EX.  Nothing in it looks *)
(* at whether the instruction is valid.                                    *)
Latch(i, answer) ==
    LET store == i.op = "store"
        a == ReadTag(i.rs1, answer)
        b == ReadTag(i.rs2, answer)
    IN [mode |-> AluMode(i.op),
        a |-> IF store THEN a /\ TPR.EN_DEST_ADDR ELSE a,
        b |-> IF store THEN b /\ TPR.EN_SOURCE ELSE b,
        checks |-> Checks(i.op), set |-> RegisterSet(i.op),
        hier |-> RegisterSetHierarchy(i.op), waddr |-> t.waddr,
        use_store_ops |-> store, dest_addr |-> store /\ a, source |-> store /\ b,
        thr_set |-> i.op = "p.hset", thr_apply |-> i.op = "jal", level |-> i.level]

(* ID_EX_PIPE_REGISTERS_TAG: a multiply loads nothing but the register     *)
(* number, which is loaded for a valid ALU result or a register set.  This *)
(* holds of a killed multiply too: the decoder sets mult_int_en_o itself   *)
(* (riscv.patch:876), past the signals that deassert_we_i gates (1070).    *)
StepTags(idValid, decoding, answer) ==
    LET i == id.instr
        latched == IF i.op = "mul" THEN t ELSE Latch(i, answer)
        writes == (decoding /\ AluWrites(i.op)) \/ RegisterSet(i.op)
    IN t' = IF ~idValid THEN t
            ELSE IF writes THEN [latched EXCEPT !.waddr = i.rd]
            ELSE latched

(* The data half, and the history of what enters it. *)
StepEx(idValid, decoding, done, answer) ==
    LET executes == idValid /\ decoding
        i == id.instr
    IN /\ ex' = IF executes THEN i
                ELSE IF idValid \/ ExReady(done, answer) THEN Bubble ELSE ex
       /\ gold' = IF executes THEN [tags |-> IsaTags(gold.tags, i), thr |-> IsaThr(gold.thr, i)]
                              ELSE gold
       /\ blame' = [ex |-> IF executes THEN IsaViolates(gold.tags, i)
                           ELSE ex' # Bubble /\ blame.ex,
                    wb |-> IF ExValid(done, answer) THEN ExLoads /\ blame.ex
                           ELSE wb' # Bubble /\ blame.wb]

(* Mutant: whatever leaves EX enters WB. *)
StepWbAny(done, answer) ==
    /\ wb' = IF ExValid(done, answer) THEN ex ELSE IF WbReady(answer) THEN Bubble ELSE wb
    /\ rs1_tag' = IF ExValid(done, answer) /\ ExLoads THEN t.a ELSE rs1_tag
    /\ rdata_tag' \in IF answer /\ ~WbLoads THEN BOOLEAN ELSE {WbTag(answer)}

(* Mutant: the address tag moves on while the load before still waits. *)
StepWbUngated(done, answer) ==
    /\ wb' = IF ExValid(done, answer)
             THEN IF ex # Bubble /\ ex.op \in {"load", "store"} THEN ex ELSE Bubble
             ELSE IF WbReady(answer) THEN Bubble ELSE wb
    /\ rs1_tag' = IF ExLoads THEN t.a ELSE rs1_tag
    /\ rdata_tag' \in IF answer /\ ~WbLoads THEN BOOLEAN ELSE {WbTag(answer)}

(* EX/WB, with rs1_o_tag, and the load/store unit's tag register, where a  *)
(* store that writes no tag may leave the tag of its address.              *)
StepWb(done, answer) ==
    /\ wb' = IF ExValid(done, answer)
             THEN IF ex # Bubble /\ ex.op \in {"load", "store"} THEN ex ELSE Bubble
             ELSE IF WbReady(answer) THEN Bubble ELSE wb
    /\ rs1_tag' = IF ExValid(done, answer) /\ ExLoads THEN t.a ELSE rs1_tag
    /\ rdata_tag' \in IF answer /\ ~WbLoads THEN BOOLEAN ELSE {WbTag(answer)}

(* The register file: port b, of EX, wins over port a, of WB. *)
WriteTags(answer) ==
    rf_reg' = [r \in Reg |-> IF fw_we /\ r = t.waddr THEN fw_tag
                             ELSE IF WbLoads /\ LoadWrites /\ r = wb.rd
                             THEN LoadResult(rs1_tag, WbTag(answer))
                             ELSE rf_reg[r]]

(* Mutant: the buffered level is applied when it is set. *)
StepThrAtOnce == thr' = IF t.thr_set THEN [current |-> t.level, buffer |-> t.level] ELSE thr

(* THR *)
StepThr ==
    LET buffer == IF t.thr_set THEN t.level ELSE thr.buffer
    IN thr' = [current |-> IF t.thr_apply THEN buffer ELSE thr.current, buffer |-> buffer]

(* Mutant: a jump is followed by the next word in the fetch buffer. *)
StepIdNoFlush(leaves, redirected) ==
    IF id.valid /\ ~leaves
    THEN UNCHANGED id
    ELSE \/ id' = [id EXCEPT !.valid = FALSE]
         \/ \E i \in Instr : /\ id.instr = nop \/ <<id.instr, i>> \in MayFollow
                             /\ id' = [instr |-> i, valid |-> TRUE]

(* The IF/ID register keeps the word of an instruction that is done.  A    *)
(* jump, a taken branch and an exception leave ID empty for a cycle.       *)
StepId(leaves, redirected) ==
    IF id.valid /\ ~leaves
    THEN UNCHANGED id
    ELSE \/ id' = [id EXCEPT !.valid = FALSE]
         \/ /\ ~redirected
            /\ \E i \in Instr : /\ id.instr = nop \/ <<id.instr, i>> \in MayFollow
                                /\ id' = [instr |-> i, valid |-> TRUE]

(* One clock edge: done says whether EX has finished, answer whether       *)
(* memory answers the access in WB, taken whether a branch in EX is taken. *)
Clock(done, answer, taken) ==
    LET decoding == id.valid /\ ~taken
        halt     == decoding /\ Illegal(answer)
        idValid  == ~halt /\ IdReady(done, answer)
    IN /\ ~done => ex # Bubble /\ ex.op \in {"load", "store", "mul"}
       /\ answer => wb # Bubble
       /\ taken => ExBranches
       /\ StepTags(idValid, decoding, answer)
       /\ StepWb(done, answer)
       /\ StepEx(idValid, decoding, done, answer)
       /\ WriteTags(answer)
       /\ StepThr
       /\ StepId(halt \/ taken \/ IdReady(done, answer),
              halt \/ taken \/ (id.valid /\ id.instr.op = "jal"))

Next == \E done, answer, taken \in BOOLEAN : Clock(done, answer, taken)

Spec == Init /\ [][Next]_vars

-----------------------------------------------------------------------------
(* Types. *)

TagHalf ==
    [mode : ModeType, a : BOOLEAN, b : BOOLEAN, checks : SUBSET {"S1", "S2", "D"},
     set : BOOLEAN, hier : BOOLEAN, waddr : Reg \cup {0}, use_store_ops : BOOLEAN,
     dest_addr : BOOLEAN, source : BOOLEAN, thr_set : BOOLEAN, thr_apply : BOOLEAN,
     level : Level]

TypeOK ==
    /\ id \in [instr : Instr \cup {nop}, valid : BOOLEAN]
    /\ ex \in Instr \cup {Bubble}
    /\ t \in TagHalf
    /\ wb \in {i \in Instr : i.op \in {"load", "store"}} \cup {Bubble}
    /\ rs1_tag \in BOOLEAN /\ rdata_tag \in BOOLEAN
    /\ rf_reg \in [Reg -> BOOLEAN]
    /\ thr \in [current : Level, buffer : Level]

(* The register file after everything in WB and EX has been written. *)
AfterWb ==
    IF WbLoads /\ LoadWrites THEN Put(rf_reg, wb.rd, LoadResult(rs1_tag, wb.mtag)) ELSE rf_reg
AfterEx ==
    IF fw_we THEN Put(AfterWb, t.waddr, fw_tag)
    ELSE IF ExLoads /\ LoadWrites THEN Put(AfterWb, ex.rd, LoadResult(t.a, ex.mtag))
    ELSE AfterWb

(* The tags in the register file, with those still on their way from EX    *)
(* and WB, are what the instructions executed so far give in program       *)
(* order, whatever was forwarded, stalled, killed or answered late.        *)
TagsFollowProgram == AfterEx = gold.tags

(* The exception output of EX is the verdict of the policies on the        *)
(* instruction that is in EX.                                              *)
ChecksJudgeTheInstruction ==
    ex # Bubble /\ ~ExLoads => (ExException <=> blame.ex)

(* load_check speaks for the load in WB: it raises nothing for a load the  *)
(* policies allow, and with the answer it raises what they forbid.         *)
LoadChecksJudgeTheLoad ==
    \A answer \in BOOLEAN :
        WbLoads => /\ LoadException(answer) => blame.wb
                   /\ answer /\ blame.wb => LoadException(answer)

(* The level in THR is the one the executed p.hset and jal define. *)
AfterThr ==
    LET buffer == IF t.thr_set THEN t.level ELSE thr.buffer
    IN [current |-> IF t.thr_apply THEN buffer ELSE thr.current, buffer |-> buffer]
LevelFollowsProgram == AfterThr = gold.thr

(* A p.hset or p.hmark is checked against the level of the program before  *)
(* it, not against one a jal in the pipeline is about to replace.          *)
LevelIsCurrent == id.valid => thr.current = gold.thr.current
=============================================================================
