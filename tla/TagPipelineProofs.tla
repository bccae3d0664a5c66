------------------------- MODULE TagPipelineProofs -------------------------
(***************************************************************************)
(* Proofs about TagPipeline: for every program, policy and timing the      *)
(* registers keep their types, and under the conditions each theorem names *)
(* the level and the tags follow the program and the checks judge the      *)
(* instruction they are meant for.                                         *)
(***************************************************************************)
EXTENDS TagPrograms, TLAPS

LevelsType == [current : Level, buffer : Level]

(* TypeOK with the types of the history; a valid word is of the program. *)
Typed ==
    /\ TypeOK
    /\ id.valid => id.instr \in Instr
    /\ gold \in [tags : [Reg -> BOOLEAN], thr : LevelsType]
    /\ blame \in [ex : BOOLEAN, wb : BOOLEAN]

-----------------------------------------------------------------------------
(* What the units return. *)

(* The word in ID after reset is a branch. *)
LEMMA NopTyped == nop \in InstrType /\ nop.op = "branch"
BY DEF nop, InstrType, Operation, Level

(* The three decoders return a mode and a set of checks. *)
LEMMA ModeTyped == ASSUME NEW op PROVE AluMode(op) \in ModeType
<1>1. ClassOf(op) \in Class \cup {"none"}
  BY DEF ClassOf, Class
<1>. QED
  BY <1>1, PolicyAssumption DEF AluMode, ModeType

(* The propagation and check units return a bit. *)
LEMMA PropagateTyped ==
    ASSUME NEW mode, NEW a \in BOOLEAN, NEW b \in BOOLEAN
    PROVE  Propagate(mode, a, b) \in BOOLEAN
BY DEF Propagate

LEMMA ChecksTyped == ASSUME NEW op PROVE Checks(op) \in SUBSET {"S1", "S2", "D"}
BY DEF Checks

LEMMA CheckFailsTyped ==
    ASSUME NEW checks, NEW a \in BOOLEAN, NEW b \in BOOLEAN, NEW result \in BOOLEAN
    PROVE  CheckFails(checks, a, b, result) \in BOOLEAN
BY DEF CheckFails

LEMMA LoadResultTyped ==
    ASSUME NEW a \in BOOLEAN, NEW m \in BOOLEAN
    PROVE  LoadResult(a, m) \in BOOLEAN /\ LoadCheckFails(a, m) \in BOOLEAN
<1>1. (a /\ TPR.EN_SOURCE_ADDR) \in BOOLEAN /\ (m /\ TPR.EN_SOURCE) \in BOOLEAN
  OBVIOUS
<1>2. LoadResult(a, m) \in BOOLEAN
  BY <1>1, PropagateTyped DEF LoadResult
<1>. QED
  BY <1>2 DEF LoadCheckFails

LEMMA PutTyped ==
    ASSUME NEW tags \in [Reg -> BOOLEAN], NEW r, NEW tag \in BOOLEAN
    PROVE  Put(tags, r, tag) \in [Reg -> BOOLEAN]
BY DEF Put

(* What the policies make of an instruction is tags, bits and levels. *)
LEMMA IsaTyped ==
    ASSUME NEW tags \in [Reg -> BOOLEAN], NEW i \in InstrType
    PROVE  /\ \A r : TagOf(tags, r) \in BOOLEAN
           /\ IsaResult(tags, i) \in BOOLEAN
           /\ IsaTags(tags, i) \in [Reg -> BOOLEAN]
           /\ IsaViolates(tags, i) \in BOOLEAN
<1>1. \A r : TagOf(tags, r) \in BOOLEAN
  BY DEF TagOf
<1>2. IsaResult(tags, i) \in BOOLEAN
  <2>1. CASE i.op = "store"
    BY <1>1, <2>1, PropagateTyped DEF IsaResult
  <2>2. CASE i.op # "store"
    BY <1>1, <2>2, PropagateTyped DEF IsaResult
  <2>. QED
    BY <2>1, <2>2
<1>3. i.mtag \in BOOLEAN
  BY DEF InstrType
<1>4. LoadResult(TagOf(tags, i.rs1), i.mtag) \in BOOLEAN
  BY <1>1, <1>3, LoadResultTyped
<1>5. IsaTags(tags, i) \in [Reg -> BOOLEAN]
  BY <1>2, <1>4, PutTyped DEF IsaTags
<1>6. IsaViolates(tags, i) \in BOOLEAN
  BY <1>1, <1>2, <1>3, LoadResultTyped, CheckFailsTyped DEF IsaViolates
<1>. QED
  BY <1>1, <1>2, <1>5, <1>6

LEMMA IsaThrTyped ==
    ASSUME NEW h \in LevelsType, NEW i \in InstrType
    PROVE  IsaThr(h, i) \in LevelsType
BY DEF IsaThr, LevelsType, InstrType

-----------------------------------------------------------------------------
(* The signals of one cycle. *)

(* Clock names the first three; an instruction executes when it enters EX. *)
Decoding(taken) == id.valid /\ ~taken
Halts(answer, taken) == Decoding(taken) /\ Illegal(answer)
IdValid(done, answer, taken) == ~Halts(answer, taken) /\ IdReady(done, answer)
Executes(done, answer, taken) == IdValid(done, answer, taken) /\ Decoding(taken)
Leaves(done, answer, taken) == Halts(answer, taken) \/ taken \/ IdReady(done, answer)
Redirected(answer, taken) ==
    Halts(answer, taken) \/ taken \/ (id.valid /\ id.instr.op = "jal")

(* A clock edge with its signals named. *)
LEMMA ClockSteps ==
    ASSUME NEW done, NEW answer, NEW taken, Clock(done, answer, taken)
    PROVE  /\ ~done => ex # Bubble /\ ex.op \in {"load", "store", "mul"}
           /\ answer => wb # Bubble
           /\ taken => ExBranches
           /\ StepTags(IdValid(done, answer, taken), Decoding(taken), answer)
           /\ StepWb(done, answer)
           /\ StepEx(IdValid(done, answer, taken), Decoding(taken), done, answer)
           /\ WriteTags(answer)
           /\ StepThr
           /\ StepId(Leaves(done, answer, taken), Redirected(answer, taken))
BY Zenon DEF Clock, Decoding, Halts, IdValid, Leaves, Redirected

(* What is in ID, EX and WB is an instruction. *)
LEMMA StagesTyped ==
    ASSUME Typed
    PROVE  /\ id.instr \in InstrType
           /\ ex # Bubble => ex \in Instr /\ ex \in InstrType
           /\ wb # Bubble => wb \in Instr /\ wb \in InstrType /\ wb.op \in {"load", "store"}
BY NopTyped, ProgramAssumption DEF Typed, TypeOK, TagHalf

(* The bits that are written and forwarded are Booleans. *)
LEMMA SignalsTyped ==
    ASSUME Typed, NEW answer \in BOOLEAN
    PROVE  /\ alu_result_tag \in BOOLEAN /\ fw_tag \in BOOLEAN
           /\ WbTag(answer) \in BOOLEAN
           /\ \A r \in Reg \cup {0} : ReadTag(r, answer) \in BOOLEAN
<1>1. t.a \in BOOLEAN /\ t.b \in BOOLEAN /\ rdata_tag \in BOOLEAN /\ rf_reg \in [Reg -> BOOLEAN]
  BY DEF Typed, TypeOK, TagHalf
<1>2. alu_result_tag \in BOOLEAN
  BY <1>1, PropagateTyped DEF alu_result_tag
<1>3. fw_tag \in BOOLEAN
  BY <1>2 DEF fw_tag
<1>4. WbTag(answer) \in BOOLEAN
  BY <1>1, StagesTyped DEF WbTag, WbLoads, InstrType
<1>5. \A r \in Reg \cup {0} : ReadTag(r, answer) \in BOOLEAN
  BY <1>1, <1>3, <1>4 DEF ReadTag
<1>. QED
  BY <1>2, <1>3, <1>4, <1>5

-----------------------------------------------------------------------------
(* Types. *)

(* What ID offers to the tag half has the types of the tag half. *)
LEMMA LatchTyped ==
    ASSUME Typed, NEW i \in InstrType, NEW answer \in BOOLEAN
    PROVE  Latch(i, answer) \in TagHalf
<1>1. ReadTag(i.rs1, answer) \in BOOLEAN /\ ReadTag(i.rs2, answer) \in BOOLEAN
  BY SignalsTyped DEF InstrType
<1>2. AluMode(i.op) \in ModeType /\ Checks(i.op) \in SUBSET {"S1", "S2", "D"}
  BY ModeTyped, ChecksTyped
<1>3. RegisterSet(i.op) \in BOOLEAN /\ RegisterSetHierarchy(i.op) \in BOOLEAN
  BY DEF RegisterSet, RegisterSetHierarchy
<1>4. i.level \in Level /\ t.waddr \in Reg \cup {0}
  BY DEF InstrType, Typed, TypeOK, TagHalf
<1>. QED
  BY <1>1, <1>2, <1>3, <1>4 DEF Latch, TagHalf

(* The types hold after reset and at every edge. *)
LEMMA InitTyped == Init => Typed
<1>1. ASSUME Init PROVE Typed
  <2>1. rf_reg \in [Reg -> BOOLEAN] /\ thr \in LevelsType
    BY <1>1 DEF Init, LevelsType, Level
  <2>2. /\ gold \in [tags : [Reg -> BOOLEAN], thr : LevelsType]
        /\ blame \in [ex : BOOLEAN, wb : BOOLEAN]
    BY <1>1, <2>1 DEF Init
  <2>3. t \in TagHalf
    BY <1>1 DEF Init, TagHalf, ModeType, Level
  <2>. QED
    BY <1>1, <2>1, <2>2, <2>3 DEF Init, Typed, TypeOK, TagHalf, LevelsType
<1>. QED
  BY <1>1

LEMMA ClockKeepsTypes ==
    ASSUME Typed,
           NEW done \in BOOLEAN, NEW answer \in BOOLEAN, NEW taken \in BOOLEAN,
           Clock(done, answer, taken)
    PROVE  Typed'
<1>. DEFINE idValid == IdValid(done, answer, taken)
<1>1. /\ id' \in [instr : Instr \cup {nop}, valid : BOOLEAN]
      /\ id'.valid => id'.instr \in Instr
  <2>1. /\ id \in [instr : Instr \cup {nop}, valid : BOOLEAN]
        /\ id.valid => id.instr \in Instr
    BY DEF Typed, TypeOK, TagHalf
  <2>2. \/ id' = id
        \/ id' = [id EXCEPT !.valid = FALSE]
        \/ \E i \in Instr : id' = [instr |-> i, valid |-> TRUE]
    BY ClockSteps, Zenon DEF StepId
  <2>3. CASE id' = [id EXCEPT !.valid = FALSE]
    BY <2>1, <2>3
  <2>4. ASSUME NEW i \in Instr, id' = [instr |-> i, valid |-> TRUE]
        PROVE  /\ id' \in [instr : Instr \cup {nop}, valid : BOOLEAN]
               /\ id'.valid => id'.instr \in Instr
    BY <2>4
  <2>. QED
    BY <2>1, <2>2, <2>3, <2>4
<1>2. id.instr \in Instr \cup {nop} /\ id.instr \in InstrType
  BY StagesTyped DEF Typed, TypeOK, TagHalf
<1>3. ex' \in Instr \cup {Bubble}
  <2>1. idValid /\ Decoding(taken) => id.instr \in Instr
    BY DEF Decoding, Typed
  <2>. QED
    BY <2>1, ClockSteps DEF StepEx, Typed, TypeOK, TagHalf
<1>4. t' \in TagHalf
  <2>1. id.instr.rd \in Reg \cup {0}
    BY <1>2 DEF InstrType
  <2>. QED
    BY <1>2, <2>1, LatchTyped, ClockSteps DEF StepTags, Typed, TypeOK, TagHalf
<1>5. wb' \in {i \in Instr : i.op \in {"load", "store"}} \cup {Bubble}
  BY ClockSteps DEF StepWb, Typed, TypeOK, TagHalf
<1>6. rs1_tag' \in BOOLEAN /\ rdata_tag' \in BOOLEAN
  BY SignalsTyped, ClockSteps DEF StepWb, Typed, TypeOK, TagHalf
<1>7. rf_reg' \in [Reg -> BOOLEAN]
  <2>1. /\ fw_tag \in BOOLEAN /\ LoadResult(rs1_tag, WbTag(answer)) \in BOOLEAN
        /\ rf_reg \in [Reg -> BOOLEAN]
    BY SignalsTyped, LoadResultTyped DEF Typed, TypeOK, TagHalf
  <2>. QED
    BY <2>1, ClockSteps DEF WriteTags
<1>8. thr' \in LevelsType
  BY ClockSteps DEF StepThr, Typed, TypeOK, TagHalf, LevelsType
<1>9. gold' \in [tags : [Reg -> BOOLEAN], thr : LevelsType]
  <2>1. gold.tags \in [Reg -> BOOLEAN] /\ gold.thr \in LevelsType
    BY DEF Typed
  <2>2. IsaTags(gold.tags, id.instr) \in [Reg -> BOOLEAN] /\ IsaThr(gold.thr, id.instr) \in LevelsType
    BY <1>2, <2>1, IsaTyped, IsaThrTyped
  <2>. QED
    BY <2>2, ClockSteps DEF StepEx, Typed
<1>10. blame' \in [ex : BOOLEAN, wb : BOOLEAN]
  <2>1. IsaViolates(gold.tags, id.instr) \in BOOLEAN /\ blame.ex \in BOOLEAN /\ blame.wb \in BOOLEAN
    BY <1>2, IsaTyped DEF Typed
  <2>2. blame' = [ex |-> IF idValid /\ Decoding(taken) THEN IsaViolates(gold.tags, id.instr)
                         ELSE ex' # Bubble /\ blame.ex,
                  wb |-> IF ExValid(done, answer) THEN ExLoads /\ blame.ex
                         ELSE wb' # Bubble /\ blame.wb]
    BY ClockSteps, Zenon DEF StepEx
  <2>. QED
    BY <2>1, <2>2 DEF ExLoads
<1>. QED
  BY <1>1, <1>3, <1>4, <1>5, <1>6, <1>7, <1>8, <1>9, <1>10 DEF Typed, TypeOK, TagHalf, LevelsType

LEMMA StepTyped == Typed /\ [Next]_vars => Typed'
<1>1. ASSUME Typed, Next PROVE Typed'
  BY <1>1, ClockKeepsTypes DEF Next
<1>2. ASSUME Typed, UNCHANGED vars PROVE Typed'
  BY <1>2 DEF vars, Typed, TypeOK, TagHalf
<1>. QED
  BY <1>1, <1>2

(* For every program, policy and timing the registers of the pipeline keep *)
(* their ranges; WB holds loads and stores only.                           *)
THEOREM TagPipelineTypeCorrect == Spec => []TypeOK
<1>1. Typed => TypeOK
  BY DEF Typed
<1>. QED
  BY <1>1, InitTyped, StepTyped, PTL DEF Spec

-----------------------------------------------------------------------------
(* The level in THR.  A p. instruction or a jump in the shadow of a branch *)
(* takes effect although it is killed, and one that is refused is done in  *)
(* the cycle after; without either a program keeps to its levels.          *)

(* Behind a branch or a mark in EX, ID holds what may follow it, or still  *)
(* its own word.                                                           *)
InOrder ==
    ex # Bubble /\ ex.op \in {"branch", "p.set", "p.hmark"} =>
        IF id.valid THEN MayComeAfter(ex, id.instr) ELSE id.instr = ex

(* A word left behind in ID has already had its effect on THR. *)
ThrDone == ~id.valid => IsaThr(gold.thr, id.instr) = gold.thr

(* The inductive invariant for the levels. *)
LevelInv == Typed /\ InOrder /\ ThrDone /\ LevelFollowsProgram

(* What becomes of ID at an edge: a word that stays, a word left behind,   *)
(* or the next instruction of the program.                                 *)
LEMMA IdMoves ==
    ASSUME Typed, NEW done, NEW answer, NEW taken, Clock(done, answer, taken)
    PROVE  \/ id.valid /\ ~Leaves(done, answer, taken) /\ id' = id
           \/ /\ id.valid => Leaves(done, answer, taken)
              /\ id'.instr = id.instr /\ id'.valid = FALSE
           \/ /\ id.valid => Leaves(done, answer, taken)
              /\ ~Redirected(answer, taken)
              /\ id'.valid = TRUE /\ id'.instr \in Instr
              /\ MayComeAfter(id.instr, id'.instr)
<1>1. id \in [instr : Instr \cup {nop}, valid : BOOLEAN]
  BY DEF Typed, TypeOK, TagHalf
<1>2. CASE id.valid /\ ~Leaves(done, answer, taken)
  BY <1>2, ClockSteps, Zenon DEF StepId
<1>3. CASE ~(id.valid /\ ~Leaves(done, answer, taken))
  <2>1. \/ id' = [id EXCEPT !.valid = FALSE]
        \/ /\ ~Redirected(answer, taken)
           /\ \E i \in Instr : /\ id.instr = nop \/ <<id.instr, i>> \in MayFollow
                               /\ id' = [instr |-> i, valid |-> TRUE]
    BY <1>3, ClockSteps, Zenon DEF StepId
  <2>2. CASE id' = [id EXCEPT !.valid = FALSE]
    BY <1>1, <1>3, <2>2
  <2>3. ASSUME ~Redirected(answer, taken), NEW i \in Instr,
               id.instr = nop \/ <<id.instr, i>> \in MayFollow,
               id' = [instr |-> i, valid |-> TRUE]
        PROVE  /\ id.valid => Leaves(done, answer, taken)
               /\ ~Redirected(answer, taken)
               /\ id'.valid = TRUE /\ id'.instr \in Instr
               /\ MayComeAfter(id.instr, id'.instr)
    <3>1. id'.instr = i /\ id'.valid = TRUE
      BY <2>3
    <3>. QED
      BY <1>3, <2>3, <3>1, Zenon DEF MayComeAfter
  <2>. QED
    BY <2>1, <2>2, <2>3
<1>. QED
  BY <1>2, <1>3

(* What becomes of EX and of the history at an edge. *)
LEMMA ExMoves ==
    ASSUME NEW done, NEW answer, NEW taken, Clock(done, answer, taken)
    PROVE  \/ /\ Executes(done, answer, taken) /\ ex' = id.instr
              /\ gold' = [tags |-> IsaTags(gold.tags, id.instr),
                          thr |-> IsaThr(gold.thr, id.instr)]
           \/ /\ ~Executes(done, answer, taken) /\ ExReady(done, answer)
              /\ ex' = Bubble /\ gold' = gold
           \/ /\ ~Executes(done, answer, taken) /\ ~IdValid(done, answer, taken)
              /\ ~ExReady(done, answer) /\ ex' = ex /\ gold' = gold
<1>1. IdValid(done, answer, taken) => ExReady(done, answer)
  BY DEF IdValid, IdReady
<1>2. Executes(done, answer, taken) => IdValid(done, answer, taken)
  BY DEF Executes
<1>3. /\ ex' = IF Executes(done, answer, taken) THEN id.instr
               ELSE IF IdValid(done, answer, taken) \/ ExReady(done, answer) THEN Bubble ELSE ex
      /\ gold' = IF Executes(done, answer, taken)
                 THEN [tags |-> IsaTags(gold.tags, id.instr), thr |-> IsaThr(gold.thr, id.instr)]
                 ELSE gold
  BY ClockSteps, Zenon DEF StepEx, Executes
<1>. QED
  BY <1>1, <1>2, <1>3

(* An instruction that marks or sets a level, once it leaves ID, executes. *)
LEMMA MarksExecute ==
    ASSUME Typed, MarksUndisturbed, InOrder, NoMarkInShadow,
           NEW done \in BOOLEAN, NEW answer \in BOOLEAN, NEW taken \in BOOLEAN,
           Clock(done, answer, taken),
           id.valid, id.instr.op \in Marking
    PROVE  /\ ~taken
           /\ Leaves(done, answer, taken) => Executes(done, answer, taken)
           /\ IdValid(done, answer, taken) => Executes(done, answer, taken)
<1>1. id.instr \in Instr
  BY DEF Typed
<1>2. ~taken
  <2>1. SUFFICES ASSUME taken PROVE FALSE
    OBVIOUS
  <2>2. ex # Bubble /\ ex.op = "branch"
    BY <2>1, ClockSteps DEF ExBranches
  <2>3. MayComeAfter(ex, id.instr) /\ ex \in Instr
    BY <2>2, StagesTyped DEF InOrder
  <2>. QED
    BY <1>1, <2>2, <2>3 DEF NoMarkInShadow
<1>3. ~Illegal(answer)
  BY DEF MarksUndisturbed
<1>. QED
  BY <1>2, <1>3 DEF Leaves, Executes, IdValid, Halts, Decoding

(* After the edge THR holds what was on its way to it; what is on its way  *)
(* then is the same again, or the part of the instruction that left ID.    *)
LEMMA LevelsMove ==
    ASSUME Typed, LevelFollowsProgram,
           NEW done \in BOOLEAN, NEW answer \in BOOLEAN, NEW taken \in BOOLEAN,
           Clock(done, answer, taken)
    PROVE  /\ thr' = gold.thr
           /\ AfterThr' = IF IdValid(done, answer, taken) THEN IsaThr(gold.thr, id.instr)
                          ELSE gold.thr
<1>1. thr' = gold.thr
  BY ClockSteps DEF StepThr, AfterThr, LevelFollowsProgram
<1>2. thr' \in LevelsType /\ t \in TagHalf
  BY <1>1 DEF Typed, TypeOK, TagHalf
<1>3. ASSUME t'.thr_set = t.thr_set, t'.thr_apply = t.thr_apply, t'.level = t.level
      PROVE  AfterThr' = gold.thr
  <2>1. thr' = AfterThr
    BY <1>1 DEF LevelFollowsProgram
  <2>. QED
    BY <1>2, <1>3, <1>1, <2>1 DEF AfterThr, LevelsType
<1>4. CASE ~IdValid(done, answer, taken)
  <2>1. t' = t
    BY <1>4, ClockSteps DEF StepTags
  <2>. QED
    BY <1>1, <1>3, <1>4, <2>1
<1>5. CASE IdValid(done, answer, taken) /\ id.instr.op = "mul"
  <2>1. t' = t \/ t' = [t EXCEPT !.waddr = id.instr.rd]
    BY <1>5, ClockSteps DEF StepTags
  <2>2. t'.thr_set = t.thr_set /\ t'.thr_apply = t.thr_apply /\ t'.level = t.level
    BY <1>2, <2>1 DEF TagHalf
  <2>3. IsaThr(gold.thr, id.instr) = gold.thr
    BY <1>5 DEF IsaThr
  <2>. QED
    BY <1>1, <1>3, <1>5, <2>2, <2>3
<1>6. CASE IdValid(done, answer, taken) /\ id.instr.op # "mul"
  <2>1. t' = Latch(id.instr, answer) \/ t' = [Latch(id.instr, answer) EXCEPT !.waddr = id.instr.rd]
    BY <1>6, ClockSteps DEF StepTags
  <2>2. /\ t'.thr_set = (id.instr.op = "p.hset") /\ t'.thr_apply = (id.instr.op = "jal")
        /\ t'.level = id.instr.level
    BY <2>1 DEF Latch
  <2>3. id.instr \in InstrType
    BY StagesTyped
  <2>4. AfterThr' = IsaThr(thr', id.instr)
    BY <1>2, <2>2, <2>3 DEF AfterThr, IsaThr, LevelsType
  <2>. QED
    BY <1>1, <1>6, <2>4
<1>. QED
  BY <1>4, <1>5, <1>6

(* Setting or applying a level twice is the same as once. *)
LEMMA IsaThrAgain ==
    ASSUME NEW h \in LevelsType, NEW i \in InstrType
    PROVE  IsaThr(IsaThr(h, i), i) = IsaThr(h, i)
<1>1. CASE i.op = "p.hset"
  BY <1>1 DEF IsaThr, LevelsType
<1>2. CASE i.op = "jal"
  BY <1>2 DEF IsaThr, LevelsType
<1>3. CASE i.op \notin {"p.hset", "jal"}
  BY <1>3 DEF IsaThr
<1>. QED
  BY <1>1, <1>2, <1>3

(* THR is left alone by everything but p.hset and jal. *)
LEMMA OnlyMarksSetLevels ==
    ASSUME NEW h, NEW i, i.op \notin Marking
    PROVE  IsaThr(h, i) = h
BY DEF IsaThr, Marking

(* The level parts of the invariant at an edge. *)
LEMMA ClockKeepsLevels ==
    ASSUME LevelInv, MarksUndisturbed, NoMarkInShadow,
           NEW done \in BOOLEAN, NEW answer \in BOOLEAN, NEW taken \in BOOLEAN,
           Clock(done, answer, taken)
    PROVE  InOrder' /\ ThrDone' /\ LevelFollowsProgram'
<1>. USE DEF LevelInv
<1>1. /\ id.instr \in InstrType /\ gold.thr \in LevelsType
      /\ id.valid \in BOOLEAN /\ (id.valid => id.instr \in Instr)
  BY StagesTyped DEF Typed, TypeOK, TagHalf
<1>2. id.valid /\ id.instr.op \in Marking =>
          /\ ~taken
          /\ Leaves(done, answer, taken) => Executes(done, answer, taken)
          /\ IdValid(done, answer, taken) => Executes(done, answer, taken)
  BY MarksExecute
<1>3. \/ Executes(done, answer, taken) /\ gold'.thr = IsaThr(gold.thr, id.instr)
      \/ ~Executes(done, answer, taken) /\ gold'.thr = gold.thr
  BY ExMoves
<1>4. Executes(done, answer, taken) => id.valid /\ IdValid(done, answer, taken)
  BY DEF Executes, Decoding
<1>5. LevelFollowsProgram'
  <2>1. /\ thr' = gold.thr
        /\ AfterThr' = IF IdValid(done, answer, taken) THEN IsaThr(gold.thr, id.instr)
                       ELSE gold.thr
    BY LevelsMove
  <2>2. CASE IdValid(done, answer, taken) /\ ~Executes(done, answer, taken)
    <3>1. IsaThr(gold.thr, id.instr) = gold.thr
      BY <1>2, <2>2, OnlyMarksSetLevels DEF ThrDone
    <3>. QED
      BY <1>3, <2>1, <2>2, <3>1 DEF LevelFollowsProgram
  <2>. QED
    BY <1>3, <1>4, <2>1, <2>2 DEF LevelFollowsProgram
<1>6. ThrDone'
  <2>1. SUFFICES ASSUME ~id'.valid PROVE IsaThr(gold'.thr, id'.instr) = gold'.thr
    BY DEF ThrDone
  <2>2. id'.instr = id.instr /\ (id.valid => Leaves(done, answer, taken))
    BY <2>1, IdMoves
  <2>3. CASE Executes(done, answer, taken)
    BY <1>1, <1>3, <2>2, <2>3, IsaThrAgain
  <2>4. CASE ~Executes(done, answer, taken)
    BY <1>2, <1>3, <2>2, <2>4, OnlyMarksSetLevels DEF ThrDone
  <2>. QED
    BY <2>3, <2>4
<1>7. InOrder'
  <2>1. SUFFICES ASSUME ex' # Bubble, ex'.op \in {"branch", "p.set", "p.hmark"}
                 PROVE  IF id'.valid THEN MayComeAfter(ex', id'.instr) ELSE id'.instr = ex'
    BY DEF InOrder
  <2>2. CASE Executes(done, answer, taken)
    <3>1. ex' = id.instr /\ id.valid
      BY <1>4, <2>2, ExMoves
    <3>2. Leaves(done, answer, taken)
      BY <2>2 DEF Executes, IdValid, Leaves
    <3>. QED
      BY <3>1, <3>2, IdMoves
  <2>3. CASE ~Executes(done, answer, taken)
    <3>1. ex' = ex /\ ~ExReady(done, answer)
      BY <2>1, <2>3, ExMoves
    <3>2. ~taken /\ ~ExBranches
      BY <3>1, ClockSteps DEF ExReady
    <3>3. ex # Bubble /\ ex.op \in {"p.set", "p.hmark"}
      BY <2>1, <3>1, <3>2 DEF ExBranches
    <3>4. id.valid => ~Leaves(done, answer, taken)
      <4>1. ASSUME id.valid PROVE ~Illegal(answer)
        BY <2>1, <3>1, <3>3, <4>1 DEF MarksUndisturbed
      <4>. QED
        BY <3>1, <3>2, <4>1 DEF Leaves, Halts, Decoding, IdReady
    <3>5. IF id.valid THEN MayComeAfter(ex, id.instr) ELSE id.instr = ex
      BY <2>1, <3>1 DEF InOrder
    <3>. QED
      BY <3>1, <3>4, <3>5, IdMoves
  <2>. QED
    BY <2>2, <2>3
<1>. QED
  BY <1>5, <1>6, <1>7

(* The invariant holds after reset and at every edge. *)
LEMMA InitLevels == Init => LevelInv
<1>1. SUFFICES ASSUME Init PROVE LevelInv
  OBVIOUS
<1>2. Typed
  BY <1>1, InitTyped
<1>3. thr = [current |-> 3, buffer |-> 3] /\ gold.thr = thr /\ t.thr_set = FALSE
      /\ t.thr_apply = FALSE /\ ex = Bubble /\ id.instr = nop
  BY <1>1 DEF Init
<1>4. LevelFollowsProgram
  BY <1>3 DEF LevelFollowsProgram, AfterThr
<1>5. ThrDone
  BY <1>3 DEF ThrDone, IsaThr, nop
<1>. QED
  BY <1>2, <1>3, <1>4, <1>5 DEF LevelInv, InOrder

LEMMA StepLevels ==
    ASSUME NoMarkInShadow
    PROVE  LevelInv /\ MarksUndisturbed /\ [Next]_vars => LevelInv'
<1>1. ASSUME LevelInv, MarksUndisturbed, Next PROVE LevelInv'
  <2>1. PICK done, answer, taken \in BOOLEAN : Clock(done, answer, taken)
    BY <1>1 DEF Next
  <2>2. Typed'
    BY <1>1, StepTyped DEF LevelInv
  <2>. QED
    BY <1>1, <2>1, <2>2, ClockKeepsLevels DEF LevelInv
<1>2. ASSUME LevelInv, UNCHANGED vars PROVE LevelInv'
  BY <1>2 DEF vars, LevelInv, Typed, TypeOK, TagHalf, InOrder, ThrDone, LevelFollowsProgram, AfterThr
<1>. QED
  BY <1>1, <1>2

(* A p.hset or p.hmark that waits in ID sees the level of the program.     *)
LEMMA StepLevelIsCurrent ==
    LevelInv /\ LevelIsCurrent /\ [Next]_vars => LevelIsCurrent'
<1>1. ASSUME LevelInv, Next PROVE LevelIsCurrent'
  <2>1. PICK done, answer, taken \in BOOLEAN : Clock(done, answer, taken)
    BY <1>1 DEF Next
  <2>2. thr' = gold.thr
    BY <1>1, <2>1, LevelsMove DEF LevelInv
  <2>3. CASE Executes(done, answer, taken) /\ id.instr.op = "jal"
    <3>1. Redirected(answer, taken) /\ Leaves(done, answer, taken)
      BY <2>3 DEF Executes, Decoding, IdValid, Redirected, Leaves
    <3>2. ~id'.valid
      BY <1>1, <2>1, <3>1, IdMoves DEF LevelInv
    <3>. QED
      BY <3>2 DEF LevelIsCurrent
  <2>4. CASE ~(Executes(done, answer, taken) /\ id.instr.op = "jal")
    <3>1. gold.thr \in LevelsType
      BY <1>1 DEF LevelInv, Typed
    <3>2. (gold'.thr = IsaThr(gold.thr, id.instr) /\ id.instr.op # "jal") \/ gold'.thr = gold.thr
      BY <2>1, <2>4, ExMoves
    <3>3. gold'.thr.current = gold.thr.current
      BY <3>1, <3>2 DEF IsaThr, LevelsType
    <3>. QED
      BY <2>2, <3>3 DEF LevelIsCurrent
  <2>. QED
    BY <2>3, <2>4
<1>2. ASSUME LevelIsCurrent, UNCHANGED vars PROVE LevelIsCurrent'
  BY <1>2 DEF vars, LevelIsCurrent
<1>. QED
  BY <1>1, <1>2

(* For every program and policy, in every run that keeps marks and jumps   *)
(* out of the shadow of branches and raises no exception at them: whatever *)
(* is stalled or killed, THR and the level on its way to it are what the   *)
(* executed p.hset and jal make them.                                      *)
THEOREM TagLevelFollowsProgram ==
    ASSUME NoMarkInShadow
    PROVE  Spec /\ []MarksUndisturbed => []LevelFollowsProgram
<1>1. LevelInv => LevelFollowsProgram
  BY DEF LevelInv
<1>2. Init => LevelInv
  BY InitLevels
<1>3. LevelInv /\ MarksUndisturbed /\ [Next]_vars => LevelInv'
  BY StepLevels
<1>. QED
  BY <1>1, <1>2, <1>3, PTL DEF Spec

(* In the same runs an instruction in ID is checked against the level of   *)
(* the program before it: a jump has brought its level into THR before the *)
(* instruction behind it is decoded.                                       *)
THEOREM TagLevelIsCurrent ==
    ASSUME NoMarkInShadow
    PROVE  Spec /\ []MarksUndisturbed => []LevelIsCurrent
<1>1. Init => LevelInv /\ LevelIsCurrent
  BY InitLevels DEF Init, LevelIsCurrent
<1>2. LevelInv /\ MarksUndisturbed /\ [Next]_vars => LevelInv'
  BY StepLevels
<1>3. LevelInv /\ LevelIsCurrent /\ [Next]_vars => LevelIsCurrent'
  BY StepLevelIsCurrent
<1>. QED
  BY <1>1, <1>2, <1>3, PTL DEF Spec

-----------------------------------------------------------------------------
(* Programs whose marks are undisturbed. *)

(* Every level that THR holds or will hold lets the program's marks pass. *)
LevelsPass ==
    \A j \in Instr : j.op \in {"p.hset", "p.hmark"} =>
        /\ j.level <= thr.current
        /\ j.level <= thr.buffer
        /\ t.thr_set => j.level <= t.level

(* Where there are marks, nothing in the pipeline raises an exception. *)
MarksPass ==
    \/ \A i \in Instr : i.op \notin Marking
    \/ (\A c \in Class : TCR[c] = {}) /\ t.checks = {} /\ LevelsPass

(* With no checks in the TCR, neither EX nor WB has anything to check. *)
LEMMA NoChecksNoFailures ==
    ASSUME \A c \in Class : TCR[c] = {}
    PROVE  /\ \A op : Checks(op) = {}
           /\ \A a, m : ~LoadCheckFails(a, m)
<1>1. TCR["LOADSTORE"] = {} /\ TCR["BRANCH"] = {}
  BY DEF Class
<1>2. ASSUME NEW op PROVE Checks(op) = {}
  <2>1. \A c \in {"S1", "S2", "D"} :
            [S1 |-> "DA", S2 |-> "S", D |-> "D"][c] \notin TCR["LOADSTORE"]
    BY <1>1
  <2>2. CASE op \in {"store", "lui"}
    BY <2>1, <2>2, Zenon DEF Checks
  <2>3. CASE op \notin {"store", "lui"}
    <3>1. ClassOf(op) \in Class \cup {"none"}
      BY DEF ClassOf, Class
    <3>. QED
      BY <1>1, <2>3, <3>1 DEF Checks
  <2>. QED
    BY <2>2, <2>3
<1>3. \A a, m : ~LoadCheckFails(a, m)
  BY <1>1 DEF LoadCheckFails
<1>. QED
  BY <1>2, <1>3

(* An instruction that marks or sets a level is never refused. *)
LEMMA MarksDecode ==
    ASSUME Typed, MarksPass, NEW answer \in BOOLEAN, NEW k \in Instr, k.op \in Marking,
           id.instr \in Instr
    PROVE  ~Illegal(answer)
<1>1. (\A c \in Class : TCR[c] = {}) /\ t.checks = {} /\ LevelsPass
  BY DEF MarksPass
<1>2. ~ExException
  BY <1>1 DEF ExException, CheckFails
<1>3. ~LoadException(answer)
  BY <1>1, NoChecksNoFailures DEF LoadException
<1>4. ~HierarchyViolation(id.instr, thr.current)
  <2>1. thr.current \in 0 .. 3 /\ id.instr.level \in 0 .. 3
    BY StagesTyped DEF Typed, TypeOK, TagHalf, Level, InstrType
  <2>. QED
    BY <1>1, <2>1 DEF HierarchyViolation, LevelsPass
<1>. QED
  BY <1>2, <1>3, <1>4 DEF Illegal

(* THR never falls below the levels the program's marks ask for. *)
LEMMA ClockKeepsMarksPass ==
    ASSUME Typed, MarksPass, MarksAreNotRefused,
           NEW done \in BOOLEAN, NEW answer \in BOOLEAN, NEW taken \in BOOLEAN,
           Clock(done, answer, taken)
    PROVE  MarksPass'
<1>1. SUFFICES ASSUME NEW k \in Instr, k.op \in Marking
               PROVE  t'.checks = {} /\ LevelsPass'
  BY DEF MarksPass, MarksAreNotRefused
<1>2. (\A c \in Class : TCR[c] = {}) /\ t.checks = {} /\ LevelsPass
  BY <1>1 DEF MarksPass
<1>3. \A i, j \in Instr :
          i.op = "p.hset" /\ j.op \in {"p.hset", "p.hmark"} => j.level <= i.level
  BY <1>1 DEF MarksAreNotRefused
<1>4. \/ t'.checks = t.checks /\ t'.thr_set = t.thr_set /\ t'.level = t.level
      \/ /\ t'.checks = Checks(id.instr.op) /\ t'.thr_set = (id.instr.op = "p.hset")
         /\ t'.level = id.instr.level
  <2>1. \/ t' = t \/ t' = [t EXCEPT !.waddr = id.instr.rd]
        \/ t' = Latch(id.instr, answer)
        \/ t' = [Latch(id.instr, answer) EXCEPT !.waddr = id.instr.rd]
    BY ClockSteps DEF StepTags
  <2>2. t \in TagHalf
    BY DEF Typed, TypeOK, TagHalf
  <2>. QED
    BY <2>1, <2>2 DEF Latch, TagHalf
<1>5. thr' = AfterThr
  BY ClockSteps DEF StepThr, AfterThr
<1>6. id.instr.op = "p.hset" => id.instr \in Instr
  BY NopTyped DEF Typed, TypeOK, TagHalf
<1>7. LevelsPass'
  <2>1. SUFFICES ASSUME NEW j \in Instr, j.op \in {"p.hset", "p.hmark"}
                 PROVE  /\ j.level <= thr'.current /\ j.level <= thr'.buffer
                        /\ t'.thr_set => j.level <= t'.level
    BY DEF LevelsPass
  <2>2. /\ j.level <= thr.current /\ j.level <= thr.buffer
        /\ t.thr_set => j.level <= t.level
    BY <1>2, <2>1 DEF LevelsPass
  <2>3. j.level <= thr'.current /\ j.level <= thr'.buffer
    BY <1>5, <2>2 DEF AfterThr
  <2>4. t'.thr_set => j.level <= t'.level
    BY <1>3, <1>4, <1>6, <2>1, <2>2
  <2>. QED
    BY <2>3, <2>4
<1>. QED
  BY <1>2, <1>4, <1>7, NoChecksNoFailures

(* A program without marks, or with no checks and no level below one that  *)
(* it asks for, has its marks undisturbed in every run.                    *)
THEOREM MarksStayUndisturbed ==
    ASSUME MarksAreNotRefused
    PROVE  Spec => []MarksUndisturbed
<1>1. Init => Typed /\ MarksPass
  <2>1. \A j \in Instr : j.level <= 3
    BY ProgramAssumption DEF InstrType, Level
  <2>. QED
    BY <2>1, InitTyped DEF Init, MarksPass, MarksAreNotRefused, LevelsPass
<1>2. Typed /\ MarksPass /\ [Next]_vars => Typed' /\ MarksPass'
  <2>1. ASSUME Typed, MarksPass, Next PROVE MarksPass'
    BY <2>1, ClockKeepsMarksPass DEF Next
  <2>2. ASSUME MarksPass, UNCHANGED vars PROVE MarksPass'
    BY <2>2 DEF vars, MarksPass, LevelsPass
  <2>. QED
    BY <2>1, <2>2, StepTyped
<1>3. Typed /\ MarksPass => MarksUndisturbed
  BY MarksDecode, StagesTyped DEF MarksUndisturbed, Marking, Typed
<1>. QED
  BY <1>1, <1>2, <1>3, PTL DEF Spec

-----------------------------------------------------------------------------
(* The tags.  A p.set or p.hmark is not forwarded, a multiply is not       *)
(* latched by the tag half of ID/EX, a load forwards the tag of memory and *)
(* not the one it writes, and EX forwards a tag that the mode OLD keeps    *)
(* from being written; without these a program's tags follow it.           *)

(* The tag half of ID/EX belongs to the instruction in the data half. *)
HalvesAgree ==
    ex # Bubble =>
        /\ t.mode = AluMode(ex.op) /\ t.checks = Checks(ex.op)
        /\ t.set <=> RegisterSet(ex.op)
        /\ t.hier <=> RegisterSetHierarchy(ex.op)
        /\ t.use_store_ops <=> ex.op = "store"
        /\ AluWrites(ex.op) \/ RegisterSet(ex.op) => t.waddr = ex.rd

(* A mark left behind in ID has had its effect on the tags, and is in EX   *)
(* or past it.                                                             *)
MarkDone ==
    ~id.valid /\ RegisterSet(id.instr.op) =>
        /\ IsaTags(gold.tags, id.instr) = gold.tags
        /\ ex = id.instr \/ (ex = Bubble /\ wb = Bubble)

(* A register set that the tag half keeps repeating is written already. *)
MarkWritten ==
    ex = Bubble /\ t.set => wb = Bubble /\ (t.waddr # 0 => rf_reg[t.waddr] = fw_tag)

(* The inductive invariant for the tags. *)
TagInv == LevelInv /\ HalvesAgree /\ MarkDone /\ MarkWritten /\ TagsFollowProgram

(* Register files that agree in every register are the same. *)
LEMMA SameTags ==
    ASSUME NEW f \in [Reg -> BOOLEAN], NEW g \in [Reg -> BOOLEAN],
           \A r \in Reg : f[r] = g[r]
    PROVE  f = g
OBVIOUS

(* What the register file holds once WB has written, register by register. *)
LEMMA AfterWbAt ==
    ASSUME Typed
    PROVE  /\ AfterWb \in [Reg -> BOOLEAN]
           /\ \A r \in Reg :
                AfterWb[r] = IF WbLoads /\ LoadWrites /\ r = wb.rd
                             THEN LoadResult(rs1_tag, wb.mtag) ELSE rf_reg[r]
<1>1. rf_reg \in [Reg -> BOOLEAN] /\ rs1_tag \in BOOLEAN
  BY DEF Typed, TypeOK, TagHalf
<1>2. CASE WbLoads /\ LoadWrites
  <2>1. LoadResult(rs1_tag, wb.mtag) \in BOOLEAN
    BY <1>1, <1>2, LoadResultTyped, StagesTyped DEF WbLoads, InstrType
  <2>. DEFINE result == LoadResult(rs1_tag, wb.mtag)
  <2>2. AfterWb = Put(rf_reg, wb.rd, result)
    BY <1>2 DEF AfterWb
  <2>3. result \in BOOLEAN
    BY <2>1
  <2>. HIDE DEF result
  <2>4. /\ AfterWb \in [Reg -> BOOLEAN]
        /\ \A r \in Reg : AfterWb[r] = IF r = wb.rd THEN result ELSE rf_reg[r]
    BY <1>1, <2>2, <2>3 DEF Put
  <2>. QED
    BY <1>2, <2>4 DEF result
<1>3. CASE ~(WbLoads /\ LoadWrites)
  BY <1>1, <1>3 DEF AfterWb
<1>. QED
  BY <1>2, <1>3

(* What it holds once EX has written too. *)
LEMMA AfterExAt ==
    ASSUME Typed
    PROVE  /\ AfterEx \in [Reg -> BOOLEAN]
           /\ \A r \in Reg :
                AfterEx[r] = IF fw_we /\ r = t.waddr THEN fw_tag
                             ELSE IF ~fw_we /\ ExLoads /\ LoadWrites /\ r = ex.rd
                             THEN LoadResult(t.a, ex.mtag) ELSE AfterWb[r]
<1>1. AfterWb \in [Reg -> BOOLEAN] /\ fw_tag \in BOOLEAN /\ t.a \in BOOLEAN
  BY AfterWbAt, SignalsTyped DEF Typed, TypeOK, TagHalf
<1>2. CASE fw_we
  <2>1. AfterEx = Put(AfterWb, t.waddr, fw_tag)
    BY <1>2 DEF AfterEx
  <2>. QED
    BY <1>1, <1>2, <2>1 DEF Put
<1>3. CASE ~fw_we /\ ExLoads /\ LoadWrites
  <2>. DEFINE result == LoadResult(t.a, ex.mtag)
  <2>1. AfterEx = Put(AfterWb, ex.rd, result)
    BY <1>3 DEF AfterEx
  <2>2. result \in BOOLEAN
    BY <1>1, <1>3, LoadResultTyped, StagesTyped DEF ExLoads, InstrType
  <2>. HIDE DEF result
  <2>3. /\ AfterEx \in [Reg -> BOOLEAN]
        /\ \A r \in Reg : AfterEx[r] = IF r = ex.rd THEN result ELSE AfterWb[r]
    BY <1>1, <2>1, <2>2 DEF Put
  <2>. QED
    BY <1>3, <2>3 DEF result
<1>4. CASE ~fw_we /\ ~(ExLoads /\ LoadWrites)
  <2>1. AfterEx = AfterWb
    BY <1>4 DEF AfterEx
  <2>. QED
    BY <1>1, <1>4, <2>1
<1>. QED
  BY <1>2, <1>3, <1>4

(* The same of the registers after a step. *)
LEMMA AfterWbNextAt ==
    ASSUME Typed'
    PROVE  /\ AfterWb' \in [Reg -> BOOLEAN]
           /\ \A r \in Reg :
                AfterWb'[r] = IF WbLoads' /\ LoadWrites /\ r = wb'.rd
                              THEN LoadResult(rs1_tag', wb'.mtag) ELSE rf_reg'[r]
<1>1. rf_reg' \in [Reg -> BOOLEAN] /\ rs1_tag' \in BOOLEAN
  BY DEF Typed, TypeOK, TagHalf
<1>. DEFINE result == LoadResult(rs1_tag', wb'.mtag)
<1>2. CASE WbLoads' /\ LoadWrites
  <2>1. wb' \in InstrType
    BY <1>2, ProgramAssumption DEF WbLoads, Typed, TypeOK, TagHalf
  <2>2. result \in BOOLEAN
    BY <1>1, <2>1, LoadResultTyped DEF InstrType
  <2>3. AfterWb' = Put(rf_reg', wb'.rd, result)
    BY <1>2 DEF AfterWb
  <2>. HIDE DEF result
  <2>4. /\ AfterWb' \in [Reg -> BOOLEAN]
        /\ \A r \in Reg : AfterWb'[r] = IF r = wb'.rd THEN result ELSE rf_reg'[r]
    BY <1>1, <2>2, <2>3 DEF Put
  <2>. QED
    BY <1>2, <2>4 DEF result
<1>3. CASE ~(WbLoads' /\ LoadWrites)
  BY <1>1, <1>3 DEF AfterWb
<1>. QED
  BY <1>2, <1>3

(* The same again with EX. *)
LEMMA AfterExNextAt ==
    ASSUME Typed'
    PROVE  /\ AfterEx' \in [Reg -> BOOLEAN]
           /\ \A r \in Reg :
                AfterEx'[r] = IF fw_we' /\ r = t'.waddr THEN fw_tag'
                              ELSE IF ~fw_we' /\ ExLoads' /\ LoadWrites /\ r = ex'.rd
                              THEN LoadResult(t'.a, ex'.mtag) ELSE AfterWb'[r]
<1>1. AfterWb' \in [Reg -> BOOLEAN] /\ t'.a \in BOOLEAN /\ t'.b \in BOOLEAN
  BY AfterWbNextAt DEF Typed, TypeOK, TagHalf
<1>2. fw_tag' \in BOOLEAN
  BY <1>1, PropagateTyped DEF fw_tag, alu_result_tag
<1>3. CASE fw_we'
  <2>. DEFINE tag == fw_tag'
  <2>1. AfterEx' = Put(AfterWb', t'.waddr, tag)
    BY <1>3 DEF AfterEx
  <2>2. tag \in BOOLEAN
    BY <1>2
  <2>. HIDE DEF tag
  <2>3. /\ AfterEx' \in [Reg -> BOOLEAN]
        /\ \A r \in Reg : AfterEx'[r] = IF r = t'.waddr THEN tag ELSE AfterWb'[r]
    BY <1>1, <2>1, <2>2 DEF Put
  <2>. QED
    BY <1>3, <2>3 DEF tag
<1>4. CASE ~fw_we' /\ ExLoads' /\ LoadWrites
  <2>. DEFINE result == LoadResult(t'.a, ex'.mtag)
  <2>1. AfterEx' = Put(AfterWb', ex'.rd, result)
    BY <1>4 DEF AfterEx
  <2>2. result \in BOOLEAN
    <3>1. ex' \in InstrType
      BY <1>4, ProgramAssumption DEF ExLoads, Typed, TypeOK, TagHalf
    <3>. QED
      BY <1>1, <3>1, LoadResultTyped DEF InstrType
  <2>. HIDE DEF result
  <2>3. /\ AfterEx' \in [Reg -> BOOLEAN]
        /\ \A r \in Reg : AfterEx'[r] = IF r = ex'.rd THEN result ELSE AfterWb'[r]
    BY <1>1, <2>1, <2>2 DEF Put
  <2>. QED
    BY <1>4, <2>3 DEF result
<1>5. CASE ~fw_we' /\ ~(ExLoads' /\ LoadWrites)
  <2>1. AfterEx' = AfterWb'
    BY <1>5 DEF AfterEx
  <2>. QED
    BY <1>1, <1>5, <2>1
<1>. QED
  BY <1>3, <1>4, <1>5

(* When EX writes a tag, and where. *)
LEMMA ExWrites ==
    ASSUME Typed, HalvesAgree
    PROVE  /\ ExLoads \/ ExBranches => ~fw_we
           /\ ex # Bubble /\ fw_we => /\ t.waddr = ex.rd
                                      /\ AluWrites(ex.op) \/ ex.op \in {"p.set", "p.hmark"}
           /\ ex = Bubble => (fw_we <=> t.set)
<1>1. CASE ex = Bubble
  BY <1>1 DEF fw_we, ExLoads, ExBranches, Typed, TypeOK, TagHalf
<1>2. CASE ex # Bubble
  <2>1. fw_we => RegisterSet(ex.op) \/ AluWrites(ex.op)
    BY <1>2 DEF fw_we, HalvesAgree
  <2>2. RegisterSet(ex.op) \/ AluWrites(ex.op) => t.waddr = ex.rd
    BY <1>2 DEF HalvesAgree
  <2>. QED
    BY <1>2, <2>1, <2>2 DEF RegisterSet, AluWrites, ExLoads, ExBranches
<1>. QED
  BY <1>1, <1>2

(* When EX hands on, what was on its way is in the register file or in WB. *)
LEMMA WritesLand ==
    ASSUME Typed, Typed', HalvesAgree,
           NEW done \in BOOLEAN, NEW answer \in BOOLEAN, NEW taken \in BOOLEAN,
           Clock(done, answer, taken), ExReady(done, answer)
    PROVE  AfterWb' = AfterEx
<1>1. /\ AfterWb' \in [Reg -> BOOLEAN]
      /\ \A r \in Reg :
           AfterWb'[r] = IF WbLoads' /\ LoadWrites /\ r = wb'.rd
                         THEN LoadResult(rs1_tag', wb'.mtag) ELSE rf_reg'[r]
  BY AfterWbNextAt
<1>2. \A r \in Reg : rf_reg'[r] = IF fw_we /\ r = t.waddr THEN fw_tag
                                  ELSE IF WbLoads /\ LoadWrites /\ r = wb.rd
                                  THEN LoadResult(rs1_tag, WbTag(answer)) ELSE rf_reg[r]
  BY ClockSteps DEF WriteTags
<1>3. AfterEx \in [Reg -> BOOLEAN]
  BY AfterExAt
<1>4. CASE ExValid(done, answer)
  <2>1. WbLoads => WbTag(answer) = wb.mtag
    BY <1>4 DEF ExValid, WbReady, WbTag, WbLoads
  <2>2. \A r \in Reg : rf_reg'[r] = IF fw_we /\ r = t.waddr THEN fw_tag ELSE AfterWb[r]
    BY <1>2, <2>1, AfterWbAt
  <2>3. /\ WbLoads' <=> ExLoads
        /\ ExLoads => wb' = ex /\ rs1_tag' = t.a
    BY <1>4, ClockSteps DEF StepWb, WbLoads, ExLoads
  <2>4. \A r \in Reg : AfterWb'[r] = AfterEx[r]
    BY <1>1, <2>2, <2>3, AfterExAt, ExWrites
  <2>. QED
    BY <1>1, <1>3, <2>4, SameTags
<1>5. CASE ~ExValid(done, answer)
  <2>1. ExBranches /\ ~fw_we /\ ~ExLoads
    BY <1>5, ExWrites DEF ExReady, ExBranches, ExLoads
  <2>2. ~WbReady(answer)
    BY <1>5, <2>1, ClockSteps DEF ExValid, ExBranches
  <2>3. wb' = wb /\ rs1_tag' = rs1_tag /\ (WbLoads' <=> WbLoads)
    BY <1>5, <2>2, ClockSteps DEF StepWb, WbLoads
  <2>4. \A r \in Reg : AfterWb'[r] = AfterEx[r]
    BY <1>1, <1>2, <2>1, <2>3, AfterExAt, AfterWbAt
  <2>. QED
    BY <1>1, <1>3, <2>4, SameTags
<1>. QED
  BY <1>4, <1>5

(* While EX waits, what is on its way stays the same. *)
LEMMA WaitKeepsTags ==
    ASSUME Typed, Typed', HalvesAgree,
           NEW done \in BOOLEAN, NEW answer \in BOOLEAN, NEW taken \in BOOLEAN,
           Clock(done, answer, taken), ~ExReady(done, answer),
           t' = t, ex' = ex
    PROVE  AfterEx' = AfterEx
<1>1. (fw_we' <=> fw_we) /\ fw_tag' = fw_tag /\ (ExLoads' <=> ExLoads)
  BY DEF fw_we, fw_tag, alu_result_tag, ExLoads
<1>2. \A r \in Reg : rf_reg'[r] = IF fw_we /\ r = t.waddr THEN fw_tag
                                  ELSE IF WbLoads /\ LoadWrites /\ r = wb.rd
                                  THEN LoadResult(rs1_tag, WbTag(answer)) ELSE rf_reg[r]
  BY ClockSteps DEF WriteTags
<1>3. ~ExValid(done, answer)
  BY DEF ExReady
<1>4. \A r \in Reg : (fw_we /\ r = t.waddr) \/ AfterWb'[r] = AfterWb[r]
  <2>1. CASE WbReady(answer)
    <3>1. wb' = Bubble /\ ~WbLoads'
      BY <1>3, <2>1, ClockSteps DEF StepWb, WbLoads
    <3>2. WbLoads => WbTag(answer) = wb.mtag
      BY <2>1 DEF WbReady, WbTag, WbLoads
    <3>. QED
      BY <1>2, <3>1, <3>2, AfterWbAt, AfterWbNextAt
  <2>2. CASE ~WbReady(answer)
    <3>1. wb' = wb /\ rs1_tag' = rs1_tag /\ (WbLoads' <=> WbLoads)
      BY <1>3, <2>2, ClockSteps DEF StepWb, WbLoads
    <3>. QED
      BY <1>2, <3>1, AfterWbAt, AfterWbNextAt
  <2>. QED
    BY <2>1, <2>2
<1>5. \A r \in Reg : AfterEx'[r] = AfterEx[r]
  BY <1>1, <1>4, AfterExAt, AfterExNextAt
<1>. QED
  BY <1>5, AfterExAt, AfterExNextAt, SameTags

(* What the forwarding multiplexers select for an operand is what the      *)
(* register will hold.                                                     *)
LEMMA ForwardingIsRight ==
    ASSUME TagInv, CarefulProgram, NEW answer \in BOOLEAN,
           id.valid, ~LoadStall(answer),
           NEW r \in {id.instr.rs1, id.instr.rs2}
    PROVE  ReadTag(r, answer) = TagOf(AfterEx, r)
<1>. USE DEF TagInv, LevelInv
<1>1. r \in Reg \cup {0} /\ id.instr \in Instr
  BY StagesTyped DEF InstrType, Typed
<1>2. CASE r = 0
  BY <1>2 DEF ReadTag, TagOf
<1>3. CASE r # 0
  <2>1. r \in Reg
    BY <1>1, <1>3
  <2>2. TagOf(AfterEx, r) = AfterEx[r]
    <3>1. AfterEx[r] \in BOOLEAN
      BY <2>1, AfterExAt
    <3>. QED
      BY <1>3, <3>1 DEF TagOf
  <2>3. ~(ExLoads /\ ex.rd = r) /\ (WbLoads /\ wb.rd = r => answer)
    BY <1>3 DEF LoadStall
  <2>4. CASE ex # Bubble /\ AluWrites(ex.op) /\ ex.rd = r
    <3>1. t.mode = AluMode(ex.op) /\ (t.set <=> RegisterSet(ex.op)) /\ t.waddr = ex.rd
      BY <2>4 DEF HalvesAgree
    <3>2. fw_we
      <4>1. ex.op # "jal" => t.mode # "OLD"
        BY <1>3, <2>4, <3>1, StagesTyped DEF CarefulProgram, ResultsAreWritten
      <4>2. ex.op = "jal" => t.set
        BY <3>1 DEF RegisterSet
      <4>. QED
        BY <2>4, <4>1, <4>2 DEF fw_we
    <3>3. AfterEx[r] = fw_tag
      BY <2>1, <2>4, <3>1, <3>2, AfterExAt
    <3>. QED
      BY <1>3, <2>2, <2>4, <3>3 DEF ReadTag
  <2>5. CASE ~(ex # Bubble /\ AluWrites(ex.op) /\ ex.rd = r)
    <3>1. ex # Bubble => ~(fw_we /\ t.waddr = r)
      <4>1. SUFFICES ASSUME ex # Bubble, fw_we, t.waddr = r PROVE FALSE
        OBVIOUS
      <4>2. ex.rd = r /\ ex.op \in {"p.set", "p.hmark"}
        BY <2>5, <4>1, ExWrites
      <4>3. MayComeAfter(ex, id.instr) /\ ex \in Instr
        BY <4>1, <4>2, StagesTyped DEF InOrder
      <4>. QED
        BY <1>1, <1>3, <4>2, <4>3 DEF CarefulProgram, NoReadBehindMark
    <3>2. ex = Bubble /\ fw_we => wb = Bubble /\ (t.waddr = r => rf_reg[r] = fw_tag)
      BY <1>3, ExWrites DEF MarkWritten
    <3>3. AfterEx[r] = AfterWb[r]
      <4>1. CASE fw_we /\ t.waddr = r
        <5>1. ~WbLoads /\ rf_reg[r] = fw_tag
          BY <3>1, <3>2, <4>1 DEF WbLoads
        <5>. QED
          BY <2>1, <4>1, <5>1, AfterExAt, AfterWbAt
      <4>2. CASE ~(fw_we /\ t.waddr = r)
        BY <2>1, <2>3, <4>2, AfterExAt
      <4>. QED
        BY <4>1, <4>2
    <3>4. CASE WbLoads /\ wb.rd = r
      <4>1. ReadTag(r, answer) = wb.mtag
        BY <1>3, <2>3, <2>5, <3>4 DEF ReadTag, WbTag
      <4>2. LoadWrites /\ LoadResult(rs1_tag, wb.mtag) = wb.mtag
        <5>1. wb \in Instr /\ wb.mtag \in BOOLEAN /\ wb.op = "load" /\ rs1_tag \in BOOLEAN
          BY <3>4, StagesTyped DEF WbLoads, InstrType, Typed, TypeOK, TagHalf
        <5>. QED
          BY <5>1 DEF CarefulProgram, LoadsForwardTheirTag
      <4>. QED
        BY <2>1, <2>2, <3>3, <3>4, <4>1, <4>2, AfterWbAt
    <3>5. CASE ~(WbLoads /\ wb.rd = r)
      <4>1. ReadTag(r, answer) = rf_reg[r]
        BY <1>3, <2>5, <3>5 DEF ReadTag
      <4>. QED
        BY <2>1, <2>2, <3>3, <3>5, <4>1, AfterWbAt
    <3>. QED
      BY <3>4, <3>5
  <2>. QED
    BY <2>4, <2>5
<1>. QED
  BY <1>2, <1>3

(* What the tag half of ID/EX becomes; no instruction is a multiply. *)
LEMMA TagHalfMoves ==
    ASSUME Typed, NoMultiply,
           NEW done \in BOOLEAN, NEW answer \in BOOLEAN, NEW taken \in BOOLEAN,
           Clock(done, answer, taken)
    PROVE  LET i == id.instr IN
           IF IdValid(done, answer, taken)
           THEN /\ t'.mode = AluMode(i.op) /\ t'.checks = Checks(i.op)
                /\ t'.set = RegisterSet(i.op) /\ t'.hier = RegisterSetHierarchy(i.op)
                /\ t'.use_store_ops = (i.op = "store")
                /\ t'.a = Latch(i, answer).a /\ t'.b = Latch(i, answer).b
                /\ t'.dest_addr = Latch(i, answer).dest_addr
                /\ t'.source = Latch(i, answer).source
                /\ (Decoding(taken) /\ AluWrites(i.op)) \/ RegisterSet(i.op) => t'.waddr = i.rd
           ELSE t' = t
<1>1. CASE ~IdValid(done, answer, taken)
  BY <1>1, ClockSteps DEF StepTags
<1>2. CASE IdValid(done, answer, taken)
  <2>. DEFINE l == Latch(id.instr, answer)
              writes == (Decoding(taken) /\ AluWrites(id.instr.op)) \/ RegisterSet(id.instr.op)
  <2>1. id.instr.op # "mul"
    BY NopTyped DEF Typed, TypeOK, TagHalf, NoMultiply
  <2>2. t' = IF writes THEN [l EXCEPT !.waddr = id.instr.rd] ELSE l
    BY <1>2, <2>1, ClockSteps DEF StepTags
  <2>3. /\ l.mode = AluMode(id.instr.op) /\ l.checks = Checks(id.instr.op)
        /\ l.set = RegisterSet(id.instr.op) /\ l.hier = RegisterSetHierarchy(id.instr.op)
        /\ l.use_store_ops = (id.instr.op = "store")
    BY Zenon DEF Latch
  <2>4. l \in TagHalf
    BY LatchTyped, StagesTyped
  <2>. HIDE DEF l, writes
  <2>5. /\ t'.mode = l.mode /\ t'.checks = l.checks /\ t'.set = l.set /\ t'.hier = l.hier
        /\ t'.use_store_ops = l.use_store_ops /\ t'.a = l.a /\ t'.b = l.b
        /\ t'.dest_addr = l.dest_addr /\ t'.source = l.source
        /\ writes => t'.waddr = id.instr.rd
    BY <2>2, <2>4
  <2>. QED
    BY <1>2, <2>3, <2>5 DEF l, writes
<1>. QED
  BY <1>1, <1>2

(* The operands that an executing instruction takes with it into EX. *)
LEMMA OperandsOfExecuted ==
    ASSUME TagInv, CarefulProgram,
           NEW done \in BOOLEAN, NEW answer \in BOOLEAN, NEW taken \in BOOLEAN,
           Clock(done, answer, taken), Executes(done, answer, taken)
    PROVE  LET i == id.instr
               a == TagOf(gold.tags, i.rs1)
               b == TagOf(gold.tags, i.rs2)
           IN /\ t'.mode = AluMode(i.op) /\ t'.checks = Checks(i.op)
              /\ t'.set = RegisterSet(i.op) /\ t'.hier = RegisterSetHierarchy(i.op)
              /\ t'.use_store_ops = (i.op = "store")
              /\ AluWrites(i.op) \/ RegisterSet(i.op) => t'.waddr = i.rd
              /\ i.op # "store" => t'.a = a /\ t'.b = b
              /\ i.op = "store" => /\ t'.a = (a /\ TPR.EN_DEST_ADDR) /\ t'.b = (b /\ TPR.EN_SOURCE)
                                   /\ t'.dest_addr = a /\ t'.source = b
<1>1. /\ IdValid(done, answer, taken) /\ Decoding(taken) /\ id.valid
      /\ ~LoadStall(answer) /\ Typed /\ NoMultiply
  BY DEF Executes, Decoding, IdValid, IdReady, TagInv, LevelInv, CarefulProgram
<1>2. /\ ReadTag(id.instr.rs1, answer) = TagOf(gold.tags, id.instr.rs1)
      /\ ReadTag(id.instr.rs2, answer) = TagOf(gold.tags, id.instr.rs2)
  BY <1>1, ForwardingIsRight DEF TagInv, TagsFollowProgram
<1>3. /\ TagOf(gold.tags, id.instr.rs1) \in BOOLEAN
      /\ TagOf(gold.tags, id.instr.rs2) \in BOOLEAN
  BY DEF TagOf
<1>. DEFINE l == Latch(id.instr, answer)
            a == TagOf(gold.tags, id.instr.rs1)
            b == TagOf(gold.tags, id.instr.rs2)
<1>4. l.a = (IF id.instr.op = "store" THEN a /\ TPR.EN_DEST_ADDR ELSE a)
      /\ l.b = (IF id.instr.op = "store" THEN b /\ TPR.EN_SOURCE ELSE b)
      /\ l.dest_addr = (id.instr.op = "store" /\ a) /\ l.source = (id.instr.op = "store" /\ b)
  BY <1>2, Zenon DEF Latch
<1>5. a \in BOOLEAN /\ b \in BOOLEAN
  BY <1>3
<1>. HIDE DEF l, a, b
<1>6. /\ id.instr.op # "store" => l.a = a /\ l.b = b
      /\ id.instr.op = "store" => /\ l.a = (a /\ TPR.EN_DEST_ADDR) /\ l.b = (b /\ TPR.EN_SOURCE)
                                  /\ l.dest_addr = a /\ l.source = b
  BY <1>4, <1>5
<1>. QED
  BY <1>1, <1>6, TagHalfMoves DEF l, a, b

(* HalvesAgree at an edge. *)
LEMMA ClockKeepsHalves ==
    ASSUME Typed, HalvesAgree, NoMultiply,
           NEW done \in BOOLEAN, NEW answer \in BOOLEAN, NEW taken \in BOOLEAN,
           Clock(done, answer, taken)
    PROVE  HalvesAgree'
<1>1. CASE Executes(done, answer, taken)
  <2>1. ex' = id.instr /\ IdValid(done, answer, taken) /\ Decoding(taken)
    BY <1>1, ExMoves DEF Executes
  <2>. QED
    BY <2>1, TagHalfMoves DEF HalvesAgree
<1>2. CASE ~Executes(done, answer, taken)
  <2>1. ex' = Bubble \/ (ex' = ex /\ ~IdValid(done, answer, taken))
    BY <1>2, ExMoves
  <2>2. ~IdValid(done, answer, taken) => t' = t
    BY TagHalfMoves
  <2>. QED
    BY <2>1, <2>2 DEF HalvesAgree
<1>. QED
  BY <1>1, <1>2

(* An instruction that executes has its effect on the tags on its way. *)
LEMMA ExecutedGivesTags ==
    ASSUME TagInv, CarefulProgram, Typed',
           NEW done \in BOOLEAN, NEW answer \in BOOLEAN, NEW taken \in BOOLEAN,
           Clock(done, answer, taken), Executes(done, answer, taken)
    PROVE  AfterEx' = IsaTags(gold.tags, id.instr)
<1>. USE DEF TagInv, LevelInv
<1>. DEFINE i == id.instr
<1>1. i \in InstrType /\ i # Bubble
  BY StagesTyped, ProgramAssumption
<1>2. ex' = i /\ AfterWb' = gold.tags
  <2>1. ExReady(done, answer)
    BY DEF Executes, IdValid, IdReady
  <2>. QED
    BY <2>1, ExMoves, WritesLand DEF TagsFollowProgram
<1>. DEFINE a == TagOf(gold.tags, i.rs1)
            b == TagOf(gold.tags, i.rs2)
<1>3. /\ t'.mode = AluMode(i.op)
      /\ t'.set = RegisterSet(i.op) /\ t'.hier = RegisterSetHierarchy(i.op)
      /\ AluWrites(i.op) \/ RegisterSet(i.op) => t'.waddr = i.rd
      /\ i.op # "store" => t'.a = a /\ t'.b = b
  BY OperandsOfExecuted
<1>4. (fw_we' <=> t'.set \/ (t'.mode # "OLD" /\ AluWrites(i.op))) /\ (ExLoads' <=> i.op = "load")
  BY <1>1, <1>2 DEF fw_we, ExLoads
<1>5. fw_tag' = IF t'.set THEN ~t'.hier ELSE Propagate(t'.mode, t'.a, t'.b)
  BY DEF fw_tag, alu_result_tag
<1>6. CASE i.op = "p.set"
  <2>1. fw_we' /\ fw_tag' = TRUE /\ t'.waddr = i.rd
    BY <1>3, <1>4, <1>5, <1>6 DEF RegisterSet, RegisterSetHierarchy
  <2>2. AfterEx' = Put(gold.tags, i.rd, TRUE)
    BY <1>2, <2>1 DEF AfterEx
  <2>. QED
    BY <1>6, <2>2 DEF IsaTags
<1>7. CASE i.op \in {"jal", "p.hmark"}
  <2>1. fw_we' /\ fw_tag' = FALSE /\ t'.waddr = i.rd
    BY <1>3, <1>4, <1>5, <1>7 DEF RegisterSet, RegisterSetHierarchy
  <2>2. AfterEx' = Put(gold.tags, i.rd, FALSE)
    BY <1>2, <2>1 DEF AfterEx
  <2>. QED
    BY <1>7, <2>2 DEF IsaTags
<1>8. CASE i.op = "load"
  <2>1. ~fw_we' /\ ExLoads' /\ t'.a = a
    BY <1>3, <1>4, <1>8 DEF RegisterSet, AluWrites
  <2>2. AfterEx' = IF LoadWrites THEN Put(gold.tags, i.rd, LoadResult(a, i.mtag)) ELSE gold.tags
    BY <1>2, <2>1 DEF AfterEx
  <2>. QED
    BY <1>8, <2>2 DEF IsaTags
<1>9. CASE i.op \notin {"p.set", "jal", "p.hmark", "load"}
  <2>1. ~t'.set /\ ~ExLoads'
    BY <1>3, <1>4, <1>9 DEF RegisterSet
  <2>2. IsaTags(gold.tags, i) = IF AluWrites(i.op) /\ AluMode(i.op) # "OLD"
                                THEN Put(gold.tags, i.rd, IsaResult(gold.tags, i)) ELSE gold.tags
    BY <1>9 DEF IsaTags
  <2>3. CASE AluWrites(i.op) /\ AluMode(i.op) # "OLD"
    <3>1. IsaResult(gold.tags, i) = Propagate(AluMode(i.op), a, b) /\ i.op # "store"
      BY <2>3 DEF IsaResult, AluWrites
    <3>2. fw_we' /\ t'.waddr = i.rd /\ fw_tag' = IsaResult(gold.tags, i)
      BY <1>3, <1>4, <1>5, <2>1, <2>3, <3>1
    <3>3. AfterEx' = Put(gold.tags, i.rd, IsaResult(gold.tags, i))
      BY <1>2, <3>2 DEF AfterEx
    <3>. QED
      BY <2>2, <2>3, <3>3
  <2>4. CASE ~(AluWrites(i.op) /\ AluMode(i.op) # "OLD")
    <3>1. ~fw_we'
      BY <1>3, <1>4, <2>1, <2>4
    <3>. QED
      BY <1>2, <2>1, <2>2, <2>4, <3>1 DEF AfterEx
  <2>. QED
    BY <2>3, <2>4
<1>. QED
  BY <1>6, <1>7, <1>8, <1>9

(* Doing a mark twice is the same as once. *)
LEMMA IsaTagsAgain ==
    ASSUME NEW tags, NEW i, RegisterSet(i.op)
    PROVE  /\ IsaTags(tags, i) = Put(tags, i.rd, ~RegisterSetHierarchy(i.op))
           /\ IsaTags(IsaTags(tags, i), i) = IsaTags(tags, i)
<1>1. \A f : IsaTags(f, i) = Put(f, i.rd, ~RegisterSetHierarchy(i.op))
  <2>1. CASE i.op = "p.set"
    <3>1. RegisterSetHierarchy(i.op) = FALSE
      BY <2>1 DEF RegisterSetHierarchy
    <3>. QED
      BY <2>1, <3>1 DEF IsaTags
  <2>2. CASE i.op \in {"jal", "p.hmark"}
    <3>1. RegisterSetHierarchy(i.op) = TRUE
      BY <2>2 DEF RegisterSetHierarchy
    <3>. QED
      BY <2>2, <3>1 DEF IsaTags
  <2>. QED
    BY <2>1, <2>2 DEF RegisterSet
<1>2. \A f, r, tag : Put(Put(f, r, tag), r, tag) = Put(f, r, tag)
  BY DEF Put
<1>. QED
  BY <1>1, <1>2

(* An instruction that leaves ID without executing is not a mark, and a    *)
(* word left behind in ID is known to be done.                             *)
LEMMA NothingNewLeaves ==
    ASSUME TagInv, MarksUndisturbed, CarefulProgram,
           NEW done \in BOOLEAN, NEW answer \in BOOLEAN, NEW taken \in BOOLEAN,
           Clock(done, answer, taken), ~Executes(done, answer, taken),
           RegisterSet(id.instr.op),
           IdValid(done, answer, taken) \/ Leaves(done, answer, taken)
    PROVE  ~id.valid
BY MarksExecute DEF TagInv, LevelInv, CarefulProgram, RegisterSet, Marking

(* A bubble in EX changes nothing, whatever the tag half repeats. *)
LEMMA BubbleKeepsTags ==
    ASSUME TagInv, MarksUndisturbed, CarefulProgram, Typed',
           NEW done \in BOOLEAN, NEW answer \in BOOLEAN, NEW taken \in BOOLEAN,
           Clock(done, answer, taken), ~Executes(done, answer, taken),
           ExReady(done, answer)
    PROVE  AfterEx' = gold.tags
<1>. USE DEF TagInv, LevelInv
<1>1. ex' = Bubble /\ AfterWb' = AfterEx /\ AfterEx = gold.tags
  BY ExMoves, WritesLand DEF TagsFollowProgram
<1>2. ~ExLoads' /\ (fw_we' <=> t'.set)
  <2>1. t'.set \in BOOLEAN
    BY DEF Typed, TypeOK, TagHalf
  <2>. QED
    BY <1>1, <2>1 DEF ExLoads, fw_we
<1>3. CASE ~t'.set
  BY <1>1, <1>2, <1>3 DEF AfterEx
<1>4. CASE t'.set /\ IdValid(done, answer, taken)
  <2>1. /\ RegisterSet(id.instr.op) /\ t'.waddr = id.instr.rd
        /\ t'.hier = RegisterSetHierarchy(id.instr.op)
    BY <1>4, TagHalfMoves DEF CarefulProgram
  <2>2. IsaTags(gold.tags, id.instr) = gold.tags
    BY <1>4, <2>1, NothingNewLeaves DEF MarkDone
  <2>3. fw_tag' = ~RegisterSetHierarchy(id.instr.op)
    BY <1>4, <2>1 DEF fw_tag
  <2>4. AfterEx' = Put(gold.tags, id.instr.rd, ~RegisterSetHierarchy(id.instr.op))
    BY <1>1, <1>2, <1>4, <2>1, <2>3 DEF AfterEx
  <2>. QED
    BY <2>1, <2>2, <2>4, IsaTagsAgain
<1>5. CASE t'.set /\ ~IdValid(done, answer, taken)
  <2>1. t' = t
    BY <1>5, TagHalfMoves DEF CarefulProgram
  <2>2. fw_we /\ fw_tag' = fw_tag
    BY <1>5, <2>1 DEF fw_we, fw_tag, alu_result_tag
  <2>3. \A r \in Reg : AfterEx'[r] = AfterEx[r]
    BY <1>1, <1>2, <1>5, <2>1, <2>2, AfterExAt, AfterExNextAt
  <2>. QED
    BY <1>1, <2>3, AfterExAt, AfterExNextAt, SameTags
<1>. QED
  BY <1>3, <1>4, <1>5

(* MarkDone at an edge: a mark leaves EX together with the access in WB. *)
LEMMA ClockKeepsMarkDone ==
    ASSUME TagInv, MarksUndisturbed, CarefulProgram,
           NEW done \in BOOLEAN, NEW answer \in BOOLEAN, NEW taken \in BOOLEAN,
           Clock(done, answer, taken)
    PROVE  MarkDone'
<1>. USE DEF TagInv, LevelInv
<1>1. SUFFICES ASSUME ~id'.valid, RegisterSet(id'.instr.op)
               PROVE  /\ IsaTags(gold'.tags, id'.instr) = gold'.tags
                      /\ ex' = id'.instr \/ (ex' = Bubble /\ wb' = Bubble)
  BY DEF MarkDone
<1>2. id'.instr = id.instr /\ (id.valid => Leaves(done, answer, taken))
  BY <1>1, IdMoves
<1>3. CASE Executes(done, answer, taken)
  <2>1. ex' = id.instr /\ gold'.tags = IsaTags(gold.tags, id.instr)
    BY <1>3, ExMoves
  <2>. QED
    BY <1>1, <1>2, <2>1, IsaTagsAgain
<1>4. CASE ~Executes(done, answer, taken)
  <2>1. ~id.valid
    BY <1>1, <1>2, <1>4, NothingNewLeaves
  <2>2. /\ IsaTags(gold.tags, id.instr) = gold.tags /\ gold' = gold
        /\ ex = id.instr \/ (ex = Bubble /\ wb = Bubble)
    BY <1>1, <1>2, <1>4, <2>1, ExMoves DEF MarkDone
  <2>3. ex # Bubble => ex.op \in {"p.set", "p.hmark", "jal"}
    BY <1>1, <1>2, <2>2 DEF RegisterSet
  <2>4. done
    BY <2>3, ClockSteps
  <2>5. CASE WbReady(answer)
    <3>1. ExValid(done, answer) /\ ExReady(done, answer)
      BY <2>4, <2>5 DEF ExValid, ExReady
    <3>2. ex' = Bubble
      BY <1>4, <3>1, ExMoves
    <3>3. wb' = Bubble
      BY <2>3, <3>1, ClockSteps DEF StepWb
    <3>. QED
      BY <1>2, <2>2, <3>2, <3>3
  <2>6. CASE ~WbReady(answer)
    <3>1. wb # Bubble
      BY <2>6 DEF WbReady
    <3>2. ~ExReady(done, answer)
      BY <2>3, <2>6 DEF ExReady, ExValid, ExBranches
    <3>3. ex' = ex
      BY <1>4, <3>2, ExMoves
    <3>. QED
      BY <1>2, <2>2, <3>1, <3>3
  <2>. QED
    BY <2>5, <2>6
<1>. QED
  BY <1>3, <1>4

(* MarkWritten at an edge. *)
LEMMA ClockKeepsMarkWritten ==
    ASSUME TagInv, MarksUndisturbed, CarefulProgram, Typed',
           NEW done \in BOOLEAN, NEW answer \in BOOLEAN, NEW taken \in BOOLEAN,
           Clock(done, answer, taken)
    PROVE  MarkWritten'
<1>. USE DEF TagInv, LevelInv
<1>1. SUFFICES ASSUME ex' = Bubble, t'.set
               PROVE  wb' = Bubble /\ (t'.waddr # 0 => rf_reg'[t'.waddr] = fw_tag')
  BY DEF MarkWritten
<1>2. t'.waddr \in Reg \cup {0}
  BY DEF Typed, TypeOK, TagHalf
<1>3. ~Executes(done, answer, taken)
  <2>1. id.instr # Bubble
    BY StagesTyped, ProgramAssumption
  <2>. QED
    BY <1>1, <2>1, ExMoves
<1>4. \A r \in Reg : fw_we /\ r = t.waddr => rf_reg'[r] = fw_tag
  BY ClockSteps DEF WriteTags
<1>5. ASSUME ex # Bubble => t.set /\ ex.op \in {"p.set", "p.hmark", "jal"},
             ex = Bubble => wb = Bubble
      PROVE  wb' = Bubble
  <2>1. done
    BY <1>5, ClockSteps
  <2>2. WbReady(answer)
    <3>1. CASE ex = Bubble
      BY <1>5, <3>1 DEF WbReady
    <3>2. CASE ex # Bubble
      BY <1>1, <1>3, <1>5, <3>2, ExMoves DEF ExReady, ExValid, ExBranches
    <3>. QED
      BY <3>1, <3>2
  <2>. QED
    BY <1>5, <2>1, <2>2, ClockSteps DEF StepWb, ExValid
<1>6. ex # Bubble /\ t.set => ex.op \in {"p.set", "p.hmark", "jal"}
  BY DEF HalvesAgree, RegisterSet
<1>7. CASE ~IdValid(done, answer, taken)
  <2>1. t' = t
    BY <1>7, TagHalfMoves DEF CarefulProgram
  <2>2. fw_we /\ fw_tag' = fw_tag
    BY <1>1, <2>1 DEF fw_we, fw_tag, alu_result_tag
  <2>3. wb' = Bubble
    BY <1>1, <1>5, <1>6, <2>1 DEF MarkWritten
  <2>. QED
    BY <1>2, <1>4, <2>1, <2>2, <2>3
<1>8. CASE IdValid(done, answer, taken)
  <2>1. /\ RegisterSet(id.instr.op) /\ t'.waddr = id.instr.rd
        /\ t'.hier = RegisterSetHierarchy(id.instr.op)
    BY <1>1, <1>8, TagHalfMoves DEF CarefulProgram
  <2>2. /\ IsaTags(gold.tags, id.instr) = gold.tags
        /\ ex = id.instr \/ (ex = Bubble /\ wb = Bubble)
    BY <1>3, <1>8, <2>1, NothingNewLeaves DEF MarkDone
  <2>3. ex # Bubble => t.set /\ ex.op \in {"p.set", "p.hmark", "jal"}
    BY <2>1, <2>2 DEF HalvesAgree, RegisterSet
  <2>4. wb' = Bubble
    <3>1. id.instr # Bubble
      BY StagesTyped, ProgramAssumption
    <3>. QED
      BY <1>5, <2>2, <2>3, <3>1
  <2>5. AfterWb' = gold.tags
    <3>1. ExReady(done, answer)
      BY <1>8 DEF IdValid, IdReady
    <3>. QED
      BY <3>1, WritesLand DEF TagsFollowProgram
  <2>6. rf_reg' = gold.tags
    BY <2>4, <2>5 DEF AfterWb, WbLoads
  <2>7. fw_tag' = ~RegisterSetHierarchy(id.instr.op)
    BY <1>1, <2>1 DEF fw_tag
  <2>8. gold.tags = Put(gold.tags, id.instr.rd, ~RegisterSetHierarchy(id.instr.op))
    BY <2>1, <2>2, IsaTagsAgain
  <2>9. id.instr.rd # 0 => gold.tags[id.instr.rd] = ~RegisterSetHierarchy(id.instr.op)
    BY <1>2, <2>1, <2>8 DEF Put
  <2>. QED
    BY <2>1, <2>4, <2>6, <2>7, <2>9
<1>. QED
  BY <1>7, <1>8

(* The invariant holds after reset and at every edge. *)
LEMMA InitTags == Init => TagInv
<1>1. SUFFICES ASSUME Init PROVE TagInv
  OBVIOUS
<1>2. LevelInv
  BY <1>1, InitLevels
<1>3. /\ ex = Bubble /\ wb = Bubble /\ t.set = FALSE /\ id.instr = nop
      /\ gold.tags = rf_reg /\ t.mode = "OLD"
  BY <1>1 DEF Init
<1>4. TagsFollowProgram
  BY <1>3 DEF TagsFollowProgram, AfterEx, AfterWb, fw_we, ExLoads, WbLoads
<1>5. ~RegisterSet(id.instr.op)
  BY <1>3, NopTyped DEF RegisterSet
<1>. QED
  BY <1>2, <1>3, <1>4, <1>5 DEF TagInv, HalvesAgree, MarkDone, MarkWritten

LEMMA StepTagInv ==
    ASSUME CarefulProgram
    PROVE  TagInv /\ MarksUndisturbed /\ [Next]_vars => TagInv'
<1>1. ASSUME TagInv, MarksUndisturbed, Next PROVE TagInv'
  <2>1. PICK done, answer, taken \in BOOLEAN : Clock(done, answer, taken)
    BY <1>1 DEF Next
  <2>2. LevelInv'
    BY <1>1, StepLevels DEF TagInv, CarefulProgram
  <2>3. HalvesAgree'
    BY <1>1, <2>1, ClockKeepsHalves DEF TagInv, LevelInv, CarefulProgram
  <2>4. TagsFollowProgram'
    <3>1. CASE Executes(done, answer, taken)
      BY <1>1, <2>1, <2>2, <3>1, ExecutedGivesTags, ExMoves DEF TagsFollowProgram, LevelInv
    <3>2. CASE ~Executes(done, answer, taken) /\ ExReady(done, answer)
      BY <1>1, <2>1, <2>2, <3>2, BubbleKeepsTags, ExMoves DEF TagsFollowProgram, LevelInv
    <3>3. CASE ~Executes(done, answer, taken) /\ ~ExReady(done, answer)
      <4>1. ex' = ex /\ gold' = gold /\ ~IdValid(done, answer, taken)
        BY <2>1, <3>3, ExMoves
      <4>2. t' = t
        BY <2>1, <4>1, ClockSteps DEF StepTags
      <4>. QED
        BY <1>1, <2>1, <2>2, <3>3, <4>1, <4>2, WaitKeepsTags
           DEF TagsFollowProgram, TagInv, LevelInv
    <3>. QED
      BY <3>1, <3>2, <3>3
  <2>5. MarkDone' /\ MarkWritten'
    BY <1>1, <2>1, <2>2, ClockKeepsMarkDone, ClockKeepsMarkWritten DEF LevelInv
  <2>. QED
    BY <2>2, <2>3, <2>4, <2>5 DEF TagInv
<1>2. ASSUME TagInv, UNCHANGED vars PROVE TagInv'
  BY <1>2 DEF vars, TagInv, LevelInv, Typed, TypeOK, TagHalf, InOrder, ThrDone, LevelFollowsProgram,
              AfterThr, HalvesAgree, MarkDone, MarkWritten, TagsFollowProgram, AfterEx, AfterWb,
              fw_we, fw_tag, alu_result_tag, ExLoads, WbLoads
<1>. QED
  BY <1>1, <1>2

(* For every program that keeps off the five things the pipeline gets      *)
(* wrong, and every policy and timing: the register file with what is on   *)
(* its way to it is what the executed instructions make of the tags.       *)
THEOREM TagRegistersFollowProgram ==
    ASSUME CarefulProgram
    PROVE  Spec /\ []MarksUndisturbed => []TagsFollowProgram
<1>1. TagInv => TagsFollowProgram
  BY DEF TagInv
<1>2. Init => TagInv
  BY InitTags
<1>3. TagInv /\ MarksUndisturbed /\ [Next]_vars => TagInv'
  BY StepTagInv
<1>. QED
  BY <1>1, <1>2, <1>3, PTL DEF Spec

-----------------------------------------------------------------------------
(* The checks. *)

(* What the checks will say of the load in EX, and of the load in WB once  *)
(* memory has answered, is what the policies say of them.                  *)
ExLoadJudged == ExLoads => (LoadCheckFails(t.a, ex.mtag) <=> blame.ex)
WbLoadJudged == WbLoads => (LoadCheckFails(rs1_tag, wb.mtag) <=> blame.wb)

(* The inductive invariant for the checks. *)
JudgeInv == TagInv /\ ChecksJudgeTheInstruction /\ ExLoadJudged /\ WbLoadJudged

(* What becomes of the history of verdicts. *)
LEMMA BlameMoves ==
    ASSUME Typed,
           NEW done \in BOOLEAN, NEW answer \in BOOLEAN, NEW taken \in BOOLEAN,
           Clock(done, answer, taken)
    PROVE  /\ blame'.ex = IF Executes(done, answer, taken) THEN IsaViolates(gold.tags, id.instr)
                          ELSE ex' # Bubble /\ blame.ex
           /\ blame'.wb = IF ExValid(done, answer) THEN ExLoads /\ blame.ex
                          ELSE wb' # Bubble /\ blame.wb
<1>1. blame' = [ex |-> IF Executes(done, answer, taken) THEN IsaViolates(gold.tags, id.instr)
                       ELSE ex' # Bubble /\ blame.ex,
                wb |-> IF ExValid(done, answer) THEN ExLoads /\ blame.ex
                       ELSE wb' # Bubble /\ blame.wb]
  BY ClockSteps, Zenon DEF StepEx, Executes
<1>. QED
  BY <1>1, Zenon

(* The verdicts at an edge: the operands checked are those of the program. *)
LEMMA ClockKeepsJudgements ==
    ASSUME JudgeInv, CarefulProgram, Typed',
           NEW done \in BOOLEAN, NEW answer \in BOOLEAN, NEW taken \in BOOLEAN,
           Clock(done, answer, taken)
    PROVE  ChecksJudgeTheInstruction' /\ ExLoadJudged' /\ WbLoadJudged'
<1>. USE DEF JudgeInv, TagInv, LevelInv
<1>. DEFINE i == id.instr
            a == TagOf(gold.tags, i.rs1)
            b == TagOf(gold.tags, i.rs2)
<1>1. blame.ex \in BOOLEAN /\ blame.wb \in BOOLEAN /\ a \in BOOLEAN /\ b \in BOOLEAN
  BY DEF Typed, TagOf
<1>2. ASSUME Executes(done, answer, taken)
      PROVE  ChecksJudgeTheInstruction' /\ ExLoadJudged'
  <2>1. ex' = i /\ i # Bubble /\ blame'.ex = IsaViolates(gold.tags, i)
    BY <1>2, ExMoves, BlameMoves, StagesTyped, ProgramAssumption
  <2>2. /\ t'.mode = AluMode(i.op) /\ t'.checks = Checks(i.op)
        /\ t'.use_store_ops = (i.op = "store")
        /\ i.op # "store" => t'.a = a /\ t'.b = b
        /\ i.op = "store" => /\ t'.a = (a /\ TPR.EN_DEST_ADDR) /\ t'.b = (b /\ TPR.EN_SOURCE)
                             /\ t'.dest_addr = a /\ t'.source = b
    BY <1>2, OperandsOfExecuted
  <2>3. ExLoads' <=> i.op = "load"
    BY <2>1 DEF ExLoads
  <2>4. ExLoadJudged'
    <3>1. SUFFICES ASSUME i.op = "load" PROVE LoadCheckFails(t'.a, i.mtag) <=> blame'.ex
      BY <2>1, <2>3 DEF ExLoadJudged
    <3>. QED
      BY <2>1, <2>2, <3>1 DEF IsaViolates
  <2>5. ChecksJudgeTheInstruction'
    <3>1. SUFFICES ASSUME i.op # "load" PROVE ExException' <=> blame'.ex
      BY <2>3 DEF ChecksJudgeTheInstruction
    <3>2. blame'.ex = CheckFails(Checks(i.op), a, b, IsaResult(gold.tags, i))
      BY <2>1, <3>1 DEF IsaViolates
    <3>3. alu_result_tag' = IsaResult(gold.tags, i)
      BY <2>2 DEF alu_result_tag, IsaResult
    <3>4. /\ (IF t'.use_store_ops THEN t'.dest_addr ELSE t'.a) = a
          /\ (IF t'.use_store_ops THEN t'.source ELSE t'.b) = b
      BY <2>2
    <3>5. ExException' <=> CheckFails(Checks(i.op), a, b, IsaResult(gold.tags, i))
      BY <2>2, <2>3, <3>1, <3>3, <3>4 DEF ExException
    <3>. QED
      BY <3>2, <3>5
  <2>. QED
    BY <2>4, <2>5
<1>3. ASSUME ~Executes(done, answer, taken)
      PROVE  ChecksJudgeTheInstruction' /\ ExLoadJudged'
  <2>1. CASE ex' = Bubble
    BY <2>1 DEF ExLoadJudged, ChecksJudgeTheInstruction, ExLoads
  <2>2. CASE ex' # Bubble
    <3>1. ex' = ex /\ ~IdValid(done, answer, taken)
      BY <1>3, <2>2, ExMoves
    <3>2. t' = t /\ blame'.ex = blame.ex
      BY <1>1, <1>3, <2>2, <3>1, TagHalfMoves, BlameMoves DEF CarefulProgram
    <3>3. (ExLoads' <=> ExLoads) /\ (ExException' <=> ExException)
      BY <3>1, <3>2 DEF ExLoads, ExException, alu_result_tag
    <3>. QED
      BY <3>1, <3>2, <3>3 DEF ExLoadJudged, ChecksJudgeTheInstruction
  <2>. QED
    BY <2>1, <2>2
<1>4. WbLoadJudged'
  <2>1. CASE ExValid(done, answer)
    <3>1. /\ WbLoads' <=> ExLoads
          /\ ExLoads => wb' = ex /\ rs1_tag' = t.a
      BY <2>1, ClockSteps DEF StepWb, WbLoads, ExLoads
    <3>2. ExLoads => blame'.wb = blame.ex
      BY <1>1, <2>1, BlameMoves
    <3>. QED
      BY <3>1, <3>2 DEF WbLoadJudged, ExLoadJudged
  <2>2. CASE ~ExValid(done, answer)
    <3>1. SUFFICES ASSUME WbLoads' PROVE LoadCheckFails(rs1_tag', wb'.mtag) <=> blame'.wb
      BY DEF WbLoadJudged
    <3>2. wb' = wb /\ rs1_tag' = rs1_tag /\ wb' # Bubble
      BY <2>2, <3>1, ClockSteps DEF StepWb, WbLoads
    <3>3. WbLoads /\ blame'.wb = blame.wb
      BY <1>1, <2>2, <3>1, <3>2, BlameMoves DEF WbLoads
    <3>. QED
      BY <3>2, <3>3 DEF WbLoadJudged
  <2>. QED
    BY <2>1, <2>2
<1>. QED
  BY <1>2, <1>3, <1>4

(* The invariant holds after reset and at every edge. *)
LEMMA InitJudges == Init => JudgeInv
<1>1. SUFFICES ASSUME Init PROVE JudgeInv
  OBVIOUS
<1>2. ex = Bubble /\ wb = Bubble
  BY <1>1 DEF Init
<1>. QED
  BY <1>1, <1>2, InitTags DEF JudgeInv, ChecksJudgeTheInstruction, ExLoadJudged, WbLoadJudged,
                              ExLoads, WbLoads

LEMMA StepJudges ==
    ASSUME CarefulProgram
    PROVE  JudgeInv /\ MarksUndisturbed /\ [Next]_vars => JudgeInv'
<1>1. ASSUME JudgeInv, MarksUndisturbed, [Next]_vars PROVE TagInv'
  BY <1>1, StepTagInv DEF JudgeInv
<1>2. ASSUME JudgeInv, MarksUndisturbed, Next PROVE JudgeInv'
  <2>1. PICK done, answer, taken \in BOOLEAN : Clock(done, answer, taken)
    BY <1>2 DEF Next
  <2>2. TagInv' /\ Typed'
    BY <1>1, <1>2 DEF TagInv, LevelInv
  <2>. QED
    BY <1>2, <2>1, <2>2, ClockKeepsJudgements DEF JudgeInv
<1>3. ASSUME JudgeInv, MarksUndisturbed, UNCHANGED vars PROVE JudgeInv'
  <2>1. TagInv'
    BY <1>1, <1>3
  <2>2. ChecksJudgeTheInstruction' /\ ExLoadJudged' /\ WbLoadJudged'
    BY <1>3 DEF JudgeInv, vars, ChecksJudgeTheInstruction, ExLoadJudged, WbLoadJudged,
                ExException, alu_result_tag, ExLoads, WbLoads
  <2>. QED
    BY <2>1, <2>2 DEF JudgeInv
<1>. QED
  BY <1>2, <1>3

(* For the same programs and every policy: the exception output of EX is   *)
(* the verdict of the policies on the instruction in EX, whichever operand *)
(* was forwarded and however long it waits.                                *)
THEOREM TagChecksJudgeTheInstruction ==
    ASSUME CarefulProgram
    PROVE  Spec /\ []MarksUndisturbed => []ChecksJudgeTheInstruction
<1>1. JudgeInv => ChecksJudgeTheInstruction
  BY DEF JudgeInv
<1>2. Init => JudgeInv
  BY InitJudges
<1>3. JudgeInv /\ MarksUndisturbed /\ [Next]_vars => JudgeInv'
  BY StepJudges
<1>. QED
  BY <1>1, <1>2, <1>3, PTL DEF Spec

(* The same of load_check and the load in WB.  Until memory answers the    *)
(* check sees the tag of an earlier load; the hypothesis keeps it from     *)
(* looking at it.                                                          *)
THEOREM TagLoadChecksJudgeTheLoad ==
    ASSUME CarefulProgram, LoadChecksIgnoreMemory
    PROVE  Spec /\ []MarksUndisturbed => []LoadChecksJudgeTheLoad
<1>1. JudgeInv => LoadChecksJudgeTheLoad
  <2>1. SUFFICES ASSUME JudgeInv, WbLoads, NEW answer \in BOOLEAN
                 PROVE  /\ LoadException(answer) => blame.wb
                        /\ answer /\ blame.wb => LoadException(answer)
    BY DEF LoadChecksJudgeTheLoad
  <2>2. LoadCheckFails(rs1_tag, wb.mtag) <=> blame.wb
    BY <2>1 DEF JudgeInv, WbLoadJudged
  <2>3. rs1_tag \in BOOLEAN /\ rdata_tag \in BOOLEAN /\ wb.mtag \in BOOLEAN
    BY <2>1, StagesTyped DEF JudgeInv, TagInv, LevelInv, Typed, TypeOK, TagHalf, WbLoads, InstrType
  <2>4. CASE answer
    <3>1. WbTag(answer) = wb.mtag
      BY <2>1, <2>4 DEF WbTag
    <3>. QED
      BY <2>1, <2>2, <2>4, <3>1 DEF LoadException
  <2>5. CASE ~answer
    <3>1. WbTag(answer) = rdata_tag
      BY <2>5 DEF WbTag
    <3>. QED
      BY <2>1, <2>2, <2>3, <2>5, <3>1 DEF LoadException, LoadChecksIgnoreMemory
  <2>. QED
    BY <2>4, <2>5
<1>2. Init => JudgeInv
  BY InitJudges
<1>3. JudgeInv /\ MarksUndisturbed /\ [Next]_vars => JudgeInv'
  BY StepJudges
<1>. QED
  BY <1>1, <1>2, <1>3, PTL DEF Spec

(* For a program that keeps off all of these by itself nothing is assumed  *)
(* of its runs: tags, level and the checks of EX are right in all of them. *)
THEOREM CarefulProgramsFollowPolicy ==
    ASSUME CarefulProgram, MarksAreNotRefused
    PROVE  Spec => [](/\ TagsFollowProgram
                      /\ LevelFollowsProgram
                      /\ LevelIsCurrent
                      /\ ChecksJudgeTheInstruction)
<1>1. Spec => []MarksUndisturbed
  BY MarksStayUndisturbed
<1>2. Spec /\ []MarksUndisturbed => []LevelFollowsProgram /\ []LevelIsCurrent
  <2>1. NoMarkInShadow
    BY DEF CarefulProgram
  <2>. QED
    BY <2>1, TagLevelFollowsProgram, TagLevelIsCurrent
<1>3. Spec /\ []MarksUndisturbed => []TagsFollowProgram /\ []ChecksJudgeTheInstruction
  BY TagRegistersFollowProgram, TagChecksJudgeTheInstruction
<1>. QED
  BY <1>1, <1>2, <1>3, PTL
=============================================================================
