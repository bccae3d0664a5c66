--------------------------- MODULE MCTagPipeline ---------------------------
(***************************************************************************)
(* Programs and policies for TagPipeline.tla.  A run's program is a set of *)
(* instructions that may come in any order, as long and as often as TLC    *)
(* likes, but for the pairs that `MayFollow' leaves out.                    *)
(***************************************************************************)
EXTENDS TagPrograms

I(op, rd, rs1, rs2) ==
    [op |-> op, rd |-> rd, rs1 |-> rs1, rs2 |-> rs2, level |-> 0, mtag |-> FALSE]
Loads(rd, rs1) == {[I("load", rd, rs1, 0) EXCEPT !.mtag = m] : m \in BOOLEAN}
SetLevel(level) == [I("p.hset", 0, 0, 0) EXCEPT !.level = level]
Mark(rd, level) == [I("p.hmark", rd, 0, 0) EXCEPT !.level = level]

(* The TPR after reset, and one with all four modes. *)
ResetTPR ==
    [mode |-> [INTEGER |-> "OR", BRANCH |-> "OLD", JUMP |-> "OR", SHIFT |-> "OR",
               COMPARISON |-> "OLD", LOGICAL |-> "OR", LOADSTORE |-> "OR"],
     EN_SOURCE |-> TRUE, EN_SOURCE_ADDR |-> FALSE, EN_DEST_ADDR |-> FALSE]
MixedTPR ==
    [ResetTPR EXCEPT !.mode["LOGICAL"] = "AND", !.mode["SHIFT"] = "CLEAR", !.EN_DEST_ADDR = TRUE]

NoChecks == [c \in Class |-> {}]

(* The TCR after reset with checks of the other classes added. *)
MixedTCR ==
    [NoChecks EXCEPT !["COMPARISON"] = {"S1", "S2"}, !["LOADSTORE"] = {"SA", "DA"},
                     !["INTEGER"] = {"D"}, !["BRANCH"] = {"S2"}, !["LOGICAL"] = {"S1"}]

(* Every class but the comparisons, and the p. instructions. *)
TagProgram ==
    Loads(1, 2) \cup Loads(2, 0)
    \cup {I("add", 1, 1, 2), I("and", 2, 1, 2), I("shift", 1, 2, 0), I("lui", 2, 0, 0),
          I("store", 0, 2, 1), I("branch", 0, 0, 1), I("jal", 2, 0, 0),
          I("p.set", 1, 0, 0), Mark(2, 1), SetLevel(1)}

(* Every class that is checked: an instruction may be refused. *)
CheckProgram ==
    Loads(1, 2) \cup Loads(2, 0)
    \cup {I("add", 1, 1, 2), I("and", 2, 2, 0), I("store", 0, 2, 1), I("branch", 0, 0, 1),
          I("slt", 0, 1, 2)}

(* The pairs left out: an instruction behind p.set or p.hmark that reads   *)
(* its register, and a p. instruction or a jump in the shadow of a branch. *)
ReadsTheMark(i, j) == i.op \in {"p.set", "p.hmark"} /\ i.rd \in {j.rs1, j.rs2}
ShadowOfBranch(i, j) == i.op = "branch" /\ j.op \in {"p.set", "p.hmark", "p.hset", "jal"}
Careful(program) ==
    {p \in program \X program : ~ReadsTheMark(p[1], p[2]) /\ ~ShadowOfBranch(p[1], p[2])}
TagPairs == Careful(TagProgram)
CheckPairs == Careful(CheckProgram)

TwoRegisters == {1, 2}

(* What the theorems of TagPipelineProofs.tla ask of a program and its     *)
(* policies holds of both programs here.                                   *)
ASSUME ProgramsAreCareful ==
    CarefulProgram /\ MarksAreNotRefused /\ LoadChecksIgnoreMemory
=============================================================================
