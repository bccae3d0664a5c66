---------------------------- MODULE TagPrograms ----------------------------
(***************************************************************************)
(* Which programs and policies the pipeline of TagPipeline.tla executes as *)
(* the policies have it: those that keep off the places where it does not. *)
(***************************************************************************)
EXTENDS TagPipeline

(* What acts on tags or THR by itself, without a result of the ALU. *)
Marking == {"p.set", "p.hmark", "p.hset", "jal"}

(* j may come into ID when i leaves it. *)
MayComeAfter(i, j) == i = nop \/ <<i, j>> \in MayFollow

(* The tag half of ID/EX is loaded by an instruction that a taken branch   *)
(* has killed (riscv.patch:20618), so none of these stands behind one.     *)
NoMarkInShadow ==
    \A i, j \in Instr : MayComeAfter(i, j) => ~(i.op = "branch" /\ j.op \in Marking)

(* p.set and p.hmark write no data register and are not forwarded          *)
(* (riscv.patch:1054), so nothing behind them reads their register.        *)
NoReadBehindMark ==
    \A i, j \in Instr :
        MayComeAfter(i, j) /\ i.op \in {"p.set", "p.hmark"} => i.rd \notin {j.rs1, j.rs2} \ {0}

(* A multiply does not load the tag half (riscv.patch:20618). *)
NoMultiply == \A i \in Instr : i.op # "mul"

(* A load forwards the tag of memory (riscv.patch:20158), so it is also    *)
(* the one that the policy writes.                                         *)
LoadsForwardTheirTag ==
    (\E i \in Instr : i.op = "load") =>
        LoadWrites /\ \A a, m \in BOOLEAN : LoadResult(a, m) = m

(* EX forwards its tag also when the mode OLD keeps it from being written  *)
(* (riscv.patch:20157 and 19585), so a result is not under that mode.      *)
ResultsAreWritten ==
    \A i \in Instr : AluWrites(i.op) /\ i.op # "jal" /\ i.rd # 0 => AluMode(i.op) # "OLD"

CarefulProgram ==
    /\ NoMarkInShadow /\ NoReadBehindMark /\ NoMultiply
    /\ LoadsForwardTheirTag /\ ResultsAreWritten

(* An instruction that is refused loads the tag half too, a cycle later.   *)
(* Of a run: no exception is raised while one that marks or sets a level   *)
(* is in ID, or while an instruction waits behind a mark in EX.            *)
MarksUndisturbed ==
    id.valid /\ (id.instr.op \in Marking \/ (ex # Bubble /\ ex.op \in {"p.set", "p.hmark"}))
        => \A answer \in BOOLEAN : ~Illegal(answer)

(* Of a program, so that each of its runs is such: it has none of these,   *)
(* or no policy checks anything and no level is below one asked for.       *)
MarksAreNotRefused ==
    \/ \A i \in Instr : i.op \notin Marking
    \/ /\ \A c \in Class : TCR[c] = {}
       /\ \A i, j \in Instr :
              i.op = "p.hset" /\ j.op \in {"p.hset", "p.hmark"} => j.level <= i.level

(* Until memory answers, load_check looks at the tag of an earlier load    *)
(* (riscv.patch:21103), so no check of a load depends on its tag.          *)
LoadChecksIgnoreMemory ==
    \A a, m, n \in BOOLEAN : LoadCheckFails(a, m) => LoadCheckFails(a, n)
=============================================================================
