------------------------------ MODULE TagUnits ------------------------------
(***************************************************************************)
(* The combinational units of the DIFT: the three decoders that look an    *)
(* instruction up in the policy registers (mode_tag.sv, enable_tag.sv,     *)
(* check_tag.sv), and the units that compute and check tags               *)
(* (tag_propagation_logic.sv, tag_check_logic.sv, load_propagation.sv,     *)
(* load_check.sv, hierarchy_check.sv).                                     *)
(*                                                                         *)
(* A tag is a Boolean.  An instruction is decoded already: what is left of *)
(* it is its operation, its registers and what memory will answer.         *)
(***************************************************************************)
EXTENDS Integers

CONSTANTS
    Reg,    \* the register numbers, without x0
    TPR,    \* tag propagation register
    TCR     \* tag check register

Operation == {"add", "mul", "shift", "slt", "and", "lui", "jal", "branch", "load", "store",
              "p.set", "p.hmark", "p.hset"}
Class == {"INTEGER", "BRANCH", "JUMP", "SHIFT", "COMPARISON", "LOGICAL", "LOADSTORE"}
ModeType == {"OLD", "AND", "OR", "CLEAR"}
Level == 0 .. 3

ASSUME RegAssumption == 0 \notin Reg

ASSUME PolicyAssumption ==
    /\ TPR \in [mode : [Class -> ModeType],
                EN_SOURCE : BOOLEAN, EN_SOURCE_ADDR : BOOLEAN, EN_DEST_ADDR : BOOLEAN]
    /\ TCR \in [Class -> SUBSET {"S1", "S2", "S", "SA", "D", "DA"}]

(* mtag is the tag the memory will return to a load. *)
InstrType == [op : Operation, rd : Reg \cup {0}, rs1 : Reg \cup {0}, rs2 : Reg \cup {0},
              level : Level, mtag : BOOLEAN]

-----------------------------------------------------------------------------
(* The decoders. *)

(* The policy class an opcode is listed under; the p. instructions have none. *)
ClassOf(op) ==
    CASE op \in {"add", "mul"}             -> "INTEGER"
      [] op = "branch"                     -> "BRANCH"
      [] op = "jal"                        -> "JUMP"
      [] op = "shift"                      -> "SHIFT"
      [] op = "slt"                        -> "COMPARISON"
      [] op = "and"                        -> "LOGICAL"
      [] op \in {"lui", "load", "store"}   -> "LOADSTORE"
      [] OTHER                             -> "none"

(* alu_operator_o_mode: a load is left to load_propagation. *)
AluMode(op) ==
    IF op = "load" \/ ClassOf(op) = "none" THEN "OLD" ELSE TPR.mode[ClassOf(op)]

(* source_1_o, source_2_o and dest_o; a branch has no destination, a load  *)
(* is left to load_check, and a store looks at the bits of its operands.   *)
Checks(op) ==
    CASE op \in {"store", "lui"} ->
             {c \in {"S1", "S2", "D"} :
                 [S1 |-> "DA", S2 |-> "S", D |-> "D"][c] \in TCR["LOADSTORE"]}
      [] op = "branch" -> TCR["BRANCH"] \cap {"S1", "S2"}
      [] op = "load" \/ ClassOf(op) = "none" -> {}
      [] OTHER -> TCR[ClassOf(op)] \cap {"S1", "S2", "D"}

RegisterSet(op) == op \in {"p.set", "p.hmark", "jal"}
RegisterSetHierarchy(op) == op \in {"p.hmark", "jal"}

(* regfile_alu_we: the operations whose result leaves EX by the ALU port.  *)
(* The decoder asserts nothing for the p. instructions.                    *)
AluWrites(op) == op \in {"add", "mul", "shift", "slt", "and", "lui", "jal"}

(* hierarchy_violation_o: the level of p.hset and p.hmark against the THR. *)
HierarchyViolation(i, current) == i.op \in {"p.hset", "p.hmark"} /\ current < i.level

-----------------------------------------------------------------------------
(* The units of EX and WB. *)

(* result_o of the propagation logic; rf_enable_tag is mode # "OLD". *)
Propagate(mode, a, b) ==
    CASE mode = "AND" -> a /\ b
      [] mode = "OR"  -> a \/ b
      [] OTHER        -> FALSE

(* The check logic of EX. *)
CheckFails(checks, a, b, result) ==
    \/ "S1" \in checks /\ a
    \/ "S2" \in checks /\ b
    \/ "D" \in checks /\ result

(* regfile_dest_tag of load_propagation; it writes unless the mode is OLD. *)
LoadResult(rs1, memory) ==
    Propagate(TPR.mode["LOADSTORE"], rs1 /\ TPR.EN_SOURCE_ADDR, memory /\ TPR.EN_SOURCE)
LoadWrites == TPR.mode["LOADSTORE"] # "OLD"

(* exception_o_tag of load_check, while a load is in WB.  The other half   *)
(* of its exception_o compares the level bits of the loaded tag with THR;  *)
(* core_region.sv connects the four mark bits of the port only, so no      *)
(* memory gives these bits a value, and the half is left out.              *)
LoadCheckFails(rs1, memory) ==
    \/ "S" \in TCR["LOADSTORE"] /\ memory
    \/ "SA" \in TCR["LOADSTORE"] /\ rs1
    \/ "D" \in TCR["LOADSTORE"] /\ LoadResult(rs1, memory)
=============================================================================
