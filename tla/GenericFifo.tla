---------------------------- MODULE GenericFifo ----------------------------
(***************************************************************************)
(* rtl/components/generic_fifo.sv: a FIFO with a three-state controller    *)
(* (EMPTY, MIDDLE, FULL) and two pointers of clog2(DATA_DEPTH) bits.       *)
(*                                                                         *)
(* One step is one rising edge of clk: the combinational next-state block, *)
(* the pointer registers and the gated write of FIFO_REGISTERS.            *)
(* The clock gate is not a separate state: it stays open exactly in the    *)
(* cycles where the write condition grant_o && valid_i can hold.           *)
(***************************************************************************)
EXTENDS Integers, Sequences

CONSTANTS
    Word,         \* the values data_i can have
    DATA_DEPTH,   \* number of registers
    PtrSpan,      \* 2 ^ ADDR_DEPTH, the number of values a pointer can hold
    None,         \* no delivery in this cycle
    Unknown       \* what a read outside FIFO_REGISTERS returns (X)

ASSUME DepthAssumption ==
    /\ DATA_DEPTH \in Nat /\ DATA_DEPTH >= 2
    /\ PtrSpan \in Nat /\ PtrSpan >= DATA_DEPTH
ASSUME WordAssumption == None \notin Word /\ Unknown \notin Word

VARIABLES
    CS,               \* controller state
    Pop_Pointer_CS,   \* next register to read
    Push_Pointer_CS,  \* next register to write
    FIFO_REGISTERS,   \* the stored words
    put,              \* observation: data_i of the last cycle, if accepted
    got               \* observation: data_o of the last cycle, if consumed

vars == <<CS, Pop_Pointer_CS, Push_Pointer_CS, FIFO_REGISTERS, put, got>>

Slot == 0 .. DATA_DEPTH - 1
Pointer == 0 .. PtrSpan - 1

(* Mutant: the pointer register is one bit too wide. *)
TruncateWide(p) == p

(* An increment is cut to the width of the pointer register. *)
Truncate(p) == IF p >= PtrSpan THEN p - PtrSpan ELSE p

(* The increment used in MIDDLE and FULL, with the explicit wrap. *)
Advance(p) == IF p = DATA_DEPTH - 1 THEN 0 ELSE Truncate(p + 1)

grant_o == CS \in {"EMPTY", "MIDDLE"}
valid_o == CS \in {"MIDDLE", "FULL"}
data_o == IF Pop_Pointer_CS \in Slot THEN FIFO_REGISTERS[Pop_Pointer_CS] ELSE Unknown

(* Mutant: the wrapped neighbour is forgotten. *)
JustBehindNoWrap(p, q) == p = q - 1

(* Comparisons of the code are in 32 bits: p - 1 is never a pointer when   *)
(* p = 0, which is why the code spells the wrapped case out.               *)
JustBehind(p, q) == p = q - 1 \/ (p = DATA_DEPTH - 1 /\ q = 0)

Init ==
    /\ CS = "EMPTY"
    /\ Pop_Pointer_CS = 0
    /\ Push_Pointer_CS = 0
    /\ FIFO_REGISTERS \in [Slot -> Word]   \* the reset clears them to one value
    /\ \A i, j \in Slot : FIFO_REGISTERS[i] = FIFO_REGISTERS[j]
    /\ put = None
    /\ got = None

(* FIFO_REGISTERS[Push_Pointer_CS] <= data_i; a write outside is dropped. *)
Store(w) ==
    FIFO_REGISTERS' = [i \in Slot |-> IF i = Push_Pointer_CS THEN w ELSE FIFO_REGISTERS[i]]

(* The two handshakes of the cycle. *)
Accept(offer, w) == put' = IF offer /\ grant_o THEN w ELSE None
Deliver(take) == got' = IF valid_o /\ take THEN data_o ELSE None

EmptyIdle ==
    /\ CS = "EMPTY"
    /\ UNCHANGED <<CS, Pop_Pointer_CS, Push_Pointer_CS, FIFO_REGISTERS>>

EmptyPush(w) ==
    /\ CS = "EMPTY"
    /\ CS' = "MIDDLE"
    /\ Push_Pointer_CS' = Truncate(Push_Pointer_CS + 1)
    /\ Store(w)
    /\ UNCHANGED Pop_Pointer_CS

MiddlePop ==
    /\ CS = "MIDDLE"
    /\ CS' = IF JustBehind(Pop_Pointer_CS, Push_Pointer_CS) THEN "EMPTY" ELSE "MIDDLE"
    /\ Pop_Pointer_CS' = Advance(Pop_Pointer_CS)
    /\ UNCHANGED <<Push_Pointer_CS, FIFO_REGISTERS>>

MiddleIdle ==
    /\ CS = "MIDDLE"
    /\ UNCHANGED <<CS, Pop_Pointer_CS, Push_Pointer_CS, FIFO_REGISTERS>>

(* Mutant: the clock of the registers stays gated when a pop coincides. *)
MiddlePushPopGated(w) ==
    /\ CS = "MIDDLE"
    /\ CS' = "MIDDLE"
    /\ Push_Pointer_CS' = Advance(Push_Pointer_CS)
    /\ Pop_Pointer_CS' = Advance(Pop_Pointer_CS)
    /\ UNCHANGED FIFO_REGISTERS

MiddlePushPop(w) ==
    /\ CS = "MIDDLE"
    /\ CS' = "MIDDLE"
    /\ Push_Pointer_CS' = Advance(Push_Pointer_CS)
    /\ Pop_Pointer_CS' = Advance(Pop_Pointer_CS)
    /\ Store(w)

MiddlePush(w) ==
    /\ CS = "MIDDLE"
    /\ CS' = IF JustBehind(Push_Pointer_CS, Pop_Pointer_CS) THEN "FULL" ELSE "MIDDLE"
    /\ Push_Pointer_CS' = Advance(Push_Pointer_CS)
    /\ Store(w)
    /\ UNCHANGED Pop_Pointer_CS

FullPop ==
    /\ CS = "FULL"
    /\ CS' = "MIDDLE"
    /\ Pop_Pointer_CS' = Advance(Pop_Pointer_CS)
    /\ UNCHANGED <<Push_Pointer_CS, FIFO_REGISTERS>>

FullIdle ==
    /\ CS = "FULL"
    /\ UNCHANGED <<CS, Pop_Pointer_CS, Push_Pointer_CS, FIFO_REGISTERS>>

(* One clock edge with inputs valid_i, data_i = w and grant_i. *)
Clock(valid_i, w, grant_i) ==
    /\ Accept(valid_i, w)
    /\ Deliver(grant_i)
    /\ \/ ~valid_i /\ EmptyIdle
       \/ valid_i /\ EmptyPush(w)
       \/ ~valid_i /\ grant_i /\ MiddlePop
       \/ ~valid_i /\ ~grant_i /\ MiddleIdle
       \/ valid_i /\ grant_i /\ MiddlePushPop(w)
       \/ valid_i /\ ~grant_i /\ MiddlePush(w)
       \/ grant_i /\ FullPop
       \/ ~grant_i /\ FullIdle

Next == \E valid_i, grant_i \in BOOLEAN, w \in Word : Clock(valid_i, w, grant_i)

Spec == Init /\ [][Next]_vars

-----------------------------------------------------------------------------
(* Type invariant: the controller state, both pointers and the registers.  *)
TypeOK ==
    /\ CS \in {"EMPTY", "MIDDLE", "FULL"}
    /\ Pop_Pointer_CS \in Pointer
    /\ Push_Pointer_CS \in Pointer
    /\ FIFO_REGISTERS \in [Slot -> Word]
    /\ put \in Word \cup {None}
    /\ got \in Word \cup {None, Unknown}

(* Slot number of the i-th stored word, and how many words are stored.     *)
Wrap(n) == IF n >= DATA_DEPTH THEN n - DATA_DEPTH ELSE n

Count ==
    IF CS = "EMPTY" THEN 0
    ELSE IF CS = "FULL" THEN DATA_DEPTH
    ELSE IF Push_Pointer_CS > Pop_Pointer_CS THEN Push_Pointer_CS - Pop_Pointer_CS
    ELSE Push_Pointer_CS - Pop_Pointer_CS + DATA_DEPTH

Contents == [i \in 1 .. Count |-> FIFO_REGISTERS[Wrap(Pop_Pointer_CS + i - 1)]]

(* The two-bit controller state and the pointers never disagree about how  *)
(* full the FIFO is: EMPTY and FULL both mean equal pointers inside the    *)
(* array, MIDDLE means different ones.  If they drift, valid_o shows a     *)
(* stale word or grant_o overwrites one not yet read.                      *)
StateMatchesPointers ==
    /\ Pop_Pointer_CS \in Slot /\ Push_Pointer_CS \in Slot
    /\ CS \in {"EMPTY", "FULL"} <=> Push_Pointer_CS = Pop_Pointer_CS

(* Every cycle of the code is a cycle of the bounded queue: no accepted    *)
(* word is lost, duplicated, reordered or replaced by an unwritten one.    *)
Fifo == INSTANCE BoundedFifo WITH Depth <- DATA_DEPTH, queue <- Contents
FifoContract == Fifo!Spec
=============================================================================
