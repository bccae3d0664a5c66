------------------------- MODULE GenericFifoProofs -------------------------
(***************************************************************************)
(* Proofs about GenericFifo for every depth that fills its pointer width   *)
(* (PtrSpan = DATA_DEPTH, that is DATA_DEPTH a power of two), every set of *)
(* words and every behaviour of producer and consumer.  The assumption is  *)
(* needed: the push taken in EMPTY increments without the wrap test that   *)
(* MIDDLE has (generic_fifo.sv:116), so at another depth the pointer runs  *)
(* past the last slot.                                                     *)
(***************************************************************************)
EXTENDS GenericFifo, TLAPS

FullWidth == PtrSpan = DATA_DEPTH

IInv == TypeOK /\ StateMatchesPointers

(* With a full-width pointer both increments of the code are the cyclic    *)
(* successor on the slots.                                                 *)
LEMMA IncrementIsCyclic ==
    ASSUME FullWidth, NEW p \in Slot
    PROVE  /\ Truncate(p + 1) = Wrap(p + 1)
           /\ Advance(p) = Wrap(p + 1)
           /\ Wrap(p + 1) \in Slot
BY DepthAssumption DEF FullWidth, Slot, Truncate, Advance, Wrap

(* The inductive step: every clock edge keeps pointers and controller      *)
(* state consistent.                                                       *)
LEMMA ClockKeepsInvariant ==
    ASSUME FullWidth, IInv, [Next]_vars
    PROVE  IInv'
<1> USE DepthAssumption DEF FullWidth, IInv, TypeOK, StateMatchesPointers, Slot, Pointer
<1>1. CASE UNCHANGED vars
  BY <1>1 DEF vars
<1>2. ASSUME NEW valid_i \in BOOLEAN, NEW grant_i \in BOOLEAN, NEW w \in Word,
             Clock(valid_i, w, grant_i)
      PROVE  IInv'
  <2>1. put' \in Word \cup {None} /\ got' \in Word \cup {None, Unknown}
    BY <1>2 DEF Clock, Accept, Deliver, data_o
  <2>2. CASE EmptyIdle \/ MiddleIdle \/ FullIdle
    BY <2>1, <2>2 DEF EmptyIdle, MiddleIdle, FullIdle
  <2>3. CASE EmptyPush(w)
    BY <2>1, <2>3 DEF EmptyPush, Store, Truncate
  <2>4. CASE MiddlePop
    BY <2>1, <2>4 DEF MiddlePop, JustBehind, Advance, Truncate
  <2>5. CASE MiddlePushPop(w)
    BY <2>1, <2>5 DEF MiddlePushPop, Store, Advance, Truncate
  <2>6. CASE MiddlePush(w)
    BY <2>1, <2>6 DEF MiddlePush, Store, JustBehind, Advance, Truncate
  <2>7. CASE FullPop
    BY <2>1, <2>7 DEF FullPop, Advance, Truncate
  <2> QED
    BY <1>2, <2>2, <2>3, <2>4, <2>5, <2>6, <2>7 DEF Clock
<1> QED
  BY <1>1, <1>2 DEF Next

(* The reset state: both pointers in slot 0, the controller EMPTY.         *)
LEMMA InitInvariant == ASSUME Init PROVE IInv
BY DepthAssumption DEF Init, IInv, TypeOK, StateMatchesPointers, Slot, Pointer

(* TypeOK holds of generic_fifo for every power-of-two depth.              *)
THEOREM FifoTypeCorrect == ASSUME FullWidth PROVE Spec => []TypeOK
<1>1. IInv => TypeOK
  BY DEF IInv
<1> QED
  BY <1>1, InitInvariant, ClockKeepsInvariant, PTL DEF Spec

(* The controller state and the pointers of generic_fifo always agree.     *)
THEOREM FifoStateMatchesPointers == ASSUME FullWidth PROVE Spec => []StateMatchesPointers
<1>1. IInv => StateMatchesPointers
  BY DEF IInv
<1> QED
  BY <1>1, InitInvariant, ClockKeepsInvariant, PTL DEF Spec

-----------------------------------------------------------------------------
(* Contents is a sequence of Count words; the first is what data_o shows.  *)
ContentsShape ==
    /\ Count \in 0 .. DATA_DEPTH
    /\ Contents \in Seq(Word)
    /\ Len(Contents) = Count
    /\ Count # 0 => Contents # << >> /\ Head(Contents) = data_o
    /\ Count = 0 => Contents = << >>
    /\ Count = 0 <=> CS = "EMPTY"
    /\ Count = DATA_DEPTH <=> CS = "FULL"

(* The invariant fixes how many words are stored and where each one is.    *)
LEMMA InvariantShapesContents == IInv => ContentsShape
<1> SUFFICES ASSUME IInv PROVE ContentsShape
  OBVIOUS
<1> USE DepthAssumption DEF IInv, TypeOK, StateMatchesPointers, Slot, Pointer
<1>1. /\ Count \in 0 .. DATA_DEPTH
      /\ Count = 0 <=> CS = "EMPTY"
      /\ Count = DATA_DEPTH <=> CS = "FULL"
  BY DEF Count
<1>2. \A i \in 1 .. Count : FIFO_REGISTERS[Wrap(Pop_Pointer_CS + i - 1)] \in Word
  <2> TAKE i \in 1 .. Count
  <2>1. Wrap(Pop_Pointer_CS + i - 1) \in Slot
    BY <1>1 DEF Wrap
  <2> QED
    BY <2>1
<1>3. Contents \in Seq(Word) /\ Len(Contents) = Count
  BY <1>1, <1>2 DEF Contents
<1>4. ASSUME Count # 0
      PROVE  Contents # << >> /\ Head(Contents) = data_o
  <2>1. 1 \in 1 .. Count
    BY <1>1, <1>4
  <2>2. Contents[1] = FIFO_REGISTERS[Wrap(Pop_Pointer_CS + 1 - 1)]
    BY <2>1 DEF Contents
  <2>3. Wrap(Pop_Pointer_CS + 1 - 1) = Pop_Pointer_CS
    BY DEF Wrap
  <2> QED
    BY <1>3, <1>4, <2>2, <2>3 DEF data_o
<1> QED
  BY <1>1, <1>3, <1>4 DEF ContentsShape

(* How the number of stored words changes in one clock edge, and where the *)
(* words go: the three facts that make the FIFO a queue.                   *)
LEMMA ContentsAfterClock ==
    ASSUME FullWidth, IInv, IInv',
           NEW valid_i \in BOOLEAN, NEW grant_i \in BOOLEAN, NEW w \in Word,
           Clock(valid_i, w, grant_i)
    PROVE  LET accepted  == valid_i /\ Count < DATA_DEPTH
               delivered == grant_i /\ Count # 0
               skipped   == IF delivered THEN 1 ELSE 0
           IN  /\ Count' = Count - skipped + (IF accepted THEN 1 ELSE 0)
               /\ \A i \in 1 .. Count - skipped :
                      /\ i \in 1 .. Count' /\ i + skipped \in 1 .. Count
                      /\ Contents'[i] = Contents[i + skipped]
               /\ accepted => Contents'[Count - skipped + 1] = w
<1> DEFINE accepted  == valid_i /\ Count < DATA_DEPTH
           delivered == grant_i /\ Count # 0
           skipped   == IF delivered THEN 1 ELSE 0
<1> USE DepthAssumption DEF FullWidth, IInv, TypeOK, StateMatchesPointers, Slot, Pointer
<1>1. /\ Count' = Count - skipped + (IF accepted THEN 1 ELSE 0)
      /\ Count \in 0 .. DATA_DEPTH /\ Count' \in 0 .. DATA_DEPTH
  <2>1. Count \in 0 .. DATA_DEPTH /\ Count' \in 0 .. DATA_DEPTH
    <3>1. (IInv => ContentsShape)'
      BY InvariantShapesContents, PTL
    <3> QED BY <3>1, InvariantShapesContents DEF ContentsShape
  <2>2. CASE ~valid_i /\ EmptyIdle
    BY <2>1, <2>2 DEF EmptyIdle, Count
  <2>9. CASE ~valid_i /\ ~grant_i /\ MiddleIdle
    BY <2>1, <2>9 DEF MiddleIdle, Count
  <2>8. CASE ~grant_i /\ FullIdle
    BY <2>1, <2>8 DEF FullIdle, Count
  <2>3. CASE valid_i /\ EmptyPush(w)
    BY <2>1, <2>3 DEF EmptyPush, Count, Truncate
  <2>4. CASE ~valid_i /\ grant_i /\ MiddlePop
    BY <2>1, <2>4 DEF MiddlePop, Count, Advance, Truncate, JustBehind
  <2>5. CASE valid_i /\ grant_i /\ MiddlePushPop(w)
    BY <2>1, <2>5 DEF MiddlePushPop, Count, Advance, Truncate
  <2>6. CASE valid_i /\ ~grant_i /\ MiddlePush(w)
    BY <2>1, <2>6 DEF MiddlePush, Count, Advance, Truncate, JustBehind
  <2>7. CASE grant_i /\ FullPop
    BY <2>1, <2>7 DEF FullPop, Count, Advance, Truncate
  <2> HIDE DEF accepted, skipped, IInv, TypeOK, StateMatchesPointers, FullWidth
  <2> QED
    BY <2>1, <2>2, <2>3, <2>4, <2>5, <2>6, <2>7, <2>8, <2>9, Zenon DEF Clock
<1>2. Pop_Pointer_CS' = Wrap(Pop_Pointer_CS + skipped)
  BY DEF Clock, Count, EmptyIdle, MiddleIdle, FullIdle, EmptyPush, MiddlePush, MiddlePop,
         MiddlePushPop, FullPop, Advance, Truncate, Wrap
<1>3. FIFO_REGISTERS' = IF accepted
                        THEN [i \in Slot |-> IF i = Push_Pointer_CS THEN w ELSE FIFO_REGISTERS[i]]
                        ELSE FIFO_REGISTERS
  BY DEF Clock, Count, EmptyIdle, MiddleIdle, FullIdle, EmptyPush, MiddlePush, MiddlePop,
         MiddlePushPop, FullPop, Store
<1>4. Count < DATA_DEPTH => Push_Pointer_CS = Wrap(Pop_Pointer_CS + Count)
  BY DEF Count, Wrap
<1>5. ASSUME NEW i \in 1 .. Count - skipped
      PROVE  /\ i \in 1 .. Count' /\ i + skipped \in 1 .. Count
             /\ Contents'[i] = Contents[i + skipped]
  <2>1. i \in 1 .. Count' /\ i + skipped \in 1 .. Count
    BY <1>1
  <2>2. /\ Contents'[i] = FIFO_REGISTERS'[Wrap(Pop_Pointer_CS' + i - 1)]
        /\ Contents[i + skipped] = FIFO_REGISTERS[Wrap(Pop_Pointer_CS + (i + skipped) - 1)]
    BY <2>1 DEF Contents, Wrap
  <2>3. Wrap(Pop_Pointer_CS' + i - 1) = Wrap(Pop_Pointer_CS + (i + skipped) - 1)
    BY <1>1, <1>2, <2>1 DEF Wrap
  <2>4. Wrap(Pop_Pointer_CS + (i + skipped) - 1) \in Slot
    BY <1>1, <2>1 DEF Wrap
  <2>5. accepted => Wrap(Pop_Pointer_CS + (i + skipped) - 1) # Push_Pointer_CS
    BY <1>1, <1>4, <2>1 DEF Wrap
  <2> QED
    BY <1>3, <2>1, <2>2, <2>3, <2>4, <2>5
<1>6. ASSUME accepted
      PROVE  Contents'[Count - skipped + 1] = w
  <2>1. Count' = Count - skipped + 1 /\ Count' \in 1 .. Count'
    BY <1>1, <1>6
  <2>2. Contents'[Count'] = FIFO_REGISTERS'[Wrap(Pop_Pointer_CS' + Count' - 1)]
    BY <2>1 DEF Contents, Wrap
  <2>3. Wrap(Pop_Pointer_CS' + Count' - 1) = Push_Pointer_CS
    BY <1>1, <1>2, <1>4, <1>6, <2>1 DEF Wrap
  <2> QED
    BY <1>3, <1>6, <2>1, <2>2, <2>3
<1> QED
  BY <1>1, <1>5, <1>6

(* A clock edge of generic_fifo is a cycle of the bounded queue.           *)
LEMMA ClockIsCycle ==
    ASSUME FullWidth, IInv, IInv',
           NEW valid_i \in BOOLEAN, NEW grant_i \in BOOLEAN, NEW w \in Word,
           Clock(valid_i, w, grant_i)
    PROVE  Fifo!Cycle(valid_i, w, grant_i)
<1> DEFINE accepted  == valid_i /\ Count < DATA_DEPTH
           delivered == grant_i /\ Count # 0
           skipped   == IF delivered THEN 1 ELSE 0
           rest      == IF delivered THEN Tail(Contents) ELSE Contents
<1>1. /\ Count \in Nat /\ Contents \in Seq(Word) /\ Len(Contents) = Count
      /\ Count # 0 => Contents # << >> /\ Head(Contents) = data_o
      /\ Count = 0 => Contents = << >>
      /\ Count = 0 <=> CS = "EMPTY"
  BY InvariantShapesContents, DepthAssumption DEF ContentsShape
<1>2. Contents' \in Seq(Word) /\ Len(Contents') = Count' /\ Count' \in Nat
  <2>1. (IInv => ContentsShape)'
    BY InvariantShapesContents, PTL
  <2> QED BY <2>1, DepthAssumption DEF ContentsShape
<1>3. /\ Count' = Count - skipped + (IF accepted THEN 1 ELSE 0)
      /\ \A i \in 1 .. Count - skipped : Contents'[i] = Contents[i + skipped]
      /\ accepted => Contents'[Count - skipped + 1] = w
  BY ContentsAfterClock
<1>4. rest \in Seq(Word) /\ Len(rest) = Count - skipped
  BY <1>1
<1>5. \A i \in 1 .. Count - skipped : rest[i] = Contents[i + skipped]
  BY <1>1
<1>6. Contents' = IF accepted THEN Append(rest, w) ELSE rest
  <2> HIDE DEF rest
  <2>1. CASE accepted
    <3>1. Append(rest, w) \in Seq(Word) /\ Len(Append(rest, w)) = Count'
      BY <1>3, <1>4, <2>1
    <3>2. \A i \in 1 .. Count' : Contents'[i] = Append(rest, w)[i]
      BY <1>1, <1>3, <1>4, <1>5, <2>1
    <3> QED
      BY <1>2, <2>1, <3>1, <3>2
  <2>2. CASE ~accepted
    <3>1. \A i \in 1 .. Count' : Contents'[i] = rest[i]
      BY <1>1, <1>3, <1>5, <2>2
    <3> QED
      BY <1>2, <1>3, <1>4, <2>2, <3>1
  <2> QED BY <2>1, <2>2
<1>7. got' = IF delivered THEN Head(Contents) ELSE None
  BY <1>1 DEF Clock, Deliver, valid_o, IInv, TypeOK
<1>8. put' = IF accepted THEN w ELSE None
  <2>1. Count < DATA_DEPTH <=> grant_o
    BY <1>1, InvariantShapesContents, DepthAssumption DEF ContentsShape, grant_o, IInv, TypeOK
  <2> QED
    BY <2>1 DEF Clock, Accept
<1> QED
  BY <1>1, <1>6, <1>7, <1>8 DEF Fifo!Cycle

(* generic_fifo implements the bounded queue: for every power-of-two depth *)
(* no accepted word is lost, duplicated or reordered.                      *)
THEOREM FifoImplementsQueue == ASSUME FullWidth PROVE Spec => FifoContract
<1>1. Init => Fifo!Init
  <2> SUFFICES ASSUME Init PROVE Fifo!Init
    OBVIOUS
  <2>1. Count = 0
    BY DEF Init, Count
  <2> QED
    BY <2>1, InitInvariant, InvariantShapesContents DEF Init, Fifo!Init, ContentsShape
<1>2. IInv /\ IInv' /\ [Next]_vars => [Fifo!Next]_(Fifo!vars)
  <2> SUFFICES ASSUME IInv, IInv', [Next]_vars
               PROVE  [Fifo!Next]_(Fifo!vars)
    OBVIOUS
  <2>1. CASE UNCHANGED vars
    BY <2>1 DEF vars, Fifo!vars, Contents, Count, Wrap
  <2>2. CASE Next
    BY <2>2, ClockIsCycle DEF Next, Fifo!Next
  <2> QED BY <2>1, <2>2
<1> QED
  BY <1>1, <1>2, InitInvariant, ClockKeepsInvariant, PTL DEF Spec, FifoContract, Fifo!Spec
=============================================================================
