-------------------------- MODULE CoreRegionProofs --------------------------
(***************************************************************************)
(* Proofs about CoreRegion: for every set of accesses, every RAM size and  *)
(* every behaviour of the other master and of AXI, an access is under way  *)
(* exactly while the controller waits for its answer, and the data RAM     *)
(* holds what the stores of the program and the other master wrote.        *)
(***************************************************************************)
EXTENDS CoreRegion, TLAPS

(* The parts of TypeOK the two invariants rest on. *)
Typed ==
    /\ CS \in States
    /\ port1_rvalid \in BOOLEAN
    /\ ex \in AccessType \cup {NoAccess}
    /\ axi \in Word \cup {NoAnswer}

Stalled == CS \in {"WAIT_RVALID_EX_STALL", "IDLE_EX_STALL"}

(* A granted access that EX cannot release is still in EX, and the history *)
(* variable `first' has the word the second part is to follow.             *)
PartsInOrder ==
    /\ Stalled => ex # NoAccess
    /\ Stalled /\ Misaligned(ex) => first.word = ex.word
    /\ ~Stalled /\ ex # NoAccess /\ ex.second => ex.word = first.word + 1

IInv == Typed /\ AnswersAreAwaited /\ PartsInOrder /\ StoresWriteTheirBytes

-----------------------------------------------------------------------------
(* Where a byte of the register goes. *)

(* In the first part lane l of the rotated word is byte l - off, in the    *)
(* second part byte l + 4 - off.                                           *)
LEMMA RotatedByte ==
    ASSUME NEW off \in Lane, NEW l \in Lane, NEW data
    PROVE  /\ l >= off => Rotate(data, off)[l] = data[l - off]
           /\ l < off => Rotate(data, off)[l] = data[l + 4 - off]
<1>1. l >= off => (l - off) % 4 = l - off
  BY SMT DEF Lane
<1>2. l < off => (l - off) % 4 = l + 4 - off
  <2>. SUFFICES ASSUME l < off PROVE (l - off) % 4 = l + 4 - off
    OBVIOUS
  <2>1. l - off = -1 \/ l - off = -2 \/ l - off = -3
    BY DEF Lane
  <2>. QED
    BY <2>1, SMT DEF Lane
<1>3. Rotate(data, off)[l] = data[(l - off) % 4]
  BY DEF Rotate
<1>. QED
  BY <1>1, <1>2, <1>3

(* Merging the rotated word under the byte enables is storing the bytes.   *)
LEMMA MergeIsStore ==
    ASSUME NEW type \in Type, NEW off \in Lane, NEW second \in BOOLEAN, NEW data, NEW old
    PROVE  WriteLanes(old, ByteEnable(type, off, second), Rotate(data, off))
             = StoredWord(type, off, second, data, old)
<1>. DEFINE k(l) == IF second THEN l + 4 - off ELSE l - off
            Merged == WriteLanes(old, ByteEnable(type, off, second), Rotate(data, off))
            Stored == StoredWord(type, off, second, data, old)
<1>1. ASSUME NEW l \in Lane
      PROVE  Merged[l] = Stored[l]
  <2>1. l \in ByteEnable(type, off, second) <=> k(l) \in 0 .. Size(type) - 1
    <3>1. Size(type) \in {1, 2, 4}
      BY DEF Size, Type
    <3>2. CASE second
      BY <3>1, <3>2, SMT DEF ByteEnable, Lane
    <3>3. CASE ~second
      BY <3>1, <3>3, SMT DEF ByteEnable, Lane
    <3>. QED
      BY <3>2, <3>3
  <2>2. ASSUME l \in ByteEnable(type, off, second)
        PROVE  Rotate(data, off)[l] = data[k(l)]
    <3>1. Size(type) \in {1, 2, 4}
      BY DEF Size, Type
    <3>2. CASE second
      <4>1. l < off
        BY <2>2, <3>1, <3>2, SMT DEF ByteEnable, Lane
      <4>. QED
        BY <4>1, <3>2, RotatedByte
    <3>3. CASE ~second
      <4>1. l >= off
        BY <2>2, <3>1, <3>3, SMT DEF ByteEnable, Lane
      <4>. QED
        BY <4>1, <3>3, RotatedByte
    <3>. QED
      BY <3>2, <3>3
  <2>3. Merged[l] = IF l \in ByteEnable(type, off, second) THEN Rotate(data, off)[l] ELSE old[l]
    BY DEF WriteLanes
  <2>4. Stored[l] = IF k(l) \in 0 .. Size(type) - 1 THEN data[k(l)] ELSE old[l]
    BY Zenon DEF StoredWord
  <2>. HIDE DEF k, Merged, Stored
  <2>5. CASE l \in ByteEnable(type, off, second)
    BY <2>1, <2>2, <2>3, <2>4, <2>5, Zenon
  <2>6. CASE l \notin ByteEnable(type, off, second)
    BY <2>1, <2>3, <2>4, <2>6, Zenon
  <2>. QED
    BY <2>5, <2>6
<1>2. Merged = [l \in Lane |-> Merged[l]]
  BY Zenon DEF WriteLanes
<1>3. Stored = [l \in Lane |-> Stored[l]]
  BY Zenon DEF StoredWord
<1>. HIDE DEF k, Merged, Stored
<1>4. Merged = Stored
  BY <1>1, <1>2, <1>3, Zenon
<1>. QED
  BY <1>4 DEF Merged, Stored

-----------------------------------------------------------------------------
(* Facts about the signals of one cycle. *)

(* A rotated word is a word. *)
LEMMA RotateTyped ==
    ASSUME NEW data \in Word, NEW off \in Lane
    PROVE  Rotate(data, off) \in Word
<1>1. \A l \in Lane : (l - off) % 4 \in Lane
  BY SMT DEF Lane
<1>. QED
  BY <1>1 DEF Rotate, Word

(* What the core asks of the RAM is a request or nothing. *)
LEMMA CoreRequestTyped ==
    ASSUME Typed, NEW rvalid \in BOOLEAN
    PROVE  /\ CoreDataReq(rvalid) \in Request \cup {NoRequest}
           /\ Requests(ex, rvalid) /\ ~IsAxiAddr => CoreDataReq(rvalid) \in Request
<1>1. CASE Requests(ex, rvalid) /\ ~IsAxiAddr
  <2>1. ex \in AccessType /\ ex.word \in RamWord
    BY <1>1 DEF Typed, Requests, IsAxiAddr
  <2>2. ByteEnable(ex.type, ex.off, ex.second) \in SUBSET Lane
    BY <2>1, SMT DEF ByteEnable, AccessType, Lane, Size, Type
  <2>3. Rotate(ex.data, ex.off) \in Word
    BY <2>1, RotateTyped DEF AccessType
  <2>. QED
    BY <1>1, <2>1, <2>2, <2>3 DEF CoreDataReq, Request, AccessType
<1>2. CASE ~(Requests(ex, rvalid) /\ ~IsAxiAddr)
  BY <1>2 DEF CoreDataReq
<1>. QED
  BY <1>1, <1>2

(* The core's request is NoRequest exactly when it makes none to the RAM.  *)
LEMMA CoreRequest ==
    ASSUME Typed, NEW rvalid \in BOOLEAN
    PROVE  (CoreDataReq(rvalid) # NoRequest) <=> (Requests(ex, rvalid) /\ ~IsAxiAddr)
<1>1. CASE Requests(ex, rvalid) /\ ~IsAxiAddr
  BY <1>1, CoreRequestTyped, RequestAssumption
<1>2. CASE ~(Requests(ex, rvalid) /\ ~IsAxiAddr)
  BY <1>2 DEF CoreDataReq
<1>. QED
  BY <1>1, <1>2

(* A grant is only given to a request, and the RAM answers its own.        *)
LEMMA GrantFacts ==
    ASSUME Typed, NEW rvalid \in BOOLEAN, NEW port0, NEW axiGrants \in BOOLEAN
    PROVE  LET gnt == core_lsu_gnt(port0, axiGrants, rvalid)
           IN  /\ gnt \in BOOLEAN
               /\ gnt => Requests(ex, rvalid)
               /\ Port1Grant(port0, CoreDataReq(rvalid)) <=> gnt /\ ~IsAxiAddr
               /\ gnt /\ ~IsAxiAddr => port0 = NoRequest
BY CoreRequest DEF core_lsu_gnt, Port1Grant, IsAxiAddr, Requests

(* In every cycle the controller takes one of the transitions of its FSM   *)
(* and waits afterwards if and only if it was granted an access, or waited *)
(* without an answer.                                                      *)
LEMMA WaitsForAnswer ==
    ASSUME CS \in States, NEW gnt \in BOOLEAN, NEW rvalid \in BOOLEAN,
           NEW exValid \in BOOLEAN, Fsm(gnt, rvalid, exValid),
           gnt => Requests(ex, rvalid),
           rvalid => CS \in {"WAIT_RVALID", "WAIT_RVALID_EX_STALL"}
    PROVE  /\ CS' \in States
           /\ CS' \in {"WAIT_RVALID", "WAIT_RVALID_EX_STALL"}
                <=> gnt \/ (CS \in {"WAIT_RVALID", "WAIT_RVALID_EX_STALL"} /\ ~rvalid)
           /\ exValid => ~Stalled'
           /\ ~exValid => (Stalled' <=> gnt \/ Stalled)
<1>. USE DEF States, Requests, Stalled
<1>1. CASE TakeGrant(gnt, exValid)
  BY <1>1, Zenon DEF TakeGrant
<1>2. CASE TakeAnswer(gnt, rvalid)
  BY <1>2, Zenon DEF TakeAnswer
<1>3. CASE AnswerInStall(rvalid, exValid)
  BY <1>3, Zenon DEF AnswerInStall
<1>4. CASE LeaveStall(rvalid, exValid)
  BY <1>4, Zenon DEF LeaveStall
<1>5. CASE StayPut(gnt, rvalid, exValid)
  BY <1>5, Zenon DEF StayPut
<1>. QED
  BY <1>1, <1>2, <1>3, <1>4, <1>5 DEF Fsm

-----------------------------------------------------------------------------
(* The second part of an access is an access to the word after the first.  *)
LEMMA SecondPartTyped ==
  ASSUME NEW a \in AccessType, NEW b \in SecondPart(a)
  PROVE  b \in AccessType /\ b.word = a.word + 1
<1>1. PICK tag \in {a.tag, FALSE} : b = [a EXCEPT !.second = TRUE, !.word = @ + 1, !.tag = tag]
  BY DEF SecondPart
<1>2. a.word + 1 \in Int /\ a.tag \in BOOLEAN
  BY DEF AccessType
<1>3. b \in AccessType
  BY <1>1, <1>2, Zenon DEF AccessType
<1>4. b.word = a.word + 1
  BY <1>1, Zenon DEF AccessType
<1>. QED
  BY <1>3, <1>4

-----------------------------------------------------------------------------
(* After reset nothing is in EX, WB or a memory, and the RAM is its own    *)
(* history.                                                                *)
THEOREM InitEstablishes == Init => IInv
<1>. SUFFICES ASSUME Init PROVE IInv
  OBVIOUS
<1>1. CS = "IDLE" /\ port1_rvalid = FALSE /\ ex = NoAccess /\ axi = NoAnswer
  BY DEF Init, LsuInit, RamInit
<1>2. Typed /\ AnswersAreAwaited /\ PartsInOrder
  BY <1>1 DEF Typed, States, AnswersAreAwaited, PartsInOrder, Stalled, Misaligned
<1>3. StoresWriteTheirBytes
  BY DEF Init, StoresWriteTheirBytes
<1>. QED
  BY <1>2, <1>3 DEF IInv

(* What every clock edge establishes, one conjunct of IInv at a time.      *)
LEMMA ClockPreserves ==
    ASSUME IInv,
           NEW port0 \in OtherAccess \cup {NoRequest},
           NEW axiGrants \in BOOLEAN, NEW axiAnswers \in BOOLEAN, NEW stall \in ExStall,
           Clock(port0, axiGrants, axiAnswers, stall)
    PROVE  IInv'
<1>. DEFINE rvalid == core_lsu_rvalid(axiAnswers)
            gnt == core_lsu_gnt(port0, axiGrants, rvalid)
            exValid == ExValid(gnt, rvalid, stall)
<1>0. Typed /\ AnswersAreAwaited /\ PartsInOrder /\ StoresWriteTheirBytes
  BY DEF IInv
<1>1. /\ axiAnswers => axi # NoAnswer
      /\ StepAxi(gnt, axiAnswers)
      /\ Fsm(gnt, rvalid, exValid)
      /\ RamClock(port0, CoreDataReq(rvalid), WeTag, WdataTag)
      /\ Route(gnt, rvalid)
      /\ Observe(port0, gnt)
      /\ StepEx(exValid)
  BY Zenon DEF Clock, LsuClock
<1>2. /\ rvalid \in BOOLEAN
      /\ rvalid => CS \in {"WAIT_RVALID", "WAIT_RVALID_EX_STALL"}
  BY <1>0, <1>1 DEF core_lsu_rvalid, Typed, AnswersAreAwaited
<1>3. /\ gnt \in BOOLEAN
      /\ gnt => Requests(ex, rvalid)
      /\ Port1Grant(port0, CoreDataReq(rvalid)) <=> gnt /\ ~IsAxiAddr
      /\ gnt /\ ~IsAxiAddr => port0 = NoRequest
  BY <1>0, <1>2, GrantFacts
<1>4. /\ exValid \in BOOLEAN
      /\ exValid => (Requests(ex, rvalid) => gnt) /\ (CS = "WAIT_RVALID" => rvalid)
  BY <1>2, SurroundingsAssumption DEF ExValid, ReadyEx, ReadyWb
<1>5. port1_rvalid' = (gnt /\ ~IsAxiAddr)
  BY <1>1, <1>3 DEF RamClock, Port1Grant
<1>6. /\ IsAxiAddr /\ gnt => axi' \in AxiWord
      /\ ~(IsAxiAddr /\ gnt) => axi' = IF axiAnswers THEN NoAnswer ELSE axi
  BY <1>1 DEF StepAxi
<1>7. lsu_resp_CS' = IF Requests(ex, rvalid) THEN IF IsAxiAddr THEN "AXI" ELSE "RAM"
                                             ELSE lsu_resp_CS
  BY <1>1 DEF Route
<1>. HIDE DEF rvalid, gnt, exValid
<1>8. /\ CS' \in States
      /\ CS' \in {"WAIT_RVALID", "WAIT_RVALID_EX_STALL"}
           <=> gnt \/ (CS \in {"WAIT_RVALID", "WAIT_RVALID_EX_STALL"} /\ ~rvalid)
      /\ ~exValid => (Stalled' <=> gnt \/ Stalled)
      /\ exValid => ~Stalled'
  BY <1>0, <1>1, <1>2, <1>3, <1>4, WaitsForAnswer DEF Typed
<1>9. \/ /\ exValid /\ Misaligned(ex)
         /\ ex' \in SecondPart(ex)
      \/ /\ exValid \/ ex = NoAccess
         /\ ex' \in Access \cup {NoAccess}
      \/ /\ ~exValid /\ ex' = ex
  BY <1>1 DEF StepEx, Issue
<1>10. Typed'
  <2>1. ex' \in AccessType \cup {NoAccess}
    <3>1. CASE Misaligned(ex) /\ ex' \in SecondPart(ex)
      BY <1>0, <3>1, SecondPartTyped DEF Typed, Misaligned
    <3>2. CASE ex' \in Access \cup {NoAccess} \/ ex' = ex
      BY <1>0, <3>2, AccessAssumption DEF Typed
    <3>. QED
      BY <1>9, <3>1, <3>2
  <2>2. axi' \in Word \cup {NoAnswer}
    BY <1>0, <1>6, SurroundingsAssumption DEF Typed
  <2>. QED
    BY <1>3, <1>5, <1>8, <2>1, <2>2 DEF Typed
<1>11. AnswersAreAwaited'
  <2>1. rvalid <=> port1_rvalid \/ axiAnswers
    BY DEF rvalid, core_lsu_rvalid
  <2>2. CASE gnt
    <3>1. Requests(ex, rvalid) /\ (CS = "WAIT_RVALID" => rvalid)
      BY <1>3, <2>2 DEF Requests
    <3>2. CASE IsAxiAddr
      BY <1>5, <1>6, <1>7, <1>8, <2>2, <3>1, <3>2, SurroundingsAssumption DEF AnswersAreAwaited
    <3>3. CASE ~IsAxiAddr
      <4>1. axi' = NoAnswer
        BY <1>0, <1>1, <1>6, <2>1, <2>2, <3>1, <3>3 DEF AnswersAreAwaited, Requests
      <4>. QED
        BY <1>5, <1>7, <1>8, <2>2, <3>1, <3>3, <4>1 DEF AnswersAreAwaited
    <3>. QED
      BY <3>2, <3>3
  <2>3. CASE ~gnt
    <3>1. port1_rvalid' = FALSE /\ axi' = IF axiAnswers THEN NoAnswer ELSE axi
      BY <1>5, <1>6, <2>3
    <3>2. CASE axi # NoAnswer /\ ~axiAnswers
      <4>1. ~rvalid /\ ~Requests(ex, rvalid)
        BY <1>0, <2>1, <3>2 DEF AnswersAreAwaited, Requests
      <4>. QED
        BY <1>0, <1>7, <1>8, <2>3, <3>1, <3>2, <4>1 DEF AnswersAreAwaited
    <3>3. CASE axi = NoAnswer \/ axiAnswers
      <4>1. axi' = NoAnswer
        BY <3>1, <3>3
      <4>2. CS \in {"WAIT_RVALID", "WAIT_RVALID_EX_STALL"} => rvalid
        BY <1>0, <2>1, <3>3 DEF AnswersAreAwaited
      <4>. QED
        BY <1>8, <2>3, <3>1, <4>1, <4>2 DEF AnswersAreAwaited
    <3>. QED
      BY <3>2, <3>3
  <2>. QED
    BY <1>3, <2>2, <2>3
<1>12. gnt => ~Stalled
  BY <1>3 DEF Requests, Stalled
<1>13. /\ gnt /\ Misaligned(ex) => first'.word = ex.word
       /\ ~gnt => first' = first
  BY <1>1 DEF Observe, Misaligned
<1>14. PartsInOrder'
  <2>1. ASSUME Stalled'
        PROVE  ~exValid /\ ex' = ex /\ ex # NoAccess
    BY <1>0, <1>3, <1>8, <1>9, <2>1 DEF PartsInOrder, Requests
  <2>2. Stalled' => ex' # NoAccess
    BY <2>1
  <2>3. ASSUME Stalled', Misaligned(ex')
        PROVE  first'.word = ex'.word
    <3>1. CASE gnt
      BY <1>13, <2>1, <2>3, <3>1
    <3>2. CASE ~gnt
      BY <1>0, <1>8, <1>13, <2>1, <2>3, <3>2 DEF PartsInOrder
    <3>. QED
      BY <3>1, <3>2
  <2>4. ASSUME ~Stalled', ex' # NoAccess, ex'.second
        PROVE  ex'.word = first'.word + 1
    <3>1. CASE exValid /\ Misaligned(ex) /\ ex' \in SecondPart(ex)
      <4>1. ex \in AccessType
        BY <1>0, <3>1 DEF Typed, Misaligned
      <4>2. ex'.word = ex.word + 1
        BY <3>1, <4>1, SecondPartTyped
      <4>3. CASE gnt
        BY <1>13, <3>1, <4>2, <4>3
      <4>4. CASE ~gnt
        <5>1. Stalled
          BY <1>0, <1>4, <3>1, <4>1, <4>4 DEF Typed, States, Stalled, Requests, Misaligned
        <5>. QED
          BY <1>0, <1>13, <3>1, <4>2, <4>4, <5>1 DEF PartsInOrder
      <4>. QED
        BY <4>3, <4>4
    <3>2. CASE ex' \in Access \cup {NoAccess}
      BY <2>4, <3>2, AccessAssumption
    <3>3. CASE ~exValid /\ ex' = ex
      BY <1>0, <1>8, <1>13, <2>4, <3>3 DEF PartsInOrder
    <3>. QED
      BY <1>9, <3>1, <3>2, <3>3
  <2>. QED
    BY <2>2, <2>3, <2>4, Zenon DEF PartsInOrder, Misaligned
<1>15. StoresWriteTheirBytes'
  <2>. DEFINE word == IF ex.second THEN first.word + 1 ELSE ex.word
              sel == Selected(port0, CoreDataReq(rvalid))
  <2>1. goldMem' =
          IF port0 # NoRequest /\ port0.we
          THEN [goldMem EXCEPT ![port0.word] =
                   [l \in Lane |-> IF l \in port0.be THEN port0.wdata[l] ELSE @[l]]]
          ELSE IF (gnt /\ word \in RamWord) /\ ex.we
          THEN [goldMem EXCEPT ![word] = StoredWord(ex.type, ex.off, ex.second, ex.data, @)]
          ELSE goldMem
    BY <1>1, Zenon DEF Observe
  <2>2. mem' = IF sel # NoRequest /\ sel.we
               THEN [mem EXCEPT ![sel.word] = WriteLanes(@, sel.be, sel.wdata)]
               ELSE mem
    BY <1>1, Zenon DEF RamClock, DataRamClock
  <2>3. mem = goldMem
    BY <1>0 DEF StoresWriteTheirBytes
  <2>4. gnt => word = ex.word /\ ex \in AccessType /\ (word \in RamWord <=> ~IsAxiAddr)
    BY <1>0, <1>3, <1>12 DEF Typed, PartsInOrder, Requests, IsAxiAddr
  <2>5. CASE port0 # NoRequest
    <3>1. sel = port0 /\ ~(gnt /\ word \in RamWord)
      BY <1>3, <2>4, <2>5 DEF Selected
    <3>2. WriteLanes(mem[port0.word], port0.be, port0.wdata) =
            [l \in Lane |-> IF l \in port0.be THEN port0.wdata[l] ELSE goldMem[port0.word][l]]
      BY <2>3, Zenon DEF WriteLanes
    <3>. HIDE DEF sel, word
    <3>3. mem' = goldMem'
      BY <2>1, <2>2, <2>3, <2>5, <3>1, <3>2
    <3>. QED
      BY <3>3 DEF StoresWriteTheirBytes
  <2>6. CASE port0 = NoRequest /\ ~(gnt /\ ~IsAxiAddr)
    <3>1. sel = NoRequest /\ ~(gnt /\ word \in RamWord)
      BY <1>3, <2>4, <2>6 DEF Selected, Port1Grant
    <3>. HIDE DEF sel, word
    <3>2. mem' = goldMem'
      BY <2>1, <2>2, <2>3, <2>6, <3>1
    <3>. QED
      BY <3>2 DEF StoresWriteTheirBytes
  <2>7. CASE port0 = NoRequest /\ gnt /\ ~IsAxiAddr
    <3>1. sel = [word |-> ex.word, we |-> ex.we,
                 be |-> ByteEnable(ex.type, ex.off, ex.second),
                 wdata |-> Rotate(ex.data, ex.off)]
      BY <1>3, <2>7 DEF Selected, CoreDataReq
    <3>2. sel # NoRequest
      BY <1>3, <2>7 DEF Selected, Port1Grant
    <3>3. WriteLanes(mem[ex.word], ByteEnable(ex.type, ex.off, ex.second), Rotate(ex.data, ex.off))
            = StoredWord(ex.type, ex.off, ex.second, ex.data, goldMem[ex.word])
      BY <2>3, <2>4, <2>7, MergeIsStore DEF AccessType
    <3>4. word = ex.word /\ word \in RamWord
      BY <2>4, <2>7
    <3>5. /\ sel.word = ex.word /\ sel.we = ex.we
          /\ sel.be = ByteEnable(ex.type, ex.off, ex.second)
          /\ sel.wdata = Rotate(ex.data, ex.off)
      BY <3>1
    <3>. HIDE DEF sel, word
    <3>6. mem' = goldMem'
      BY <2>1, <2>2, <2>3, <2>7, <3>2, <3>3, <3>4, <3>5
    <3>. QED
      BY <3>6 DEF StoresWriteTheirBytes
  <2>. QED
    BY <2>5, <2>6, <2>7
<1>. QED
  BY <1>10, <1>11, <1>14, <1>15 DEF IInv

(* Every step of the region is a clock edge or changes nothing.            *)
LEMMA StepPreserves == IInv /\ [Next]_vars => IInv'
<1>1. ASSUME IInv, Next
      PROVE  IInv'
  BY <1>1, ClockPreserves DEF Next
<1>2. ASSUME IInv, UNCHANGED vars
      PROVE  IInv'
  BY <1>2 DEF vars, lsuVars, ramVars, stageVars, history, IInv, Typed, AnswersAreAwaited,
              PartsInOrder, Stalled, Misaligned, StoresWriteTheirBytes
<1>. QED
  BY <1>1, <1>2

(* The invariant holds in every reachable state. *)
THEOREM CoreRegionInvariant == Spec => []IInv
BY InitEstablishes, StepPreserves, PTL DEF Spec

(* The assertions at the end of load_store_unit.sv hold for every program, *)
(* every RAM and every behaviour of the other master and of AXI: one       *)
(* access at a time is under way, and the controller waits for it.         *)
THEOREM CoreAnswersAwaited == Spec => []AnswersAreAwaited
<1>1. IInv => AnswersAreAwaited
  BY DEF IInv
<1>. QED
  BY <1>1, CoreRegionInvariant, PTL

(* Byte enables, rotation and arbitration together store the bytes of each *)
(* store, aligned or misaligned, where the program put them, and nothing   *)
(* else changes the RAM but the other master.                              *)
THEOREM CoreStoresWriteTheirBytes == Spec => []StoresWriteTheirBytes
<1>1. IInv => StoresWriteTheirBytes
  BY DEF IInv
<1>. QED
  BY <1>1, CoreRegionInvariant, PTL

-----------------------------------------------------------------------------
(* The types of the registers that hold data and tags. *)

(* Assembling and extending a loaded word gives a word. *)
LEMMA ExtendTyped ==
    ASSUME NEW q \in [type : Type, off : Lane, sext : BOOLEAN, we : BOOLEAN],
           NEW hold \in Word, NEW word \in Word
    PROVE  Extend(q, hold, word) \in Word
<1>. DEFINE byte(l) == IF CrossesWord(q.type, q.off) /\ q.off + l < 4
                       THEN hold[q.off + l] ELSE word[(q.off + l) % 4]
            bytes == [l \in Lane |-> byte(l)]
<1>1. \A l \in Lane : (q.off + l < 4 => q.off + l \in Lane) /\ (q.off + l) % 4 \in Lane
  BY SMT DEF Lane
<1>2. \A l \in Lane : byte(l) \in 0 .. 255
  BY <1>1 DEF Word
<1>3. bytes \in Word
  BY <1>2 DEF Word
<1>4. Size(q.type) \in {1, 2, 4} /\ Size(q.type) - 1 \in Lane
  BY SMT DEF Size, Type, Lane
<1>. HIDE DEF bytes
<1>5. FillByte(q.sext, bytes[Size(q.type) - 1]) \in 0 .. 255
  BY DEF FillByte
<1>6. Widen(Size(q.type), q.sext, bytes) \in Word
  BY <1>3, <1>5 DEF Widen, Word
<1>. QED
  BY <1>6 DEF Extend, bytes

(* Writing some lanes of a word leaves a word. *)
LEMMA WriteLanesTyped ==
    ASSUME NEW old \in Word, NEW be, NEW new \in Word
    PROVE  WriteLanes(old, be, new) \in Word
BY DEF WriteLanes, Word

(* A request of either master is typed; what the RAM sees is one of them.  *)
LEMMA SelectedTyped ==
    ASSUME Typed, NEW rvalid \in BOOLEAN, NEW port0 \in OtherAccess \cup {NoRequest}
    PROVE  Selected(port0, CoreDataReq(rvalid)) \in Request \cup {NoRequest}
<1>1. CASE port0 # NoRequest
  BY <1>1, SurroundingsAssumption DEF Selected
<1>2. CASE port0 = NoRequest
  <2>1. CoreDataReq(rvalid) \in Request \cup {NoRequest}
    BY CoreRequestTyped
  <2>. QED
    BY <1>2, <2>1 DEF Selected
<1>. QED
  BY <1>1, <1>2

(* Every clock edge keeps the types of all registers.                      *)
LEMMA ClockKeepsTypes ==
    ASSUME IInv, TypeOK,
           NEW port0 \in OtherAccess \cup {NoRequest},
           NEW axiGrants \in BOOLEAN, NEW axiAnswers \in BOOLEAN, NEW stall \in ExStall,
           Clock(port0, axiGrants, axiAnswers, stall)
    PROVE  TypeOK'
<1>. DEFINE rvalid == core_lsu_rvalid(axiAnswers)
            gnt == core_lsu_gnt(port0, axiGrants, rvalid)
            exValid == ExValid(gnt, rvalid, stall)
            sel == Selected(port0, CoreDataReq(rvalid))
<1>1. /\ axiAnswers => axi # NoAnswer
      /\ LatchRequest(ex, gnt)
      /\ LatchRequestTag(ex, gnt /\ ~IsAxiAddr, WeTag)
      /\ HoldData(ex, rvalid, core_lsu_rdata)
      /\ HoldTag(ex, port1_rvalid, core_lsu_rdata_tag)
      /\ RamClock(port0, CoreDataReq(rvalid), WeTag, WdataTag)
      /\ Route(gnt, rvalid)
      /\ StepWb(exValid, rvalid)
      /\ StepEx(exValid)
  BY Zenon DEF Clock, LsuClock
<1>2. Typed' /\ Typed /\ AnswersAreAwaited
  BY ClockPreserves DEF IInv
<1>3. rvalid \in BOOLEAN
  BY <1>2 DEF core_lsu_rvalid, Typed
<1>4. gnt => Requests(ex, rvalid)
  BY <1>2, <1>3, GrantFacts
<1>5. sel \in Request \cup {NoRequest}
  BY <1>2, <1>3, SelectedTyped
<1>6. rvalid => core_lsu_rdata \in Word
  BY <1>1 DEF rvalid, core_lsu_rvalid, core_lsu_rdata, AnswersAreAwaited, TypeOK, IInv
<1>. HIDE DEF rvalid, gnt, exValid, sel
<1>7. gnt => ex \in AccessType
  BY <1>4 DEF Requests, TypeOK
<1>8. req_q' \in [type : Type, off : Lane, sext : BOOLEAN, we : BOOLEAN]
  BY <1>1, <1>7 DEF LatchRequest, TypeOK, AccessType
<1>9. req_q_tag' \in [type : Type, off : 0 .. 7, we : BOOLEAN]
  <2>1. CASE gnt
    <3>1. ex.off + 4 * (ex.word % 2) \in 0 .. 7 /\ ex.type \in Type
      BY <1>7, <2>1, SMT DEF AccessType, Lane
    <3>2. WeTag \in BOOLEAN
      BY <1>7, <2>1 DEF WeTag, TypeOK, AccessType
    <3>. QED
      BY <1>1, <3>1, <3>2 DEF LatchRequestTag, TypeOK
  <2>2. CASE ~gnt
    BY <1>1, <2>2 DEF LatchRequestTag, TypeOK
  <2>. QED
    BY <2>1, <2>2
<1>10. rdata_q' \in Word
  <2>1. rvalid => Extend(req_q, rdata_q, core_lsu_rdata) \in Word
    BY <1>6, ExtendTyped DEF TypeOK
  <2>. QED
    BY <1>1, <1>6, <2>1 DEF HoldData, TypeOK
<1>11. rdata_q_tag' \in SUBSET Lane
  BY <1>1 DEF HoldTag, TypeOK, Lane
<1>12. mem' \in [RamWord -> Word] /\ rdata_o' \in Word
  <2>1. sel # NoRequest =>
          /\ sel.word \in RamWord /\ sel.wdata \in Word /\ mem[sel.word] \in Word
          /\ WriteLanes(mem[sel.word], sel.be, sel.wdata) \in Word
    BY <1>5, WriteLanesTyped DEF Request, TypeOK
  <2>2. DataRamClock(sel)
    BY <1>1 DEF RamClock, sel
  <2>. QED
    BY <2>1, <2>2 DEF DataRamClock, TypeOK
<1>13. tagmem' \in [RamWord -> SUBSET Lane] /\ rdata_o_tag' \in SUBSET Lane
  <2>1. sel # NoRequest => sel.word \in RamWord /\ sel.be \in SUBSET Lane
    BY <1>5 DEF Request
  <2>2. TagRamClock(sel, WeTag, WdataTag)
    BY <1>1 DEF RamClock, sel
  <2>. QED
    BY <2>1, <2>2 DEF TagRamClock, TypeOK
<1>14. wb' \in {"none", "first", "load"}
  BY <1>1 DEF StepWb, TypeOK
<1>15. lsu_resp_CS' \in {"AXI", "RAM"}
  BY <1>1 DEF Route, TypeOK
<1>16. memory_set' \in BOOLEAN
  BY <1>1, AccessAssumption DEF StepEx, Issue, TypeOK, AccessType
<1>. QED
  BY <1>2, <1>8, <1>9, <1>10, <1>11, <1>12, <1>13, <1>14, <1>15, <1>16 DEF TypeOK, Typed

(* Every register of the unit, the demultiplexer and both RAMs keeps its   *)
(* range, for every program, RAM and environment: in particular the value  *)
(* in rdata_q is a word and never the absence of an AXI answer.            *)
THEOREM CoreTypeCorrect == Spec => []TypeOK
<1>1. Init => TypeOK
  <2>1. ASSUME Init PROVE TypeOK
    <3>1. [l \in Lane |-> 0] \in Word
      BY DEF Word
    <3>2. /\ CS \in States /\ rdata_q \in Word /\ rdata_q_tag \in SUBSET Lane
          /\ mem \in [RamWord -> Word] /\ rdata_o \in Word
          /\ tagmem \in [RamWord -> SUBSET Lane] /\ rdata_o_tag \in SUBSET Lane
      BY <2>1, <3>1 DEF Init, LsuInit, RamInit, States
    <3>3. /\ req_q \in [type : Type, off : Lane, sext : BOOLEAN, we : BOOLEAN]
          /\ req_q_tag \in [type : Type, off : 0 .. 7, we : BOOLEAN]
      BY <2>1 DEF Init, LsuInit, Type, Lane
    <3>. QED
      BY <2>1, <3>2, <3>3 DEF Init, RamInit, TypeOK
  <2>. QED
    BY <2>1
<1>2. ASSUME IInv, TypeOK, [Next]_vars
      PROVE  TypeOK'
  <2>1. CASE Next
    BY <1>2, <2>1, ClockKeepsTypes DEF Next
  <2>2. CASE UNCHANGED vars
    BY <1>2, <2>2 DEF vars, lsuVars, ramVars, stageVars, history, TypeOK
  <2>. QED
    BY <1>2, <2>1, <2>2
<1>. QED
  BY <1>1, <1>2, CoreRegionInvariant, PTL DEF Spec
=============================================================================
