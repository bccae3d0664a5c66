------------------------ MODULE CoreRegionLoadProofs ------------------------
(***************************************************************************)
(* Proofs about the loads of CoreRegion: what WB is given for a load is    *)
(* what memory held when its parts were granted, data and tags, and the    *)
(* tag RAM holds what the stores of the program put there.  The theorems   *)
(* say which accesses and which surroundings they need for it.             *)
(***************************************************************************)
EXTENDS CoreRegionProofs

(* The controller waits for an answer. *)
Awaited == CS \in {"WAIT_RVALID", "WAIT_RVALID_EX_STALL"}

(* Misaligned loads are never held up in EX by another unit: the second    *)
(* part of one that is answered there would leave the raw word in rdata_q. *)
NoStalledPairs ==
    TRUE \in ExStall => \A a \in Access : CrossesWord(a.type, a.off) => a.we \/ a.spsw

(* The stalls there are do not meet a misaligned load. *)
StallsAllowed ==
    /\ Stalled => TRUE \in ExStall
    /\ ex # NoAccess /\ ex.second => CrossesWord(ex.type, ex.off)
    /\ IsLoad /\ CrossesWord(ex.type, ex.off) => TRUE \notin ExStall

(* While the second part of a load is in EX the word of the first part is  *)
(* at the output of the memory that is about to answer, or in rdata_q.     *)
FirstWordKept ==
    IsLoad /\ ex.second =>
        IF Awaited THEN core_lsu_rdata = first.data /\ ~req_q.we ELSE rdata_q = first.data

(* A load that is in WB, or granted and stalled in EX, is answered with    *)
(* what it has to return, or that is in rdata_q already.                   *)
ResultKept ==
    /\ wb = "load" => ~Stalled
    /\ wb = "load" \/ (Stalled /\ IsLoad) =>
           RegisterData(Awaited, core_lsu_rdata) = want.data /\ (Awaited => ~req_q.we)

(* The inductive invariant for the data of loads. *)
LoadInv == IInv /\ StallsAllowed /\ FirstWordKept /\ ResultKept

-----------------------------------------------------------------------------
(* The load/store unit assembles a word as the reference definition does:  *)
(* byte by byte from two words, of which an access inside one word needs   *)
(* only that one.                                                          *)
LEMMA ExtendIsLoad ==
    ASSUME NEW q, q.type \in Type, q.off \in Lane, NEW hold, NEW word
    PROVE  Extend(q, hold, word) =
             LoadedWord(q.type, q.off, q.sext,
                        IF CrossesWord(q.type, q.off) THEN hold ELSE word, word)
<1>. DEFINE one == IF CrossesWord(q.type, q.off) THEN hold ELSE word
            byte(l) == IF CrossesWord(q.type, q.off) /\ q.off + l < 4
                       THEN hold[q.off + l] ELSE word[(q.off + l) % 4]
<1>1. ASSUME NEW l \in Lane PROVE byte(l) = ByteAt(one, word, q.off + l)
  <2>. DEFINE at == q.off + l
  <2>1. at \in 0 .. 6
    BY SMT DEF Lane
  <2>2. \A n \in 0 .. 3 : n % 4 = n
    BY SMT
  <2>3. \A n \in 4 .. 6 : n % 4 = n - 4
    <3>. SUFFICES ASSUME NEW n \in 4 .. 6 PROVE n % 4 = n - 4
      OBVIOUS
    <3>1. n = 4 \/ n = 5 \/ n = 6
      OBVIOUS
    <3>. QED
      BY <3>1, SMT
  <2>4. byte(l) = IF CrossesWord(q.type, q.off) /\ at < 4 THEN hold[at] ELSE word[at % 4]
    OBVIOUS
  <2>. HIDE DEF at, byte
  <2>5. ASSUME at < 4 PROVE byte(l) = ByteAt(one, word, at)
    <3>1. at % 4 = at
      BY <2>1, <2>2, <2>5
    <3>. QED
      BY <2>4, <2>5, <3>1, Zenon DEF ByteAt
  <2>6. ASSUME ~(at < 4) PROVE byte(l) = ByteAt(one, word, at)
    <3>1. at % 4 = at - 4
      BY <2>1, <2>3, <2>6
    <3>. QED
      BY <2>4, <2>6, <3>1, Zenon DEF ByteAt
  <2>7. byte(l) = ByteAt(one, word, at)
    BY <2>5, <2>6
  <2>. QED
    BY <2>7 DEF at
<1>2. [l \in Lane |-> byte(l)] = [l \in Lane |-> ByteAt(one, word, q.off + l)]
  <2>. HIDE DEF byte, one
  <2>. QED
    BY <1>1
<1>. QED
  BY <1>2, Zenon DEF Extend, LoadedWord

-----------------------------------------------------------------------------
(* What one clock edge does to a load. *)

(* The word the access in EX is granted; AXI answers with axi'. *)
Now == IF ex.word \in RamWord THEN mem[ex.word] ELSE axi'

(* An edge as far as loads see it: handshakes, registers and what the     *)
(* memories give. It says nothing of the other master's accesses.          *)
Cycle(gnt, rvalid, exValid, axiAnswers) ==
    /\ rvalid <=> port1_rvalid \/ axiAnswers
    /\ axiAnswers => axi # NoAnswer
    /\ gnt => Requests(ex, rvalid)
    /\ exValid => (Requests(ex, rvalid) => gnt) /\ (CS = "WAIT_RVALID" => rvalid)
    /\ gnt /\ ~exValid => TRUE \in ExStall
    /\ Fsm(gnt, rvalid, exValid)
    /\ gnt /\ ~IsAxiAddr => rdata_o' = mem[ex.word]
    /\ ~gnt => axi' = IF axiAnswers THEN NoAnswer ELSE axi
    /\ Route(gnt, rvalid)
    /\ LatchRequest(ex, gnt)
    /\ HoldData(ex, rvalid, core_lsu_rdata)
    /\ StepWb(exValid, rvalid)
    /\ gnt => ex \in AccessType
    /\ gnt /\ Misaligned(ex) => first'.data = Now
    /\ gnt /\ IsLoad /\ ~Misaligned(ex) =>
          want'.data = LoadedWord(ex.type, ex.off, ex.sext,
                                  IF ex.second THEN first.data ELSE Now, Now)
    /\ ~gnt => UNCHANGED <<first, want>>
    /\ LatchRequestTag(ex, gnt /\ ~IsAxiAddr, WeTag)
    /\ HoldTag(ex, port1_rvalid, core_lsu_rdata_tag)
    /\ gnt /\ ~IsAxiAddr /\ ~WeTag => rdata_o_tag' = tagmem[ex.word]
    /\ gnt /\ IsLoad /\ ~Misaligned(ex) /\ ~ex.second /\ ~IsAxiAddr =>
          want'.tag = LoadedTag(ex.type, ex.off, tagmem[ex.word], tagmem[ex.word])
    /\ \/ /\ exValid /\ Misaligned(ex)
          /\ ex' \in SecondPart(ex) /\ memory_set' = memory_set
       \/ /\ exValid \/ ex = NoAccess
          /\ ex' \in Access \cup {NoAccess}
          /\ ex' # NoAccess => memory_set' = ex'.spsw
       \/ /\ ~exValid /\ ex' = ex /\ memory_set' = memory_set

(* Every edge is such a cycle. *)
LEMMA ClockIsCycle ==
    ASSUME IInv,
           NEW port0 \in OtherAccess \cup {NoRequest},
           NEW axiGrants \in BOOLEAN, NEW axiAnswers \in BOOLEAN, NEW stall \in ExStall,
           Clock(port0, axiGrants, axiAnswers, stall)
    PROVE  \E gnt, rvalid, exValid \in BOOLEAN : Cycle(gnt, rvalid, exValid, axiAnswers)
<1>. DEFINE rvalid == core_lsu_rvalid(axiAnswers)
            gnt == core_lsu_gnt(port0, axiGrants, rvalid)
            exValid == ExValid(gnt, rvalid, stall)
            sel == Selected(port0, CoreDataReq(rvalid))
<1>1. /\ axiAnswers => axi # NoAnswer
      /\ StepAxi(gnt, axiAnswers)
      /\ Fsm(gnt, rvalid, exValid)
      /\ LatchRequest(ex, gnt)
      /\ HoldData(ex, rvalid, core_lsu_rdata)
      /\ LatchRequestTag(ex, gnt /\ ~IsAxiAddr, WeTag)
      /\ HoldTag(ex, port1_rvalid, core_lsu_rdata_tag)
      /\ DataRamClock(sel)
      /\ TagRamClock(sel, WeTag, WdataTag)
      /\ Route(gnt, rvalid)
      /\ StepWb(exValid, rvalid)
      /\ Observe(port0, gnt)
      /\ StepEx(exValid)
  BY Zenon DEF Clock, LsuClock, RamClock
<1>2. Typed /\ AnswersAreAwaited /\ PartsInOrder
  BY DEF IInv
<1>3. rvalid \in BOOLEAN /\ (rvalid <=> port1_rvalid \/ axiAnswers)
  BY <1>2 DEF core_lsu_rvalid, Typed
<1>4. /\ gnt \in BOOLEAN
      /\ gnt => Requests(ex, rvalid)
      /\ Port1Grant(port0, CoreDataReq(rvalid)) <=> gnt /\ ~IsAxiAddr
      /\ gnt /\ ~IsAxiAddr => port0 = NoRequest
  BY <1>2, <1>3, GrantFacts
<1>5. /\ exValid \in BOOLEAN
      /\ exValid => (Requests(ex, rvalid) => gnt) /\ (CS = "WAIT_RVALID" => rvalid)
      /\ gnt /\ ~exValid => TRUE \in ExStall
  BY <1>3, <1>4, SurroundingsAssumption DEF ExValid, ReadyEx, ReadyWb, Requests
<1>6. /\ gnt /\ ~IsAxiAddr => rdata_o' = mem[ex.word]
      /\ gnt /\ ~IsAxiAddr /\ ~WeTag => rdata_o_tag' = tagmem[ex.word]
  <2>1. ASSUME gnt, ~IsAxiAddr
        PROVE  sel # NoRequest /\ sel.word = ex.word
    BY <1>4, <2>1 DEF Selected, CoreDataReq, Port1Grant
  <2>. QED
    BY <1>1, <2>1 DEF DataRamClock, TagRamClock
<1>7. ~gnt => axi' = IF axiAnswers THEN NoAnswer ELSE axi
  BY <1>1 DEF StepAxi
<1>8. gnt => ex \in AccessType /\ ~Stalled /\ (ex.second => ex.word = first.word + 1)
  BY <1>2, <1>4 DEF Typed, PartsInOrder, Requests, Stalled
<1>. HIDE DEF rvalid, gnt, exValid, sel
<1>9. /\ gnt /\ Misaligned(ex) => first'.data = Now
      /\ gnt /\ IsLoad /\ ~Misaligned(ex) =>
            want'.data = LoadedWord(ex.type, ex.off, ex.sext,
                                    IF ex.second THEN first.data ELSE Now, Now)
      /\ ~gnt => UNCHANGED <<first, want>>
      /\ gnt /\ IsLoad /\ ~Misaligned(ex) /\ ~ex.second /\ ~IsAxiAddr =>
            want'.tag = LoadedTag(ex.type, ex.off, tagmem[ex.word], tagmem[ex.word])
  <2>. DEFINE word == IF ex.second THEN first.word + 1 ELSE ex.word
              now == IF word \in RamWord
                     THEN [word |-> word, data |-> mem[word], tags |-> tagmem[word]]
                     ELSE [word |-> word, data |-> axi', tags |-> {}]
              before == IF ex.second THEN first ELSE now
  <2>1. /\ first' = IF gnt THEN IF Misaligned(ex) THEN now ELSE nothing.first ELSE first
        /\ want' = IF gnt
                   THEN IF IsLoad /\ ~Misaligned(ex)
                        THEN [data |-> LoadedWord(ex.type, ex.off, ex.sext, before.data, now.data),
                              tag  |-> LoadedTag(ex.type, ex.off, before.tags, now.tags)]
                        ELSE nothing.want
                   ELSE want
    BY <1>1, Zenon DEF Observe
  <2>2. gnt => word = ex.word
    BY <1>8
  <2>3. gnt => now.data = Now
    BY <2>2 DEF Now
  <2>4. gnt => before.data = IF ex.second THEN first.data ELSE Now
    BY <2>3
  <2>5. gnt /\ ~ex.second /\ ~IsAxiAddr =>
          before.tags = tagmem[ex.word] /\ now.tags = tagmem[ex.word]
    BY <1>4, <2>2 DEF IsAxiAddr, Requests
  <2>. HIDE DEF word, now, before
  <2>. QED
    BY <2>1, <2>3, <2>4, <2>5
<1>10. \/ /\ exValid /\ Misaligned(ex)
          /\ ex' \in SecondPart(ex) /\ memory_set' = memory_set
       \/ /\ exValid \/ ex = NoAccess
          /\ ex' \in Access \cup {NoAccess}
          /\ ex' # NoAccess => memory_set' = ex'.spsw
       \/ /\ ~exValid /\ ex' = ex /\ memory_set' = memory_set
  BY <1>1 DEF StepEx, Issue
<1>11. Cycle(gnt, rvalid, exValid, axiAnswers)
  BY <1>1, <1>3, <1>4, <1>5, <1>6, <1>7, <1>8, <1>9, <1>10, Zenon DEF Cycle
<1>. QED
  BY <1>3, <1>4, <1>5, <1>11

(* The memory that is granted an access shows its word in the next cycle.  *)
LEMMA GrantIsAnswered ==
    ASSUME IInv, NEW gnt \in BOOLEAN, NEW rvalid \in BOOLEAN, NEW exValid \in BOOLEAN,
           NEW axiAnswers \in BOOLEAN, Cycle(gnt, rvalid, exValid, axiAnswers), gnt
    PROVE  core_lsu_rdata' = Now
BY DEF Cycle, Route, Requests, IsAxiAddr, core_lsu_rdata, Now

(* An answer that is not taken yet stays where it is. *)
LEMMA AnswerStays ==
    ASSUME IInv, NEW gnt \in BOOLEAN, NEW rvalid \in BOOLEAN, NEW exValid \in BOOLEAN,
           NEW axiAnswers \in BOOLEAN, Cycle(gnt, rvalid, exValid, axiAnswers),
           ~gnt, Awaited, ~rvalid
    PROVE  core_lsu_rdata' = core_lsu_rdata
<1>1. ~port1_rvalid /\ ~axiAnswers
  BY DEF Cycle
<1>2. lsu_resp_CS = "AXI"
  BY <1>1 DEF IInv, AnswersAreAwaited, Awaited
<1>3. ~Requests(ex, rvalid)
  BY DEF Requests, Awaited
<1>. QED
  BY <1>1, <1>2, <1>3 DEF Cycle, Route, core_lsu_rdata

(* A second part is a load, of the same type and at the same offset, if    *)
(* the first part was one.                                                 *)
LEMMA SecondPartIsAlike ==
    ASSUME NEW a \in AccessType, NEW b \in SecondPart(a)
    PROVE  /\ b.we = a.we /\ b.spsw = a.spsw /\ b.type = a.type /\ b.off = a.off
           /\ b.sext = a.sext /\ b.second = TRUE
<1>1. PICK tag \in {a.tag, FALSE} : b = [a EXCEPT !.second = TRUE, !.word = @ + 1, !.tag = tag]
  BY DEF SecondPart
<1>. QED
  BY <1>1, Zenon DEF AccessType

(* An edge keeps misaligned loads and stalls apart. *)
LEMMA CycleKeepsStallsAllowed ==
    ASSUME IInv, StallsAllowed, NoStalledPairs, IInv',
           NEW gnt \in BOOLEAN, NEW rvalid \in BOOLEAN, NEW exValid \in BOOLEAN,
           NEW axiAnswers \in BOOLEAN, Cycle(gnt, rvalid, exValid, axiAnswers)
    PROVE  StallsAllowed'
<1>1. /\ exValid => ~Stalled'
      /\ ~exValid => (Stalled' <=> gnt \/ Stalled)
  BY WaitsForAnswer DEF IInv, Typed, Cycle, AnswersAreAwaited
<1>2. Stalled' => TRUE \in ExStall
  BY <1>1 DEF Cycle, StallsAllowed
<1>3. CASE exValid /\ Misaligned(ex) /\ ex' \in SecondPart(ex)
  <2>1. ex \in AccessType /\ CrossesWord(ex.type, ex.off)
    BY <1>3 DEF Misaligned, IInv, Typed
  <2>2. /\ ex'.we = ex.we /\ ex'.spsw = ex.spsw /\ ex'.type = ex.type /\ ex'.off = ex.off
    BY <1>3, <2>1, SecondPartIsAlike
  <2>3. IsLoad' => IsLoad
    BY <1>3, <2>2 DEF IsLoad, Misaligned
  <2>. QED
    BY <1>2, <2>1, <2>2, <2>3 DEF StallsAllowed
<1>4. CASE ex' \in Access \cup {NoAccess}
  BY <1>2, <1>4, AccessAssumption DEF StallsAllowed, NoStalledPairs, IsLoad
<1>5. CASE ex' = ex
  BY <1>2, <1>5 DEF StallsAllowed, IsLoad
<1>. QED
  BY <1>3, <1>4, <1>5 DEF Cycle

(* An edge keeps the word of a first part for the second. *)
LEMMA CycleKeepsFirstWord ==
    ASSUME LoadInv, IInv',
           NEW gnt \in BOOLEAN, NEW rvalid \in BOOLEAN, NEW exValid \in BOOLEAN,
           NEW axiAnswers \in BOOLEAN, Cycle(gnt, rvalid, exValid, axiAnswers)
    PROVE  FirstWordKept'
<1>1. Awaited' <=> gnt \/ (Awaited /\ ~rvalid)
  BY WaitsForAnswer DEF LoadInv, IInv, Typed, Cycle, AnswersAreAwaited, Awaited
<1>2. Stalled => TRUE \in ExStall
  BY DEF LoadInv, StallsAllowed
<1>. SUFFICES ASSUME IsLoad', ex'.second
              PROVE  IF Awaited' THEN core_lsu_rdata' = first'.data /\ ~req_q'.we
                                 ELSE rdata_q' = first'.data
  BY Zenon DEF FirstWordKept
<1>3. CASE exValid /\ Misaligned(ex) /\ ex' \in SecondPart(ex)
  <2>1. ex \in AccessType /\ CrossesWord(ex.type, ex.off)
    BY <1>3 DEF Misaligned, LoadInv, IInv, Typed
  <2>2. IsLoad
    BY <1>3, <2>1, SecondPartIsAlike DEF IsLoad, Misaligned
  <2>3. CS = "IDLE" \/ CS = "WAIT_RVALID"
    BY <1>2, <2>1, <2>2 DEF LoadInv, StallsAllowed, Stalled, IInv, Typed, States
  <2>4. gnt
    BY <1>3, <2>3 DEF Cycle, Requests, Misaligned
  <2>5. core_lsu_rdata' = Now
    BY <2>4, GrantIsAnswered DEF LoadInv
  <2>6. first'.data = Now /\ req_q'.we = ex.we
    BY <1>3, <2>4 DEF Cycle, LatchRequest
  <2>. QED
    BY <1>1, <2>2, <2>4, <2>5, <2>6 DEF IsLoad
<1>4. CASE ex' \in Access \cup {NoAccess}
  BY <1>4, AccessAssumption DEF IsLoad
<1>5. CASE ~exValid /\ ex' = ex
  <2>1. IsLoad /\ ex.second /\ CrossesWord(ex.type, ex.off) /\ TRUE \notin ExStall
    BY <1>5 DEF IsLoad, LoadInv, StallsAllowed
  <2>2. ~gnt /\ first' = first /\ req_q' = req_q
    BY <1>5, <2>1 DEF Cycle, LatchRequest
  <2>3. IF Awaited THEN core_lsu_rdata = first.data /\ ~req_q.we ELSE rdata_q = first.data
    BY <2>1 DEF LoadInv, FirstWordKept
  <2>4. CASE Awaited /\ rvalid
    <3>1. rdata_q' = core_lsu_rdata
      BY <2>1, <2>3, <2>4 DEF Cycle, HoldData, IsLoad
    <3>. QED
      BY <1>1, <2>2, <2>3, <2>4, <3>1
  <2>5. CASE Awaited /\ ~rvalid
    <3>1. core_lsu_rdata' = core_lsu_rdata
      BY <2>2, <2>5, AnswerStays DEF LoadInv
    <3>. QED
      BY <1>1, <2>2, <2>3, <2>5, <3>1
  <2>6. CASE ~Awaited
    <3>1. ~rvalid
      BY <2>6 DEF Cycle, LoadInv, IInv, AnswersAreAwaited, Awaited
    <3>2. rdata_q' = rdata_q
      BY <3>1 DEF Cycle, HoldData
    <3>. QED
      BY <1>1, <2>2, <2>3, <2>6, <3>2
  <2>. QED
    BY <2>4, <2>5, <2>6
<1>. QED
  BY <1>3, <1>4, <1>5 DEF Cycle

(* The grant of a load, or of its second part, makes its result ready. *)
LEMMA GrantGivesResult ==
    ASSUME LoadInv,
           NEW gnt \in BOOLEAN, NEW rvalid \in BOOLEAN, NEW exValid \in BOOLEAN,
           NEW axiAnswers \in BOOLEAN, Cycle(gnt, rvalid, exValid, axiAnswers),
           gnt, IsLoad, ~Misaligned(ex)
    PROVE  /\ Awaited'
           /\ RegisterData(TRUE, core_lsu_rdata)' = want'.data
           /\ ~req_q'.we
<1>1. Awaited'
  BY WaitsForAnswer DEF LoadInv, IInv, Typed, Cycle, AnswersAreAwaited, Awaited
<1>2. ex \in AccessType /\ core_lsu_rdata' = Now
  BY GrantIsAnswered DEF Cycle, LoadInv
<1>3. req_q' = [type |-> ex.type, off |-> ex.off, sext |-> ex.sext, we |-> ex.we]
  BY DEF Cycle, LatchRequest
<1>4. ex.second => rdata_q' = first.data
  <2>1. ASSUME ex.second PROVE rdata_q' = first.data
    <3>1. IF Awaited THEN core_lsu_rdata = first.data /\ ~req_q.we ELSE rdata_q = first.data
      BY <2>1 DEF LoadInv, FirstWordKept
    <3>2. CS = "IDLE" \/ (CS = "WAIT_RVALID" /\ rvalid)
      BY DEF Cycle, Requests
    <3>3. CASE CS = "IDLE"
      <4>1. ~rvalid
        BY <3>3 DEF Cycle, LoadInv, IInv, AnswersAreAwaited
      <4>. QED
        BY <3>1, <3>3, <4>1 DEF Cycle, HoldData, Awaited
    <3>4. CASE CS = "WAIT_RVALID" /\ rvalid
      BY <2>1, <3>1, <3>4 DEF Cycle, HoldData, Awaited, IsLoad
    <3>. QED
      BY <3>2, <3>3, <3>4
  <2>. QED
    BY <2>1
<1>5. ex.second <=> CrossesWord(ex.type, ex.off)
  BY <1>2 DEF IsLoad, Misaligned, LoadInv, StallsAllowed, AccessType
<1>6. want'.data = LoadedWord(ex.type, ex.off, ex.sext, IF ex.second THEN first.data ELSE Now, Now)
  BY DEF Cycle
<1>7. Extend(req_q', rdata_q', Now)
        = LoadedWord(ex.type, ex.off, ex.sext,
                     IF CrossesWord(ex.type, ex.off) THEN rdata_q' ELSE Now, Now)
  BY <1>2, <1>3, ExtendIsLoad DEF AccessType
<1>8. (IF CrossesWord(ex.type, ex.off) THEN rdata_q' ELSE Now)
        = IF ex.second THEN first.data ELSE Now
  BY <1>4, <1>5
<1>9. RegisterData(TRUE, core_lsu_rdata)' = Extend(req_q', rdata_q', Now)
  BY <1>2 DEF RegisterData
<1>. QED
  BY <1>1, <1>3, <1>6, <1>7, <1>8, <1>9 DEF IsLoad

(* A load in WB has left the stall, and one whose result is owed after an  *)
(* edge is granted by it, or was owed before: it is stalled in EX, or it   *)
(* waits in WB.                                                            *)
LEMMA ResultsOwed ==
    ASSUME IInv, wb = "load" => ~Stalled,
           NEW gnt \in BOOLEAN, NEW rvalid \in BOOLEAN, NEW exValid \in BOOLEAN,
           NEW axiAnswers \in BOOLEAN, Cycle(gnt, rvalid, exValid, axiAnswers)
    PROVE  /\ Awaited' <=> gnt \/ (Awaited /\ ~rvalid)
           /\ wb' = "load" => ~Stalled'
           /\ wb' = "load" \/ (Stalled' /\ IsLoad') =>
                 \/ gnt /\ IsLoad /\ (Misaligned(ex) => TRUE \in ExStall)
                 \/ ~gnt /\ Stalled /\ IsLoad
                 \/ ~gnt /\ wb = "load" /\ CS = "WAIT_RVALID" /\ ~rvalid
<1>1. /\ Awaited' <=> gnt \/ (Awaited /\ ~rvalid)
      /\ exValid => ~Stalled'
      /\ ~exValid => (Stalled' <=> gnt \/ Stalled)
  BY WaitsForAnswer DEF IInv, Typed, Cycle, AnswersAreAwaited, Awaited
<1>2. wb' = CASE exValid -> IF ~IsLoad THEN "none" ELSE IF Misaligned(ex) THEN "first" ELSE "load"
              [] ~exValid /\ ReadyWb(rvalid) -> "none"
              [] OTHER -> wb
  BY DEF Cycle, StepWb
<1>3. CS \in States
  BY DEF IInv, Typed
<1>4. gnt => ~Stalled /\ (CS = "WAIT_RVALID" => rvalid)
  BY DEF Cycle, Requests, Stalled
<1>5. wb' = "load" => ~Stalled'
  BY <1>1, <1>2, <1>4 DEF ReadyWb, Stalled
<1>6. ASSUME wb' = "load" PROVE \/ gnt /\ IsLoad /\ ~Misaligned(ex)
                                \/ ~gnt /\ Stalled /\ IsLoad
                                \/ ~gnt /\ wb = "load" /\ CS = "WAIT_RVALID" /\ ~rvalid
  <2>1. CASE exValid
    <3>1. IsLoad /\ ~Misaligned(ex)
      BY <1>2, <1>6, <2>1
    <3>2. ~gnt => Stalled
      BY <1>3, <2>1, <3>1 DEF Cycle, Requests, Stalled, States, IsLoad
    <3>. QED
      BY <3>1, <3>2
  <2>2. CASE ~exValid
    <3>1. wb = "load" /\ ~ReadyWb(rvalid)
      BY <1>2, <1>6, <2>2
    <3>. QED
      BY <1>4, <3>1 DEF ReadyWb
  <2>. QED
    BY <2>1, <2>2
<1>7. ASSUME Stalled', IsLoad' PROVE \/ gnt /\ IsLoad /\ TRUE \in ExStall
                                     \/ ~gnt /\ Stalled /\ IsLoad
  <2>1. ~exValid /\ (gnt \/ Stalled)
    BY <1>1, <1>7
  <2>2. ex' = ex
    BY <2>1 DEF Cycle, IInv, PartsInOrder, Requests
  <2>. QED
    BY <1>7, <2>1, <2>2 DEF Cycle, IsLoad
<1>. QED
  BY <1>1, <1>5, <1>6, <1>7

(* An edge keeps the result of a load until WB has taken it. *)
LEMMA CycleKeepsResult ==
    ASSUME LoadInv,
           NEW gnt \in BOOLEAN, NEW rvalid \in BOOLEAN, NEW exValid \in BOOLEAN,
           NEW axiAnswers \in BOOLEAN, Cycle(gnt, rvalid, exValid, axiAnswers)
    PROVE  ResultKept'
<1>1. /\ Awaited' <=> gnt \/ (Awaited /\ ~rvalid)
      /\ wb' = "load" => ~Stalled'
      /\ wb' = "load" \/ (Stalled' /\ IsLoad') =>
            \/ gnt /\ IsLoad /\ (Misaligned(ex) => TRUE \in ExStall)
            \/ ~gnt /\ Stalled /\ IsLoad
            \/ ~gnt /\ wb = "load" /\ CS = "WAIT_RVALID" /\ ~rvalid
  BY ResultsOwed DEF LoadInv, ResultKept
<1>2. rvalid => Awaited
  BY DEF LoadInv, IInv, Cycle, AnswersAreAwaited, Awaited
<1>3. ASSUME wb' = "load" \/ (Stalled' /\ IsLoad')
      PROVE  RegisterData(Awaited, core_lsu_rdata)' = want'.data /\ (Awaited' => ~req_q'.we)
  <2>1. CASE gnt
    <3>1. IsLoad /\ ~Misaligned(ex)
      BY <1>1, <1>3, <2>1 DEF Misaligned, LoadInv, StallsAllowed
    <3>. QED
      BY <1>1, <2>1, <3>1, GrantGivesResult DEF RegisterData
  <2>2. CASE ~gnt
    <3>1. (Stalled /\ IsLoad) \/ (wb = "load" /\ ~rvalid)
      BY <1>1, <1>3, <2>2
    <3>2. want' = want /\ req_q' = req_q
      BY <2>2 DEF Cycle, LatchRequest
    <3>3. RegisterData(Awaited, core_lsu_rdata) = want.data /\ (Awaited => ~req_q.we)
      BY <3>1 DEF LoadInv, ResultKept
    <3>4. CASE ~rvalid
      <4>1. rdata_q' = rdata_q
        BY <3>4 DEF Cycle, HoldData
      <4>2. Awaited' <=> Awaited
        BY <1>1, <2>2, <3>4
      <4>3. Awaited => core_lsu_rdata' = core_lsu_rdata
        BY <2>2, <3>4, AnswerStays DEF LoadInv
      <4>4. CASE Awaited
        BY <3>2, <3>3, <4>1, <4>2, <4>3, <4>4 DEF RegisterData
      <4>5. CASE ~Awaited
        BY <3>2, <3>3, <4>1, <4>2, <4>5 DEF RegisterData
      <4>. QED
        BY <4>4, <4>5
    <3>5. CASE rvalid
      <4>1. Awaited /\ ~Awaited' /\ Stalled /\ IsLoad
        BY <1>1, <1>2, <2>2, <3>1, <3>5
      <4>2. ~Misaligned(ex) /\ ~ex.second
        BY <4>1 DEF LoadInv, StallsAllowed, Misaligned, IsLoad
      <4>3. rdata_q' = Extend(req_q, rdata_q, core_lsu_rdata)
        BY <3>3, <3>5, <4>1, <4>2 DEF Cycle, HoldData
      <4>. QED
        BY <3>2, <3>3, <4>1, <4>3 DEF RegisterData
    <3>. QED
      BY <3>4, <3>5
  <2>. QED
    BY <2>1, <2>2
<1>. QED
  BY <1>1, <1>3, Zenon DEF ResultKept

-----------------------------------------------------------------------------
(* Without misaligned loads that another unit holds up in EX, the value WB *)
(* writes for a load is the bytes its address range held when its parts    *)
(* were granted: for every program, RAM and behaviour of the other master  *)
(* and of AXI, with a second part issued at any distance from the first.   *)
THEOREM CoreLoadsReturnMemory ==
    ASSUME NoStalledPairs
    PROVE  Spec => []LoadsReturnMemory
<1>1. Init => LoadInv
  <2>1. ASSUME Init PROVE LoadInv
    <3>1. IInv
      BY <2>1, InitEstablishes
    <3>2. CS = "IDLE" /\ ex = NoAccess /\ wb = "none"
      BY <2>1 DEF Init, LsuInit
    <3>. QED
      BY <3>1, <3>2 DEF LoadInv, StallsAllowed, FirstWordKept, ResultKept, Stalled, IsLoad
  <2>. QED
    BY <2>1
<1>2. LoadInv /\ [Next]_vars => LoadInv'
  <2>1. ASSUME LoadInv, Next PROVE LoadInv'
    <3>1. IInv /\ IInv'
      BY <2>1, StepPreserves DEF LoadInv
    <3>2. PICK axiAnswers \in BOOLEAN :
             \E gnt, rvalid, exValid \in BOOLEAN : Cycle(gnt, rvalid, exValid, axiAnswers)
      BY <2>1, <3>1, ClockIsCycle DEF Next
    <3>3. PICK gnt, rvalid, exValid \in BOOLEAN : Cycle(gnt, rvalid, exValid, axiAnswers)
      BY <3>2
    <3>4. StallsAllowed'
      BY <2>1, <3>1, <3>3, CycleKeepsStallsAllowed DEF LoadInv
    <3>5. FirstWordKept'
      BY <2>1, <3>1, <3>3, CycleKeepsFirstWord
    <3>6. ResultKept'
      BY <2>1, <3>1, <3>3, CycleKeepsResult
    <3>. QED
      BY <3>1, <3>4, <3>5, <3>6 DEF LoadInv
  <2>2. ASSUME LoadInv, UNCHANGED vars PROVE LoadInv'
    <3>1. IInv'
      BY <2>2, StepPreserves DEF LoadInv
    <3>. QED
      BY <2>2, <3>1 DEF vars, lsuVars, ramVars, stageVars, history, LoadInv, StallsAllowed,
          FirstWordKept, ResultKept, Stalled, IsLoad, Awaited, core_lsu_rdata, RegisterData
  <2>. QED
    BY <2>1, <2>2
<1>3. LoadInv => LoadsReturnMemory
  BY DEF LoadInv, ResultKept, LoadsReturnMemory, Awaited, Stalled
<1>. QED
  BY <1>1, <1>2, <1>3, PTL DEF Spec

-----------------------------------------------------------------------------
(* Tags. *)

(* The loads whose tags the unit looks up right: inside one word of the    *)
(* RAM, and in words with address bit 2 clear unless they are whole words. *)
LoadsInReach ==
    \A a \in Access : ~a.we /\ ~a.spsw =>
        /\ a.word \in RamWord /\ ~CrossesWord(a.type, a.off)
        /\ a.type = "word" \/ a.word % 2 = 0

(* The ID/EX register that marks a p.spsw is that of the access in EX. *)
MemorySetIsAccess == ex # NoAccess => memory_set = ex.spsw

(* The load in EX is one of those. *)
LoadIsInReach ==
    IsLoad => /\ ex.word \in RamWord /\ ~ex.second /\ ~CrossesWord(ex.type, ex.off)
              /\ ex.type = "word" \/ ex.word % 2 = 0

(* ResultKept for the tag. *)
ResultTagKept ==
    /\ wb = "load" => ~Stalled
    /\ wb = "load" \/ (Stalled /\ IsLoad) =>
          /\ RegisterTag(Awaited /\ lsu_resp_CS = "RAM", core_lsu_rdata_tag) = want.tag
          /\ Awaited => ~req_q_tag.we /\ lsu_resp_CS = "RAM"

(* The inductive invariant for their tags. *)
LoadTagInv == IInv /\ TypeOK /\ MemorySetIsAccess /\ LoadIsInReach /\ ResultTagKept

(* Inside one word the tags of the loaded bytes are consecutive bits. *)
LEMMA LoadedTagInside ==
    ASSUME NEW type \in Type, NEW off \in Lane, ~CrossesWord(type, off), NEW tags
    PROVE  LoadedTag(type, off, tags, tags) <=> \E b \in 0 .. Size(type) - 1 : off + b \in tags
<1>1. Size(type) \in {1, 2, 4} /\ off + Size(type) <= 4
  <2>1. type = "word" => off = 0
    BY DEF CrossesWord
  <2>2. type = "half" => off # 3
    BY DEF CrossesWord
  <2>. QED
    BY <2>1, <2>2, SMT DEF Size, Type, Lane
<1>. DEFINE n == Size(type)
<1>. HIDE DEF n
<1>2. n \in {1, 2, 4} /\ off + n <= 4
  BY <1>1 DEF n
<1>3. LoadedTag(type, off, tags, tags) <=>
        \E at \in off .. off + n - 1 : IF at < 4 THEN at \in tags ELSE at - 4 \in tags
  BY Zenon DEF LoadedTag, n
<1>4. \A at \in off .. off + n - 1 : at < 4 /\ at - off \in 0 .. n - 1 /\ off + (at - off) = at
  BY <1>2, SMT DEF Lane
<1>5. \A b \in 0 .. n - 1 : off + b \in off .. off + n - 1 /\ off + b < 4
  BY <1>2, SMT DEF Lane
<1>6. ASSUME NEW at \in off .. off + n - 1, at \in tags
      PROVE  \E b \in 0 .. n - 1 : off + b \in tags
  BY <1>4, <1>6, Zenon
<1>7. ASSUME NEW b \in 0 .. n - 1, off + b \in tags
      PROVE  \E at \in off .. off + n - 1 : IF at < 4 THEN at \in tags ELSE at - 4 \in tags
  BY <1>5, <1>7, Zenon
<1>8. LoadedTag(type, off, tags, tags) <=> \E b \in 0 .. n - 1 : off + b \in tags
  BY <1>3, <1>4, <1>6, <1>7, Zenon
<1>. QED
  BY <1>8 DEF n

(* Looking up the tag bits of a load in reach finds one that is set if and *)
(* only if one of the loaded bytes is tagged.                              *)
LEMMA ExtendTagIsLoaded ==
    ASSUME NEW type \in Type, NEW off \in Lane, NEW word \in Int, ~CrossesWord(type, off),
           type = "word" \/ word % 2 = 0, NEW tags \in SUBSET Lane, NEW hold,
           NEW q, q.type = type, q.off = off + 4 * (word % 2)
    PROVE  ExtendTag(q, hold, tags) # {} <=> LoadedTag(type, off, tags, tags)
<1>1. CASE type = "word"
  <2>1. off = 0 /\ q.off \in {0, 4}
    <3>1. off = 0
      BY <1>1 DEF CrossesWord
    <3>2. word % 2 = 0 \/ word % 2 = 1
      BY SMT
    <3>. QED
      BY <3>1, <3>2
  <2>2. ExtendTag(q, hold, tags) = tags
    <3>1. ExtendTag(q, hold, tags) = WordTag(q.off, hold, tags)
      BY <1>1 DEF ExtendTag
    <3>2. q.off \notin 1 .. 3
      BY <2>1
    <3>. QED
      BY <3>1, <3>2, Zenon DEF WordTag
  <2>3. LoadedTag(type, off, tags, tags) <=> \E b \in 0 .. 4 - 1 : off + b \in tags
    BY <1>1, LoadedTagInside DEF Size
  <2>4. \A b \in Lane : b \in 0 .. 4 - 1 /\ off + b = b
    BY <2>1, SMT DEF Lane
  <2>5. \A b \in 0 .. 4 - 1 : b \in Lane /\ off + b = b
    BY <2>1, SMT DEF Lane
  <2>. QED
    BY <2>2, <2>3, <2>4, <2>5, Zenon
<1>2. CASE type = "half"
  <2>1. off \in 0 .. 2 /\ q.off = off
    BY <1>2, SMT DEF CrossesWord, Lane
  <2>2. ExtendTag(q, hold, tags) = {b \in 0 .. 2 - 1 : off + b \in tags}
    <3>1. ExtendTag(q, hold, tags) = HalfTag(off, hold, tags)
      BY <1>2, <2>1 DEF ExtendTag
    <3>2. HalfTag(off, hold, tags) = Bits(tags, off, 2)
      BY <2>1 DEF HalfTag
    <3>. QED
      BY <3>1, <3>2, Zenon DEF Bits
  <2>3. LoadedTag(type, off, tags, tags) <=> \E b \in 0 .. 2 - 1 : off + b \in tags
    BY <1>2, LoadedTagInside DEF Size
  <2>4. \A b \in 0 .. 2 - 1 : b \in Lane
    BY SMT DEF Lane
  <2>. QED
    BY <2>2, <2>3, <2>4, Zenon
<1>3. CASE type = "byte"
  <2>1. q.off = off /\ off \in 0 .. 5
    BY <1>3, SMT DEF Lane
  <2>2. ExtendTag(q, hold, tags) = {b \in 0 .. 1 - 1 : off + b \in tags}
    <3>1. ExtendTag(q, hold, tags) = ByteTag(off, tags)
      BY <1>3, <2>1 DEF ExtendTag
    <3>. QED
      BY <2>1, <3>1, Zenon DEF ByteTag, Bits
  <2>3. LoadedTag(type, off, tags, tags) <=> \E b \in 0 .. 1 - 1 : off + b \in tags
    BY <1>3, LoadedTagInside DEF Size
  <2>4. \A b \in 0 .. 1 - 1 : b \in Lane
    BY SMT DEF Lane
  <2>. QED
    BY <2>2, <2>3, <2>4, Zenon
<1>. QED
  BY <1>1, <1>2, <1>3 DEF Type

(* The bits the unit selects are bits of a tag word. *)
LEMMA ExtendTagTyped ==
    ASSUME NEW q, q.type \in Type, q.off \in 0 .. 7, NEW tags \in SUBSET Lane, NEW hold
    PROVE  ExtendTag(q, hold, tags) \subseteq Lane
<1>1. WordTag(q.off, hold, tags) \subseteq Lane
  <2>1. CASE q.off \in 1 .. 3
    <3>1. Bits(hold, q.off, 4 - q.off) \subseteq Lane
      BY <2>1, SMT DEF Bits, Lane
    <3>2. Shifted(Bits(tags, 0, q.off), 4 - q.off) \subseteq Lane
      BY <2>1, SMT DEF Shifted, Bits, Lane
    <3>. QED
      BY <2>1, <3>1, <3>2 DEF WordTag
  <2>2. CASE q.off \notin 1 .. 3
    BY <2>2, Zenon DEF WordTag
  <2>. QED
    BY <2>1, <2>2
<1>2. \A from \in 0 .. 7 : Bits(tags, from, 1) \subseteq Lane /\ Bits(tags, from, 2) \subseteq Lane
  BY SMT DEF Bits, Lane
<1>3. HalfTag(q.off, hold, tags) \subseteq Lane
  <2>1. CASE q.off \in 0 .. 2
    BY <1>2, <2>1 DEF HalfTag
  <2>2. CASE q.off = 3
    <3>1. Bits(hold, 3, 1) \subseteq Lane /\ Shifted(Bits(tags, 0, 1), 1) \subseteq Lane
      BY SMT DEF Bits, Shifted, Lane
    <3>. QED
      BY <2>2, <3>1 DEF HalfTag
  <2>3. CASE q.off \in {4, 5}
    BY <1>2, <2>3 DEF HalfTag
  <2>4. CASE q.off \in {6, 7}
    BY <2>4 DEF HalfTag
  <2>. QED
    BY <2>1, <2>2, <2>3, <2>4
<1>4. ByteTag(q.off, tags) \subseteq Lane
  BY <1>2 DEF ByteTag
<1>. QED
  BY <1>1, <1>3, <1>4 DEF ExtendTag, Type

(* An edge keeps the register that marks a p.spsw with its access. *)
LEMMA CycleKeepsMemorySet ==
    ASSUME IInv, MemorySetIsAccess,
           NEW gnt \in BOOLEAN, NEW rvalid \in BOOLEAN, NEW exValid \in BOOLEAN,
           NEW axiAnswers \in BOOLEAN, Cycle(gnt, rvalid, exValid, axiAnswers)
    PROVE  MemorySetIsAccess'
<1>1. CASE Misaligned(ex) /\ ex' \in SecondPart(ex) /\ memory_set' = memory_set
  <2>1. ex \in AccessType /\ ex # NoAccess
    BY <1>1 DEF Misaligned, IInv, Typed
  <2>. QED
    BY <1>1, <2>1, SecondPartIsAlike DEF MemorySetIsAccess
<1>2. CASE ex' # NoAccess => memory_set' = ex'.spsw
  BY <1>2 DEF MemorySetIsAccess
<1>3. CASE ex' = ex /\ memory_set' = memory_set
  BY <1>3 DEF MemorySetIsAccess
<1>. QED
  BY <1>1, <1>2, <1>3 DEF Cycle

(* An edge brings no load into EX that is out of reach. *)
LEMMA CycleKeepsReach ==
    ASSUME IInv, LoadIsInReach, LoadsInReach,
           NEW gnt \in BOOLEAN, NEW rvalid \in BOOLEAN, NEW exValid \in BOOLEAN,
           NEW axiAnswers \in BOOLEAN, Cycle(gnt, rvalid, exValid, axiAnswers)
    PROVE  LoadIsInReach'
<1>1. CASE Misaligned(ex) /\ ex' \in SecondPart(ex)
  <2>1. ex \in AccessType /\ CrossesWord(ex.type, ex.off)
    BY <1>1 DEF Misaligned, IInv, Typed
  <2>2. IsLoad' => IsLoad
    BY <1>1, <2>1, SecondPartIsAlike DEF IsLoad, Misaligned
  <2>. QED
    BY <2>1, <2>2 DEF LoadIsInReach
<1>2. CASE ex' \in Access \cup {NoAccess}
  BY <1>2, AccessAssumption DEF LoadIsInReach, LoadsInReach, IsLoad
<1>3. CASE ex' = ex
  BY <1>3 DEF LoadIsInReach, IsLoad
<1>. QED
  BY <1>1, <1>2, <1>3 DEF Cycle

(* The grant of a load makes the tag of its result ready. *)
LEMMA GrantGivesTag ==
    ASSUME LoadTagInv,
           NEW gnt \in BOOLEAN, NEW rvalid \in BOOLEAN, NEW exValid \in BOOLEAN,
           NEW axiAnswers \in BOOLEAN, Cycle(gnt, rvalid, exValid, axiAnswers),
           gnt, IsLoad
    PROVE  /\ RegisterTag(TRUE, core_lsu_rdata_tag)' = want'.tag
           /\ lsu_resp_CS' = "RAM" /\ ~req_q_tag'.we
<1>1. /\ ex \in AccessType /\ ~IsAxiAddr /\ ~Misaligned(ex) /\ ~ex.second
      /\ ~CrossesWord(ex.type, ex.off) /\ (ex.type = "word" \/ ex.word % 2 = 0)
      /\ ex.word \in RamWord
  BY DEF LoadTagInv, LoadIsInReach, Cycle, IsAxiAddr, Misaligned
<1>2. WeTag = FALSE
  BY DEF WeTag, LoadTagInv, MemorySetIsAccess, IsLoad
<1>3. rdata_o_tag' = tagmem[ex.word] /\ lsu_resp_CS' = "RAM"
  BY <1>1, <1>2 DEF Cycle, Route
<1>4. req_q_tag' = [type |-> ex.type, off |-> ex.off + 4 * (ex.word % 2), we |-> FALSE]
  BY <1>1, <1>2 DEF Cycle, LatchRequestTag
<1>5. core_lsu_rdata_tag' = tagmem[ex.word] /\ tagmem[ex.word] \in SUBSET Lane
  BY <1>1, <1>3 DEF core_lsu_rdata_tag, LoadTagInv, TypeOK
<1>6. want'.tag = LoadedTag(ex.type, ex.off, tagmem[ex.word], tagmem[ex.word])
  BY <1>1 DEF Cycle
<1>7. ex.type \in Type /\ ex.off \in Lane /\ ex.word \in Int
  BY <1>1 DEF AccessType
<1>8. ExtendTag(req_q_tag', rdata_q_tag', tagmem[ex.word]) # {}
        <=> LoadedTag(ex.type, ex.off, tagmem[ex.word], tagmem[ex.word])
  BY <1>1, <1>4, <1>5, <1>7, ExtendTagIsLoaded
<1>9. RegisterTag(TRUE, core_lsu_rdata_tag)' = (ExtendTag(req_q_tag', rdata_q_tag', tagmem[ex.word]) # {})
  BY <1>5, Zenon DEF RegisterTag
<1>10. LoadedTag(ex.type, ex.off, tagmem[ex.word], tagmem[ex.word]) \in BOOLEAN
  BY Zenon DEF LoadedTag
<1>11. RegisterTag(TRUE, core_lsu_rdata_tag)' = want'.tag
  BY <1>6, <1>8, <1>9, <1>10, Zenon
<1>. QED
  BY <1>3, <1>4, <1>11

(* An edge keeps the tag of a load until WB has taken it. *)
LEMMA CycleKeepsResultTag ==
    ASSUME LoadTagInv,
           NEW gnt \in BOOLEAN, NEW rvalid \in BOOLEAN, NEW exValid \in BOOLEAN,
           NEW axiAnswers \in BOOLEAN, Cycle(gnt, rvalid, exValid, axiAnswers)
    PROVE  ResultTagKept'
<1>1. /\ Awaited' <=> gnt \/ (Awaited /\ ~rvalid)
      /\ wb' = "load" => ~Stalled'
      /\ wb' = "load" \/ (Stalled' /\ IsLoad') =>
            \/ gnt /\ IsLoad /\ (Misaligned(ex) => TRUE \in ExStall)
            \/ ~gnt /\ Stalled /\ IsLoad
            \/ ~gnt /\ wb = "load" /\ CS = "WAIT_RVALID" /\ ~rvalid
  BY ResultsOwed DEF LoadTagInv, ResultTagKept
<1>2. ASSUME wb' = "load" \/ (Stalled' /\ IsLoad')
      PROVE  /\ RegisterTag(Awaited /\ lsu_resp_CS = "RAM", core_lsu_rdata_tag)' = want'.tag
             /\ Awaited' => ~req_q_tag'.we /\ lsu_resp_CS' = "RAM"
  <2>1. CASE gnt
    <3>1. /\ RegisterTag(TRUE, core_lsu_rdata_tag)' = want'.tag
          /\ lsu_resp_CS' = "RAM" /\ ~req_q_tag'.we
      BY <1>1, <1>2, <2>1, GrantGivesTag
    <3>2. Awaited'
      BY <1>1, <2>1
    <3>. QED
      BY <3>1, <3>2 DEF RegisterTag
  <2>2. CASE ~gnt
    <3>1. (Stalled /\ IsLoad) \/ (wb = "load" /\ Awaited /\ ~rvalid)
      BY <1>1, <1>2, <2>2 DEF Awaited
    <3>2. /\ RegisterTag(Awaited /\ lsu_resp_CS = "RAM", core_lsu_rdata_tag) = want.tag
          /\ Awaited => ~req_q_tag.we /\ lsu_resp_CS = "RAM"
      BY <3>1 DEF LoadTagInv, ResultTagKept
    <3>3. Awaited <=> port1_rvalid
      BY <3>2 DEF LoadTagInv, IInv, AnswersAreAwaited, Awaited, Cycle
    <3>4. ~Awaited' /\ Stalled /\ IsLoad /\ want' = want /\ req_q_tag' = req_q_tag
      BY <1>1, <2>2, <3>1, <3>3 DEF Cycle, LatchRequestTag
    <3>5. CASE ~Awaited
      <4>1. rdata_q_tag' = rdata_q_tag
        BY <3>3, <3>5 DEF Cycle, HoldTag
      <4>. QED
        BY <3>2, <3>4, <3>5, <4>1 DEF RegisterTag
    <3>6. CASE Awaited
      <4>. DEFINE kept == ExtendTag(req_q_tag, rdata_q_tag, core_lsu_rdata_tag)
      <4>1. kept \cap Lane = kept
        <5>1. core_lsu_rdata_tag \in SUBSET Lane
          BY DEF core_lsu_rdata_tag, LoadTagInv, TypeOK
        <5>2. req_q_tag.type \in Type /\ req_q_tag.off \in 0 .. 7
          BY DEF LoadTagInv, TypeOK
        <5>3. kept \subseteq Lane
          BY <5>1, <5>2, ExtendTagTyped
        <5>. QED
          BY <5>3
      <4>2. ~Misaligned(ex) /\ ~ex.second
        BY <3>4 DEF LoadTagInv, LoadIsInReach, Misaligned
      <4>3. rdata_q_tag' = IF kept \cap Lane # {} THEN {0} ELSE {}
        BY <3>2, <3>3, <3>6, <4>2 DEF Cycle, HoldTag
      <4>4. want.tag = (kept # {})
        BY <3>2, <3>6 DEF RegisterTag
      <4>5. RegisterTag(Awaited /\ lsu_resp_CS = "RAM", core_lsu_rdata_tag)' = (0 \in rdata_q_tag')
        BY <3>4, Zenon DEF RegisterTag
      <4>. HIDE DEF kept
      <4>6. (0 \in rdata_q_tag') = (kept # {})
        BY <4>1, <4>3
      <4>. QED
        BY <3>4, <4>4, <4>5, <4>6
    <3>. QED
      BY <3>5, <3>6
  <2>. QED
    BY <2>1, <2>2
<1>. QED
  BY <1>1, <1>2, Zenon DEF ResultTagKept

(* An edge takes the tag invariant along. *)
LEMMA StepKeepsTags == LoadsInReach => (LoadTagInv /\ [Next]_vars => LoadTagInv')
<1>1. ASSUME LoadsInReach, LoadTagInv, Next PROVE LoadTagInv'
  <2>1. IInv /\ TypeOK /\ IInv' /\ MemorySetIsAccess /\ LoadIsInReach
    BY <1>1, StepPreserves DEF LoadTagInv
  <2>2. PICK port0 \in OtherAccess \cup {NoRequest}, axiGrants, axiAnswers \in BOOLEAN,
             stall \in ExStall : Clock(port0, axiGrants, axiAnswers, stall)
    BY <1>1 DEF Next
  <2>3. TypeOK'
    BY <2>1, <2>2, ClockKeepsTypes
  <2>4. PICK gnt, rvalid, exValid \in BOOLEAN : Cycle(gnt, rvalid, exValid, axiAnswers)
    BY <2>1, <2>2, ClockIsCycle
  <2>5. MemorySetIsAccess'
    BY <2>1, <2>4, CycleKeepsMemorySet
  <2>6. LoadIsInReach'
    BY <1>1, <2>1, <2>4, CycleKeepsReach
  <2>7. ResultTagKept'
    BY <1>1, <2>4, CycleKeepsResultTag
  <2>. QED
    BY <2>1, <2>3, <2>5, <2>6, <2>7 DEF LoadTagInv
<1>2. ASSUME LoadTagInv, UNCHANGED vars PROVE LoadTagInv'
  BY <1>2, StepPreserves DEF LoadTagInv, vars, lsuVars, ramVars, stageVars, history, TypeOK,
      MemorySetIsAccess, LoadIsInReach, ResultTagKept, Stalled, IsLoad, Awaited,
      core_lsu_rdata_tag, RegisterTag
<1>. QED
  BY <1>1, <1>2

(* For loads in reach the tag WB sees is the OR of the tags of the loaded  *)
(* bytes, whatever the other master reads and writes, whatever stores and  *)
(* tag stores (misaligned ones too) come before, and for every stall.      *)
THEOREM CoreLoadsReturnTags ==
    ASSUME LoadsInReach
    PROVE  Spec => []LoadsReturnTags
<1>1. Init => MemorySetIsAccess /\ LoadIsInReach /\ ResultTagKept
  BY DEF Init, LsuInit, MemorySetIsAccess, LoadIsInReach, ResultTagKept, Stalled, IsLoad
<1>2. IInv /\ TypeOK /\ MemorySetIsAccess /\ LoadIsInReach /\ ResultTagKept => LoadTagInv
  BY DEF LoadTagInv
<1>3. LoadTagInv /\ [Next]_vars => LoadTagInv'
  BY StepKeepsTags
<1>4. LoadTagInv => LoadsReturnTags
  <2>1. ASSUME LoadTagInv, wb = "load"
        PROVE  RegisterTag(CS = "WAIT_RVALID" /\ lsu_resp_CS = "RAM", core_lsu_rdata_tag) = want.tag
    <3>1. /\ RegisterTag(Awaited /\ lsu_resp_CS = "RAM", core_lsu_rdata_tag) = want.tag
          /\ ~Stalled
      BY <2>1 DEF LoadTagInv, ResultTagKept
    <3>2. Awaited <=> CS = "WAIT_RVALID"
      BY <3>1 DEF Awaited, Stalled
    <3>. QED
      BY <3>1, <3>2 DEF RegisterTag
  <2>. QED
    BY <2>1 DEF LoadsReturnTags
<1>. QED
  BY <1>1, <1>2, <1>3, <1>4, InitEstablishes, CoreTypeCorrect, PTL DEF Spec

-----------------------------------------------------------------------------
(* The tag RAM. *)

(* The lanes a tag write reaches are those of the bytes stored. *)
LEMMA EnabledLanes ==
    ASSUME NEW type \in Type, NEW off \in Lane, NEW second \in BOOLEAN
    PROVE  ByteEnable(type, off, second) = StoredLanes(type, off, second)
<1>. DEFINE k(l) == IF second THEN l + 4 - off ELSE l - off
            n == Size(type)
<1>1. n \in {1, 2, 4}
  BY DEF Size, Type
<1>. HIDE DEF n
<1>2. ByteEnable(type, off, second) =
        IF second THEN 0 .. off + n - 5 ELSE {l \in off .. off + n - 1 : l < 4}
  BY Zenon DEF ByteEnable, n
<1>3. StoredLanes(type, off, second) = {l \in Lane : k(l) \in 0 .. n - 1}
  BY Zenon DEF StoredLanes, n
<1>4. CASE second
  <2>1. \A l \in Lane : k(l) \in 0 .. n - 1 <=> l \in 0 .. off + n - 5
    BY <1>1, <1>4, SMT DEF Lane
  <2>2. \A l \in 0 .. off + n - 5 : l \in Lane
    BY <1>1, SMT DEF Lane
  <2>. QED
    BY <1>2, <1>3, <1>4, <2>1, <2>2
<1>5. CASE ~second
  <2>1. \A l \in Lane : k(l) \in 0 .. n - 1 <=> l \in off .. off + n - 1 /\ l < 4
    BY <1>1, <1>5, SMT DEF Lane
  <2>2. \A l \in off .. off + n - 1 : l < 4 => l \in Lane
    BY <1>1, SMT DEF Lane
  <2>. QED
    BY <1>2, <1>3, <1>5, <2>1, <2>2
<1>. QED
  BY <1>4, <1>5

(* With one master an edge changes the tags as the granted access asks. *)
LEMMA ClockKeepsTagsInStep ==
    ASSUME IInv, TypeOK, MemorySetIsAccess, TagsFollowStores,
           NEW axiGrants \in BOOLEAN, NEW axiAnswers \in BOOLEAN, NEW stall \in ExStall,
           Clock(NoRequest, axiGrants, axiAnswers, stall)
    PROVE  TagsFollowStores'
<1>. DEFINE rvalid == core_lsu_rvalid(axiAnswers)
            gnt == core_lsu_gnt(NoRequest, axiGrants, rvalid)
            sel == Selected(NoRequest, CoreDataReq(rvalid))
            word == IF ex.second THEN first.word + 1 ELSE ex.word
            lanes == StoredLanes(ex.type, ex.off, ex.second)
<1>1. /\ TagRamClock(sel, WeTag, WdataTag)
      /\ Observe(NoRequest, gnt)
  BY Zenon DEF Clock, RamClock
<1>2. rvalid \in BOOLEAN
  BY DEF core_lsu_rvalid, IInv, Typed
<1>3. /\ gnt => Requests(ex, rvalid)
      /\ CoreDataReq(rvalid) # NoRequest <=> gnt /\ ~IsAxiAddr
  BY <1>2, GrantFacts DEF IInv, Port1Grant
<1>4. gnt => ex \in AccessType /\ ex # NoAccess /\ word = ex.word
  BY <1>3 DEF IInv, Typed, PartsInOrder, Requests, Stalled
<1>5. sel # NoRequest <=> gnt /\ word \in RamWord
  BY <1>3, <1>4 DEF Selected, IsAxiAddr
<1>6. goldTags' =
        IF (gnt /\ word \in RamWord) /\ (ex.spsw \/ (ex.we /\ ex.tagWe))
        THEN [goldTags EXCEPT ![word] = IF ex.spsw \/ ex.tag THEN @ \cup lanes ELSE @ \ lanes]
        ELSE goldTags
  BY <1>1, Zenon DEF Observe
<1>7. tagmem = goldTags
  BY DEF TagsFollowStores
<1>8. ASSUME sel # NoRequest
      PROVE  sel.word = word /\ sel.be = lanes
  <2>1. gnt /\ word = ex.word /\ ex \in AccessType
    BY <1>4, <1>5, <1>8
  <2>2. sel = [word |-> ex.word, we |-> ex.we,
               be |-> ByteEnable(ex.type, ex.off, ex.second),
               wdata |-> Rotate(ex.data, ex.off)]
    BY <1>8 DEF Selected, CoreDataReq
  <2>3. ByteEnable(ex.type, ex.off, ex.second) = lanes
    BY <2>1, EnabledLanes DEF AccessType
  <2>. QED
    BY <2>1, <2>2, <2>3
<1>9. gnt => /\ WeTag <=> ex.spsw \/ (ex.we /\ ex.tagWe)
             /\ WdataTag <=> ex.spsw \/ ex.tag
  BY <1>4 DEF WeTag, WdataTag, MemorySetIsAccess
<1>. HIDE DEF sel, gnt, word, lanes
<1>10. tagmem' = goldTags'
  BY <1>1, <1>5, <1>6, <1>7, <1>8, <1>9 DEF TagRamClock
<1>. QED
  BY <1>10 DEF TagsFollowStores

(* While the core is the only master of the RAM, tags change only when a   *)
(* store or a p.spsw to their byte is granted, and then as it says, for    *)
(* misaligned stores part by part.                                         *)
THEOREM CoreTagsFollowStores ==
    ASSUME OtherAccess = {}
    PROVE  Spec => []TagsFollowStores
<1>. DEFINE Inv == IInv /\ TypeOK /\ MemorySetIsAccess /\ TagsFollowStores
<1>1. Init => MemorySetIsAccess /\ TagsFollowStores
  BY DEF Init, MemorySetIsAccess, TagsFollowStores
<1>2. ASSUME Inv, [Next]_vars PROVE MemorySetIsAccess' /\ TagsFollowStores'
  <2>1. CASE Next
    <3>1. PICK axiGrants, axiAnswers \in BOOLEAN, stall \in ExStall :
                  Clock(NoRequest, axiGrants, axiAnswers, stall)
      BY <2>1 DEF Next
    <3>2. PICK gnt, rvalid, exValid \in BOOLEAN : Cycle(gnt, rvalid, exValid, axiAnswers)
      BY <1>2, <3>1, ClockIsCycle
    <3>. QED
      BY <1>2, <3>1, <3>2, CycleKeepsMemorySet, ClockKeepsTagsInStep
  <2>2. CASE UNCHANGED vars
    BY <1>2, <2>2 DEF vars, ramVars, stageVars, history, MemorySetIsAccess, TagsFollowStores
  <2>. QED
    BY <1>2, <2>1, <2>2
<1>. QED
  BY <1>1, <1>2, CoreRegionInvariant, CoreTypeCorrect, PTL DEF Spec
=============================================================================
