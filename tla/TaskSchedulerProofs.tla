------------------------- MODULE TaskSchedulerProofs ------------------------
(***************************************************************************)
(* Proofs about the steps of the scheduler.  StructInv says where every    *)
(* task is and what the running call still has to do, and holds of every   *)
(* step: no sleeper is passed over, no higher task is kept waiting and     *)
(* every task is in one list.  TimeInv says when every sleeper is due; it  *)
(* needs suspensions that the eight bits of uxPendedTicks can count, and   *)
(* gives the wake times and the types.                                     *)
(***************************************************************************)
EXTENDS TaskListProofs

(* The structural invariant. *)

(* The places of a task in its calls at which the scheduler runs; those  *)
(* at which a task may leave the processor asleep; those inside a        *)
(* suspension.                                                           *)
Outside == {"app", "yield", "reap", "reset", "new", "gone", "suspend", "try", "expired"}
Back    == Outside \ {"new", "gone"}
Asleep  == {"yield", "resume", "unlockTx", "unlockRx"}

Inside  == {"delay", "until", "resume", "held", "release", "lock", "check", "full", "place",
            "unlockTx", "unlockRx"}
Places  == Outside \cup Inside

CallType == [op : Op \cup {"none"}, wait : 0 .. MaxDelay, set : BOOLEAN, entering : 0 .. MaxDelay,
             over : 0 .. OverflowSpan - 1, after : Back, force : BOOLEAN]

(* Exactly the tasks that exist are in a ready or a delayed list. *)
PlacedOk == \A t \in Task : t \in Live <=> Placed(k, t)

(* Only the current task is inside a suspension, the nesting is what its *)
(* place says, and no tick is pended outside one.                        *)
PlacesOk ==
    /\ cur \in Task /\ suspended \in 0 .. 2
    /\ pc \in [Task -> Places] /\ call \in [Task -> CallType] /\ last \in [Task -> TickType]
    /\ \A t \in Task : pc[t] \notin Outside => cur = t /\ suspended > 0
    /\ suspended > 0 => pc[cur] \notin Outside
    /\ suspended = 2 => pc[cur] = "held"
    /\ suspended = 0 => k.pended = 0
    /\ \A t \in Task : pc[t] \in {"delay", "until"} => call[t].wait > 0 /\ call[t].force

(* The current task is ready, unless it has just put itself to sleep or  *)
(* deleted itself and is about to yield.                                 *)
CurOk ==
    /\ pc[cur] \notin Asleep => IsReady(k, cur)
    /\ ~call[cur].force /\ pc[cur] # "yield" => IsReady(k, cur)
    /\ cur \notin Live => pc[cur] = "yield"

(* The idle task is always ready (it makes no call that could put it to  *)
(* sleep), and the deleted tasks wait for it, each once.                 *)
IdleOk ==
    /\ IsReady(k, Idle) /\ pc[Idle] \in {"app", "resume", "reap"}
    /\ ~call[Idle].force /\ call[Idle].after \in {"app", "reap"}
    /\ pc[Idle] = "reap" \/ (pc[Idle] = "resume" /\ call[Idle].after = "reap") =>
            k.terminated # << >>
    /\ NoRepeats(k.terminated)
    /\ \A t \in Range(k.terminated) : pc[t] \notin {"new", "gone"} /\ t # Idle

(* A ready task above the current one has a yield on order. *)
HighOk ==
    \A t \in Task : IsReady(k, t) /\ Priority[t] > Priority[cur] =>
        k.yieldPending \/ pc[cur] = "yield"

(* The inductive invariant of the kernel's structure. *)
StructInv == DataOk(k) /\ PlacedOk /\ PlacesOk /\ CurOk /\ IdleOk /\ HighOk

(* The record of no call has the type of a call. *)
LEMMA NoCallIs == NoCall \in CallType
<1>1. 0 \in 0 .. MaxDelay /\ 0 \in 0 .. OverflowSpan - 1
  BY SpanAssumption DEF MaxDelay
<1>2. "app" \in Back
  BY DEF Back, Outside
<1>3. "none" \in Op \cup {"none"}
  OBVIOUS
<1> QED
  BY <1>1, <1>2, <1>3 DEF NoCall, CallType

(* The types of the parts of a call. *)
LEMMA CallIs ==
    ASSUME NEW c \in CallType
    PROVE  /\ c.op \in Op \cup {"none"} /\ c.wait \in 0 .. MaxDelay /\ c.after \in Back
           /\ c.force \in BOOLEAN
BY DEF CallType

(* What moving to another place of a call changes. *)
LEMMA GoToDueIs ==
    ASSUME pc \in [Task -> Places], call \in [Task -> CallType],
           NEW t \in Task, NEW at \in Places, NEW c \in CallType, NEW d, GoToDue(t, at, c, d)
    PROVE  /\ pc' \in [Task -> Places] /\ pc'[t] = at
           /\ \A u \in Task \ {t} : pc'[u] = pc[u] /\ call'[u] = call[u]
           /\ call' \in [Task -> CallType]
           /\ call'[t] = c \/ (at = "app" /\ call'[t] = NoCall)
           /\ last' = last
BY NoCallIs DEF GoToDue

(* A context switch keeps the invariant, from any consistent data in     *)
(* which the ready tasks of before are ready still.                      *)
LEMMA SwitchKeeps ==
    ASSUME StructInv, NEW s, DataOk(s), s.terminated = k.terminated,
           \A t \in Task : Placed(s, t) <=> Placed(k, t),
           \A t \in Task : IsReady(k, t) => IsReady(s, t),
           suspended = 0 => s.pended = 0,
           SwitchContext(s), UNCHANGED << suspended, pc, call, last >>
    PROVE  StructInv'
<1>1. IsReady(s, Idle) /\ Idle \in Task
  BY TaskAssumption DEF StructInv, IdleOk
<1>2. /\ DataOk(k') /\ SameStates(k', s)
      /\ suspended > 0 => cur' = cur /\ k'.yieldPending
      /\ ~(suspended > 0) => /\ cur' \in Task /\ IsReady(k', cur')
                             /\ \A t \in Task : IsReady(s, t) => Priority[t] <= Priority[cur']
  BY <1>1, SwitchContextIs
<1>3. /\ \A t \in Task : Placed(k', t) <=> Placed(s, t)
      /\ \A t \in Task : IsReady(k', t) <=> IsReady(s, t)
      /\ k'.terminated = s.terminated /\ k'.pended = s.pended
  BY <1>2, SameStatesIs DEF SameStates
<1>4. pc' = pc /\ call' = call /\ last' = last /\ suspended' = suspended
  OBVIOUS
<1>5. \A t \in Task : t \in Live' <=> t \in Live
  BY <1>3, <1>4 DEF Live
<1>6. PlacedOk'
  BY <1>3, <1>5 DEF StructInv, PlacedOk
<1>7. IdleOk'
  BY <1>1, <1>3, <1>4 DEF StructInv, IdleOk
<1>8. CASE suspended > 0
  <2>1. cur' = cur /\ k'.yieldPending
    BY <1>2, <1>8
  <2>2. PlacesOk'
    BY <1>4, <1>8, <2>1 DEF StructInv, PlacesOk
  <2>3. cur \in Task
    BY DEF StructInv, PlacesOk
  <2>4. CurOk'
    BY <1>3, <1>4, <1>5, <2>1, <2>3 DEF StructInv, CurOk
  <2>5. HighOk'
    BY <2>1 DEF HighOk
  <2> QED
    BY <1>2, <1>6, <1>7, <2>2, <2>4, <2>5 DEF StructInv
<1>9. CASE ~(suspended > 0)
  <2>1. suspended = 0
    BY <1>9 DEF StructInv, PlacesOk
  <2>2. cur' \in Task /\ IsReady(k', cur')
        /\ \A t \in Task : IsReady(s, t) => Priority[t] <= Priority[cur']
    BY <1>2, <1>9
  <2>3. PlacesOk'
    BY <1>3, <1>4, <2>1, <2>2 DEF StructInv, PlacesOk
  <2>4. CurOk'
    BY <1>6, <2>2 DEF CurOk, PlacedOk, Placed
  <2>5. HighOk'
    <3>1. \A t \in Task : Priority[t] \in Int
      BY PrioritiesAre
    <3>2. \A t \in Task : IsReady(k', t) => Priority[t] <= Priority[cur']
      BY <1>3, <2>2
    <3> QED
      BY <2>2, <3>1, <3>2 DEF HighOk
  <2> QED
    BY <1>2, <1>6, <1>7, <2>3, <2>4, <2>5 DEF StructInv
<1> QED
  BY <1>8, <1>9

(* The scheduler runs when the current task is outside the suspensions. *)
LEMMA CallerIs ==
    ASSUME StructInv, NEW t, cur = t, pc[t] \in Outside
    PROVE  /\ suspended = 0 /\ k.pended = 0 /\ t \in Task
           /\ \A u \in Task : pc[u] \in Outside
BY DEF StructInv, PlacesOk

(* A context switch between two calls. *)
LEMMA SameCallKeeps ==
    ASSUME StructInv, SwitchContext(k), suspended = 0, UNCHANGED << suspended, pc, call, last >>
    PROVE  StructInv'
BY SwitchKeeps DEF StructInv, PlacesOk

(* taskYIELD keeps the structure. *)
LEMMA YieldKeeps == ASSUME StructInv, NEW t \in Task, Yield(t) PROVE StructInv'
BY SameCallKeeps DEF Yield, Calls, Stay

(* So does the yield of the idle task. *)
LEMMA IdleYieldKeeps == ASSUME StructInv, IdleYield PROVE StructInv'
<1>1. suspended = 0
  <2>1. "app" \in Outside
    BY DEF Outside
  <2> QED
    BY <2>1, CallerIs DEF IdleYield, Running
<1> QED
  BY <1>1, SameCallKeeps DEF IdleYield, Stay

(* The tick interrupt keeps the structure, whether it counts or is       *)
(* pended.                                                               *)
LEMMA TickKeeps == ASSUME StructInv, Tick PROVE StructInv'
<1>0. /\ DataOk(k) /\ PlacedOk /\ PlacesOk /\ CurOk /\ IdleOk /\ HighOk /\ k \in KernelData
  BY DEF StructInv, DataOk, ListsOk
<1>1. pc' = pc /\ call' = call /\ last' = last /\ suspended' = suspended
  BY DEF Tick
<1>2. \A t \in Task : Priority[t] \in Int
  BY PrioritiesAre
<1>3. CASE suspended > 0
  <2>1. PICK n : n = (k.pended + 1) % PendedSpan
    OBVIOUS
  <2>2. n \in 0 .. PendedSpan - 1
    BY <1>0, <2>1, KernelParts, SpanAssumption
  <2>3. PICK s : s = [k EXCEPT !.pended = n]
    OBVIOUS
  <2>4. /\ s \in KernelData /\ SameLists(s, k) /\ s.delayed = k.delayed /\ s.overflow = k.overflow
        /\ s.terminated = k.terminated /\ s.tick = k.tick /\ s.yieldPending = k.yieldPending
        /\ s.nextUnblock = k.nextUnblock
    BY <1>0, <2>2, <2>3 DEF KernelData, SameLists
  <2>5. DataOk(s)
    BY <1>0, <2>4 DEF DataOk, SameLists, ListsOk, InTime, GenericOk, EventsOk, EventsSleep, TopOk,
                      Sorted, Delayed, OnEvent, IsReady
  <2>6. /\ \A t \in Task : Placed(s, t) <=> Placed(k, t)
        /\ \A t \in Task : IsReady(s, t) <=> IsReady(k, t)
    BY <2>4 DEF SameLists, Placed, IsReady, Delayed
  <2>7. suspended # 0
    BY <1>3
  <2>8. SwitchIf(k.yieldPending, s)
    BY <1>3, <2>1, <2>3 DEF Tick
  <2>9. CASE k.yieldPending
    <3>1. SwitchContext(s)
      BY <2>8, <2>9 DEF SwitchIf
    <3> QED
      BY <1>1, <2>4, <2>5, <2>6, <2>7, <3>1, SwitchKeeps
  <2>10. CASE ~k.yieldPending
    <3>1. k' = s /\ cur' = cur
      BY <2>8, <2>10 DEF SwitchIf, Keep
    <3>2. \A t \in Task : t \in Live' <=> t \in Live
      BY <1>1, <2>4, <3>1 DEF Live
    <3>3. PlacedOk'
      BY <1>0, <2>6, <3>1, <3>2 DEF PlacedOk
    <3>4. PlacesOk'
      BY <1>0, <1>1, <2>7, <3>1 DEF PlacesOk
    <3>5. CurOk'
      BY <1>0, <1>1, <2>6, <3>1, <3>2 DEF CurOk, PlacesOk
    <3>6. IdleOk'
      BY <1>0, <1>1, <2>4, <2>6, <3>1, TaskAssumption DEF IdleOk
    <3>7. HighOk'
      BY <1>0, <1>1, <2>4, <2>6, <3>1 DEF HighOk
    <3> QED
      BY <2>5, <3>1, <3>3, <3>4, <3>5, <3>6, <3>7 DEF StructInv
  <2> QED
    BY <2>9, <2>10
<1>4. CASE ~(suspended > 0)
  <2>1. suspended = 0 /\ k.pended = 0
    BY <1>0, <1>4 DEF PlacesOk
  <2>2. PICK i : i = IncrementTick(k)
    OBVIOUS
  <2>3. PICK s : s = i.data
    OBVIOUS
  <2>4. /\ DataOk(s) /\ i.switch \in BOOLEAN
        /\ s.terminated = k.terminated /\ s.pended = k.pended
        /\ s.yieldPending = k.yieldPending /\ (k.yieldPending => i.switch)
        /\ \A t \in Task : Placed(s, t) <=> Placed(k, t)
        /\ \A t \in Task : IsReady(k, t) => IsReady(s, t)
        /\ \A t \in Task : IsReady(s, t) /\ ~IsReady(k, t) =>
             (Priority[t] >= Priority[cur] => i.switch)
    BY <1>0, <2>2, <2>3, IncrementTickIs
  <2>5. SwitchIf(i.switch, s)
    BY <1>4, <2>2, <2>3 DEF Tick
  <2>6. CASE i.switch
    <3>1. SwitchContext(s)
      BY <2>5, <2>6 DEF SwitchIf
    <3> QED
      BY <1>1, <2>1, <2>4, <3>1, SwitchKeeps
  <2>7. CASE ~i.switch
    <3>1. k' = s /\ cur' = cur
      BY <2>5, <2>7 DEF SwitchIf, Keep
    <3>2. \A t \in Task : t \in Live' <=> t \in Live
      BY <1>1, <2>4, <3>1 DEF Live
    <3>3. PlacedOk'
      BY <1>0, <2>4, <3>1, <3>2 DEF PlacedOk
    <3>4. PlacesOk'
      BY <1>0, <1>1, <2>1, <2>4, <3>1 DEF PlacesOk
    <3>5. CurOk'
      BY <1>0, <1>1, <2>4, <3>1, <3>2 DEF CurOk, PlacesOk
    <3>6. IdleOk'
      BY <1>0, <1>1, <2>4, <3>1, TaskAssumption DEF IdleOk
    <3>7. HighOk'
      <4>1. ASSUME NEW t \in Task, IsReady(s, t), Priority[t] > Priority[cur]
            PROVE  s.yieldPending \/ pc[cur] = "yield"
        <5>1. Priority[t] >= Priority[cur]
          BY <1>0, <1>2, <4>1 DEF PlacesOk
        <5>2. IsReady(k, t)
          BY <2>4, <2>7, <4>1, <5>1
        <5> QED
          BY <1>0, <2>4, <4>1, <5>2 DEF HighOk
      <4> QED
        BY <1>1, <3>1, <4>1 DEF HighOk
    <3> QED
      BY <2>4, <3>1, <3>3, <3>4, <3>5, <3>6, <3>7 DEF StructInv
  <2> QED
    BY <2>6, <2>7
<1> QED
  BY <1>3, <1>4

(* vTaskSuspendAll at the start of a call keeps the structure. *)
LEMMA HoldKeeps ==
    ASSUME StructInv, NEW t \in Task, cur = t, pc[t] \in {"app", "held"},
           suspended = 0 \/ (suspended = 1 /\ t # Idle), SuspendAll,
           NEW at \in Inside, suspended = 1 => at = "held", NEW c \in CallType, GoTo(t, at, c),
           at \in {"delay", "until"} => c.wait > 0 /\ c.force,
           t = Idle => at = "resume" /\ ~c.force /\ c.after \in {"app", "reap"}
                       /\ k.terminated # << >>
    PROVE  StructInv'
<1>0. /\ DataOk(k) /\ PlacedOk /\ PlacesOk /\ CurOk /\ IdleOk /\ HighOk
      /\ pc \in [Task -> Places] /\ call \in [Task -> CallType]
      /\ last \in [Task -> TickType]
  BY DEF StructInv, PlacesOk
<1>1. GoToDue(t, at, c, due[t]) /\ at \in Places
  BY DEF GoTo, Places
<1>2. /\ pc' \in [Task -> Places] /\ pc'[t] = at
      /\ \A u \in Task \ {t} : pc'[u] = pc[u] /\ call'[u] = call[u]
      /\ call' \in [Task -> CallType]
      /\ call'[t] = c \/ (at = "app" /\ call'[t] = NoCall)
      /\ last' = last
  BY <1>0, <1>1, GoToDueIs
<1>3. at # "app" /\ at \notin Outside /\ at \notin {"new", "gone", "yield"}
  BY DEF Inside, Outside
<1>4. call'[t] = c
  BY <1>2, <1>3
<1>5. suspended' = suspended + 1 /\ cur' = cur /\ k' = k
  BY DEF SuspendAll
<1>6. pc[t] \notin Asleep /\ pc[t] \notin {"new", "gone", "yield"}
  BY DEF Asleep
<1>7. IsReady(k, t) /\ t \in Live
  BY <1>0, <1>6 DEF CurOk, PlacedOk, Placed
<1>8. \A u \in Task : u \in Live' <=> u \in Live
  <2>1. t \in Live'
    BY <1>2, <1>3, <1>5, <1>7 DEF Live
  <2>2. \A u \in Task \ {t} : u \in Live' <=> u \in Live
    BY <1>2, <1>5 DEF Live
  <2> QED
    BY <1>7, <2>1, <2>2
<1>9. PlacedOk'
  BY <1>0, <1>5, <1>8 DEF PlacedOk
<1>10. PlacesOk'
  <2>1. suspended' \in 1 .. 2
    BY <1>5
  <2>2. \A u \in Task : u # t => pc'[u] \in Outside
    <3>1. \A u \in Task : pc[u] \notin Outside => cur = u
      BY <1>0 DEF PlacesOk
    <3> QED
      BY <1>2, <3>1
  <2>3. \A u \in Task : u # t => pc'[u] \notin {"delay", "until"}
    BY <2>2 DEF Outside
  <2>4. suspended' = 2 => pc'[t] = "held"
    BY <1>2, <1>5
  <2> QED
    <3>1. cur' \in Task /\ suspended' \in 0 .. 2 /\ last' \in [Task -> TickType]
      BY <1>0, <1>2, <1>5, <2>1
    <3>2. \A u \in Task : pc'[u] \notin Outside => cur' = u /\ suspended' > 0
      BY <1>5, <2>1, <2>2
    <3>3. \A u \in Task : pc'[u] \in {"delay", "until"} => call'[u].wait > 0 /\ call'[u].force
      BY <1>2, <1>4, <2>3
    <3> QED
      BY <1>2, <1>3, <1>5, <2>1, <2>4, <3>1, <3>2, <3>3 DEF PlacesOk
<1>11. CurOk'
  BY <1>5, <1>7, <1>8 DEF CurOk
<1>12. IdleOk'
  <2>1. /\ pc'[Idle] \in {"app", "resume", "reap"}
        /\ ~call'[Idle].force /\ call'[Idle].after \in {"app", "reap"}
        /\ pc'[Idle] = "reap" \/ (pc'[Idle] = "resume" /\ call'[Idle].after = "reap") =>
              k.terminated # << >>
    BY <1>0, <1>2, <1>4, TaskAssumption DEF IdleOk
  <2>2. \A u \in Range(k.terminated) : u \in Task
    BY <1>0, KernelParts, RangeIs DEF DataOk, ListsOk, ListType
  <2>3. \A u \in Range(k.terminated) : pc'[u] \notin {"new", "gone"} /\ u # Idle
    BY <1>0, <1>2, <1>3, <2>2 DEF IdleOk
  <2> QED
    BY <1>0, <1>5, <2>1, <2>3 DEF IdleOk
<1>13. HighOk'
  BY <1>0, <1>5, <1>6 DEF HighOk
<1> QED
  BY <1>0, <1>5, <1>9, <1>10, <1>11, <1>12, <1>13 DEF StructInv

(* Where the task is that makes a call. *)
LEMMA CallsIs ==
    ASSUME StructInv, NEW t \in Task, NEW op, Calls(t, op)
    PROVE  cur = t /\ pc[t] = "app" /\ suspended = 0 /\ t # Idle
BY TaskAssumption DEF Calls, Running

(* A block time is a number of ticks. *)
LEMMA MaxDelayIs == \A t \in Task : \A wait \in Waits[t] : wait \in 0 .. MaxDelay
BY SpanAssumption

(* The start of vTaskDelay keeps the structure. *)
LEMMA DelayKeeps == ASSUME StructInv, NEW t \in Task, NEW wait \in Waits[t], Delay(t, wait) PROVE StructInv'
<1>1. cur = t /\ pc[t] = "app" /\ suspended = 0 /\ t # Idle
  BY CallsIs DEF Delay
<1>2. CASE wait = 0
  BY <1>1, <1>2, SameCallKeeps DEF Delay, Stay
<1>3. CASE wait # 0
  <2>1. PICK c : c = [NoCall EXCEPT !.op = "delay", !.wait = wait, !.force = TRUE]
    OBVIOUS
  <2>2. wait \in 0 .. MaxDelay /\ wait > 0
    BY <1>3, MaxDelayIs, SpanAssumption DEF MaxDelay
  <2>3. c \in CallType /\ c.wait = wait /\ c.force = TRUE
    BY <2>1, <2>2, NoCallIs DEF CallType, Op
  <2>4. SuspendAll /\ GoTo(t, "delay", c)
    BY <1>3, <2>1 DEF Delay
  <2>5. "delay" \in Inside /\ "delay" # "held"
    BY DEF Inside
  <2> QED
    BY <1>1, <2>2, <2>3, <2>4, <2>5, HoldKeeps
<1> QED
  BY <1>2, <1>3

(* The start of vTaskDelayUntil keeps the structure. *)
LEMMA DelayUntilKeeps ==
    ASSUME StructInv, NEW t \in Task, NEW wait \in Waits[t], DelayUntil(t, wait) PROVE StructInv'
<1>1. cur = t /\ pc[t] = "app" /\ suspended = 0 /\ t # Idle
  BY CallsIs DEF DelayUntil
<1>2. PICK c : c = [NoCall EXCEPT !.op = "until", !.wait = wait, !.force = TRUE]
  OBVIOUS
<1>3. wait \in 0 .. MaxDelay /\ wait > 0
  BY MaxDelayIs DEF DelayUntil
<1>4. c \in CallType /\ c.wait = wait /\ c.force = TRUE
  BY <1>2, <1>3, NoCallIs DEF CallType, Op
<1>5. SuspendAll /\ GoTo(t, "until", c)
  BY <1>2 DEF DelayUntil
<1>6. "until" \in Inside
  BY DEF Inside
<1> QED
  BY <1>1, <1>3, <1>4, <1>5, <1>6, HoldKeeps

(* vTaskSuspendAll by the application keeps the structure. *)
LEMMA AppSuspendAllKeeps == ASSUME StructInv, NEW t \in Task, AppSuspendAll(t) PROVE StructInv'
<1>1. cur = t /\ pc[t] \in {"app", "held"} /\ (suspended = 0 \/ (suspended = 1 /\ t # Idle))
  <2>1. CASE Calls(t, "suspend")
    BY <2>1, CallsIs
  <2>2. CASE Running(t, "held") /\ suspended = 1
    BY <2>2 DEF Running, StructInv, IdleOk
  <2> QED
    BY <2>1, <2>2 DEF AppSuspendAll
<1>2. "held" \in Inside
  BY DEF Inside
<1>3. SuspendAll /\ GoTo(t, "held", NoCall)
  BY DEF AppSuspendAll
<1>4. t # Idle
  <2>1. CASE Calls(t, "suspend")
    BY <2>1, CallsIs
  <2>2. CASE Running(t, "held") /\ suspended = 1
    BY <2>2 DEF Running, StructInv, IdleOk
  <2> QED
    BY <2>1, <2>2 DEF AppSuspendAll
<1> QED
  BY <1>1, <1>2, <1>3, <1>4, NoCallIs, HoldKeeps

(* vTaskSuspendAll by the idle task keeps the structure. *)
LEMMA IdleSuspendAllKeeps == ASSUME StructInv, IdleSuspendAll PROVE StructInv'
<1>1. cur = Idle /\ pc[Idle] = "app" /\ k.terminated # << >> /\ Idle \in Task
  BY TaskAssumption DEF IdleSuspendAll, Running
<1>2. "app" \in Outside /\ "resume" \in Inside /\ "reap" \in Back
  BY DEF Outside, Inside, Back
<1>3. suspended = 0
  BY <1>1, <1>2, CallerIs
<1>4. PICK c : c = [NoCall EXCEPT !.after = "reap"]
  OBVIOUS
<1>5. c \in CallType /\ c.after = "reap" /\ ~c.force
  BY <1>2, <1>4, NoCallIs DEF CallType, NoCall
<1>6. SuspendAll /\ GoTo(Idle, "resume", c)
  BY <1>4 DEF IdleSuspendAll
<1> QED
  BY <1>1, <1>2, <1>3, <1>5, <1>6, HoldKeeps

(* Reading the tick count keeps the structure. *)
LEMMA ResyncKeeps == ASSUME StructInv, NEW t \in Task, Resync(t) PROVE StructInv'
<1>1. last' \in [Task -> TickType]
  BY KernelParts DEF Resync, StructInv, PlacesOk, DataOk, ListsOk
<1> QED
  BY <1>1 DEF Resync, StructInv, PlacedOk, PlacesOk, CurOk, IdleOk, HighOk, Live

(* The current task falling asleep, or finding its time past, keeps the  *)
(* structure.                                                            *)
LEMMA SleepKeeps ==
    ASSUME StructInv, NEW t \in Task, cur = t, pc[t] \in {"delay", "until"},
           NEW wake \in 0 .. MaxDelay, wake # k.tick,
           k' = k \/ k' = AddCurrentTaskToDelayedList(k, wake),
           cur' = cur, suspended' = suspended, pc' = [pc EXCEPT ![t] = "resume"],
           call' \in [Task -> CallType], call'[t].force,
           \A u \in Task \ {t} : call'[u] = call[u], last' \in [Task -> TickType]
    PROVE  StructInv'
<1>0. /\ DataOk(k) /\ PlacedOk /\ PlacesOk /\ CurOk /\ IdleOk /\ HighOk /\ k \in KernelData
      /\ pc \in [Task -> Places] /\ call \in [Task -> CallType] /\ cur \in Task
      /\ GenericOk(k) /\ EventsOk(k) /\ TopOk(k) /\ Sorted(k) /\ InTime(k) /\ EventsSleep(k)
  BY DEF StructInv, PlacesOk, DataOk, ListsOk
<1>1. PICK s : s = AddCurrentTaskToDelayedList(k, wake)
  OBVIOUS
<1>2. /\ DataOk(s)
      /\ \A u \in Task : IsReady(s, u) <=> IsReady(k, u) /\ u # cur
      /\ \A u \in Task : u \in Delayed(s) <=> u \in Delayed(k) \/ u = cur
      /\ s.terminated = k.terminated /\ s.pended = k.pended
      /\ s.yieldPending = k.yieldPending
  BY <1>0, <1>1, AddCurrentTaskToDelayedListIs DEF EventsSleep
<1>3. t # Idle /\ IsReady(k, t) /\ t \in Live
  <2>1. t # Idle
    BY <1>0 DEF IdleOk
  <2>2. IsReady(k, t)
    BY <1>0 DEF CurOk, Asleep
  <2> QED
    BY <1>0, <2>1, <2>2 DEF PlacedOk, Placed
<1>4. /\ DataOk(k')
      /\ \A u \in Task : IsReady(k', u) => IsReady(k, u)
      /\ \A u \in Task \ {cur} : IsReady(k, u) => IsReady(k', u)
      /\ \A u \in Task : Placed(k', u) <=> Placed(k, u)
      /\ k'.terminated = k.terminated /\ k'.pended = k.pended
      /\ k'.yieldPending = k.yieldPending
  BY <1>0, <1>1, <1>2, <1>3 DEF Placed
<1>5. pc'[t] = "resume" /\ \A u \in Task \ {t} : pc'[u] = pc[u]
  BY <1>0
<1>6. \A u \in Task : u \in Live' <=> u \in Live
  <2>1. t \in Live'
    BY <1>3, <1>4, <1>5 DEF Live
  <2>2. \A u \in Task \ {t} : u \in Live' <=> u \in Live
    BY <1>4, <1>5 DEF Live
  <2> QED
    BY <1>3, <2>1, <2>2
<1>7. PlacedOk'
  BY <1>0, <1>4, <1>6 DEF PlacedOk
<1>8. PlacesOk'
  <2>1. pc' \in [Task -> Places]
    BY <1>0 DEF Places, Inside
  <2>2. /\ suspended > 0 /\ suspended # 2 /\ suspended \in 0 .. 2
    BY <1>0 DEF PlacesOk, Outside
  <2>3. \A u \in Task : pc'[u] \notin Outside => cur' = u
    BY <1>0, <1>5 DEF PlacesOk
  <2>4. pc'[t] \notin Outside
    BY <1>5 DEF Outside
  <2>5. \A u \in Task : pc'[u] \in {"delay", "until"} => call'[u].wait > 0 /\ call'[u].force
    BY <1>0, <1>5 DEF PlacesOk
  <2> QED
    BY <1>0, <2>1, <2>2, <2>3, <2>4, <2>5 DEF PlacesOk
<1>9. CurOk'
  BY <1>3, <1>5, <1>6 DEF CurOk, Asleep
<1>10. IdleOk'
  <2>1. IsReady(k', Idle)
    BY <1>0, <1>3, <1>4, TaskAssumption DEF IdleOk
  <2>2. pc'[Idle] = pc[Idle] /\ call'[Idle] = call[Idle]
    BY <1>3, <1>5, TaskAssumption
  <2>3. \A u \in Range(k.terminated) : u \in Task
    BY <1>0, KernelParts, RangeIs DEF ListType
  <2>4. \A u \in Range(k.terminated) : pc'[u] \notin {"new", "gone"} /\ u # Idle
    BY <1>0, <1>5, <2>3 DEF IdleOk
  <2> QED
    BY <1>0, <1>4, <2>1, <2>2, <2>4 DEF IdleOk
<1>11. HighOk'
  BY <1>0, <1>4, <1>5 DEF HighOk
<1> QED
  BY <1>4, <1>7, <1>8, <1>9, <1>10, <1>11 DEF StructInv

(* Falling asleep in vTaskDelay keeps the structure. *)
LEMMA DelayPlaceKeeps == ASSUME StructInv, NEW t \in Task, DelayPlace(t) PROVE StructInv'
<1>0. /\ cur = t /\ pc[t] = "delay" /\ k \in KernelData /\ PlacesOk
      /\ pc \in [Task -> Places] /\ call \in [Task -> CallType] /\ last \in [Task -> TickType]
  BY DEF DelayPlace, Running, StructInv, PlacesOk, DataOk, ListsOk
<1>1. /\ call[t].wait \in 0 .. MaxDelay /\ call[t].wait > 0 /\ call[t].force
      /\ k.tick \in 0 .. MaxDelay
  BY <1>0, CallIs, KernelParts DEF PlacesOk, TickType
<1>2. PICK wake : wake = (k.tick + call[t].wait) % TickSpan
  OBVIOUS
<1>3. wake \in 0 .. MaxDelay /\ wake # k.tick
  BY <1>1, <1>2, AheadIs
<1>4. PICK c : c = [call[t] EXCEPT !.wait = 0]
  OBVIOUS
<1>5. c \in CallType /\ c.force = call[t].force
  BY <1>0, <1>4, SpanAssumption DEF CallType, MaxDelay
<1>6. GoToDue(t, "resume", c, call[t].wait - k.pended)
  BY <1>4 DEF DelayPlace
<1>7. /\ call' \in [Task -> CallType] /\ call'[t] = c /\ last' = last
      /\ \A u \in Task \ {t} : call'[u] = call[u]
      /\ pc' = [pc EXCEPT ![t] = "resume"]
  BY <1>0, <1>5, <1>6 DEF GoToDue
<1>8. k' = AddCurrentTaskToDelayedList(k, wake) /\ cur' = cur /\ suspended' = suspended
  BY <1>2 DEF DelayPlace, Keep
<1> QED
  BY <1>0, <1>1, <1>3, <1>5, <1>7, <1>8, SleepKeeps

(* Falling asleep in vTaskDelayUntil keeps the structure. *)
LEMMA UntilPlaceKeeps == ASSUME StructInv, NEW t \in Task, UntilPlace(t) PROVE StructInv'
<1>0. /\ cur = t /\ pc[t] = "until" /\ k \in KernelData /\ PlacesOk
      /\ pc \in [Task -> Places] /\ call \in [Task -> CallType] /\ last \in [Task -> TickType]
  BY DEF UntilPlace, Running, StructInv, PlacesOk, DataOk, ListsOk
<1>1. /\ call[t].wait \in 0 .. MaxDelay /\ call[t].force
      /\ k.tick \in 0 .. MaxDelay /\ last[t] \in 0 .. MaxDelay
  BY <1>0, CallIs, KernelParts DEF PlacesOk, TickType
<1>2. PICK wake : wake = (last[t] + call[t].wait) % TickSpan
  OBVIOUS
<1>3. wake \in 0 .. MaxDelay
  BY <1>1, <1>2, AheadIs
<1>4. PICK sleep \in BOOLEAN : sleep <=> IF k.tick < last[t] THEN wake < last[t] /\ wake > k.tick
                                                         ELSE wake < last[t] \/ wake > k.tick
  OBVIOUS
<1>5. /\ k' = IF sleep THEN AddCurrentTaskToDelayedList(k, wake) ELSE k
      /\ cur' = cur /\ suspended' = suspended /\ call' = call
      /\ pc' = [pc EXCEPT ![t] = "resume"] /\ last' = [last EXCEPT ![t] = wake]
  BY <1>2, <1>4 DEF UntilPlace, Keep
<1>6. last' \in [Task -> TickType]
  BY <1>0, <1>3, <1>5 DEF TickType
<1>7. CASE sleep
  <2>1. wake # k.tick
    BY <1>1, <1>3, <1>4, <1>7, SpanAssumption DEF MaxDelay
  <2> QED
    BY <1>0, <1>1, <1>3, <1>5, <1>6, <1>7, <2>1, SleepKeeps
<1>8. CASE ~sleep
  <2>1. 0 \in 0 .. MaxDelay /\ 1 \in 0 .. MaxDelay
    BY SpanAssumption DEF MaxDelay
  <2>2. PICK other \in 0 .. MaxDelay : other # k.tick
    BY <2>1
  <2>3. k' = k
    BY <1>5, <1>8
  <2> QED
    BY <1>0, <1>1, <1>5, <1>6, <2>2, <2>3, SleepKeeps
<1> QED
  BY <1>7, <1>8

(* xTaskResumeAll, nested or last, keeps the structure. *)
LEMMA LetGoKeeps ==
    ASSUME StructInv, NEW t \in Task, cur = t, suspended \in 1 .. 2,
           NEW yielded \in BOOLEAN, ResumeAll(yielded),
           NEW at, NEW c \in CallType, GoTo(t, at, c),
           suspended = 2 => at = "release" /\ t # Idle, suspended = 1 => at \in Back,
           ~yielded => at = "yield" \/ IsReady(k, t),
           t = Idle => c = call[t] /\ at = c.after /\ pc[t] = "resume"
    PROVE  StructInv'
<1>0. /\ DataOk(k) /\ PlacedOk /\ PlacesOk /\ CurOk /\ IdleOk /\ HighOk /\ k \in KernelData
      /\ pc \in [Task -> Places] /\ call \in [Task -> CallType] /\ last \in [Task -> TickType]
      /\ cur \in Task /\ Idle \in Task /\ IsReady(k, Idle)
  BY TaskAssumption DEF StructInv, PlacesOk, DataOk, ListsOk, IdleOk
<1>1. /\ suspended' = suspended - 1 /\ DataOk(k') /\ SameTasks(k', k)
      /\ k'.terminated = k.terminated
      /\ suspended = 2 => k' = k /\ cur' = cur /\ ~yielded
      /\ suspended = 1 =>
            /\ k'.pended = 0
            /\ yielded => /\ cur' \in Task /\ IsReady(k', cur')
                          /\ \A u \in Task : IsReady(k', u) => Priority[u] <= Priority[cur']
            /\ ~yielded => /\ cur' = cur /\ ~k.yieldPending
                           /\ \A u \in Task : IsReady(k', u) /\ ~IsReady(k, u) =>
                                ~(Priority[u] > Priority[cur])
  BY <1>0, ResumeAllIs
<1>2. GoToDue(t, at, c, due[t]) /\ at \in Places
  BY DEF GoTo, Places, Inside, Back
<1>3. /\ pc' \in [Task -> Places] /\ pc'[t] = at
      /\ \A u \in Task \ {t} : pc'[u] = pc[u] /\ call'[u] = call[u]
      /\ call' \in [Task -> CallType]
      /\ call'[t] = c \/ (at = "app" /\ call'[t] = NoCall)
      /\ last' \in [Task -> TickType]
  BY <1>0, <1>2, GoToDueIs
<1>4. pc[t] \notin Outside
  BY <1>0 DEF PlacesOk
<1>5. pc[t] \notin {"new", "gone", "yield"} /\ at \notin {"new", "gone", "delay", "until"}
  BY <1>4 DEF Outside, Back
<1>6. t \in Live
  BY <1>0, <1>5 DEF CurOk
<1>7. \A u \in Task : u \in Live' <=> u \in Live
  <2>1. t \in Live'
    BY <1>1, <1>3, <1>5, <1>6 DEF Live
  <2>2. \A u \in Task \ {t} : u \in Live' <=> u \in Live
    BY <1>1, <1>3 DEF Live
  <2> QED
    BY <1>6, <2>1, <2>2
<1>8. PlacedOk'
  BY <1>0, <1>1, <1>7 DEF PlacedOk, SameTasks
<1>9. cur' \in Task
  BY <1>0, <1>1
<1>10. PlacesOk'
  <2>1. \A u \in Task \ {t} : pc'[u] \in Outside
    BY <1>0, <1>3 DEF PlacesOk
  <2>2. \A u \in Task : pc'[u] \notin {"delay", "until"}
    BY <1>3, <1>5, <2>1 DEF Outside
  <2>3. CASE suspended = 2
    <3>1. pc'[t] = "release" /\ "release" \notin Outside /\ suspended' = 1 /\ cur' = t
      BY <1>1, <1>3, <2>3 DEF Outside
    <3> QED
      BY <1>3, <1>9, <2>1, <2>2, <3>1 DEF PlacesOk
  <2>4. CASE suspended = 1
    <3>1. pc'[t] \in Outside /\ suspended' = 0 /\ k'.pended = 0
      BY <1>1, <1>3, <2>4 DEF Back
    <3> QED
      BY <1>3, <1>9, <2>1, <2>2, <3>1 DEF PlacesOk
  <2> QED
    BY <2>3, <2>4
<1>11. CurOk'
  <2>1. CASE yielded
    <3>1. IsReady(k', cur')
      BY <1>1, <2>1
    <3>2. cur' \in Live'
      BY <1>8, <1>9, <3>1 DEF PlacedOk, Placed
    <3> QED
      BY <3>1, <3>2 DEF CurOk
  <2>2. CASE ~yielded
    <3>1. cur' = t /\ t \in Live'
      BY <1>1, <1>6, <1>7, <2>2
    <3>2. CASE at = "yield"
      BY <1>3, <3>1, <3>2 DEF CurOk, Asleep
    <3>3. CASE IsReady(k, t)
      <4>1. IsReady(k', t)
        BY <1>1, <3>3 DEF SameTasks
      <4> QED
        BY <3>1, <4>1 DEF CurOk
    <3> QED
      BY <2>2, <3>2, <3>3
  <2> QED
    BY <2>1, <2>2
<1>12. IdleOk'
  <2>1. IsReady(k', Idle)
    BY <1>0, <1>1 DEF SameTasks
  <2>2. /\ pc'[Idle] \in {"app", "resume", "reap"}
        /\ ~call'[Idle].force /\ call'[Idle].after \in {"app", "reap"}
        /\ pc'[Idle] = "reap" \/ (pc'[Idle] = "resume" /\ call'[Idle].after = "reap") =>
              k.terminated # << >>
    <3>1. CASE t = Idle
      BY <1>0, <1>3, <3>1 DEF IdleOk, NoCall
    <3>2. CASE t # Idle
      BY <1>0, <1>3, <3>2 DEF IdleOk
    <3> QED
      BY <3>1, <3>2
  <2>3. \A u \in Range(k.terminated) : u \in Task
    BY <1>0, KernelParts, RangeIs DEF ListType
  <2>4. \A u \in Range(k.terminated) : pc'[u] \notin {"new", "gone"} /\ u # Idle
    BY <1>0, <1>3, <1>5, <2>3 DEF IdleOk
  <2> QED
    BY <1>0, <1>1, <2>1, <2>2, <2>4 DEF IdleOk
<1>13. HighOk'
  <2>1. CASE suspended = 2
    BY <1>0, <1>1, <1>5, <2>1 DEF HighOk
  <2>2. CASE suspended = 1 /\ yielded
    <3>1. \A u \in Task : Priority[u] \in Int
      BY PrioritiesAre
    <3>2. \A u \in Task : IsReady(k', u) => Priority[u] <= Priority[cur']
      BY <1>1, <2>2
    <3> QED
      BY <1>9, <3>1, <3>2 DEF HighOk
  <2>3. CASE suspended = 1 /\ ~yielded
    BY <1>0, <1>1, <1>5, <2>3 DEF HighOk
  <2> QED
    BY <2>1, <2>2, <2>3
<1> QED
  BY <1>1, <1>8, <1>10, <1>11, <1>12, <1>13 DEF StructInv

(* The nesting of the suspension the current task is in. *)
LEMMA HoldsIs ==
    ASSUME StructInv, NEW t \in Task, cur = t, pc[t] \notin Outside
    PROVE  /\ suspended \in 1 .. 2 /\ (suspended = 2 => pc[t] = "held")
           /\ call[t] \in CallType /\ k \in KernelData
BY DEF StructInv, PlacesOk, DataOk, ListsOk

(* xTaskResumeAll at the end of a call keeps the structure. *)
LEMMA ResumeKeeps == ASSUME StructInv, NEW t \in Task, Resume(t) PROVE StructInv'
<1>1. cur = t /\ pc[t] = "resume"
  BY DEF Resume, Running
<1>2. suspended = 1 /\ call[t] \in CallType
  BY <1>1, HoldsIs DEF Outside
<1>3. PICK yielded \in BOOLEAN :
        /\ ResumeAll(yielded)
        /\ GoTo(t, IF call[t].force /\ ~yielded THEN "yield" ELSE call[t].after, call[t])
  BY DEF Resume
<1>4. PICK at : at = IF call[t].force /\ ~yielded THEN "yield" ELSE call[t].after
  OBVIOUS
<1>5. at \in Back
  BY <1>2, <1>4, CallIs DEF Back, Outside
<1>6. ~yielded => at = "yield" \/ IsReady(k, t)
  BY <1>1, <1>4 DEF StructInv, CurOk
<1>7. t = Idle => at = call[t].after
  BY <1>4 DEF StructInv, IdleOk
<1> QED
  BY <1>1, <1>2, <1>3, <1>4, <1>5, <1>6, <1>7, LetGoKeeps

(* xTaskResumeAll by the application keeps the structure. *)
LEMMA AppResumeAllKeeps == ASSUME StructInv, NEW t \in Task, AppResumeAll(t) PROVE StructInv'
<1>1. cur = t /\ pc[t] \in {"held", "release"}
  BY DEF AppResumeAll, Running
<1>2. suspended \in 1 .. 2
  BY <1>1, HoldsIs DEF Outside
<1>3. PICK yielded \in BOOLEAN : ResumeAll(yielded)
  BY DEF AppResumeAll
<1>4. PICK at : at = IF suspended = 1 THEN "app" ELSE "release"
  OBVIOUS
<1>5. GoTo(t, at, NoCall) /\ (suspended = 2 => at = "release") /\ (suspended = 1 => at \in Back)
  BY <1>2, <1>4 DEF AppResumeAll, Back, Outside
<1>6. IsReady(k, t) /\ t # Idle
  BY <1>1 DEF StructInv, CurOk, Asleep, IdleOk
<1> QED
  BY <1>1, <1>2, <1>3, <1>5, <1>6, NoCallIs, LetGoKeeps

(* The yield at the end of a call keeps the structure: a task that       *)
(* sleeps or is deleted leaves the processor here.                       *)
LEMMA YieldWithinApiKeeps == ASSUME StructInv, NEW t \in Task, YieldWithinApi(t) PROVE StructInv'
<1>0. /\ DataOk(k) /\ PlacedOk /\ PlacesOk /\ CurOk /\ IdleOk /\ HighOk /\ k \in KernelData
      /\ pc \in [Task -> Places] /\ call \in [Task -> CallType] /\ last \in [Task -> TickType]
      /\ cur \in Task /\ Idle \in Task /\ IsReady(k, Idle)
  BY TaskAssumption DEF StructInv, PlacesOk, DataOk, ListsOk, IdleOk
<1>1. cur = t /\ pc[t] = "yield" /\ SwitchContext(k) /\ suspended' = suspended
  BY DEF YieldWithinApi, Running
<1>2. suspended = 0 /\ k.pended = 0 /\ \A u \in Task : pc[u] \in Outside
  BY <1>1, CallerIs DEF Outside
<1>3. /\ DataOk(k') /\ SameStates(k', k)
      /\ cur' \in Task /\ IsReady(k', cur')
      /\ \A u \in Task : IsReady(k, u) => Priority[u] <= Priority[cur']
  BY <1>0, <1>1, <1>2, SwitchContextIs
<1>4. PICK at : at = call[t].after
  OBVIOUS
<1>5. at \in Back /\ call[t] \in CallType
  BY <1>0, <1>4, CallIs
<1>6. at \in Outside /\ at \in Places /\ at \notin {"new", "gone", "delay", "until"}
  BY <1>5 DEF Back, Outside, Places
<1>7. GoToDue(t, at, call[t], due[t])
  BY <1>4 DEF YieldWithinApi, GoTo
<1>8. /\ pc' \in [Task -> Places] /\ pc'[t] = at
      /\ \A u \in Task \ {t} : pc'[u] = pc[u] /\ call'[u] = call[u]
      /\ call' \in [Task -> CallType] /\ last' = last
  BY <1>0, <1>5, <1>6, <1>7, GoToDueIs
<1>9. /\ \A u \in Task : Placed(k', u) <=> Placed(k, u)
      /\ \A u \in Task : IsReady(k', u) <=> IsReady(k, u)
      /\ k'.terminated = k.terminated /\ k'.pended = k.pended
  BY <1>3, SameStatesIs DEF SameStates
<1>10. \A u \in Task : u \in Live' <=> u \in Live
  <2>1. t \in Live' <=> t \in Live
    BY <1>1, <1>6, <1>8, <1>9 DEF Live
  <2>2. \A u \in Task \ {t} : u \in Live' <=> u \in Live
    BY <1>8, <1>9 DEF Live
  <2> QED
    BY <2>1, <2>2
<1>11. PlacedOk'
  BY <1>0, <1>9, <1>10 DEF PlacedOk
<1>12. PlacesOk'
  <2>1. \A u \in Task : pc'[u] \in Outside
    BY <1>2, <1>6, <1>8
  <2>2. \A u \in Task : pc'[u] \notin {"delay", "until"}
    BY <2>1 DEF Outside
  <2>3. suspended' = 0 /\ k'.pended = 0 /\ last' \in [Task -> TickType]
    BY <1>0, <1>1, <1>2, <1>8, <1>9
  <2> QED
    BY <1>3, <1>8, <2>1, <2>2, <2>3 DEF PlacesOk
<1>13. CurOk'
  BY <1>3, <1>11 DEF CurOk, PlacedOk, Placed
<1>14. IdleOk'
  <2>1. t # Idle
    BY <1>0, <1>1 DEF IdleOk
  <2>2. pc'[Idle] = pc[Idle] /\ call'[Idle] = call[Idle]
    BY <1>0, <1>8, <2>1
  <2>3. \A u \in Range(k.terminated) : u \in Task
    BY <1>0, KernelParts, RangeIs DEF ListType
  <2>4. \A u \in Range(k.terminated) : pc'[u] \notin {"new", "gone"} /\ u # Idle
    BY <1>0, <1>6, <1>8, <2>3 DEF IdleOk
  <2> QED
    BY <1>0, <1>9, <2>2, <2>4 DEF IdleOk
<1>15. HighOk'
  <2>1. \A u \in Task : Priority[u] \in Int
    BY PrioritiesAre
  <2>2. \A u \in Task : IsReady(k', u) => Priority[u] <= Priority[cur']
    BY <1>3, <1>9
  <2> QED
    BY <1>3, <2>1, <2>2 DEF HighOk
<1> QED
  BY <1>3, <1>11, <1>12, <1>13, <1>14, <1>15 DEF StructInv

(* The list of deleted tasks is no part of what keeps the other lists    *)
(* consistent.                                                           *)
LEMMA SameButTerminated ==
    ASSUME NEW s, DataOk(s), NEW list \in ListType
    PROVE  LET r == [s EXCEPT !.terminated = list] IN
           /\ DataOk(r) /\ SameLists(r, s) /\ r.delayed = s.delayed /\ r.overflow = s.overflow
           /\ r.terminated = list /\ r.tick = s.tick /\ r.pended = s.pended
           /\ r.yieldPending = s.yieldPending
<1>1. s \in KernelData
  BY DEF DataOk, ListsOk
<1>2. PICK r : r = [s EXCEPT !.terminated = list]
  OBVIOUS
<1>3. /\ r \in KernelData /\ SameLists(r, s) /\ r.delayed = s.delayed /\ r.overflow = s.overflow
      /\ r.terminated = list /\ r.tick = s.tick /\ r.pended = s.pended
      /\ r.yieldPending = s.yieldPending /\ r.nextUnblock = s.nextUnblock
  BY <1>1, <1>2 DEF KernelData, SameLists
<1>4. DataOk(r)
  BY <1>3 DEF DataOk, SameLists, ListsOk, InTime, GenericOk, EventsOk, EventsSleep, TopOk,
              Sorted, Delayed, OnEvent, IsReady
<1> QED
  BY <1>2, <1>3, <1>4

(* The same lists hold the same tasks. *)
LEMMA SameListsIs ==
    ASSUME NEW r, NEW s, SameLists(r, s), r.delayed = s.delayed, r.overflow = s.overflow
    PROVE  /\ \A t \in Task : IsReady(r, t) <=> IsReady(s, t)
           /\ \A t \in Task : Placed(r, t) <=> Placed(s, t)
           /\ Delayed(r) = Delayed(s)
           /\ \A t \in Task : OnEvent(r, t) <=> OnEvent(s, t)
           /\ r.tick = s.tick => \A t : ToWake(r, t) = ToWake(s, t)
BY DEF SameLists, IsReady, Placed, Delayed, OnEvent, ToWake

(* A list of one task. *)
LEMMA SingleIs ==
    ASSUME NEW u \in Task
    PROVE  << u >> \in Seq(Task) /\ NoRepeats(<< u >>) /\ Range(<< u >>) = {u}
<1>1. << u >> \in Seq(Task) /\ NoRepeats(<< u >>)
  BY DEF NoRepeats
<1>2. Range(<< u >>) = {<< u >>[i] : i \in 1 .. Len(<< u >>)}
  BY <1>1, RangeIs
<1> QED
  BY <1>1, <1>2

(* A task that was in no list becomes ready. *)
LEMMA AddOneIs ==
    ASSUME NEW s, DataOk(s), NEW u \in Task, ~Placed(s, u)
    PROVE  LET r == AddTasksToReadyLists(s, << u >>) IN
           /\ DataOk(r)
           /\ \A t \in Task : IsReady(r, t) <=> IsReady(s, t) \/ t = u
           /\ \A t \in Task : Placed(r, t) <=> Placed(s, t) \/ t = u
           /\ \A t \in Task : OnEvent(r, t) <=> OnEvent(s, t)
           /\ r.delayed = s.delayed /\ r.overflow = s.overflow /\ r.wakeAt = s.wakeAt
           /\ r.terminated = s.terminated /\ r.tick = s.tick /\ r.pended = s.pended
           /\ r.yieldPending = s.yieldPending
<1>0. /\ s \in KernelData /\ GenericOk(s) /\ EventsOk(s) /\ EventsSleep(s) /\ TopOk(s)
      /\ Sorted(s) /\ InTime(s) /\ \A p \in Priorities : End \in Range(s.ready[p])
  BY DEF DataOk, ListsOk, GenericOk
<1>1. PICK r : r = AddTasksToReadyLists(s, << u >>)
  OBVIOUS
<1>2. /\ << u >> \in Seq(Task) /\ NoRepeats(<< u >>)
      /\ \A t : t \in Range(<< u >>) <=> t = u
  BY SingleIs
<1>3. /\ r \in KernelData
      /\ r.delayed = s.delayed /\ r.overflow = s.overflow /\ r.wakeAt = s.wakeAt
      /\ r.nextUnblock = s.nextUnblock
      /\ r.pendingReady = s.pendingReady /\ r.waiting = s.waiting
      /\ r.terminated = s.terminated /\ r.tick = s.tick /\ r.pended = s.pended
      /\ r.yieldPending = s.yieldPending
  BY <1>0, <1>1, <1>2, AddTasksIs
<1>4. /\ GenericOk(r) /\ TopOk(r)
      /\ \A t \in Task : IsReady(r, t) <=> IsReady(s, t) \/ t = u
  BY <1>0, <1>1, <1>2, AddTasksOk DEF Placed
<1>5. Delayed(r) = Delayed(s) /\ \A t \in Task : OnEvent(r, t) <=> OnEvent(s, t)
  BY <1>3 DEF Delayed, OnEvent
<1>6. EventsOk(r) /\ EventsSleep(r) /\ Sorted(r) /\ InTime(r)
  BY <1>0, <1>3, <1>5 DEF EventsOk, EventsSleep, Sorted, InTime
<1>7. \A t \in Task : Placed(r, t) <=> Placed(s, t) \/ t = u
  BY <1>4, <1>5 DEF Placed
<1>8. DataOk(r)
  BY <1>3, <1>4, <1>6 DEF DataOk, ListsOk
<1> QED
  BY <1>1, <1>3, <1>4, <1>5, <1>7, <1>8

(* xTaskCreate keeps the structure; a higher new task is yielded to. *)
LEMMA CreateKeeps == ASSUME StructInv, NEW t \in Task, NEW u \in Task, Create(t, u) PROVE StructInv'
<1>0. /\ DataOk(k) /\ PlacedOk /\ PlacesOk /\ CurOk /\ IdleOk /\ HighOk /\ k \in KernelData
      /\ pc \in [Task -> Places] /\ call \in [Task -> CallType] /\ last \in [Task -> TickType]
      /\ cur \in Task /\ Idle \in Task /\ IsReady(k, Idle)
  BY TaskAssumption DEF StructInv, PlacesOk, DataOk, ListsOk, IdleOk
<1>1. cur = t /\ pc[t] = "app" /\ suspended = 0 /\ t # Idle
  BY CallsIs DEF Create
<1>2. /\ pc[u] = "new" /\ cur' = cur /\ suspended' = suspended /\ call' = call /\ last' = last
      /\ k' = AddTasksToReadyLists(k, << u >>)
      /\ pc' = [pc EXCEPT ![u] = "app", ![t] = IF Priority[t] < Priority[u] THEN "yield" ELSE "app"]
  BY DEF Create, Keep
<1>3. t # u /\ u # Idle /\ u \notin Live /\ u \notin Range(k.terminated)
  BY <1>0, <1>1, <1>2 DEF IdleOk, Live
<1>4. /\ pc'[u] = "app" /\ pc'[t] = IF Priority[t] < Priority[u] THEN "yield" ELSE "app"
      /\ \A x \in Task \ {t, u} : pc'[x] = pc[x]
  BY <1>0, <1>2, <1>3
<1>5. /\ DataOk(k')
      /\ \A x \in Task : IsReady(k', x) <=> IsReady(k, x) \/ x = u
      /\ \A x \in Task : Placed(k', x) <=> Placed(k, x) \/ x = u
      /\ k'.terminated = k.terminated /\ k'.pended = k.pended /\ k'.yieldPending = k.yieldPending
  BY <1>0, <1>2, <1>3, AddOneIs DEF PlacedOk
<1>6. IsReady(k, t)
  BY <1>0, <1>1 DEF CurOk, Asleep
<1>7. \A x \in Task : x \in Live' <=> x \in Live \/ x = u
  <2>1. t \in Live
    BY <1>0, <1>6 DEF PlacedOk, Placed
  <2>2. t \in Live' /\ u \in Live'
    BY <1>3, <1>4, <1>5, <2>1 DEF Live
  <2>3. \A x \in Task \ {t, u} : x \in Live' <=> x \in Live
    BY <1>4, <1>5 DEF Live
  <2> QED
    BY <2>1, <2>2, <2>3
<1>8. PlacedOk'
  BY <1>0, <1>5, <1>7 DEF PlacedOk
<1>9. PlacesOk'
  <2>1. pc' \in [Task -> Places]
    BY <1>0, <1>2 DEF Places, Outside
  <2>2. \A x \in Task : pc[x] \in Outside
    BY <1>0, <1>1 DEF PlacesOk
  <2>3. \A x \in Task : pc'[x] \in Outside
    BY <1>4, <2>2 DEF Outside
  <2>4. \A x \in Task : pc'[x] \notin {"delay", "until"}
    BY <2>3 DEF Outside
  <2>5. k'.pended = 0
    BY <1>0, <1>1, <1>5 DEF PlacesOk
  <2> QED
    BY <1>0, <1>1, <1>2, <2>1, <2>3, <2>4, <2>5 DEF PlacesOk
<1>10. CurOk'
  BY <1>0, <1>1, <1>2, <1>5, <1>6, <1>8 DEF CurOk, PlacedOk, Placed
<1>11. IdleOk'
  <2>1. pc'[Idle] = pc[Idle]
    BY <1>0, <1>1, <1>3, <1>4
  <2>3. \A x \in Range(k.terminated) : x \in Task
    BY <1>0, KernelParts, RangeIs DEF ListType
  <2>4. \A x \in Range(k.terminated) : pc'[x] \notin {"new", "gone"} /\ x # Idle
    BY <1>0, <1>4, <2>3 DEF IdleOk
  <2> QED
    BY <1>0, <1>2, <1>5, <2>1, <2>4 DEF IdleOk
<1>12. HighOk'
  <2>1. \A x \in Task : Priority[x] \in Int
    BY PrioritiesAre
  <2>2. ASSUME NEW x \in Task, IsReady(k', x), Priority[x] > Priority[cur']
        PROVE  k'.yieldPending \/ pc'[cur'] = "yield"
    <3>1. CASE x = u
      BY <1>1, <1>2, <1>4, <2>1, <2>2, <3>1
    <3>2. CASE x # u
      BY <1>0, <1>1, <1>2, <1>5, <2>2, <3>2 DEF HighOk
    <3> QED
      BY <3>1, <3>2
  <2> QED
    BY <2>2 DEF HighOk
<1> QED
  BY <1>5, <1>8, <1>9, <1>10, <1>11, <1>12 DEF StructInv

(* vTaskDelete keeps the structure, for the current task and for another *)
(* in any state.                                                         *)
LEMMA DeleteKeeps == ASSUME StructInv, NEW t \in Task, NEW u \in Task, Delete(t, u) PROVE StructInv'
<1>0. /\ DataOk(k) /\ PlacedOk /\ PlacesOk /\ CurOk /\ IdleOk /\ HighOk /\ k \in KernelData
      /\ pc \in [Task -> Places] /\ call \in [Task -> CallType] /\ last \in [Task -> TickType]
      /\ cur \in Task /\ Idle \in Task /\ IsReady(k, Idle)
  BY TaskAssumption DEF StructInv, PlacesOk, DataOk, ListsOk, IdleOk
<1>1. cur = t /\ pc[t] = "app" /\ suspended = 0 /\ t # Idle
  BY CallsIs DEF Delete
<1>2. PICK s : s = Leave(k, {u})
  OBVIOUS
<1>3. /\ u # Idle /\ pc[u] \notin {"new", "gone"} /\ u \notin Range(k.terminated)
      /\ k' = [s EXCEPT !.terminated = Append(@, u)] /\ cur' = cur
      /\ pc' = [pc EXCEPT ![u] = "app", ![t] = IF u = t THEN "yield" ELSE "reset"]
      /\ call' = [call EXCEPT ![u] = NoCall] /\ suspended' = suspended /\ last' = last
  BY <1>2 DEF Delete, Keep, Leave
<1>4. /\ ListsOk(s)
      /\ \A x \in Task : IsReady(s, x) <=> IsReady(k, x) /\ x # u
      /\ Range(s.delayed) = Range(k.delayed) \ {u}
      /\ Range(s.overflow) = Range(k.overflow) \ {u}
      /\ \A x \in Task \ {u} : s.wakeAt[x] = k.wakeAt[x]
      /\ SameClocks(s, k)
  <2>1. ListsOk(k) /\ {u} \in SUBSET Task
    BY <1>0 DEF DataOk
  <2>2. LET r == Leave(k, {u}) IN
        /\ ListsOk(r)
        /\ \A x \in Task : IsReady(r, x) <=> IsReady(k, x) /\ x \notin {u}
        /\ Range(r.delayed) = Range(k.delayed) \ {u}
        /\ Range(r.overflow) = Range(k.overflow) \ {u}
        /\ \A x \in Task \ {u} : r.wakeAt[x] = k.wakeAt[x]
        /\ SameClocks(r, k)
    BY <2>1, LeaveIs
  <2> QED
    BY <1>2, <2>2
<1>5. DataOk(s)
  <2>1. Range(k.delayed) \subseteq Task /\ Range(k.overflow) \subseteq Task
    BY <1>0, DelayedIs
  <2> QED
    BY <1>0, <1>4, <2>1 DEF DataOk, InTime, SameClocks
<1>6. \A x \in Task : Placed(s, x) <=> Placed(k, x) /\ x # u
  BY <1>4 DEF Placed, Delayed
<1>7. PICK list : list = Append(s.terminated, u)
  OBVIOUS
<1>8. /\ k.terminated \in Seq(Task) /\ s.terminated = k.terminated
      /\ list \in ListType /\ list # << >> /\ Range(list) = Range(k.terminated) \cup {u}
      /\ NoRepeats(list)
  BY <1>0, <1>3, <1>4, <1>7, KernelParts, AppendIs DEF ListType, SameClocks, IdleOk
<1>9. /\ DataOk(k') /\ SameLists(k', s) /\ k'.delayed = s.delayed /\ k'.overflow = s.overflow
      /\ k'.terminated = list /\ k'.pended = s.pended /\ k'.yieldPending = s.yieldPending
  BY <1>3, <1>5, <1>7, <1>8, SameButTerminated
<1>10. /\ \A x \in Task : IsReady(k', x) <=> IsReady(k, x) /\ x # u
       /\ \A x \in Task : Placed(k', x) <=> Placed(k, x) /\ x # u
  BY <1>4, <1>6, <1>9, SameListsIs
<1>11. /\ pc'[t] = IF u = t THEN "yield" ELSE "reset"
       /\ u # t => pc'[u] = "app"
       /\ \A x \in Task \ {t, u} : pc'[x] = pc[x]
  BY <1>0, <1>3
<1>12. IsReady(k, t)
  BY <1>0, <1>1 DEF CurOk, Asleep
<1>13. t \in Live
  BY <1>0, <1>12 DEF PlacedOk, Placed
<1>14. \A x \in Task : x \in Live' <=> x \in Live /\ x # u
  <2>1. u \notin Live'
    BY <1>8, <1>9 DEF Live
  <2>2. t # u => t \in Live'
    BY <1>8, <1>9, <1>11, <1>13 DEF Live
  <2>3. \A x \in Task \ {t, u} : x \in Live' <=> x \in Live
    BY <1>8, <1>9, <1>11 DEF Live
  <2> QED
    BY <1>13, <2>1, <2>2, <2>3
<1>15. PlacedOk'
  BY <1>0, <1>10, <1>14 DEF PlacedOk
<1>16. PlacesOk'
  <2>1. pc' \in [Task -> Places] /\ call' \in [Task -> CallType]
    BY <1>0, <1>3, NoCallIs DEF Places, Outside
  <2>2. \A x \in Task : pc[x] \in Outside
    BY <1>0, <1>1 DEF PlacesOk
  <2>3. \A x \in Task : pc'[x] \in Outside
    BY <1>11, <2>2 DEF Outside
  <2>4. \A x \in Task : pc'[x] \notin {"delay", "until"}
    BY <2>3 DEF Outside
  <2>5. k'.pended = 0
    BY <1>0, <1>1, <1>4, <1>9 DEF PlacesOk, SameClocks
  <2> QED
    BY <1>0, <1>1, <1>3, <2>1, <2>3, <2>4, <2>5 DEF PlacesOk
<1>17. CurOk'
  <2>1. CASE u = t
    BY <1>1, <1>3, <1>11, <2>1 DEF CurOk, Asleep
  <2>2. CASE u # t
    BY <1>1, <1>3, <1>10, <1>12, <1>13, <1>14, <2>2 DEF CurOk
  <2> QED
    BY <2>1, <2>2
<1>18. IdleOk'
  <2>1. pc'[Idle] = pc[Idle] /\ call'[Idle] = call[Idle] /\ IsReady(k', Idle)
    BY <1>0, <1>1, <1>3, <1>10, <1>11
  <2>2. \A x \in Range(k.terminated) : x \in Task
    BY <1>0, KernelParts, RangeIs DEF ListType
  <2>3. \A x \in Range(list) : pc'[x] \notin {"new", "gone"} /\ x # Idle
    BY <1>0, <1>3, <1>8, <1>11, <2>2 DEF IdleOk
  <2> QED
    BY <1>0, <1>8, <1>9, <2>1, <2>3 DEF IdleOk
<1>19. HighOk'
  BY <1>0, <1>1, <1>3, <1>4, <1>9, <1>10 DEF HighOk, SameClocks
<1> QED
  BY <1>9, <1>15, <1>16, <1>17, <1>18, <1>19 DEF StructInv

(* Looking for the next time to unblock after a deletion keeps the       *)
(* structure.                                                            *)
LEMMA DeleteResetKeeps == ASSUME StructInv, NEW t \in Task, DeleteReset(t) PROVE StructInv'
<1>0. /\ DataOk(k) /\ PlacedOk /\ PlacesOk /\ CurOk /\ IdleOk /\ HighOk /\ k \in KernelData
      /\ pc \in [Task -> Places] /\ call \in [Task -> CallType] /\ last \in [Task -> TickType]
      /\ cur \in Task /\ Idle \in Task /\ IsReady(k, Idle)
  BY TaskAssumption DEF StructInv, PlacesOk, DataOk, ListsOk, IdleOk
<1>1. cur = t /\ pc[t] = "reset" /\ cur' = cur /\ suspended' = suspended
  BY DEF DeleteReset, Running, Keep
<1>2. suspended = 0 /\ \A x \in Task : pc[x] \in Outside
  BY <1>1, CallerIs DEF Outside
<1>3. k' = ResetNextTaskUnblockTime(k)
  BY DEF DeleteReset, Keep
<1>4. /\ ListsOk(k') /\ SameLists(k', k)
      /\ k'.delayed = k.delayed /\ k'.overflow = k.overflow
      /\ k'.terminated = k.terminated /\ k'.tick = k.tick /\ k'.pended = k.pended
      /\ k'.yieldPending = k.yieldPending
      /\ \A x \in Range(k.delayed) : k'.nextUnblock <= k.wakeAt[x]
  BY <1>0, <1>3, ResetNextTaskUnblockTimeIs DEF DataOk
<1>5. DataOk(k')
  BY <1>0, <1>4 DEF DataOk, InTime, SameLists
<1>6. /\ \A x \in Task : IsReady(k', x) <=> IsReady(k, x)
      /\ \A x \in Task : Placed(k', x) <=> Placed(k, x)
  BY <1>4, SameListsIs
<1>7. "app" \in Places /\ "app" \in Outside
  BY DEF Places, Outside
<1>8. GoToDue(t, "app", NoCall, due[t])
  BY DEF DeleteReset, GoTo
<1>9. /\ pc' \in [Task -> Places] /\ pc'[t] = "app"
      /\ \A x \in Task \ {t} : pc'[x] = pc[x] /\ call'[x] = call[x]
      /\ call' \in [Task -> CallType] /\ last' = last
  BY <1>0, <1>7, <1>8, NoCallIs, GoToDueIs
<1>10. \A x \in Task : x \in Live' <=> x \in Live
  <2>1. t \in Live' <=> t \in Live
    BY <1>1, <1>4, <1>9 DEF Live
  <2>2. \A x \in Task \ {t} : x \in Live' <=> x \in Live
    BY <1>4, <1>9 DEF Live
  <2> QED
    BY <2>1, <2>2
<1>11. PlacedOk'
  BY <1>0, <1>6, <1>10 DEF PlacedOk
<1>12. PlacesOk'
  <2>1. \A x \in Task : pc'[x] \in Outside
    BY <1>2, <1>7, <1>9
  <2>2. \A x \in Task : pc'[x] \notin {"delay", "until"}
    BY <2>1 DEF Outside
  <2>3. suspended' = 0 /\ k'.pended = 0 /\ last' \in [Task -> TickType] /\ cur' \in Task
    BY <1>0, <1>1, <1>2, <1>4, <1>9 DEF PlacesOk
  <2> QED
    BY <1>9, <2>1, <2>2, <2>3 DEF PlacesOk
<1>13. IsReady(k, t) /\ t # Idle
  BY <1>0, <1>1 DEF CurOk, Asleep, IdleOk
<1>14. CurOk'
  BY <1>0, <1>1, <1>6, <1>11, <1>13 DEF CurOk, PlacedOk, Placed
<1>15. IdleOk'
  <2>1. pc'[Idle] = pc[Idle] /\ call'[Idle] = call[Idle]
    BY <1>0, <1>9, <1>13
  <2>2. \A x \in Range(k.terminated) : x \in Task
    BY <1>0, KernelParts, RangeIs DEF ListType
  <2>3. \A x \in Range(k.terminated) : pc'[x] \notin {"new", "gone"} /\ x # Idle
    BY <1>0, <1>9, <2>2 DEF IdleOk
  <2> QED
    BY <1>0, <1>4, <1>6, <2>1, <2>3 DEF IdleOk
<1>16. HighOk'
  BY <1>0, <1>1, <1>4, <1>6 DEF HighOk
<1> QED
  BY <1>5, <1>11, <1>12, <1>14, <1>15, <1>16 DEF StructInv

(* The idle task freeing a deleted task keeps the structure. *)
LEMMA IdleReapKeeps == ASSUME StructInv, IdleReap PROVE StructInv'
<1>0. /\ DataOk(k) /\ PlacedOk /\ PlacesOk /\ CurOk /\ IdleOk /\ HighOk /\ k \in KernelData
      /\ pc \in [Task -> Places] /\ call \in [Task -> CallType] /\ last \in [Task -> TickType]
      /\ cur \in Task /\ Idle \in Task /\ IsReady(k, Idle)
  BY TaskAssumption DEF StructInv, PlacesOk, DataOk, ListsOk, IdleOk
<1>1. /\ cur = Idle /\ pc[Idle] = "reap" /\ cur' = cur /\ suspended' = suspended /\ last' = last
      /\ k' = [k EXCEPT !.terminated = Tail(@)]
      /\ pc' = [pc EXCEPT ![Idle] = "app", ![Head(k.terminated)] = "gone"]
      /\ call' = [call EXCEPT ![Idle] = NoCall]
  BY DEF IdleReap, Running, Keep
<1>2. suspended = 0 /\ \A x \in Task : pc[x] \in Outside
  BY <1>0, <1>1, CallerIs DEF Outside
<1>3. PICK u : u = Head(k.terminated)
  OBVIOUS
<1>4. PICK list : list = Tail(k.terminated)
  OBVIOUS
<1>5. /\ k.terminated \in Seq(Task) /\ k.terminated # << >> /\ NoRepeats(k.terminated)
      /\ Range(k.terminated) \subseteq Task
  BY <1>0, <1>1, KernelParts, RangeIs DEF ListType, IdleOk
<1>6. /\ u \in Range(k.terminated) /\ list \in ListType
      /\ Range(k.terminated) = Range(list) \cup {u} /\ NoRepeats(list) /\ u \notin Range(list)
  BY <1>3, <1>4, <1>5, TailIs DEF ListType
<1>7. u \in Task /\ u # Idle
  BY <1>0, <1>5, <1>6 DEF IdleOk
<1>8. /\ DataOk(k') /\ SameLists(k', k) /\ k'.delayed = k.delayed /\ k'.overflow = k.overflow
      /\ k'.terminated = list /\ k'.pended = k.pended /\ k'.yieldPending = k.yieldPending
  BY <1>0, <1>1, <1>4, <1>6, SameButTerminated
<1>9. /\ \A x \in Task : IsReady(k', x) <=> IsReady(k, x)
      /\ \A x \in Task : Placed(k', x) <=> Placed(k, x)
  BY <1>8, SameListsIs
<1>10. pc'[Idle] = "app" /\ pc'[u] = "gone" /\ \A x \in Task \ {Idle, u} : pc'[x] = pc[x]
  BY <1>0, <1>1, <1>3, <1>7
<1>11. \A x \in Task : x \in Live' <=> x \in Live
  <2>1. u \notin Live /\ u \notin Live'
    BY <1>6, <1>10 DEF Live
  <2>2. Idle \in Live' <=> Idle \in Live
    BY <1>0, <1>1, <1>6, <1>7, <1>8, <1>10 DEF Live
  <2>3. \A x \in Task \ {Idle, u} : x \in Live' <=> x \in Live
    BY <1>6, <1>8, <1>10 DEF Live
  <2> QED
    BY <2>1, <2>2, <2>3
<1>12. PlacedOk'
  BY <1>0, <1>9, <1>11 DEF PlacedOk
<1>13. PlacesOk'
  <2>1. pc' \in [Task -> Places] /\ call' \in [Task -> CallType]
    BY <1>0, <1>1, NoCallIs DEF Places, Outside
  <2>2. \A x \in Task : pc'[x] \in Outside
    BY <1>2, <1>10 DEF Outside
  <2>3. \A x \in Task : pc'[x] \notin {"delay", "until"}
    BY <2>2 DEF Outside
  <2>4. suspended' = 0 /\ k'.pended = 0
    BY <1>0, <1>1, <1>2, <1>8 DEF PlacesOk
  <2> QED
    BY <1>0, <1>1, <2>1, <2>2, <2>3, <2>4 DEF PlacesOk
<1>14. CurOk'
  <2>1. Idle \in Live'
    BY <1>0, <1>9, <1>12 DEF PlacedOk, Placed
  <2> QED
    BY <1>0, <1>1, <1>9, <2>1 DEF CurOk
<1>15. IdleOk'
  <2>1. call'[Idle] = NoCall
    BY <1>0, <1>1
  <2>2. \A x \in Range(list) : pc'[x] \notin {"new", "gone"} /\ x # Idle
    BY <1>0, <1>5, <1>6, <1>10 DEF IdleOk
  <2> QED
    BY <1>0, <1>6, <1>8, <1>9, <1>10, <2>1, <2>2 DEF IdleOk, NoCall
<1>16. HighOk'
  BY <1>0, <1>1, <1>8, <1>9 DEF HighOk
<1> QED
  BY <1>8, <1>12, <1>13, <1>14, <1>15, <1>16 DEF StructInv

(* The empty list. *)
LEMMA EmptyIs == << >> \in Seq(Task) /\ NoRepeats(<< >>) /\ Range(<< >>) = {}
<1>1. << >> \in Seq(Task) /\ NoRepeats(<< >>)
  BY DEF NoRepeats
<1> QED
  BY <1>1, RangeIs

(* The empty ready list. *)
LEMMA EmptyRingIs ==
    EmptyRing \in Seq(Task \cup {End}) /\ NoRepeats(EmptyRing) /\ Range(EmptyRing) = {End}
<1>1. EmptyRing \in Seq(Task \cup {End}) /\ NoRepeats(EmptyRing)
  BY DEF NoRepeats, EmptyRing
<1>2. Range(EmptyRing) = {EmptyRing[i] : i \in 1 .. Len(EmptyRing)}
  BY <1>1, RangeIs
<1> QED
  BY <1>1, <1>2 DEF EmptyRing

(* The kernel's data before the first task is created. *)
Empty ==
    [ready |-> [p \in Priorities |-> EmptyRing], top |-> 0,
     delayed |-> << >>, overflow |-> << >>, wakeAt |-> [t \in Task |-> 0],
     nextUnblock |-> MaxDelay, pendingReady |-> << >>,
     waiting |-> [e \in EventList |-> << >>], terminated |-> << >>,
     tick |-> 0, overflows |-> 0, pended |-> 0, yieldPending |-> FALSE]

(* It is consistent and holds no task. *)
LEMMA EmptyOk ==
    DataOk(Empty) /\ \A t \in Task : ~Placed(Empty, t) /\ ~OnEvent(Empty, t)
<1>1. PICK s : s = Empty
  OBVIOUS
<1>2. /\ s.ready = [p \in Priorities |-> EmptyRing] /\ s.top = 0
      /\ s.delayed = << >> /\ s.overflow = << >> /\ s.wakeAt = [t \in Task |-> 0]
      /\ s.nextUnblock = MaxDelay /\ s.pendingReady = << >>
      /\ s.waiting = [e \in EventList |-> << >>] /\ s.terminated = << >>
      /\ s.tick = 0 /\ s.overflows = 0 /\ s.pended = 0 /\ s.yieldPending = FALSE
  BY <1>1 DEF Empty
<1>3. /\ [p \in Priorities |-> EmptyRing] \in RingType /\ 0 \in Priorities
      /\ << >> \in ListType /\ [t \in Task |-> 0] \in WakeType /\ MaxDelay \in TickType
      /\ [e \in EventList |-> << >>] \in EventsType /\ 0 \in TickType
      /\ 0 \in 0 .. OverflowSpan - 1 /\ 0 \in 0 .. PendedSpan - 1
  BY EmptyIs, EmptyRingIs, PrioritiesAre, SpanAssumption
     DEF RingType, ListType, WakeType, EventsType, TickType, MaxDelay
<1>4. s \in KernelData
  BY <1>1, <1>3 DEF Empty, KernelData
<1>5. \A t : t \notin Delayed(s) /\ t \notin Range(s.delayed) /\ t \notin Range(s.overflow)
  BY <1>2, EmptyIs DEF Delayed
<1>6. \A t \in Task : ~IsReady(s, t)
  BY <1>2, EmptyRingIs, PrioritiesAre, TaskAssumption DEF IsReady
<1>7. \A t \in Task : ~OnEvent(s, t)
  BY <1>2, EmptyIs DEF OnEvent
<1>8. GenericOk(s)
  <2>1. \A p \in Priorities : s.ready[p] = EmptyRing /\ RingItems(s.ready[p]) = {}
    BY <1>2, EmptyRingIs DEF RingItems
  <2> QED
    BY <1>2, <1>5, <2>1, EmptyIs, EmptyRingIs DEF GenericOk
<1>9. EventsOk(s)
  BY <1>2, EmptyIs DEF EventsOk
<1>10. EventsSleep(s) /\ TopOk(s)
  BY <1>6, <1>7 DEF EventsSleep, TopOk
<1>11. Sorted(s)
  BY <1>2 DEF Sorted, InOrder
<1>12. InTime(s)
  BY <1>5 DEF InTime
<1> QED
  BY <1>1, <1>4, <1>5, <1>6, <1>7, <1>8, <1>9, <1>10, <1>11, <1>12 DEF DataOk, ListsOk, Placed

(* The order in which main creates its tasks names each of them once. *)
LEMMA OrderIs ==
    ASSUME NEW order \in SetToSeqs(Startup)
    PROVE  order \in Seq(Task) /\ NoRepeats(order) /\ Range(order) = Startup
<1>1. IsFiniteSet(Startup) /\ Startup \subseteq Task
  BY FS_Subset, TaskAssumption
<1>2. PICK n \in Nat : n = Cardinality(Startup)
  BY <1>1, FS_CardinalityType
<1>3. /\ order \in [1 .. n -> Startup]
      /\ \A i, j \in 1 .. n : i # j => order[i] # order[j]
  BY <1>2 DEF SetToSeqs
<1>4. order \in Seq(Task) /\ Len(order) = n
  BY <1>1, <1>3
<1>5. NoRepeats(order)
  BY <1>3, <1>4 DEF NoRepeats
<1>6. order \in Injection(1 .. n, Startup)
  BY <1>3 DEF Injection, IsInjective
<1>7. Cardinality(1 .. n) = n
  BY <1>2, FS_Interval
<1>8. order \in Surjection(1 .. n, Startup)
  BY <1>1, <1>2, <1>6, <1>7, FS_Injection
<1>9. \A x \in Startup : \E i \in 1 .. n : order[i] = x
  BY <1>8 DEF Surjection
<1>10. Range(order) = {order[i] : i \in 1 .. n}
  BY <1>4, RangeIs
<1> QED
  BY <1>3, <1>4, <1>5, <1>9, <1>10

(* The tasks that exist when the scheduler starts, and the one that runs *)
(* first: a highest one.                                                 *)
LEMMA CreatedIs ==
    ASSUME NEW order \in SetToSeqs(Startup)
    PROVE  LET created == Append(order, Idle)
               highest == {n \in DOMAIN created : \A m \in DOMAIN created :
                                Priority[created[m]] <= Priority[created[n]]}
           IN  /\ created \in Seq(Task) /\ NoRepeats(created)
               /\ Range(created) = Startup \cup {Idle}
               /\ created[Max(highest)] \in Startup \cup {Idle}
               /\ \A t \in Startup \cup {Idle} : Priority[t] <= Priority[created[Max(highest)]]
<1>1. PICK created : created = Append(order, Idle)
  OBVIOUS
<1>2. /\ created \in Seq(Task) /\ created # << >> /\ NoRepeats(created)
      /\ Range(created) = Startup \cup {Idle}
  BY <1>1, OrderIs, AppendIs, TaskAssumption
<1>3. PICK n \in Nat : n = Len(created)
  BY <1>2
<1>4. /\ DOMAIN created = 1 .. n /\ n > 0
      /\ \A i \in 1 .. n : created[i] \in Startup \cup {Idle}
      /\ \A t \in Startup \cup {Idle} : \E i \in 1 .. n : created[i] = t
  <2>1. DOMAIN created = 1 .. n /\ n > 0
    BY <1>2, <1>3
  <2>2. /\ \A i \in 1 .. Len(created) : created[i] \in Range(created)
        /\ \A t \in Range(created) : \E i \in 1 .. Len(created) : created[i] = t
    BY <1>2, RangeIs
  <2> QED
    BY <1>2, <1>3, <2>1, <2>2
<1>5. \A i \in 1 .. n : created[i] \in Task
  BY <1>4, TaskAssumption
<1>6. PICK highest : highest = {i \in DOMAIN created : \A m \in DOMAIN created :
                                    Priority[created[m]] <= Priority[created[i]]}
  OBVIOUS
<1>7. highest # {}
  <2>1. PICK values : values = {Priority[created[i]] : i \in 1 .. n}
    OBVIOUS
  <2>2. PICK b \in Nat : Priorities = 0 .. b
    BY PrioritiesAre
  <2>3. \A x \in values : x \in Int /\ x <= b
    BY <1>5, <2>1, <2>2, PrioritiesAre
  <2>4. values # {}
    <3>1. 1 \in 1 .. n
      BY <1>4
    <3>2. Priority[created[1]] \in values
      BY <2>1, <3>1
    <3> QED
      BY <3>2
  <2>5. Max(values) \in values /\ \A x \in values : x <= Max(values)
    <3>1. values \subseteq Int /\ b \in Int
      BY <2>3
    <3> QED
      BY <2>3, <2>4, <3>1, MaxIs
  <2>6. PICK i \in 1 .. n : Max(values) = Priority[created[i]]
    BY <2>1, <2>5
  <2>7. \A m \in 1 .. n : Priority[created[m]] <= Priority[created[i]]
    BY <2>1, <2>5, <2>6
  <2> QED
    BY <1>4, <1>6, <2>7
<1>8. Max(highest) \in highest
  <2>1. highest \subseteq Int /\ n \in Int /\ \A x \in highest : x <= n
    BY <1>4, <1>6
  <2> QED
    BY <1>7, <2>1, MaxIs
<1>9. PICK best : best = Max(highest)
  OBVIOUS
<1>10. best \in 1 .. n /\ \A m \in 1 .. n : Priority[created[m]] <= Priority[created[best]]
  BY <1>4, <1>6, <1>8, <1>9
<1>11. \A t \in Startup \cup {Idle} : Priority[t] <= Priority[created[best]]
  BY <1>4, <1>10
<1>12. created[best] \in Startup \cup {Idle}
  BY <1>4, <1>10
<1> QED
  BY <1>1, <1>2, <1>6, <1>9, <1>11, <1>12

(* The scheduler starts with a consistent structure. *)
LEMMA KernelInitOk == ASSUME KernelInit PROVE StructInv
<1>1. PICK order \in SetToSeqs(Startup) :
        LET created == Append(order, Idle)
            highest == {n \in DOMAIN created : \A m \in DOMAIN created :
                            Priority[created[m]] <= Priority[created[n]]}
        IN k = Started(created) /\ cur = created[Max(highest)]
  BY DEF KernelInit
<1>2. PICK created : created = Append(order, Idle)
  OBVIOUS
<1>3. /\ created \in Seq(Task) /\ NoRepeats(created) /\ Range(created) = Startup \cup {Idle}
      /\ k = AddTasksToReadyLists(Empty, created)
      /\ cur \in Startup \cup {Idle}
      /\ \A t \in Startup \cup {Idle} : Priority[t] <= Priority[cur]
  <2>1. k = Started(created)
    BY <1>1, <1>2
  <2>2. k = AddTasksToReadyLists(Empty, created)
    BY <2>1 DEF Started, Empty
  <2> QED
    BY <1>1, <1>2, <2>2, CreatedIs
<1>4. /\ DataOk(Empty) /\ \A t \in Task : ~Placed(Empty, t) /\ ~OnEvent(Empty, t)
      /\ Empty \in KernelData /\ GenericOk(Empty) /\ EventsOk(Empty) /\ TopOk(Empty)
      /\ Sorted(Empty) /\ InTime(Empty)
      /\ Empty.terminated = << >> /\ Empty.pended = 0
  BY EmptyOk DEF DataOk, ListsOk, Empty
<1>5. /\ k \in KernelData
      /\ k.delayed = Empty.delayed /\ k.overflow = Empty.overflow /\ k.wakeAt = Empty.wakeAt
      /\ k.nextUnblock = Empty.nextUnblock
      /\ k.pendingReady = Empty.pendingReady /\ k.waiting = Empty.waiting
      /\ k.terminated = << >> /\ k.tick = Empty.tick /\ k.pended = 0
  BY <1>3, <1>4, AddTasksIs DEF GenericOk
<1>6. /\ GenericOk(k) /\ TopOk(k)
      /\ \A t \in Task : IsReady(k, t) <=> t \in Startup \cup {Idle}
  BY <1>3, <1>4, AddTasksOk, TaskAssumption DEF Placed
<1>7. Delayed(k) = Delayed(Empty) /\ \A t \in Task : OnEvent(k, t) <=> OnEvent(Empty, t)
  BY <1>5 DEF Delayed, OnEvent
<1>8. EventsOk(k) /\ EventsSleep(k) /\ Sorted(k) /\ InTime(k)
  BY <1>4, <1>5, <1>7 DEF EventsOk, EventsSleep, Sorted, InTime
<1>9. DataOk(k)
  BY <1>5, <1>6, <1>8 DEF DataOk, ListsOk
<1>10. \A t \in Task : Placed(k, t) <=> t \in Startup \cup {Idle}
  BY <1>4, <1>6, <1>7 DEF Placed
<1>11. /\ suspended = 0 /\ call = [t \in Task |-> NoCall] /\ last = [t \in Task |-> 0]
       /\ pc = [t \in Task |-> IF t \in Startup \cup {Idle} THEN "app" ELSE "new"]
  BY DEF KernelInit
<1>12. \A t \in Task : t \in Live <=> t \in Startup \cup {Idle}
  BY <1>5, <1>11, EmptyIs DEF Live
<1>13. PlacedOk
  BY <1>10, <1>12 DEF PlacedOk
<1>14. cur \in Task /\ pc[cur] = "app" /\ Idle \in Task
  BY <1>3, <1>11, TaskAssumption
<1>15. PlacesOk
  <2>1. pc \in [Task -> Places] /\ call \in [Task -> CallType] /\ last \in [Task -> TickType]
    BY <1>11, NoCallIs, SpanAssumption DEF Places, Outside, TickType, MaxDelay
  <2>2. \A t \in Task : pc[t] \in Outside /\ pc[t] \notin {"delay", "until"}
    BY <1>11 DEF Outside
  <2> QED
    BY <1>5, <1>11, <1>14, <2>1, <2>2 DEF PlacesOk
<1>16. CurOk
  BY <1>3, <1>6, <1>12, <1>14 DEF CurOk
<1>17. IdleOk
  BY <1>5, <1>6, <1>11, <1>14, EmptyIs DEF IdleOk, NoCall
<1>18. HighOk
  <2>1. \A t \in Task : Priority[t] \in Int
    BY PrioritiesAre
  <2> QED
    BY <1>3, <1>6, <1>14, <2>1 DEF HighOk
<1> QED
  BY <1>9, <1>13, <1>15, <1>16, <1>17, <1>18 DEF StructInv

(* Every step of the kernel keeps the structure. *)
LEMMA StructNext == ASSUME StructInv, [KernelNext]_kernelVars PROVE StructInv'
<1>1. CASE Tick
  BY <1>1, TickKeeps
<1>2. CASE IdleSuspendAll
  BY <1>2, IdleSuspendAllKeeps
<1>3. CASE IdleYield
  BY <1>3, IdleYieldKeeps
<1>4. ASSUME NEW t \in Task, KernelStep(t)
      PROVE  StructInv'
  BY <1>4, DelayPlaceKeeps, UntilPlaceKeeps, ResumeKeeps, YieldWithinApiKeeps, AppResumeAllKeeps,
     DeleteResetKeeps, IdleReapKeeps DEF KernelStep
<1>5. ASSUME NEW t \in Task, AppStep(t)
      PROVE  StructInv'
  BY <1>5, YieldKeeps, ResyncKeeps, AppSuspendAllKeeps, DelayKeeps, DelayUntilKeeps, CreateKeeps,
     DeleteKeeps DEF AppStep
<1>6. CASE UNCHANGED kernelVars
  BY <1>6 DEF kernelVars, StructInv, PlacedOk, PlacesOk, CurOk, IdleOk, HighOk, Live
<1> QED
  BY <1>1, <1>2, <1>3, <1>4, <1>5, <1>6 DEF KernelNext

(* Whatever the tasks, their priorities and calls, the ticks and the     *)
(* deletions: the lists of the kernel stay consistent and the current    *)
(* task is one of the highest ready tasks or about to yield.             *)
THEOREM KernelStructure == KernelSpec => []StructInv
<1>1. KernelInit => StructInv
  BY KernelInitOk
<1>2. StructInv /\ [KernelNext]_kernelVars => StructInv'
  BY StructNext
<1> QED
  BY <1>1, <1>2, PTL DEF KernelSpec

(* No sleeper can be passed over: the delayed lists stay sorted,         *)
(* xNextTaskUnblockTime never lies after the first wake time, and every  *)
(* wake time of the list in use is still to come, also when the count    *)
(* wraps and the lists are exchanged (xTaskIncrementTick).               *)
THEOREM SleepersInOrder == KernelSpec => []NoSleeperIsPassedOver
<1>1. StructInv => NoSleeperIsPassedOver
  <2> SUFFICES ASSUME StructInv PROVE NoSleeperIsPassedOver
    OBVIOUS
  <2>1. k \in KernelData /\ Sorted(k) /\ InTime(k)
    BY DEF StructInv, DataOk, ListsOk
  <2>2. k.delayed \in Seq(Task) /\ k.overflow \in Seq(Task)
    BY <2>1, KernelParts DEF ListType
  <2>3. ASSUME NEW s \in {k.delayed, k.overflow}, NEW i \in 1 .. Len(s) - 1
        PROVE  k.wakeAt[s[i]] <= k.wakeAt[s[i + 1]]
    <3>1. InOrder(s, k.wakeAt) /\ s \in Seq(Task)
      BY <2>1, <2>2, <2>3 DEF Sorted
    <3>2. i \in 1 .. Len(s) /\ i + 1 \in 1 .. Len(s) /\ i < i + 1
      BY <2>3, <3>1
    <3> QED
      BY <3>1, <3>2 DEF InOrder
  <2>4. ASSUME k.delayed # << >>
        PROVE  /\ k.nextUnblock <= k.wakeAt[Head(k.delayed)]
               /\ k.wakeAt[Head(k.delayed)] >= k.tick
    <3>1. Head(k.delayed) \in Range(k.delayed) /\ Head(k.delayed) \in Task
      BY <2>2, <2>4, TailIs
    <3>2. k.wakeAt[Head(k.delayed)] \in Int /\ k.tick \in Int
      BY <2>1, <3>1, ClocksAre
    <3> QED
      BY <2>1, <3>1, <3>2 DEF InTime
  <2> QED
    BY <2>1, <2>3, <2>4 DEF NoSleeperIsPassedOver, InTime
<1> QED
  BY <1>1, KernelStructure, PTL

(* A ready task above the running one waits only while the scheduler is  *)
(* held or a switch is on order (vTaskSwitchContext, xTaskResumeAll,     *)
(* xTaskCreate).                                                         *)
THEOREM HigherTasksRun == KernelSpec => []NoHigherTaskIsKeptWaiting
<1>1. StructInv => NoHigherTaskIsKeptWaiting
  BY DEF StructInv, HighOk, NoHigherTaskIsKeptWaiting
<1> QED
  BY <1>1, KernelStructure, PTL

(* An item of a list without repetitions is at one place of it. *)
LEMMA PlacesOf ==
    ASSUME NEW s \in Seq(Task), NoRepeats(s), NEW t
    PROVE  Cardinality({i \in DOMAIN s : s[i] = t}) = IF t \in Range(s) THEN 1 ELSE 0
<1>1. PICK found : found = {i \in DOMAIN s : s[i] = t}
  OBVIOUS
<1>2. DOMAIN s = 1 .. Len(s)
  OBVIOUS
<1>3. CASE t \in Range(s)
  <2>1. PICK i \in 1 .. Len(s) : s[i] = t
    BY <1>3, RangeIs
  <2>2. found = {i}
    BY <1>1, <1>2, <2>1 DEF NoRepeats
  <2> QED
    BY <1>1, <1>3, <2>2, FS_Singleton
<1>4. CASE t \notin Range(s)
  <2>1. found = {}
    BY <1>1, <1>2, <1>4, RangeIs
  <2> QED
    BY <1>1, <1>4, <2>1, FS_EmptySet
<1> QED
  BY <1>3, <1>4

(* The generic list item of a task is in one list or in none. *)
LEMMA ItemsIs ==
    ASSUME NEW s, DataOk(s), NEW t \in Task
    PROVE  Cardinality({p \in Priorities : t \in Range(s.ready[p])})
             + Cardinality({i \in DOMAIN s.delayed : s.delayed[i] = t})
             + Cardinality({i \in DOMAIN s.overflow : s.overflow[i] = t})
           = IF Placed(s, t) THEN 1 ELSE 0
<1>0. s \in KernelData /\ GenericOk(s) /\ Priority[t] \in Priorities
  BY PrioritiesAre DEF DataOk, ListsOk
<1>1. PICK rings : rings = {p \in Priorities : t \in Range(s.ready[p])}
  OBVIOUS
<1>2. Cardinality(rings) = IF IsReady(s, t) THEN 1 ELSE 0
  <2>1. \A p \in rings : p = Priority[t]
    BY <1>0, <1>1, TaskAssumption DEF GenericOk, RingItems
  <2>2. CASE IsReady(s, t)
    <3>1. rings = {Priority[t]}
      BY <1>0, <1>1, <2>1, <2>2 DEF IsReady
    <3> QED
      BY <2>2, <3>1, FS_Singleton
  <2>3. CASE ~IsReady(s, t)
    <3>1. rings = {}
      BY <1>1, <2>1, <2>3 DEF IsReady
    <3> QED
      BY <2>3, <3>1, FS_EmptySet
  <2> QED
    BY <2>2, <2>3
<1>3. /\ Cardinality({i \in DOMAIN s.delayed : s.delayed[i] = t})
            = IF t \in Range(s.delayed) THEN 1 ELSE 0
      /\ Cardinality({i \in DOMAIN s.overflow : s.overflow[i] = t})
            = IF t \in Range(s.overflow) THEN 1 ELSE 0
  BY <1>0, KernelParts, PlacesOf DEF ListType, GenericOk
<1>4. ~(t \in Range(s.delayed) /\ t \in Range(s.overflow))
  BY <1>0 DEF GenericOk
<1>5. ~(IsReady(s, t) /\ t \in Delayed(s))
  BY ReadyOrDelayed
<1> QED
  BY <1>1, <1>2, <1>3, <1>4, <1>5 DEF Placed, Delayed

(* The event list item of a task is in one list or in none. *)
LEMMA EventsAre ==
    ASSUME NEW s, DataOk(s), NEW t \in Task
    PROVE  Cardinality({i \in DOMAIN s.pendingReady : s.pendingReady[i] = t})
             + Cardinality({e \in EventList : t \in Range(s.waiting[e])})
           = IF OnEvent(s, t) THEN 1 ELSE 0
<1>0. s \in KernelData /\ EventsOk(s)
  BY DEF DataOk, ListsOk
<1>1. PICK lists : lists = {e \in EventList : t \in Range(s.waiting[e])}
  OBVIOUS
<1>2. Cardinality({i \in DOMAIN s.pendingReady : s.pendingReady[i] = t})
            = IF t \in Range(s.pendingReady) THEN 1 ELSE 0
  BY <1>0, KernelParts, PlacesOf DEF ListType, EventsOk
<1>3. CASE \E e \in EventList : t \in Range(s.waiting[e])
  <2>1. PICK e \in EventList : t \in Range(s.waiting[e])
    BY <1>3
  <2>2. lists = {e}
    BY <1>0, <1>1, <2>1 DEF EventsOk
  <2>3. Cardinality(lists) = 1
    BY <2>2, FS_Singleton
  <2>4. t \notin Range(s.pendingReady)
    BY <1>0, <2>1 DEF EventsOk
  <2> QED
    BY <1>1, <1>2, <2>1, <2>3, <2>4 DEF OnEvent
<1>4. CASE ~\E e \in EventList : t \in Range(s.waiting[e])
  <2>1. lists = {}
    BY <1>1, <1>4
  <2>2. Cardinality(lists) = 0
    BY <2>1, FS_EmptySet
  <2> QED
    BY <1>1, <1>2, <1>4, <2>2 DEF OnEvent
<1> QED
  BY <1>3, <1>4

(* A task that exists is in exactly one list of its state and waits for  *)
(* at most one event, and a deleted one is in none (uxListRemove and     *)
(* vListInsert never meet a stale item).                                 *)
THEOREM OneListEach == KernelSpec => []TasksAreInOneList
<1>1. StructInv => TasksAreInOneList
  <2> SUFFICES ASSUME StructInv PROVE TasksAreInOneList
    OBVIOUS
  <2>1. DataOk(k) /\ PlacedOk /\ EventsSleep(k)
    BY DEF StructInv, DataOk, ListsOk
  <2>2. ASSUME NEW t \in Task
        PROVE  /\ Cardinality({p \in Priorities : t \in Range(k.ready[p])})
                     + Cardinality({i \in DOMAIN k.delayed : k.delayed[i] = t})
                     + Cardinality({i \in DOMAIN k.overflow : k.overflow[i] = t})
                   = IF t \in Live THEN 1 ELSE 0
               /\ t \in Live => IsReady(k, t) \/ t \in Delayed(k)
    BY <2>1, ItemsIs DEF PlacedOk, Placed
  <2>3. ASSUME NEW t \in Task
        PROVE  LET events == Cardinality({i \in DOMAIN k.pendingReady : k.pendingReady[i] = t})
                             + Cardinality({e \in EventList : t \in Range(k.waiting[e])})
               IN  events <= 1 /\ (events = 1 => t \in Delayed(k))
    <3>1. Cardinality({i \in DOMAIN k.pendingReady : k.pendingReady[i] = t})
            + Cardinality({e \in EventList : t \in Range(k.waiting[e])})
          = IF OnEvent(k, t) THEN 1 ELSE 0
      BY <2>1, EventsAre
    <3> QED
      BY <2>1, <3>1 DEF EventsSleep
  <2> QED
    BY <2>2, <2>3 DEF TasksAreInOneList
<1> QED
  BY <1>1, KernelStructure, PTL

-----------------------------------------------------------------------------
(* The invariant about time. *)

(* No suspension outlasts the counter of pended ticks, which has eight   *)
(* bits here.                                                            *)
PendedTicksFit == MaxPended < PendedSpan

(* The ticks until the moment a task has asked for, pended ones          *)
(* included.                                                             *)
Late(t) == due[t] + k.pended

(* The clock of a task and the lists agree: a sleeper wakes at the       *)
(* moment it asked for, a periodic task that is awake is past its        *)
(* moment, and its last wake time is that moment, up to whole rounds of  *)
(* the tick count, unless it is late by a whole round.                   *)
Timely(t) ==
    /\ due[t] \in Int /\ Floor(t) <= due[t] /\ due[t] <= MaxDelay
    /\ t \in Delayed(k) => call[t].op \in {"delay", "until"} /\ ToWake(k, t) = Late(t)
    /\ t \in Live /\ Periodic(t) /\ t \notin Delayed(k) => Late(t) <= 0
    /\ t \in Live /\ Periodic(t) /\ Late(t) > -TickSpan =>
            Multiple(last[t] - k.tick - Late(t))
    /\ pc[t] = "new" /\ Periodic(t) => due[t] = Floor(t)
    /\ pc[t] = "delay" => call[t].op = "delay" /\ ~Periodic(t)
    /\ pc[t] = "until" => call[t].op = "until" /\ Periodic(t) /\ Late(t) > -TickSpan
    /\ ~OnEvent(k, t)

(* The inductive invariant of time. *)
TimeInv == /\ k.pended <= MaxPended /\ due \in [Task -> Int]
           /\ \A t \in Task : Timely(t)

(* How late a clock may be. *)
LEMMA FloorsAre ==
    ASSUME NEW t \in Task
    PROVE  /\ Floor(t) \in Int /\ Floor(t) <= -MaxPended - 1
           /\ Periodic(t) => Floor(t) = -TickSpan - MaxPended
           /\ TickSpan \in Nat /\ TickSpan > 1 /\ MaxPended \in Nat /\ MaxDelay = TickSpan - 1
BY SpanAssumption DEF Floor, MaxDelay

(* A task whose clock, call and place in the lists stay the same stays   *)
(* timely.                                                               *)
LEMMA StaysTimely ==
    ASSUME NEW t \in Task, Timely(t),
           due'[t] = due[t], last'[t] = last[t], k'.tick = k.tick, k'.pended = k.pended,
           t \in Delayed(k') => /\ t \in Delayed(k) /\ ToWake(k', t) = ToWake(k, t)
                                /\ call'[t].op = call[t].op,
           t \in Live' => t \in Live /\ (t \in Delayed(k) => t \in Delayed(k')),
           pc'[t] = "new" => pc[t] = "new",
           pc'[t] = "delay" => call'[t].op = "delay" /\ ~Periodic(t),
           pc'[t] = "until" => call'[t].op = "until" /\ Periodic(t) /\ Late(t) > -TickSpan,
           OnEvent(k', t) => OnEvent(k, t)
    PROVE  Timely(t)'
<1>1. Late(t)' = Late(t)
  BY DEF Late
<1>2. Floor(t)' = Floor(t) /\ Periodic(t)' = Periodic(t) /\ ToWake(k, t)' = ToWake(k', t)
  BY DEF Floor, Periodic, ToWake
<1> QED
  BY <1>1, <1>2 DEF Timely

(* The same for all tasks. *)
LEMMA AllStayTimely ==
    ASSUME TimeInv, UNCHANGED << due, last, pc, call >>, k'.tick = k.tick, k'.pended = k.pended,
           \A t \in Task : IsReady(k', t) <=> IsReady(k, t),
           Delayed(k') = Delayed(k), \A t \in Task : ToWake(k', t) = ToWake(k, t),
           k'.terminated = k.terminated, \A t \in Task : OnEvent(k', t) => OnEvent(k, t)
    PROVE  TimeInv'
<1>1. ASSUME NEW t \in Task
      PROVE  Timely(t)'
  <2>1. Timely(t)
    BY DEF TimeInv
  <2>2. t \in Live' <=> t \in Live
    BY DEF Live
  <2>3. /\ pc[t] = "delay" => call[t].op = "delay" /\ ~Periodic(t)
        /\ pc[t] = "until" => call[t].op = "until" /\ Periodic(t) /\ Late(t) > -TickSpan
    BY <2>1 DEF Timely
  <2> QED
    BY <2>1, <2>2, <2>3, StaysTimely
<1> QED
  BY <1>1 DEF TimeInv

(* A context switch changes no clock. *)
LEMMA SwitchTimely ==
    ASSUME StructInv, TimeInv, SwitchContext(k), UNCHANGED << due, last, pc, call >>
    PROVE  TimeInv'
<1>1. DataOk(k) /\ Idle \in Task /\ IsReady(k, Idle)
  BY TaskAssumption DEF StructInv, IdleOk
<1>2. SameStates(k', k)
  BY <1>1, SwitchContextIs
<1>3. /\ Delayed(k') = Delayed(k) /\ \A t \in Task : OnEvent(k', t) <=> OnEvent(k, t)
      /\ \A t : ToWake(k', t) = ToWake(k, t)
  BY <1>2, SameStatesIs
<1> QED
  BY <1>2, <1>3, AllStayTimely DEF SameStates

(* taskYIELD keeps time. *)
LEMMA YieldTimely == ASSUME StructInv, TimeInv, NEW t \in Task, Yield(t) PROVE TimeInv'
BY SwitchTimely DEF Yield, Stay

(* The yield of the idle task keeps time. *)
LEMMA IdleYieldTimely == ASSUME StructInv, TimeInv, IdleYield PROVE TimeInv'
BY SwitchTimely DEF IdleYield, Stay

(* A task that moves on in its call without a change of the lists keeps  *)
(* time.                                                                 *)
LEMMA MovesTimely ==
    ASSUME StructInv, TimeInv, NEW t \in Task, NEW at, NEW c, GoTo(t, at, c),
           k'.tick = k.tick, k'.pended = k.pended, k'.terminated = k.terminated,
           Delayed(k') = Delayed(k), \A u \in Task : ToWake(k', u) = ToWake(k, u),
           \A u \in Task : OnEvent(k', u) => OnEvent(k, u),
           t \notin Delayed(k) \/ c = call[t], pc[t] \notin {"new", "gone"}, at \notin {"new", "gone"},
           at = "delay" => c.op = "delay" /\ ~Periodic(t),
           at = "until" => c.op = "until" /\ Periodic(t) /\ Late(t) > -TickSpan
    PROVE  TimeInv'
<1>0. /\ pc \in [Task -> Places] /\ call \in [Task -> CallType]
      /\ due \in [Task -> Int] /\ k.pended <= MaxPended /\ \A u \in Task : Timely(u)
  BY DEF StructInv, PlacesOk, TimeInv
<1>1. PICK over \in BOOLEAN : over <=> at = "app" /\ c.op \notin {"delay", "until"}
  OBVIOUS
<1>2. /\ pc' = [pc EXCEPT ![t] = at] /\ call' = [call EXCEPT ![t] = IF over THEN NoCall ELSE c]
      /\ due' = [due EXCEPT ![t] = IF over /\ ~Periodic(t) THEN 0 ELSE due[t]] /\ last' = last
  BY <1>1 DEF GoTo, GoToDue
<1>3. /\ pc'[t] = at /\ call'[t] = (IF over THEN NoCall ELSE c)
      /\ due'[t] = IF over /\ ~Periodic(t) THEN 0 ELSE due[t]
      /\ \A u \in Task \ {t} : pc'[u] = pc[u] /\ call'[u] = call[u] /\ due'[u] = due[u]
      /\ due' \in [Task -> Int]
  BY <1>0, <1>2
<1>4. \A u \in Task : u \in Live' <=> u \in Live
  BY <1>3 DEF Live
<1>5. ASSUME NEW u \in Task \ {t}
      PROVE  Timely(u)'
  <2>1. Timely(u)
    BY <1>0
  <2>2. /\ pc[u] = "delay" => call[u].op = "delay" /\ ~Periodic(u)
        /\ pc[u] = "until" => call[u].op = "until" /\ Periodic(u) /\ Late(u) > -TickSpan
    BY <2>1 DEF Timely
  <2> QED
    BY <1>2, <1>3, <1>4, <2>1, <2>2, StaysTimely
<1>6. Timely(t)'
  <2>1. Timely(t)
    BY <1>0
  <2>2. CASE over
    <3>1. t \notin Delayed(k)
      BY <1>1, <2>1, <2>2 DEF Timely
    <3>2. CASE Periodic(t)
      BY <1>1, <1>2, <1>3, <1>4, <2>1, <2>2, <3>1, <3>2, StaysTimely
    <3>3. CASE ~Periodic(t)
      <4>1. due'[t] = 0 /\ pc'[t] \notin {"new", "delay", "until"} /\ ~OnEvent(k', t)
        BY <1>1, <1>3, <2>1, <2>2, <3>3 DEF Timely
      <4>2. Floor(t)' = Floor(t) /\ Periodic(t)' = Periodic(t)
        BY DEF Floor, Periodic
      <4> QED
        BY <3>1, <3>3, <4>1, <4>2, FloorsAre DEF Timely
    <3> QED
      BY <3>2, <3>3
  <2>3. CASE ~over
    <3>1. due'[t] = due[t] /\ call'[t] = c /\ last'[t] = last[t]
      BY <1>2, <1>3, <2>3
    <3> QED
      BY <1>3, <1>4, <2>1, <3>1, StaysTimely
  <2> QED
    BY <2>2, <2>3
<1> QED
  BY <1>0, <1>3, <1>5, <1>6 DEF TimeInv

(* The current task is not asleep unless it is about to yield. *)
LEMMA CallerReady ==
    ASSUME StructInv, NEW t \in Task, cur = t, pc[t] \notin Asleep
    PROVE  IsReady(k, t) /\ t \notin Delayed(k) /\ t \in Live /\ pc[t] \notin {"new", "gone"}
<1>1. IsReady(k, t)
  BY DEF StructInv, CurOk
<1> QED
  BY <1>1, ReadyOrDelayed DEF StructInv, PlacedOk, Placed, Live

(* vTaskSuspendAll at the start of a call keeps time. *)
LEMMA HoldTimely ==
    ASSUME StructInv, TimeInv, NEW t \in Task, cur = t, pc[t] \in {"app", "held"},
           SuspendAll, NEW at, NEW c, GoTo(t, at, c), at \notin {"new", "gone"},
           at = "delay" => c.op = "delay" /\ ~Periodic(t),
           at = "until" => c.op = "until" /\ Periodic(t) /\ Late(t) > -TickSpan
    PROVE  TimeInv'
<1>1. t \notin Delayed(k) /\ pc[t] \notin {"new", "gone"}
  BY CallerReady DEF Asleep
<1>2. k' = k
  BY DEF SuspendAll
<1> QED
  BY <1>1, <1>2, MovesTimely

(* The start of vTaskDelay keeps time. *)
LEMMA DelayTimely ==
    ASSUME StructInv, TimeInv, NEW t \in Task, NEW wait \in Waits[t], Delay(t, wait)
    PROVE  TimeInv'
<1>1. cur = t /\ pc[t] = "app"
  BY DEF Delay, Calls, Running
<1>2. ~Periodic(t)
  BY ProgramAssumption DEF Delay, Calls, Periodic
<1>3. CASE wait = 0
  BY <1>3, SwitchTimely DEF Delay, Stay
<1>4. CASE wait # 0
  <2>1. PICK c : c = [NoCall EXCEPT !.op = "delay", !.wait = wait, !.force = TRUE]
    OBVIOUS
  <2>2. SuspendAll /\ GoTo(t, "delay", c) /\ c.op = "delay"
    BY <1>4, <2>1 DEF Delay, NoCall
  <2> QED
    BY <1>1, <1>2, <2>2, HoldTimely
<1> QED
  BY <1>3, <1>4

(* The start of vTaskDelayUntil keeps time. *)
LEMMA DelayUntilTimely ==
    ASSUME StructInv, TimeInv, NEW t \in Task, NEW wait \in Waits[t], DelayUntil(t, wait)
    PROVE  TimeInv'
<1>1. cur = t /\ pc[t] = "app" /\ suspended = 0 /\ due[t] > -TickSpan /\ Periodic(t)
  BY DEF DelayUntil, Calls, Running, Periodic
<1>2. Late(t) > -TickSpan
  <2>1. k.pended = 0 /\ due[t] \in Int
    BY <1>1 DEF StructInv, PlacesOk, TimeInv
  <2> QED
    BY <1>1, <2>1 DEF Late
<1>3. PICK c : c = [NoCall EXCEPT !.op = "until", !.wait = wait, !.force = TRUE]
  OBVIOUS
<1>4. SuspendAll /\ GoTo(t, "until", c) /\ c.op = "until"
  BY <1>3 DEF DelayUntil, NoCall
<1> QED
  BY <1>1, <1>2, <1>4, HoldTimely

(* vTaskSuspendAll by the application keeps time. *)
LEMMA AppSuspendAllTimely ==
    ASSUME StructInv, TimeInv, NEW t \in Task, AppSuspendAll(t)
    PROVE  TimeInv'
<1>1. cur = t /\ pc[t] \in {"app", "held"}
  BY DEF AppSuspendAll, Calls, Running
<1> QED
  BY <1>1, HoldTimely DEF AppSuspendAll

(* vTaskSuspendAll by the idle task keeps time. *)
LEMMA IdleSuspendAllTimely == ASSUME StructInv, TimeInv, IdleSuspendAll PROVE TimeInv'
<1>1. cur = Idle /\ pc[Idle] = "app" /\ Idle \in Task
  BY TaskAssumption DEF IdleSuspendAll, Running
<1> QED
  BY <1>1, HoldTimely DEF IdleSuspendAll

(* Looking for the next time to unblock keeps time. *)
LEMMA DeleteResetTimely ==
    ASSUME StructInv, TimeInv, NEW t \in Task, DeleteReset(t)
    PROVE  TimeInv'
<1>1. cur = t /\ pc[t] = "reset" /\ ListsOk(k)
  BY DEF DeleteReset, Running, StructInv, DataOk
<1>2. t \notin Delayed(k)
  BY <1>1, CallerReady DEF Asleep
<1>3. k' = ResetNextTaskUnblockTime(k)
  BY DEF DeleteReset, Keep
<1>4. /\ SameLists(k', k) /\ k'.delayed = k.delayed /\ k'.overflow = k.overflow
      /\ k'.terminated = k.terminated /\ k'.tick = k.tick /\ k'.pended = k.pended
  BY <1>1, <1>3, ResetNextTaskUnblockTimeIs
<1>5. /\ Delayed(k') = Delayed(k) /\ \A u \in Task : OnEvent(k', u) <=> OnEvent(k, u)
      /\ \A u : ToWake(k', u) = ToWake(k, u)
  BY <1>4, SameListsIs
<1>6. GoTo(t, "app", NoCall)
  BY DEF DeleteReset
<1> QED
  BY <1>1, <1>2, <1>4, <1>5, <1>6, MovesTimely

(* The yield at the end of a call keeps time. *)
LEMMA YieldWithinApiTimely ==
    ASSUME StructInv, TimeInv, NEW t \in Task, YieldWithinApi(t)
    PROVE  TimeInv'
<1>1. DataOk(k) /\ Idle \in Task /\ IsReady(k, Idle) /\ call \in [Task -> CallType]
  BY TaskAssumption DEF StructInv, IdleOk, PlacesOk
<1>2. SwitchContext(k) /\ GoTo(t, call[t].after, call[t]) /\ pc[t] = "yield"
  BY DEF YieldWithinApi, Running
<1>3. SameStates(k', k)
  BY <1>1, <1>2, SwitchContextIs
<1>4. /\ Delayed(k') = Delayed(k) /\ \A u \in Task : OnEvent(k', u) <=> OnEvent(k, u)
      /\ \A u : ToWake(k', u) = ToWake(k, u)
  BY <1>3, SameStatesIs
<1>5. call[t].after \notin {"new", "gone", "delay", "until"}
  BY <1>1, CallIs DEF Back, Outside
<1> QED
  BY <1>2, <1>3, <1>4, <1>5, MovesTimely DEF SameStates

(* A periodic task that takes the tick count for its last wake time is   *)
(* in time.                                                              *)
LEMMA ResyncTimely == ASSUME StructInv, TimeInv, NEW t \in Task, Resync(t) PROVE TimeInv'
<1>1. /\ cur = t /\ pc[t] = "app" /\ k.pended = 0 /\ due \in [Task -> Int]
      /\ last \in [Task -> TickType] /\ k.tick \in Int
      /\ last' = [last EXCEPT ![t] = k.tick] /\ due' = [due EXCEPT ![t] = 0]
      /\ cur' = cur /\ k' = k /\ pc' = pc /\ call' = call
  BY ClocksAre DEF Resync, Calls, Running, StructInv, PlacesOk, TimeInv, DataOk, ListsOk
<1>2. t \notin Delayed(k)
  BY <1>1, CallerReady DEF Asleep
<1>3. \A u \in Task : u \in Live' <=> u \in Live
  BY <1>1 DEF Live
<1>4. ASSUME NEW u \in Task \ {t}
      PROVE  Timely(u)'
  <2>1. Timely(u) /\ due'[u] = due[u] /\ last'[u] = last[u]
    BY <1>1 DEF TimeInv
  <2>2. /\ pc[u] = "delay" => call[u].op = "delay" /\ ~Periodic(u)
        /\ pc[u] = "until" => call[u].op = "until" /\ Periodic(u) /\ Late(u) > -TickSpan
    BY <2>1 DEF Timely
  <2> QED
    BY <1>1, <1>3, <2>1, <2>2, StaysTimely
<1>5. Timely(t)'
  <2>1. due'[t] = 0 /\ last'[t] = k.tick /\ Late(t)' = 0
    BY <1>1 DEF Late
  <2>2. Multiple(last'[t] - k'.tick - Late(t)')
    <3>1. last'[t] - k'.tick - Late(t)' = 0
      BY <1>1, <2>1
    <3> QED
      BY <3>1, MultipleIs, 0 \in Int
  <2>3. ~OnEvent(k, t)
    BY DEF TimeInv, Timely
  <2>4. Floor(t)' = Floor(t)
    BY DEF Floor, Periodic
  <2> QED
    BY <1>1, <1>2, <2>1, <2>2, <2>3, <2>4, FloorsAre DEF Timely
<1> QED
  BY <1>1, <1>4, <1>5 DEF TimeInv

(* xTaskCreate keeps time. *)
LEMMA CreateTimely ==
    ASSUME StructInv, TimeInv, NEW t \in Task, NEW u \in Task, Create(t, u)
    PROVE  TimeInv'
<1>0. /\ DataOk(k) /\ PlacedOk /\ pc \in [Task -> Places] /\ due \in [Task -> Int]
      /\ k.pended <= MaxPended /\ \A x \in Task : Timely(x)
  BY DEF StructInv, PlacesOk, TimeInv
<1>1. cur = t /\ pc[t] = "app" /\ suspended = 0 /\ k.pended = 0
  BY CallsIs DEF Create, StructInv, PlacesOk
<1>2. /\ pc[u] = "new" /\ call' = call /\ last' = last /\ due' = due
      /\ k' = AddTasksToReadyLists(k, << u >>)
      /\ pc' = [pc EXCEPT ![u] = "app", ![t] = IF Priority[t] < Priority[u] THEN "yield" ELSE "app"]
  BY DEF Create, Keep
<1>3. t # u /\ u \notin Live
  BY <1>1, <1>2 DEF Live
<1>4. /\ pc'[u] = "app" /\ pc'[t] = IF Priority[t] < Priority[u] THEN "yield" ELSE "app"
      /\ \A x \in Task \ {t, u} : pc'[x] = pc[x]
  BY <1>0, <1>2, <1>3
<1>5. /\ \A x \in Task : OnEvent(k', x) <=> OnEvent(k, x)
      /\ k'.delayed = k.delayed /\ k'.overflow = k.overflow /\ k'.wakeAt = k.wakeAt
      /\ k'.terminated = k.terminated /\ k'.tick = k.tick /\ k'.pended = k.pended
  BY <1>0, <1>2, <1>3, AddOneIs DEF PlacedOk
<1>6. Delayed(k') = Delayed(k) /\ \A x : ToWake(k', x) = ToWake(k, x)
  BY <1>5 DEF Delayed, ToWake
<1>7. u \notin Delayed(k)
  BY <1>0, <1>3 DEF PlacedOk, Placed
<1>8. ASSUME NEW x \in Task \ {u}
      PROVE  Timely(x)'
  <2>1. x \in Live' <=> x \in Live
    BY <1>1, <1>4, <1>5 DEF Live
  <2>2. /\ pc[x] = "delay" => call[x].op = "delay" /\ ~Periodic(x)
        /\ pc[x] = "until" => call[x].op = "until" /\ Periodic(x) /\ Late(x) > -TickSpan
    BY <1>0 DEF Timely
  <2>3. pc'[x] \in {"yield", "app"} \/ pc'[x] = pc[x]
    BY <1>4
  <2> QED
    BY <1>0, <1>2, <1>5, <1>6, <2>1, <2>2, <2>3, StaysTimely
<1>9. Timely(u)'
  <2>1. /\ Floor(u)' = Floor(u) /\ Periodic(u)' = Periodic(u) /\ Late(u)' = due[u]
        /\ u \notin Delayed(k)' /\ ~OnEvent(k, u)' /\ due'[u] = due[u]
    BY <1>0, <1>1, <1>2, <1>5, <1>6, <1>7 DEF Floor, Periodic, Late, Timely
  <2>2. Periodic(u) => due[u] <= -TickSpan
    BY <1>0, <1>2, FloorsAre DEF Timely
  <2>3. due[u] \in Int /\ Floor(u) <= due[u] /\ due[u] <= MaxDelay
    BY <1>0 DEF Timely
  <2>4. Periodic(u) => Late(u)' <= 0 /\ ~(Late(u)' > -TickSpan)
    BY <2>1, <2>2, <2>3, FloorsAre
  <2> QED
    BY <1>4, <2>1, <2>3, <2>4 DEF Timely
<1> QED
  BY <1>0, <1>2, <1>5, <1>8, <1>9 DEF TimeInv

(* vTaskDelete keeps time for the tasks that remain. *)
LEMMA DeleteTimely ==
    ASSUME StructInv, TimeInv, NEW t \in Task, NEW u \in Task, Delete(t, u)
    PROVE  TimeInv'
<1>0. /\ DataOk(k) /\ ListsOk(k) /\ pc \in [Task -> Places] /\ call \in [Task -> CallType]
      /\ due \in [Task -> Int] /\ k \in KernelData /\ k.terminated \in Seq(Task)
      /\ k.pended <= MaxPended /\ \A x \in Task : Timely(x)
  BY KernelParts DEF StructInv, PlacesOk, TimeInv, DataOk, ListsOk, ListType
<1>1. cur = t /\ pc[t] = "app"
  BY CallsIs DEF Delete
<1>2. PICK s : s = Leave(k, {u})
  OBVIOUS
<1>3. /\ k' = [s EXCEPT !.terminated = Append(@, u)]
      /\ pc' = [pc EXCEPT ![u] = "app", ![t] = IF u = t THEN "yield" ELSE "reset"]
      /\ call' = [call EXCEPT ![u] = NoCall] /\ last' = last /\ due' = due
  BY <1>2 DEF Delete, Keep, Leave
<1>4. /\ s \in KernelData
      /\ \A x \in Task : OnEvent(s, x) => OnEvent(k, x)
      /\ Range(s.delayed) = Range(k.delayed) \ {u}
      /\ Range(s.overflow) = Range(k.overflow) \ {u}
      /\ \A x \in Task \ {u} : s.wakeAt[x] = k.wakeAt[x]
      /\ SameClocks(s, k)
  <2>1. {u} \in SUBSET Task
    OBVIOUS
  <2>2. LET r == Leave(k, {u}) IN
        /\ ListsOk(r)
        /\ \A x \in Task : OnEvent(r, x) <=> OnEvent(k, x) /\ x \notin {u}
        /\ Range(r.delayed) = Range(k.delayed) \ {u}
        /\ Range(r.overflow) = Range(k.overflow) \ {u}
        /\ \A x \in Task \ {u} : r.wakeAt[x] = k.wakeAt[x]
        /\ SameClocks(r, k)
    BY <1>0, <2>1, LeaveIs
  <2> QED
    BY <1>2, <2>2 DEF ListsOk
<1>5. /\ k'.delayed = s.delayed /\ k'.overflow = s.overflow /\ k'.wakeAt = s.wakeAt
      /\ k'.pendingReady = s.pendingReady /\ k'.waiting = s.waiting
      /\ k'.tick = k.tick /\ k'.pended = k.pended
      /\ k'.terminated = Append(k.terminated, u)
  BY <1>3, <1>4 DEF KernelData, SameClocks
<1>6. \A x \in Task : OnEvent(k', x) => OnEvent(k, x)
  BY <1>4, <1>5 DEF OnEvent
<1>7. /\ u \notin Delayed(k')
      /\ \A x \in Task \ {u} : x \in Delayed(k') <=> x \in Delayed(k)
      /\ \A x \in Task \ {u} : ToWake(k', x) = ToWake(k, x)
  BY <1>4, <1>5 DEF Delayed, ToWake
<1>8. Range(k'.terminated) = Range(k.terminated) \cup {u}
  BY <1>0, <1>5, AppendIs
<1>9. /\ pc'[t] = (IF u = t THEN "yield" ELSE "reset") /\ (u # t => pc'[u] = "app")
      /\ \A x \in Task \ {t, u} : pc'[x] = pc[x]
      /\ \A x \in Task \ {u} : call'[x] = call[x]
  BY <1>0, <1>3
<1>10. ASSUME NEW x \in Task
       PROVE  Timely(x)'
  <2>1. x \in Live' => x \in Live /\ x # u
    BY <1>1, <1>8, <1>9 DEF Live
  <2>2. /\ pc[x] = "delay" => call[x].op = "delay" /\ ~Periodic(x)
        /\ pc[x] = "until" => call[x].op = "until" /\ Periodic(x) /\ Late(x) > -TickSpan
    BY <1>0 DEF Timely
  <2>3. pc'[x] \in {"yield", "app", "reset"} \/ (x # u /\ pc'[x] = pc[x])
    BY <1>9
  <2>4. x \in Delayed(k') => x \in Delayed(k) /\ ToWake(k', x) = ToWake(k, x) /\ call'[x] = call[x]
    BY <1>7, <1>9
  <2> QED
    BY <1>0, <1>3, <1>5, <1>6, <1>7, <1>9, <2>1, <2>2, <2>3, <2>4, StaysTimely
<1> QED
  BY <1>0, <1>3, <1>5, <1>10 DEF TimeInv

(* The idle task freeing a deleted task keeps time. *)
LEMMA IdleReapTimely == ASSUME StructInv, TimeInv, IdleReap PROVE TimeInv'
<1>0. /\ DataOk(k) /\ pc \in [Task -> Places] /\ call \in [Task -> CallType]
      /\ due \in [Task -> Int] /\ k \in KernelData /\ Idle \in Task
      /\ k.pended <= MaxPended /\ \A x \in Task : Timely(x)
      /\ \A x \in Range(k.terminated) : pc[x] \notin {"new", "gone"} /\ x # Idle
  BY TaskAssumption DEF StructInv, PlacesOk, TimeInv, DataOk, ListsOk, IdleOk
<1>1. /\ cur = Idle /\ pc[Idle] = "reap" /\ last' = last /\ due' = due
      /\ k.terminated # << >>
      /\ k' = [k EXCEPT !.terminated = Tail(@)]
      /\ pc' = [pc EXCEPT ![Idle] = "app", ![Head(k.terminated)] = "gone"]
      /\ call' = [call EXCEPT ![Idle] = NoCall]
  BY DEF IdleReap, Running, Keep, StructInv, IdleOk
<1>2. PICK u : u = Head(k.terminated)
  OBVIOUS
<1>3. PICK list : list = Tail(k.terminated)
  OBVIOUS
<1>4. /\ k.terminated \in Seq(Task) /\ Range(k.terminated) \subseteq Task
  BY <1>0, KernelParts, RangeIs DEF ListType
<1>5. /\ u \in Range(k.terminated) /\ list \in ListType
      /\ Range(k.terminated) = Range(list) \cup {u}
  BY <1>1, <1>2, <1>3, <1>4, TailIs DEF ListType
<1>6. u \in Task /\ u # Idle
  BY <1>0, <1>4, <1>5
<1>7. /\ SameLists(k', k) /\ k'.delayed = k.delayed /\ k'.overflow = k.overflow
      /\ k'.terminated = list /\ k'.tick = k.tick /\ k'.pended = k.pended
  BY <1>0, <1>1, <1>3, <1>5, SameButTerminated
<1>8. /\ Delayed(k') = Delayed(k) /\ \A x \in Task : OnEvent(k', x) <=> OnEvent(k, x)
      /\ \A x : ToWake(k', x) = ToWake(k, x)
  BY <1>7, SameListsIs
<1>9. /\ pc'[Idle] = "app" /\ pc'[u] = "gone" /\ \A x \in Task \ {Idle, u} : pc'[x] = pc[x]
      /\ \A x \in Task \ {Idle} : call'[x] = call[x]
  BY <1>0, <1>1, <1>2, <1>6
<1>10. Idle \notin Delayed(k)
  BY <1>0, <1>1, CallerReady DEF Asleep
<1>11. ASSUME NEW x \in Task
       PROVE  Timely(x)'
  <2>1. x \in Live' => x \in Live
    BY <1>0, <1>1, <1>5, <1>6, <1>7, <1>9 DEF Live
  <2>2. /\ pc[x] = "delay" => call[x].op = "delay" /\ ~Periodic(x)
        /\ pc[x] = "until" => call[x].op = "until" /\ Periodic(x) /\ Late(x) > -TickSpan
    BY <1>0 DEF Timely
  <2>3. pc'[x] \in {"gone", "app"} \/ (x # Idle /\ pc'[x] = pc[x])
    BY <1>9
  <2>4. x \in Delayed(k') => call'[x] = call[x]
    BY <1>8, <1>9, <1>10
  <2> QED
    BY <1>0, <1>1, <1>7, <1>8, <1>9, <2>1, <2>2, <2>3, <2>4, StaysTimely
<1> QED
  BY <1>0, <1>1, <1>7, <1>11 DEF TimeInv

(* As the current task falls asleep, the other tasks keep time, and its  *)
(* wake time is where the tick count will be.                            *)
LEMMA SleeperIs ==
    ASSUME StructInv, TimeInv, NEW t \in Task, cur = t, pc[t] \in {"delay", "until"},
           NEW wake \in 0 .. MaxDelay, wake # k.tick,
           k' = AddCurrentTaskToDelayedList(k, wake),
           pc' = [pc EXCEPT ![t] = "resume"], \A u \in Task \ {t} :
                call'[u] = call[u] /\ last'[u] = last[u] /\ due'[u] = due[u]
    PROVE  /\ \A u \in Task \ {t} : Timely(u)'
           /\ t \in Delayed(k') /\ ~OnEvent(k', t)
           /\ ToWake(k', t) = IF wake < k.tick THEN wake + TickSpan - k.tick ELSE wake - k.tick
           /\ k'.tick = k.tick /\ k'.pended = k.pended
<1>0. /\ DataOk(k) /\ k \in KernelData /\ cur \in Task /\ pc \in [Task -> Places]
      /\ GenericOk(k) /\ EventsOk(k) /\ TopOk(k) /\ Sorted(k) /\ InTime(k) /\ EventsSleep(k)
      /\ \A u \in Task : Timely(u)
  BY DEF StructInv, PlacesOk, DataOk, ListsOk, TimeInv
<1>1. /\ \A u \in Task : OnEvent(k', u) <=> OnEvent(k, u)
      /\ \A u \in Task : u \in Delayed(k') <=> u \in Delayed(k) \/ u = cur
      /\ \A u \in Task \ {cur} : ToWake(k', u) = ToWake(k, u)
      /\ ToWake(k', cur) = IF wake < k.tick THEN wake + TickSpan - k.tick ELSE wake - k.tick
      /\ k'.terminated = k.terminated /\ k'.tick = k.tick /\ k'.pended = k.pended
  BY <1>0, AddCurrentTaskToDelayedListIs DEF EventsSleep
<1>2. ASSUME NEW u \in Task \ {t}
      PROVE  Timely(u)'
  <2>1. pc'[u] = pc[u] /\ (u \in Live' <=> u \in Live)
    BY <1>0, <1>1 DEF Live
  <2>2. /\ pc[u] = "delay" => call[u].op = "delay" /\ ~Periodic(u)
        /\ pc[u] = "until" => call[u].op = "until" /\ Periodic(u) /\ Late(u) > -TickSpan
    BY <1>0 DEF Timely
  <2> QED
    BY <1>0, <1>1, <2>1, <2>2, StaysTimely
<1> QED
  BY <1>0, <1>1, <1>2 DEF Timely

(* vTaskDelay puts the task to sleep for the ticks it asked for, less    *)
(* those that are pended.                                                *)
LEMMA DelayPlaceTimely ==
    ASSUME StructInv, TimeInv, NEW t \in Task, DelayPlace(t)
    PROVE  TimeInv'
<1>0. /\ cur = t /\ pc[t] = "delay" /\ k \in KernelData /\ PlacesOk
      /\ pc \in [Task -> Places] /\ call \in [Task -> CallType] /\ last \in [Task -> TickType]
      /\ due \in [Task -> Int] /\ k.pended <= MaxPended /\ \A u \in Task : Timely(u)
  BY DEF DelayPlace, Running, StructInv, PlacesOk, DataOk, ListsOk, TimeInv
<1>1. /\ call[t].wait \in 0 .. MaxDelay /\ call[t].wait > 0
      /\ k.tick \in 0 .. MaxDelay /\ k.pended \in Nat
  BY <1>0, CallIs, KernelParts DEF PlacesOk, TickType
<1>2. PICK wake : wake = (k.tick + call[t].wait) % TickSpan
  OBVIOUS
<1>3. /\ wake \in 0 .. MaxDelay /\ wake # k.tick
      /\ wake = IF k.tick + call[t].wait < TickSpan THEN k.tick + call[t].wait
                ELSE k.tick + call[t].wait - TickSpan
  BY <1>1, <1>2, AheadIs
<1>4. /\ call[t].op = "delay" /\ ~Periodic(t)
  BY <1>0 DEF Timely
<1>5. /\ call' = [call EXCEPT ![t] = [call[t] EXCEPT !.wait = 0]]
      /\ due' = [due EXCEPT ![t] = call[t].wait - k.pended] /\ last' = last
      /\ pc' = [pc EXCEPT ![t] = "resume"]
      /\ k' = AddCurrentTaskToDelayedList(k, wake)
  BY <1>2 DEF DelayPlace, Keep, GoToDue
<1>6. \A u \in Task \ {t} : call'[u] = call[u] /\ last'[u] = last[u] /\ due'[u] = due[u]
  BY <1>0, <1>5
<1>7. /\ \A u \in Task \ {t} : Timely(u)'
      /\ t \in Delayed(k') /\ ~OnEvent(k', t)
      /\ ToWake(k', t) = IF wake < k.tick THEN wake + TickSpan - k.tick ELSE wake - k.tick
      /\ k'.tick = k.tick /\ k'.pended = k.pended
  BY <1>0, <1>3, <1>5, <1>6, SleeperIs
<1>8. /\ call'[t].op = "delay" /\ due'[t] = call[t].wait - k.pended /\ pc'[t] = "resume"
      /\ due' \in [Task -> Int]
  BY <1>0, <1>1, <1>4, <1>5 DEF CallType
<1>9. /\ Floor(t)' = Floor(t) /\ (Periodic(t)' <=> Periodic(t)) /\ Late(t)' = call[t].wait
  BY <1>1, <1>7, <1>8 DEF Floor, Periodic, Late
<1>10. ToWake(k', t) = call[t].wait
  BY <1>1, <1>3, <1>7, SpanAssumption DEF MaxDelay
<1>11. due'[t] \in Int /\ Floor(t) <= due'[t] /\ due'[t] <= MaxDelay
  BY <1>0, <1>1, <1>8, FloorsAre
<1>12. Timely(t)'
  BY <1>4, <1>7, <1>8, <1>9, <1>10, <1>11 DEF Timely
<1> QED
  BY <1>0, <1>7, <1>8, <1>12 DEF TimeInv

(* The overflow arithmetic of vTaskDelayUntil: whether the next wake     *)
(* time is still to come is decided rightly in every position of the two *)
(* counts, for a task that is not late by a whole round.                 *)
LEMMA NextWakeIs ==
    ASSUME NEW tick \in 0 .. MaxDelay, NEW from \in 0 .. MaxDelay, NEW wait \in 1 .. MaxDelay,
           NEW x \in Int, -TickSpan < x, x <= 0, Multiple(from - tick - x)
    PROVE  LET wake  == (from + wait) % TickSpan
               sleep == IF tick < from THEN wake < from /\ wake > tick
                                       ELSE wake < from \/ wake > tick
           IN  /\ wake \in 0 .. MaxDelay
               /\ Multiple(wake - tick - (x + wait))
               /\ sleep => wake # tick /\ x + wait =
                            IF wake < tick THEN wake + TickSpan - tick ELSE wake - tick
               /\ ~sleep => x + wait <= 0
<1>0. TickSpan \in Nat /\ TickSpan > 1 /\ MaxDelay = TickSpan - 1
  BY SpanAssumption DEF MaxDelay
<1>1. from - tick - x \in {-TickSpan, 0, TickSpan}
  <2>1. from - tick - x \in Int /\ -2 * TickSpan < from - tick - x /\ from - tick - x < 2 * TickSpan
    BY <1>0
  <2> QED
    BY <2>1, MultipleIs
<1>2. from = tick + x \/ from = tick + x + TickSpan
  BY <1>0, <1>1
<1>3. PICK wake : wake = (from + wait) % TickSpan
  OBVIOUS
<1>4. /\ wake \in 0 .. MaxDelay
      /\ wake = IF from + wait < TickSpan THEN from + wait ELSE from + wait - TickSpan
  <2>1. wait \in 0 .. MaxDelay
    BY <1>0
  <2> QED
    BY <1>3, <2>1, AheadIs
<1>5. Multiple(wake - tick - (x + wait))
  <2>1. \/ wake - tick - (x + wait) = from - tick - x
        \/ wake - tick - (x + wait) = from - tick - x - TickSpan
    BY <1>0, <1>4
  <2>2. from - tick - x \in Int
    OBVIOUS
  <2> QED
    BY <2>1, <2>2, MultipleIs
<1>6. CASE tick < from
  <2>1. from = tick + x + TickSpan
    BY <1>2, <1>6
  <2>2. wake < from /\ wake > tick => x + wait = wake - tick
    BY <1>0, <1>4, <1>6, <2>1
  <2>3. ~(wake < from /\ wake > tick) => x + wait <= 0
    BY <1>0, <1>4, <1>6, <2>1
  <2> QED
    BY <1>3, <1>4, <1>5, <1>6, <2>2, <2>3
<1>7. CASE ~(tick < from)
  <2>1. from = tick + x
    BY <1>0, <1>2, <1>7
  <2>2. wake < from \/ wake > tick =>
            wake # tick /\ x + wait = IF wake < tick THEN wake + TickSpan - tick ELSE wake - tick
    BY <1>0, <1>4, <1>7, <2>1
  <2>3. ~(wake < from \/ wake > tick) => x + wait <= 0
    BY <1>0, <1>4, <1>7, <2>1
  <2> QED
    BY <1>3, <1>4, <1>5, <1>7, <2>2, <2>3
<1> QED
  BY <1>6, <1>7

(* vTaskDelayUntil puts the task to sleep until its next moment, and not *)
(* at all if that is past.                                               *)
LEMMA UntilPlaceTimely ==
    ASSUME StructInv, TimeInv, NEW t \in Task, UntilPlace(t)
    PROVE  TimeInv'
<1>0. /\ cur = t /\ pc[t] = "until" /\ k \in KernelData /\ PlacesOk
      /\ pc \in [Task -> Places] /\ call \in [Task -> CallType] /\ last \in [Task -> TickType]
      /\ due \in [Task -> Int] /\ k.pended <= MaxPended /\ \A u \in Task : Timely(u)
  BY DEF UntilPlace, Running, StructInv, PlacesOk, DataOk, ListsOk, TimeInv
<1>1. /\ call[t].wait \in 0 .. MaxDelay /\ call[t].wait > 0 /\ call[t].wait \in 1 .. MaxDelay
      /\ k.tick \in 0 .. MaxDelay /\ last[t] \in 0 .. MaxDelay /\ k.pended \in Nat
  <2>1. MaxDelay \in Int
    BY SpanAssumption DEF MaxDelay
  <2> QED
    BY <1>0, <2>1, CallIs, KernelParts DEF PlacesOk, TickType
<1>2. t \notin Delayed(k) /\ t \in Live
  BY <1>0, CallerReady DEF Asleep
<1>3. PICK x : x = Late(t)
  OBVIOUS
<1>4. /\ x \in Int /\ -TickSpan < x /\ x <= 0 /\ Multiple(last[t] - k.tick - x)
      /\ call[t].op = "until" /\ Periodic(t) /\ x = due[t] + k.pended /\ ~OnEvent(k, t)
  BY <1>0, <1>1, <1>2, <1>3, FloorsAre DEF Timely, Late
<1>5. PICK wake : wake = (last[t] + call[t].wait) % TickSpan
  OBVIOUS
<1>6. PICK sleep \in BOOLEAN : sleep <=> IF k.tick < last[t] THEN wake < last[t] /\ wake > k.tick
                                                         ELSE wake < last[t] \/ wake > k.tick
  OBVIOUS
<1>7. /\ wake \in 0 .. MaxDelay
      /\ Multiple(wake - k.tick - (x + call[t].wait))
      /\ sleep => wake # k.tick /\ x + call[t].wait =
                    IF wake < k.tick THEN wake + TickSpan - k.tick ELSE wake - k.tick
      /\ ~sleep => x + call[t].wait <= 0
  BY <1>1, <1>4, <1>5, <1>6, NextWakeIs
<1>8. /\ k' = IF sleep THEN AddCurrentTaskToDelayedList(k, wake) ELSE k
      /\ call' = call /\ pc' = [pc EXCEPT ![t] = "resume"]
      /\ last' = [last EXCEPT ![t] = wake] /\ due' = [due EXCEPT ![t] = @ + call[t].wait]
  BY <1>5, <1>6 DEF UntilPlace, Keep
<1>9. /\ \A u \in Task \ {t} : call'[u] = call[u] /\ last'[u] = last[u] /\ due'[u] = due[u]
      /\ \A u \in Task \ {t} : pc'[u] = pc[u]
      /\ pc'[t] = "resume" /\ due'[t] = due[t] + call[t].wait /\ last'[t] = wake
      /\ due' \in [Task -> Int]
  BY <1>0, <1>1, <1>8
<1>10. /\ \A u \in Task \ {t} : Timely(u)'
       /\ ~OnEvent(k', t) /\ (t \in Delayed(k') <=> sleep)
       /\ sleep => ToWake(k', t) =
                    IF wake < k.tick THEN wake + TickSpan - k.tick ELSE wake - k.tick
       /\ k'.tick = k.tick /\ k'.pended = k.pended
  <2>1. CASE sleep
    <3>1. k' = AddCurrentTaskToDelayedList(k, wake) /\ wake # k.tick
      BY <1>7, <1>8, <2>1
    <3> QED
      BY <1>0, <1>7, <1>8, <1>9, <2>1, <3>1, SleeperIs
  <2>2. CASE ~sleep
    <3>1. k' = k
      BY <1>8, <2>2
    <3>2. ASSUME NEW u \in Task \ {t}
          PROVE  Timely(u)'
      <4>1. u \in Live' <=> u \in Live
        BY <1>9, <3>1 DEF Live
      <4>2. /\ pc[u] = "delay" => call[u].op = "delay" /\ ~Periodic(u)
            /\ pc[u] = "until" => call[u].op = "until" /\ Periodic(u) /\ Late(u) > -TickSpan
        BY <1>0 DEF Timely
      <4> QED
        BY <1>0, <1>9, <3>1, <4>1, <4>2, StaysTimely
    <3> QED
      BY <1>2, <1>4, <2>2, <3>1, <3>2
  <2> QED
    BY <2>1, <2>2
<1>11. /\ Floor(t)' = Floor(t) /\ (Periodic(t)' <=> Periodic(t)) /\ Late(t)' = x + call[t].wait
  <2>1. due[t] \in Int
    BY <1>0
  <2> QED
    BY <1>1, <1>4, <1>9, <1>10, <2>1 DEF Floor, Periodic, Late
<1>12. due'[t] \in Int /\ Floor(t) <= due'[t] /\ due'[t] <= MaxDelay
  <2>1. due[t] \in Int /\ Floor(t) <= due[t]
    BY <1>0 DEF Timely
  <2> QED
    BY <1>0, <1>1, <1>4, <1>9, <2>1, FloorsAre
<1>13. Timely(t)'
  BY <1>4, <1>7, <1>8, <1>9, <1>10, <1>11, <1>12 DEF Timely
<1> QED
  BY <1>0, <1>9, <1>10, <1>13 DEF TimeInv

(* The difference of whole rounds is whole rounds. *)
LEMMA MultipleMinus ==
    ASSUME NEW x \in Int, NEW y \in Int, Multiple(x), Multiple(y)
    PROVE  Multiple(x - y)
<1>1. PICK a \in Int : x = a * TickSpan
  BY DEF Multiple
<1>2. PICK b \in Int : y = b * TickSpan
  BY DEF Multiple
<1>3. a - b \in Int /\ x - y = (a - b) * TickSpan
  BY <1>1, <1>2, SpanAssumption
<1> QED
  BY <1>3 DEF Multiple

(* What xTaskResumeAll has done for the tasks, as far as time goes. *)
CaughtUp ==
    /\ DataOk(k') /\ SameTasks(k', k) /\ k'.terminated = k.terminated
    /\ k'.pended = 0 /\ Multiple(k'.tick - k.tick - k.pended)
    /\ \A u \in Delayed(k') : ToWake(k', u) = ToWake(k, u) - k.pended
    /\ \A u \in Task : IsReady(k', u) /\ ~IsReady(k, u) =>
            OnEvent(k, u) \/ ToWake(k, u) <= k.pended

(* A task keeps time as the pended ticks are unwound. *)
LEMMA CaughtUpTimely ==
    ASSUME StructInv, PlacedOk', CaughtUp, NEW u \in Task, Timely(u),
           due'[u] = due[u], last'[u] = last[u], last[u] \in TickType,
           u \in Live' => u \in Live,
           u \in Delayed(k) => call'[u].op = call[u].op,
           pc'[u] = "new" => pc[u] = "new", pc'[u] \notin {"delay", "until"}
    PROVE  Timely(u)'
<1>0. /\ DataOk(k) /\ k \in KernelData /\ DataOk(k') /\ k' \in KernelData
      /\ k.tick \in Int /\ k'.tick \in Int /\ k.pended \in Int /\ k.pended >= 0
      /\ TickSpan \in Int /\ MaxPended \in Int
      /\ due[u] \in Int /\ last[u] \in Int
  <2>1. k \in KernelData /\ k' \in KernelData
    BY DEF StructInv, CaughtUp, DataOk, ListsOk
  <2>2. k.pended \in 0 .. PendedSpan - 1 /\ PendedSpan \in Int
    BY <2>1, KernelParts, SpanAssumption
  <2> QED
    BY <2>1, <2>2, ClocksAre, SpanAssumption DEF StructInv, CaughtUp, Timely, TickType
<1>1. /\ Floor(u)' = Floor(u) /\ (Periodic(u)' <=> Periodic(u)) /\ Late(u)' = due[u]
      /\ Late(u) = due[u] + k.pended
  BY <1>0 DEF Floor, Periodic, Late, CaughtUp
<1>2. u \in Delayed(k') => u \in Delayed(k)
  BY <1>0, ReadyOrDelayed DEF CaughtUp, SameTasks, Placed
<1>3. u \in Delayed(k') => ToWake(k', u) = due[u] /\ call'[u].op \in {"delay", "until"}
  BY <1>0, <1>1, <1>2 DEF CaughtUp, Timely
<1>4. ASSUME u \in Live', Periodic(u), u \notin Delayed(k')
      PROVE  due[u] <= 0
  <2>1. IsReady(k', u)
    BY <1>4 DEF PlacedOk, Placed
  <2>2. CASE IsReady(k, u)
    <3>1. u \notin Delayed(k)
      BY <1>0, <2>2, ReadyOrDelayed
    <3>2. Late(u) <= 0
      BY <1>4, <3>1 DEF Timely
    <3> QED
      BY <1>0, <1>1, <3>2
  <2>3. CASE ~IsReady(k, u)
    <3>1. ToWake(k, u) <= k.pended
      BY <2>1, <2>3 DEF CaughtUp, Timely
    <3>2. u \in Delayed(k)
      BY <2>1, <2>3 DEF CaughtUp, SameTasks, Placed
    <3>3. ToWake(k, u) = due[u] + k.pended
      BY <1>1, <3>2 DEF Timely
    <3> QED
      BY <1>0, <3>1, <3>3
  <2> QED
    BY <2>2, <2>3
<1>5. ASSUME u \in Live', Periodic(u), due[u] > -TickSpan
      PROVE  Multiple(last[u] - k'.tick - due[u])
  <2>1. Late(u) > -TickSpan
    BY <1>0, <1>1, <1>5
  <2>2. Multiple(last[u] - k.tick - (due[u] + k.pended))
    BY <1>1, <1>5, <2>1 DEF Timely
  <2>3. Multiple(k'.tick - k.tick - k.pended)
    BY DEF CaughtUp
  <2>4. last[u] - k'.tick - due[u]
          = (last[u] - k.tick - (due[u] + k.pended)) - (k'.tick - k.tick - k.pended)
    BY <1>0
  <2>5. last[u] - k.tick - (due[u] + k.pended) \in Int /\ k'.tick - k.tick - k.pended \in Int
    BY <1>0
  <2> QED
    BY <2>2, <2>3, <2>4, <2>5, MultipleMinus
<1>6. ~OnEvent(k', u)
  BY DEF CaughtUp, SameTasks, Timely
<1> QED
  BY <1>1, <1>3, <1>4, <1>5, <1>6 DEF Timely

(* xTaskResumeAll, nested or last, keeps time. *)
LEMMA LetGoTimely ==
    ASSUME StructInv, TimeInv, PlacedOk', NEW t \in Task, cur = t, suspended \in 1 .. 2,
           NEW yielded \in BOOLEAN, ResumeAll(yielded),
           NEW at, NEW c, GoTo(t, at, c), at \notin {"new", "gone", "delay", "until"},
           pc[t] \notin {"new", "gone"}, t \notin Delayed(k) \/ c = call[t]
    PROVE  TimeInv'
<1>0. /\ DataOk(k) /\ cur \in Task /\ Idle \in Task /\ IsReady(k, Idle)
      /\ pc \in [Task -> Places] /\ call \in [Task -> CallType] /\ last \in [Task -> TickType]
      /\ due \in [Task -> Int] /\ k.pended <= MaxPended /\ \A u \in Task : Timely(u)
      /\ \A u \in Task : pc[u] \notin Outside => u = t
  BY TaskAssumption DEF StructInv, PlacesOk, IdleOk, TimeInv
<1>1. CASE suspended = 2
  <2>1. k' = k
    BY <1>0, <1>1, ResumeAllIs
  <2> QED
    BY <2>1, MovesTimely
<1>2. CASE suspended = 1
  <2>1. CaughtUp
    BY <1>0, <1>2, ResumeAllIs DEF CaughtUp
  <2>2. PICK over \in BOOLEAN : over <=> at = "app" /\ c.op \notin {"delay", "until"}
    OBVIOUS
  <2>3. /\ pc' = [pc EXCEPT ![t] = at] /\ call' = [call EXCEPT ![t] = IF over THEN NoCall ELSE c]
        /\ due' = [due EXCEPT ![t] = IF over /\ ~Periodic(t) THEN 0 ELSE due[t]] /\ last' = last
    BY <2>2 DEF GoTo, GoToDue
  <2>4. /\ pc'[t] = at /\ call'[t] = (IF over THEN NoCall ELSE c)
        /\ due'[t] = IF over /\ ~Periodic(t) THEN 0 ELSE due[t]
        /\ \A u \in Task \ {t} : pc'[u] = pc[u] /\ call'[u] = call[u] /\ due'[u] = due[u]
        /\ due' \in [Task -> Int]
    BY <1>0, <2>3
  <2>5. \A u \in Task : u \in Live' <=> u \in Live
    BY <2>1, <2>4 DEF Live, CaughtUp
  <2>6. ASSUME NEW u \in Task \ {t}
        PROVE  Timely(u)'
    <3>1. pc[u] \notin {"delay", "until"}
      BY <1>0 DEF Outside
    <3> QED
      BY <1>0, <2>1, <2>3, <2>4, <2>5, <3>1, CaughtUpTimely
  <2>7. Timely(t)'
    <3>1. Timely(t)
      BY <1>0
    <3>2. CASE over /\ ~Periodic(t)
      <4>1. t \notin Delayed(k)
        BY <2>2, <3>1, <3>2 DEF Timely
      <4>2. t \notin Delayed(k')
        BY <1>0, <2>1, <4>1, ReadyOrDelayed DEF CaughtUp, SameTasks, Placed
      <4>3. due'[t] = 0 /\ pc'[t] \notin {"new", "delay", "until"} /\ ~OnEvent(k', t)
        BY <2>1, <2>4, <3>1, <3>2 DEF Timely, CaughtUp, SameTasks
      <4>4. Floor(t)' = Floor(t) /\ Periodic(t)' = Periodic(t)
        BY DEF Floor, Periodic
      <4> QED
        BY <3>2, <4>2, <4>3, <4>4, FloorsAre DEF Timely
    <3>3. CASE ~(over /\ ~Periodic(t))
      <4>1. due'[t] = due[t] /\ last'[t] = last[t] /\ last[t] \in TickType
        BY <1>0, <2>3, <2>4, <3>3
      <4>2. t \in Delayed(k) => ~over /\ call'[t] = call[t]
        BY <2>2, <2>4, <3>1 DEF Timely
      <4> QED
        BY <2>1, <2>4, <2>5, <3>1, <4>1, <4>2, CaughtUpTimely
    <3> QED
      BY <3>2, <3>3
  <2>8. k'.pended <= MaxPended
    BY <2>1, SpanAssumption DEF CaughtUp
  <2> QED
    BY <2>4, <2>6, <2>7, <2>8 DEF TimeInv
<1> QED
  BY <1>1, <1>2

(* xTaskResumeAll at the end of a call keeps time. *)
LEMMA ResumeTimely ==
    ASSUME StructInv, TimeInv, PlacedOk', NEW t \in Task, Resume(t)
    PROVE  TimeInv'
<1>1. cur = t /\ pc[t] = "resume"
  BY DEF Resume, Running
<1>2. suspended \in 1 .. 2 /\ call[t] \in CallType
  BY <1>1, HoldsIs DEF Outside
<1>3. PICK yielded \in BOOLEAN :
        /\ ResumeAll(yielded)
        /\ GoTo(t, IF call[t].force /\ ~yielded THEN "yield" ELSE call[t].after, call[t])
  BY DEF Resume
<1>4. PICK at : at = IF call[t].force /\ ~yielded THEN "yield" ELSE call[t].after
  OBVIOUS
<1>5. at \notin {"new", "gone", "delay", "until"}
  BY <1>2, <1>4, CallIs DEF Back, Outside
<1> QED
  BY <1>1, <1>2, <1>3, <1>4, <1>5, LetGoTimely

(* xTaskResumeAll by the application keeps time. *)
LEMMA AppResumeAllTimely ==
    ASSUME StructInv, TimeInv, PlacedOk', NEW t \in Task, AppResumeAll(t)
    PROVE  TimeInv'
<1>1. cur = t /\ pc[t] \in {"held", "release"}
  BY DEF AppResumeAll, Running
<1>2. suspended \in 1 .. 2
  BY <1>1, HoldsIs DEF Outside
<1>3. PICK yielded \in BOOLEAN : ResumeAll(yielded)
  BY DEF AppResumeAll
<1>4. PICK at : at = IF suspended = 1 THEN "app" ELSE "release"
  OBVIOUS
<1>5. GoTo(t, at, NoCall) /\ at \notin {"new", "gone", "delay", "until"}
  BY <1>4 DEF AppResumeAll
<1>6. t \notin Delayed(k)
  BY <1>1, CallerReady DEF Asleep
<1> QED
  BY <1>1, <1>2, <1>3, <1>5, <1>6, LetGoTimely

(* The greater of two numbers. *)
LEMMA MaxOfTwo ==
    ASSUME NEW a \in Int, NEW b \in Int
    PROVE  Max({a, b}) = IF a >= b THEN a ELSE b
<1>1. PICK top \in Int : a <= top /\ b <= top /\ top \in {a, b}
  OBVIOUS
<1>2. {a, b} \subseteq Int /\ {a, b} # {} /\ \A x \in {a, b} : x <= top
  BY <1>1
<1>3. Max({a, b}) \in {a, b} /\ \A x \in {a, b} : x <= Max({a, b})
  BY <1>2, MaxIs
<1> QED
  BY <1>3

(* One tick: the count moves on, or the tick is pended. *)
Ticked ==
    /\ k'.pended \in Nat /\ k'.pended <= MaxPended
    /\ k'.pended <= k.pended + 1 /\ k'.tick \in Int
    /\ Multiple((k'.tick + k'.pended) - (k.tick + k.pended) - 1)
    /\ \A u \in Delayed(k') : /\ u \in Delayed(k)
                              /\ ToWake(k', u) = ToWake(k, u) + (k'.pended - k.pended) - 1
    /\ \A u \in Delayed(k) \ Delayed(k') : ToWake(k, u) = 1 /\ k.pended = 0 /\ k'.pended = 0
    /\ \A u \in Task : OnEvent(k', u) => OnEvent(k, u)
    /\ k'.terminated = k.terminated
    /\ \A u \in Task : pc[u] = "until" => k'.pended = k.pended + 1

(* A sleeper has at least a tick to wait. *)
LEMMA SleepersAreAhead ==
    ASSUME NEW s, DataOk(s), NEW u \in Delayed(s)
    PROVE  u \in Task /\ ToWake(s, u) \in Int /\ ToWake(s, u) >= 1
<1>1. s \in KernelData /\ InTime(s)
  BY DEF DataOk, ListsOk
<1>2. /\ u \in Task /\ (u \in Range(s.delayed) \/ u \in Range(s.overflow))
      /\ s.wakeAt[u] \in Int /\ 0 <= s.wakeAt[u] /\ s.tick \in Int /\ s.tick <= MaxDelay
      /\ MaxDelay = TickSpan - 1 /\ TickSpan \in Int
  BY <1>1, DelayedIs, ClocksAre
<1> QED
  BY <1>1, <1>2 DEF InTime, ToWake

(* A task keeps time over a tick. *)
LEMMA TickedTimely ==
    ASSUME StructInv, TimeInv, Ticked, UNCHANGED << pc, call, last >>, NEW u \in Task,
           due'[u] = IF Timed(u) THEN Max({due[u] - 1, Floor(u)}) ELSE due[u]
    PROVE  Timely(u)'
<1>0. /\ DataOk(k) /\ k \in KernelData /\ PlacedOk /\ Timely(u)
      /\ k.tick \in Int /\ k'.tick \in Int /\ k.pended \in Int /\ k.pended >= 0
      /\ k'.pended \in Int /\ k'.pended >= 0 /\ k'.pended <= MaxPended /\ k'.pended <= k.pended + 1
      /\ k.pended <= MaxPended
      /\ TickSpan \in Int /\ TickSpan > 1 /\ MaxPended \in Int /\ MaxPended >= 0
      /\ MaxDelay = TickSpan - 1
      /\ due[u] \in Int /\ last[u] \in Int /\ Floor(u) \in Int
  <2>1. k \in KernelData
    BY DEF StructInv, DataOk, ListsOk
  <2>2. k.pended \in 0 .. PendedSpan - 1 /\ PendedSpan \in Int
    BY <2>1, KernelParts, SpanAssumption
  <2>3. Timely(u) /\ last[u] \in TickType
    BY DEF TimeInv, StructInv, PlacesOk
  <2> QED
    BY <2>1, <2>2, <2>3, ClocksAre, FloorsAre DEF StructInv, Ticked, Timely, TickType, TimeInv
<1>1. /\ Floor(u)' = Floor(u) /\ (Periodic(u)' <=> Periodic(u))
      /\ Late(u)' = due'[u] + k'.pended /\ Late(u) = due[u] + k.pended
      /\ (u \in Live' <=> u \in Live)
  BY DEF Floor, Periodic, Late, Live, Ticked
<1>2. /\ Floor(u) <= due[u] /\ due[u] <= MaxDelay /\ Floor(u) <= -MaxPended - 1
      /\ Periodic(u) => Floor(u) = -TickSpan - MaxPended
  BY <1>0, FloorsAre DEF Timely
<1>3. /\ ~Timed(u) => due'[u] = due[u]
      /\ Timed(u) => due'[u] = IF due[u] - 1 >= Floor(u) THEN due[u] - 1 ELSE Floor(u)
  BY <1>0, MaxOfTwo
<1>4. due'[u] \in Int /\ Floor(u) <= due'[u] /\ due'[u] <= MaxDelay
  BY <1>0, <1>2, <1>3
<1>5. ASSUME u \in Delayed(k)
      PROVE  /\ due'[u] = due[u] - 1 /\ ToWake(k, u) = due[u] + k.pended
             /\ ToWake(k, u) \in Int /\ ToWake(k, u) >= 1
             /\ call[u].op \in {"delay", "until"}
  <2>1. ToWake(k, u) \in Int /\ ToWake(k, u) >= 1
    BY <1>0, <1>5, SleepersAreAhead
  <2>2. ToWake(k, u) = due[u] + k.pended /\ call[u].op \in {"delay", "until"}
    BY <1>0, <1>1, <1>5 DEF Timely
  <2>3. u \in Live
    BY <1>0, <1>5 DEF PlacedOk, Placed
  <2>4. Timed(u)
    BY <1>5, <2>3 DEF Timed, Live
  <2> QED
    BY <1>0, <1>2, <1>3, <2>1, <2>2, <2>4
<1>6. ASSUME u \in Delayed(k')
      PROVE  ToWake(k', u) = due'[u] + k'.pended /\ call[u].op \in {"delay", "until"}
  <2>1. u \in Delayed(k) /\ ToWake(k', u) = ToWake(k, u) + (k'.pended - k.pended) - 1
    BY <1>6 DEF Ticked
  <2> QED
    BY <1>0, <1>5, <2>1
<1>7. ASSUME u \in Live, Periodic(u)
      PROVE  /\ due'[u] = due[u] - 1 \/ (due'[u] = Floor(u) /\ Late(u)' <= -TickSpan)
             /\ Late(u)' <= Late(u) \/ Late(u)' <= -TickSpan
  <2>1. Timed(u)
    BY <1>7 DEF Timed, Live
  <2> QED
    BY <1>0, <1>1, <1>2, <1>3, <1>7, <2>1
<1>8. ASSUME u \in Live', Periodic(u), u \notin Delayed(k')
      PROVE  Late(u)' <= 0
  <2>1. CASE u \in Delayed(k)
    <3>1. ToWake(k, u) = 1 /\ k.pended = 0 /\ k'.pended = 0
      BY <1>8, <2>1 DEF Ticked
    <3> QED
      BY <1>0, <1>1, <1>5, <2>1, <3>1
  <2>2. CASE u \notin Delayed(k)
    <3>1. Late(u) <= 0
      BY <1>0, <1>1, <1>8, <2>2 DEF Timely
    <3> QED
      BY <1>0, <1>1, <1>4, <1>7, <1>8, <3>1
  <2> QED
    BY <2>1, <2>2
<1>9. ASSUME u \in Live', Periodic(u), Late(u)' > -TickSpan
      PROVE  Multiple(last[u] - k'.tick - Late(u)')
  <2>1. due'[u] = due[u] - 1
    BY <1>0, <1>1, <1>4, <1>7, <1>9
  <2>2. Late(u) > -TickSpan
    BY <1>0, <1>1, <1>9, <2>1
  <2>3. Multiple(last[u] - k.tick - Late(u))
    BY <1>0, <1>1, <1>9, <2>2 DEF Timely
  <2>4. Multiple((k'.tick + k'.pended) - (k.tick + k.pended) - 1)
    BY DEF Ticked
  <2>5. last[u] - k'.tick - Late(u)'
          = (last[u] - k.tick - Late(u)) - ((k'.tick + k'.pended) - (k.tick + k.pended) - 1)
    BY <1>0, <1>1, <2>1
  <2>6. last[u] - k.tick - Late(u) \in Int /\ (k'.tick + k'.pended) - (k.tick + k.pended) - 1 \in Int
    BY <1>0, <1>1
  <2> QED
    BY <2>3, <2>4, <2>5, <2>6, MultipleMinus
<1>10. pc[u] = "new" /\ Periodic(u) => due'[u] = Floor(u)
  BY <1>0, <1>3 DEF Timely, Timed
<1>11. pc[u] = "delay" => call[u].op = "delay" /\ ~Periodic(u)
  BY <1>0 DEF Timely
<1>12. ASSUME pc[u] = "until"
       PROVE  call[u].op = "until" /\ Periodic(u) /\ Late(u)' > -TickSpan
  <2>1. call[u].op = "until" /\ Periodic(u) /\ Late(u) > -TickSpan
    BY <1>0, <1>12 DEF Timely
  <2>2. k'.pended = k.pended + 1
    BY <1>12 DEF Ticked
  <2>3. Timed(u)
    BY <1>12 DEF Timed
  <2> QED
    BY <1>0, <1>1, <1>2, <1>3, <2>1, <2>2, <2>3
<1>13. ~OnEvent(k', u)
  BY <1>0 DEF Timely, Ticked
<1> QED
  BY <1>1, <1>4, <1>6, <1>8, <1>9, <1>10, <1>11, <1>12, <1>13 DEF Timely

(* A tick that is pended is a tick, while the counter has room for it. *)
LEMMA PendedTicked ==
    ASSUME PendedTicksFit, StructInv, TimeInv, Tick, suspended > 0
    PROVE  Ticked
<1>0. /\ DataOk(k) /\ k \in KernelData /\ k.pended \in Nat /\ k.tick \in Int
      /\ k.pended < MaxPended /\ MaxPended \in Nat /\ PendedSpan \in Nat /\ MaxPended < PendedSpan
  <2>1. k \in KernelData
    BY DEF StructInv, DataOk, ListsOk
  <2>2. k.pended \in 0 .. PendedSpan - 1
    BY <2>1, KernelParts
  <2> QED
    BY <2>1, <2>2, ClocksAre, SpanAssumption DEF StructInv, PendedTicksFit, Tick
<1>1. (k.pended + 1) % PendedSpan = k.pended + 1
  BY <1>0
<1>2. PICK s : s = [k EXCEPT !.pended = k.pended + 1]
  OBVIOUS
<1>3. SwitchIf(k.yieldPending, s)
  BY <1>1, <1>2 DEF Tick
<1>4. k' = s \/ k' = [s EXCEPT !.yieldPending = TRUE]
  BY <1>3 DEF SwitchIf, SwitchContext, Keep
<1>5. /\ k'.delayed = k.delayed /\ k'.overflow = k.overflow /\ k'.wakeAt = k.wakeAt
      /\ k'.pendingReady = k.pendingReady /\ k'.waiting = k.waiting
      /\ k'.terminated = k.terminated /\ k'.tick = k.tick /\ k'.pended = k.pended + 1
  BY <1>0, <1>2, <1>4 DEF KernelData
<1>6. /\ Delayed(k') = Delayed(k) /\ \A u \in Task : OnEvent(k', u) => OnEvent(k, u)
      /\ \A u : ToWake(k', u) = ToWake(k, u)
  BY <1>5 DEF Delayed, OnEvent, ToWake
<1>7. Multiple((k'.tick + k'.pended) - (k.tick + k.pended) - 1)
  <2>1. (k'.tick + k'.pended) - (k.tick + k.pended) - 1 = 0
    BY <1>0, <1>5
  <2> QED
    BY <2>1, MultipleIs, 0 \in Int
<1>8. \A u \in Delayed(k') : ToWake(k', u) = ToWake(k, u) + (k'.pended - k.pended) - 1
  <2>1. ASSUME NEW u \in Delayed(k)
        PROVE  ToWake(k, u) = ToWake(k, u) + (k'.pended - k.pended) - 1
    <3>1. ToWake(k, u) \in Int
      BY <1>0, SleepersAreAhead
    <3> QED
      BY <1>0, <1>5, <3>1
  <2> QED
    BY <1>6, <2>1
<1>9. k'.pended \in Nat /\ k'.pended <= MaxPended /\ k'.pended <= k.pended + 1 /\ k'.tick \in Int
  BY <1>0, <1>5
<1> QED
  BY <1>5, <1>6, <1>7, <1>8, <1>9 DEF Ticked

(* A tick that counts is a tick, also when the count wraps. *)
LEMMA CountedTicked ==
    ASSUME StructInv, TimeInv, Tick, ~(suspended > 0)
    PROVE  Ticked
<1>0. /\ DataOk(k) /\ k \in KernelData /\ k.pended = 0 /\ k.tick \in Int
      /\ MaxPended \in Nat /\ TickSpan \in Int /\ MaxDelay = TickSpan - 1 /\ PlacedOk
      /\ Idle \in Task /\ IsReady(k, Idle) /\ \A u \in Task : pc[u] \in Outside
  BY ClocksAre, SpanAssumption, TaskAssumption
     DEF StructInv, DataOk, ListsOk, PlacesOk, IdleOk
<1>1. PICK i : i = IncrementTick(k)
  OBVIOUS
<1>2. PICK s : s = i.data
  OBVIOUS
<1>3. /\ DataOk(s) /\ s.terminated = k.terminated /\ s.pended = k.pended
      /\ s.tick = (IF k.tick = MaxDelay THEN 0 ELSE k.tick + 1)
      /\ \A u \in Task : Placed(s, u) <=> Placed(k, u)
      /\ \A u \in Task : IsReady(k, u) => IsReady(s, u)
      /\ \A u \in Task : OnEvent(s, u) => OnEvent(k, u)
      /\ \A u \in Delayed(s) : ToWake(s, u) = ToWake(k, u) - 1
      /\ \A u \in Task : IsReady(s, u) /\ ~IsReady(k, u) => ToWake(k, u) = 1
  BY <1>0, <1>1, <1>2, IncrementTickIs
<1>4. SwitchIf(i.switch, s)
  BY <1>1, <1>2 DEF Tick
<1>5. k' = s \/ SameStates(k', s)
  BY <1>0, <1>3, <1>4, SwitchContextIs DEF SwitchIf, Keep
<1>6. /\ Delayed(k') = Delayed(s) /\ \A u \in Task : OnEvent(k', u) => OnEvent(k, u)
      /\ \A u : ToWake(k', u) = ToWake(s, u)
      /\ k'.terminated = k.terminated /\ k'.tick = s.tick /\ k'.pended = 0
  BY <1>0, <1>3, <1>5, SameStatesIs DEF SameStates
<1>7. Multiple((k'.tick + k'.pended) - (k.tick + k.pended) - 1)
  <2>1. \/ (k'.tick + k'.pended) - (k.tick + k.pended) - 1 = 0
        \/ (k'.tick + k'.pended) - (k.tick + k.pended) - 1 = 0 - TickSpan
    BY <1>0, <1>3, <1>6
  <2>2. Multiple(0) /\ Multiple(0 - TickSpan)
    BY MultipleIs, 0 \in Int
  <2> QED
    BY <2>1, <2>2
<1>8. \A u \in Delayed(k') : /\ u \in Delayed(k)
                             /\ ToWake(k', u) = ToWake(k, u) + (k'.pended - k.pended) - 1
  <2>1. ASSUME NEW u \in Delayed(s)
        PROVE  u \in Delayed(k) /\ ToWake(s, u) = ToWake(k, u) + (k'.pended - k.pended) - 1
    <3>1. u \in Task
      BY <1>3, SleepersAreAhead
    <3>2. u \in Delayed(k)
      BY <1>3, <3>1, ReadyOrDelayed DEF Placed
    <3>3. ToWake(k, u) \in Int
      BY <1>0, <3>2, SleepersAreAhead
    <3> QED
      BY <1>0, <1>3, <1>6, <3>2, <3>3
  <2> QED
    BY <1>6, <2>1
<1>9. \A u \in Delayed(k) \ Delayed(k') : ToWake(k, u) = 1
  <2>1. ASSUME NEW u \in Delayed(k), u \notin Delayed(s)
        PROVE  ToWake(k, u) = 1
    <3>1. u \in Task /\ ~IsReady(k, u)
      BY <1>0, <2>1, SleepersAreAhead, ReadyOrDelayed
    <3> QED
      BY <1>3, <2>1, <3>1 DEF Placed
  <2> QED
    BY <1>6, <2>1
<1>10. \A u \in Task : pc[u] # "until"
  BY <1>0 DEF Outside
<1>11. k'.pended \in Nat /\ k'.pended <= MaxPended /\ k'.pended <= k.pended + 1 /\ k'.tick \in Int
  BY <1>0, <1>3, <1>6
<1> QED
  BY <1>0, <1>6, <1>7, <1>8, <1>9, <1>10, <1>11 DEF Ticked

(* The tick interrupt keeps time. *)
LEMMA TickTimely == ASSUME PendedTicksFit, StructInv, TimeInv, Tick PROVE TimeInv'
<1>1. Ticked
  BY PendedTicked, CountedTicked
<1>2. /\ due' = [u \in Task |-> IF Timed(u) THEN Max({due[u] - 1, Floor(u)}) ELSE due[u]]
      /\ UNCHANGED << pc, call, last >>
  BY DEF Tick
<1>3. \A u \in Task : Timely(u)'
  BY <1>1, <1>2, TickedTimely
<1>4. due' \in [Task -> Int]
  <2>1. \A u \in Task : due'[u] \in Int
    BY <1>3 DEF Timely
  <2> QED
    BY <1>2, <2>1
<1>5. k'.pended <= MaxPended
  BY <1>1 DEF Ticked
<1> QED
  BY <1>3, <1>4, <1>5 DEF TimeInv

(* The scheduler starts in time. *)
LEMMA KernelInitTimely == ASSUME KernelInit PROVE TimeInv
<1>1. PICK order \in SetToSeqs(Startup) :
        LET created == Append(order, Idle)
            highest == {n \in DOMAIN created : \A m \in DOMAIN created :
                            Priority[created[m]] <= Priority[created[n]]}
        IN k = Started(created) /\ cur = created[Max(highest)]
  BY DEF KernelInit
<1>2. PICK created : created = Append(order, Idle)
  OBVIOUS
<1>3. /\ created \in Seq(Task) /\ k = AddTasksToReadyLists(Empty, created)
      /\ Empty \in KernelData /\ \A p \in Priorities : End \in Range(Empty.ready[p])
      /\ \A t \in Task : ~Placed(Empty, t) /\ ~OnEvent(Empty, t)
      /\ Empty.pended = 0
  BY <1>1, <1>2, CreatedIs, EmptyOk DEF Started, Empty, DataOk, ListsOk, GenericOk
<1>4. /\ k.delayed = Empty.delayed /\ k.overflow = Empty.overflow
      /\ k.pendingReady = Empty.pendingReady /\ k.waiting = Empty.waiting /\ k.pended = 0
  BY <1>3, AddTasksIs
<1>5. \A t \in Task : t \notin Delayed(k) /\ ~OnEvent(k, t)
  BY <1>3, <1>4 DEF Delayed, OnEvent, Placed
<1>6. /\ pc = [t \in Task |-> IF t \in Startup \cup {Idle} THEN "app" ELSE "new"]
      /\ due = [t \in Task |-> IF Periodic(t) THEN Floor(t) ELSE 0]
  BY DEF KernelInit
<1>7. \A t \in Task : Late(t) = due[t]
  BY <1>4, <1>6, FloorsAre DEF Late
<1>8. ASSUME NEW t \in Task
      PROVE  Timely(t)
  <2>1. /\ due[t] \in Int /\ Floor(t) <= due[t] /\ due[t] <= MaxDelay
        /\ Periodic(t) => due[t] = Floor(t) /\ due[t] <= -TickSpan /\ due[t] <= 0
        /\ TickSpan \in Int
    BY <1>6, FloorsAre
  <2>2. pc[t] \notin {"delay", "until"}
    BY <1>6
  <2> QED
    BY <1>5, <1>7, <2>1, <2>2 DEF Timely
<1>9. due \in [Task -> Int]
  BY <1>6, FloorsAre
<1>10. k.pended <= MaxPended
  BY <1>4, SpanAssumption
<1> QED
  BY <1>8, <1>9, <1>10 DEF TimeInv

(* Every step of the kernel keeps time. *)
LEMMA TimeNext ==
    ASSUME PendedTicksFit, StructInv, TimeInv, [KernelNext]_kernelVars
    PROVE  TimeInv'
<1>0. PlacedOk'
  BY StructNext DEF StructInv
<1>1. CASE Tick
  BY <1>1, TickTimely
<1>2. CASE IdleSuspendAll
  BY <1>2, IdleSuspendAllTimely
<1>3. CASE IdleYield
  BY <1>3, IdleYieldTimely
<1>4. ASSUME NEW t \in Task, KernelStep(t)
      PROVE  TimeInv'
  BY <1>0, <1>4, DelayPlaceTimely, UntilPlaceTimely, ResumeTimely, YieldWithinApiTimely,
     AppResumeAllTimely, DeleteResetTimely, IdleReapTimely DEF KernelStep
<1>5. ASSUME NEW t \in Task, AppStep(t)
      PROVE  TimeInv'
  BY <1>5, YieldTimely, ResyncTimely, AppSuspendAllTimely, DelayTimely, DelayUntilTimely,
     CreateTimely, DeleteTimely DEF AppStep
<1>6. CASE UNCHANGED kernelVars
  BY <1>6, AllStayTimely DEF kernelVars
<1> QED
  BY <1>1, <1>2, <1>3, <1>4, <1>5, <1>6 DEF KernelNext

(* Structure and time are kept together, as long as no suspension        *)
(* outlasts the counter of pended ticks.                                 *)
THEOREM KernelTime == ASSUME PendedTicksFit PROVE KernelSpec => [](StructInv /\ TimeInv)
<1>1. KernelInit => StructInv /\ TimeInv
  BY KernelInitOk, KernelInitTimely
<1>2. StructInv /\ TimeInv /\ [KernelNext]_kernelVars => (StructInv /\ TimeInv)'
  BY StructNext, TimeNext, PendedTicksFit
<1> QED
  BY <1>1, <1>2, PTL DEF KernelSpec

(* A sleeping task wakes at the tick it asked for, across wraps of the   *)
(* tick count and ticks that were pended (vTaskDelay, vTaskDelayUntil,   *)
(* xTaskIncrementTick, xTaskResumeAll), as long as no suspension         *)
(* outlasts the counter of pended ticks.                                 *)
THEOREM DelaysEndOnTime == ASSUME PendedTicksFit PROVE KernelSpec => []SleepersWakeOnTime
<1>1. StructInv /\ TimeInv => SleepersWakeOnTime
  <2> SUFFICES ASSUME StructInv, TimeInv, NEW t \in Delayed(k)
               PROVE  TicksToWake(t) = due[t] + k.pended
    BY DEF SleepersWakeOnTime
  <2>1. t \in Task
    BY SleepersAreAhead DEF StructInv
  <2>2. ToWake(k, t) = due[t] + k.pended
    BY <2>1 DEF TimeInv, Timely, Late
  <2> QED
    BY <2>2 DEF TicksToWake, ToWake
<1> QED
  BY <1>1, KernelTime, PendedTicksFit, PTL

(* Every variable keeps its type, the clocks their bounds included,      *)
(* under the same condition.                                             *)
THEOREM KernelTypes == ASSUME PendedTicksFit PROVE KernelSpec => []KernelTypeOK
<1>1. StructInv /\ TimeInv => KernelTypeOK
  <2> SUFFICES ASSUME StructInv, TimeInv
               PROVE  KernelTypeOK
    OBVIOUS
  <2>1. k \in KernelData
    BY DEF StructInv, DataOk, ListsOk
  <2>2. /\ k.tick \in 0 .. MaxDelay /\ k.nextUnblock \in 0 .. MaxDelay
        /\ k.overflows \in 0 .. OverflowSpan - 1 /\ k.pended \in 0 .. PendedSpan - 1
        /\ k.top \in Priorities /\ k.yieldPending \in BOOLEAN
        /\ k.wakeAt \in [Task -> 0 .. MaxDelay]
    BY <2>1, KernelParts DEF TickType, WakeType
  <2>3. \A p \in Priorities : RingItems(k.ready[p]) \subseteq Task
    BY <2>1, DelayedIs DEF RingItems
  <2>4. \A t \in Task : due[t] \in Floor(t) .. MaxDelay
    BY FloorsAre DEF TimeInv, Timely
  <2> QED
    BY <2>2, <2>3, <2>4 DEF KernelTypeOK, StructInv, PlacesOk, TickType
<1> QED
  BY <1>1, KernelTime, PendedTicksFit, PTL

=============================================================================
