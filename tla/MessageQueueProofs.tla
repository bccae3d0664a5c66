-------------------------- MODULE MessageQueueProofs --------------------------
(***************************************************************************)
(* Proofs about MessageQueue: for every set of tasks, their priorities and *)
(* programs, and every length of the queue, the scheduler is held by one   *)
(* task at a time, only that task has the queue locked, the queue never    *)
(* holds more messages than it has room for, no call gives up before the   *)
(* time it asked for is over, and no wake-up of a receiver or a sender is  *)
(* lost (where no task deletes another, and a reset wakes enough).         *)
(***************************************************************************)
EXTENDS MessageQueue, TaskSchedulerProofs

(* The places where the call of a task can go on after xTaskResumeAll and  *)
(* the yield: the scheduler runs in all of them.                           *)
AfterPlaces == {"app", "reap", "try", "expired"}
FreePlaces == AfterPlaces \cup {"suspend", "yield", "reset", "new", "gone"}
AnyPlace == HeldPlaces \cup FreePlaces

IsCall(c) == "after" \in DOMAIN c /\ c.after \in AfterPlaces

Queues == [count : 0 .. Length, txLock : Unlocked .. MaxLocked,
           rxLock : Unlocked .. MaxLocked]

Typed ==
    /\ pc \in [Task -> AnyPlace]
    /\ call = [t \in Task |-> call[t]]
    /\ \A t \in Task : IsCall(call[t])
    /\ suspended \in {0, 1, 2}
    /\ q \in Queues

(* Only the application itself holds the scheduler twice over.             *)
HeldTwice == suspended = 2 => pc[cur] = "held"

IInv == Typed /\ HeldTwice /\ OneTaskHoldsScheduler

-----------------------------------------------------------------------------
(* What the steps are made of does to the holder of the scheduler.         *)

LEMMA HeldOrFree ==
    /\ \A at \in FreePlaces : at \notin HeldPlaces
    /\ TxLockedPlaces \subseteq RxLockedPlaces
    /\ RxLockedPlaces \subseteq HeldPlaces
<1>1. \A at \in FreePlaces : at \notin HeldPlaces
  BY DEF FreePlaces, AfterPlaces, HeldPlaces
<1>. QED
  BY <1>1 DEF HeldPlaces, RxLockedPlaces, TxLockedPlaces

LEMMA NoCallIsCall == IsCall(NoCall)
BY DEF IsCall, NoCall, AfterPlaces

(* A switch leaves the current task alone while the scheduler is held.     *)
LEMMA SwitchUnderSuspension ==
    ASSUME NEW s, suspended > 0, SwitchContext(s)
    PROVE  cur' = cur
BY DEF SwitchContext

LEMMA SwitchIfUnderSuspension ==
    ASSUME NEW s, NEW b, suspended > 0, SwitchIf(b, s)
    PROVE  cur' = cur
BY SwitchUnderSuspension DEF SwitchIf, Keep

LEMMA ResumeAllCounts ==
    ASSUME NEW y, suspended \in {0, 1, 2}, ResumeAll(y)
    PROVE  /\ suspended' = suspended - 1
           /\ suspended = 2 => cur' = cur
<1>1. suspended' = suspended - 1
  BY DEF ResumeAll
<1>2. ASSUME suspended = 2 PROVE cur' = cur
  BY <1>2 DEF ResumeAll
<1>. QED
  BY <1>1, <1>2

(* A call that moves on keeps the shape of pc and call.                    *)
LEMMA GoToTyped ==
    ASSUME Typed, NEW t \in Task, NEW at \in AnyPlace, NEW c, IsCall(c), NEW d,
           GoToDue(t, at, c, d)
    PROVE  /\ pc' = [pc EXCEPT ![t] = at]
           /\ pc' \in [Task -> AnyPlace]
           /\ call' = [u \in Task |-> call'[u]]
           /\ \A u \in Task : IsCall(call'[u])
<1>1. pc' = [pc EXCEPT ![t] = at] /\ pc' \in [Task -> AnyPlace]
  BY DEF GoToDue, Typed
<1>2. PICK e : IsCall(e) /\ call' = [call EXCEPT ![t] = e]
  BY NoCallIsCall DEF GoToDue
<1>3. call' = [u \in Task |-> IF u = t THEN e ELSE call[u]]
  BY <1>2 DEF Typed
<1>. QED
  BY <1>1, <1>2, <1>3 DEF Typed

-----------------------------------------------------------------------------
(* The four ways in which a step moves the holder of the scheduler.        *)

(* Nobody holds the scheduler, before and after.                           *)
LEMMA NobodyHolds ==
    ASSUME IInv, Typed', suspended = 0, suspended' = 0,
           \A u \in Task : pc'[u] = pc[u] \/ pc'[u] \notin HeldPlaces,
           q'.txLock = q.txLock \/ q'.txLock = Unlocked,
           q'.rxLock = q.rxLock \/ q'.rxLock = Unlocked
    PROVE  IInv'
BY DEF IInv, HeldTwice, OneTaskHoldsScheduler, HeldPlaces, TxLockedPlaces,
       RxLockedPlaces, Unlocked

(* A task takes the scheduler.                                             *)
LEMMA TakesScheduler ==
    ASSUME IInv, Typed', suspended = 0, suspended' = 1, cur' = cur, cur \in Task,
           NEW at \in HeldPlaces \ RxLockedPlaces, pc' = [pc EXCEPT ![cur] = at],
           q' = q
    PROVE  IInv'
BY DEF IInv, Typed, HeldTwice, OneTaskHoldsScheduler, HeldPlaces, TxLockedPlaces,
       RxLockedPlaces, Unlocked

(* The holder moves on.                                                    *)
LEMMA KeepsScheduler ==
    ASSUME IInv, Typed', suspended > 0, suspended' \in {1, 2}, cur' = cur, cur \in Task,
           NEW at \in HeldPlaces, pc' = [pc EXCEPT ![cur] = at],
           suspended' = 2 => at = "held",
           q'.txLock # Unlocked <=> at \in TxLockedPlaces,
           q'.rxLock # Unlocked <=> at \in RxLockedPlaces
    PROVE  IInv'
<1>1. \A u \in Task : u # cur => pc'[u] = pc[u] /\ pc[u] \notin HeldPlaces
  BY DEF IInv, Typed, OneTaskHoldsScheduler
<1>2. pc'[cur] = at
  BY DEF IInv, Typed
<1>3. TxLockedPlaces \subseteq HeldPlaces /\ RxLockedPlaces \subseteq HeldPlaces
  BY DEF TxLockedPlaces, RxLockedPlaces, HeldPlaces
<1>4. HeldTwice'
  BY <1>2 DEF HeldTwice
<1>5. OneTaskHoldsScheduler'
  <2>1. \A u \in Task : pc'[u] \in HeldPlaces => cur' = u /\ suspended' > 0
    BY <1>1
  <2>2. suspended' > 0 => cur' \in Task /\ pc'[cur'] \in HeldPlaces
    BY <1>2
  <2>3. q'.txLock # Unlocked <=> \E u \in Task : pc'[u] \in TxLockedPlaces
    BY <1>1, <1>2, <1>3
  <2>4. q'.rxLock # Unlocked <=> \E u \in Task : pc'[u] \in RxLockedPlaces
    BY <1>1, <1>2, <1>3
  <2>. QED
    BY <2>1, <2>2, <2>3, <2>4 DEF OneTaskHoldsScheduler, HeldPlaces, TxLockedPlaces,
       RxLockedPlaces, Unlocked
<1>. QED
  BY <1>4, <1>5 DEF IInv

(* The holder lets the scheduler go.                                       *)
LEMMA LeavesScheduler ==
    ASSUME IInv, Typed', suspended = 1, suspended' = 0, cur \in Task,
           NEW at \in FreePlaces, pc' = [pc EXCEPT ![cur] = at],
           q' = q, pc[cur] \notin RxLockedPlaces
    PROVE  IInv'
<1>1. \A u \in Task : pc'[u] \notin HeldPlaces /\ pc[u] \notin RxLockedPlaces
  <2>1. at \notin HeldPlaces /\ RxLockedPlaces \subseteq HeldPlaces
    BY HeldOrFree
  <2>. QED
    BY <2>1 DEF IInv, Typed, OneTaskHoldsScheduler
<1>2. TxLockedPlaces \subseteq RxLockedPlaces /\ RxLockedPlaces \subseteq HeldPlaces
  BY HeldOrFree
<1>3. q.txLock = Unlocked /\ q.rxLock = Unlocked
  BY <1>1, <1>2 DEF IInv, OneTaskHoldsScheduler
<1>. QED
  BY <1>1, <1>2, <1>3 DEF IInv, HeldTwice, OneTaskHoldsScheduler

(* The current task is outside the held places: nobody holds the scheduler. *)
LEMMA OutsideIsFree ==
    ASSUME IInv, pc[cur] \notin HeldPlaces
    PROVE  suspended = 0
BY DEF IInv, Typed, OneTaskHoldsScheduler

(* The same four, for a step that moves the call of the current task.      *)
LEMMA MoveFree ==
    ASSUME IInv, NEW t \in Task, cur = t, pc[t] \notin HeldPlaces,
           NEW at \in FreePlaces, NEW c, IsCall(c), NEW d,
           GoToDue(t, at, c, d), suspended' = suspended, q' \in Queues,
           q'.txLock = q.txLock, q'.rxLock = q.rxLock
    PROVE  IInv'
<1>1. suspended = 0
  BY OutsideIsFree
<1>2. pc' = [pc EXCEPT ![t] = at] /\ Typed'
  <2>1. Typed /\ at \in AnyPlace
    BY DEF IInv, AnyPlace
  <2>. QED
    BY <2>1, GoToTyped, <1>1 DEF Typed
<1>3. \A u \in Task : pc'[u] = pc[u] \/ pc'[u] \notin HeldPlaces
  BY <1>2, HeldOrFree DEF IInv, Typed
<1>. QED
  BY <1>1, <1>2, <1>3, NobodyHolds

LEMMA MoveTake ==
    ASSUME IInv, NEW t \in Task, cur = t, pc[t] \notin HeldPlaces,
           NEW at \in HeldPlaces \ RxLockedPlaces, NEW c, IsCall(c), NEW d,
           GoToDue(t, at, c, d), SuspendAll, q' = q
    PROVE  IInv'
<1>1. suspended = 0 /\ suspended' = 1 /\ cur' = cur
  BY OutsideIsFree DEF SuspendAll
<1>2. pc' = [pc EXCEPT ![t] = at] /\ Typed'
  <2>1. Typed /\ at \in AnyPlace
    BY DEF IInv, AnyPlace
  <2>. QED
    BY <2>1, GoToTyped, <1>1 DEF Typed
<1>. QED
  BY <1>1, <1>2, TakesScheduler

LEMMA MoveKeep ==
    ASSUME IInv, NEW t \in Task, cur = t, pc[t] \in HeldPlaces, pc[t] # "held",
           NEW at \in HeldPlaces, NEW c, IsCall(c), NEW d,
           GoToDue(t, at, c, d), suspended' = suspended, cur' = cur, q' \in Queues,
           q'.txLock # Unlocked <=> at \in TxLockedPlaces,
           q'.rxLock # Unlocked <=> at \in RxLockedPlaces
    PROVE  IInv'
<1>1. suspended > 0 /\ suspended' \in {1, 2} /\ (suspended' = 2 => at = "held")
        /\ suspended \in {0, 1, 2} /\ suspended' \in {0, 1, 2}
  BY DEF IInv, Typed, HeldTwice, OneTaskHoldsScheduler
<1>2. pc' = [pc EXCEPT ![t] = at] /\ Typed'
  <2>1. Typed /\ at \in AnyPlace
    BY DEF IInv, AnyPlace
  <2>. QED
    BY <2>1, GoToTyped, <1>1 DEF Typed
<1>. QED
  BY <1>1, <1>2, KeepsScheduler, Zenon

LEMMA MoveLeave ==
    ASSUME IInv, NEW t \in Task, cur = t, pc[t] \in HeldPlaces \ RxLockedPlaces,
           suspended = 1, NEW y, ResumeAll(y),
           NEW at \in FreePlaces, NEW c, IsCall(c), NEW d,
           GoToDue(t, at, c, d), q' = q
    PROVE  IInv'
<1>1. suspended' = 0
  BY ResumeAllCounts
<1>2. pc' = [pc EXCEPT ![t] = at] /\ Typed'
  <2>1. Typed /\ at \in AnyPlace
    BY DEF IInv, AnyPlace
  <2>. QED
    BY <2>1, GoToTyped, <1>1 DEF Typed
<1>. QED
  BY <1>1, <1>2, LeavesScheduler

(* Changing the fields of a call other than its continuation.              *)
LEMMA CallWith ==
    ASSUME NEW c, IsCall(c), NEW x, NEW f \in {"wait", "set", "entering", "over", "force"}
    PROVE  IsCall([c EXCEPT ![f] = x])
BY DEF IsCall

(* The calls of the tasks have their shape, and go on where nobody holds   *)
(* the scheduler.                                                          *)
LEMMA CallsStayCalls ==
    ASSUME IInv, NEW t \in Task
    PROVE  IsCall(call[t]) /\ call[t].after \in FreePlaces
BY DEF IInv, Typed, IsCall, FreePlaces

-----------------------------------------------------------------------------
(* The actions of the scheduler.                                           *)

LEMMA KernelStepKeepsIInv ==
    ASSUME IInv, UNCHANGED q, NEW t \in Task, KernelStep(t)
    PROVE  IInv'
<1>q. q' \in Queues
  BY DEF IInv, Typed
<1>1. CASE DelayPlace(t)
  <2>1. cur = t /\ pc[t] = "delay" /\ cur' = cur /\ suspended' = suspended
    BY <1>1 DEF DelayPlace, Running, Keep
  <2>2. PICK d : GoToDue(t, "resume", [call[t] EXCEPT !.wait = 0], d)
    BY <1>1 DEF DelayPlace
  <2>3. q.txLock = Unlocked /\ q.rxLock = Unlocked
    BY <2>1 DEF IInv, OneTaskHoldsScheduler, HeldPlaces, TxLockedPlaces, RxLockedPlaces
  <2>4. "resume" \in HeldPlaces /\ "resume" \notin TxLockedPlaces
          /\ "resume" \notin RxLockedPlaces /\ pc[t] \in HeldPlaces
    BY <2>1 DEF HeldPlaces, TxLockedPlaces, RxLockedPlaces
  <2>5. IsCall([call[t] EXCEPT !.wait = 0])
    BY CallsStayCalls, CallWith
  <2>. QED
    BY <1>q, <2>1, <2>2, <2>3, <2>4, <2>5, MoveKeep
<1>2. CASE UntilPlace(t)
  <2>1. /\ cur = t /\ pc[t] = "until" /\ cur' = cur /\ suspended' = suspended
        /\ pc' = [pc EXCEPT ![t] = "resume"] /\ call' = call
    BY <1>2 DEF UntilPlace, Running, Keep
  <2>2. q.txLock = Unlocked /\ q.rxLock = Unlocked
    BY <2>1 DEF IInv, OneTaskHoldsScheduler, HeldPlaces, TxLockedPlaces, RxLockedPlaces
  <2>3. Typed'
    <3>1. Typed /\ "resume" \in AnyPlace
      BY DEF IInv, AnyPlace, HeldPlaces
    <3>. QED
      BY <1>q, <2>1, <3>1 DEF Typed
  <2>4. suspended > 0 /\ suspended' \in {1, 2} /\ suspended' # 2
    BY <2>1 DEF IInv, Typed, HeldTwice, OneTaskHoldsScheduler, HeldPlaces
  <2>5. "resume" \in HeldPlaces /\ "resume" \notin TxLockedPlaces
          /\ "resume" \notin RxLockedPlaces
    BY DEF HeldPlaces, TxLockedPlaces, RxLockedPlaces
  <2>6. q'.txLock = Unlocked /\ q'.rxLock = Unlocked
    BY <2>2
  <2>. QED
    BY <2>1, <2>3, <2>4, <2>5, <2>6, KeepsScheduler, Zenon
<1>3. CASE Resume(t)
  <2>. DEFINE at(y) == IF call[t].force /\ ~y THEN "yield" ELSE call[t].after
  <2>1. PICK y : ResumeAll(y) /\ GoToDue(t, at(y), call[t], due[t])
    BY <1>3 DEF Resume, GoTo
  <2>2. cur = t /\ pc[t] = "resume"
    BY <1>3 DEF Resume, Running
  <2>3. suspended = 1 /\ pc[t] \in HeldPlaces \ RxLockedPlaces
    BY <2>2 DEF IInv, Typed, HeldTwice, OneTaskHoldsScheduler, HeldPlaces,
               RxLockedPlaces, TxLockedPlaces
  <2>4. IsCall(call[t]) /\ at(y) \in FreePlaces
    BY CallsStayCalls DEF FreePlaces
  <2>. HIDE DEF at
  <2>. QED
    BY <2>1, <2>2, <2>3, <2>4, MoveLeave
<1>4. CASE YieldWithinApi(t)
  <2>1. cur = t /\ pc[t] = "yield" /\ suspended' = suspended
          /\ GoToDue(t, call[t].after, call[t], due[t])
    BY <1>4 DEF YieldWithinApi, Running, GoTo
  <2>2. pc[t] \notin HeldPlaces
    BY <2>1 DEF HeldPlaces
  <2>. QED
    BY <1>q, <2>1, <2>2, CallsStayCalls, MoveFree
<1>5. CASE AppResumeAll(t)
  <2>1. PICK y : ResumeAll(y)
    BY <1>5 DEF AppResumeAll
  <2>2. cur = t /\ pc[t] \in {"held", "release"}
          /\ GoToDue(t, IF suspended = 1 THEN "app" ELSE "release", NoCall, due[t])
    BY <1>5 DEF AppResumeAll, Running, GoTo
  <2>3. pc[t] \in HeldPlaces \ RxLockedPlaces /\ suspended \in {1, 2}
          /\ "release" \in HeldPlaces \ RxLockedPlaces /\ "app" \in FreePlaces
    <3>1. "app" \in FreePlaces
      BY DEF FreePlaces, AfterPlaces
    <3>. QED
      BY <2>2, <3>1 DEF IInv, Typed, OneTaskHoldsScheduler, HeldPlaces, RxLockedPlaces,
                        TxLockedPlaces
  <2>4. CASE suspended = 1
    <3>1. GoToDue(t, "app", NoCall, due[t])
      BY <2>2, <2>4
    <3>. QED
      BY <2>1, <2>2, <2>3, <2>4, <3>1, NoCallIsCall, MoveLeave
  <2>5. CASE suspended = 2
    <3>1. GoToDue(t, "release", NoCall, due[t])
      BY <2>2, <2>5
    <3>2. suspended' = 1 /\ cur' = cur
      BY <2>1, <2>5, ResumeAllCounts
    <3>3. pc' = [pc EXCEPT ![t] = "release"] /\ Typed'
      <4>1. Typed /\ "release" \in AnyPlace
        BY <2>3 DEF IInv, AnyPlace
      <4>. QED
        BY <4>1, <3>1, <3>2, <1>q, NoCallIsCall, GoToTyped DEF Typed
    <3>4. q.txLock = Unlocked /\ q.rxLock = Unlocked
      BY <2>2, <2>3 DEF IInv, OneTaskHoldsScheduler, HeldPlaces, TxLockedPlaces,
                        RxLockedPlaces
    <3>5. "release" \notin TxLockedPlaces
      BY DEF TxLockedPlaces
    <3>6. suspended > 0 /\ suspended' \in {1, 2} /\ suspended' # 2
      BY <2>5, <3>2
    <3>. QED
      BY <2>2, <2>3, <3>2, <3>3, <3>4, <3>5, <3>6, KeepsScheduler, Zenon
  <2>. QED
    BY <2>3, <2>4, <2>5
<1>6. CASE DeleteReset(t)
  <2>1. cur = t /\ pc[t] = "reset" /\ suspended' = suspended
          /\ GoToDue(t, "app", NoCall, due[t])
    BY <1>6 DEF DeleteReset, Running, GoTo
  <2>2. pc[t] \notin HeldPlaces /\ "app" \in FreePlaces
    BY <2>1 DEF HeldPlaces, FreePlaces, AfterPlaces
  <2>. QED
    BY <1>q, <2>1, <2>2, NoCallIsCall, MoveFree
<1>7. CASE t = Idle /\ IdleReap
  <2>1. cur = t /\ pc[t] = "reap" /\ suspended' = suspended
          /\ pc' = [pc EXCEPT ![t] = "app", ![Head(k.terminated)] = "gone"]
          /\ call' = [call EXCEPT ![t] = NoCall]
    BY <1>7 DEF IdleReap, Running, Keep
  <2>2. suspended = 0 /\ suspended' = 0
    <3>1. pc[cur] \notin HeldPlaces
      BY <2>1 DEF HeldPlaces
    <3>. QED
      BY <2>1, <3>1, OutsideIsFree
  <2>3. pc' \in [Task -> AnyPlace]
          /\ \A u \in Task : pc'[u] = pc[u] \/ pc'[u] \notin HeldPlaces
    <3>1. /\ pc \in [Task -> AnyPlace] /\ "app" \in AnyPlace /\ "gone" \in AnyPlace
          /\ "app" \notin HeldPlaces /\ "gone" \notin HeldPlaces
      BY DEF IInv, Typed, AnyPlace, FreePlaces, AfterPlaces, HeldPlaces
    <3>. QED
      BY <2>1, <3>1
  <2>4. call' = [u \in Task |-> IF u = t THEN NoCall ELSE call[u]]
    BY <2>1 DEF IInv, Typed
  <2>5. Typed'
    BY <1>q, <2>2, <2>3, <2>4, NoCallIsCall DEF IInv, Typed
  <2>. QED
    BY <2>2, <2>3, <2>5, NobodyHolds
<1>. QED
  BY <1>1, <1>2, <1>3, <1>4, <1>5, <1>6, <1>7 DEF KernelStep

(* A step that moves no call and leaves the scheduler alone.               *)
LEMMA StayKeepsIInv ==
    ASSUME IInv, Stay, suspended' = suspended, suspended > 0 => cur' = cur,
           q' \in Queues,
           \/ q'.txLock = q.txLock /\ q'.rxLock = q.rxLock
           \/ suspended = 0 /\ q'.txLock = Unlocked /\ q'.rxLock = Unlocked
    PROVE  IInv'
<1>1. Typed' /\ pc' = pc
  BY DEF IInv, Typed, Stay
<1>2. CASE suspended = 0
  BY <1>1, <1>2, NobodyHolds
<1>3. CASE suspended > 0
  <2>1. cur' = cur /\ q'.txLock = q.txLock /\ q'.rxLock = q.rxLock
    BY <1>3
  <2>. QED
    BY <1>1, <2>1 DEF IInv, HeldTwice, OneTaskHoldsScheduler
<1>. QED
  BY <1>2, <1>3 DEF IInv, Typed

LEMMA AppStepKeepsIInv ==
    ASSUME IInv, UNCHANGED q, NEW t \in Task, AppStep(t)
    PROVE  IInv'
<1>q. q' \in Queues /\ q'.txLock = q.txLock /\ q'.rxLock = q.rxLock
  BY DEF IInv, Typed
<1>a. /\ "app" \notin HeldPlaces
      /\ "held" \in HeldPlaces \ RxLockedPlaces
      /\ "delay" \in HeldPlaces \ RxLockedPlaces
      /\ "until" \in HeldPlaces \ RxLockedPlaces
  BY DEF HeldPlaces, RxLockedPlaces, TxLockedPlaces
<1>1. CASE Yield(t)
  <2>1. Stay /\ suspended' = suspended /\ suspended = 0
    BY <1>1 DEF Yield, Calls
  <2>. QED
    BY <1>q, <2>1, StayKeepsIInv
<1>2. CASE Resync(t)
  <2>1. pc' = pc /\ call' = call /\ suspended = 0 /\ suspended' = suspended
    BY <1>2 DEF Resync, Calls
  <2>2. Typed'
    BY <1>q, <2>1 DEF IInv, Typed
  <2>. QED
    BY <1>q, <2>1, <2>2, NobodyHolds
<1>3. CASE AppSuspendAll(t)
  <2>1. cur = t /\ SuspendAll /\ GoToDue(t, "held", NoCall, due[t])
    BY <1>3 DEF AppSuspendAll, Calls, Running, GoTo
  <2>2. CASE pc[t] = "app"
    BY <1>a, <2>1, <2>2, NoCallIsCall, MoveTake
  <2>3. CASE pc[t] = "held" /\ suspended = 1
    <3>1. /\ suspended > 0 /\ suspended' = 2 /\ suspended' \in {1, 2} /\ cur' = cur
          /\ suspended' \in {0, 1, 2}
      BY <2>1, <2>3 DEF SuspendAll
    <3>2. pc' = [pc EXCEPT ![t] = "held"] /\ Typed'
      <4>1. Typed /\ "held" \in AnyPlace
        BY <1>a DEF IInv, AnyPlace
      <4>. QED
        BY <4>1, <2>1, <3>1, <1>q, NoCallIsCall, GoToTyped DEF Typed
    <3>3. q'.txLock = Unlocked /\ q'.rxLock = Unlocked
      <4>1. "held" \notin RxLockedPlaces
        BY <1>a
      <4>2. \A u \in Task : pc[u] \notin RxLockedPlaces /\ pc[u] \notin TxLockedPlaces
        BY <2>1, <2>3, <4>1, HeldOrFree DEF IInv, OneTaskHoldsScheduler
      <4>. QED
        BY <1>q, <4>2 DEF IInv, OneTaskHoldsScheduler
    <3>4. "held" \notin TxLockedPlaces
      BY DEF TxLockedPlaces
    <3>. QED
      BY <1>a, <2>1, <3>1, <3>2, <3>3, <3>4, KeepsScheduler, Zenon
  <2>. QED
    BY <1>3, <2>2, <2>3 DEF AppSuspendAll, Calls, Running
<1>4. ASSUME NEW wait \in Waits[t], Delay(t, wait)
      PROVE  IInv'
  <2>1. cur = t /\ pc[t] = "app" /\ suspended = 0
    BY <1>4 DEF Delay, Calls, Running
  <2>2. CASE wait = 0
    <3>1. Stay /\ suspended' = suspended
      BY <1>4, <2>2 DEF Delay
    <3>. QED
      BY <1>q, <2>1, <3>1, StayKeepsIInv
  <2>3. CASE wait # 0
    <3>. DEFINE c == [NoCall EXCEPT !.op = "delay", !.wait = wait, !.force = TRUE]
    <3>1. SuspendAll /\ GoToDue(t, "delay", c, due[t])
      BY <1>4, <2>3 DEF Delay, GoTo
    <3>2. IsCall(c)
      BY NoCallIsCall DEF IsCall
    <3>. HIDE DEF c
    <3>. QED
      BY <1>a, <2>1, <3>1, <3>2, MoveTake
  <2>. QED
    BY <2>2, <2>3
<1>5. ASSUME NEW wait \in Waits[t], DelayUntil(t, wait)
      PROVE  IInv'
  <2>. DEFINE c == [NoCall EXCEPT !.op = "until", !.wait = wait, !.force = TRUE]
  <2>1. cur = t /\ pc[t] = "app" /\ SuspendAll /\ GoToDue(t, "until", c, due[t])
    BY <1>5 DEF DelayUntil, Calls, Running, GoTo
  <2>2. IsCall(c)
    BY NoCallIsCall DEF IsCall
  <2>. HIDE DEF c
  <2>. QED
    BY <1>a, <2>1, <2>2, MoveTake
<1>6. ASSUME NEW u \in Task, Create(t, u) \/ Delete(t, u)
      PROVE  IInv'
  <2>. DEFINE at == IF Create(t, u)
                    THEN IF Priority[t] < Priority[u] THEN "yield" ELSE "app"
                    ELSE IF u = t THEN "yield" ELSE "reset"
  <2>1. suspended = 0 /\ suspended' = suspended
    BY <1>6 DEF Create, Delete, Calls
  <2>2. pc' = [pc EXCEPT ![u] = "app", ![t] = at]
    BY <1>6 DEF Create, Delete
  <2>3. at \in {"yield", "app", "reset"}
    OBVIOUS
  <2>. HIDE DEF at
  <2>4. /\ pc' \in [Task -> AnyPlace]
        /\ \A v \in Task : pc'[v] = pc[v] \/ pc'[v] \notin HeldPlaces
    <3>1. "app" \in AnyPlace /\ at \in AnyPlace /\ at \notin HeldPlaces
      BY <2>3 DEF AnyPlace, FreePlaces, AfterPlaces, HeldPlaces
    <3>. QED
      BY <1>a, <2>2, <3>1 DEF IInv, Typed
  <2>5. call' = call \/ call' = [call EXCEPT ![u] = NoCall]
    BY <1>6 DEF Create, Delete
  <2>6. Typed'
    <3>1. Typed
      BY DEF IInv
    <3>2. call' = [v \in Task |-> call'[v]] /\ \A v \in Task : IsCall(call'[v])
      BY <2>5, <3>1, NoCallIsCall DEF Typed
    <3>. QED
      BY <1>q, <2>1, <2>4, <3>1, <3>2 DEF Typed
  <2>. QED
    BY <1>q, <2>1, <2>4, <2>6, NobodyHolds
<1>. QED
  BY <1>1, <1>2, <1>3, <1>4, <1>5, <1>6 DEF AppStep

LEMMA KernelNextKeepsIInv ==
    ASSUME IInv, UNCHANGED q, KernelNext
    PROVE  IInv'
<1>q. q' \in Queues /\ q'.txLock = q.txLock /\ q'.rxLock = q.rxLock
  BY DEF IInv, Typed
<1>1. CASE Tick
  <2>1. suspended' = suspended /\ pc' = pc /\ call' = call
    BY <1>1 DEF Tick
  <2>2. Typed'
    BY <1>q, <2>1 DEF IInv, Typed
  <2>3. CASE suspended > 0
    <3>1. cur' = cur
      BY <1>1, <2>3, SwitchIfUnderSuspension DEF Tick
    <3>. QED
      BY <1>q, <2>1, <2>2, <3>1 DEF IInv, HeldTwice, OneTaskHoldsScheduler
  <2>4. CASE suspended = 0
    BY <1>q, <2>1, <2>2, <2>4, NobodyHolds
  <2>. QED
    BY <2>3, <2>4 DEF IInv, Typed
<1>2. CASE IdleSuspendAll
  <2>. DEFINE c == [NoCall EXCEPT !.after = "reap"]
  <2>1. cur = Idle /\ pc[Idle] = "app" /\ SuspendAll /\ GoToDue(Idle, "resume", c, due[Idle])
    BY <1>2 DEF IdleSuspendAll, Running, GoTo
  <2>2. IsCall(c)
    BY NoCallIsCall DEF IsCall, AfterPlaces
  <2>3. "resume" \in HeldPlaces \ RxLockedPlaces /\ "app" \notin HeldPlaces /\ Idle \in Task
    BY TaskAssumption DEF HeldPlaces, RxLockedPlaces, TxLockedPlaces
  <2>. HIDE DEF c
  <2>. QED
    BY <2>1, <2>2, <2>3, MoveTake
<1>3. CASE IdleYield
  <2>1. suspended' = suspended /\ Stay /\ cur = Idle /\ pc[Idle] = "app"
    BY <1>3 DEF IdleYield, Running
  <2>2. suspended = 0
    <3>1. pc[cur] \notin HeldPlaces
      BY <2>1 DEF HeldPlaces
    <3>. QED
      BY <3>1, OutsideIsFree
  <2>. QED
    BY <1>q, <2>1, <2>2, StayKeepsIInv
<1>. QED
  BY <1>1, <1>2, <1>3, KernelStepKeepsIInv, AppStepKeepsIInv DEF KernelNext

-----------------------------------------------------------------------------
(* The actions of the queue.                                               *)

(* The critical section at the head of the loop.                           *)
LEMMA TryKeepsIInv ==
    ASSUME IInv, NEW t \in Task, cur = t, pc[t] \notin HeldPlaces, suspended' = suspended,
           NEW c, IsCall(c), Try(t, c)
    PROVE  IInv'
<1>1. "app" \in FreePlaces /\ "suspend" \in FreePlaces
  BY DEF FreePlaces, AfterPlaces
<1>2. CASE ~MustWait(c.op) /\ Serve(c.op) /\ GoTo(t, "app", c)
  <2>1. q' \in Queues /\ q'.txLock = q.txLock /\ q'.rxLock = q.rxLock
    <3>1. q \in Queues /\ Length \in Nat \ {0}
      BY QueueAssumption DEF IInv, Typed
    <3>2. PICK n \in 0 .. Length : q' = [q EXCEPT !.count = n]
      <4>1. CASE c.op = "send"
        <5>1. q.count + 1 \in 0 .. Length
          BY <1>2, <3>1, <4>1 DEF MustWait, Queues
        <5>. QED
          BY <1>2, <4>1, <5>1 DEF Serve
      <4>2. CASE c.op = "receive"
        <5>1. q.count - 1 \in 0 .. Length
          BY <1>2, <3>1, <4>2 DEF MustWait, Queues
        <5>. QED
          BY <1>2, <4>2, <5>1 DEF Serve
      <4>3. CASE c.op \notin {"send", "receive"}
        <5>1. q.count \in 0 .. Length
          BY <3>1 DEF Queues
        <5>. QED
          BY <1>2, <4>3, <5>1 DEF Serve
      <4>. QED
        BY <4>1, <4>2, <4>3
    <3>. QED
      BY <3>1, <3>2 DEF Queues
  <2>2. GoToDue(t, "app", c, due[t])
    BY <1>2 DEF GoTo
  <2>. QED
    BY <1>1, <2>1, <2>2, MoveFree
<1>3. CASE /\ q' = q
           /\ \/ GoTo(t, "app", c) \/ GoTo(t, "suspend", c)
              \/ GoToDue(t, "suspend", [c EXCEPT !.set = TRUE, !.entering = k.tick,
                                                 !.over = k.overflows], c.wait)
  <2>1. q' \in Queues /\ q'.txLock = q.txLock /\ q'.rxLock = q.rxLock
    BY <1>3 DEF IInv, Typed
  <2>2. IsCall([c EXCEPT !.set = TRUE, !.entering = k.tick, !.over = k.overflows])
    BY DEF IsCall
  <2>3. \E at \in FreePlaces : \E d, e : IsCall(e) /\ GoToDue(t, at, e, d)
    BY <1>1, <1>3, <2>2 DEF GoTo
  <2>. QED
    BY <2>1, <2>3, MoveFree
<1>. QED
  BY <1>2, <1>3 DEF Try

(* A step between vTaskSuspendAll and xTaskResumeAll.                      *)
LEMMA QueueStepKeepsIInv ==
    ASSUME IInv, NEW t \in Task, QueueStep(t)
    PROVE  IInv'
<1>q. q \in Queues
  BY DEF IInv, Typed
<1>c. IsCall(call[t])
  BY CallsStayCalls
<1>1. CASE Suspend(t)
  <2>1. /\ cur = t /\ pc[t] = "suspend" /\ SuspendAll /\ q' = q
        /\ GoToDue(t, "lock", call[t], due[t])
    BY <1>1 DEF Suspend, Running, GoTo
  <2>2. pc[t] \notin HeldPlaces /\ "lock" \in HeldPlaces \ RxLockedPlaces
    BY <2>1 DEF HeldPlaces, RxLockedPlaces, TxLockedPlaces
  <2>. QED
    BY <1>c, <2>1, <2>2, MoveTake
<1>2. CASE Lock(t)
  <2>1. /\ cur = t /\ pc[t] = "lock" /\ cur' = cur /\ suspended' = suspended
        /\ GoToDue(t, "check", call[t], due[t])
        /\ q' = [q EXCEPT !.txLock = Max({@, LockedUnmodified}),
                          !.rxLock = Max({@, LockedUnmodified})]
    BY <1>2 DEF Lock, Running, GoTo
  <2>2. q.txLock = Unlocked /\ q.rxLock = Unlocked
    BY <2>1 DEF IInv, OneTaskHoldsScheduler, HeldPlaces, TxLockedPlaces, RxLockedPlaces
  <2>3. Max({Unlocked, LockedUnmodified}) = LockedUnmodified
    BY DEF Max, Unlocked, LockedUnmodified
  <2>4. q' \in Queues /\ q'.txLock # Unlocked /\ q'.rxLock # Unlocked
    <3>1. q' = [q EXCEPT !.txLock = LockedUnmodified, !.rxLock = LockedUnmodified]
      BY <2>1, <2>2, <2>3
    <3>2. LockedUnmodified \in Unlocked .. MaxLocked /\ LockedUnmodified # Unlocked
      BY QueueAssumption DEF Unlocked, LockedUnmodified
    <3>. QED
      BY <1>q, <3>1, <3>2 DEF Queues
  <2>5. pc[t] \in HeldPlaces /\ pc[t] # "held" /\ "check" \in HeldPlaces
          /\ "check" \in TxLockedPlaces /\ "check" \in RxLockedPlaces
    BY <2>1 DEF HeldPlaces, RxLockedPlaces, TxLockedPlaces
  <2>. QED
    BY <1>c, <2>1, <2>4, <2>5, MoveKeep
<1>3. CASE Check(t) \/ LookAgain(t) \/ Place(t)
  <2>1. /\ cur = t /\ pc[t] \in {"check", "full", "place"}
        /\ cur' = cur /\ suspended' = suspended /\ q' = q
    BY <1>3 DEF Check, LookAgain, Place, Running, Keep
  <2>2. PICK at, e :
            at \in {"full", "place", "unlockTx"} /\ IsCall(e) /\ GoToDue(t, at, e, due[t])
    <3>1. CASE Check(t)
      <4>1. IsCall(CheckForTimeOut(k, call[t]).call)
        BY <1>c DEF CheckForTimeOut, IsCall
      <4>. DEFINE e == CheckForTimeOut(k, call[t]).call
      <4>. HIDE DEF e
      <4>2. IsCall(e)
        BY <4>1 DEF e
      <4>3. IsCall([e EXCEPT !.after = "expired", !.force = FALSE])
        BY <4>2 DEF IsCall, AfterPlaces
      <4>. QED
        BY <3>1, <4>2, <4>3 DEF Check, GoTo, e
    <3>2. CASE LookAgain(t)
      <4>1. IsCall([call[t] EXCEPT !.after = "try", !.force = FALSE])
        BY <1>c DEF IsCall, AfterPlaces
      <4>. QED
        BY <1>c, <3>2, <4>1 DEF LookAgain, GoTo
    <3>3. CASE Place(t)
      <4>1. IsCall([call[t] EXCEPT !.after = "try", !.force = TRUE])
        BY <1>c DEF IsCall, AfterPlaces
      <4>. QED
        BY <3>3, <4>1 DEF Place, GoTo
    <3>. QED
      BY <1>3, <3>1, <3>2, <3>3
  <2>3. pc[t] \in HeldPlaces /\ pc[t] # "held" /\ pc[t] \in TxLockedPlaces
          /\ pc[t] \in RxLockedPlaces
    BY <2>1 DEF HeldPlaces, RxLockedPlaces, TxLockedPlaces
  <2>4. at \in HeldPlaces /\ at \in TxLockedPlaces /\ at \in RxLockedPlaces
    BY <2>2 DEF HeldPlaces, RxLockedPlaces, TxLockedPlaces
  <2>5. q'.txLock # Unlocked /\ q'.rxLock # Unlocked
    BY <2>1, <2>3 DEF IInv, OneTaskHoldsScheduler
  <2>. QED
    BY <1>q, <2>1, <2>2, <2>3, <2>4, <2>5, MoveKeep
<1>4. CASE UnlockTx(t)
  <2>1. /\ cur = t /\ pc[t] = "unlockTx" /\ cur' = cur /\ suspended' = suspended
        /\ q' = [q EXCEPT !.txLock = Unlocked]
        /\ GoToDue(t, "unlockRx", call[t], due[t])
    BY <1>4 DEF UnlockTx, Running, Keep, GoTo
  <2>2. pc[t] \in HeldPlaces /\ pc[t] # "held" /\ pc[t] \in RxLockedPlaces
          /\ "unlockRx" \in HeldPlaces /\ "unlockRx" \in RxLockedPlaces
          /\ "unlockRx" \notin TxLockedPlaces
    BY <2>1 DEF HeldPlaces, RxLockedPlaces, TxLockedPlaces
  <2>3. q.rxLock # Unlocked
    BY <2>1, <2>2 DEF IInv, OneTaskHoldsScheduler
  <2>4. q' \in Queues /\ q'.txLock = Unlocked /\ q'.rxLock # Unlocked
    BY <1>q, <2>1, <2>3, QueueAssumption DEF Queues, Unlocked
  <2>. QED
    BY <1>c, <2>1, <2>2, <2>4, MoveKeep
<1>5. CASE UnlockRx(t)
  <2>1. /\ cur = t /\ pc[t] = "unlockRx" /\ cur' = cur /\ suspended' = suspended
        /\ q' = [q EXCEPT !.rxLock = Unlocked]
        /\ GoToDue(t, "resume", call[t], due[t])
    BY <1>5 DEF UnlockRx, Running, Keep, GoTo
  <2>2. pc[t] \in HeldPlaces /\ pc[t] # "held" /\ pc[t] \notin TxLockedPlaces
          /\ "resume" \in HeldPlaces /\ "resume" \notin RxLockedPlaces
          /\ "resume" \notin TxLockedPlaces
    BY <2>1 DEF HeldPlaces, RxLockedPlaces, TxLockedPlaces
  <2>3. q.txLock = Unlocked
    <3>1. \A u \in Task : pc[u] \notin TxLockedPlaces
      BY <2>1, <2>2, HeldOrFree DEF IInv, OneTaskHoldsScheduler
    <3>. QED
      BY <3>1 DEF IInv, OneTaskHoldsScheduler
  <2>4. q' \in Queues /\ q'.txLock = Unlocked /\ q'.rxLock = Unlocked
    BY <1>q, <2>1, <2>3, QueueAssumption DEF Queues, Unlocked
  <2>. QED
    BY <1>c, <2>1, <2>2, <2>4, MoveKeep
<1>6. CASE Expire(t)
  <2>1. cur = t /\ pc[t] = "expired" /\ suspended' = suspended /\ q' = q
          /\ GoToDue(t, "app", NoCall, due[t])
    BY <1>6 DEF Expire, Running, GoTo
  <2>2. pc[t] \notin HeldPlaces /\ "app" \in FreePlaces
    BY <2>1 DEF HeldPlaces, FreePlaces, AfterPlaces
  <2>. QED
    BY <1>q, <2>1, <2>2, NoCallIsCall, MoveFree
<1>7. CASE Retry(t)
  <2>1. cur = t /\ pc[t] = "try" /\ suspended' = suspended /\ Try(t, call[t])
    BY <1>7 DEF Retry, Running
  <2>2. pc[t] \notin HeldPlaces
    BY <2>1 DEF HeldPlaces
  <2>. QED
    BY <1>c, <2>1, <2>2, TryKeepsIInv
<1>. QED
  BY <1>1, <1>2, <1>3, <1>4, <1>5, <1>6, <1>7 DEF QueueStep

LEMMA InterruptKeepsIInv ==
    ASSUME IInv, SendFromISR \/ ReceiveFromISR
    PROVE  IInv'
<1>1. Stay /\ suspended' = suspended /\ cur' = cur
  BY DEF SendFromISR, ReceiveFromISR, Keep
<1>q. q \in Queues /\ Length \in Nat /\ MaxLocked \in Nat
  BY QueueAssumption DEF IInv, Typed
<1>2. CASE SendFromISR
  <2>1. q.count + 1 \in 0 .. Length
    BY <1>q, <1>2 DEF SendFromISR, Queues
  <2>2. CASE q.txLock = Unlocked
    BY <1>1, <1>q, <1>2, <2>1, <2>2, StayKeepsIInv DEF SendFromISR, Queues
  <2>3. CASE q.txLock # Unlocked
    <3>1. q' = [q EXCEPT !.count = @ + 1, !.txLock = @ + 1]
      BY <1>2, <2>3 DEF SendFromISR
    <3>2. q.txLock + 1 \in Unlocked .. MaxLocked /\ q.txLock + 1 # Unlocked
      BY <1>q, <1>2, <2>3 DEF SendFromISR, Queues, Unlocked
    <3>3. q' \in Queues /\ q'.txLock # Unlocked /\ q'.rxLock = q.rxLock
      BY <1>q, <2>1, <3>1, <3>2 DEF Queues
    <3>. QED
      BY <1>1, <2>3, <3>3 DEF IInv, Typed, HeldTwice, OneTaskHoldsScheduler, Stay
  <2>. QED
    BY <2>2, <2>3
<1>3. CASE ReceiveFromISR
  <2>1. q.count - 1 \in 0 .. Length
    BY <1>q, <1>3 DEF ReceiveFromISR, Queues
  <2>2. CASE q.rxLock = Unlocked
    BY <1>1, <1>q, <1>3, <2>1, <2>2, StayKeepsIInv DEF ReceiveFromISR, Queues
  <2>3. CASE q.rxLock # Unlocked
    <3>1. q' = [q EXCEPT !.count = @ - 1, !.rxLock = @ + 1]
      BY <1>3, <2>3 DEF ReceiveFromISR
    <3>2. q.rxLock + 1 \in Unlocked .. MaxLocked /\ q.rxLock + 1 # Unlocked
      BY <1>q, <1>3, <2>3 DEF ReceiveFromISR, Queues, Unlocked
    <3>3. q' \in Queues /\ q'.rxLock # Unlocked /\ q'.txLock = q.txLock
      BY <1>q, <2>1, <3>1, <3>2 DEF Queues
    <3>. QED
      BY <1>1, <2>3, <3>3 DEF IInv, Typed, HeldTwice, OneTaskHoldsScheduler, Stay
  <2>. QED
    BY <2>2, <2>3
<1>. QED
  BY <1>2, <1>3

LEMMA ResetKeepsIInv ==
    ASSUME IInv, NEW t \in Task, Reset(t)
    PROVE  IInv'
<1>1. /\ Stay /\ suspended' = suspended /\ suspended = 0
      /\ q' = [count |-> 0, txLock |-> Unlocked, rxLock |-> Unlocked]
  BY DEF Reset, Calls
<1>2. q' \in Queues
  BY <1>1, QueueAssumption DEF Queues, Unlocked
<1>. QED
  BY <1>1, <1>2, StayKeepsIInv

LEMMA StartCallKeepsIInv ==
    ASSUME IInv, NEW t \in Task, NEW op, NEW wait,
           StartCall(t, op, wait)
    PROVE  IInv'
<1>. DEFINE c == [NoCall EXCEPT !.op = op, !.wait = wait]
<1>1. /\ cur = t /\ pc[t] = "app" /\ suspended' = suspended /\ Try(t, c)
  BY DEF StartCall, Calls, Running
<1>2. pc[t] \notin HeldPlaces
  BY <1>1 DEF HeldPlaces
<1>3. IsCall(c)
  BY NoCallIsCall DEF IsCall
<1>. HIDE DEF c
<1>. QED
  BY <1>1, <1>2, <1>3, TryKeepsIInv

-----------------------------------------------------------------------------
(* The invariant.                                                          *)

LEMMA InitIInv == QueueInit => IInv
<1>. SUFFICES ASSUME QueueInit PROVE IInv
  OBVIOUS
<1>1. /\ pc = [t \in Task |-> IF t \in Startup \cup {Idle} THEN "app" ELSE "new"]
      /\ call = [t \in Task |-> NoCall] /\ suspended = 0
      /\ q = [count |-> 0, txLock |-> Unlocked, rxLock |-> Unlocked]
  BY DEF QueueInit, KernelInit
<1>2. {"app", "new"} \subseteq FreePlaces
  BY DEF FreePlaces, AfterPlaces
<1>3. q \in Queues
  BY <1>1, QueueAssumption DEF Queues, Unlocked
<1>4. Typed
  BY <1>1, <1>2, <1>3, NoCallIsCall DEF Typed, AnyPlace
<1>5. \A t \in Task : pc[t] \notin HeldPlaces /\ pc[t] \notin TxLockedPlaces
                        /\ pc[t] \notin RxLockedPlaces
  BY <1>1, <1>2, HeldOrFree
<1>. QED
  BY <1>1, <1>4, <1>5 DEF IInv, HeldTwice, OneTaskHoldsScheduler

LEMMA NextIInv == IInv /\ [QueueNext]_vars => IInv'
<1>. SUFFICES ASSUME IInv, [QueueNext]_vars PROVE IInv'
  OBVIOUS
<1>1. CASE KernelNext /\ UNCHANGED q
  BY <1>1, KernelNextKeepsIInv
<1>2. CASE \E t \in Task : QueueStep(t)
  BY <1>2, QueueStepKeepsIInv
<1>3. CASE \E t \in Task : Reset(t)
  BY <1>3, ResetKeepsIInv
<1>4. CASE \E t \in Task, op \in {"send", "receive", "peek"} :
                \E wait \in Waits[t] : StartCall(t, op, wait)
  BY <1>4, StartCallKeepsIInv
<1>5. CASE SendFromISR \/ ReceiveFromISR
  BY <1>5, InterruptKeepsIInv
<1>6. CASE UNCHANGED vars
  BY <1>6 DEF vars, kernelVars, IInv, Typed, HeldTwice, OneTaskHoldsScheduler
<1>. QED
  BY <1>1, <1>2, <1>3, <1>4, <1>5, <1>6 DEF QueueNext

LEMMA IInvHolds == QueueSpec => []IInv
BY InitIInv, NextIInv, PTL DEF QueueSpec

(* The scheduler is held by one task, the current one, between the         *)
(* vTaskSuspendAll and the xTaskResumeAll of its call, and exactly the     *)
(* task between prvLockQueue and prvUnlockQueue has the queue locked.      *)
THEOREM OneTaskHoldsSchedulerThm == QueueSpec => []OneTaskHoldsScheduler
<1>1. IInv => OneTaskHoldsScheduler
  BY DEF IInv
<1>. QED
  BY <1>1, IInvHolds, PTL

(* The queue never holds more messages than its storage has room for, nor  *)
(* a negative number, and its lock counters count from unlocked upwards.   *)
THEOREM QueueTypeOKThm == QueueSpec => []QueueTypeOK
<1>1. IInv => QueueTypeOK
  BY DEF IInv, Typed, Queues, QueueTypeOK
<1>. QED
  BY <1>1, IInvHolds, PTL
-----------------------------------------------------------------------------
(* The clock of the kernel and the timeouts of the calls.                  *)

(* What the timeouts need of the kernel's data.                            *)
ClockFields == {"ready", "top", "delayed", "overflow", "wakeAt", "nextUnblock",
                "pendingReady", "waiting", "terminated", "tick", "overflows",
                "pended", "yieldPending"}

ClockOk(s) ==
    /\ DOMAIN s = ClockFields
    /\ s.waiting \in EventsType
    /\ s.tick \in 0 .. MaxDelay /\ s.overflows \in Nat /\ s.pended \in 0 .. MaxPended

SameClock(r, s) ==
    /\ DOMAIN r = DOMAIN s
    /\ r.tick = s.tick /\ r.overflows = s.overflows /\ r.pended = s.pended
    /\ s.waiting \in EventsType => r.waiting \in EventsType

(* At least e ticks have been counted since the tick count was entering    *)
(* with over overflows: that is what an elapsed time or a wrap proves.     *)
Elapses(s, entering, over, e) ==
    /\ e >= s.tick - entering
    /\ s.overflows # over \/ s.tick < entering => e >= TickSpan + s.tick - entering

(* A call c whose moment is d ticks away, those pended included, has spent *)
(* its time, or it knows how much of it is left.                           *)
OnTime(s, c, d) ==
    \/ d + s.pended <= 0
    \/ /\ c.wait # 0 /\ c.after # "expired"
       /\ Elapses(s, c.entering, c.over, c.wait - d - s.pended)

CallRecords == [op : Op \cup {"none"}, wait : 0 .. MaxDelay, set : BOOLEAN,
                entering : 0 .. MaxDelay, over : Nat, after : AfterPlaces,
                force : BOOLEAN]

(* The places of a call that has set its timeout, and those where it may   *)
(* be besides.                                                             *)
SetPlaces  == {"suspend", "lock", "check", "full", "place", "try", "expired"}
SomePlaces == {"unlockTx", "unlockRx", "resume", "yield"}

TimedCall(at, c) ==
    /\ at \in SetPlaces \/ c.after \in {"try", "expired"} => c.set
    /\ c.set => /\ c.op \in {"send", "receive", "peek"}
                /\ at \in SetPlaces \cup SomePlaces \cup {"gone"}
                /\ at \in SomePlaces => c.after \in {"try", "expired"}
    /\ at = "expired" => c.after = "expired"

TaskOnTime(s, at, c, d) ==
    /\ TimedCall(at, c)
    /\ c.set /\ at # "gone" => OnTime(s, c, d)
    /\ c.set /\ c.wait = 0 => d <= 0

TimeoutInv ==
    /\ ClockOk(k)
    /\ suspended = 0 => k.pended = 0
    /\ call \in [Task -> CallRecords]
    /\ due \in [Task -> Int]
    /\ \A t \in Task : TaskOnTime(k, pc[t], call[t], due[t])

(* The parts of the kernel that move tasks between lists leave the clock   *)
(* alone.                                                                  *)
LEMMA SameClockChain ==
    ASSUME NEW r, NEW s, NEW u, SameClock(u, r), SameClock(r, s)
    PROVE  SameClock(u, s)
BY DEF SameClock

LEMMA ReadyKeepsClock ==
    ASSUME NEW s, NEW tasks
    PROVE  SameClock(AddTasksToReadyLists(s, tasks), s)
BY DEF SameClock, AddTasksToReadyLists

LEMMA GenericKeepsClock ==
    ASSUME NEW s, NEW tasks
    PROVE  SameClock(RemoveGenericItems(s, tasks), s)
BY DEF SameClock, RemoveGenericItems

LEMMA EventKeepsClock ==
    ASSUME NEW s, NEW tasks
    PROVE  SameClock(RemoveEventItems(s, tasks), s)
<1>1. PICK w : w = [e \in EventList |-> ListRemove(s.waiting[e], tasks)]
  OBVIOUS
<1>2. ASSUME s.waiting \in EventsType PROVE w \in EventsType
  <2>1. ASSUME NEW e \in EventList PROVE ListRemove(s.waiting[e], tasks) \in Seq(Task)
    <3>1. s.waiting[e] \in Seq(Task)
      BY <1>2 DEF EventsType
    <3>. QED
      BY <3>1, ListRemovePicks
  <2>. QED
    BY <1>1, <2>1 DEF EventsType
<1>3. RemoveEventItems(s, tasks) =
        [s EXCEPT !.pendingReady = ListRemove(@, tasks), !.waiting = w]
  BY <1>1 DEF RemoveEventItems
<1>. QED
  BY <1>2, <1>3 DEF SameClock

LEMMA UnblockKeepsClock ==
    ASSUME NEW s, NEW tasks
    PROVE  SameClock(Unblock(s, tasks), s)
<1>1. PICK g : g = RemoveGenericItems(s, Range(tasks))
  OBVIOUS
<1>2. PICK e : e = RemoveEventItems(g, Range(tasks))
  OBVIOUS
<1>3. SameClock(g, s) /\ SameClock(e, g)
  BY <1>1, <1>2, GenericKeepsClock, EventKeepsClock
<1>4. SameClock(AddTasksToReadyLists(e, tasks), e)
  BY ReadyKeepsClock
<1>. QED
  BY <1>1, <1>2, <1>3, <1>4 DEF SameClock, Unblock

LEMMA ResetKeepsClock ==
    ASSUME NEW s
    PROVE  SameClock(ResetNextTaskUnblockTime(s), s)
BY DEF SameClock, ResetNextTaskUnblockTime

LEMMA DelayedKeepsClock ==
    ASSUME NEW s, NEW wake
    PROVE  SameClock(AddCurrentTaskToDelayedList(s, wake), s)
<1>1. PICK g : g = RemoveGenericItems(s, {cur})
  OBVIOUS
<1>2. PICK r : r = [g EXCEPT !.wakeAt[cur] = wake]
  OBVIOUS
<1>3. SameClock(g, s)
  BY <1>1, GenericKeepsClock
<1>4. SameClock(r, g)
  BY <1>2 DEF SameClock
<1>5. AddCurrentTaskToDelayedList(s, wake) =
        IF wake < s.tick
        THEN [r EXCEPT !.overflow = ListInsert(@, cur, r.wakeAt)]
        ELSE [r EXCEPT !.delayed  = ListInsert(@, cur, r.wakeAt),
                       !.nextUnblock = Min({@, wake})]
  BY <1>1, <1>2 DEF AddCurrentTaskToDelayedList
<1>6. SameClock(AddCurrentTaskToDelayedList(s, wake), r)
  BY <1>5 DEF SameClock
<1>. QED
  BY <1>3, <1>4, <1>6 DEF SameClock

LEMMA PlaceKeepsClock ==
    ASSUME NEW s, NEW e, NEW wait, cur \in Task
    PROVE  SameClock(PlaceOnEventList(s, e, wait), s)
<1>. DEFINE order == [t \in Task |-> -Priority[t]]
<1>1. PICK list : list = ListInsert(s.waiting[e], cur, order)
  OBVIOUS
<1>r. PICK r : r = [s EXCEPT !.waiting[e] = list]
  OBVIOUS
<1>i. ASSUME s.waiting \in EventsType
      PROVE  [s.waiting EXCEPT ![e] = list] \in EventsType
  <2>1. CASE e \in EventList
    <3>1. s.waiting[e] \in Seq(Task)
      BY <1>i, <2>1 DEF EventsType
    <3>2. \A t \in Task : order[t] \in Int
      BY TaskAssumption
    <3>. HIDE DEF order
    <3>3. ListInsert(s.waiting[e], cur, order) \in Seq(Task)
      BY <3>1, <3>2, ListInsertIs
    <3>. QED
      BY <1>i, <1>1, <3>3 DEF EventsType
  <2>2. CASE e \notin EventList
    BY <1>i, <2>2 DEF EventsType
  <2>. QED
    BY <2>1, <2>2
<1>2. SameClock(r, s)
  BY <1>r, <1>i DEF SameClock
<1>3. SameClock(AddCurrentTaskToDelayedList(r, (s.tick + wait) % TickSpan), r)
  BY DelayedKeepsClock
<1>4. PlaceOnEventList(s, e, wait) = AddCurrentTaskToDelayedList(r, (s.tick + wait) % TickSpan)
  BY <1>1, <1>r DEF PlaceOnEventList
<1>. QED
  BY <1>2, <1>3, <1>4 DEF SameClock

LEMMA WakeKeepsClock ==
    ASSUME NEW s, NEW e
    PROVE  SameClock(WakeOne(s, e).data, s)
<1>1. CASE s.waiting[e] = << >>
  BY <1>1 DEF WakeOne, SameClock
<1>2. CASE s.waiting[e] # << >>
  <2>1. PICK t : t = Head(s.waiting[e])
    OBVIOUS
  <2>2. PICK r : r = RemoveEventItems(s, {t})
    OBVIOUS
  <2>3. PICK g : g = RemoveGenericItems(r, {t})
    OBVIOUS
  <2>4. PICK w : w = IF suspended = 0 THEN AddTasksToReadyLists(g, << t >>)
                     ELSE [r EXCEPT !.pendingReady = Append(@, t)]
    OBVIOUS
  <2>5. SameClock(r, s) /\ SameClock(g, r)
    BY <2>2, <2>3, EventKeepsClock, GenericKeepsClock
  <2>6. SameClock(w, r)
    <3>1. CASE suspended = 0
      <4>1. SameClock(AddTasksToReadyLists(g, << t >>), g)
        BY ReadyKeepsClock
      <4>. QED
        BY <2>4, <2>5, <3>1, <4>1 DEF SameClock
    <3>2. CASE suspended # 0
      BY <2>4, <3>2 DEF SameClock
    <3>. QED
      BY <3>1, <3>2
  <2>7. WakeOne(s, e).data = [w EXCEPT !.yieldPending = @ \/ Priority[t] > Priority[cur]]
    BY <1>2, <2>1, <2>2, <2>3, <2>4 DEF WakeOne, RemoveFromEventList
  <2>8. SameClock([w EXCEPT !.yieldPending = @ \/ Priority[t] > Priority[cur]], w)
    BY DEF SameClock
  <2>. QED
    BY <2>5, <2>6, <2>7, <2>8 DEF SameClock
<1>. QED
  BY <1>1, <1>2

LEMMA SwitchKeepsClock ==
    ASSUME NEW s, SwitchContext(s)
    PROVE  SameClock(k', s)
<1>1. CASE suspended > 0
  <2>1. k' = [s EXCEPT !.yieldPending = TRUE]
    BY <1>1 DEF SwitchContext
  <2>. QED
    BY <2>1 DEF SameClock
<1>2. CASE ~(suspended > 0)
  <2>1. PICK p : p = TopReady(s)
    OBVIOUS
  <2>2. PICK ring : ring = RingNextOwner(s.ready[p])
    OBVIOUS
  <2>3. k' = [s EXCEPT !.yieldPending = FALSE, !.top = p, !.ready[p] = ring]
    BY <1>2, <2>1, <2>2 DEF SwitchContext
  <2>. QED
    BY <2>3 DEF SameClock
<1>. QED
  BY <1>1, <1>2

LEMMA SwitchIfKeepsClock ==
    ASSUME NEW s, NEW b, SwitchIf(b, s)
    PROVE  SameClock(k', s)
BY SwitchKeepsClock DEF SwitchIf, Keep, SameClock

(* What a tick does to the clock, and what it proves of the time elapsed.  *)
ClockTicks(r, s) ==
    /\ DOMAIN r = DOMAIN s
    /\ r.tick = (s.tick + 1) % TickSpan /\ r.pended = s.pended
    /\ r.waiting \in EventsType
    /\ r.overflows = IF r.tick = 0 THEN (s.overflows + 1) % OverflowSpan ELSE s.overflows

LEMMA IncrementTicksClock ==
    ASSUME NEW s, ClockOk(s)
    PROVE  ClockTicks(IncrementTick(s).data, s)
<1>1. PICK r : r = [s EXCEPT !.tick = (@ + 1) % TickSpan]
  OBVIOUS
<1>2. /\ DOMAIN r = DOMAIN s /\ r.tick = (s.tick + 1) % TickSpan
      /\ r.pended = s.pended /\ r.overflows = s.overflows
      /\ r.waiting \in EventsType
  BY <1>1 DEF ClockOk, ClockFields
<1>3. PICK w : w = IF r.tick = 0 THEN SwitchDelayedLists(r) ELSE r
  OBVIOUS
<1>4. ClockTicks(w, s)
  <2>1. CASE r.tick = 0
    <3>1. PICK x : x = [r EXCEPT !.delayed = r.overflow, !.overflow = r.delayed,
                                 !.overflows = (@ + 1) % OverflowSpan]
      OBVIOUS
    <3>2. /\ DOMAIN x = DOMAIN r /\ x.tick = r.tick /\ x.pended = r.pended
          /\ x.overflows = (r.overflows + 1) % OverflowSpan
          /\ x.waiting \in EventsType
      BY <1>2, <3>1 DEF ClockOk, ClockFields
    <3>3. SameClock(w, x)
      BY <1>3, <2>1, <3>1, ResetKeepsClock DEF SwitchDelayedLists
    <3>. QED
      BY <1>2, <2>1, <3>2, <3>3 DEF ClockTicks, SameClock
  <2>2. CASE r.tick # 0
    BY <1>2, <1>3, <2>2 DEF ClockTicks
  <2>. QED
    BY <2>1, <2>2
<1>5. PICK u : u = IF w.tick < w.nextUnblock THEN w
                   ELSE ResetNextTaskUnblockTime(Unblock(w,
                            IF w.tick < w.nextUnblock THEN << >> ELSE Expired(w)))
  OBVIOUS
<1>6. SameClock(u, w)
  <2>1. PICK b : b = Unblock(w, IF w.tick < w.nextUnblock THEN << >> ELSE Expired(w))
    OBVIOUS
  <2>2. SameClock(b, w)
    BY <2>1, UnblockKeepsClock
  <2>3. SameClock(ResetNextTaskUnblockTime(b), b)
    BY ResetKeepsClock
  <2>. QED
    BY <1>5, <2>1, <2>2, <2>3 DEF SameClock
<1>7. IncrementTick(s).data = u
  BY <1>1, <1>3, <1>5 DEF IncrementTick
<1>. QED
  BY <1>4, <1>6, <1>7 DEF ClockTicks, SameClock

LEMMA TickElapses ==
    ASSUME NEW s, ClockOk(s), NEW r, ClockTicks(r, s)
    PROVE  /\ ClockOk(r)
           /\ \A entering \in 0 .. MaxDelay, over \in Nat, e \in Int :
                Elapses(s, entering, over, e) => Elapses(r, entering, over, e + 1)
<1>1. /\ s.tick \in 0 .. TickSpan - 1 /\ TickSpan \in Nat \ {0, 1}
      /\ s.overflows \in Nat /\ OverflowSpan \in Nat \ {0}
  BY SpanAssumption DEF ClockOk, MaxDelay
<1>2. \/ s.tick < TickSpan - 1 /\ r.tick = s.tick + 1 /\ r.overflows = s.overflows
      \/ s.tick = TickSpan - 1 /\ r.tick = 0
  <2>1. CASE s.tick < TickSpan - 1
    <3>1. (s.tick + 1) % TickSpan = s.tick + 1
      BY <1>1, <2>1
    <3>. QED
      BY <1>1, <2>1, <3>1 DEF ClockTicks
  <2>2. CASE s.tick = TickSpan - 1
    <3>1. (s.tick + 1) % TickSpan = 0
      BY <1>1, <2>2
    <3>. QED
      BY <1>1, <2>2, <3>1 DEF ClockTicks
  <2>. QED
    BY <1>1, <2>1, <2>2
<1>3. ClockOk(r)
  <2>1. r.tick \in 0 .. MaxDelay
    BY <1>1, <1>2 DEF MaxDelay
  <2>2. r.overflows \in Nat
    <3>1. (s.overflows + 1) % OverflowSpan \in Nat
      BY <1>1
    <3>. QED
      BY <1>1, <3>1 DEF ClockTicks
  <2>. QED
    BY <2>1, <2>2 DEF ClockOk, ClockTicks
<1>4. ASSUME NEW entering \in 0 .. MaxDelay, NEW over \in Nat, NEW e \in Int,
             Elapses(s, entering, over, e)
      PROVE  Elapses(r, entering, over, e + 1)
  <2>1. entering \in 0 .. TickSpan - 1
    BY DEF MaxDelay
  <2>. QED
    BY <1>1, <1>2, <1>4, <2>1 DEF Elapses
<1>. QED
  BY <1>3, <1>4

(* n ticks on, the clock has counted n more.                               *)
ClockLater(r, s, n) ==
    /\ ClockOk(r) /\ r.pended = s.pended
    /\ \A entering \in 0 .. MaxDelay, over \in Nat, e \in Int :
            Elapses(s, entering, over, e) => Elapses(r, entering, over, e + n)

LEMMA OneTickElapses ==
    ASSUME NEW s, ClockOk(s)
    PROVE  ClockLater(OneTick(s), s, 1)
<1>1. PICK i : i = IncrementTick(s)
  OBVIOUS
<1>2. ClockTicks(i.data, s)
  BY <1>1, IncrementTicksClock
<1>3. SameClock(OneTick(s), i.data)
  BY <1>1 DEF OneTick, SameClock
<1>4. ClockTicks(OneTick(s), s)
  BY <1>2, <1>3 DEF ClockTicks, SameClock
<1>5. PICK r : r = OneTick(s)
  OBVIOUS
<1>6. /\ ClockOk(r) /\ r.pended = s.pended
      /\ \A entering \in 0 .. MaxDelay, over \in Nat, e \in Int :
            Elapses(s, entering, over, e) => Elapses(r, entering, over, e + 1)
  BY <1>4, <1>5, TickElapses DEF ClockTicks
<1>. QED
  BY <1>5, <1>6 DEF ClockLater

LEMMA LaterAndLater ==
    ASSUME NEW s, NEW r, NEW u, NEW n \in Nat, ClockLater(r, s, n), ClockLater(u, r, 1)
    PROVE  ClockLater(u, s, n + 1)
<1>1. ASSUME NEW entering \in 0 .. MaxDelay, NEW over \in Nat, NEW e \in Int,
             Elapses(s, entering, over, e)
      PROVE  Elapses(u, entering, over, e + (n + 1))
  <2>1. e + n \in Int /\ Elapses(r, entering, over, e + n)
    BY <1>1 DEF ClockLater
  <2>2. Elapses(u, entering, over, (e + n) + 1)
    BY <2>1 DEF ClockLater
  <2>3. (e + n) + 1 = e + (n + 1)
    OBVIOUS
  <2>. QED
    BY <2>2, <2>3
<1>. QED
  BY <1>1 DEF ClockLater

(* The loop of CatchUp comes to an end, whatever the data.                 *)
LEMMA CaughtEnds ==
    ASSUME NEW x, NEW n \in Nat
    PROVE  \A i \in 0 .. n :
                Caught(n, x)[i] = IF i = 0 THEN x ELSE OneTick(Caught(n, x)[i - 1])
<1>. DEFINE IsTurns(f, m) == f = [i \in 0 .. m |-> IF i = 0 THEN x ELSE OneTick(f[i - 1])]
<1>. DEFINE Without == {m \in 0 .. n : ~\E f : IsTurns(f, m)}
<1>1. Without = {}
  <2>1. SUFFICES ASSUME Without # {} PROVE FALSE
    OBVIOUS
  <2>2. PICK m \in Without : \A y \in Without : m <= y
    <3>1. Without \subseteq Nat
      OBVIOUS
    <3>. QED
      BY <2>1, <3>1, NatMin
  <2>3. m # 0
    <3>1. IsTurns([i \in 0 .. 0 |-> x], 0)
      OBVIOUS
    <3>. QED
      BY <3>1
  <2>4. m \in Nat /\ m - 1 \in 0 .. n /\ m - 1 \notin Without
    <3>1. m \in 0 .. n
      BY <2>2
    <3>2. m - 1 \in 0 .. n /\ ~(m <= m - 1)
      BY <2>3, <3>1
    <3>. HIDE DEF Without
    <3>. QED
      BY <2>2, <3>1, <3>2
  <2>5. PICK f : IsTurns(f, m - 1)
    BY <2>4
  <2>. DEFINE g == [i \in 0 .. m |-> IF i = 0 THEN x ELSE OneTick(f[i - 1])]
  <2>6. ASSUME NEW i \in 0 .. m - 1 PROVE g[i] = f[i]
    BY <2>4, <2>5
  <2>7. \A i \in 0 .. m : i # 0 => g[i - 1] = f[i - 1]
    <3>1. ASSUME NEW i \in 0 .. m, i # 0 PROVE g[i - 1] = f[i - 1]
      <4>1. i - 1 \in 0 .. m - 1
        BY <2>4, <3>1
      <4>. HIDE DEF g
      <4>. QED
        BY <2>6, <4>1
    <3>. QED
      BY <3>1
  <2>8. IsTurns(g, m)
    BY <2>7
  <2>. QED
    BY <2>8
<1>2. PICK f : IsTurns(f, n)
  <2>1. n \notin Without
    BY <1>1
  <2>. QED
    BY <2>1
<1>3. IsCaught(f, n, x)
  BY <1>2 DEF IsCaught, OneTick
<1>4. PICK c : c = Caught(n, x)
  OBVIOUS
<1>5. IsCaught(c, n, x)
  BY <1>3, <1>4 DEF Caught, IsCaught
<1>6. c = [i \in 0 .. n |-> IF i = 0 THEN x ELSE OneTick(c[i - 1])]
  BY <1>5 DEF IsCaught, OneTick
<1>7. \A i \in 0 .. n : c[i] = IF i = 0 THEN x ELSE OneTick(c[i - 1])
  BY <1>6
<1>. QED
  BY <1>4, <1>7

(* The loop of CatchUp, for as many ticks.                                 *)
LEMMA CatchUpIsCaught ==
    ASSUME NEW s, NEW n, n = s.pended, NEW m,
           m = [Unblock(s, s.pendingReady) EXCEPT !.yieldPending =
                    @ \/ \E t \in Range(s.pendingReady) : Priority[t] >= Priority[cur]]
    PROVE  CatchUp(s) = [Caught(n, m)[n] EXCEPT !.pended = 0]
BY Zenon DEF CatchUp, Caught

(* xTaskResumeAll counts all the ticks that were pended.                   *)
LEMMA CatchUpElapses ==
    ASSUME NEW s, ClockOk(s)
    PROVE  /\ ClockOk(CatchUp(s)) /\ CatchUp(s).pended = 0
           /\ \A entering \in 0 .. MaxDelay, over \in Nat, e \in Int :
                Elapses(s, entering, over, e) => Elapses(CatchUp(s), entering, over, e + s.pended)
<1>1. PICK n \in Nat : n = s.pended
  BY DEF ClockOk
<1>2. PICK u : u = Unblock(s, s.pendingReady)
  OBVIOUS
<1>3. PICK m : m = [u EXCEPT !.yieldPending =
                        @ \/ \E t \in Range(s.pendingReady) : Priority[t] >= Priority[cur]]
  OBVIOUS
<1>4. SameClock(m, s)
  <2>1. SameClock(u, s)
    BY <1>2, UnblockKeepsClock
  <2>2. SameClock(m, u)
    BY <1>3 DEF SameClock
  <2>. QED
    BY <2>1, <2>2 DEF SameClock
<1>5. PICK f : f = Caught(n, m)
  OBVIOUS
<1>6. \A i \in 0 .. n : f[i] = IF i = 0 THEN m ELSE OneTick(f[i - 1])
  BY <1>5, CaughtEnds
<1>. DEFINE T == {i \in 0 .. n : ClockLater(f[i], m, i)}
<1>7. 0 \in T
  <2>1. ClockOk(m) /\ f[0] = m
    BY <1>4, <1>6 DEF SameClock, ClockOk
  <2>2. ClockLater(m, m, 0)
    BY <2>1 DEF ClockLater
  <2>. QED
    BY <2>1, <2>2
<1>8. ASSUME NEW i \in 1 .. n, i - 1 \in T PROVE i \in T
  <2>1. ClockLater(f[i - 1], m, i - 1) /\ i - 1 \in Nat /\ f[i] = OneTick(f[i - 1])
    BY <1>6, <1>8
  <2>2. ClockLater(f[i], f[i - 1], 1)
    BY <2>1, OneTickElapses DEF ClockLater
  <2>3. ClockLater(f[i], m, (i - 1) + 1)
    BY <2>1, <2>2, LaterAndLater
  <2>4. (i - 1) + 1 = i
    OBVIOUS
  <2>. QED
    BY <2>3, <2>4
<1>. HIDE DEF T
<1>9. n \in T
  BY <1>7, <1>8, SetInduction
<1>10. PICK a : a = f[n]
  OBVIOUS
<1>11. ClockLater(a, m, n)
  BY <1>9, <1>10 DEF T
<1>12. PICK c : c = [a EXCEPT !.pended = 0]
  OBVIOUS
<1>13. c = CatchUp(s)
  <2>1. m = [Unblock(s, s.pendingReady) EXCEPT !.yieldPending =
                @ \/ \E t \in Range(s.pendingReady) : Priority[t] >= Priority[cur]]
    BY <1>2, <1>3
  <2>. QED
    BY <1>1, <1>5, <1>10, <1>12, <2>1, CatchUpIsCaught
<1>14. /\ DOMAIN c = DOMAIN a /\ c.tick = a.tick /\ c.overflows = a.overflows
       /\ c.waiting = a.waiting /\ c.pended = 0
  BY <1>11, <1>12 DEF ClockLater, ClockOk, ClockFields
<1>15. ClockOk(c)
  BY <1>11, <1>14, SpanAssumption DEF ClockLater, ClockOk
<1>16. \A entering \in 0 .. MaxDelay, over \in Nat, e \in Int :
            Elapses(s, entering, over, e) => Elapses(c, entering, over, e + n)
  <2>1. \A entering, over, e : Elapses(s, entering, over, e) <=> Elapses(m, entering, over, e)
    BY <1>4 DEF SameClock, Elapses
  <2>2. \A entering, over, e : Elapses(a, entering, over, e) <=> Elapses(c, entering, over, e)
    BY <1>14 DEF Elapses
  <2>. QED
    BY <1>11, <2>1, <2>2 DEF ClockLater
<1>. QED
  BY <1>1, <1>13, <1>14, <1>15, <1>16

(* The loop of prvUnlockQueue leaves the clock alone, however many tasks   *)
(* it wakes.                                                               *)
WokenSoFar(w, s, e) ==
    CHOOSE after : after = [m \in 0 .. w |-> IF m = 0 THEN s ELSE WakeOne(after[m - 1], e).data]

LEMMA WokenEnds ==
    ASSUME NEW s, NEW e, NEW n \in Nat
    PROVE  \A i \in 0 .. n :
                WokenSoFar(n, s, e)[i] = IF i = 0 THEN s
                                         ELSE WakeOne(WokenSoFar(n, s, e)[i - 1], e).data
<1>. DEFINE IsTurns(f, m) == f = [i \in 0 .. m |-> IF i = 0 THEN s ELSE WakeOne(f[i - 1], e).data]
<1>. DEFINE Without == {m \in 0 .. n : ~\E f : IsTurns(f, m)}
<1>1. Without = {}
  <2>1. SUFFICES ASSUME Without # {} PROVE FALSE
    OBVIOUS
  <2>2. PICK m \in Without : \A y \in Without : m <= y
    <3>1. Without \subseteq Nat
      OBVIOUS
    <3>. QED
      BY <2>1, <3>1, NatMin
  <2>3. m # 0
    <3>1. IsTurns([i \in 0 .. 0 |-> s], 0)
      OBVIOUS
    <3>. QED
      BY <3>1
  <2>4. m \in Nat /\ m - 1 \in 0 .. n /\ m - 1 \notin Without
    <3>1. m \in 0 .. n
      BY <2>2
    <3>2. m - 1 \in 0 .. n /\ ~(m <= m - 1)
      BY <2>3, <3>1
    <3>. HIDE DEF Without
    <3>. QED
      BY <2>2, <3>1, <3>2
  <2>5. PICK f : IsTurns(f, m - 1)
    BY <2>4
  <2>. DEFINE g == [i \in 0 .. m |-> IF i = 0 THEN s ELSE WakeOne(f[i - 1], e).data]
  <2>6. ASSUME NEW i \in 0 .. m - 1 PROVE g[i] = f[i]
    BY <2>4, <2>5
  <2>7. \A i \in 0 .. m : i # 0 => g[i - 1] = f[i - 1]
    <3>1. ASSUME NEW i \in 0 .. m, i # 0 PROVE g[i - 1] = f[i - 1]
      <4>1. i - 1 \in 0 .. m - 1
        BY <2>4, <3>1
      <4>. HIDE DEF g
      <4>. QED
        BY <2>6, <4>1
    <3>. QED
      BY <3>1
  <2>8. IsTurns(g, m)
    BY <2>7
  <2>. QED
    BY <2>8
<1>2. PICK f : IsTurns(f, n)
  <2>1. n \notin Without
    BY <1>1
  <2>. QED
    BY <2>1
<1>3. PICK c : c = WokenSoFar(n, s, e)
  OBVIOUS
<1>4. IsTurns(c, n)
  BY <1>2, <1>3 DEF WokenSoFar
<1>5. \A i \in 0 .. n : c[i] = IF i = 0 THEN s ELSE WakeOne(c[i - 1], e).data
  BY <1>4
<1>. QED
  BY <1>3, <1>5

LEMMA WakeManyKeepsClock ==
    ASSUME NEW s, ClockOk(s), NEW e \in EventList, NEW n \in Nat
    PROVE  SameClock(WakeMany(s, e, n), s)
<1>1. Len(s.waiting[e]) \in Nat
  BY LenProperties DEF ClockOk, EventsType
<1>2. PICK w \in Nat : w = Min({n, Len(s.waiting[e])})
  BY <1>1, MinIs
<1>3. PICK f : f = WokenSoFar(w, s, e)
  OBVIOUS
<1>4. \A i \in 0 .. w : f[i] = IF i = 0 THEN s ELSE WakeOne(f[i - 1], e).data
  BY <1>3, WokenEnds
<1>. DEFINE T == {i \in 0 .. w : SameClock(f[i], s)}
<1>5. 0 \in T
  BY <1>4 DEF SameClock
<1>6. ASSUME NEW i \in 1 .. w, i - 1 \in T PROVE i \in T
  <2>1. SameClock(f[i - 1], s) /\ f[i] = WakeOne(f[i - 1], e).data
    BY <1>4, <1>6
  <2>2. SameClock(f[i], f[i - 1])
    BY <2>1, WakeKeepsClock
  <2>3. SameClock(f[i], s)
    BY <2>1, <2>2, SameClockChain
  <2>. QED
    BY <2>3
<1>. HIDE DEF T
<1>7. w \in T
  BY <1>5, <1>6, SetInduction
<1>8. WakeMany(s, e, n) = f[w]
  BY <1>2, <1>3 DEF WakeMany, WokenSoFar
<1>. QED
  BY <1>7, <1>8 DEF T

-----------------------------------------------------------------------------
(* The timeouts of the calls, step by step.                                *)

(* What a step other than a tick does to the clock: ticks that were pended *)
(* may be counted, none is lost.                                           *)
ClockMoves ==
    /\ ClockOk(k') /\ k'.pended <= k.pended
    /\ suspended' = 0 => k'.pended = 0
    /\ \A entering \in 0 .. MaxDelay, over \in Nat, x \in Int :
            Elapses(k, entering, over, x - k.pended) =>
                Elapses(k', entering, over, x - k'.pended)

LEMMA SameClockMoves ==
    ASSUME ClockOk(k), suspended = 0 => k.pended = 0, SameClock(k', k),
           suspended' = 0 => suspended = 0
    PROVE  ClockMoves
<1>1. ClockOk(k')
  BY DEF SameClock, ClockOk
<1>2. k.pended \in Nat /\ k'.pended = k.pended
  BY DEF ClockOk, SameClock
<1>3. \A entering, over, e : Elapses(k, entering, over, e) <=> Elapses(k', entering, over, e)
  BY DEF SameClock, Elapses
<1>. QED
  BY <1>1, <1>2, <1>3 DEF ClockMoves

LEMMA ResumeAllMoves ==
    ASSUME ClockOk(k), suspended \in {1, 2}, NEW y, ResumeAll(y)
    PROVE  ClockMoves
<1>1. CASE suspended = 2
  <2>1. k' = k /\ suspended' = 1
    BY <1>1 DEF ResumeAll
  <2>. QED
    BY <1>1, <2>1, SameClockMoves DEF SameClock
<1>2. CASE suspended = 1
  <2>1. PICK s : s = CatchUp(k)
    OBVIOUS
  <2>2. /\ ClockOk(s) /\ s.pended = 0
        /\ \A entering \in 0 .. MaxDelay, over \in Nat, e \in Int :
            Elapses(k, entering, over, e) => Elapses(s, entering, over, e + k.pended)
    BY <2>1, CatchUpElapses
  <2>3. SameClock(k', s)
    <3>1. CASE y
      <4>1. PICK p : p = TopReady(s)
        OBVIOUS
      <4>2. PICK ring : ring = RingNextOwner(s.ready[p])
        OBVIOUS
      <4>3. k' = [s EXCEPT !.yieldPending = FALSE, !.top = p, !.ready[p] = ring]
        BY <1>2, <2>1, <3>1, <4>1, <4>2 DEF ResumeAll
      <4>. QED
        BY <4>3 DEF SameClock
    <3>2. CASE ~y
      BY <1>2, <2>1, <3>2 DEF ResumeAll, Keep, SameClock
    <3>. QED
      BY <3>1, <3>2
  <2>4. ClockOk(k') /\ k'.pended = 0 /\ k.pended \in Nat
    BY <2>2, <2>3 DEF SameClock, ClockOk
  <2>5. \A entering, over, e : Elapses(k', entering, over, e) <=> Elapses(s, entering, over, e)
    BY <2>3 DEF SameClock, Elapses
  <2>6. ASSUME NEW entering \in 0 .. MaxDelay, NEW over \in Nat, NEW x \in Int,
               Elapses(k, entering, over, x - k.pended)
        PROVE  Elapses(k', entering, over, x - k'.pended)
    <3>1. x - k.pended \in Int /\ (x - k.pended) + k.pended = x - k'.pended
      BY <2>4
    <3>2. Elapses(s, entering, over, (x - k.pended) + k.pended)
      BY <2>2, <2>6, <3>1
    <3>. QED
      BY <2>5, <3>1, <3>2
  <2>. QED
    BY <2>4, <2>6 DEF ClockMoves
<1>. QED
  BY <1>1, <1>2

(* A call that does nothing stays on time.                                 *)
LEMMA StaysOnTime ==
    ASSUME ClockOk(k), ClockMoves, NEW at, NEW c \in CallRecords, NEW d \in Int,
           TaskOnTime(k, at, c, d)
    PROVE  TaskOnTime(k', at, c, d)
<1>1. /\ c.wait \in Int /\ c.entering \in 0 .. MaxDelay /\ c.over \in Nat
      /\ k.pended \in Nat /\ k'.pended \in Nat /\ k'.pended <= k.pended
  BY SpanAssumption DEF CallRecords, ClockOk, ClockMoves, MaxDelay
<1>2. ASSUME OnTime(k, c, d) PROVE OnTime(k', c, d)
  <2>1. CASE d + k.pended <= 0
    BY <1>1, <2>1 DEF OnTime
  <2>2. CASE /\ c.wait # 0 /\ c.after # "expired"
             /\ Elapses(k, c.entering, c.over, c.wait - d - k.pended)
    <3>1. PICK x \in Int : x = c.wait - d
      BY <1>1
    <3>2. Elapses(k', c.entering, c.over, x - k'.pended)
      BY <1>1, <2>2, <3>1 DEF ClockMoves
    <3>. QED
      BY <2>2, <3>1, <3>2 DEF OnTime
  <2>. QED
    BY <1>2, <2>1, <2>2 DEF OnTime
<1>. QED
  BY <1>2 DEF TaskOnTime

LEMMA NoCallRecord ==
    /\ NoCall \in CallRecords /\ ~NoCall.set /\ NoCall.after = "app" /\ NoCall.op = "none"
    /\ 0 \in 0 .. MaxDelay
<1>1. 0 \in 0 .. MaxDelay
  BY SpanAssumption DEF MaxDelay
<1>. QED
  BY <1>1 DEF NoCall, CallRecords, AfterPlaces

(* A call without a timeout is never late.                                 *)
LEMMA FreeOnTime ==
    ASSUME NEW s, NEW at, at \notin SetPlaces, NEW c, NEW d, ~c.set,
           c.after \notin {"try", "expired"}
    PROVE  TaskOnTime(s, at, c, d)
BY DEF TaskOnTime, TimedCall, SetPlaces

LEMMA NoTimeout ==
    ASSUME TimeoutInv, NEW t \in Task, pc[t] \notin SetPlaces \cup SomePlaces \cup {"gone"}
    PROVE  ~call[t].set /\ call[t].after \notin {"try", "expired"}
BY DEF TimeoutInv, TaskOnTime, TimedCall

(* One task moves on, and the others are still on time.                    *)
LEMMA OneMoves ==
    ASSUME IInv, TimeoutInv, ClockMoves, NEW t \in Task,
           NEW at, pc' = [pc EXCEPT ![t] = at],
           NEW c \in CallRecords, call' = [call EXCEPT ![t] = c],
           NEW d \in Int, due' = [due EXCEPT ![t] = d], TaskOnTime(k', at, c, d)
    PROVE  TimeoutInv'
<1>1. /\ pc'[t] = at /\ call'[t] = c /\ due'[t] = d
      /\ \A u \in Task \ {t} : pc'[u] = pc[u] /\ call'[u] = call[u] /\ due'[u] = due[u]
  BY DEF IInv, Typed, TimeoutInv
<1>2. call' \in [Task -> CallRecords] /\ due' \in [Task -> Int]
  BY DEF TimeoutInv
<1>3. ASSUME NEW u \in Task PROVE TaskOnTime(k', pc'[u], call'[u], due'[u])
  <2>1. CASE u = t
    BY <1>1, <2>1
  <2>2. CASE u # t
    <3>1. TaskOnTime(k, pc[u], call[u], due[u]) /\ call[u] \in CallRecords /\ due[u] \in Int
            /\ ClockOk(k)
      BY DEF TimeoutInv
    <3>2. TaskOnTime(k', pc[u], call[u], due[u])
      BY <3>1, StaysOnTime
    <3>. QED
      BY <1>1, <2>2, <3>2
  <2>. QED
    BY <2>1, <2>2
<1>4. ClockOk(k') /\ (suspended' = 0 => k'.pended = 0)
  BY DEF ClockMoves
<1>. QED
  BY <1>2, <1>3, <1>4 DEF TimeoutInv

LEMMA GoToOnTime ==
    ASSUME IInv, TimeoutInv, ClockMoves, NEW t \in Task, NEW at, NEW c \in CallRecords,
           NEW d \in Int, GoToDue(t, at, c, d),
           \/ at = "app" /\ c.op \notin {"delay", "until"}
           \/ TaskOnTime(k', at, c, d)
    PROVE  TimeoutInv'
<1>. DEFINE over == at = "app" /\ c.op \notin {"delay", "until"}
<1>1. CASE over
  <2>1. PICK x \in Int : x = IF ~Periodic(t) THEN 0 ELSE d
    OBVIOUS
  <2>2. /\ pc' = [pc EXCEPT ![t] = "app"] /\ call' = [call EXCEPT ![t] = NoCall]
        /\ due' = [due EXCEPT ![t] = x]
    BY <1>1, <2>1 DEF GoToDue
  <2>3. TaskOnTime(k', "app", NoCall, x)
    BY FreeOnTime, NoCallRecord DEF SetPlaces
  <2>. QED
    BY <2>2, <2>3, OneMoves, NoCallRecord
<1>2. CASE ~over
  <2>1. /\ pc' = [pc EXCEPT ![t] = at] /\ call' = [call EXCEPT ![t] = c]
        /\ due' = [due EXCEPT ![t] = d]
    BY <1>2 DEF GoToDue
  <2>. QED
    BY <1>2, <2>1, OneMoves
<1>. QED
  BY <1>1, <1>2

(* No task moves on.                                                       *)
LEMMA AllStay ==
    ASSUME TimeoutInv, ClockMoves, Stay
    PROVE  TimeoutInv'
<1>1. ASSUME NEW u \in Task PROVE TaskOnTime(k', pc'[u], call'[u], due'[u])
  <2>1. TaskOnTime(k, pc[u], call[u], due[u]) /\ call[u] \in CallRecords /\ due[u] \in Int
          /\ ClockOk(k)
    BY DEF TimeoutInv
  <2>2. TaskOnTime(k', pc[u], call[u], due[u])
    BY <2>1, StaysOnTime
  <2>. QED
    BY <2>2 DEF Stay
<1>. QED
  BY <1>1 DEF TimeoutInv, Stay, ClockMoves

LEMMA StillMoves ==
    ASSUME TimeoutInv, SameClock(k', k), suspended' = suspended \/ suspended' = suspended + 1,
           suspended \in {0, 1, 2}
    PROVE  ClockMoves
<1>1. ClockOk(k) /\ (suspended = 0 => k.pended = 0)
  BY DEF TimeoutInv
<1>2. suspended' = 0 => suspended = 0
  OBVIOUS
<1>. QED
  BY <1>1, <1>2, SameClockMoves

LEMMA Suspensions == IInv => suspended \in {0, 1, 2}
BY DEF IInv, Typed

LEMMA SuspendMoves ==
    ASSUME IInv, TimeoutInv, SuspendAll
    PROVE  ClockMoves
BY StillMoves, Suspensions DEF SuspendAll, SameClock

LEMMA TaskOfInv ==
    ASSUME TimeoutInv, NEW t \in Task
    PROVE  /\ call[t] \in CallRecords /\ due[t] \in Int /\ ClockOk(k)
           /\ TaskOnTime(k, pc[t], call[t], due[t])
BY DEF TimeoutInv

LEMMA KernelStepKeepsTimeouts ==
    ASSUME IInv, TimeoutInv, NEW t \in Task, KernelStep(t)
    PROVE  TimeoutInv'
<1>c. /\ call[t] \in CallRecords /\ due[t] \in Int /\ ClockOk(k)
      /\ TaskOnTime(k, pc[t], call[t], due[t])
  BY TaskOfInv
<1>s. suspended \in {0, 1, 2}
  BY Suspensions
<1>1. CASE DelayPlace(t)
  <2>1. PICK wake : k' = AddCurrentTaskToDelayedList(k, wake)
    BY <1>1 DEF DelayPlace, Keep
  <2>2. ClockMoves
    <3>1. SameClock(k', k)
      BY <2>1, DelayedKeepsClock
    <3>. QED
      BY <1>1, <1>s, <3>1, StillMoves DEF DelayPlace
  <2>3. ~call[t].set /\ call[t].after \notin {"try", "expired"}
    <3>1. pc[t] = "delay"
      BY <1>1 DEF DelayPlace, Running
    <3>. QED
      BY <3>1, NoTimeout DEF SetPlaces, SomePlaces
  <2>4. PICK c : c = [call[t] EXCEPT !.wait = 0]
    OBVIOUS
  <2>5. c \in CallRecords /\ ~c.set /\ c.after \notin {"try", "expired"}
    BY <1>c, <2>3, <2>4, NoCallRecord DEF CallRecords
  <2>6. PICK d \in Int : d = call[t].wait - k.pended
    BY <1>c, SpanAssumption DEF CallRecords, ClockOk, MaxDelay
  <2>7. GoToDue(t, "resume", c, d)
    BY <1>1, <2>4, <2>6 DEF DelayPlace
  <2>8. TaskOnTime(k', "resume", c, d)
    BY <2>5, FreeOnTime DEF SetPlaces
  <2>. QED
    BY <2>2, <2>5, <2>7, <2>8, GoToOnTime
<1>2. CASE UntilPlace(t)
  <2>1. ClockMoves
    <3>1. PICK wake : k' = AddCurrentTaskToDelayedList(k, wake) \/ k' = k
      BY <1>2 DEF UntilPlace, Keep
    <3>2. SameClock(k', k)
      BY <3>1, DelayedKeepsClock DEF SameClock
    <3>. QED
      BY <1>2, <1>s, <3>2, StillMoves DEF UntilPlace
  <2>2. ~call[t].set /\ call[t].after \notin {"try", "expired"}
    <3>1. pc[t] = "until"
      BY <1>2 DEF UntilPlace, Running
    <3>. QED
      BY <3>1, NoTimeout DEF SetPlaces, SomePlaces
  <2>3. PICK d \in Int : d = due[t] + call[t].wait
    BY <1>c, SpanAssumption DEF CallRecords, MaxDelay
  <2>4. /\ pc' = [pc EXCEPT ![t] = "resume"] /\ call' = [call EXCEPT ![t] = call[t]]
        /\ due' = [due EXCEPT ![t] = d]
    <3>1. call = [call EXCEPT ![t] = call[t]]
      BY DEF TimeoutInv
    <3>. QED
      BY <1>2, <2>3, <3>1 DEF UntilPlace
  <2>5. TaskOnTime(k', "resume", call[t], d)
    BY <2>2, FreeOnTime DEF SetPlaces
  <2>. QED
    BY <1>c, <2>1, <2>4, <2>5, OneMoves
<1>3. CASE Resume(t)
  <2>1. PICK y \in BOOLEAN : ResumeAll(y) /\
            GoTo(t, IF call[t].force /\ ~y THEN "yield" ELSE call[t].after, call[t])
    BY <1>3 DEF Resume
  <2>2. ClockMoves
    <3>1. pc[t] = "resume" /\ "resume" \in HeldPlaces
      BY <1>3 DEF Resume, Running, HeldPlaces
    <3>2. suspended > 0
      BY <3>1 DEF IInv, OneTaskHoldsScheduler
    <3>. QED
      BY <1>c, <1>s, <2>1, <3>2, ResumeAllMoves
  <2>3. TaskOnTime(k', "resume", call[t], due[t])
    <3>1. pc[t] = "resume"
      BY <1>3 DEF Resume, Running
    <3>. QED
      BY <1>c, <2>2, <3>1, StaysOnTime
  <2>4. PICK at : at = IF call[t].force /\ ~y THEN "yield" ELSE call[t].after
    OBVIOUS
  <2>5. TaskOnTime(k', at, call[t], due[t])
    <3>1. at \in {"yield", call[t].after} /\ call[t].after \in AfterPlaces
      BY <1>c, <2>4 DEF CallRecords
    <3>. QED
      BY <2>3, <3>1 DEF TaskOnTime, TimedCall, SetPlaces, SomePlaces, AfterPlaces
  <2>. QED
    BY <1>c, <2>1, <2>2, <2>4, <2>5, GoToOnTime DEF GoTo
<1>4. CASE YieldWithinApi(t)
  <2>1. ClockMoves
    <3>1. SameClock(k', k)
      BY <1>4, SwitchKeepsClock DEF YieldWithinApi
    <3>. QED
      BY <1>4, <1>s, <3>1, StillMoves DEF YieldWithinApi
  <2>2. TaskOnTime(k', "yield", call[t], due[t])
    <3>1. pc[t] = "yield"
      BY <1>4 DEF YieldWithinApi, Running
    <3>. QED
      BY <1>c, <2>1, <3>1, StaysOnTime
  <2>3. TaskOnTime(k', call[t].after, call[t], due[t])
    <3>1. call[t].after \in AfterPlaces
      BY <1>c DEF CallRecords
    <3>. QED
      BY <2>2, <3>1 DEF TaskOnTime, TimedCall, SetPlaces, SomePlaces, AfterPlaces
  <2>. QED
    BY <1>4, <1>c, <2>1, <2>3, GoToOnTime DEF YieldWithinApi, GoTo
<1>5. CASE AppResumeAll(t)
  <2>1. PICK y \in BOOLEAN : ResumeAll(y)
    BY <1>5 DEF AppResumeAll
  <2>2. ClockMoves
    <3>1. pc[t] \in HeldPlaces
      BY <1>5 DEF AppResumeAll, Running, HeldPlaces
    <3>2. suspended > 0
      BY <3>1 DEF IInv, OneTaskHoldsScheduler
    <3>. QED
      BY <1>c, <1>s, <2>1, <3>2, ResumeAllMoves
  <2>3. PICK at : at \in {"app", "release"} /\ GoToDue(t, at, NoCall, due[t])
    BY <1>5 DEF AppResumeAll, GoTo
  <2>4. TaskOnTime(k', at, NoCall, due[t])
    BY <2>3, FreeOnTime, NoCallRecord DEF SetPlaces
  <2>. QED
    BY <1>c, <2>2, <2>3, <2>4, NoCallRecord, GoToOnTime
<1>6. CASE DeleteReset(t)
  <2>1. ClockMoves
    <3>1. SameClock(k', k)
      BY <1>6, ResetKeepsClock DEF DeleteReset, Keep
    <3>. QED
      BY <1>6, <1>s, <3>1, StillMoves DEF DeleteReset
  <2>2. GoToDue(t, "app", NoCall, due[t])
    BY <1>6 DEF DeleteReset, GoTo
  <2>. QED
    BY <1>c, <2>1, <2>2, NoCallRecord, GoToOnTime
<1>7. CASE t = Idle /\ IdleReap
  <2>1. ClockMoves
    <3>1. SameClock(k', k)
      BY <1>7 DEF IdleReap, Keep, SameClock
    <3>. QED
      BY <1>7, <1>s, <3>1, StillMoves DEF IdleReap
  <2>2. PICK h : h = Head(k.terminated)
    OBVIOUS
  <2>3. /\ pc' = [pc EXCEPT ![Idle] = "app", ![h] = "gone"]
        /\ call' = [call EXCEPT ![Idle] = NoCall] /\ due' = due
    BY <1>7, <2>2 DEF IdleReap
  <2>4. ASSUME NEW u \in Task PROVE TaskOnTime(k', pc'[u], call'[u], due'[u])
    <3>1. TaskOnTime(k, pc[u], call[u], due[u]) /\ call[u] \in CallRecords /\ due[u] \in Int
      BY TaskOfInv
    <3>2. TaskOnTime(k', pc[u], call[u], due[u])
      BY <1>c, <2>1, <3>1, StaysOnTime
    <3>3. CASE u = Idle
      <4>1. call'[u] = NoCall /\ pc'[u] \in {"app", "gone"}
        BY <2>3, <3>3 DEF IInv, Typed, TimeoutInv
      <4>. QED
        BY <4>1, FreeOnTime, NoCallRecord DEF SetPlaces
    <3>4. CASE u # Idle /\ u = h
      <4>1. pc'[u] = "gone" /\ call'[u] = call[u] /\ due'[u] = due[u]
        BY <2>3, <3>4 DEF IInv, Typed, TimeoutInv
      <4>2. TaskOnTime(k', "gone", call[u], due[u])
        BY <3>2 DEF TaskOnTime, TimedCall, SetPlaces, SomePlaces
      <4>. QED
        BY <4>1, <4>2
    <3>5. CASE u # Idle /\ u # h
      <4>1. pc'[u] = pc[u] /\ call'[u] = call[u] /\ due'[u] = due[u]
        BY <2>3, <3>5 DEF IInv, Typed, TimeoutInv
      <4>. QED
        BY <3>2, <4>1
    <3>. QED
      BY <3>3, <3>4, <3>5
  <2>5. call' \in [Task -> CallRecords] /\ due' \in [Task -> Int]
    BY <2>3, NoCallRecord DEF TimeoutInv
  <2>. QED
    BY <2>1, <2>4, <2>5 DEF TimeoutInv, ClockMoves
<1>. QED
  BY <1>1, <1>2, <1>3, <1>4, <1>5, <1>6, <1>7 DEF KernelStep

LEMMA AppStepKeepsTimeouts ==
    ASSUME IInv, TimeoutInv, NEW t \in Task, AppStep(t)
    PROVE  TimeoutInv'
<1>c. call[t] \in CallRecords /\ due[t] \in Int /\ ClockOk(k)
  BY TaskOfInv
<1>s. suspended \in {0, 1, 2}
  BY Suspensions
<1>f. pc[t] = "app" => ~call[t].set /\ call[t].after \notin {"try", "expired"}
  BY NoTimeout DEF SetPlaces, SomePlaces
<1>1. CASE Yield(t)
  <2>1. ClockMoves
    <3>1. SameClock(k', k)
      BY <1>1, SwitchKeepsClock DEF Yield
    <3>. QED
      BY <1>1, <1>s, <3>1, StillMoves DEF Yield
  <2>. QED
    BY <1>1, <2>1, AllStay DEF Yield
<1>2. CASE Resync(t)
  <2>1. ClockMoves
    <3>1. SameClock(k', k)
      BY <1>2 DEF Resync, SameClock
    <3>. QED
      BY <1>2, <1>s, <3>1, StillMoves DEF Resync
  <2>2. pc[t] = "app"
    BY <1>2 DEF Resync, Calls, Running
  <2>d. PICK d \in Int : d = 0
    OBVIOUS
  <2>3. /\ pc' = [pc EXCEPT ![t] = "app"] /\ call' = [call EXCEPT ![t] = call[t]]
        /\ due' = [due EXCEPT ![t] = d]
    BY <1>2, <2>2, <2>d DEF Resync, TimeoutInv, IInv, Typed
  <2>4. TaskOnTime(k', "app", call[t], d)
    BY <1>f, <2>2, FreeOnTime DEF SetPlaces
  <2>. QED
    BY <1>c, <2>1, <2>3, <2>4, OneMoves
<1>3. CASE AppSuspendAll(t)
  <2>1. ClockMoves /\ GoToDue(t, "held", NoCall, due[t])
    BY <1>3, SuspendMoves DEF AppSuspendAll, GoTo
  <2>2. TaskOnTime(k', "held", NoCall, due[t])
    BY FreeOnTime, NoCallRecord DEF SetPlaces
  <2>. QED
    BY <1>c, <2>1, <2>2, NoCallRecord, GoToOnTime
<1>4. ASSUME NEW wait \in Waits[t], Delay(t, wait)
      PROVE  TimeoutInv'
  <2>1. CASE wait = 0
    <3>1. ClockMoves
      <4>1. SameClock(k', k)
        BY <1>4, <2>1, SwitchKeepsClock DEF Delay
      <4>. QED
        BY <1>4, <2>1, <1>s, <4>1, StillMoves DEF Delay
    <3>. QED
      BY <1>4, <2>1, <3>1, AllStay DEF Delay
  <2>2. CASE wait # 0
    <3>1. PICK c : c = [NoCall EXCEPT !.op = "delay", !.wait = wait, !.force = TRUE]
      OBVIOUS
    <3>2. c \in CallRecords /\ ~c.set /\ c.after = "app"
      <4>1. wait \in 0 .. MaxDelay
        BY SpanAssumption
      <4>. QED
        BY <3>1, <4>1, NoCallRecord DEF NoCall, CallRecords, AfterPlaces, Op
    <3>3. ClockMoves /\ GoToDue(t, "delay", c, due[t])
      BY <1>4, <2>2, <3>1, SuspendMoves DEF Delay, GoTo
    <3>4. TaskOnTime(k', "delay", c, due[t])
      BY <3>2, FreeOnTime DEF SetPlaces
    <3>. QED
      BY <1>c, <3>2, <3>3, <3>4, GoToOnTime
  <2>. QED
    BY <2>1, <2>2
<1>5. ASSUME NEW wait \in Waits[t], DelayUntil(t, wait)
      PROVE  TimeoutInv'
  <2>1. PICK c : c = [NoCall EXCEPT !.op = "until", !.wait = wait, !.force = TRUE]
    OBVIOUS
  <2>2. c \in CallRecords /\ ~c.set /\ c.after = "app"
    <3>1. wait \in 0 .. MaxDelay
      BY SpanAssumption
    <3>. QED
      BY <2>1, <3>1, NoCallRecord DEF NoCall, CallRecords, AfterPlaces, Op
  <2>3. ClockMoves /\ GoToDue(t, "until", c, due[t])
    BY <1>5, <2>1, SuspendMoves DEF DelayUntil, GoTo
  <2>4. TaskOnTime(k', "until", c, due[t])
    BY <2>2, FreeOnTime DEF SetPlaces
  <2>. QED
    BY <1>c, <2>2, <2>3, <2>4, GoToOnTime
<1>6. ASSUME NEW u \in Task, Create(t, u)
      PROVE  TimeoutInv'
  <2>1. ClockMoves
    <3>1. SameClock(k', k)
      BY <1>6, ReadyKeepsClock DEF Create, Keep
    <3>. QED
      BY <1>6, <1>s, <3>1, StillMoves DEF Create
  <2>2. pc[t] = "app" /\ pc[u] = "new"
    BY <1>6 DEF Create, Calls, Running
  <2>3. PICK at : at \in {"yield", "app"} /\ pc' = [pc EXCEPT ![u] = "app", ![t] = at]
    BY <1>6 DEF Create
  <2>4. call' = call /\ due' = due
    BY <1>6 DEF Create
  <2>5. ASSUME NEW v \in Task PROVE TaskOnTime(k', pc'[v], call'[v], due'[v])
    <3>1. TaskOnTime(k', pc[v], call[v], due[v])
      BY <2>1, TaskOfInv, StaysOnTime
    <3>2. CASE v \in {t, u}
      <4>1. pc'[v] \in {"yield", "app"}
        BY <2>3, <3>2 DEF IInv, Typed
      <4>2. ~call[v].set /\ call[v].after \notin {"try", "expired"}
        BY <2>2, <3>2, NoTimeout DEF SetPlaces, SomePlaces
      <4>. QED
        BY <2>4, <4>1, <4>2, FreeOnTime DEF SetPlaces
    <3>3. CASE v \notin {t, u}
      <4>1. pc'[v] = pc[v]
        BY <2>3, <3>3 DEF IInv, Typed
      <4>. QED
        BY <2>4, <3>1, <4>1
    <3>. QED
      BY <3>2, <3>3
  <2>. QED
    BY <2>1, <2>4, <2>5 DEF TimeoutInv, ClockMoves
<1>7. ASSUME NEW u \in Task, Delete(t, u)
      PROVE  TimeoutInv'
  <2>1. ClockMoves
    <3>1. PICK g : g = RemoveGenericItems(k, {u})
      OBVIOUS
    <3>2. PICK e : e = RemoveEventItems(g, {u})
      OBVIOUS
    <3>3. SameClock(g, k) /\ SameClock(e, g)
      BY <3>1, <3>2, GenericKeepsClock, EventKeepsClock
    <3>4. SameClock(k', e)
      <4>1. k' = [e EXCEPT !.terminated = Append(@, u)]
        BY <1>7, <3>1, <3>2 DEF Delete, Keep
      <4>. QED
        BY <4>1 DEF SameClock
    <3>5. SameClock(k', k)
      BY <3>3, <3>4, SameClockChain
    <3>. QED
      BY <1>7, <1>s, <3>5, StillMoves DEF Delete
  <2>2. pc[t] = "app"
    BY <1>7 DEF Delete, Calls, Running
  <2>3. PICK at : at \in {"yield", "reset"} /\ pc' = [pc EXCEPT ![u] = "app", ![t] = at]
    BY <1>7 DEF Delete
  <2>4. call' = [call EXCEPT ![u] = NoCall] /\ due' = due
    BY <1>7 DEF Delete
  <2>5. ASSUME NEW v \in Task PROVE TaskOnTime(k', pc'[v], call'[v], due'[v])
    <3>1. TaskOnTime(k', pc[v], call[v], due[v])
      BY <2>1, TaskOfInv, StaysOnTime
    <3>2. CASE v \in {t, u}
      <4>1. pc'[v] \in {"yield", "app", "reset"}
        BY <2>3, <3>2 DEF IInv, Typed
      <4>2. ~call'[v].set /\ call'[v].after \notin {"try", "expired"}
        <5>1. CASE v = u
          BY <2>4, <5>1, NoCallRecord DEF TimeoutInv
        <5>2. CASE v # u
          <6>1. call'[v] = call[v] /\ v = t
            BY <2>4, <3>2, <5>2 DEF TimeoutInv
          <6>. QED
            BY <1>f, <2>2, <6>1
        <5>. QED
          BY <5>1, <5>2
      <4>. QED
        BY <4>1, <4>2, FreeOnTime DEF SetPlaces
    <3>3. CASE v \notin {t, u}
      <4>1. pc'[v] = pc[v] /\ call'[v] = call[v]
        BY <2>3, <2>4, <3>3 DEF IInv, Typed, TimeoutInv
      <4>. QED
        BY <2>4, <3>1, <4>1
    <3>. QED
      BY <3>2, <3>3
  <2>6. call' \in [Task -> CallRecords]
    BY <2>4, NoCallRecord DEF TimeoutInv
  <2>. QED
    BY <2>1, <2>4, <2>5, <2>6 DEF TimeoutInv, ClockMoves
<1>. QED
  BY <1>1, <1>2, <1>3, <1>4, <1>5, <1>6, <1>7 DEF AppStep

(* The tick interrupt.  A tick that is pended brings the moment nearer and *)
(* is owed; one that is counted brings it nearer and moves the clock.      *)
LEMMA GreaterOfTwo ==
    ASSUME NEW x \in Int, NEW y \in Int
    PROVE  Max({x, y}) = IF x >= y THEN x ELSE y
<1>1. \E b \in Int : x <= b /\ y <= b
  BY DEF Max
<1>2. Max({x, y}) \in {x, y} /\ x <= Max({x, y}) /\ y <= Max({x, y})
  BY <1>1, MaxIs
<1>. QED
  BY <1>2

LEMMA TickKeepsTimeouts ==
    ASSUME IInv, TimeoutInv, Tick
    PROVE  TimeoutInv'
<1>c. ClockOk(k) /\ MaxPended \in Nat /\ TickSpan \in Nat \ {0, 1} /\ PendedSpan \in Nat \ {0}
  BY SpanAssumption DEF TimeoutInv
<1>s. /\ suspended \in {0, 1, 2} /\ suspended' = suspended
      /\ pc' = pc /\ call' = call
  BY Suspensions DEF Tick
<1>d. ASSUME NEW t \in Task
      PROVE  /\ due'[t] \in Int /\ Floor(t) \in Int /\ Floor(t) <= -MaxPended
             /\ Timed(t) => due'[t] = due[t] - 1 \/ (due'[t] = Floor(t) /\ due'[t] >= due[t] - 1)
             /\ ~Timed(t) => due'[t] = due[t]
  <2>1. Floor(t) \in Int /\ Floor(t) <= -MaxPended /\ due[t] \in Int
    BY <1>c, TaskOfInv DEF Floor
  <2>2. due'[t] = IF Timed(t) THEN Max({due[t] - 1, Floor(t)}) ELSE due[t]
    BY DEF Tick
  <2>3. Max({due[t] - 1, Floor(t)}) = IF due[t] - 1 >= Floor(t) THEN due[t] - 1 ELSE Floor(t)
    BY <2>1, GreaterOfTwo
  <2>. QED
    BY <2>1, <2>2, <2>3
<1>1. /\ ClockOk(k') /\ (suspended = 0 => k'.pended = 0)
      /\ \A c \in CallRecords, d \in Int :
            OnTime(k, c, d) => OnTime(k', c, d - 1)
  <2>1. CASE suspended > 0
    <3>1. PICK p : p = (k.pended + 1) % PendedSpan
      OBVIOUS
    <3>2. p \in Nat /\ p <= k.pended + 1 /\ p <= MaxPended /\ k.pended \in Nat
      <4>1. k.pended \in Nat /\ k.pended < MaxPended
        BY <2>1, <1>c DEF Tick, ClockOk
      <4>2. (k.pended + 1) % PendedSpan \in Nat /\ (k.pended + 1) % PendedSpan <= k.pended + 1
        BY <1>c, <4>1
      <4>. QED
        BY <1>c, <3>1, <4>1, <4>2
    <3>3. PICK s : s = [k EXCEPT !.pended = p]
      OBVIOUS
    <3>4. /\ DOMAIN s = DOMAIN k /\ s.tick = k.tick /\ s.overflows = k.overflows
          /\ s.waiting = k.waiting /\ s.pended = p
      BY <1>c, <3>3 DEF ClockOk, ClockFields
    <3>5. SameClock(k', s)
      <4>1. SwitchIf(k.yieldPending, s)
        BY <2>1, <3>1, <3>3 DEF Tick
      <4>. QED
        BY <4>1, SwitchIfKeepsClock
    <3>6. /\ ClockOk(k') /\ k'.pended = p
          /\ \A entering, over, e : Elapses(k', entering, over, e) <=> Elapses(k, entering, over, e)
      BY <1>c, <3>2, <3>4, <3>5 DEF ClockOk, SameClock, Elapses
    <3>7. ASSUME NEW c \in CallRecords, NEW d \in Int, OnTime(k, c, d)
          PROVE  OnTime(k', c, d - 1)
      <4>1. c.wait \in Int /\ k.tick \in Int /\ c.entering \in Int
        BY <1>c DEF CallRecords, ClockOk, MaxDelay
      <4>2. CASE d + k.pended <= 0
        BY <3>2, <3>6, <4>2 DEF OnTime
      <4>3. CASE /\ c.wait # 0 /\ c.after # "expired"
                 /\ Elapses(k, c.entering, c.over, c.wait - d - k.pended)
        <5>1. c.wait - (d - 1) - p >= c.wait - d - k.pended
          BY <3>2, <4>1
        <5>2. Elapses(k, c.entering, c.over, c.wait - (d - 1) - p)
          BY <1>c, <3>2, <4>1, <4>3, <5>1 DEF Elapses
        <5>. QED
          BY <3>6, <4>3, <5>2 DEF OnTime
      <4>. QED
        BY <3>7, <4>2, <4>3 DEF OnTime
    <3>. QED
      BY <2>1, <3>6, <3>7
  <2>2. CASE suspended = 0
    <3>1. PICK i : i = IncrementTick(k)
      OBVIOUS
    <3>2. ClockTicks(i.data, k)
      BY <1>c, <3>1, IncrementTicksClock
    <3>3. SameClock(k', i.data)
      <4>1. SwitchIf(i.switch, i.data)
        BY <2>2, <3>1 DEF Tick
      <4>. QED
        BY <4>1, SwitchIfKeepsClock
    <3>4. ClockTicks(k', k)
      BY <3>2, <3>3 DEF ClockTicks, SameClock
    <3>5. k.pended = 0 /\ k'.pended = 0
      BY <2>2, <3>4 DEF TimeoutInv, ClockTicks
    <3>6. /\ ClockOk(k')
          /\ \A entering \in 0 .. MaxDelay, over \in Nat, e \in Int :
                Elapses(k, entering, over, e) => Elapses(k', entering, over, e + 1)
      BY <1>c, <3>4, TickElapses
    <3>7. ASSUME NEW c \in CallRecords, NEW d \in Int, OnTime(k, c, d)
          PROVE  OnTime(k', c, d - 1)
      <4>1. c.wait \in Int /\ c.entering \in 0 .. MaxDelay /\ c.over \in Nat
        BY <1>c DEF CallRecords, MaxDelay
      <4>2. CASE d + k.pended <= 0
        BY <3>5, <4>2 DEF OnTime
      <4>3. CASE /\ c.wait # 0 /\ c.after # "expired"
                 /\ Elapses(k, c.entering, c.over, c.wait - d - k.pended)
        <5>1. PICK e \in Int : e = c.wait - d - k.pended
          BY <3>5, <4>1
        <5>2. Elapses(k', c.entering, c.over, e + 1)
          BY <3>6, <4>1, <4>3, <5>1
        <5>3. e + 1 = c.wait - (d - 1) - k'.pended
          BY <3>5, <4>1, <5>1
        <5>. QED
          BY <4>3, <5>2, <5>3 DEF OnTime
      <4>. QED
        BY <3>7, <4>2, <4>3 DEF OnTime
    <3>. QED
      BY <3>5, <3>6, <3>7
  <2>. QED
    BY <1>s, <2>1, <2>2
<1>2. ASSUME NEW t \in Task PROVE TaskOnTime(k', pc[t], call[t], due'[t])
  <2>1. /\ TaskOnTime(k, pc[t], call[t], due[t]) /\ call[t] \in CallRecords /\ due[t] \in Int
        /\ due'[t] \in Int /\ k'.pended \in Nat /\ k'.pended <= MaxPended
    BY <1>1, <1>c, <1>d, TaskOfInv DEF ClockOk
  <2>2. CASE ~call[t].set
    BY <2>1, <2>2 DEF TaskOnTime
  <2>3. CASE call[t].set /\ pc[t] = "gone"
    <3>1. ~Timed(t)
      BY <2>3 DEF Timed
    <3>. QED
      BY <1>d, <2>1, <2>3, <3>1 DEF TaskOnTime
  <2>4. CASE call[t].set /\ pc[t] # "gone"
    <3>1. Timed(t)
      <4>1. pc[t] \notin {"new", "gone", "app"}
        BY <2>1, <2>4 DEF TaskOnTime, TimedCall, SetPlaces, SomePlaces
      <4>. QED
        BY <4>1 DEF Timed
    <3>2. OnTime(k', call[t], due'[t])
      <4>1. CASE due'[t] = due[t] - 1
        BY <1>1, <2>1, <2>4, <4>1 DEF TaskOnTime
      <4>2. CASE due'[t] = Floor(t)
        BY <1>c, <1>d, <2>1, <4>2 DEF OnTime
      <4>. QED
        BY <1>d, <3>1, <4>1, <4>2
    <3>3. call[t].wait = 0 => due'[t] <= 0
      BY <2>1, <3>2 DEF OnTime
    <3>. QED
      BY <2>1, <3>2, <3>3 DEF TaskOnTime
  <2>. QED
    BY <2>2, <2>3, <2>4
<1>3. due' \in [Task -> Int]
  BY <1>d DEF Tick
<1>. QED
  BY <1>1, <1>2, <1>3, <1>s DEF TimeoutInv

LEMMA KernelNextKeepsTimeouts ==
    ASSUME IInv, TimeoutInv, KernelNext
    PROVE  TimeoutInv'
<1>c. call[Idle] \in CallRecords /\ due[Idle] \in Int /\ Idle \in Task
  BY TaskOfInv, TaskAssumption
<1>1. CASE IdleSuspendAll
  <2>1. PICK c : c = [NoCall EXCEPT !.after = "reap"]
    OBVIOUS
  <2>2. c \in CallRecords /\ ~c.set /\ c.after = "reap"
    BY <2>1, NoCallRecord DEF NoCall, CallRecords, AfterPlaces
  <2>3. ClockMoves /\ GoToDue(Idle, "resume", c, due[Idle])
    BY <1>1, <2>1, SuspendMoves DEF IdleSuspendAll, GoTo
  <2>4. TaskOnTime(k', "resume", c, due[Idle])
    BY <2>2, FreeOnTime DEF SetPlaces
  <2>. QED
    BY <1>c, <2>2, <2>3, <2>4, GoToOnTime
<1>2. CASE IdleYield
  <2>1. SameClock(k', k)
    BY <1>2, SwitchKeepsClock DEF IdleYield
  <2>2. ClockMoves
    BY <1>2, <2>1, StillMoves, Suspensions DEF IdleYield
  <2>. QED
    BY <1>2, <2>2, AllStay DEF IdleYield
<1>. QED
  BY <1>1, <1>2, TickKeepsTimeouts, KernelStepKeepsTimeouts, AppStepKeepsTimeouts DEF KernelNext

(* The critical section of a call: the first look at a full or empty queue *)
(* sets the timeout, and the time that is left is the time asked for.      *)
LEMMA TryKeepsTimeouts ==
    ASSUME IInv, TimeoutInv, NEW t \in Task, suspended = 0, suspended' = 0,
           NEW c \in CallRecords, c.op \in {"send", "receive", "peek"}, Try(t, c),
           c.set => TaskOnTime(k, "try", c, due[t]), ~c.set => c.after = "app"
    PROVE  TimeoutInv'
<1>c. due[t] \in Int /\ ClockOk(k) /\ k.pended = 0
  BY TaskOfInv DEF TimeoutInv
<1>1. CASE ~MustWait(c.op) /\ Serve(c.op) /\ GoTo(t, "app", c)
  <2>1. PICK e : WakeAndYield(e)
    BY <1>1 DEF Serve
  <2>2. SameClock(k', k)
    <3>1. SameClock(k', WakeOne(k, e).data)
      BY <2>1, SwitchIfKeepsClock DEF WakeAndYield
    <3>. QED
      BY <3>1, WakeKeepsClock, SameClockChain
  <2>3. ClockMoves
    BY <2>2, StillMoves
  <2>. QED
    BY <1>1, <1>c, <2>3, GoToOnTime DEF GoTo
<1>2. CASE MustWait(c.op) /\ UNCHANGED << cur, k, q >>
  <2>1. SameClock(k', k)
    BY <1>2 DEF SameClock
  <2>2. ClockMoves
    BY <2>1, StillMoves
  <2>3. CASE c.wait = 0
    <3>1. GoToDue(t, "app", c, due[t])
      BY <1>2, <2>3 DEF Try, GoTo
    <3>. QED
      BY <1>c, <2>2, <3>1, GoToOnTime
  <2>4. CASE c.wait # 0 /\ c.set
    <3>1. GoToDue(t, "suspend", c, due[t])
      BY <1>2, <2>4 DEF Try, GoTo
    <3>2. TaskOnTime(k', "try", c, due[t])
      BY <1>c, <2>2, <2>4, StaysOnTime
    <3>3. TaskOnTime(k', "suspend", c, due[t])
      BY <2>4, <3>2 DEF TaskOnTime, TimedCall, SetPlaces, SomePlaces
    <3>. QED
      BY <1>c, <2>2, <3>1, <3>3, GoToOnTime
  <2>5. CASE c.wait # 0 /\ ~c.set
    <3>1. PICK s : s = [c EXCEPT !.set = TRUE, !.entering = k.tick, !.over = k.overflows]
      OBVIOUS
    <3>2. /\ s \in CallRecords /\ s.set /\ s.wait = c.wait /\ s.entering = k.tick
          /\ s.over = k.overflows /\ s.op = c.op /\ s.after = c.after
      BY <1>c, <3>1 DEF CallRecords, ClockOk
    <3>3. GoToDue(t, "suspend", s, c.wait)
      BY <1>2, <2>5, <3>1 DEF Try
    <3>4. c.wait \in Int /\ k.tick \in Int
      BY <1>c, SpanAssumption DEF CallRecords, ClockOk, MaxDelay
    <3>. QED
      <4>1. k' = k
        BY <1>2
      <4>2. Elapses(k, s.entering, s.over, s.wait - c.wait - k.pended)
        BY <1>c, <3>2, <3>4 DEF Elapses
      <4>3. OnTime(k', s, c.wait)
        BY <2>5, <3>2, <4>1, <4>2 DEF OnTime
      <4>4. TaskOnTime(k', "suspend", s, c.wait)
        BY <2>5, <3>2, <4>3 DEF TaskOnTime, TimedCall, SetPlaces, SomePlaces
      <4>. QED
        BY <2>2, <3>2, <3>3, <3>4, <4>4, GoToOnTime
  <2>. QED
    BY <2>3, <2>4, <2>5
<1>. QED
  BY <1>1, <1>2 DEF Try

(* xTaskCheckForTimeOut: a call that finds its time over has spent it, and *)
(* one that does not knows what is left, though a wrap of the tick count   *)
(* makes the elapsed time negative.                                        *)
LEMMA CheckIsOnTime ==
    ASSUME ClockOk(k), NEW c \in CallRecords, NEW d \in Int, OnTime(k, c, d)
    PROVE  LET r == CheckForTimeOut(k, c) IN
           /\ r.call \in CallRecords
           /\ r.call.set = c.set /\ r.call.op = c.op /\ r.call.after = c.after
           /\ r.expired => r.call = c /\ d + k.pended <= 0
           /\ ~r.expired => OnTime(k, r.call, d)
<1>1. /\ c.wait \in 0 .. TickSpan - 1 /\ c.entering \in 0 .. TickSpan - 1
      /\ k.tick \in 0 .. TickSpan - 1 /\ TickSpan \in Nat \ {0, 1} /\ k.pended \in Nat
      /\ c.over \in Nat /\ k.overflows \in Nat
  BY SpanAssumption DEF CallRecords, ClockOk, MaxDelay
<1>2. PICK elapsed \in Int : elapsed = k.tick - c.entering
  BY <1>1
<1>3. CASE \/ k.overflows # c.over /\ k.tick >= c.entering
           \/ elapsed >= c.wait
  <2>1. CheckForTimeOut(k, c) = [expired |-> TRUE, call |-> c]
    BY <1>2, <1>3 DEF CheckForTimeOut
  <2>2. d + k.pended <= 0
    BY <1>1, <1>2, <1>3 DEF OnTime, Elapses
  <2>. QED
    BY <2>1, <2>2
<1>4. CASE ~(\/ k.overflows # c.over /\ k.tick >= c.entering
             \/ elapsed >= c.wait)
  <2>1. PICK left : left = (c.wait - elapsed) % TickSpan
    OBVIOUS
  <2>2. /\ left \in 0 .. MaxDelay
        /\ \/ left = c.wait - elapsed
           \/ c.wait - elapsed >= TickSpan /\ left = c.wait - elapsed - TickSpan
    <3>1. PICK w \in Int : w = c.wait - elapsed
      BY <1>1
    <3>2. w > 0 /\ w < 2 * TickSpan
      BY <1>1, <1>2, <1>4, <3>1
    <3>3. CASE w < TickSpan
      <4>1. w % TickSpan = w
        BY <1>1, <3>2, <3>3
      <4>. QED
        BY <1>1, <2>1, <3>1, <3>2, <3>3, <4>1 DEF MaxDelay
    <3>4. CASE w >= TickSpan
      <4>1. w % TickSpan = w - TickSpan
        BY <1>1, <3>2, <3>4
      <4>. QED
        BY <1>1, <2>1, <3>1, <3>2, <3>4, <4>1 DEF MaxDelay
    <3>. QED
      BY <1>1, <3>1, <3>3, <3>4
  <2>3. PICK e : e = [c EXCEPT !.wait = left, !.entering = k.tick, !.over = k.overflows]
    OBVIOUS
  <2>4. CheckForTimeOut(k, c) = [expired |-> FALSE, call |-> e]
    BY <1>2, <1>4, <2>1, <2>3 DEF CheckForTimeOut
  <2>5. /\ e \in CallRecords /\ e.wait = left /\ e.entering = k.tick /\ e.over = k.overflows
        /\ e.set = c.set /\ e.op = c.op /\ e.after = c.after
    BY <2>2, <2>3 DEF CallRecords, ClockOk
  <2>6. OnTime(k, e, d)
    <3>1. CASE d + k.pended <= 0
      BY <3>1 DEF OnTime
    <3>2. CASE d + k.pended > 0
      <4>1. /\ c.wait # 0 /\ c.after # "expired"
            /\ Elapses(k, c.entering, c.over, c.wait - d - k.pended)
        BY <1>1, <3>2 DEF OnTime
      <4>2. left \in Int /\ left >= d + k.pended
        <5>1. CASE left = c.wait - elapsed
          BY <1>1, <1>2, <4>1, <5>1 DEF Elapses
        <5>2. CASE c.wait - elapsed >= TickSpan /\ left = c.wait - elapsed - TickSpan
          <6>1. k.tick < c.entering
            BY <1>1, <1>2, <5>2
          <6>2. c.wait - d - k.pended >= TickSpan + k.tick - c.entering
            BY <4>1, <6>1 DEF Elapses
          <6>. QED
            BY <1>1, <1>2, <5>2, <6>2
        <5>. QED
          BY <2>2, <5>1, <5>2
      <4>3. Elapses(k, e.entering, e.over, e.wait - d - k.pended) /\ e.wait # 0
        BY <1>1, <2>5, <3>2, <4>2 DEF Elapses
      <4>. QED
        BY <2>5, <4>1, <4>3 DEF OnTime
    <3>. QED
      BY <1>1, <3>1, <3>2
  <2>. QED
    BY <2>4, <2>5, <2>6
<1>. QED
  BY <1>3, <1>4

LEMMA QueueStepKeepsTimeouts ==
    ASSUME IInv, TimeoutInv, NEW t \in Task, QueueStep(t)
    PROVE  TimeoutInv'
<1>c. /\ call[t] \in CallRecords /\ due[t] \in Int /\ ClockOk(k)
      /\ TaskOnTime(k, pc[t], call[t], due[t])
  BY TaskOfInv
<1>s. suspended \in {0, 1, 2}
  BY Suspensions
<1>1. CASE Retry(t)
  <2>1. pc[t] = "try" /\ Try(t, call[t]) /\ suspended' = suspended /\ cur = t
    BY <1>1 DEF Retry, Running
  <2>2. suspended = 0
    <3>1. pc[cur] \notin HeldPlaces
      BY <2>1 DEF HeldPlaces
    <3>. QED
      BY <3>1, OutsideIsFree
  <2>3. call[t].set /\ call[t].op \in {"send", "receive", "peek"}
    BY <1>c, <2>1 DEF TaskOnTime, TimedCall, SetPlaces
  <2>. QED
    BY <1>c, <2>1, <2>2, <2>3, TryKeepsTimeouts
<1>2. CASE Suspend(t)
  <2>1. ClockMoves /\ GoToDue(t, "lock", call[t], due[t]) /\ pc[t] = "suspend"
    BY <1>2, SuspendMoves DEF Suspend, GoTo, Running
  <2>2. TaskOnTime(k', "suspend", call[t], due[t])
    BY <1>c, <2>1, StaysOnTime
  <2>3. TaskOnTime(k', "lock", call[t], due[t])
    BY <2>2 DEF TaskOnTime, TimedCall, SetPlaces, SomePlaces
  <2>. QED
    BY <1>c, <2>1, <2>3, GoToOnTime
<1>3. CASE Lock(t)
  <2>1. k' = k /\ suspended' = suspended
          /\ GoToDue(t, "check", call[t], due[t]) /\ pc[t] = "lock"
    BY <1>3 DEF Lock, GoTo, Running
  <2>2. ClockMoves
    BY <1>s, <2>1, StillMoves DEF SameClock
  <2>3. TaskOnTime(k', "check", call[t], due[t])
    BY <1>c, <2>1 DEF TaskOnTime, TimedCall, SetPlaces, SomePlaces
  <2>. QED
    BY <1>c, <2>1, <2>2, <2>3, GoToOnTime
<1>4. CASE Check(t)
  <2>1. k' = k /\ suspended' = suspended /\ pc[t] = "check"
    BY <1>4 DEF Check, Running
  <2>2. ClockMoves
    BY <1>s, <2>1, StillMoves DEF SameClock
  <2>3. OnTime(k, call[t], due[t]) /\ call[t].set /\ call[t].op \in {"send", "receive", "peek"}
    BY <1>c, <2>1 DEF TaskOnTime, TimedCall, SetPlaces
  <2>4. PICK r : r = CheckForTimeOut(k, call[t])
    OBVIOUS
  <2>5. /\ r.call \in CallRecords
        /\ r.call.set = call[t].set /\ r.call.op = call[t].op
        /\ r.expired => r.call = call[t] /\ due[t] + k.pended <= 0
        /\ ~r.expired => OnTime(k, r.call, due[t])
    BY <1>c, <2>3, <2>4, CheckIsOnTime
  <2>6. k.pended \in Nat
    BY <1>c DEF ClockOk
  <2>7. CASE r.expired
    <3>1. PICK c : c = [call[t] EXCEPT !.after = "expired", !.force = FALSE]
      OBVIOUS
    <3>2. /\ c \in CallRecords /\ c.set /\ c.op = call[t].op /\ c.after = "expired"
      BY <1>c, <2>3, <3>1 DEF CallRecords, AfterPlaces
    <3>3. GoToDue(t, "unlockTx", c, due[t])
      BY <1>4, <2>4, <2>5, <2>7, <3>1 DEF Check, GoTo
    <3>4. TaskOnTime(k', "unlockTx", c, due[t])
      BY <1>c, <2>1, <2>3, <2>5, <2>6, <2>7, <3>2
         DEF TaskOnTime, TimedCall, SetPlaces, SomePlaces, OnTime
    <3>. QED
      BY <1>c, <2>2, <3>2, <3>3, <3>4, GoToOnTime
  <2>8. CASE ~r.expired
    <3>1. GoToDue(t, "full", r.call, due[t])
      BY <1>4, <2>4, <2>8 DEF Check, GoTo
    <3>2. r.call.wait = 0 => due[t] <= 0
      BY <1>c, <2>5, <2>6, <2>8 DEF OnTime
    <3>3. TaskOnTime(k', "full", r.call, due[t])
      BY <2>1, <2>3, <2>5, <2>8, <3>2 DEF TaskOnTime, TimedCall, SetPlaces, SomePlaces
    <3>. QED
      BY <1>c, <2>2, <2>5, <3>1, <3>3, GoToOnTime
  <2>. QED
    BY <2>7, <2>8
<1>5. CASE LookAgain(t)
  <2>1. k' = k /\ suspended' = suspended /\ pc[t] = "full"
    BY <1>5 DEF LookAgain, Running
  <2>2. ClockMoves
    BY <1>s, <2>1, StillMoves DEF SameClock
  <2>3. PICK c : c = [call[t] EXCEPT !.after = "try", !.force = FALSE]
    OBVIOUS
  <2>4. /\ c \in CallRecords /\ c.set = call[t].set /\ c.op = call[t].op /\ c.after = "try"
        /\ c.wait = call[t].wait /\ c.entering = call[t].entering /\ c.over = call[t].over
    BY <1>c, <2>3 DEF CallRecords, AfterPlaces
  <2>5. CASE GoToDue(t, "place", call[t], due[t])
    <3>1. TaskOnTime(k', "place", call[t], due[t])
      BY <1>c, <2>1 DEF TaskOnTime, TimedCall, SetPlaces, SomePlaces
    <3>. QED
      BY <1>c, <2>2, <2>5, <3>1, GoToOnTime
  <2>6. CASE GoToDue(t, "unlockTx", c, due[t])
    <3>1. TaskOnTime(k', "unlockTx", c, due[t])
      BY <1>c, <2>1, <2>4 DEF TaskOnTime, TimedCall, SetPlaces, SomePlaces, OnTime
    <3>. QED
      BY <1>c, <2>2, <2>4, <2>6, <3>1, GoToOnTime
  <2>. QED
    BY <1>5, <2>3, <2>5, <2>6 DEF LookAgain, GoTo
<1>6. CASE Place(t)
  <2>1. suspended' = suspended /\ pc[t] = "place" /\ cur = t
        /\ k' = PlaceOnEventList(k, WaitsOn(call[t].op), call[t].wait)
    BY <1>6 DEF Place, Running, Keep
  <2>2. ClockMoves
    <3>1. SameClock(k', k)
      BY <2>1, PlaceKeepsClock
    <3>. QED
      BY <1>s, <2>1, <3>1, StillMoves
  <2>3. PICK c : c = [call[t] EXCEPT !.after = "try", !.force = TRUE]
    OBVIOUS
  <2>4. /\ c \in CallRecords /\ c.set = call[t].set /\ c.op = call[t].op /\ c.after = "try"
        /\ c.wait = call[t].wait /\ c.entering = call[t].entering /\ c.over = call[t].over
    BY <1>c, <2>3 DEF CallRecords, AfterPlaces
  <2>5. TaskOnTime(k', "place", call[t], due[t])
    BY <1>c, <2>1, <2>2, StaysOnTime
  <2>6. TaskOnTime(k', "unlockTx", c, due[t])
    BY <2>4, <2>5 DEF TaskOnTime, TimedCall, SetPlaces, SomePlaces, OnTime
  <2>. QED
    BY <1>6, <1>c, <2>2, <2>3, <2>4, <2>6, GoToOnTime DEF Place, GoTo
<1>7. CASE UnlockTx(t) \/ UnlockRx(t)
  <2>1. PICK at : at \in {"unlockRx", "resume"} /\ GoToDue(t, at, call[t], due[t])
    BY <1>7 DEF UnlockTx, UnlockRx, GoTo
  <2>2. pc[t] \in {"unlockTx", "unlockRx"} /\ suspended' = suspended
    BY <1>7 DEF UnlockTx, UnlockRx, Running
  <2>3. ClockMoves
    <3>1. CASE UnlockTx(t)
      <4>1. q.txLock \in Nat
        <5>1. pc[t] \in TxLockedPlaces
          BY <3>1 DEF UnlockTx, Running, TxLockedPlaces
        <5>2. q.txLock # Unlocked /\ q.txLock \in Unlocked .. MaxLocked
          BY <5>1 DEF IInv, OneTaskHoldsScheduler, Typed, Queues
        <5>. QED
          BY <5>2, QueueAssumption DEF Unlocked
      <4>2. SameClock(WakeMany(k, "toReceive", q.txLock), k)
        BY <1>c, <4>1, QueueAssumption, WakeManyKeepsClock
      <4>3. SameClock(k', k)
        BY <3>1, <4>2 DEF UnlockTx, Keep
      <4>. QED
        BY <1>s, <2>2, <4>3, StillMoves
    <3>2. CASE UnlockRx(t)
      <4>1. q.rxLock \in Nat
        <5>1. pc[t] \in RxLockedPlaces
          BY <3>2 DEF UnlockRx, Running, RxLockedPlaces
        <5>2. q.rxLock # Unlocked /\ q.rxLock \in Unlocked .. MaxLocked
          BY <5>1 DEF IInv, OneTaskHoldsScheduler, Typed, Queues
        <5>. QED
          BY <5>2, QueueAssumption DEF Unlocked
      <4>2. SameClock(WakeMany(k, "toSend", q.rxLock), k)
        BY <1>c, <4>1, QueueAssumption, WakeManyKeepsClock
      <4>3. SameClock(k', k)
        BY <3>2, <4>2 DEF UnlockRx, Keep
      <4>. QED
        BY <1>s, <2>2, <4>3, StillMoves
    <3>. QED
      BY <1>7, <3>1, <3>2
  <2>4. TaskOnTime(k', pc[t], call[t], due[t])
    BY <1>c, <2>3, StaysOnTime
  <2>5. TaskOnTime(k', at, call[t], due[t])
    BY <2>1, <2>2, <2>4 DEF TaskOnTime, TimedCall, SetPlaces, SomePlaces
  <2>. QED
    BY <1>c, <2>1, <2>3, <2>5, GoToOnTime
<1>8. CASE Expire(t)
  <2>1. k' = k /\ suspended' = suspended /\ GoToDue(t, "app", NoCall, due[t])
    BY <1>8 DEF Expire, GoTo
  <2>2. ClockMoves
    BY <1>s, <2>1, StillMoves DEF SameClock
  <2>. QED
    BY <1>c, <2>1, <2>2, NoCallRecord, GoToOnTime
<1>. QED
  BY <1>1, <1>2, <1>3, <1>4, <1>5, <1>6, <1>7, <1>8 DEF QueueStep

(* Interrupts and a reset move no call.                                    *)
LEMMA OtherStepsKeepTimeouts ==
    ASSUME IInv, TimeoutInv, SendFromISR \/ ReceiveFromISR \/ \E t \in Task : Reset(t)
    PROVE  TimeoutInv'
<1>1. Stay /\ suspended' = suspended
  BY DEF SendFromISR, ReceiveFromISR, Reset
<1>2. SameClock(k', k)
  <2>1. ASSUME NEW e, Keep(WakeOne(k, e).data) PROVE SameClock(k', k)
    BY <2>1, WakeKeepsClock DEF Keep
  <2>2. CASE SendFromISR \/ ReceiveFromISR
    <3>1. CASE k' = k
      BY <3>1 DEF SameClock
    <3>2. CASE \E e : Keep(WakeOne(k, e).data)
      BY <2>1, <3>2
    <3>. QED
      BY <2>2, <3>1, <3>2 DEF SendFromISR, ReceiveFromISR
  <2>3. CASE \E t \in Task : Reset(t)
    <3>1. WakeAndYield("toSend")
      BY <2>3 DEF Reset
    <3>2. SameClock(k', WakeOne(k, "toSend").data)
      BY <3>1, SwitchIfKeepsClock DEF WakeAndYield
    <3>. QED
      BY <3>2, WakeKeepsClock, SameClockChain
  <2>. QED
    BY <2>2, <2>3
<1>3. ClockMoves
  BY <1>1, <1>2, StillMoves, Suspensions
<1>. QED
  BY <1>1, <1>3, AllStay

LEMMA StartCallKeepsTimeouts ==
    ASSUME IInv, TimeoutInv, NEW t \in Task, NEW op \in {"send", "receive", "peek"},
           NEW wait \in Waits[t], StartCall(t, op, wait)
    PROVE  TimeoutInv'
<1>1. PICK c : c = [NoCall EXCEPT !.op = op, !.wait = wait]
  OBVIOUS
<1>2. c \in CallRecords /\ ~c.set /\ c.after = "app" /\ c.op = op
  <2>1. wait \in 0 .. MaxDelay
    BY SpanAssumption
  <2>. QED
    BY <1>1, <2>1, NoCallRecord DEF NoCall, CallRecords, AfterPlaces, Op
<1>3. suspended = 0 /\ suspended' = 0 /\ Try(t, c)
  BY <1>1 DEF StartCall, Calls
<1>. QED
  BY <1>2, <1>3, TryKeepsTimeouts

LEMMA InitTimeouts == QueueInit => TimeoutInv
<1>. SUFFICES ASSUME QueueInit PROVE TimeoutInv
  OBVIOUS
<1>1. /\ suspended = 0 /\ call = [t \in Task |-> NoCall]
      /\ pc = [t \in Task |-> IF t \in Startup \cup {Idle} THEN "app" ELSE "new"]
      /\ due = [t \in Task |-> IF Periodic(t) THEN Floor(t) ELSE 0]
  BY DEF QueueInit, KernelInit
<1>2. PICK order : k = Started(order)
  BY DEF QueueInit, KernelInit
<1>3. PICK s :
        s = [ready |-> [p \in Priorities |-> EmptyRing], top |-> 0,
             delayed |-> << >>, overflow |-> << >>, wakeAt |-> [t \in Task |-> 0],
             nextUnblock |-> MaxDelay, pendingReady |-> << >>,
             waiting |-> [e \in EventList |-> << >>], terminated |-> << >>,
             tick |-> 0, overflows |-> 0, pended |-> 0, yieldPending |-> FALSE]
  OBVIOUS
<1>4. ClockOk(s) /\ s.pended = 0
  <2>1. [e \in EventList |-> << >>] \in EventsType
    BY EmptySeq DEF EventsType
  <2>2. 0 \in 0 .. MaxDelay /\ 0 \in 0 .. MaxPended
    BY SpanAssumption DEF MaxDelay
  <2>. QED
    BY <1>3, <2>1, <2>2 DEF ClockOk, ClockFields
<1>5. SameClock(k, s)
  BY <1>2, <1>3, ReadyKeepsClock DEF Started
<1>6. ClockOk(k) /\ k.pended = 0
  BY <1>4, <1>5 DEF ClockOk, SameClock
<1>7. due \in [Task -> Int] /\ call \in [Task -> CallRecords]
  <2>1. \A t \in Task : Floor(t) \in Int
    BY SpanAssumption DEF Floor
  <2>. QED
    BY <1>1, <2>1, NoCallRecord
<1>8. \A t \in Task : TaskOnTime(k, pc[t], call[t], due[t])
  BY <1>1, FreeOnTime, NoCallRecord DEF SetPlaces
<1>. QED
  BY <1>6, <1>7, <1>8 DEF TimeoutInv

LEMMA NextTimeouts == IInv /\ TimeoutInv /\ [QueueNext]_vars => TimeoutInv'
<1>. SUFFICES ASSUME IInv, TimeoutInv, [QueueNext]_vars PROVE TimeoutInv'
  OBVIOUS
<1>1. CASE UNCHANGED vars
  <2>1. Stay /\ k' = k /\ suspended' = suspended
    BY <1>1 DEF vars, kernelVars, Stay
  <2>2. ClockMoves
    BY <2>1, StillMoves, Suspensions DEF SameClock
  <2>. QED
    BY <2>1, <2>2, AllStay
<1>2. CASE KernelNext /\ UNCHANGED q
  BY <1>2, KernelNextKeepsTimeouts
<1>3. CASE \E t \in Task : QueueStep(t)
  BY <1>3, QueueStepKeepsTimeouts
<1>4. CASE \E t \in Task : \E op \in {"send", "receive", "peek"}, wait \in Waits[t] :
                StartCall(t, op, wait)
  BY <1>4, StartCallKeepsTimeouts
<1>5. CASE SendFromISR \/ ReceiveFromISR \/ \E t \in Task : Reset(t)
  BY <1>5, OtherStepsKeepTimeouts
<1>. QED
  BY <1>1, <1>2, <1>3, <1>4, <1>5 DEF QueueNext

(* A send, receive or peek gives up only when the time it asked for is     *)
(* over, for any number of tasks and interrupts that keep taking what it   *)
(* was woken for, any width of the tick count, of its overflows and of the *)
(* pended ticks, and however many of these are lost                        *)
(* (xTaskCheckForTimeOut).                                                 *)
THEOREM NoEarlyTimeoutThm == QueueSpec => []NoEarlyTimeout
<1>1. IInv /\ TimeoutInv => NoEarlyTimeout
  <2>. SUFFICES ASSUME TimeoutInv, NEW t \in Task,
                       pc[t] = "expired" \/ (call[t].set /\ call[t].wait = 0)
                PROVE  due[t] <= 0
    BY DEF NoEarlyTimeout
  <2>1. TaskOnTime(k, pc[t], call[t], due[t]) /\ k.pended \in Nat /\ due[t] \in Int
    BY TaskOfInv DEF ClockOk
  <2>. QED
    BY <2>1 DEF TaskOnTime, TimedCall, OnTime, SetPlaces
<1>2. QueueSpec => [](IInv /\ TimeoutInv)
  <2>1. QueueInit => IInv /\ TimeoutInv
    BY InitIInv, InitTimeouts
  <2>2. IInv /\ TimeoutInv /\ [QueueNext]_vars => (IInv /\ TimeoutInv)'
    BY NextIInv, NextTimeouts
  <2>. QED
    BY <2>1, <2>2, PTL DEF QueueSpec
<1>. QED
  BY <1>1, <1>2, PTL

-----------------------------------------------------------------------------
(* Who is awake.  The lists stay consistent in every step of the queue, and *)
(* a task that is awake or on its way to it stays so.                       *)

(* A task that is awake, or that xTaskResumeAll will wake.                 *)
Up(s, t) == t \notin Delayed(s) \/ t \in Range(s.pendingReady)

(* From s to r no task goes to sleep or on an event list, and the tasks of *)
(* a set are woken.                                                        *)
Wakes(r, s, woken) ==
    /\ ListsOk(r)
    /\ \A t \in Task : IsReady(s, t) => IsReady(r, t)
    /\ \A t \in Task : Placed(r, t) => Placed(s, t)
    /\ \A t \in Task : Up(s, t) \/ t \in woken => Up(r, t)
    /\ \A e \in EventList : Range(r.waiting[e]) \subseteq Range(s.waiting[e]) \ woken
    /\ r.terminated = s.terminated

LEMMA WakesNone ==
    ASSUME NEW s, ListsOk(s), NEW r, ListsOk(r), SameLists(r, s),
           Delayed(r) = Delayed(s), r.terminated = s.terminated
    PROVE  Wakes(r, s, {})
BY DEF Wakes, SameLists, IsReady, Placed, Up

LEMMA WakesThen ==
    ASSUME NEW s, NEW r, NEW u, NEW v, NEW w, Wakes(r, s, v), Wakes(u, r, w)
    PROVE  Wakes(u, s, v \cup w)
<1>1. ASSUME NEW e \in EventList
      PROVE  Range(u.waiting[e]) \subseteq Range(s.waiting[e]) \ (v \cup w)
  BY DEF Wakes
<1>2. ASSUME NEW t \in Task, Up(s, t) \/ t \in v \cup w PROVE Up(u, t)
  BY <1>2 DEF Wakes
<1>3. /\ ListsOk(u) /\ u.terminated = s.terminated
      /\ \A t \in Task : IsReady(s, t) => IsReady(u, t)
      /\ \A t \in Task : Placed(u, t) => Placed(s, t)
  BY DEF Wakes
<1>. QED
  BY <1>1, <1>2, <1>3 DEF Wakes

LEMMA WakesFewer ==
    ASSUME NEW s, NEW r, NEW w, Wakes(r, s, w)
    PROVE  Wakes(r, s, {})
BY DEF Wakes

(* The flag xYieldPending and the number of pended ticks are no lists.     *)
LEMMA CountersAreNoLists ==
    ASSUME NEW s, ListsOk(s), NEW b \in BOOLEAN, NEW n \in 0 .. PendedSpan - 1, NEW r,
           r \in {[s EXCEPT !.yieldPending = b], [s EXCEPT !.pended = n]}
    PROVE  Wakes(r, s, {})
<1>1. s \in KernelData
  BY DEF ListsOk
<1>2. r \in KernelData
  BY <1>1 DEF KernelData
<1>3. /\ SameLists(r, s) /\ r.delayed = s.delayed /\ r.overflow = s.overflow
      /\ r.terminated = s.terminated
  BY <1>1 DEF KernelData, SameLists
<1>4. ListsOk(r)
  BY <1>2, <1>3 DEF SameLists, ListsOk, GenericOk, EventsOk, EventsSleep, TopOk, Sorted,
                    Delayed, OnEvent, IsReady
<1>. QED
  BY <1>3, <1>4, WakesNone DEF Delayed

(* Tasks that leave the Blocked state wake, and no other changes.          *)
LEMMA UnblockWakes ==
    ASSUME NEW s, ListsOk(s), NEW tasks \in Seq(Task), NoRepeats(tasks),
           Range(tasks) \subseteq Delayed(s), NEW r, r = Unblock(s, tasks)
    PROVE  Wakes(r, s, Range(tasks))
<1>1. LET u == Unblock(s, tasks) IN
      /\ ListsOk(u)
      /\ \A t \in Task : IsReady(u, t) <=> IsReady(s, t) \/ t \in Range(tasks)
      /\ \A t \in Task : OnEvent(u, t) => OnEvent(s, t)
      /\ Range(u.delayed) = Range(s.delayed) \ Range(tasks)
      /\ Range(u.overflow) = Range(s.overflow) \ Range(tasks)
      /\ \A t \in Task \ Range(tasks) : u.wakeAt[t] = s.wakeAt[t]
      /\ SameClocks(u, s)
      /\ Range(u.pendingReady) = Range(s.pendingReady) \ Range(tasks)
      /\ \A e \in EventList : Range(u.waiting[e]) = Range(s.waiting[e]) \ Range(tasks)
  BY UnblockIs, Zenon
<1>2. /\ ListsOk(r) /\ r.terminated = s.terminated
      /\ \A t \in Task : IsReady(r, t) <=> IsReady(s, t) \/ t \in Range(tasks)
      /\ Range(r.delayed) = Range(s.delayed) \ Range(tasks)
      /\ Range(r.overflow) = Range(s.overflow) \ Range(tasks)
      /\ Range(r.pendingReady) = Range(s.pendingReady) \ Range(tasks)
      /\ \A e \in EventList : Range(r.waiting[e]) = Range(s.waiting[e]) \ Range(tasks)
  BY <1>1 DEF SameClocks
<1>3. \A t : t \in Delayed(r) <=> t \in Delayed(s) /\ t \notin Range(tasks)
  BY <1>2 DEF Delayed
<1>4. \A t \in Task : Placed(r, t) => Placed(s, t)
  BY <1>2, <1>3 DEF Placed
<1>5. \A t \in Task : Up(s, t) \/ t \in Range(tasks) => Up(r, t)
  BY <1>2, <1>3 DEF Up
<1>. QED
  BY <1>2, <1>4, <1>5 DEF Wakes

(* The tick interrupt sends nobody to sleep.                               *)
LEMMA IncrementTickWakes ==
    ASSUME NEW s, ListsOk(s), NEW i, i = IncrementTick(s)
    PROVE  Wakes(i.data, s, {}) /\ i.switch \in BOOLEAN
<1>1. s \in KernelData
  BY DEF ListsOk
<1>2. PICK c : c = (s.tick + 1) % TickSpan
  OBVIOUS
<1>3. c \in TickType
  <2>1. c = IF s.tick = MaxDelay THEN 0 ELSE s.tick + 1
    BY <1>1, <1>2, ClocksAre, SpanAssumption
  <2>. QED
    BY <1>1, <2>1, ClocksAre DEF TickType
<1>4. PICK r : r = [s EXCEPT !.tick = c]
  OBVIOUS
<1>5. r \in KernelData
  BY <1>1, <1>3, <1>4 DEF KernelData
<1>6. /\ SameLists(r, s) /\ r.delayed = s.delayed /\ r.overflow = s.overflow
      /\ r.terminated = s.terminated
  BY <1>1, <1>4 DEF KernelData, SameLists
<1>7. ListsOk(r)
  BY <1>5, <1>6 DEF SameLists, ListsOk, GenericOk, EventsOk, EventsSleep, TopOk, Sorted,
                    Delayed, OnEvent, IsReady
<1>8. PICK w : w = IF r.tick = 0 THEN SwitchDelayedLists(r) ELSE r
  OBVIOUS
<1>9. Wakes(w, s, {})
  <2>1. CASE r.tick = 0
    <3>1. /\ ListsOk(w) /\ SameLists(w, r) /\ w.delayed = r.overflow /\ w.overflow = r.delayed
          /\ w.terminated = r.terminated
      BY <1>7, <1>8, <2>1, SwitchDelayedListsIs
    <3>2. SameLists(w, s) /\ Delayed(w) = Delayed(s) /\ w.terminated = s.terminated
      BY <1>6, <3>1 DEF SameLists, Delayed
    <3>. QED
      BY <3>1, <3>2, WakesNone
  <2>2. CASE r.tick # 0
    <3>1. w = r /\ Delayed(w) = Delayed(s)
      BY <1>6, <1>8, <2>2 DEF Delayed
    <3>. QED
      BY <1>6, <1>7, <3>1, WakesNone
  <2>. QED
    BY <2>1, <2>2
<1>10. ListsOk(w)
  BY <1>9 DEF Wakes
<1>11. PICK woken : woken = IF w.tick < w.nextUnblock THEN << >> ELSE Expired(w)
  OBVIOUS
<1>12. PICK u : u = IF w.tick < w.nextUnblock THEN w
                    ELSE ResetNextTaskUnblockTime(Unblock(w, woken))
  OBVIOUS
<1>13. Wakes(u, w, {})
  <2>1. CASE w.tick < w.nextUnblock
    <3>1. u = w
      BY <1>12, <2>1
    <3>. QED
      BY <1>10, <3>1, WakesNone DEF SameLists
  <2>2. CASE ~(w.tick < w.nextUnblock)
    <3>1. woken = Expired(w)
      BY <1>11, <2>2
    <3>2. /\ woken \in Seq(Task) /\ NoRepeats(woken)
          /\ Range(woken) = {t \in Range(w.delayed) : w.wakeAt[t] <= w.tick}
      BY <1>10, <3>1, ExpiredIs
    <3>3. Range(woken) \subseteq Delayed(w)
      BY <3>2 DEF Delayed
    <3>4. PICK v : v = Unblock(w, woken)
      OBVIOUS
    <3>5. Wakes(v, w, {})
      BY <1>10, <3>2, <3>3, <3>4, UnblockWakes, WakesFewer
    <3>6. u = ResetNextTaskUnblockTime(v) /\ ListsOk(v)
      BY <1>12, <2>2, <3>4, <3>5 DEF Wakes
    <3>7. /\ ListsOk(u) /\ SameLists(u, v)
          /\ u.delayed = v.delayed /\ u.overflow = v.overflow
          /\ u.terminated = v.terminated
      BY <3>6, ResetNextTaskUnblockTimeIs
    <3>8. Wakes(u, v, {})
      BY <3>6, <3>7, WakesNone DEF Delayed
    <3>9. Wakes(u, w, {} \cup {})
      BY <3>5, <3>8, WakesThen
    <3>. QED
      BY <3>9
  <2>. QED
    BY <2>1, <2>2
<1>14. Wakes(u, s, {} \cup {})
  BY <1>9, <1>13, WakesThen
<1>15. /\ i.data = u
       /\ i.switch = (\/ \E t \in Range(woken) : Priority[t] >= Priority[cur]
                      \/ Cardinality(RingItems(u.ready[Priority[cur]])) > 1
                      \/ u.yieldPending)
  BY <1>2, <1>4, <1>8, <1>11, <1>12 DEF IncrementTick
<1>. QED
  BY <1>14, <1>15

(* Nor does xTaskResumeAll, whatever it catches up with.                   *)
LEMMA CatchUpWakes ==
    ASSUME NEW s, ListsOk(s)
    PROVE  Wakes(CatchUp(s), s, {})
<1>1. /\ s \in KernelData /\ s.pended \in 0 .. PendedSpan - 1 /\ s.yieldPending \in BOOLEAN
      /\ s.pendingReady \in Seq(Task)
  BY KernelParts DEF ListsOk, ListType
<1>2. PICK n \in Nat : n = s.pended
  BY <1>1, SpanAssumption
<1>3. PICK u : u = Unblock(s, s.pendingReady)
  OBVIOUS
<1>4. Wakes(u, s, {})
  <2>1. NoRepeats(s.pendingReady) /\ EventsSleep(s)
    BY DEF ListsOk, EventsOk
  <2>2. Range(s.pendingReady) \subseteq Task
    BY <1>1, RangeIs
  <2>3. Range(s.pendingReady) \subseteq Delayed(s)
    BY <2>1, <2>2 DEF EventsSleep, OnEvent
  <2>. QED
    BY <1>1, <1>3, <2>1, <2>3, UnblockWakes, WakesFewer
<1>5. ListsOk(u) /\ u \in KernelData /\ u.yieldPending \in BOOLEAN
  BY <1>4, KernelParts DEF Wakes, ListsOk
<1>6. PICK b \in BOOLEAN :
        b = (u.yieldPending \/ \E t \in Range(s.pendingReady) : Priority[t] >= Priority[cur])
  OBVIOUS
<1>7. PICK m : m = [u EXCEPT !.yieldPending = b]
  OBVIOUS
<1>8. Wakes(m, s, {})
  <2>1. 0 \in 0 .. PendedSpan - 1
    BY SpanAssumption
  <2>2. Wakes(m, u, {})
    BY <1>5, <1>7, <2>1, CountersAreNoLists
  <2>3. Wakes(m, s, {} \cup {})
    BY <1>4, <2>2, WakesThen
  <2>. QED
    BY <2>3
<1>9. m = [Unblock(s, s.pendingReady) EXCEPT !.yieldPending =
                @ \/ \E t \in Range(s.pendingReady) : Priority[t] >= Priority[cur]]
  BY <1>3, <1>6, <1>7
<1>10. PICK f : f = Caught(n, m)
  OBVIOUS
<1>11. \A i \in 0 .. n : f[i] = IF i = 0 THEN m ELSE OneTick(f[i - 1])
  BY <1>10, CaughtEnds
<1>. DEFINE T == {i \in 0 .. n : Wakes(f[i], s, {})}
<1>12. 0 \in T
  BY <1>8, <1>11
<1>13. ASSUME NEW i \in 1 .. n, i - 1 \in T PROVE i \in T
  <2>1. PICK r : r = f[i - 1]
    OBVIOUS
  <2>2. Wakes(r, s, {}) /\ ListsOk(r) /\ f[i] = OneTick(r)
    BY <1>11, <1>13, <2>1 DEF Wakes
  <2>3. PICK tick : tick = IncrementTick(r)
    OBVIOUS
  <2>4. Wakes(tick.data, r, {}) /\ tick.switch \in BOOLEAN
    BY <2>2, <2>3, IncrementTickWakes
  <2>5. PICK v : v = tick.data
    OBVIOUS
  <2>6. ListsOk(v) /\ v.yieldPending \in BOOLEAN
    BY <2>4, <2>5, KernelParts DEF Wakes, ListsOk
  <2>7. PICK y \in BOOLEAN : y = (v.yieldPending \/ tick.switch)
    OBVIOUS
  <2>8. f[i] = [v EXCEPT !.yieldPending = y]
    BY <2>2, <2>3, <2>5, <2>7 DEF OneTick
  <2>9. 0 \in 0 .. PendedSpan - 1
    BY SpanAssumption
  <2>10. Wakes(f[i], v, {})
    BY <2>6, <2>8, <2>9, CountersAreNoLists
  <2>11. Wakes(f[i], r, {} \cup {})
    BY <2>4, <2>5, <2>10, WakesThen
  <2>12. Wakes(f[i], s, {} \cup ({} \cup {}))
    BY <2>2, <2>11, WakesThen
  <2>. QED
    BY <2>12
<1>. HIDE DEF T
<1>14. n \in T
  BY <1>12, <1>13, SetInduction
<1>15. PICK a : a = f[n]
  OBVIOUS
<1>16. Wakes(a, s, {})
  BY <1>14, <1>15 DEF T
<1>17. PICK c : c = [a EXCEPT !.pended = 0]
  OBVIOUS
<1>18. c = CatchUp(s)
  BY <1>2, <1>9, <1>10, <1>15, <1>17, CatchUpIsCaught
<1>19. Wakes(c, a, {})
  <2>1. ListsOk(a) /\ TRUE \in BOOLEAN /\ 0 \in 0 .. PendedSpan - 1
    BY <1>16, SpanAssumption DEF Wakes
  <2>. QED
    BY <1>17, <2>1, CountersAreNoLists
<1>20. Wakes(c, s, {} \cup {})
  BY <1>16, <1>19, WakesThen
<1>. QED
  BY <1>18, <1>20

(* vTaskSwitchContext gives the processor to a task that is ready.         *)
LEMMA SwitchContextWakes ==
    ASSUME NEW s, ListsOk(s), NEW u \in Task, IsReady(s, u), SwitchContext(s)
    PROVE  /\ Wakes(k', s, {})
           /\ suspended > 0 => cur' = cur
           /\ ~(suspended > 0) => cur' \in Task /\ IsReady(k', cur')
<1>1. CASE suspended > 0
  <2>1. k' = [s EXCEPT !.yieldPending = TRUE] /\ cur' = cur
    BY <1>1 DEF SwitchContext
  <2>2. TRUE \in BOOLEAN /\ 0 \in 0 .. PendedSpan - 1
    BY SpanAssumption
  <2>3. Wakes(k', s, {})
    BY <2>1, <2>2, CountersAreNoLists
  <2>. QED
    BY <1>1, <2>1, <2>3
<1>2. CASE ~(suspended > 0)
  <2>1. k' = Switched(s) /\ cur' = Chosen(s)
    BY <1>2 DEF SwitchContext, Switched, Chosen
  <2>2. PICK r : r = Switched(s)
    OBVIOUS
  <2>3. PICK c : c = Chosen(s)
    OBVIOUS
  <2>4. /\ ListsOk(r) /\ SameStates(r, s)
        /\ c \in Task /\ IsReady(r, c)
    BY <2>2, <2>3, SwitchedLists
  <2>5. Wakes(r, s, {})
    BY <2>4 DEF Wakes, SameStates, Placed, Delayed, Up
  <2>. QED
    BY <1>2, <2>1, <2>2, <2>3, <2>4, <2>5
<1>. QED
  BY <1>1, <1>2

(* The task that runs next is the same or ready.                           *)
LEMMA SwitchIfWakes ==
    ASSUME NEW s, ListsOk(s), NEW u \in Task, IsReady(s, u), NEW b, SwitchIf(b, s)
    PROVE  /\ Wakes(k', s, {})
           /\ cur' = cur \/ (cur' \in Task /\ IsReady(k', cur'))
<1>1. CASE b
  BY <1>1, SwitchContextWakes DEF SwitchIf
<1>2. CASE ~b
  <2>1. k' = s /\ cur' = cur
    BY <1>2 DEF SwitchIf, Keep
  <2>. QED
    BY <2>1, WakesNone DEF SameLists
<1>. QED
  BY <1>1, <1>2

(* xTaskResumeAll keeps the running task or takes one that is ready.       *)
LEMMA ResumeAllWakes ==
    ASSUME ListsOk(k), NEW u \in Task, IsReady(k, u), suspended \in {1, 2},
           NEW yielded, ResumeAll(yielded)
    PROVE  /\ Wakes(k', k, {})
           /\ ~yielded => cur' = cur
           /\ yielded => cur' \in Task /\ IsReady(k', cur')
<1>1. CASE suspended = 2
  <2>1. suspended > 1
    BY <1>1
  <2>2. k' = k /\ cur' = cur /\ ~yielded
    BY <2>1 DEF ResumeAll
  <2>. QED
    BY <2>2, WakesNone DEF SameLists
<1>2. CASE suspended = 1
  <2>1. ~(suspended > 1)
    BY <1>2
  <2>2. PICK s : s = CatchUp(k)
    OBVIOUS
  <2>3. Wakes(s, k, {}) /\ ListsOk(s) /\ IsReady(s, u)
    BY <2>2, CatchUpWakes DEF Wakes
  <2>4. CASE yielded
    <3>1. k' = Switched(s) /\ cur' = Chosen(s)
      BY <2>1, <2>2, <2>4 DEF ResumeAll, Switched, Chosen
    <3>2. PICK r : r = Switched(s)
      OBVIOUS
    <3>3. PICK c : c = Chosen(s)
      OBVIOUS
    <3>4. ListsOk(r) /\ SameStates(r, s) /\ c \in Task /\ IsReady(r, c)
      BY <2>3, <3>2, <3>3, SwitchedLists
    <3>5. Wakes(r, s, {})
      BY <3>4 DEF Wakes, SameStates, Placed, Delayed, Up
    <3>6. Wakes(r, k, {} \cup {})
      BY <2>3, <3>5, WakesThen
    <3>. QED
      BY <2>4, <3>1, <3>2, <3>3, <3>4, <3>6
  <2>5. CASE ~yielded
    BY <2>1, <2>2, <2>3, <2>5 DEF ResumeAll, Keep
  <2>. QED
    BY <2>4, <2>5
<1>. QED
  BY <1>1, <1>2

(* The two items of a task leave their lists in either order.              *)
LEMMA RemovesCommute ==
    ASSUME NEW s \in KernelData, NEW tasks
    PROVE  RemoveGenericItems(RemoveEventItems(s, tasks), tasks)
             = RemoveEventItems(RemoveGenericItems(s, tasks), tasks)
<1>1. PICK w : w = [t \in Task |-> IF t \in tasks THEN 0 ELSE s.wakeAt[t]]
  OBVIOUS
<1>2. PICK y : y = [p \in Priorities |-> ListRemove(s.ready[p], tasks)]
  OBVIOUS
<1>3. PICK d : d = ListRemove(s.delayed, tasks)
  OBVIOUS
<1>4. PICK o : o = ListRemove(s.overflow, tasks)
  OBVIOUS
<1>5. PICK p : p = ListRemove(s.pendingReady, tasks)
  OBVIOUS
<1>6. PICK x : x = [e \in EventList |-> ListRemove(s.waiting[e], tasks)]
  OBVIOUS
<1>7. PICK r : r = RemoveEventItems(s, tasks)
  OBVIOUS
<1>8. PICK g : g = RemoveGenericItems(s, tasks)
  OBVIOUS
<1>9. r = [s EXCEPT !.pendingReady = p, !.waiting = x]
  BY <1>5, <1>6, <1>7 DEF RemoveEventItems
<1>10. g = [s EXCEPT !.wakeAt = w, !.ready = y, !.delayed = d, !.overflow = o]
  BY <1>1, <1>2, <1>3, <1>4, <1>8 DEF RemoveGenericItems
<1>11. /\ r.wakeAt = s.wakeAt /\ r.ready = s.ready /\ r.delayed = s.delayed
       /\ r.overflow = s.overflow
       /\ g.pendingReady = s.pendingReady /\ g.waiting = s.waiting
  BY <1>9, <1>10 DEF KernelData
<1>12. RemoveGenericItems(r, tasks)
         = [r EXCEPT !.wakeAt = w, !.ready = y, !.delayed = d, !.overflow = o]
  BY <1>1, <1>2, <1>3, <1>4, <1>11 DEF RemoveGenericItems
<1>13. RemoveEventItems(g, tasks) = [g EXCEPT !.pendingReady = p, !.waiting = x]
  BY <1>5, <1>6, <1>11 DEF RemoveEventItems
<1>14. RemoveGenericItems(r, tasks) = RemoveEventItems(g, tasks)
  BY <1>9, <1>10, <1>12, <1>13 DEF KernelData
<1>. QED
  BY <1>7, <1>8, <1>14

(* The first task of an event list wakes, or will when the scheduler runs. *)
LEMMA WakeOneWakes ==
    ASSUME NEW s, ListsOk(s), NEW e \in EventList
    PROVE  /\ s.waiting[e] = << >> => WakeOne(s, e).data = s
           /\ s.waiting[e] # << >> =>
                \E t \in Range(s.waiting[e]) : Wakes(WakeOne(s, e).data, s, {t})
<1>1. s \in KernelData /\ EventsOk(s) /\ EventsSleep(s) /\ GenericOk(s)
  BY DEF ListsOk
<1>2. s.waiting[e] \in Seq(Task)
  BY <1>1, KernelParts DEF EventsType
<1>3. ASSUME s.waiting[e] # << >>
      PROVE  \E t \in Range(s.waiting[e]) : Wakes(WakeOne(s, e).data, s, {t})
  <2>1. PICK t : t = Head(s.waiting[e])
    OBVIOUS
  <2>2. t \in Range(s.waiting[e]) /\ t \in Task
    BY <1>2, <1>3, <2>1, TailIs, RangeIs
  <2>3. t \in Delayed(s)
    BY <1>1, <2>2 DEF EventsSleep, OnEvent
  <2>4. PICK r : r = RemoveEventItems(s, {t})
    OBVIOUS
  <2>5. {t} \in SUBSET Task
    BY <2>2
  <2>6. /\ EventsOk(r)
        /\ \A u \in Task : OnEvent(r, u) <=> OnEvent(s, u) /\ u \notin {t}
        /\ Range(r.pendingReady) = Range(s.pendingReady) \ {t}
        /\ \A f \in EventList : Range(r.waiting[f]) = Range(s.waiting[f]) \ {t}
    BY <1>1, <2>4, <2>5, RemoveEventItemsOk
  <2>7. /\ r \in KernelData
        /\ r.ready = s.ready /\ r.delayed = s.delayed /\ r.overflow = s.overflow
        /\ r.wakeAt = s.wakeAt /\ r.top = s.top /\ r.terminated = s.terminated
    BY <1>1, <2>4, RemoveEventItemsIs
  <2>8. PICK g : g = RemoveGenericItems(r, {t})
    OBVIOUS
  <2>9. PICK w : w = IF suspended = 0 THEN AddTasksToReadyLists(g, << t >>)
                     ELSE [r EXCEPT !.pendingReady = Append(@, t)]
    OBVIOUS
  <2>10. Wakes(w, s, {t})
    <3>1. CASE suspended = 0
      <4>1. << t >> \in Seq(Task) /\ NoRepeats(<< t >>) /\ Range(<< t >>) = {t}
        BY <2>2, SingleIs
      <4>2. g = RemoveEventItems(RemoveGenericItems(s, {t}), {t})
        BY <1>1, <2>4, <2>8, RemovesCommute
      <4>3. w = Unblock(s, << t >>)
        BY <2>9, <3>1, <4>1, <4>2 DEF Unblock
      <4>. QED
        BY <2>3, <4>1, <4>3, UnblockWakes
    <3>2. CASE suspended # 0
      <4>1. PICK p : p = Append(r.pendingReady, t)
        OBVIOUS
      <4>2. w = [r EXCEPT !.pendingReady = p]
        BY <2>9, <3>2, <4>1
      <4>3. /\ p \in Seq(Task) /\ Range(p) = Range(r.pendingReady) \cup {t}
            /\ NoRepeats(p)
        <5>1. r.pendingReady \in Seq(Task) /\ NoRepeats(r.pendingReady)
          BY <2>6, <2>7, KernelParts DEF ListType, EventsOk
        <5>2. t \notin Range(r.pendingReady)
          BY <2>6
        <5>. QED
          BY <2>2, <4>1, <5>1, <5>2, AppendIs
      <4>4. /\ w \in KernelData /\ w.pendingReady = p
            /\ w.ready = s.ready /\ w.delayed = s.delayed /\ w.overflow = s.overflow
            /\ w.wakeAt = s.wakeAt /\ w.top = s.top /\ w.terminated = s.terminated
            /\ w.waiting = r.waiting
        BY <2>7, <4>2, <4>3 DEF KernelData, ListType
      <4>5. EventsOk(w)
        <5>1. /\ NoRepeats(w.pendingReady)
              /\ \A f \in EventList : w.waiting[f] = r.waiting[f] /\ NoRepeats(w.waiting[f])
          BY <2>6, <4>3, <4>4 DEF EventsOk
        <5>2. \A f \in EventList : /\ Range(w.waiting[f]) \cap Range(w.pendingReady) = {}
                                  /\ \A h \in EventList \ {f} :
                                        Range(w.waiting[f]) \cap Range(w.waiting[h]) = {}
          <6>1. \A f \in EventList :
                  /\ Range(r.waiting[f]) \cap Range(r.pendingReady) = {}
                  /\ \A h \in EventList \ {f} : Range(r.waiting[f]) \cap Range(r.waiting[h]) = {}
            BY <2>6 DEF EventsOk
          <6>2. \A f \in EventList : t \notin Range(r.waiting[f])
            BY <2>6
          <6>3. Range(w.pendingReady) = Range(r.pendingReady) \cup {t}
            BY <4>3, <4>4
          <6>. QED
            BY <5>1, <6>1, <6>2, <6>3
        <5>. QED
          BY <5>1, <5>2 DEF EventsOk
      <4>6. /\ Delayed(w) = Delayed(s)
            /\ \A u \in Task : IsReady(w, u) <=> IsReady(s, u)
        BY <4>4 DEF Delayed, IsReady
      <4>7. EventsSleep(w)
        <5>1. ASSUME NEW u \in Task, OnEvent(w, u) PROVE u \in Delayed(s)
          <6>1. u = t \/ OnEvent(r, u)
            BY <4>3, <4>4, <5>1 DEF OnEvent
          <6>. QED
            BY <1>1, <2>3, <2>6, <6>1 DEF EventsSleep
        <5>. QED
          BY <4>6, <5>1 DEF EventsSleep
      <4>8. GenericOk(w) /\ TopOk(w) /\ Sorted(w)
        BY <4>4, <4>6 DEF ListsOk, GenericOk, TopOk, Sorted
      <4>9. ListsOk(w)
        BY <4>4, <4>5, <4>7, <4>8 DEF ListsOk
      <4>10. \A u \in Task : Up(s, u) \/ u \in {t} => Up(w, u)
        BY <2>6, <4>3, <4>4, <4>6 DEF Up
      <4>. QED
        BY <2>6, <4>4, <4>6, <4>9, <4>10 DEF Wakes, Placed
    <3>. QED
      BY <3>1, <3>2
  <2>11. ListsOk(w) /\ w.yieldPending \in BOOLEAN
    BY <2>10, KernelParts DEF Wakes, ListsOk
  <2>12. PICK b \in BOOLEAN : b = (w.yieldPending \/ Priority[t] > Priority[cur])
    OBVIOUS
  <2>13. WakeOne(s, e).data = [w EXCEPT !.yieldPending = b]
    BY <1>3, <2>1, <2>4, <2>8, <2>9, <2>12 DEF WakeOne, RemoveFromEventList
  <2>14. Wakes(WakeOne(s, e).data, w, {})
    <3>1. 0 \in 0 .. PendedSpan - 1
      BY SpanAssumption
    <3>. QED
      BY <2>11, <2>13, <3>1, CountersAreNoLists
  <2>15. Wakes(WakeOne(s, e).data, s, {t} \cup {})
    BY <2>10, <2>14, WakesThen
  <2>16. {t} \cup {} = {t}
    OBVIOUS
  <2>. QED
    BY <2>2, <2>15, <2>16
<1>. QED
  BY <1>3 DEF WakeOne

(* A list without repeats has as many elements as its length.              *)
LEMMA LengthOfRange ==
    ASSUME NEW S, NEW s \in Seq(S), NoRepeats(s)
    PROVE  IsFiniteSet(Range(s)) /\ Cardinality(Range(s)) = Len(s) /\ Len(s) \in Nat
<1>1. Len(s) \in Nat /\ s \in [1 .. Len(s) -> S]
  BY LenProperties
<1>2. Range(s) = {s[i] : i \in 1 .. Len(s)}
  BY RangeIs
<1>3. s \in Bijection(1 .. Len(s), Range(s))
  BY <1>1, <1>2 DEF NoRepeats, Bijection, Injection, Surjection, IsInjective
<1>4. IsFiniteSet(1 .. Len(s)) /\ Cardinality(1 .. Len(s)) = Len(s)
  BY <1>1, FS_Interval
<1>5. ExistsBijection(1 .. Len(s), Range(s))
  BY <1>3 DEF ExistsBijection
<1>. QED
  BY <1>1, <1>4, <1>5, FS_Bijection

(* prvUnlockQueue wakes as many tasks as calls of interrupts were counted, *)
(* unless it comes to the end of the event list.                           *)
LEMMA WakeManyWakes ==
    ASSUME NEW s, ListsOk(s), NEW e \in EventList, NEW n \in Nat
    PROVE  \E woken \in SUBSET Range(s.waiting[e]) :
                /\ Wakes(WakeMany(s, e, n), s, woken)
                /\ WakeMany(s, e, n).waiting[e] # << >> => Cardinality(woken) = n
<1>1. PICK l : l = s.waiting[e]
  OBVIOUS
<1>2. /\ l \in Seq(Task) /\ IsFiniteSet(Range(l))
      /\ Cardinality(Range(l)) = Len(l) /\ Len(l) \in Nat
  <2>1. l \in Seq(Task) /\ NoRepeats(l)
    BY <1>1, KernelParts DEF ListsOk, EventsOk, EventsType
  <2>. QED
    BY <2>1, LengthOfRange
<1>3. PICK w \in Nat : w = Min({n, Len(l)})
  BY <1>2, MinIs
<1>4. w = n \/ w = Len(l)
  <2>1. {n, Len(l)} \subseteq Nat /\ {n, Len(l)} # {}
    BY <1>2
  <2>2. Min({n, Len(l)}) \in {n, Len(l)}
    BY <2>1, MinIs, Zenon
  <2>. QED
    BY <1>3, <2>2
<1>5. PICK f : f = WokenSoFar(w, s, e)
  OBVIOUS
<1>6. \A i \in 0 .. w : f[i] = IF i = 0 THEN s ELSE WakeOne(f[i - 1], e).data
  BY <1>5, WokenEnds
<1>. DEFINE Woke(r, v, i) == /\ v \in SUBSET Range(l) /\ Wakes(r, s, v)
                             /\ r.waiting[e] # << >> => Cardinality(v) = i
            T == {i \in 0 .. w : \E v : Woke(f[i], v, i)}
<1>7. 0 \in T
  <2>1. f[0] = s
    BY <1>6
  <2>2. Wakes(s, s, {})
    BY WakesNone DEF SameLists
  <2>3. Woke(s, {}, 0)
    BY <2>2, FS_EmptySet
  <2>. QED
    BY <2>1, <2>3
<1>8. ASSUME NEW i \in 1 .. w, i - 1 \in T PROVE i \in T
  <2>1. PICK r : r = f[i - 1]
    OBVIOUS
  <2>2. PICK v : Woke(r, v, i - 1)
    BY <1>8, <2>1
  <2>3. ListsOk(r) /\ f[i] = WakeOne(r, e).data
    BY <1>6, <2>1, <2>2 DEF Wakes
  <2>4. CASE r.waiting[e] = << >>
    <3>1. f[i] = r
      BY <2>3, <2>4, WakeOneWakes
    <3>2. Woke(f[i], v, i)
      BY <2>2, <2>4, <3>1
    <3>. QED
      BY <3>2
  <2>5. CASE r.waiting[e] # << >>
    <3>1. PICK t \in Range(r.waiting[e]) : Wakes(f[i], r, {t})
      BY <2>3, <2>5, WakeOneWakes
    <3>2. t \in Range(l) /\ t \notin v
      BY <1>1, <2>2 DEF Wakes
    <3>3. Wakes(f[i], s, v \cup {t})
      BY <2>2, <3>1, WakesThen
    <3>4. IsFiniteSet(v) /\ Cardinality(v) = i - 1
      BY <1>2, <2>2, <2>5, FS_Subset
    <3>5. Cardinality(v \cup {t}) = i
      <4>1. Cardinality(v \cup {t}) = Cardinality(v) + 1
        BY <3>2, <3>4, FS_AddElement, Zenon
      <4>2. i \in Int
        OBVIOUS
      <4>. QED
        BY <3>4, <4>1, <4>2
    <3>6. Woke(f[i], v \cup {t}, i)
      BY <2>2, <3>2, <3>3, <3>5
    <3>. QED
      BY <3>6
  <2>. QED
    BY <2>4, <2>5
<1>9. w \in T
  <2>. HIDE DEF T
  <2>. QED
    BY <1>7, <1>8, SetInduction
<1>10. PICK r : r = WakeMany(s, e, n)
  OBVIOUS
<1>11. r = f[w]
  BY <1>1, <1>3, <1>5, <1>10 DEF WakeMany, WokenSoFar
<1>12. PICK v : Woke(r, v, w)
  BY <1>9, <1>11
<1>13. r.waiting[e] # << >> => Cardinality(v) = n
  <2>1. SUFFICES ASSUME r.waiting[e] # << >>, w = Len(l) PROVE FALSE
    BY <1>4, <1>12
  <2>2. Range(l) = v
    BY <1>2, <1>12, <2>1, FS_Subset
  <2>3. Range(r.waiting[e]) = {}
    BY <1>1, <1>12, <2>2 DEF Wakes
  <2>4. r.waiting[e] \in Seq(Task)
    BY <1>12, KernelParts DEF Wakes, ListsOk, EventsType
  <2>. QED
    BY <2>1, <2>3, <2>4, RangeIs
<1>. QED
  BY <1>1, <1>10, <1>12, <1>13

-----------------------------------------------------------------------------
(* Who goes to sleep.                                                      *)

LEMMA ReadyIsAwake ==
    ASSUME NEW s, ListsOk(s), NEW t \in Task, IsReady(s, t)
    PROVE  /\ t \notin Delayed(s) /\ ~OnEvent(s, t) /\ Up(s, t)
           /\ \A e \in EventList : t \notin Range(s.waiting[e])
<1>1. t \in RingItems(s.ready[Priority[t]]) /\ Priority[t] \in Priorities
  BY TaskAssumption, PrioritiesAre DEF IsReady, RingItems
<1>2. t \notin Delayed(s)
  BY <1>1 DEF ListsOk, GenericOk
<1>3. ~OnEvent(s, t)
  BY <1>2 DEF ListsOk, EventsSleep
<1>. QED
  BY <1>2, <1>3 DEF OnEvent, Up

(* From s to r the running task goes to sleep, and no other list changes   *)
(* than the event list it may wait on.                                     *)
Rests(r, s) ==
    /\ ListsOk(r)
    /\ \A t \in Task : IsReady(r, t) <=> IsReady(s, t) /\ t # cur
    /\ \A t \in Task : t \in Delayed(r) <=> t \in Delayed(s) \/ t = cur
    /\ r.pendingReady = s.pendingReady /\ r.terminated = s.terminated

LEMMA DelayRests ==
    ASSUME NEW s, ListsOk(s), cur \in Task, NEW wake \in 0 .. MaxDelay
    PROVE  LET r == AddCurrentTaskToDelayedList(s, wake) IN
           Rests(r, s) /\ r.waiting = s.waiting
<1>1. /\ s \in KernelData /\ GenericOk(s) /\ EventsOk(s) /\ TopOk(s) /\ Sorted(s)
      /\ \A t \in Task \ {cur} : OnEvent(s, t) => t \in Delayed(s)
  BY DEF ListsOk, EventsSleep
<1>. QED
  BY <1>1, AddCurrentTaskToDelayedListLists DEF Rests

LEMMA PlaceRests ==
    ASSUME NEW s, ListsOk(s), cur \in Task, IsReady(s, cur), NEW e \in EventList,
           NEW wait \in 0 .. MaxDelay
    PROVE  LET r == PlaceOnEventList(s, e, wait) IN
           /\ Rests(r, s)
           /\ Range(r.waiting[e]) = Range(s.waiting[e]) \cup {cur}
           /\ \A f \in EventList \ {e} : r.waiting[f] = s.waiting[f]
<1>1. /\ s \in KernelData /\ GenericOk(s) /\ EventsOk(s) /\ EventsSleep(s)
      /\ TopOk(s) /\ Sorted(s) /\ s.waiting \in EventsType /\ s.tick \in 0 .. MaxDelay
  BY KernelParts DEF ListsOk, TickType
<1>2. ~OnEvent(s, cur) /\ \A f \in EventList : cur \notin Range(s.waiting[f])
  BY ReadyIsAwake
<1>3. PICK order : order = [t \in Task |-> -Priority[t]]
  OBVIOUS
<1>4. \A x \in Task : order[x] \in Int
  BY <1>3, TaskAssumption
<1>5. PICK l : l = ListInsert(s.waiting[e], cur, order)
  OBVIOUS
<1>6. l \in Seq(Task) /\ Range(l) = Range(s.waiting[e]) \cup {cur} /\ NoRepeats(l)
  <2>1. PICK a : a = s.waiting[e]
    OBVIOUS
  <2>2. a \in Seq(Task) /\ NoRepeats(a) /\ cur \notin Range(a)
    BY <1>1, <1>2, <2>1 DEF EventsType, EventsOk
  <2>3. LET y == ListInsert(a, cur, order) IN
        /\ y \in Seq(Task) /\ y # << >>
        /\ Range(y) = Range(a) \cup {cur}
        /\ NoRepeats(a) /\ cur \notin Range(a) => NoRepeats(y)
        /\ InOrder(a, order) => InOrder(y, order)
    BY <1>4, <2>2, ListInsertIs, Zenon
  <2>. QED
    BY <1>5, <2>1, <2>2, <2>3
<1>7. PICK x : x = [s.waiting EXCEPT ![e] = l]
  OBVIOUS
<1>8. x \in EventsType /\ x[e] = l /\ \A f \in EventList \ {e} : x[f] = s.waiting[f]
  BY <1>1, <1>6, <1>7 DEF EventsType
<1>9. PICK m : m = [s EXCEPT !.waiting = x]
  OBVIOUS
<1>10. /\ m \in KernelData /\ m.waiting = x
       /\ m.ready = s.ready /\ m.delayed = s.delayed /\ m.overflow = s.overflow
       /\ m.wakeAt = s.wakeAt /\ m.top = s.top /\ m.terminated = s.terminated
       /\ m.pendingReady = s.pendingReady /\ m.tick = s.tick
  BY <1>1, <1>8, <1>9 DEF KernelData
<1>11. /\ Delayed(m) = Delayed(s) /\ Sorted(m) /\ GenericOk(m) /\ TopOk(m)
       /\ \A t \in Task : IsReady(m, t) <=> IsReady(s, t)
  BY <1>1, <1>10 DEF Delayed, Sorted, GenericOk, TopOk, IsReady
<1>12. EventsOk(m)
  <2>1. \A f \in EventList : Range(x[f]) \subseteq Range(s.waiting[f]) \cup
                                (IF f = e THEN {cur} ELSE {})
    BY <1>6, <1>8
  <2>2. \A f \in EventList : NoRepeats(x[f])
    BY <1>1, <1>6, <1>8 DEF EventsOk
  <2>3. NoRepeats(m.pendingReady) /\ cur \notin Range(s.pendingReady)
    BY <1>1, <1>2, <1>10 DEF EventsOk, OnEvent
  <2>4. \A f \in EventList :
            /\ Range(s.waiting[f]) \cap Range(s.pendingReady) = {}
            /\ \A g \in EventList \ {f} : Range(s.waiting[f]) \cap Range(s.waiting[g]) = {}
    BY <1>1 DEF EventsOk
  <2>5. ASSUME NEW f \in EventList
        PROVE  /\ Range(x[f]) \cap Range(s.pendingReady) = {}
               /\ \A g \in EventList \ {f} : Range(x[f]) \cap Range(x[g]) = {}
    BY <1>2, <2>1, <2>3, <2>4
  <2>. QED
    BY <1>10, <2>2, <2>3, <2>5 DEF EventsOk
<1>13. \A t \in Task \ {cur} : OnEvent(m, t) => t \in Delayed(m)
  <2>1. ASSUME NEW t \in Task \ {cur}, OnEvent(m, t) PROVE OnEvent(s, t)
    BY <1>6, <1>8, <1>10, <2>1 DEF OnEvent
  <2>. QED
    BY <1>1, <1>11, <2>1 DEF EventsSleep
<1>14. PICK wake \in 0 .. MaxDelay : wake = (s.tick + wait) % TickSpan
  BY <1>1, AheadIs
<1>15. PICK r : r = AddCurrentTaskToDelayedList(m, wake)
  OBVIOUS
<1>16. /\ ListsOk(r)
       /\ \A t \in Task : IsReady(r, t) <=> IsReady(m, t) /\ t # cur
       /\ r.pendingReady = m.pendingReady /\ r.waiting = m.waiting
       /\ \A t \in Task : t \in Delayed(r) <=> t \in Delayed(m) \/ t = cur
       /\ r.terminated = m.terminated
  BY <1>10, <1>11, <1>12, <1>13, <1>15, AddCurrentTaskToDelayedListLists
<1>17. r = PlaceOnEventList(s, e, wait)
  BY <1>3, <1>5, <1>7, <1>9, <1>14, <1>15 DEF PlaceOnEventList
<1>18. Rests(r, s)
  BY <1>10, <1>11, <1>16 DEF Rests
<1>. QED
  BY <1>6, <1>8, <1>10, <1>16, <1>17, <1>18

-----------------------------------------------------------------------------
(* The lists and the calls belong together.                                *)

(* The places from which a call goes round the loop once more, unless it   *)
(* is there to give up.                                                    *)
TryPlaces == {"unlockTx", "unlockRx", "resume", "yield", "try"}
WillTry(at, c) == at \in TryPlaces /\ c.after = "try"

(* A task that is not ready any more runs on to the next yield.            *)
Leaving(at, c) == at = "yield" \/ (at \in {"unlockTx", "unlockRx", "resume"} /\ c.force)

RunningOk == IsReady(k, cur) \/ Leaving(pc[cur], call[cur])

(* Whoever waits on an event list called for it and will try again.        *)
WaitersOk ==
    \A e \in EventList : \A t \in Range(k.waiting[e]) :
        WillTry(pc[t], call[t]) /\ e = WaitsOn(call[t].op)

(* Tasks not yet created and tasks that are deleted are in no list.        *)
AbsentOk ==
    \A t \in Task :
        /\ pc[t] = "new" => ~Placed(k, t)
        /\ t \in Range(k.terminated) => ~Placed(k, t) /\ pc[t] # "new" /\ t # Idle
                                        /\ call[t].after # "try"

IdleAt(at, c) ==
    /\ at \in {"app", "resume", "reap"} /\ ~c.force /\ c.after \in {"app", "reap"}
    /\ at = "reap" \/ (at = "resume" /\ c.after = "reap") => k.terminated # << >>

RestOk ==
    /\ IsReady(k, Idle) /\ IdleAt(pc[Idle], call[Idle])
    /\ \A t \in Task : pc[t] \in {"delay", "until"} => call[t].force

ListInv ==
    /\ ListsOk(k) /\ cur \in Task /\ last \in [Task -> 0 .. MaxDelay]
    /\ RunningOk /\ WaitersOk /\ AbsentOk /\ RestOk

(* The running task moves on and no other does; it is ready, or it stays   *)
(* on its way round the loop.                                              *)
OthersStay == \A t \in Task \ {cur} : pc'[t] = pc[t] /\ call'[t] = call[t]
GoesOn ==
    WillTry(pc[cur], call[cur]) =>
        WillTry(pc'[cur], call'[cur]) /\ call'[cur].op = call[cur].op

Proceeds ==
    /\ OthersStay
    /\ pc'[cur] = "new" => pc[cur] = "new"
    /\ \/ IsReady(k, cur)
       \/ /\ GoesOn
          /\ call'[cur].after = "try" => call[cur].after = "try"
          /\ cur' = cur /\ ~IsReady(k', cur') => Leaving(pc'[cur], call'[cur])
    /\ cur = Idle => IdleAt(pc'[Idle], call'[Idle])
    /\ pc'[cur] \in {"delay", "until"} => call'[cur].force
    /\ last' \in [Task -> 0 .. MaxDelay]

LEMMA StayProceeds ==
    ASSUME ListInv, UNCHANGED << pc, call, last >>
    PROVE  Proceeds /\ GoesOn
<1>1. pc' = pc /\ call' = call /\ last' = last
  OBVIOUS
<1>. QED
  BY <1>1 DEF ListInv, RunningOk, RestOk, Proceeds, OthersStay, GoesOn

(* No step that only wakes tasks disturbs the lists.                       *)
LEMMA WakingKeepsLists ==
    ASSUME ListInv, Proceeds, NEW woken, Wakes(k', k, woken),
           cur' = cur \/ (cur' \in Task /\ IsReady(k', cur'))
    PROVE  ListInv'
<1>1. ListsOk(k)' /\ (cur \in Task)' /\ (last \in [Task -> 0 .. MaxDelay])'
  BY DEF ListInv, Wakes, Proceeds
<1>2. cur \in Task /\ Idle \in Task /\ k'.terminated = k.terminated
  BY TaskAssumption DEF ListInv, Wakes
<1>3. RunningOk'
  <2>1. CASE IsReady(k', cur')
    BY <2>1 DEF RunningOk, IsReady
  <2>2. CASE ~IsReady(k', cur')
    <3>1. cur' = cur /\ ~IsReady(k, cur)
      BY <1>2, <2>2 DEF Wakes
    <3>2. Leaving(pc'[cur], call'[cur])
      BY <2>2, <3>1 DEF Proceeds
    <3>. QED
      BY <3>1, <3>2 DEF RunningOk, Leaving
  <2>. QED
    BY <2>1, <2>2
<1>4. WaitersOk'
  <2>1. SUFFICES ASSUME NEW e \in EventList, NEW t \in Range(k'.waiting[e])
                 PROVE  WillTry(pc'[t], call'[t]) /\ e = WaitsOn(call'[t].op)
    BY DEF WaitersOk, WillTry, TryPlaces, WaitsOn
  <2>2. t \in Range(k.waiting[e])
    BY DEF Wakes
  <2>3. WillTry(pc[t], call[t]) /\ e = WaitsOn(call[t].op)
    BY <2>2 DEF ListInv, WaitersOk
  <2>4. t \in Task
    BY <2>2, KernelParts, RangeIs DEF ListInv, ListsOk, EventsType
  <2>5. CASE t = cur
    <3>1. ~IsReady(k, t)
      BY <2>2, <2>4, ReadyIsAwake DEF ListInv
    <3>. QED
      BY <2>3, <2>5, <3>1 DEF Proceeds, GoesOn
  <2>6. CASE t # cur
    BY <2>3, <2>4, <2>6 DEF Proceeds, OthersStay
  <2>. QED
    BY <2>5, <2>6
<1>5. AbsentOk'
  <2>1. SUFFICES ASSUME NEW t \in Task
                 PROVE  /\ pc'[t] = "new" => ~Placed(k', t)
                        /\ t \in Range(k'.terminated) =>
                              /\ ~Placed(k', t) /\ pc'[t] # "new" /\ t # Idle
                              /\ call'[t].after # "try"
    BY DEF AbsentOk, Placed, IsReady, Delayed
  <2>2. /\ pc[t] = "new" => ~Placed(k, t)
        /\ t \in Range(k.terminated) => ~Placed(k, t) /\ pc[t] # "new" /\ t # Idle
                                        /\ call[t].after # "try"
    BY DEF ListInv, AbsentOk
  <2>3. pc'[t] = "new" => pc[t] = "new"
    BY DEF Proceeds, OthersStay
  <2>4. ~Placed(k, t) => ~Placed(k', t)
    BY DEF Wakes
  <2>5. ~Placed(k, t) /\ call'[t].after = "try" => call[t].after = "try"
    BY DEF Proceeds, OthersStay, Placed
  <2>. QED
    BY <1>2, <2>2, <2>3, <2>4, <2>5
<1>6. RestOk'
  <2>1. IsReady(k, Idle)'
    <3>1. IsReady(k', Idle)
      BY <1>2 DEF ListInv, RestOk, Wakes
    <3>. QED
      BY <3>1 DEF IsReady
  <2>2. IdleAt(pc[Idle], call[Idle])'
    <3>1. IdleAt(pc'[Idle], call'[Idle])
      BY <1>2 DEF ListInv, RestOk, Proceeds, OthersStay
    <3>. QED
      BY <1>2, <3>1 DEF IdleAt
  <2>3. \A t \in Task : pc'[t] \in {"delay", "until"} => call'[t].force
    BY DEF ListInv, RestOk, Proceeds, OthersStay
  <2>. QED
    BY <2>1, <2>2, <2>3 DEF RestOk
<1>. QED
  BY <1>1, <1>3, <1>4, <1>5, <1>6 DEF ListInv

(* The same when the running task goes to sleep, in a delay or on an event *)
(* list.                                                                   *)
LEMMA RestingKeepsLists ==
    ASSUME ListInv, OthersStay, cur' = cur, IsReady(k, cur), cur # Idle, Rests(k', k),
           \A e \in EventList : \A t \in Range(k'.waiting[e]) :
                \/ t \in Range(k.waiting[e])
                \/ t = cur /\ WillTry(pc'[cur], call'[cur]) /\ e = WaitsOn(call'[cur].op),
           pc'[cur] \in {"unlockTx", "resume"}, call'[cur].force,
           last' \in [Task -> 0 .. MaxDelay]
    PROVE  ListInv'
<1>1. ListsOk(k)' /\ (cur \in Task)' /\ (last \in [Task -> 0 .. MaxDelay])'
  BY DEF ListInv, Rests
<1>2. cur \in Task /\ Idle \in Task /\ k'.terminated = k.terminated
  BY TaskAssumption DEF ListInv, Rests
<1>3. RunningOk'
  BY DEF RunningOk, Leaving
<1>4. WaitersOk'
  <2>1. SUFFICES ASSUME NEW e \in EventList, NEW t \in Range(k'.waiting[e])
                 PROVE  WillTry(pc'[t], call'[t]) /\ e = WaitsOn(call'[t].op)
    BY DEF WaitersOk, WillTry, TryPlaces, WaitsOn
  <2>2. CASE t \in Range(k.waiting[e])
    <3>1. WillTry(pc[t], call[t]) /\ e = WaitsOn(call[t].op)
      BY <2>2 DEF ListInv, WaitersOk
    <3>2. t \in Task
      BY <2>2, KernelParts, RangeIs DEF ListInv, ListsOk, EventsType
    <3>3. t # cur
      BY <2>2, <3>2, ReadyIsAwake DEF ListInv
    <3>. QED
      BY <3>1, <3>2, <3>3 DEF OthersStay
  <2>3. CASE t \notin Range(k.waiting[e])
    BY <2>3
  <2>. QED
    BY <2>2, <2>3
<1>5. AbsentOk'
  <2>1. SUFFICES ASSUME NEW t \in Task
                 PROVE  /\ pc'[t] = "new" => ~Placed(k', t)
                        /\ t \in Range(k'.terminated) =>
                              /\ ~Placed(k', t) /\ pc'[t] # "new" /\ t # Idle
                              /\ call'[t].after # "try"
    BY DEF AbsentOk, Placed, IsReady, Delayed
  <2>2. /\ pc[t] = "new" => ~Placed(k, t)
        /\ t \in Range(k.terminated) => ~Placed(k, t) /\ pc[t] # "new" /\ t # Idle
                                        /\ call[t].after # "try"
    BY DEF ListInv, AbsentOk
  <2>3. CASE t = cur
    BY <1>2, <2>2, <2>3 DEF Placed
  <2>4. CASE t # cur
    <3>1. Placed(k', t) => Placed(k, t)
      BY <2>4 DEF Placed, Rests
    <3>. QED
      BY <1>2, <2>2, <2>4, <3>1 DEF OthersStay
  <2>. QED
    BY <2>3, <2>4
<1>6. RestOk'
  <2>1. IsReady(k, Idle)'
    <3>1. IsReady(k', Idle)
      BY <1>2 DEF ListInv, RestOk, Rests
    <3>. QED
      BY <3>1 DEF IsReady
  <2>2. IdleAt(pc[Idle], call[Idle])'
    <3>1. IdleAt(pc'[Idle], call'[Idle])
      BY <1>2 DEF ListInv, RestOk, OthersStay
    <3>. QED
      BY <1>2, <3>1 DEF IdleAt
  <2>3. \A t \in Task : pc'[t] \in {"delay", "until"} => call'[t].force
    BY DEF ListInv, RestOk, OthersStay
  <2>. QED
    BY <2>1, <2>2, <2>3 DEF RestOk
<1>. QED
  BY <1>1, <1>3, <1>4, <1>5, <1>6 DEF ListInv

-----------------------------------------------------------------------------
(* How many tasks are awake for the messages, or the places, that lie in   *)
(* the queue.                                                              *)

Askers(e) == IF e = "toSend" THEN {"send"} ELSE {"receive", "peek"}

(* The tasks that are awake for e and will look at the queue again.        *)
Woken(e) == {t \in Task : Up(k, t) /\ WillTry(pc[t], call[t]) /\ call[t].op \in Askers(e)}

Enough(e, n) == k.waiting[e] # << >> => Cardinality(Woken(e)) >= n

(* A task t may be lost to a finite set while others join it.              *)
LEMMA CountsChange ==
    ASSUME NEW A, NEW B, NEW W, A \subseteq Task, B \subseteq Task, W \subseteq Task,
           NEW t, A \cap W = {}, (A \ {t}) \cup W \subseteq B
    PROVE  /\ Cardinality(A) \in Nat /\ Cardinality(B) \in Nat /\ Cardinality(W) \in Nat
           /\ Cardinality(B) >= Cardinality(A) + Cardinality(W) - 1
           /\ t \notin A \/ t \in B => Cardinality(B) >= Cardinality(A) + Cardinality(W)
<1>1. IsFiniteSet(A) /\ IsFiniteSet(B) /\ IsFiniteSet(W)
  BY TaskAssumption, FS_Subset
<1>2. Cardinality(A) \in Nat /\ Cardinality(B) \in Nat /\ Cardinality(W) \in Nat
  BY <1>1, FS_CardinalityType
<1>3. PICK C : C = A \ {t}
  OBVIOUS
<1>4. /\ IsFiniteSet(C)
      /\ Cardinality(C) = IF t \in A THEN Cardinality(A) - 1 ELSE Cardinality(A)
  BY <1>1, <1>3, FS_RemoveElement
<1>5. ASSUME NEW D \in {A, C}, D \cup W \subseteq B
      PROVE  Cardinality(B) >= Cardinality(D) + Cardinality(W)
  <2>1. IsFiniteSet(D) /\ D \cap W = {} /\ Cardinality(D) \in Nat
    BY <1>1, <1>3, <1>4, FS_CardinalityType
  <2>2. Cardinality(D \cup W) = Cardinality(D) + Cardinality(W) - Cardinality(D \cap W)
    BY <1>1, <2>1, FS_Union, Zenon
  <2>3. Cardinality(D \cap W) = 0
    BY <2>1, FS_EmptySet
  <2>4. Cardinality(D \cup W) <= Cardinality(B)
    BY <1>1, <1>5, FS_Subset
  <2>. QED
    BY <1>2, <2>1, <2>2, <2>3, <2>4
<1>6. Cardinality(B) >= Cardinality(C) + Cardinality(W)
  BY <1>3, <1>5
<1>7. CASE t \in A /\ t \notin B
  BY <1>2, <1>4, <1>6, <1>7
<1>8. CASE t \notin A
  BY <1>2, <1>4, <1>6, <1>8
<1>9. CASE t \in A /\ t \in B
  <2>1. A \cup W \subseteq B
    BY <1>9
  <2>2. Cardinality(B) >= Cardinality(A) + Cardinality(W)
    BY <1>5, <2>1
  <2>. QED
    BY <1>2, <2>2
<1>. QED
  BY <1>2, <1>7, <1>8, <1>9

(* Whoever waits on e asks for it.                                         *)
LEMMA WaitersAsk ==
    ASSUME ListInv, TimeoutInv, NEW e \in {"toReceive", "toSend"},
           NEW t \in Range(k.waiting[e])
    PROVE  /\ t \in Task /\ ~Up(k, t) /\ ~IsReady(k, t)
           /\ WillTry(pc[t], call[t]) /\ call[t].op \in Askers(e)
<1>1. e \in EventList
  BY QueueAssumption
<1>2. t \in Task
  BY <1>1, KernelParts, RangeIs DEF ListInv, ListsOk, EventsType
<1>3. ~IsReady(k, t)
  BY <1>1, <1>2, ReadyIsAwake DEF ListInv
<1>4. ~Up(k, t)
  <2>1. t \in Delayed(k)
    BY <1>1, <1>2 DEF ListInv, ListsOk, EventsSleep, OnEvent
  <2>2. t \notin Range(k.pendingReady)
    BY <1>1 DEF ListInv, ListsOk, EventsOk
  <2>. QED
    BY <2>1, <2>2 DEF Up
<1>5. WillTry(pc[t], call[t]) /\ e = WaitsOn(call[t].op)
  BY <1>1 DEF ListInv, WaitersOk
<1>6. call[t].op \in {"send", "receive", "peek"}
  BY <1>2, <1>5 DEF TimeoutInv, TaskOnTime, TimedCall, WillTry
<1>. QED
  BY <1>2, <1>3, <1>4, <1>5, <1>6 DEF WaitsOn, Askers

LEMMA FewerWait ==
    ASSUME NEW a \in Seq(Task), NEW b \in Seq(Task), Range(a) \subseteq Range(b), a # << >>
    PROVE  b # << >>
<1>1. Range(a) # {}
  BY RangeIs
<1>2. Range(b) # {}
  BY <1>1
<1>. QED
  BY <1>2, RangeIs

(* Tasks are woken, and the running task takes what it asked for or stays. *)
LEMMA WakingKeepsEnough ==
    ASSUME ListInv, TimeoutInv, OthersStay, IsReady(k, cur) \/ GoesOn,
           NEW e \in {"toReceive", "toSend"}, NEW W \in SUBSET Range(k.waiting[e]),
           Wakes(k', k, W), NEW n \in Int, NEW m \in Int, Enough(e, n),
           k'.waiting[e] # << >> =>
                \/ m <= n + Cardinality(W) - 1
                \/ m <= n + Cardinality(W) /\ (GoesOn \/ call[cur].op \notin Askers(e))
    PROVE  k'.waiting[e] # << >> => Cardinality(Woken(e)') >= m
<1>1. SUFFICES ASSUME k'.waiting[e] # << >> PROVE Cardinality(Woken(e)') >= m
  OBVIOUS
<1>2. e \in EventList
  BY QueueAssumption
<1>3. k.waiting[e] # << >>
  <2>1. /\ k.waiting[e] \in Seq(Task) /\ k'.waiting[e] \in Seq(Task)
        /\ Range(k'.waiting[e]) \subseteq Range(k.waiting[e])
    BY <1>2, KernelParts DEF ListInv, Wakes, ListsOk, EventsType
  <2>. QED
    BY <1>1, <2>1, FewerWait
<1>4. Cardinality(Woken(e)) >= n
  BY <1>3 DEF Enough
<1>5. W \subseteq Task /\ Woken(e) \cap W = {}
  BY WaitersAsk DEF Woken
<1>6. Woken(e)' = {t \in Task : /\ Up(k', t) /\ WillTry(pc'[t], call'[t])
                                /\ call'[t].op \in Askers(e)}
  BY DEF Woken, Up, WillTry, TryPlaces, Delayed, Askers
<1>7. (Woken(e) \ {cur}) \cup W \subseteq Woken(e)'
  <2>1. ASSUME NEW t \in Woken(e), t # cur PROVE t \in Woken(e)'
    BY <1>6, <2>1 DEF Woken, Wakes, OthersStay
  <2>2. ASSUME NEW t \in W PROVE t \in Woken(e)'
    <3>1. /\ t \in Task /\ ~IsReady(k, t)
          /\ WillTry(pc[t], call[t]) /\ call[t].op \in Askers(e)
      BY WaitersAsk
    <3>2. WillTry(pc'[t], call'[t]) /\ call'[t].op = call[t].op
      BY <3>1 DEF OthersStay, GoesOn
    <3>. QED
      BY <1>6, <3>1, <3>2 DEF Wakes
  <2>. QED
    BY <2>1, <2>2
<1>8. GoesOn \/ call[cur].op \notin Askers(e) => cur \notin Woken(e) \/ cur \in Woken(e)'
  BY <1>6 DEF Woken, GoesOn, Wakes
<1>9. PICK a : a = Cardinality(Woken(e))
  OBVIOUS
<1>10. PICK b : b = Cardinality(Woken(e)')
  OBVIOUS
<1>11. PICK w : w = Cardinality(W)
  OBVIOUS
<1>12. /\ a \in Nat /\ b \in Nat /\ w \in Nat /\ b >= a + w - 1
       /\ GoesOn \/ call[cur].op \notin Askers(e) => b >= a + w
  <2>1. Woken(e) \subseteq Task /\ Woken(e)' \subseteq Task
    BY <1>6 DEF Woken
  <2>. QED
    BY <1>5, <1>7, <1>8, <1>9, <1>10, <1>11, <2>1, CountsChange
<1>. QED
  BY <1>1, <1>4, <1>9, <1>10, <1>11, <1>12

(* Nobody is lost.                                                         *)
LEMMA KeepsEnough ==
    ASSUME ListInv, NEW e \in {"toReceive", "toSend"}, NEW n \in Int, NEW m \in Int,
           Enough(e, n), m <= n,
           k'.waiting[e] # << >> => k.waiting[e] # << >>, Woken(e) \subseteq Woken(e)'
    PROVE  k'.waiting[e] # << >> => Cardinality(Woken(e)') >= m
<1>1. PICK A : A = Woken(e)
  OBVIOUS
<1>2. PICK B : B = Woken(e)'
  OBVIOUS
<1>3. A \subseteq B /\ B \subseteq Task
  BY <1>1, <1>2 DEF Woken
<1>4. IsFiniteSet(B)
  BY <1>3, TaskAssumption, FS_Subset
<1>5. IsFiniteSet(A) /\ Cardinality(A) <= Cardinality(B)
  BY <1>3, <1>4, FS_Subset
<1>6. Cardinality(A) \in Nat /\ Cardinality(B) \in Nat
  BY <1>4, <1>5, FS_CardinalityType
<1>. QED
  BY <1>1, <1>2, <1>5, <1>6 DEF Enough

-----------------------------------------------------------------------------
(* The steps of the kernel.                                                *)

(* What lies in the queue for those who wait on e: messages, or places.    *)
(* What interrupts moved on a locked queue is left to prvUnlockQueue.      *)
Left(e) ==
    LET lies == IF e = "toSend" THEN Length - q.count ELSE q.count
        lock == IF e = "toSend" THEN q.rxLock ELSE q.txLock
    IN IF lock = Unlocked THEN lies ELSE lies - lock

AllWoken(e) == Enough(e, Left(e))

(* A task goes to sleep only on a queue that has nothing for it.           *)
PlaceOk == \A t \in Task : pc[t] = "place" => Left(WaitsOn(call[t].op)) <= 0

CallInv == IInv /\ TimeoutInv /\ ListInv

LEMMA LeftIs ==
    ASSUME IInv, NEW e
    PROVE  /\ Left(e) \in Int
           /\ q.count \in 0 .. Length /\ Length \in Nat
           /\ q.txLock \in Int /\ q.rxLock \in Int
<1>1. /\ q.count \in 0 .. Length /\ q.txLock \in Unlocked .. MaxLocked
      /\ q.rxLock \in Unlocked .. MaxLocked
  BY DEF IInv, Typed, Queues
<1>. QED
  BY <1>1, QueueAssumption DEF Left, Unlocked

LEMMA WakingStep ==
    ASSUME CallInv, NEW e \in {"toReceive", "toSend"}, AllWoken(e), Proceeds, GoesOn,
           NEW w, Wakes(k', k, w), cur' = cur \/ (cur' \in Task /\ IsReady(k', cur')),
           NEW m \in Int, m = Left(e)', m <= Left(e)
    PROVE  ListInv' /\ AllWoken(e)'
<1>1. ListInv'
  BY WakingKeepsLists DEF CallInv
<1>2. Wakes(k', k, {})
  BY WakesFewer
<1>3. PICK n \in Int : n = Left(e)
  BY LeftIs DEF CallInv
<1>4. Cardinality({}) = 0 /\ {} \in SUBSET Range(k.waiting[e])
  BY FS_EmptySet
<1>5. k'.waiting[e] # << >> => Cardinality(Woken(e)') >= m
  <2>1. OthersStay /\ Enough(e, n) /\ m <= n + Cardinality({})
    BY <1>3, <1>4 DEF Proceeds, AllWoken
  <2>. QED
    BY <1>2, <1>4, <2>1, WakingKeepsEnough DEF CallInv
<1>. QED
  BY <1>1, <1>5 DEF AllWoken, Enough

LEMMA WakingKernelStep ==
    ASSUME CallInv, NEW e \in {"toReceive", "toSend"}, AllWoken(e), Proceeds, GoesOn, q' = q,
           Wakes(k', k, {}), cur' = cur \/ (cur' \in Task /\ IsReady(k', cur'))
    PROVE  ListInv' /\ AllWoken(e)'
<1>1. Left(e)' = Left(e)
  BY DEF Left
<1>2. PICK m \in Int : m = Left(e)
  BY LeftIs DEF CallInv
<1>3. m <= Left(e) /\ m = Left(e)'
  BY <1>1, <1>2
<1>. QED
  BY <1>3, WakingStep

(* What GoToDue makes of the places and the calls.                         *)
LEMMA GoToIs ==
    ASSUME CallInv, NEW t \in Task, NEW at, NEW c, NEW d, GoToDue(t, at, c, d)
    PROVE  /\ pc'[t] = at /\ last' = last
           /\ call'[t] = IF at = "app" /\ c.op \notin {"delay", "until"} THEN NoCall ELSE c
           /\ \A u \in Task \ {t} : pc'[u] = pc[u] /\ call'[u] = call[u]
<1>1. pc \in [Task -> AnyPlace] /\ call \in [Task -> CallRecords]
  BY DEF CallInv, IInv, Typed, TimeoutInv
<1>. QED
  BY <1>1 DEF GoToDue

LEMMA MovesOn ==
    ASSUME CallInv, NEW t \in Task, cur = t, t # Idle, IsReady(k, t),
           NEW at, at # "new", NEW c, at \in {"delay", "until"} => c.force,
           NEW d, GoToDue(t, at, c, d)
    PROVE  Proceeds
BY GoToIs DEF CallInv, ListInv, Proceeds, OthersStay

LEMMA RunningIs ==
    ASSUME CallInv, NEW t \in Task, cur = t
    PROVE  /\ IsReady(k, t) \/ Leaving(pc[t], call[t])
           /\ pc[t] \notin {"yield", "unlockTx", "unlockRx", "resume"} => IsReady(k, t)
           /\ pc[t] \notin {"app", "resume", "reap"} => t # Idle
           /\ ListsOk(k) /\ IsReady(k, Idle) /\ Idle \in Task
           /\ call[t] \in CallRecords
           /\ t = Idle => IdleAt(pc[t], call[t])
           /\ pc[t] \in HeldPlaces => suspended \in {1, 2}
           /\ pc[t] \notin HeldPlaces => suspended = 0
<1>1. IsReady(k, t) \/ Leaving(pc[t], call[t])
  BY DEF CallInv, ListInv, RunningOk
<1>2. IsReady(k, Idle) /\ IdleAt(pc[Idle], call[Idle]) /\ ListsOk(k)
  BY DEF CallInv, ListInv, RestOk
<1>3. call[t] \in CallRecords
  BY DEF CallInv, TimeoutInv
<1>4. pc[t] \in HeldPlaces => suspended \in {1, 2}
  BY DEF CallInv, IInv, Typed, OneTaskHoldsScheduler
<1>5. pc[t] \notin HeldPlaces => suspended = 0
  BY OutsideIsFree DEF CallInv
<1>. QED
  BY <1>1, <1>2, <1>3, <1>4, <1>5, TaskAssumption DEF Leaving, IdleAt

LEMMA CallerIsReady ==
    ASSUME CallInv, NEW t \in Task, NEW op, Calls(t, op)
    PROVE  /\ cur = t /\ t # Idle /\ IsReady(k, t) /\ suspended = 0 /\ pc[t] = "app"
           /\ op \in Program[t] /\ pc[t] \notin TryPlaces
<1>1. cur = t /\ pc[t] = "app" /\ suspended = 0 /\ op \in Program[t]
  BY DEF Calls, Running
<1>2. t # Idle
  BY <1>1, TaskAssumption
<1>3. IsReady(k, t)
  BY <1>1, RunningIs
<1>. QED
  BY <1>1, <1>2, <1>3 DEF TryPlaces

LEMMA TickSleeps ==
    ASSUME CallInv, NEW e \in {"toReceive", "toSend"}, AllWoken(e), q' = q, Tick
    PROVE  ListInv' /\ AllWoken(e)'
<1>1. ListsOk(k) /\ IsReady(k, Idle) /\ Idle \in Task /\ k.pended \in Nat
  BY TaskAssumption DEF CallInv, ListInv, RestOk, TimeoutInv, ClockOk
<1>2. \E s : Wakes(s, k, {}) /\ \E b : SwitchIf(b, s)
  <2>1. CASE suspended > 0
    <3>1. PICK n : n = (k.pended + 1) % PendedSpan
      OBVIOUS
    <3>2. n \in 0 .. PendedSpan - 1
      BY <1>1, <3>1, SpanAssumption
    <3>3. PICK s : s = [k EXCEPT !.pended = n]
      OBVIOUS
    <3>4. SwitchIf(k.yieldPending, s)
      BY <2>1, <3>1, <3>3 DEF Tick
    <3>5. Wakes(s, k, {})
      BY <1>1, <3>2, <3>3, CountersAreNoLists
    <3>. QED
      BY <3>4, <3>5
  <2>2. CASE ~(suspended > 0)
    <3>1. PICK r : r = IncrementTick(k)
      OBVIOUS
    <3>2. SwitchIf(r.switch, r.data)
      BY <2>2, <3>1 DEF Tick
    <3>3. Wakes(r.data, k, {})
      BY <1>1, <3>1, IncrementTickWakes
    <3>. QED
      BY <3>2, <3>3
  <2>. QED
    BY <2>1, <2>2
<1>3. PICK s, b : Wakes(s, k, {}) /\ SwitchIf(b, s)
  BY <1>2
<1>4. ListsOk(s) /\ IsReady(s, Idle)
  BY <1>1, <1>3 DEF Wakes
<1>5. Wakes(k', s, {}) /\ (cur' = cur \/ (cur' \in Task /\ IsReady(k', cur')))
  BY <1>1, <1>3, <1>4, SwitchIfWakes
<1>6. Wakes(k', k, {} \cup {})
  BY <1>3, <1>5, WakesThen
<1>7. Wakes(k', k, {})
  BY <1>6
<1>8. Proceeds /\ GoesOn
  BY StayProceeds DEF Tick, CallInv
<1>. QED
  BY <1>5, <1>7, <1>8, WakingKernelStep

(* A switch of tasks with nothing else.                                    *)
LEMMA SwitchSleeps ==
    ASSUME CallInv, NEW e \in {"toReceive", "toSend"}, AllWoken(e), q' = q,
           SwitchContext(k), Proceeds, GoesOn
    PROVE  ListInv' /\ AllWoken(e)'
<1>1. ListsOk(k) /\ IsReady(k, Idle) /\ Idle \in Task
  BY TaskAssumption DEF CallInv, ListInv, RestOk
<1>2. /\ Wakes(k', k, {})
      /\ suspended > 0 => cur' = cur
      /\ ~(suspended > 0) => cur' \in Task /\ IsReady(k', cur')
  BY <1>1, SwitchContextWakes
<1>. QED
  BY <1>2, WakingKernelStep

(* A step that leaves the lists alone.                                     *)
LEMMA StillSleeps ==
    ASSUME CallInv, NEW e \in {"toReceive", "toSend"}, AllWoken(e), q' = q,
           k' = k, cur' = cur, Proceeds, GoesOn
    PROVE  ListInv' /\ AllWoken(e)'
<1>1. Wakes(k', k, {})
  BY WakesNone DEF CallInv, ListInv, SameLists
<1>. QED
  BY <1>1, WakingKernelStep

LEMMA ResumeSleeps ==
    ASSUME CallInv, NEW e \in {"toReceive", "toSend"}, AllWoken(e), q' = q,
           NEW t \in Task, Resume(t)
    PROVE  ListInv' /\ AllWoken(e)'
<1>1. cur = t /\ pc[t] = "resume"
  BY DEF Resume, Running
<1>2. PICK y \in BOOLEAN :
        /\ ResumeAll(y)
        /\ GoTo(t, IF call[t].force /\ ~y THEN "yield" ELSE call[t].after, call[t])
  BY DEF Resume
<1>3. /\ ListsOk(k) /\ IsReady(k, Idle) /\ Idle \in Task /\ suspended \in {1, 2}
      /\ call[t].after \in AfterPlaces
  BY <1>1, RunningIs DEF HeldPlaces, Leaving, CallRecords
<1>4. /\ Wakes(k', k, {}) /\ (~y => cur' = cur)
      /\ (y => cur' \in Task /\ IsReady(k', cur'))
  BY <1>2, <1>3, ResumeAllWakes
<1>5. PICK at : at = IF call[t].force /\ ~y THEN "yield" ELSE call[t].after
  OBVIOUS
<1>6. /\ pc'[t] = at /\ last' = last
      /\ call'[t] = IF at = "app" /\ call[t].op \notin {"delay", "until"}
                    THEN NoCall ELSE call[t]
      /\ \A u \in Task \ {t} : pc'[u] = pc[u] /\ call'[u] = call[u]
  BY <1>2, <1>5, GoToIs DEF GoTo
<1>7. at \in AfterPlaces \cup {"yield"}
  BY <1>3, <1>5
<1>8. GoesOn
  <2>1. SUFFICES ASSUME call[t].after = "try" PROVE at \in {"yield", "try"}
    BY <1>1, <1>6 DEF GoesOn, WillTry, TryPlaces
  <2>. QED
    BY <1>5, <2>1
<1>9. Proceeds
  <2>1. OthersStay /\ pc'[cur] # "new" /\ pc'[cur] \notin {"delay", "until"}
    BY <1>1, <1>6, <1>7 DEF OthersStay, AfterPlaces
  <2>2. call'[cur].after = "try" => call[cur].after = "try"
    BY <1>1, <1>6, NoCallRecord
  <2>3. IsReady(k, cur) \/ (cur' = cur /\ ~IsReady(k', cur') => Leaving(pc'[cur], call'[cur]))
    <3>1. CASE y
      BY <1>4, <3>1
    <3>2. CASE ~y
      <4>1. SUFFICES ASSUME ~IsReady(k, t) PROVE Leaving(pc'[t], call'[t])
        BY <1>1
      <4>2. call[t].force
        BY <1>1, <4>1, RunningIs DEF Leaving
      <4>. QED
        BY <1>5, <1>6, <3>2, <4>2 DEF Leaving
    <3>. QED
      BY <3>1, <3>2
  <2>4. ASSUME t = Idle PROVE IdleAt(pc'[Idle], call'[Idle])
    <3>1. IdleAt("resume", call[t])
      BY <1>1, <2>4, RunningIs
    <3>2. at = call[t].after
      BY <1>5, <3>1 DEF IdleAt
    <3>3. ~NoCall.force /\ NoCall.after = "app"
      BY DEF NoCall
    <3>. QED
      BY <1>6, <2>4, <3>1, <3>2, <3>3 DEF IdleAt
  <2>5. last' \in [Task -> 0 .. MaxDelay]
    BY <1>6 DEF CallInv, ListInv
  <2>. QED
    BY <1>1, <1>8, <2>1, <2>2, <2>3, <2>4, <2>5 DEF Proceeds
<1>. QED
  BY <1>4, <1>8, <1>9, WakingKernelStep

LEMMA YieldWithinSleeps ==
    ASSUME CallInv, NEW e \in {"toReceive", "toSend"}, AllWoken(e), q' = q,
           NEW t \in Task, YieldWithinApi(t)
    PROVE  ListInv' /\ AllWoken(e)'
<1>1. /\ cur = t /\ pc[t] = "yield" /\ SwitchContext(k)
      /\ GoTo(t, call[t].after, call[t])
  BY DEF YieldWithinApi, Running
<1>2. /\ ListsOk(k) /\ IsReady(k, Idle) /\ Idle \in Task /\ suspended = 0
      /\ t # Idle /\ call[t].after \in AfterPlaces
  BY <1>1, RunningIs DEF HeldPlaces, CallRecords
<1>3. cur' \in Task /\ IsReady(k', cur')
  BY <1>1, <1>2, SwitchContextWakes
<1>4. PICK at : at = call[t].after
  OBVIOUS
<1>5. /\ pc'[t] = at /\ last' = last
      /\ call'[t] = IF at = "app" /\ call[t].op \notin {"delay", "until"}
                    THEN NoCall ELSE call[t]
      /\ \A u \in Task \ {t} : pc'[u] = pc[u] /\ call'[u] = call[u]
  BY <1>1, <1>4, GoToIs DEF GoTo
<1>6. GoesOn
  <2>1. SUFFICES ASSUME call[t].after = "try" PROVE at = "try"
    BY <1>1, <1>5 DEF GoesOn, WillTry, TryPlaces
  <2>. QED
    BY <1>4, <2>1
<1>7. Proceeds
  <2>1. OthersStay /\ pc'[cur] # "new" /\ pc'[cur] \notin {"delay", "until"}
    BY <1>1, <1>2, <1>4, <1>5 DEF OthersStay, AfterPlaces
  <2>2. call'[cur].after = "try" => call[cur].after = "try"
    BY <1>1, <1>5, NoCallRecord
  <2>3. last' \in [Task -> 0 .. MaxDelay]
    BY <1>5 DEF CallInv, ListInv
  <2>. QED
    BY <1>1, <1>2, <1>3, <1>6, <2>1, <2>2, <2>3 DEF Proceeds
<1>. QED
  BY <1>1, <1>6, <1>7, SwitchSleeps

LEMMA AppResumeAllSleeps ==
    ASSUME CallInv, NEW e \in {"toReceive", "toSend"}, AllWoken(e), q' = q,
           NEW t \in Task, AppResumeAll(t)
    PROVE  ListInv' /\ AllWoken(e)'
<1>1. /\ cur = t /\ pc[t] \in {"held", "release"}
      /\ GoTo(t, IF suspended = 1 THEN "app" ELSE "release", NoCall)
  BY DEF AppResumeAll, Running
<1>2. PICK y : ResumeAll(y)
  BY DEF AppResumeAll
<1>3. /\ ListsOk(k) /\ IsReady(k, Idle) /\ Idle \in Task /\ suspended \in {1, 2}
      /\ t # Idle /\ IsReady(k, t)
  BY <1>1, RunningIs DEF HeldPlaces
<1>4. Wakes(k', k, {}) /\ (cur' = cur \/ (cur' \in Task /\ IsReady(k', cur')))
  BY <1>2, <1>3, ResumeAllWakes
<1>5. Proceeds
  <2>1. PICK at : at = IF suspended = 1 THEN "app" ELSE "release"
    OBVIOUS
  <2>2. at \notin {"new", "delay", "until"} /\ GoToDue(t, at, NoCall, due[t])
    BY <1>1, <2>1 DEF GoTo
  <2>. QED
    BY <1>1, <1>3, <2>2, MovesOn
<1>6. GoesOn
  BY <1>1 DEF GoesOn, WillTry, TryPlaces
<1>. QED
  BY <1>4, <1>5, <1>6, WakingKernelStep

LEMMA DeleteResetSleeps ==
    ASSUME CallInv, NEW e \in {"toReceive", "toSend"}, AllWoken(e), q' = q,
           NEW t \in Task, DeleteReset(t)
    PROVE  ListInv' /\ AllWoken(e)'
<1>1. /\ cur = t /\ pc[t] = "reset" /\ GoTo(t, "app", NoCall)
      /\ k' = ResetNextTaskUnblockTime(k) /\ cur' = cur
  BY DEF DeleteReset, Running, Keep
<1>2. ListsOk(k) /\ t # Idle /\ IsReady(k, t)
  BY <1>1, RunningIs
<1>3. Wakes(k', k, {})
  <2>1. PICK r : r = ResetNextTaskUnblockTime(k)
    OBVIOUS
  <2>2. /\ ListsOk(r) /\ SameLists(r, k)
        /\ r.delayed = k.delayed /\ r.overflow = k.overflow
        /\ r.terminated = k.terminated
    BY <1>2, <2>1, ResetNextTaskUnblockTimeIs
  <2>. QED
    BY <1>1, <1>2, <2>1, <2>2, WakesNone DEF Delayed
<1>4. Proceeds
  BY <1>1, <1>2, MovesOn DEF GoTo
<1>5. GoesOn
  BY <1>1 DEF GoesOn, WillTry, TryPlaces
<1>. QED
  BY <1>1, <1>3, <1>4, <1>5, WakingKernelStep

(* A task that goes to sleep in a delay was not on its way to the queue.   *)
LEMMA RestingKeepsEnough ==
    ASSUME CallInv, NEW e \in {"toReceive", "toSend"}, AllWoken(e), q' = q,
           OthersStay, Rests(k', k), pc[cur] \notin TryPlaces,
           k'.waiting[e] # << >> => k.waiting[e] # << >>
    PROVE  AllWoken(e)'
<1>1. Woken(e)' = {t \in Task : /\ Up(k', t) /\ WillTry(pc'[t], call'[t])
                                /\ call'[t].op \in Askers(e)}
  BY DEF Woken, Up, WillTry, TryPlaces, Delayed, Askers
<1>2. Woken(e) \subseteq Woken(e)'
  BY <1>1 DEF Woken, WillTry, Up, Rests, OthersStay
<1>3. Left(e)' = Left(e)
  BY DEF Left
<1>4. PICK n \in Int : n = Left(e)
  BY LeftIs DEF CallInv
<1>5. k'.waiting[e] # << >> => Cardinality(Woken(e)') >= n
  BY <1>2, <1>4, KeepsEnough DEF CallInv, AllWoken
<1>. QED
  BY <1>3, <1>4, <1>5 DEF AllWoken, Enough

LEMMA DelaySleeps ==
    ASSUME CallInv, NEW e \in {"toReceive", "toSend"}, AllWoken(e), q' = q,
           NEW t \in Task, cur = t, pc[t] \in {"delay", "until"}, cur' = cur,
           NEW wake \in 0 .. MaxDelay, k' = AddCurrentTaskToDelayedList(k, wake),
           OthersStay, pc'[t] = "resume", call'[t].force, last' \in [Task -> 0 .. MaxDelay]
    PROVE  ListInv' /\ AllWoken(e)'
<1>1. ListsOk(k) /\ t # Idle /\ IsReady(k, t)
  BY RunningIs
<1>2. Rests(k', k) /\ k'.waiting = k.waiting
  BY <1>1, DelayRests
<1>3. ListInv'
  BY <1>1, <1>2, RestingKeepsLists DEF CallInv
<1>4. AllWoken(e)'
  BY <1>2, RestingKeepsEnough DEF TryPlaces
<1>. QED
  BY <1>3, <1>4

LEMMA DelayPlaceSleeps ==
    ASSUME CallInv, NEW e \in {"toReceive", "toSend"}, AllWoken(e), q' = q,
           NEW t \in Task, DelayPlace(t)
    PROVE  ListInv' /\ AllWoken(e)'
<1>1. PICK c : c = [call[t] EXCEPT !.wait = 0]
  OBVIOUS
<1>2. PICK wake : wake = (k.tick + call[t].wait) % TickSpan
  OBVIOUS
<1>3. PICK d : d = call[t].wait - k.pended
  OBVIOUS
<1>4. /\ cur = t /\ pc[t] = "delay" /\ k' = AddCurrentTaskToDelayedList(k, wake)
      /\ cur' = cur /\ GoToDue(t, "resume", c, d)
  BY <1>1, <1>2, <1>3 DEF DelayPlace, Running, Keep
<1>5. call[t] \in CallRecords /\ k.tick \in 0 .. MaxDelay /\ call[t].force
  BY <1>4, RunningIs DEF CallInv, TimeoutInv, ClockOk, ListInv, RestOk
<1>6. wake \in 0 .. MaxDelay
  BY <1>2, <1>5, AheadIs DEF CallRecords
<1>7. c.force
  BY <1>1, <1>5 DEF CallRecords
<1>8. /\ pc'[t] = "resume" /\ last' = last /\ call'[t] = c
      /\ \A u \in Task \ {t} : pc'[u] = pc[u] /\ call'[u] = call[u]
  BY <1>4, GoToIs
<1>. QED
  BY <1>4, <1>6, <1>7, <1>8, DelaySleeps DEF OthersStay, CallInv, ListInv

LEMMA UntilPlaceSleeps ==
    ASSUME CallInv, NEW e \in {"toReceive", "toSend"}, AllWoken(e), q' = q,
           NEW t \in Task, UntilPlace(t)
    PROVE  ListInv' /\ AllWoken(e)'
<1>1. PICK wake : wake = (last[t] + call[t].wait) % TickSpan
  OBVIOUS
<1>2. /\ cur = t /\ pc[t] = "until" /\ cur' = cur
      /\ k' = k \/ k' = AddCurrentTaskToDelayedList(k, wake)
      /\ last' = [last EXCEPT ![t] = wake] /\ pc' = [pc EXCEPT ![t] = "resume"]
      /\ call' = call
  BY <1>1 DEF UntilPlace, Running, Keep
<1>3. /\ call[t] \in CallRecords /\ last \in [Task -> 0 .. MaxDelay] /\ call[t].force
      /\ IsReady(k, t) /\ t # Idle /\ pc \in [Task -> AnyPlace]
  BY <1>2, RunningIs DEF CallInv, ListInv, RestOk, IInv, Typed
<1>4. wake \in 0 .. MaxDelay
  BY <1>1, <1>3, AheadIs DEF CallRecords
<1>5. /\ last' \in [Task -> 0 .. MaxDelay] /\ pc'[t] = "resume" /\ call'[t] = call[t]
      /\ OthersStay
  BY <1>2, <1>3, <1>4 DEF OthersStay
<1>6. CASE k' = AddCurrentTaskToDelayedList(k, wake)
  BY <1>2, <1>3, <1>4, <1>5, <1>6, DelaySleeps
<1>7. CASE k' = k
  <2>1. Proceeds /\ GoesOn
    BY <1>2, <1>3, <1>5 DEF Proceeds, GoesOn, WillTry, TryPlaces
  <2>. QED
    BY <1>2, <1>7, <2>1, StillSleeps
<1>. QED
  BY <1>2, <1>6, <1>7

LEMMA HoldSleeps ==
    ASSUME CallInv, NEW e \in {"toReceive", "toSend"}, AllWoken(e), q' = q,
           NEW t \in Task, cur = t, pc[t] \in {"app", "held"}, t # Idle, SuspendAll,
           NEW at, at # "new", NEW c, at \in {"delay", "until"} => c.force, GoTo(t, at, c)
    PROVE  ListInv' /\ AllWoken(e)'
<1>1. IsReady(k, t)
  BY RunningIs
<1>2. Proceeds
  BY <1>1, MovesOn DEF GoTo
<1>3. GoesOn
  BY DEF GoesOn, WillTry, TryPlaces
<1>. QED
  BY <1>2, <1>3, StillSleeps DEF SuspendAll

LEMMA YieldSleeps ==
    ASSUME CallInv, NEW e \in {"toReceive", "toSend"}, AllWoken(e), q' = q,
           NEW t \in Task, Yield(t)
    PROVE  ListInv' /\ AllWoken(e)'
<1>1. SwitchContext(k) /\ UNCHANGED << pc, call, last >>
  BY DEF Yield, Stay
<1>. QED
  BY <1>1, StayProceeds, SwitchSleeps DEF CallInv

LEMMA IdleYieldSleeps ==
    ASSUME CallInv, NEW e \in {"toReceive", "toSend"}, AllWoken(e), q' = q, IdleYield
    PROVE  ListInv' /\ AllWoken(e)'
<1>1. SwitchContext(k) /\ UNCHANGED << pc, call, last >>
  BY DEF IdleYield, Stay
<1>. QED
  BY <1>1, StayProceeds, SwitchSleeps DEF CallInv

LEMMA DelayCallSleeps ==
    ASSUME CallInv, NEW e \in {"toReceive", "toSend"}, AllWoken(e), q' = q,
           NEW t \in Task, NEW wait, Delay(t, wait)
    PROVE  ListInv' /\ AllWoken(e)'
<1>1. cur = t /\ pc[t] = "app" /\ t # Idle
  BY CallerIsReady DEF Delay
<1>2. CASE wait = 0
  <2>1. SwitchContext(k) /\ UNCHANGED << pc, call, last >>
    BY <1>2 DEF Delay, Stay
  <2>. QED
    BY <2>1, StayProceeds, SwitchSleeps DEF CallInv
<1>3. CASE wait # 0
  <2>1. PICK c : c = [NoCall EXCEPT !.op = "delay", !.wait = wait, !.force = TRUE]
    OBVIOUS
  <2>2. SuspendAll /\ GoTo(t, "delay", c)
    BY <1>3, <2>1 DEF Delay
  <2>3. c.force
    BY <2>1 DEF NoCall
  <2>. QED
    BY <1>1, <2>2, <2>3, HoldSleeps
<1>. QED
  BY <1>2, <1>3

LEMMA DelayUntilCallSleeps ==
    ASSUME CallInv, NEW e \in {"toReceive", "toSend"}, AllWoken(e), q' = q,
           NEW t \in Task, NEW wait, DelayUntil(t, wait)
    PROVE  ListInv' /\ AllWoken(e)'
<1>1. cur = t /\ pc[t] = "app" /\ t # Idle
  BY CallerIsReady DEF DelayUntil
<1>2. PICK c : c = [NoCall EXCEPT !.op = "until", !.wait = wait, !.force = TRUE]
  OBVIOUS
<1>3. SuspendAll /\ GoTo(t, "until", c)
  BY <1>2 DEF DelayUntil
<1>4. c.force
  BY <1>2 DEF NoCall
<1>. QED
  BY <1>1, <1>3, <1>4, HoldSleeps

LEMMA ResyncSleeps ==
    ASSUME CallInv, NEW e \in {"toReceive", "toSend"}, AllWoken(e), q' = q,
           NEW t \in Task, Resync(t)
    PROVE  ListInv' /\ AllWoken(e)'
<1>1. /\ last' = [last EXCEPT ![t] = k.tick]
      /\ k' = k /\ cur' = cur /\ pc' = pc /\ call' = call
  BY DEF Resync
<1>2. cur = t /\ IsReady(k, t) /\ t # Idle /\ pc[t] = "app"
  BY CallerIsReady DEF Resync
<1>3. last' \in [Task -> 0 .. MaxDelay]
  BY <1>1 DEF CallInv, ListInv, TimeoutInv, ClockOk
<1>4. Proceeds /\ GoesOn
  BY <1>1, <1>2, <1>3 DEF Proceeds, GoesOn, OthersStay
<1>. QED
  BY <1>1, <1>4, StillSleeps

LEMMA AppSuspendAllSleeps ==
    ASSUME CallInv, NEW e \in {"toReceive", "toSend"}, AllWoken(e), q' = q,
           NEW t \in Task, AppSuspendAll(t)
    PROVE  ListInv' /\ AllWoken(e)'
<1>1. cur = t /\ pc[t] \in {"app", "held"} /\ t # Idle
  <2>1. CASE Calls(t, "suspend")
    BY <2>1, CallerIsReady
  <2>2. CASE Running(t, "held")
    <3>1. cur = t /\ pc[t] = "held"
      BY <2>2 DEF Running
    <3>. QED
      BY <3>1, RunningIs
  <2>. QED
    BY <2>1, <2>2 DEF AppSuspendAll
<1>2. SuspendAll /\ GoTo(t, "held", NoCall)
  BY DEF AppSuspendAll
<1>. QED
  BY <1>1, <1>2, HoldSleeps

LEMMA IdleSuspendAllSleeps ==
    ASSUME CallInv, NEW e \in {"toReceive", "toSend"}, AllWoken(e), q' = q, IdleSuspendAll
    PROVE  ListInv' /\ AllWoken(e)'
<1>1. PICK c : c = [NoCall EXCEPT !.after = "reap"]
  OBVIOUS
<1>2. /\ cur = Idle /\ pc[Idle] = "app" /\ k.terminated # << >> /\ Idle \in Task
      /\ k' = k /\ cur' = cur /\ GoTo(Idle, "resume", c)
  BY <1>1, TaskAssumption DEF IdleSuspendAll, SuspendAll, Running
<1>3. /\ pc'[Idle] = "resume" /\ last' = last /\ call'[Idle] = c
      /\ \A u \in Task \ {Idle} : pc'[u] = pc[u] /\ call'[u] = call[u]
  BY <1>2, GoToIs DEF GoTo
<1>4. ~c.force /\ c.after = "reap"
  BY <1>1 DEF NoCall
<1>5. IsReady(k, Idle) /\ last \in [Task -> 0 .. MaxDelay]
  BY DEF CallInv, ListInv, RestOk
<1>6. Proceeds
  BY <1>2, <1>3, <1>4, <1>5 DEF Proceeds, OthersStay, IdleAt
<1>7. GoesOn
  BY <1>2 DEF GoesOn, WillTry, TryPlaces
<1>. QED
  BY <1>2, <1>6, <1>7, StillSleeps

-----------------------------------------------------------------------------
(* Tasks come and go.                                                      *)

(* The list of the deleted tasks is none of the scheduler's.               *)
LEMMA TerminatedIsNoList ==
    ASSUME NEW s, ListsOk(s), NEW list \in ListType, NEW r, r = [s EXCEPT !.terminated = list]
    PROVE  /\ ListsOk(r) /\ SameLists(r, s) /\ r.terminated = list
           /\ r.delayed = s.delayed /\ r.overflow = s.overflow
<1>1. s \in KernelData
  BY DEF ListsOk
<1>2. r \in KernelData
  BY <1>1 DEF KernelData
<1>3. /\ SameLists(r, s) /\ r.delayed = s.delayed /\ r.overflow = s.overflow
      /\ r.terminated = list
  BY <1>1 DEF KernelData, SameLists
<1>4. ListsOk(r)
  BY <1>2, <1>3 DEF SameLists, ListsOk, GenericOk, EventsOk, EventsSleep, TopOk, Sorted,
                    Delayed, OnEvent, IsReady
<1>. QED
  BY <1>3, <1>4

(* The tasks that are on their way round the loop stay there.              *)
LEMMA SameCallersKeepEnough ==
    ASSUME CallInv, NEW e \in {"toReceive", "toSend"}, AllWoken(e), q' = q,
           \A t \in Task : Up(k, t) /\ WillTry(pc[t], call[t]) =>
                Up(k', t) /\ pc'[t] = pc[t] /\ call'[t] = call[t],
           k'.waiting[e] # << >> => k.waiting[e] # << >>
    PROVE  AllWoken(e)'
<1>1. Woken(e)' = {t \in Task : /\ Up(k', t) /\ WillTry(pc'[t], call'[t])
                                /\ call'[t].op \in Askers(e)}
  BY DEF Woken, Up, WillTry, TryPlaces, Delayed, Askers
<1>2. Woken(e) \subseteq Woken(e)'
  BY <1>1 DEF Woken
<1>3. Left(e)' = Left(e)
  BY DEF Left
<1>4. PICK n \in Int : n = Left(e)
  BY LeftIs DEF CallInv
<1>5. k'.waiting[e] # << >> => Cardinality(Woken(e)') >= n
  BY <1>2, <1>4, KeepsEnough DEF CallInv, AllWoken
<1>. QED
  BY <1>3, <1>4, <1>5 DEF AllWoken, Enough

LEMMA CreateSleeps ==
    ASSUME CallInv, NEW e \in {"toReceive", "toSend"}, AllWoken(e), q' = q,
           NEW t \in Task, NEW u \in Task, Create(t, u)
    PROVE  ListInv' /\ AllWoken(e)'
<1>1. /\ cur = t /\ pc[t] = "app" /\ t # Idle /\ IsReady(k, t)
  BY CallerIsReady DEF Create
<1>2. /\ pc[u] = "new" /\ k' = AddTasksToReadyLists(k, << u >>) /\ cur' = cur
      /\ call' = call /\ last' = last
      /\ pc' = [pc EXCEPT ![u] = "app",
                          ![t] = IF Priority[t] < Priority[u] THEN "yield" ELSE "app"]
  BY DEF Create, Keep
<1>3. /\ ListsOk(k) /\ pc \in [Task -> AnyPlace] /\ Idle \in Task /\ k \in KernelData
      /\ GenericOk(k) /\ TopOk(k) /\ EventsOk(k) /\ EventsSleep(k) /\ Sorted(k)
  BY TaskAssumption DEF CallInv, ListInv, IInv, Typed, ListsOk
<1>4. ~IsReady(k, u) /\ u \notin Delayed(k)
  BY <1>2 DEF CallInv, ListInv, AbsentOk, Placed
<1>5. /\ pc'[u] = "app" /\ pc'[t] \in {"app", "yield"} /\ u # t
      /\ \A x \in Task \ {t, u} : pc'[x] = pc[x]
  BY <1>1, <1>2, <1>3
<1>6. /\ GenericOk(k') /\ TopOk(k')
      /\ \A x \in Task : IsReady(k', x) <=> IsReady(k, x) \/ x = u
      /\ k' \in KernelData
      /\ k'.delayed = k.delayed /\ k'.overflow = k.overflow /\ k'.wakeAt = k.wakeAt
      /\ k'.pendingReady = k.pendingReady /\ k'.waiting = k.waiting
      /\ k'.terminated = k.terminated
  <2>1. << u >> \in Seq(Task) /\ NoRepeats(<< u >>) /\ Range(<< u >>) = {u}
    BY SingleIs
  <2>2. PICK r : r = AddTasksToReadyLists(k, << u >>)
    OBVIOUS
  <2>3. /\ GenericOk(r) /\ TopOk(r)
        /\ \A x \in Task : IsReady(r, x) <=> IsReady(k, x) \/ x \in Range(<< u >>)
    BY <1>3, <1>4, <2>1, <2>2, AddTasksOk
  <2>4. /\ r \in KernelData
        /\ r.delayed = k.delayed /\ r.overflow = k.overflow /\ r.wakeAt = k.wakeAt
        /\ r.pendingReady = k.pendingReady /\ r.waiting = k.waiting
        /\ r.terminated = k.terminated
    <3>1. k \in KernelData /\ \A p \in Priorities : End \in Range(k.ready[p])
      BY <1>3 DEF GenericOk
    <3>2. PICK new : new = << u >>
      OBVIOUS
    <3>3. new \in Seq(Task)
      BY <2>1, <3>2
    <3>4. LET x == AddTasksToReadyLists(k, new) IN
          /\ x \in KernelData
          /\ \A p \in Priorities : x.ready[p] =
               RingInsertAllEnd(k.ready[p], ListRemove(new, {y \in Task : Priority[y] # p}))
          /\ k.top <= x.top /\ \A y \in Range(new) : Priority[y] <= x.top
          /\ x.delayed = k.delayed /\ x.overflow = k.overflow /\ x.wakeAt = k.wakeAt
          /\ x.nextUnblock = k.nextUnblock
          /\ x.pendingReady = k.pendingReady /\ x.waiting = k.waiting
          /\ x.terminated = k.terminated /\ x.tick = k.tick
          /\ x.overflows = k.overflows /\ x.pended = k.pended
          /\ x.yieldPending = k.yieldPending
      BY <3>1, <3>3, AddTasksIs, Zenon
    <3>. QED
      BY <2>2, <3>2, <3>4
  <2>. QED
    BY <1>2, <2>1, <2>2, <2>3, <2>4
<1>7. Delayed(k') = Delayed(k)
  BY <1>6 DEF Delayed
<1>8. ListsOk(k)'
  <2>1. EventsOk(k') /\ EventsSleep(k') /\ Sorted(k')
    BY <1>3, <1>6, <1>7 DEF EventsOk, EventsSleep, OnEvent, Sorted
  <2>. QED
    BY <1>6, <2>1 DEF ListsOk
<1>9. RunningOk'
  <2>1. IsReady(k', t) /\ cur' = t
    BY <1>1, <1>2, <1>6
  <2>. QED
    BY <2>1 DEF RunningOk, IsReady
<1>10. WaitersOk'
  <2>1. SUFFICES ASSUME NEW f \in EventList, NEW x \in Range(k'.waiting[f])
                 PROVE  WillTry(pc'[x], call'[x]) /\ f = WaitsOn(call'[x].op)
    BY DEF WaitersOk, WillTry, TryPlaces, WaitsOn
  <2>2. x \in Range(k.waiting[f]) /\ x \in Task
    BY <1>3, <1>6, KernelParts, RangeIs DEF EventsType
  <2>3. x \in Delayed(k)
    BY <1>3, <2>2 DEF EventsSleep, OnEvent
  <2>4. x # u /\ x # t
    BY <1>1, <1>3, <1>4, <2>3, ReadyIsAwake
  <2>. QED
    BY <1>2, <1>5, <2>2, <2>4 DEF CallInv, ListInv, WaitersOk
<1>11. AbsentOk'
  <2>1. SUFFICES ASSUME NEW x \in Task
                 PROVE  /\ pc'[x] = "new" => ~Placed(k', x)
                        /\ x \in Range(k'.terminated) =>
                              /\ ~Placed(k', x) /\ pc'[x] # "new" /\ x # Idle
                              /\ call'[x].after # "try"
    BY DEF AbsentOk, Placed, IsReady, Delayed
  <2>2. /\ pc[x] = "new" => ~Placed(k, x)
        /\ x \in Range(k.terminated) => ~Placed(k, x) /\ pc[x] # "new" /\ x # Idle
                                        /\ call[x].after # "try"
    BY DEF CallInv, ListInv, AbsentOk
  <2>3. x # u => (Placed(k', x) => Placed(k, x))
    BY <1>6, <1>7 DEF Placed
  <2>. QED
    BY <1>2, <1>5, <1>6, <2>2, <2>3
<1>12. RestOk'
  <2>1. IsReady(k, Idle) /\ IdleAt(pc[Idle], call[Idle])
    BY DEF CallInv, ListInv, RestOk
  <2>2. Idle # u
    BY <1>2, <2>1 DEF IdleAt
  <2>3. IsReady(k', Idle) /\ pc'[Idle] = pc[Idle]
    BY <1>1, <1>3, <1>5, <1>6, <2>1, <2>2
  <2>4. IsReady(k, Idle)' /\ IdleAt(pc[Idle], call[Idle])'
    BY <1>2, <1>6, <2>1, <2>3 DEF IsReady, IdleAt
  <2>5. \A x \in Task : pc'[x] \in {"delay", "until"} => call'[x].force
    BY <1>2, <1>5 DEF CallInv, ListInv, RestOk
  <2>. QED
    BY <2>4, <2>5 DEF RestOk
<1>13. ListInv'
  BY <1>2, <1>8, <1>9, <1>10, <1>11, <1>12 DEF CallInv, ListInv
<1>14. AllWoken(e)'
  <2>1. ASSUME NEW x \in Task, Up(k, x), WillTry(pc[x], call[x])
        PROVE  Up(k', x) /\ pc'[x] = pc[x] /\ call'[x] = call[x]
    <3>1. x # t /\ x # u
      BY <1>1, <1>2, <2>1 DEF WillTry, TryPlaces
    <3>. QED
      BY <1>2, <1>5, <1>6, <1>7, <2>1, <3>1 DEF Up
  <2>. QED
    BY <1>6, <2>1, SameCallersKeepEnough
<1>. QED
  BY <1>13, <1>14

(* A task that deletes itself was not waiting for the queue.               *)
LEMMA ExitSleeps ==
    ASSUME CallInv, NEW e \in {"toReceive", "toSend"}, AllWoken(e), q' = q,
           NEW t \in Task, Delete(t, t)
    PROVE  ListInv' /\ AllWoken(e)'
<1>1. /\ cur = t /\ pc[t] = "app" /\ t # Idle /\ IsReady(k, t)
  BY CallerIsReady DEF Delete
<1>2. PICK r : r = Leave(k, {t})
  OBVIOUS
<1>3. PICK list : list = Append(r.terminated, t)
  OBVIOUS
<1>4. /\ k' = [r EXCEPT !.terminated = list] /\ cur' = cur /\ last' = last
      /\ pc' = [pc EXCEPT ![t] = "app", ![t] = "yield"]
      /\ call' = [call EXCEPT ![t] = NoCall]
  BY <1>2, <1>3 DEF Delete, Keep, Leave
<1>5. /\ pc \in [Task -> AnyPlace] /\ call \in [Task -> CallRecords] /\ Idle \in Task
      /\ ListsOk(k) /\ k.terminated \in Seq(Task) /\ {t} \in SUBSET Task
  BY TaskAssumption, KernelParts DEF CallInv, IInv, Typed, TimeoutInv, ListInv, ListsOk, ListType
<1>6. /\ pc'[t] = "yield" /\ call'[t] = NoCall
      /\ \A u \in Task \ {t} : pc'[u] = pc[u] /\ call'[u] = call[u]
  BY <1>4, <1>5
<1>7. /\ ListsOk(r) /\ r.terminated = k.terminated
      /\ \A u \in Task : IsReady(r, u) <=> IsReady(k, u) /\ u \notin {t}
      /\ Range(r.delayed) = Range(k.delayed) \ {t}
      /\ Range(r.overflow) = Range(k.overflow) \ {t}
      /\ Range(r.pendingReady) = Range(k.pendingReady) \ {t}
      /\ \A f \in EventList : Range(r.waiting[f]) = Range(k.waiting[f]) \ {t}
  <2>1. PICK T : T = {t}
    OBVIOUS
  <2>2. T \in SUBSET Task /\ ListsOk(k)
    BY <1>5, <2>1
  <2>3. LET x == Leave(k, T) IN
        /\ ListsOk(x)
        /\ \A u \in Task : IsReady(x, u) <=> IsReady(k, u) /\ u \notin T
        /\ \A u \in Task : OnEvent(x, u) <=> OnEvent(k, u) /\ u \notin T
        /\ Range(x.delayed) = Range(k.delayed) \ T
        /\ Range(x.overflow) = Range(k.overflow) \ T
        /\ \A u \in Task \ T : x.wakeAt[u] = k.wakeAt[u]
        /\ SameClocks(x, k)
        /\ x.top = k.top
        /\ Range(x.pendingReady) = Range(k.pendingReady) \ T
        /\ \A f \in EventList : Range(x.waiting[f]) = Range(k.waiting[f]) \ T
    BY <2>2, LeaveIs, Zenon
  <2>. QED
    BY <1>2, <2>1, <2>3 DEF SameClocks
<1>8. /\ list \in Seq(Task) /\ list # << >> /\ Range(list) = Range(k.terminated) \cup {t}
  BY <1>3, <1>5, <1>7, AppendIs
<1>9. /\ ListsOk(k') /\ SameLists(k', r) /\ k'.terminated = list
      /\ k'.delayed = r.delayed /\ k'.overflow = r.overflow
  BY <1>4, <1>7, <1>8, TerminatedIsNoList DEF ListType
<1>10. /\ \A u \in Task : IsReady(k', u) <=> IsReady(k, u) /\ u # t
       /\ \A u : u \in Delayed(k') <=> u \in Delayed(k) /\ u # t
       /\ \A u : u \in Range(k'.pendingReady) <=> u \in Range(k.pendingReady) /\ u # t
       /\ \A f \in EventList : Range(k'.waiting[f]) = Range(k.waiting[f]) \ {t}
  BY <1>7, <1>9 DEF SameLists, IsReady, Delayed
<1>11. RunningOk'
  BY <1>1, <1>4, <1>6 DEF RunningOk, Leaving
<1>12. WaitersOk'
  <2>1. SUFFICES ASSUME NEW f \in EventList, NEW x \in Range(k'.waiting[f])
                 PROVE  WillTry(pc'[x], call'[x]) /\ f = WaitsOn(call'[x].op)
    BY DEF WaitersOk, WillTry, TryPlaces, WaitsOn
  <2>2. x \in Range(k.waiting[f]) /\ x # t
    BY <1>10
  <2>3. x \in Task
    BY <1>5, <2>2, KernelParts, RangeIs DEF ListsOk, EventsType
  <2>. QED
    BY <1>6, <2>2, <2>3 DEF CallInv, ListInv, WaitersOk
<1>13. AbsentOk'
  <2>1. SUFFICES ASSUME NEW x \in Task
                 PROVE  /\ pc'[x] = "new" => ~Placed(k', x)
                        /\ x \in Range(k'.terminated) =>
                              /\ ~Placed(k', x) /\ pc'[x] # "new" /\ x # Idle
                              /\ call'[x].after # "try"
    BY DEF AbsentOk, Placed, IsReady, Delayed
  <2>2. /\ pc[x] = "new" => ~Placed(k, x)
        /\ x \in Range(k.terminated) => ~Placed(k, x) /\ pc[x] # "new" /\ x # Idle
                                        /\ call[x].after # "try"
    BY DEF CallInv, ListInv, AbsentOk
  <2>3. (Placed(k', x) => Placed(k, x)) /\ ~Placed(k', t)
    BY <1>10 DEF Placed
  <2>. QED
    BY <1>1, <1>6, <1>8, <1>9, <2>2, <2>3, NoCallRecord
<1>14. RestOk'
  <2>1. IsReady(k, Idle) /\ IdleAt(pc[Idle], call[Idle])
    BY DEF CallInv, ListInv, RestOk
  <2>2. IsReady(k', Idle) /\ pc'[Idle] = pc[Idle] /\ call'[Idle] = call[Idle]
    BY <1>1, <1>5, <1>6, <1>10, <2>1
  <2>3. IsReady(k, Idle)' /\ IdleAt(pc[Idle], call[Idle])'
    BY <1>8, <1>9, <2>1, <2>2 DEF IsReady, IdleAt
  <2>4. \A x \in Task : pc'[x] \in {"delay", "until"} => call'[x].force
    BY <1>6 DEF CallInv, ListInv, RestOk
  <2>. QED
    BY <2>3, <2>4 DEF RestOk
<1>15. ListInv'
  BY <1>4, <1>9, <1>11, <1>12, <1>13, <1>14 DEF CallInv, ListInv
<1>16. AllWoken(e)'
  <2>1. ASSUME NEW x \in Task, Up(k, x), WillTry(pc[x], call[x])
        PROVE  Up(k', x) /\ pc'[x] = pc[x] /\ call'[x] = call[x]
    <3>1. x # t
      BY <1>1, <2>1 DEF WillTry, TryPlaces
    <3>. QED
      BY <1>6, <1>10, <2>1, <3>1 DEF Up
  <2>2. e \in EventList
    BY QueueAssumption
  <2>3. /\ k.waiting[e] \in Seq(Task) /\ k'.waiting[e] \in Seq(Task)
        /\ Range(k'.waiting[e]) \subseteq Range(k.waiting[e])
    BY <1>5, <1>9, <1>10, <2>2, KernelParts DEF ListsOk, EventsType
  <2>4. k'.waiting[e] # << >> => k.waiting[e] # << >>
    BY <2>3, FewerWait
  <2>. QED
    BY <2>1, <2>4, SameCallersKeepEnough
<1>. QED
  BY <1>15, <1>16

(* The memory of a deleted task is given back.                             *)
LEMMA IdleReapSleeps ==
    ASSUME CallInv, NEW e \in {"toReceive", "toSend"}, AllWoken(e), q' = q, IdleReap
    PROVE  ListInv' /\ AllWoken(e)'
<1>1. PICK h : h = Head(k.terminated)
  OBVIOUS
<1>2. PICK list : list = Tail(k.terminated)
  OBVIOUS
<1>3. /\ cur = Idle /\ pc[Idle] = "reap" /\ k' = [k EXCEPT !.terminated = list] /\ cur' = cur
      /\ pc' = [pc EXCEPT ![Idle] = "app", ![h] = "gone"]
      /\ call' = [call EXCEPT ![Idle] = NoCall] /\ last' = last
  BY <1>1, <1>2 DEF IdleReap, Running, Keep
<1>4. /\ pc \in [Task -> AnyPlace] /\ call \in [Task -> CallRecords] /\ Idle \in Task
      /\ ListsOk(k) /\ k.terminated \in Seq(Task)
      /\ IsReady(k, Idle) /\ IdleAt(pc[Idle], call[Idle])
  BY TaskAssumption, KernelParts
     DEF CallInv, IInv, Typed, TimeoutInv, ListInv, ListsOk, ListType, RestOk
<1>5. k.terminated # << >>
  BY <1>3, <1>4 DEF IdleAt
<1>6. /\ h \in Range(k.terminated) /\ list \in Seq(Task)
      /\ Range(list) \subseteq Range(k.terminated) /\ h \in Task
  <2>1. /\ Head(k.terminated) \in Range(k.terminated) /\ Tail(k.terminated) \in Seq(Task)
        /\ Range(k.terminated) = Range(Tail(k.terminated)) \cup {Head(k.terminated)}
    BY <1>4, <1>5, TailIs
  <2>2. Range(k.terminated) \subseteq Task
    BY <1>4, RangeIs
  <2>. QED
    BY <1>1, <1>2, <2>1, <2>2
<1>7. /\ ~Placed(k, h) /\ pc[h] # "new" /\ h # Idle /\ call[h].after # "try"
  BY <1>6 DEF CallInv, ListInv, AbsentOk
<1>8. /\ pc'[Idle] = "app" /\ call'[Idle] = NoCall /\ pc'[h] = "gone" /\ call'[h] = call[h]
      /\ \A u \in Task \ {Idle, h} : pc'[u] = pc[u] /\ call'[u] = call[u]
  BY <1>3, <1>4, <1>6, <1>7
<1>9. /\ ListsOk(k') /\ SameLists(k', k) /\ k'.terminated = list
      /\ k'.delayed = k.delayed /\ k'.overflow = k.overflow
  BY <1>3, <1>4, <1>6, TerminatedIsNoList DEF ListType
<1>10. Delayed(k') = Delayed(k) /\ \A u \in Task : IsReady(k', u) <=> IsReady(k, u)
  BY <1>9 DEF SameLists, Delayed, IsReady
<1>11. RunningOk'
  <2>1. IsReady(k', cur')
    BY <1>3, <1>4, <1>10
  <2>. QED
    BY <2>1 DEF RunningOk, IsReady
<1>12. WaitersOk'
  <2>1. SUFFICES ASSUME NEW f \in EventList, NEW x \in Range(k'.waiting[f])
                 PROVE  WillTry(pc'[x], call'[x]) /\ f = WaitsOn(call'[x].op)
    BY DEF WaitersOk, WillTry, TryPlaces, WaitsOn
  <2>2. x \in Range(k.waiting[f])
    BY <1>9 DEF SameLists
  <2>3. x \in Task
    BY <1>4, <2>2, KernelParts, RangeIs DEF ListsOk, EventsType
  <2>4. x \in Delayed(k)
    BY <1>4, <2>2, <2>3 DEF ListsOk, EventsSleep, OnEvent
  <2>5. x # h /\ x # Idle
    BY <1>4, <1>7, <2>4, ReadyIsAwake DEF Placed
  <2>. QED
    BY <1>8, <2>2, <2>3, <2>5 DEF CallInv, ListInv, WaitersOk
<1>13. AbsentOk'
  <2>1. SUFFICES ASSUME NEW x \in Task
                 PROVE  /\ pc'[x] = "new" => ~Placed(k', x)
                        /\ x \in Range(k'.terminated) =>
                              /\ ~Placed(k', x) /\ pc'[x] # "new" /\ x # Idle
                              /\ call'[x].after # "try"
    BY DEF AbsentOk, Placed, IsReady, Delayed
  <2>2. /\ pc[x] = "new" => ~Placed(k, x)
        /\ x \in Range(k.terminated) => ~Placed(k, x) /\ pc[x] # "new" /\ x # Idle
                                        /\ call[x].after # "try"
    BY DEF CallInv, ListInv, AbsentOk
  <2>3. Placed(k', x) <=> Placed(k, x)
    BY <1>10 DEF Placed
  <2>. QED
    BY <1>6, <1>8, <1>9, <2>2, <2>3
<1>14. RestOk'
  <2>1. IsReady(k', Idle) /\ ~NoCall.force /\ NoCall.after = "app"
    BY <1>4, <1>10 DEF NoCall
  <2>2. IsReady(k, Idle)' /\ IdleAt(pc[Idle], call[Idle])'
    BY <1>8, <2>1 DEF IsReady, IdleAt
  <2>3. \A x \in Task : pc'[x] \in {"delay", "until"} => call'[x].force
    BY <1>8 DEF CallInv, ListInv, RestOk
  <2>. QED
    BY <2>2, <2>3 DEF RestOk
<1>15. ListInv'
  BY <1>3, <1>9, <1>11, <1>12, <1>13, <1>14 DEF CallInv, ListInv
<1>16. AllWoken(e)'
  <2>1. ASSUME NEW x \in Task, Up(k, x), WillTry(pc[x], call[x])
        PROVE  Up(k', x) /\ pc'[x] = pc[x] /\ call'[x] = call[x]
    <3>1. x # Idle /\ x # h
      BY <1>3, <1>7, <2>1 DEF WillTry, TryPlaces
    <3>. QED
      BY <1>8, <1>9, <1>10, <2>1, <3>1 DEF Up, SameLists
  <2>2. k'.waiting[e] = k.waiting[e]
    BY <1>9 DEF SameLists
  <2>. QED
    BY <2>1, <2>2, SameCallersKeepEnough
<1>. QED
  BY <1>15, <1>16

(* No task deletes another: one that another has woken would take the      *)
(* wake-up with it, and those who wait behind it would sleep on.           *)
NobodyIsDeleted == \A t \in Task : "delete" \notin Program[t]

LEMMA KernelSleeps ==
    ASSUME NobodyIsDeleted, CallInv, NEW e \in {"toReceive", "toSend"}, AllWoken(e), q' = q,
           KernelNext
    PROVE  ListInv' /\ AllWoken(e)'
<1>1. CASE Tick
  BY <1>1, TickSleeps
<1>2. CASE IdleSuspendAll
  BY <1>2, IdleSuspendAllSleeps
<1>3. CASE IdleYield
  BY <1>3, IdleYieldSleeps
<1>4. ASSUME NEW t \in Task, KernelStep(t) PROVE ListInv' /\ AllWoken(e)'
  BY <1>4, DelayPlaceSleeps, UntilPlaceSleeps, ResumeSleeps, YieldWithinSleeps,
     AppResumeAllSleeps, DeleteResetSleeps, IdleReapSleeps DEF KernelStep
<1>5. ASSUME NEW t \in Task, AppStep(t) PROVE ListInv' /\ AllWoken(e)'
  <2>1. CASE Yield(t) \/ Resync(t) \/ AppSuspendAll(t)
    BY <2>1, YieldSleeps, ResyncSleeps, AppSuspendAllSleeps
  <2>2. ASSUME NEW wait \in Waits[t], Delay(t, wait) \/ DelayUntil(t, wait)
        PROVE  ListInv' /\ AllWoken(e)'
    BY <2>2, DelayCallSleeps, DelayUntilCallSleeps
  <2>3. ASSUME NEW u \in Task, Create(t, u) PROVE ListInv' /\ AllWoken(e)'
    BY <2>3, CreateSleeps
  <2>4. ASSUME NEW u \in Task, Delete(t, u) PROVE ListInv' /\ AllWoken(e)'
    <3>1. u = t
      BY <2>4 DEF Delete, Calls, NobodyIsDeleted
    <3>. QED
      BY <2>4, <3>1, ExitSleeps
  <2>. QED
    BY <1>5, <2>1, <2>2, <2>3, <2>4 DEF AppStep
<1>. QED
  BY <1>1, <1>2, <1>3, <1>4, <1>5 DEF KernelNext

-----------------------------------------------------------------------------
(* The steps of the queue.                                                 *)

(* n tasks are woken that wait on e, or as many as there are.              *)
Woke(e, n) ==
    \E W \in SUBSET Range(k.waiting[e]) :
        /\ Wakes(k', k, W)
        /\ k'.waiting[e] # << >> => Cardinality(W) = n

LEMMA OneWoke ==
    ASSUME ListInv, NEW e \in EventList, NEW s, s = WakeOne(k, e).data,
           Wakes(k', s, {})
    PROVE  Woke(e, 1)
<1>1. ListsOk(k) /\ k.waiting[e] \in Seq(Task)
  BY KernelParts DEF ListInv, ListsOk, EventsType
<1>2. CASE k.waiting[e] = << >>
  <2>1. s = k
    BY <1>1, <1>2, WakeOneWakes
  <2>2. Range(k'.waiting[e]) \subseteq Range(k.waiting[e]) /\ Wakes(k', k, {})
    BY <2>1 DEF Wakes
  <2>3. k'.waiting[e] \in Seq(Task)
    BY <2>2, KernelParts DEF Wakes, ListsOk, EventsType
  <2>4. k'.waiting[e] = << >>
    BY <1>1, <1>2, <2>2, <2>3, FewerWait
  <2>. QED
    BY <2>2, <2>4 DEF Woke
<1>3. CASE k.waiting[e] # << >>
  <2>1. PICK t \in Range(k.waiting[e]) : Wakes(s, k, {t})
    BY <1>1, <1>3, WakeOneWakes
  <2>2. Wakes(k', k, {t} \cup {})
    BY <2>1, WakesThen
  <2>3. Wakes(k', k, {t}) /\ Cardinality({t}) = 1
    BY <2>2, FS_Singleton
  <2>. QED
    BY <2>1, <2>3 DEF Woke
<1>. QED
  BY <1>2, <1>3

LEMMA WakeAndYieldWoke ==
    ASSUME ListInv, NEW e \in EventList, WakeAndYield(e)
    PROVE  Woke(e, 1) /\ (cur' = cur \/ (cur' \in Task /\ IsReady(k', cur')))
<1>1. PICK r : r = WakeOne(k, e)
  OBVIOUS
<1>2. SwitchIf(r.switch, r.data)
  BY <1>1 DEF WakeAndYield
<1>3. ListsOk(k) /\ IsReady(k, Idle) /\ Idle \in Task
  BY TaskAssumption DEF ListInv, RestOk
<1>4. ListsOk(r.data) /\ IsReady(r.data, Idle)
  <2>1. CASE k.waiting[e] = << >>
    BY <1>1, <1>3, <2>1, WakeOneWakes
  <2>2. CASE k.waiting[e] # << >>
    <3>1. PICK t : Wakes(r.data, k, {t})
      BY <1>1, <1>3, <2>2, WakeOneWakes
    <3>. QED
      BY <1>3, <3>1 DEF Wakes
  <2>. QED
    BY <2>1, <2>2
<1>5. /\ Wakes(k', r.data, {})
      /\ cur' = cur \/ (cur' \in Task /\ IsReady(k', cur'))
  BY <1>2, <1>3, <1>4, SwitchIfWakes
<1>. QED
  BY <1>1, <1>5, OneWoke

LEMMA KeptWoke ==
    ASSUME ListInv, NEW e \in EventList, Keep(WakeOne(k, e).data)
    PROVE  Woke(e, 1) /\ cur' = cur
<1>1. PICK s : s = WakeOne(k, e).data
  OBVIOUS
<1>2. k' = s /\ cur' = cur
  BY <1>1 DEF Keep
<1>3. ListsOk(s)
  <2>1. ListsOk(k)
    BY DEF ListInv
  <2>2. CASE k.waiting[e] = << >>
    BY <1>1, <2>1, <2>2, WakeOneWakes
  <2>3. CASE k.waiting[e] # << >>
    <3>1. PICK t : Wakes(s, k, {t})
      BY <1>1, <2>1, <2>3, WakeOneWakes
    <3>. QED
      BY <3>1 DEF Wakes
  <2>. QED
    BY <2>2, <2>3
<1>4. Wakes(k', s, {})
  BY <1>2, <1>3, WakesNone DEF SameLists
<1>. QED
  BY <1>1, <1>2, <1>4, OneWoke

LEMMA ManyWoke ==
    ASSUME ListInv, NEW e \in EventList, NEW n \in Nat, Keep(WakeMany(k, e, n))
    PROVE  Woke(e, n) /\ cur' = cur
<1>1. k' = WakeMany(k, e, n) /\ cur' = cur /\ ListsOk(k)
  BY DEF Keep, ListInv
<1>. QED
  BY <1>1, WakeManyWakes DEF Woke

LEMMA WokeStep ==
    ASSUME CallInv, NEW e \in {"toReceive", "toSend"}, AllWoken(e), Proceeds,
           IsReady(k, cur) \/ GoesOn, NEW f \in {"toReceive", "toSend"},
           NEW n \in Int, Woke(f, n), cur' = cur \/ (cur' \in Task /\ IsReady(k', cur')),
           NEW l \in Int, l = Left(e), NEW m \in Int, m = Left(e)',
           LET gain == IF f = e THEN n ELSE 0 IN
                \/ m <= l + gain - 1
                \/ m <= l + gain /\ (GoesOn \/ call[cur].op \notin Askers(e))
    PROVE  ListInv' /\ AllWoken(e)'
<1>1. PICK V \in SUBSET Range(k.waiting[f]) :
        /\ Wakes(k', k, V)
        /\ k'.waiting[f] # << >> => Cardinality(V) = n
  BY DEF Woke
<1>2. ListInv'
  BY <1>1, WakingKeepsLists DEF CallInv
<1>3. Enough(e, l) /\ OthersStay
  BY DEF AllWoken, Proceeds
<1>4. CASE f = e
  <2>1. k'.waiting[e] # << >> =>
            \/ m <= l + Cardinality(V) - 1
            \/ m <= l + Cardinality(V) /\ (GoesOn \/ call[cur].op \notin Askers(e))
    BY <1>1, <1>4
  <2>2. k'.waiting[e] # << >> => Cardinality(Woken(e)') >= m
    BY <1>1, <1>3, <1>4, <2>1, WakingKeepsEnough DEF CallInv
  <2>. QED
    BY <1>2, <2>2 DEF AllWoken, Enough
<1>5. CASE f # e
  <2>1. Wakes(k', k, {}) /\ {} \in SUBSET Range(k.waiting[e]) /\ Cardinality({}) = 0
    BY <1>1, WakesFewer, FS_EmptySet
  <2>2. \/ m <= l + Cardinality({}) - 1
        \/ m <= l + Cardinality({}) /\ (GoesOn \/ call[cur].op \notin Askers(e))
    BY <1>5, <2>1
  <2>3. k'.waiting[e] # << >> => Cardinality(Woken(e)') >= m
    BY <1>3, <2>1, <2>2, WakingKeepsEnough DEF CallInv
  <2>. QED
    BY <1>2, <2>3 DEF AllWoken, Enough
<1>. QED
  BY <1>4, <1>5

(* A queue with nothing for those who wait needs nobody awake.             *)
LEMMA NothingLeft ==
    ASSUME NEW e, NEW m \in Int, m = Left(e)', m <= 0
    PROVE  AllWoken(e)'
<1>1. PICK B : B = Woken(e)'
  OBVIOUS
<1>2. B \subseteq Task
  BY <1>1 DEF Woken
<1>3. Cardinality(B) \in Nat
  BY <1>2, TaskAssumption, FS_Subset, FS_CardinalityType
<1>4. Cardinality(B) >= m
  BY <1>3
<1>. QED
  BY <1>1, <1>4 DEF AllWoken, Enough

(* While the scheduler runs the queue is not locked.                       *)
LEMMA RunsUnlocked ==
    ASSUME IInv, suspended = 0
    PROVE  q.txLock = Unlocked /\ q.rxLock = Unlocked
<1>1. \A t \in Task : pc[t] \notin HeldPlaces
  BY DEF IInv, OneTaskHoldsScheduler
<1>. QED
  BY <1>1, HeldOrFree DEF IInv, OneTaskHoldsScheduler

LEMMA NobodyWoke ==
    ASSUME NEW e, Wakes(k', k, {})
    PROVE  Woke(e, 0)
BY FS_EmptySet DEF Woke

(* What the critical section of a send or receive does to the queue.       *)
LEMMA ServeSleeps ==
    ASSUME CallInv, NEW e \in {"toReceive", "toSend"}, AllWoken(e), Proceeds,
           IsReady(k, cur), suspended = 0, NEW op \in {"send", "receive", "peek"},
           GoesOn \/ call[cur].op = op, Serve(op)
    PROVE  ListInv' /\ AllWoken(e)'
<1>1. PICK f : f = IF op = "receive" THEN "toSend" ELSE "toReceive"
  OBVIOUS
<1>2. WakeAndYield(f) /\ f \in EventList /\ f \in {"toReceive", "toSend"}
  BY <1>1, QueueAssumption DEF Serve
<1>3. Woke(f, 1) /\ (cur' = cur \/ (cur' \in Task /\ IsReady(k', cur')))
  BY <1>2, WakeAndYieldWoke DEF CallInv
<1>4. /\ q.txLock = Unlocked /\ q.rxLock = Unlocked
      /\ q.count \in Int /\ Length \in Int /\ q \in Queues
  BY RunsUnlocked, LeftIs DEF CallInv, IInv, Typed
<1>5. /\ q'.txLock = Unlocked /\ q'.rxLock = Unlocked
      /\ q'.count = CASE op = "send" -> q.count + 1
                      [] op = "receive" -> q.count - 1
                      [] OTHER -> q.count
  BY <1>4 DEF Serve, Queues
<1>6. PICK l \in Int : l = Left(e)
  BY LeftIs DEF CallInv
<1>7. l = IF e = "toSend" THEN Length - q.count ELSE q.count
  BY <1>4, <1>6 DEF Left
<1>8. PICK m : m = Left(e)'
  OBVIOUS
<1>9. m = IF e = "toSend" THEN Length - q'.count ELSE q'.count
  BY <1>5, <1>8 DEF Left
<1>10. /\ m \in Int
       /\ LET gain == IF f = e THEN 1 ELSE 0 IN
            \/ m <= l + gain - 1
            \/ m <= l + gain /\ (GoesOn \/ call[cur].op \notin Askers(e))
  <2>1. CASE op = "send"
    <3>1. CASE e = "toSend"
      BY <1>1, <1>4, <1>5, <1>7, <1>9, <2>1, <3>1
    <3>2. CASE e = "toReceive"
      <4>1. GoesOn \/ call[cur].op \notin Askers(e)
        BY <2>1, <3>2 DEF Askers
      <4>. QED
        BY <1>1, <1>4, <1>5, <1>7, <1>9, <2>1, <3>2, <4>1
    <3>. QED
      BY <3>1, <3>2
  <2>2. CASE op = "receive"
    <3>1. CASE e = "toReceive"
      BY <1>1, <1>4, <1>5, <1>7, <1>9, <2>2, <3>1
    <3>2. CASE e = "toSend"
      <4>1. GoesOn \/ call[cur].op \notin Askers(e)
        BY <2>2, <3>2 DEF Askers
      <4>. QED
        BY <1>1, <1>4, <1>5, <1>7, <1>9, <2>2, <3>2, <4>1
    <3>. QED
      BY <3>1, <3>2
  <2>3. CASE op = "peek"
    <3>1. CASE e = "toReceive"
      BY <1>1, <1>4, <1>5, <1>7, <1>9, <2>3, <3>1
    <3>2. CASE e = "toSend"
      <4>1. GoesOn \/ call[cur].op \notin Askers(e)
        BY <2>3, <3>2 DEF Askers
      <4>. QED
        BY <1>1, <1>4, <1>5, <1>7, <1>9, <2>3, <3>2, <4>1
    <3>. QED
      BY <3>1, <3>2
  <2>. QED
    BY <2>1, <2>2, <2>3
<1>. QED
  BY <1>2, <1>3, <1>6, <1>8, <1>10, WokeStep

(* A call that has to wait stops looking, with nothing there for it.       *)
LEMMA MustWaitSleeps ==
    ASSUME CallInv, NEW e \in {"toReceive", "toSend"}, AllWoken(e), Proceeds,
           IsReady(k, cur), suspended = 0, NEW op \in {"send", "receive", "peek"},
           GoesOn \/ call[cur].op = op, MustWait(op), k' = k, cur' = cur, q' = q
    PROVE  ListInv' /\ AllWoken(e)'
<1>1. Wakes(k', k, {})
  BY WakesNone DEF CallInv, ListInv, SameLists
<1>2. PICK l \in Int : l = Left(e)
  BY LeftIs DEF CallInv
<1>3. PICK m \in Int : m = Left(e)' /\ m = l
  BY <1>2 DEF Left
<1>4. CASE GoesOn \/ call[cur].op \notin Askers(e)
  <2>1. Woke(e, 0)
    BY <1>1, NobodyWoke
  <2>2. PICK n \in Int : n = 0 /\ Woke(e, n)
    BY <2>1
  <2>3. LET gain == IF e = e THEN n ELSE 0 IN
            \/ m <= l + gain - 1
            \/ m <= l + gain /\ (GoesOn \/ call[cur].op \notin Askers(e))
    BY <1>3, <1>4, <2>2
  <2>. QED
    BY <1>2, <1>3, <2>2, <2>3, WokeStep
<1>5. CASE op \in Askers(e)
  <2>1. q.txLock = Unlocked /\ q.rxLock = Unlocked /\ q.count \in Int /\ Length \in Int
    BY RunsUnlocked, LeftIs DEF CallInv
  <2>2. l = IF e = "toSend" THEN Length - q.count ELSE q.count
    BY <1>2, <2>1 DEF Left
  <2>3. q.count = IF e = "toSend" THEN Length ELSE 0
    BY <1>5 DEF Askers, MustWait
  <2>4. m <= 0
    BY <1>3, <2>1, <2>2, <2>3
  <2>5. ListInv'
    BY <1>1, WakingKeepsLists DEF CallInv
  <2>. QED
    BY <1>3, <2>4, <2>5, NothingLeft
<1>. QED
  BY <1>4, <1>5

LEMMA TrySleeps ==
    ASSUME CallInv, NEW e \in {"toReceive", "toSend"}, AllWoken(e), NEW t \in Task,
           cur = t, t # Idle, IsReady(k, t), suspended = 0, NEW c,
           c.op \in {"send", "receive", "peek"},
           ~WillTry(pc[t], call[t]) \/ call[t].op = c.op, Try(t, c)
    PROVE  ListInv' /\ AllWoken(e)'
<1>1. GoesOn \/ call[cur].op = c.op
  BY DEF GoesOn
<1>2. CASE Serve(c.op) /\ GoTo(t, "app", c)
  <2>1. Proceeds
    <3>1. PICK d : GoToDue(t, "app", c, d)
      BY <1>2 DEF GoTo
    <3>. QED
      BY <3>1, MovesOn
  <2>. QED
    BY <1>1, <1>2, <2>1, ServeSleeps
<1>3. CASE /\ MustWait(c.op) /\ k' = k /\ cur' = cur /\ q' = q
           /\ \E at \in {"app", "suspend"} : \E b, d : GoToDue(t, at, b, d)
  <2>1. Proceeds
    <3>1. PICK at \in {"app", "suspend"} : \E b, d : GoToDue(t, at, b, d)
      BY <1>3
    <3>2. at # "new" /\ at \notin {"delay", "until"}
      BY <3>1
    <3>3. PICK b, d : GoToDue(t, at, b, d)
      BY <3>1
    <3>. QED
      BY <3>2, <3>3, MovesOn
  <2>. QED
    BY <1>1, <1>3, <2>1, MustWaitSleeps
<1>4. \/ Serve(c.op) /\ GoTo(t, "app", c)
      \/ /\ MustWait(c.op) /\ k' = k /\ cur' = cur /\ q' = q
         /\ \E at \in {"app", "suspend"} : \E b, d : GoToDue(t, at, b, d)
  BY DEF Try, GoTo
<1>. QED
  BY <1>2, <1>3, <1>4

LEMMA StartCallSleeps ==
    ASSUME CallInv, NEW e \in {"toReceive", "toSend"}, AllWoken(e), NEW t \in Task,
           NEW op \in {"send", "receive", "peek"}, NEW wait, StartCall(t, op, wait)
    PROVE  ListInv' /\ AllWoken(e)'
<1>1. /\ cur = t /\ t # Idle /\ IsReady(k, t) /\ suspended = 0
      /\ ~WillTry(pc[t], call[t])
  BY CallerIsReady DEF StartCall, WillTry
<1>2. PICK c : c = [NoCall EXCEPT !.op = op, !.wait = wait]
  OBVIOUS
<1>3. Try(t, c) /\ c.op \in {"send", "receive", "peek"}
  BY <1>2 DEF StartCall, NoCall
<1>. QED
  BY <1>1, <1>3, TrySleeps

LEMMA RetrySleeps ==
    ASSUME CallInv, NEW e \in {"toReceive", "toSend"}, AllWoken(e), NEW t \in Task, Retry(t)
    PROVE  ListInv' /\ AllWoken(e)'
<1>1. cur = t /\ pc[t] = "try" /\ Try(t, call[t])
  BY DEF Retry, Running
<1>2. IsReady(k, t) /\ t # Idle /\ suspended = 0
  BY <1>1, RunningIs DEF HeldPlaces
<1>3. call[t].op \in {"send", "receive", "peek"}
  <2>1. TaskOnTime(k, pc[t], call[t], due[t])
    BY DEF CallInv, TimeoutInv
  <2>. QED
    BY <1>1, <2>1 DEF TaskOnTime, TimedCall, SetPlaces
<1>. QED
  BY <1>1, <1>2, <1>3, TrySleeps

(* A task within a call that has not looked yet moves on.                  *)
LEMMA CallMovesOn ==
    ASSUME CallInv, NEW t \in Task, cur = t, pc[t] \notin TryPlaces \cup {"app", "reap"},
           NEW at \in AnyPlace \ {"new", "delay", "until"}, NEW c, GoTo(t, at, c)
    PROVE  Proceeds /\ GoesOn
<1>1. t # Idle /\ IsReady(k, t)
  BY RunningIs DEF TryPlaces
<1>2. PICK d : GoToDue(t, at, c, d)
  BY DEF GoTo
<1>3. Proceeds
  BY <1>1, <1>2, MovesOn
<1>. QED
  BY <1>3 DEF GoesOn, WillTry

LEMMA QuietSleeps ==
    ASSUME CallInv, NEW e \in {"toReceive", "toSend"}, AllWoken(e), NEW t \in Task,
           Suspend(t) \/ Check(t) \/ LookAgain(t) \/ Expire(t)
    PROVE  ListInv' /\ AllWoken(e)'
<1>1. cur = t /\ pc[t] \in {"suspend", "check", "full", "expired"}
  BY DEF Suspend, Check, LookAgain, Expire, Running
<1>2. k' = k /\ cur' = cur /\ q' = q
  BY DEF Suspend, SuspendAll, Check, LookAgain, Expire
<1>3. \E at \in {"lock", "full", "unlockTx", "place", "app"} : \E c : GoTo(t, at, c)
  <2>1. CASE Suspend(t)
    BY <2>1 DEF Suspend
  <2>2. CASE Check(t)
    <3>1. PICK r : r = CheckForTimeOut(k, call[t])
      OBVIOUS
    <3>2. \/ GoTo(t, "unlockTx", [r.call EXCEPT !.after = "expired", !.force = FALSE])
          \/ GoTo(t, "full", r.call)
      BY <2>2, <3>1 DEF Check
    <3>. QED
      BY <3>2
  <2>3. CASE LookAgain(t)
    BY <2>3 DEF LookAgain
  <2>4. CASE Expire(t)
    BY <2>4 DEF Expire
  <2>. QED
    BY <2>1, <2>2, <2>3, <2>4
<1>4. PICK at \in {"lock", "full", "unlockTx", "place", "app"} : \E c : GoTo(t, at, c)
  BY <1>3
<1>5. at \in AnyPlace \ {"new", "delay", "until"}
  BY DEF AnyPlace, HeldPlaces, FreePlaces, AfterPlaces
<1>6. pc[t] \notin TryPlaces \cup {"app", "reap"}
  BY <1>1 DEF TryPlaces
<1>7. Proceeds /\ GoesOn
  <2>1. PICK c : GoTo(t, at, c)
    BY <1>4
  <2>. QED
    BY <1>1, <1>5, <1>6, <2>1, CallMovesOn
<1>. QED
  BY <1>2, <1>7, StillSleeps

(* The queue is unlocked when a call comes to lock it.                     *)
LEMMA LockIs ==
    ASSUME CallInv, NEW t \in Task, Lock(t)
    PROVE  /\ q.txLock = Unlocked /\ q.rxLock = Unlocked /\ q'.count = q.count
           /\ q'.txLock = LockedUnmodified /\ q'.rxLock = LockedUnmodified
<1>1. /\ cur = t /\ pc[t] = "lock" /\ q \in Queues
      /\ q' = [q EXCEPT !.txLock = Max({q.txLock, LockedUnmodified}),
                        !.rxLock = Max({q.rxLock, LockedUnmodified})]
  BY DEF Lock, Running, CallInv, IInv, Typed
<1>2. q.txLock = Unlocked /\ q.rxLock = Unlocked
  <2>1. \A u \in Task : pc[u] \in RxLockedPlaces => u = t
    BY <1>1, HeldOrFree DEF CallInv, IInv, OneTaskHoldsScheduler
  <2>2. \A u \in Task : pc[u] \notin RxLockedPlaces /\ pc[u] \notin TxLockedPlaces
    BY <1>1, <2>1 DEF RxLockedPlaces, TxLockedPlaces
  <2>. QED
    BY <2>2 DEF CallInv, IInv, OneTaskHoldsScheduler
<1>3. Max({Unlocked, LockedUnmodified}) = LockedUnmodified
  BY GreaterOfTwo DEF Unlocked, LockedUnmodified
<1>. QED
  BY <1>1, <1>2, <1>3 DEF Queues

LEMMA LockSleeps ==
    ASSUME CallInv, NEW e \in {"toReceive", "toSend"}, AllWoken(e), NEW t \in Task, Lock(t)
    PROVE  ListInv' /\ AllWoken(e)'
<1>1. cur = t /\ pc[t] = "lock" /\ k' = k /\ cur' = cur /\ GoTo(t, "check", call[t])
  BY DEF Lock, Running
<1>2. Proceeds /\ GoesOn
  <2>1. pc[t] \notin TryPlaces \cup {"app", "reap"}
    BY <1>1 DEF TryPlaces
  <2>2. "check" \in AnyPlace \ {"new", "delay", "until"}
    BY DEF AnyPlace, HeldPlaces
  <2>. QED
    BY <1>1, <2>1, <2>2, CallMovesOn
<1>3. Wakes(k', k, {})
  BY <1>1, WakesNone DEF CallInv, ListInv, SameLists
<1>4. PICK m \in Int : m = Left(e)
  BY LeftIs DEF CallInv
<1>5. m = Left(e)'
  <2>1. q.count \in Int /\ Length \in Int
    BY LeftIs DEF CallInv
  <2>. QED
    BY <1>4, <2>1, LockIs DEF Left, Unlocked, LockedUnmodified
<1>6. m <= Left(e)
  BY <1>4
<1>. QED
  BY <1>1, <1>2, <1>3, <1>5, <1>6, WakingStep

(* prvUnlockQueue wakes one task for every message that was moved on the   *)
(* locked queue, and those messages count from then on.                    *)
LEMMA UnlockSleeps ==
    ASSUME CallInv, NEW e \in {"toReceive", "toSend"}, AllWoken(e), NEW t \in Task,
           UnlockTx(t) \/ UnlockRx(t)
    PROVE  ListInv' /\ AllWoken(e)'
<1>1. PICK f : f = IF UnlockTx(t) THEN "toReceive" ELSE "toSend"
  OBVIOUS
<1>2. PICK n : n = IF UnlockTx(t) THEN q.txLock ELSE q.rxLock
  OBVIOUS
<1>3. PICK at : at = IF UnlockTx(t) THEN "unlockRx" ELSE "resume"
  OBVIOUS
<1>4. /\ cur = t /\ pc[t] \in {"unlockTx", "unlockRx"}
      /\ Keep(WakeMany(k, f, n)) /\ GoTo(t, at, call[t])
      /\ f \in {"toReceive", "toSend"} /\ f \in EventList /\ at \in {"unlockRx", "resume"}
  BY <1>1, <1>2, <1>3, QueueAssumption DEF UnlockTx, UnlockRx, Running
<1>5. n \in Nat
  <2>1. CASE UnlockTx(t)
    <3>1. pc[t] \in TxLockedPlaces
      BY <2>1 DEF UnlockTx, Running, TxLockedPlaces
    <3>2. q.txLock # Unlocked /\ q.txLock \in Unlocked .. MaxLocked
      BY <3>1 DEF CallInv, IInv, OneTaskHoldsScheduler, Typed, Queues
    <3>. QED
      BY <1>2, <2>1, <3>2, QueueAssumption DEF Unlocked
  <2>2. CASE ~UnlockTx(t)
    <3>1. pc[t] \in RxLockedPlaces
      BY <2>2 DEF UnlockRx, Running, RxLockedPlaces
    <3>2. q.rxLock # Unlocked /\ q.rxLock \in Unlocked .. MaxLocked
      BY <3>1 DEF CallInv, IInv, OneTaskHoldsScheduler, Typed, Queues
    <3>. QED
      BY <1>2, <2>2, <3>2, QueueAssumption DEF Unlocked
  <2>. QED
    BY <2>1, <2>2
<1>6. Woke(f, n) /\ cur' = cur
  BY <1>4, <1>5, ManyWoke DEF CallInv
<1>7. /\ pc'[t] = at /\ call'[t] = call[t] /\ last' = last
      /\ \A u \in Task \ {t} : pc'[u] = pc[u] /\ call'[u] = call[u]
  <2>1. PICK d : GoToDue(t, at, call[t], d)
    BY <1>4 DEF GoTo
  <2>. QED
    BY <1>4, <2>1, GoToIs
<1>8. GoesOn
  BY <1>4, <1>7 DEF GoesOn, WillTry, TryPlaces
<1>9. Proceeds
  <2>1. t # Idle /\ (IsReady(k, t) \/ call[t].force)
    BY <1>4, RunningIs DEF Leaving
  <2>2. call[t].force => Leaving(pc'[cur], call'[cur])
    BY <1>4, <1>7 DEF Leaving
  <2>3. last' \in [Task -> 0 .. MaxDelay]
    BY <1>7 DEF CallInv, ListInv
  <2>. QED
    BY <1>4, <1>7, <1>8, <2>1, <2>2, <2>3 DEF Proceeds, OthersStay
<1>10. PICK l \in Int : l = Left(e)
  BY LeftIs DEF CallInv
<1>11. PICK m : m = Left(e)'
  OBVIOUS
<1>12. m = l + (IF f = e THEN n ELSE 0)
  <2>1. q \in Queues /\ q.count \in Int /\ Length \in Int
    BY LeftIs DEF CallInv, IInv, Typed
  <2>2. CASE UnlockTx(t)
    <3>1. /\ q'.count = q.count /\ q'.txLock = Unlocked /\ q'.rxLock = q.rxLock
          /\ f = "toReceive" /\ n = q.txLock /\ q.txLock # Unlocked
      BY <1>1, <1>2, <1>5, <2>1, <2>2 DEF UnlockTx, Queues, Unlocked
    <3>2. CASE e = "toReceive"
      BY <1>5, <1>10, <1>11, <2>1, <3>1, <3>2 DEF Left
    <3>3. CASE e = "toSend"
      BY <1>5, <1>10, <1>11, <2>1, <3>1, <3>3 DEF Left
    <3>. QED
      BY <3>2, <3>3
  <2>3. CASE ~UnlockTx(t)
    <3>1. /\ q'.count = q.count /\ q'.rxLock = Unlocked /\ q'.txLock = q.txLock
          /\ f = "toSend" /\ n = q.rxLock /\ q.rxLock # Unlocked
      BY <1>1, <1>2, <1>5, <2>1, <2>3 DEF UnlockRx, Queues, Unlocked
    <3>2. CASE e = "toReceive"
      BY <1>5, <1>10, <1>11, <2>1, <3>1, <3>2 DEF Left
    <3>3. CASE e = "toSend"
      BY <1>5, <1>10, <1>11, <2>1, <3>1, <3>3 DEF Left
    <3>. QED
      BY <3>2, <3>3
  <2>. QED
    BY <2>2, <2>3
<1>13. /\ m \in Int
       /\ LET gain == IF f = e THEN n ELSE 0 IN
            \/ m <= l + gain - 1
            \/ m <= l + gain /\ (GoesOn \/ call[cur].op \notin Askers(e))
  BY <1>5, <1>8, <1>12
<1>14. n \in Int
  BY <1>5
<1>. QED
  BY <1>4, <1>6, <1>8, <1>9, <1>10, <1>11, <1>13, <1>14, WokeStep

(* A task goes to sleep on an event list with nothing there for it.        *)
LEMMA PlaceSleeps ==
    ASSUME CallInv, PlaceOk, NEW e \in {"toReceive", "toSend"}, AllWoken(e),
           NEW t \in Task, Place(t)
    PROVE  ListInv' /\ AllWoken(e)'
<1>1. PICK c : c = [call[t] EXCEPT !.after = "try", !.force = TRUE]
  OBVIOUS
<1>2. PICK f : f = WaitsOn(call[t].op)
  OBVIOUS
<1>3. /\ cur = t /\ pc[t] = "place" /\ cur' = cur /\ q' = q
      /\ k' = PlaceOnEventList(k, f, call[t].wait) /\ GoTo(t, "unlockTx", c)
  BY <1>1, <1>2 DEF Place, Running, Keep
<1>4. IsReady(k, t) /\ t # Idle /\ ListsOk(k) /\ call[t] \in CallRecords
  BY <1>3, RunningIs
<1>5. f \in EventList /\ f \in {"toReceive", "toSend"} /\ call[t].wait \in 0 .. MaxDelay
  BY <1>2, <1>4, QueueAssumption DEF WaitsOn, CallRecords
<1>6. c.after = "try" /\ c.force /\ c.op = call[t].op
  BY <1>1, <1>4 DEF CallRecords
<1>7. /\ pc'[t] = "unlockTx" /\ call'[t] = c /\ last' = last
      /\ \A u \in Task \ {t} : pc'[u] = pc[u] /\ call'[u] = call[u]
  <2>1. PICK d : GoToDue(t, "unlockTx", c, d)
    BY <1>3 DEF GoTo
  <2>. QED
    BY <2>1, GoToIs
<1>8. /\ Rests(k', k) /\ Range(k'.waiting[f]) = Range(k.waiting[f]) \cup {cur}
      /\ \A g \in EventList \ {f} : k'.waiting[g] = k.waiting[g]
  <2>1. LET r == PlaceOnEventList(k, f, call[t].wait) IN
        /\ Rests(r, k)
        /\ Range(r.waiting[f]) = Range(k.waiting[f]) \cup {cur}
        /\ \A g \in EventList \ {f} : r.waiting[g] = k.waiting[g]
    BY <1>3, <1>4, <1>5, PlaceRests
  <2>. QED
    BY <1>3, <2>1
<1>9. OthersStay
  BY <1>3, <1>7 DEF OthersStay
<1>10. ListInv'
  <2>1. \A g \in EventList : \A u \in Range(k'.waiting[g]) :
            \/ u \in Range(k.waiting[g])
            \/ u = cur /\ WillTry(pc'[cur], call'[cur]) /\ g = WaitsOn(call'[cur].op)
    <3>1. WillTry(pc'[cur], call'[cur]) /\ f = WaitsOn(call'[cur].op)
      BY <1>2, <1>3, <1>6, <1>7 DEF WillTry, TryPlaces
    <3>. QED
      BY <1>8, <3>1
  <2>2. last' \in [Task -> 0 .. MaxDelay]
    BY <1>7 DEF CallInv, ListInv
  <2>. QED
    BY <1>3, <1>4, <1>6, <1>7, <1>8, <1>9, <2>1, <2>2, RestingKeepsLists DEF CallInv
<1>11. CASE f = e
  <2>1. PICK m \in Int : m = Left(e)
    BY LeftIs DEF CallInv
  <2>2. m = Left(e)'
    BY <1>3, <2>1 DEF Left
  <2>3. m <= 0
    BY <1>2, <1>3, <1>11, <2>1 DEF PlaceOk
  <2>. QED
    BY <1>10, <2>2, <2>3, NothingLeft
<1>12. CASE f # e
  <2>1. k'.waiting[e] = k.waiting[e]
    BY <1>8, <1>12, QueueAssumption
  <2>2. pc[cur] \notin TryPlaces
    BY <1>3 DEF TryPlaces
  <2>. QED
    BY <1>3, <1>8, <1>9, <1>10, <2>1, <2>2, RestingKeepsEnough
<1>. QED
  BY <1>11, <1>12

(* A reset leaves no messages, and the one sender it wakes is enough if    *)
(* there is one place.                                                     *)
LEMMA ResetSleeps ==
    ASSUME CallInv, NEW e \in {"toReceive", "toSend"}, AllWoken(e), NEW t \in Task, Reset(t),
           e = "toReceive" \/ Length = 1
    PROVE  ListInv' /\ AllWoken(e)'
<1>1. /\ cur = t /\ IsReady(k, t) /\ suspended = 0
  BY CallerIsReady DEF Reset
<1>2. /\ WakeAndYield("toSend") /\ UNCHANGED << pc, call, last >>
      /\ q' = [count |-> 0, txLock |-> Unlocked, rxLock |-> Unlocked]
  BY DEF Reset, Stay
<1>3. Proceeds /\ GoesOn
  BY <1>2, StayProceeds DEF CallInv
<1>4. PICK f \in {"toReceive", "toSend"} : f = "toSend" /\ f \in EventList
  BY QueueAssumption
<1>5. Woke(f, 1) /\ (cur' = cur \/ (cur' \in Task /\ IsReady(k', cur')))
  BY <1>2, <1>4, WakeAndYieldWoke DEF CallInv
<1>6. PICK m : m = Left(e)'
  OBVIOUS
<1>7. Length \in Int /\ m = IF e = "toSend" THEN Length ELSE 0
  BY <1>2, <1>6, QueueAssumption DEF Left
<1>8. CASE e = "toReceive"
  <2>1. PICK W : Wakes(k', k, W)
    BY <1>5 DEF Woke
  <2>2. ListInv'
    BY <1>3, <1>5, <2>1, WakingKeepsLists DEF CallInv
  <2>3. m \in Int /\ m <= 0
    BY <1>7, <1>8
  <2>. QED
    BY <1>6, <2>2, <2>3, NothingLeft
<1>9. CASE e = "toSend"
  <2>1. PICK l \in Int : l = Left(e)
    BY LeftIs DEF CallInv
  <2>2. l >= 0
    <3>1. q.rxLock = Unlocked
      BY <1>1, RunsUnlocked DEF CallInv
    <3>2. q.count \in 0 .. Length
      BY LeftIs DEF CallInv
    <3>. QED
      BY <1>7, <1>9, <2>1, <3>1, <3>2 DEF Left
  <2>3. m = 1 /\ f = e
    BY <1>4, <1>7, <1>9
  <2>4. LET gain == IF f = e THEN 1 ELSE 0 IN
            \/ m <= l + gain - 1
            \/ m <= l + gain /\ (GoesOn \/ call[cur].op \notin Askers(e))
    BY <1>3, <2>2, <2>3
  <2>5. m \in Int
    BY <2>3
  <2>. QED
    BY <1>3, <1>5, <1>6, <2>1, <2>4, <2>5, WokeStep
<1>. QED
  BY <1>8, <1>9

(* An interrupt on an unlocked queue wakes a task for what it moved, on a  *)
(* locked one it leaves that to prvUnlockQueue.                            *)
LEMMA InterruptSleeps ==
    ASSUME CallInv, NEW e \in {"toReceive", "toSend"}, AllWoken(e),
           SendFromISR \/ ReceiveFromISR
    PROVE  ListInv' /\ AllWoken(e)'
<1>1. PICK b \in BOOLEAN : b <=> SendFromISR
  OBVIOUS
<1>2. PICK f : f = IF b THEN "toReceive" ELSE "toSend"
  OBVIOUS
<1>3. PICK lock : lock = IF b THEN q.txLock ELSE q.rxLock
  OBVIOUS
<1>4. UNCHANGED << pc, call, last >>
  BY DEF SendFromISR, ReceiveFromISR, Stay
<1>5. Proceeds /\ GoesOn
  BY <1>4, StayProceeds DEF CallInv
<1>6. q \in Queues /\ q.count \in Int /\ Length \in Int /\ q.txLock \in Int /\ q.rxLock \in Int
  BY LeftIs DEF CallInv, IInv, Typed
<1>7. PICK l \in Int : l = Left(e)
  BY LeftIs DEF CallInv
<1>8. PICK m : m = Left(e)'
  OBVIOUS
<1>9. q'.count = IF b THEN q.count + 1 ELSE q.count - 1
  BY <1>1, <1>6 DEF SendFromISR, ReceiveFromISR, Queues
<1>10. f \in EventList /\ f \in {"toReceive", "toSend"}
  BY <1>2, QueueAssumption
<1>11. CASE lock = Unlocked
  <2>1. Keep(WakeOne(k, f).data) /\ q'.txLock = q.txLock /\ q'.rxLock = q.rxLock
    BY <1>1, <1>2, <1>3, <1>6, <1>11 DEF SendFromISR, ReceiveFromISR, Queues
  <2>2. Woke(f, 1) /\ cur' = cur
    BY <1>10, <2>1, KeptWoke DEF CallInv
  <2>3. m = IF f = e THEN l + 1 ELSE l - 1
    <3>1. CASE e = "toSend"
      BY <1>2, <1>3, <1>6, <1>7, <1>8, <1>9, <1>11, <2>1, <3>1 DEF Left, Unlocked
    <3>2. CASE e = "toReceive"
      BY <1>2, <1>3, <1>6, <1>7, <1>8, <1>9, <1>11, <2>1, <3>2 DEF Left, Unlocked
    <3>. QED
      BY <3>1, <3>2
  <2>4. /\ m \in Int
        /\ LET gain == IF f = e THEN 1 ELSE 0 IN
            \/ m <= l + gain - 1
            \/ m <= l + gain /\ (GoesOn \/ call[cur].op \notin Askers(e))
    BY <1>5, <1>7, <2>3
  <2>. QED
    BY <1>5, <1>7, <1>8, <1>10, <2>2, <2>4, WokeStep
<1>12. CASE lock # Unlocked
  <2>1. /\ k' = k /\ cur' = cur
        /\ q'.txLock = IF b THEN q.txLock + 1 ELSE q.txLock
        /\ q'.rxLock = IF b THEN q.rxLock ELSE q.rxLock + 1
    BY <1>1, <1>3, <1>6, <1>12 DEF SendFromISR, ReceiveFromISR, Queues
  <2>2. Wakes(k', k, {})
    BY <2>1, WakesNone DEF CallInv, ListInv, SameLists
  <2>3. lock >= 0 /\ lock \in Int
    BY <1>3, <1>6, <1>12 DEF Queues, Unlocked
  <2>4. m \in Int /\ m <= l
    <3>1. CASE e = "toSend"
      BY <1>2, <1>3, <1>6, <1>7, <1>8, <1>9, <1>12, <2>1, <2>3, <3>1 DEF Left, Unlocked
    <3>2. CASE e = "toReceive"
      BY <1>2, <1>3, <1>6, <1>7, <1>8, <1>9, <1>12, <2>1, <2>3, <3>2 DEF Left, Unlocked
    <3>. QED
      BY <3>1, <3>2
  <2>. QED
    BY <1>5, <1>7, <1>8, <2>1, <2>2, <2>4, WakingStep
<1>. QED
  BY <1>11, <1>12

(* While the queue is locked the kernel only counts ticks.                 *)
LEMMA LockedKernelTicks ==
    ASSUME CallInv, KernelNext, pc[cur] \in TxLockedPlaces
    PROVE  Tick
<1>1. /\ pc[cur] \notin {"delay", "until", "resume", "yield", "held", "release", "reset",
                         "reap", "app"}
  BY DEF TxLockedPlaces
<1>2. \A t \in Task : ~KernelStep(t)
  BY <1>1 DEF KernelStep, DelayPlace, UntilPlace, Resume, YieldWithinApi, AppResumeAll,
              DeleteReset, IdleReap, Running
<1>3. \A t \in Task : ~AppStep(t)
  BY <1>1 DEF AppStep, Yield, Resync, AppSuspendAll, Delay, DelayUntil, Create, Delete,
              Calls, Running
<1>. QED
  BY <1>1, <1>2, <1>3 DEF KernelNext, IdleSuspendAll, IdleYield, Running

(* A task that is about to go to sleep holds the scheduler and the queue.  *)
LEMMA PlacingIs ==
    ASSUME IInv, NEW t \in Task, pc[t] \in TxLockedPlaces
    PROVE  cur = t /\ q.txLock >= 0 /\ q.rxLock >= 0
<1>1. pc[t] \in HeldPlaces /\ pc[t] \in RxLockedPlaces
  BY HeldOrFree
<1>2. cur = t /\ q.txLock # Unlocked /\ q.rxLock # Unlocked
  BY <1>1 DEF IInv, OneTaskHoldsScheduler
<1>. QED
  BY <1>2, QueueAssumption DEF IInv, Typed, Queues, Unlocked

LEMMA LookingMovesOn ==
    ASSUME CallInv, NEW t \in Task, LookAgain(t)
    PROVE  \A u \in Task : pc'[u] = "place" => Left(WaitsOn(call[u].op))' <= 0
                                               /\ call'[u] = call[u]
<1>1. cur = t /\ pc[t] = "full" /\ pc[t] \in TxLockedPlaces /\ q' = q
  BY DEF LookAgain, Running, TxLockedPlaces
<1>. SUFFICES ASSUME NEW u \in Task, pc'[u] = "place"
              PROVE  Left(WaitsOn(call[u].op))' <= 0 /\ call'[u] = call[u]
  OBVIOUS
<1>2. q.txLock >= 0 /\ q.rxLock >= 0
  BY <1>1, PlacingIs DEF CallInv
<1>3. PICK c : c = [call[t] EXCEPT !.after = "try", !.force = FALSE]
  OBVIOUS
<1>4. \/ MustWait(call[t].op) /\ GoTo(t, "place", call[t])
      \/ GoTo(t, "unlockTx", c)
  BY <1>3 DEF LookAgain
<1>5. PICK d \in {due[t]} : \/ MustWait(call[t].op) /\ GoToDue(t, "place", call[t], d)
                            \/ GoToDue(t, "unlockTx", c, d)
  BY <1>4 DEF GoTo
<1>6. u = t
  <2>1. u # t => pc'[u] = pc[u]
    BY <1>5, GoToIs
  <2>2. pc[u] = "place" => cur = u
    BY PlacingIs DEF CallInv, TxLockedPlaces
  <2>. QED
    BY <1>1, <2>1, <2>2
<1>7. MustWait(call[t].op) /\ GoToDue(t, "place", call[t], d)
  <2>1. ~GoToDue(t, "unlockTx", c, d)
    BY <1>6, GoToIs
  <2>. QED
    BY <1>5, <2>1
<1>8. call'[t] = call[t]
  BY <1>7, GoToIs
<1>9. /\ q.count \in Int /\ Length \in Int /\ q.txLock \in Int /\ q.rxLock \in Int
  BY LeftIs DEF CallInv
<1>10. q.count = IF call[t].op = "send" THEN Length ELSE 0
  BY <1>7 DEF MustWait
<1>11. CASE call[t].op = "send"
  BY <1>1, <1>2, <1>6, <1>8, <1>9, <1>10, <1>11 DEF Left, WaitsOn, Unlocked
<1>12. CASE call[t].op # "send"
  BY <1>1, <1>2, <1>6, <1>8, <1>9, <1>10, <1>12 DEF Left, WaitsOn, Unlocked
<1>. QED
  BY <1>11, <1>12

(* An interrupt leaves nothing more for a task that is about to sleep.     *)
LEMMA InterruptLeavesPlaces ==
    ASSUME CallInv, PlaceOk, SendFromISR \/ ReceiveFromISR
    PROVE  PlaceOk'
<1>. SUFFICES ASSUME NEW t \in Task, pc'[t] = "place"
              PROVE  Left(WaitsOn(call[t].op))' <= 0
  BY DEF PlaceOk
<1>1. pc[t] = "place" /\ call' = call
  BY DEF SendFromISR, ReceiveFromISR, Stay
<1>2. q.txLock >= 0 /\ q.rxLock >= 0
  BY <1>1, PlacingIs DEF CallInv, TxLockedPlaces
<1>3. PICK f \in {"toReceive", "toSend"} : f = WaitsOn(call[t].op)
  BY DEF WaitsOn
<1>4. q \in Queues /\ q.count \in Int /\ Length \in Int /\ q.txLock \in Int /\ q.rxLock \in Int
  BY LeftIs DEF CallInv, IInv, Typed
<1>5. PICK l \in Int : l = Left(f)
  BY LeftIs DEF CallInv
<1>6. l <= 0
  BY <1>1, <1>3, <1>5 DEF PlaceOk
<1>7. PICK m : m = Left(f)'
  OBVIOUS
<1>8. \/ /\ q'.count = q.count + 1 /\ q'.txLock = q.txLock + 1 /\ q'.rxLock = q.rxLock
      \/ /\ q'.count = q.count - 1 /\ q'.rxLock = q.rxLock + 1 /\ q'.txLock = q.txLock
  <2>1. q.txLock # Unlocked /\ q.rxLock # Unlocked
    BY <1>2, <1>4 DEF Unlocked
  <2>2. \/ q' = [q EXCEPT !.count = @ + 1, !.txLock = @ + 1]
        \/ q' = [q EXCEPT !.count = @ - 1, !.rxLock = @ + 1]
    BY <2>1 DEF SendFromISR, ReceiveFromISR
  <2>. QED
    BY <1>4, <2>2 DEF Queues
<1>9. m <= 0
  <2>1. CASE f = "toSend"
    BY <1>2, <1>4, <1>5, <1>6, <1>7, <1>8, <2>1 DEF Left, Unlocked
  <2>2. CASE f = "toReceive"
    BY <1>2, <1>4, <1>5, <1>6, <1>7, <1>8, <2>2 DEF Left, Unlocked
  <2>. QED
    BY <2>1, <2>2
<1>. QED
  BY <1>1, <1>3, <1>7, <1>9 DEF WaitsOn

LEMMA PlacesStay ==
    ASSUME PlaceOk, UNCHANGED << pc, call, q >>
    PROVE  PlaceOk'
<1>1. /\ pc' = pc /\ call' = call /\ \A e : Left(e)' = Left(e)
  BY DEF Left
<1>. QED
  BY <1>1 DEF PlaceOk, WaitsOn, Left

(* No task comes to the point of going to sleep in another way.            *)
LEMMA NoOtherPlaces ==
    ASSUME CallInv, CallInv',
           \/ KernelNext /\ q' = q /\ ~Tick
           \/ \E t \in Task : /\ QueueStep(t) \/ Reset(t) \/
                                 \E op \in {"send", "receive", "peek"}, wait \in Waits[t] :
                                     StartCall(t, op, wait)
                              /\ ~LookAgain(t)
    PROVE  \A u \in Task : pc'[u] # "place"
<1>. SUFFICES ASSUME NEW u \in Task, pc'[u] = "place" PROVE FALSE
  OBVIOUS
<1>1. pc[u] = "place" => cur = u
  BY PlacingIs DEF CallInv, TxLockedPlaces
<1>2. CASE KernelNext /\ q' = q /\ ~Tick
  <2>1. q'.txLock # Unlocked
    BY DEF CallInv, IInv, OneTaskHoldsScheduler, TxLockedPlaces
  <2>2. PICK t \in Task : pc[t] \in TxLockedPlaces
    BY <1>2, <2>1 DEF CallInv, IInv, OneTaskHoldsScheduler
  <2>3. cur = t
    BY <2>2, PlacingIs DEF CallInv
  <2>. QED
    BY <1>2, <2>2, <2>3, LockedKernelTicks
<1>3. ASSUME NEW t \in Task, QueueStep(t), ~LookAgain(t) PROVE FALSE
  <2>1. cur = t /\ pc[t] # "app"
    BY <1>3 DEF QueueStep, Retry, Suspend, Lock, Check, LookAgain, Place, UnlockTx, UnlockRx,
                Expire, Running
  <2>2. \E at \in AnyPlace \ {"place"} : \E c, d : GoToDue(t, at, c, d)
    <3>1. {"app", "suspend", "lock", "check", "full", "unlockTx", "unlockRx", "resume"}
            \subseteq AnyPlace \ {"place"}
      BY DEF AnyPlace, HeldPlaces, FreePlaces, AfterPlaces
    <3>2. CASE Retry(t)
      BY <3>1, <3>2 DEF Retry, Try, GoTo
    <3>3. CASE Suspend(t) \/ Lock(t)
      <4>1. GoTo(t, "lock", call[t]) \/ GoTo(t, "check", call[t])
        BY <3>3, Zenon DEF Suspend, Lock
      <4>. QED
        BY <3>1, <4>1 DEF GoTo
    <3>4. CASE Check(t)
      <4>1. PICK r : r = CheckForTimeOut(k, call[t])
        OBVIOUS
      <4>2. \/ GoTo(t, "unlockTx", [r.call EXCEPT !.after = "expired", !.force = FALSE])
            \/ GoTo(t, "full", r.call)
        BY <3>4, <4>1 DEF Check
      <4>. QED
        BY <3>1, <4>2 DEF GoTo
    <3>5. CASE Place(t)
      BY <3>1, <3>5 DEF Place, GoTo
    <3>6. CASE UnlockTx(t) \/ UnlockRx(t) \/ Expire(t)
      BY <3>1, <3>6 DEF UnlockTx, UnlockRx, Expire, GoTo
    <3>. QED
      BY <1>3, <3>2, <3>3, <3>4, <3>5, <3>6 DEF QueueStep
  <2>3. PICK at \in AnyPlace \ {"place"} : \E c, d : GoToDue(t, at, c, d)
    BY <2>2
  <2>4. PICK c, d : GoToDue(t, at, c, d)
    BY <2>3
  <2>5. pc'[t] = at /\ \A x \in Task \ {t} : pc'[x] = pc[x]
    BY <2>4, GoToIs
  <2>. QED
    BY <1>1, <2>1, <2>3, <2>5
<1>4. ASSUME NEW t \in Task, NEW op \in {"send", "receive", "peek"}, NEW wait,
             StartCall(t, op, wait)
      PROVE  FALSE
  <2>1. cur = t /\ pc[t] = "app"
    BY <1>4 DEF StartCall, Calls, Running
  <2>2. PICK at \in {"app", "suspend"} : \E c, d : GoToDue(t, at, c, d)
    BY <1>4 DEF StartCall, Try, GoTo
  <2>3. PICK c, d : GoToDue(t, at, c, d)
    BY <2>2
  <2>4. pc'[t] = at /\ \A x \in Task \ {t} : pc'[x] = pc[x]
    BY <2>3, GoToIs
  <2>. QED
    BY <1>1, <2>1, <2>2, <2>4
<1>5. ASSUME NEW t \in Task, Reset(t) PROVE FALSE
  BY <1>1, <1>5 DEF Reset, Calls, Running, Stay
<1>. QED
  BY <1>2, <1>3, <1>4, <1>5

LEMMA NextPlaces ==
    ASSUME CallInv, PlaceOk, CallInv', [QueueNext]_vars
    PROVE  PlaceOk'
<1>1. CASE (KernelNext /\ Tick /\ q' = q) \/ UNCHANGED vars
  <2>1. UNCHANGED << pc, call, q >>
    BY <1>1 DEF Tick, vars, kernelVars
  <2>. QED
    BY <2>1, PlacesStay
<1>2. CASE \E t \in Task : LookAgain(t)
  <2>1. PICK t \in Task : LookAgain(t)
    BY <1>2
  <2>2. \A u \in Task : pc'[u] = "place" => Left(WaitsOn(call[u].op))' <= 0
    BY <2>1, LookingMovesOn
  <2>. QED
    BY <2>2 DEF PlaceOk
<1>3. CASE SendFromISR \/ ReceiveFromISR
  BY <1>3, InterruptLeavesPlaces
<1>4. CASE KernelNext /\ q' = q /\ ~Tick
  <2>1. \A u \in Task : pc'[u] # "place"
    BY <1>4, NoOtherPlaces
  <2>. QED
    BY <2>1 DEF PlaceOk
<1>5. ASSUME NEW t \in Task, ~LookAgain(t),
             QueueStep(t) \/ Reset(t) \/
                \E op \in {"send", "receive", "peek"}, wait \in Waits[t] : StartCall(t, op, wait)
      PROVE  PlaceOk'
  <2>1. \A u \in Task : pc'[u] # "place"
    BY <1>5, NoOtherPlaces
  <2>. QED
    BY <2>1 DEF PlaceOk
<1>. QED
  BY <1>1, <1>2, <1>3, <1>4, <1>5 DEF QueueNext

LEMMA InitSleeps ==
    ASSUME QueueInit, NEW e \in {"toReceive", "toSend"}
    PROVE  CallInv /\ PlaceOk /\ AllWoken(e)
<1>1. IInv /\ TimeoutInv
  BY InitIInv, InitTimeouts
<1>2. StructInv
  BY KernelInitOk DEF QueueInit
<1>3. /\ suspended = 0 /\ call = [t \in Task |-> NoCall] /\ last = [t \in Task |-> 0]
      /\ pc = [t \in Task |-> IF t \in Startup \cup {Idle} THEN "app" ELSE "new"]
  BY DEF QueueInit, KernelInit
<1>4. k.waiting = [f \in EventList |-> << >>]
  <2>1. PICK order : k = Started(order)
    BY DEF QueueInit, KernelInit
  <2>. QED
    BY <2>1 DEF Started, AddTasksToReadyLists
<1>5. ListsOk(k) /\ PlacedOk /\ PlacesOk /\ CurOk /\ IdleOk
  BY <1>2 DEF StructInv, DataOk
<1>6. cur \in Task /\ pc[cur] \in {"app", "new"} /\ Idle \in Task
  BY <1>3, <1>5, TaskAssumption DEF PlacesOk
<1>7. RunningOk
  BY <1>5, <1>6 DEF CurOk, Asleep, RunningOk
<1>8. WaitersOk
  BY <1>4, EmptyIs DEF WaitersOk
<1>9. AbsentOk
  <2>1. SUFFICES ASSUME NEW t \in Task
                 PROVE  /\ pc[t] = "new" => ~Placed(k, t)
                        /\ t \in Range(k.terminated) =>
                              /\ ~Placed(k, t) /\ pc[t] # "new" /\ t # Idle
                              /\ call[t].after # "try"
    BY DEF AbsentOk
  <2>2. call[t].after # "try"
    BY <1>3 DEF NoCall
  <2>3. pc[t] = "new" \/ t \in Range(k.terminated) => ~Placed(k, t)
    BY <1>5 DEF PlacedOk, Live
  <2>4. t \in Range(k.terminated) => pc[t] # "new" /\ t # Idle
    BY <1>5 DEF IdleOk
  <2>. QED
    BY <2>2, <2>3, <2>4
<1>10. RestOk
  <2>1. IsReady(k, Idle) /\ IdleAt(pc[Idle], call[Idle])
    BY <1>5 DEF IdleOk, IdleAt
  <2>2. \A t \in Task : pc[t] \notin {"delay", "until"}
    BY <1>3
  <2>. QED
    BY <2>1, <2>2 DEF RestOk
<1>11. last \in [Task -> 0 .. MaxDelay]
  BY <1>5 DEF PlacesOk, TickType
<1>12. PlaceOk
  BY <1>3 DEF PlaceOk
<1>13. AllWoken(e)
  BY <1>4, QueueAssumption DEF AllWoken, Enough
<1>. QED
  BY <1>1, <1>5, <1>6, <1>7, <1>8, <1>9, <1>10, <1>11, <1>12, <1>13 DEF CallInv, ListInv

(* Who sleeps for good after a reset is a sender: one is woken, and there  *)
(* may be places for more.                                                 *)
OneIsEnough == Length = 1 \/ \A t \in Task : "reset" \notin Program[t]

LEMMA NextSleeps ==
    ASSUME NobodyIsDeleted, NEW e \in {"toReceive", "toSend"}, e = "toReceive" \/ OneIsEnough,
           CallInv, PlaceOk, AllWoken(e), [QueueNext]_vars
    PROVE  CallInv' /\ PlaceOk' /\ AllWoken(e)'
<1>1. IInv' /\ TimeoutInv'
  BY NextIInv, NextTimeouts DEF CallInv
<1>2. ListInv' /\ AllWoken(e)'
  <2>1. CASE UNCHANGED vars
    <3>1. UNCHANGED << pc, call, last >> /\ k' = k /\ cur' = cur /\ q' = q
      BY <2>1 DEF vars, kernelVars
    <3>. QED
      BY <3>1, StayProceeds, StillSleeps DEF CallInv
  <2>2. CASE KernelNext /\ UNCHANGED q
    BY <2>2, KernelSleeps
  <2>3. CASE SendFromISR \/ ReceiveFromISR
    BY <2>3, InterruptSleeps
  <2>4. ASSUME NEW t \in Task, QueueStep(t) PROVE ListInv' /\ AllWoken(e)'
    BY <2>4, RetrySleeps, QuietSleeps, LockSleeps, PlaceSleeps, UnlockSleeps DEF QueueStep
  <2>5. ASSUME NEW t \in Task, Reset(t) PROVE ListInv' /\ AllWoken(e)'
    <3>1. e = "toReceive" \/ Length = 1
      BY <2>5 DEF Reset, Calls, OneIsEnough
    <3>. QED
      BY <2>5, <3>1, ResetSleeps
  <2>6. ASSUME NEW t \in Task, NEW op \in {"send", "receive", "peek"}, NEW wait \in Waits[t],
               StartCall(t, op, wait)
        PROVE  ListInv' /\ AllWoken(e)'
    BY <2>6, StartCallSleeps
  <2>. QED
    BY <2>1, <2>2, <2>3, <2>4, <2>5, <2>6 DEF QueueNext
<1>3. CallInv'
  BY <1>1, <1>2 DEF CallInv
<1>. QED
  BY <1>2, <1>3, NextPlaces

(* Who is woken will look.                                                 *)
LEMMA WokenWillLook ==
    ASSUME ListInv, NEW e \in {"toReceive", "toSend"}, NEW n \in Int,
           Cardinality(Woken(e)) >= n
    PROVE  Cardinality(WillLook(Askers(e))) >= n
<1>1. PICK A : A = Woken(e)
  OBVIOUS
<1>2. PICK B : B = WillLook(Askers(e))
  OBVIOUS
<1>3. \A t \in Range(k.pendingReady) : t \in Task
  <2>1. k.pendingReady \in Seq(Task)
    BY KernelParts DEF ListInv, ListsOk, ListType
  <2>. QED
    BY <2>1, RangeIs
<1>4. B \subseteq Task
  BY <1>2, <1>3 DEF WillLook
<1>5. A \subseteq B
  BY <1>1, <1>2 DEF Woken, WillLook, Up, WillTry, TryPlaces
<1>6. IsFiniteSet(B)
  BY <1>4, TaskAssumption, FS_Subset
<1>7. Cardinality(A) \in Nat /\ Cardinality(B) \in Nat /\ Cardinality(A) <= Cardinality(B)
  BY <1>5, <1>6, FS_Subset, FS_CardinalityType
<1>. QED
  BY <1>1, <1>2, <1>7

(* No wake-up of a receiver is lost: while tasks wait to receive or to     *)
(* peek and messages lie in the unlocked queue, for each of the messages a *)
(* task has been woken and will look at the queue before it sleeps again,  *)
(* whatever the interrupts put in while a call has the queue locked or is  *)
(* on its way into the event list.  (For programs in which no task deletes *)
(* another: a task that has been woken takes its wake-up with it.)         *)
THEOREM NoReceiverSleepsOnThm ==
    ASSUME NobodyIsDeleted
    PROVE  QueueSpec => []NoReceiverSleepsOn
<1>1. CallInv /\ AllWoken("toReceive") => NoReceiverSleepsOn
  <2>. SUFFICES ASSUME CallInv, AllWoken("toReceive"), k.waiting["toReceive"] # << >>,
                       q.txLock <= LockedUnmodified
                PROVE  Cardinality(WillLook({"receive", "peek"})) >= q.count
    BY DEF NoReceiverSleepsOn
  <2>1. q.count \in Int /\ q.txLock \in Unlocked .. MaxLocked
    BY LeftIs DEF CallInv, IInv, Typed, Queues
  <2>2. Left("toReceive") = q.count
    BY <2>1, QueueAssumption DEF Left, Unlocked, LockedUnmodified
  <2>3. Cardinality(Woken("toReceive")) >= q.count
    BY <2>2 DEF AllWoken, Enough
  <2>4. Cardinality(WillLook(Askers("toReceive"))) >= q.count
    BY <2>1, <2>3, WokenWillLook DEF CallInv
  <2>. QED
    BY <2>4 DEF Askers
<1>2. QueueInit => CallInv /\ PlaceOk /\ AllWoken("toReceive")
  BY InitSleeps
<1>3. CallInv /\ PlaceOk /\ AllWoken("toReceive") /\ [QueueNext]_vars
        => (CallInv /\ PlaceOk /\ AllWoken("toReceive"))'
  BY NextSleeps
<1>. QED
  BY <1>1, <1>2, <1>3, PTL DEF QueueSpec

(* No wake-up of a sender is lost: while tasks wait to send and places are *)
(* free in the unlocked queue, for each of the places a task has been      *)
(* woken and will look at the queue before it sleeps again.  (For programs *)
(* in which no task deletes another, and no task resets the queue or the   *)
(* queue has one place: a reset wakes one sender only, queue.c:282.)       *)
THEOREM NoSenderSleepsOnThm ==
    ASSUME NobodyIsDeleted, OneIsEnough
    PROVE  QueueSpec => []NoSenderSleepsOn
<1>1. CallInv /\ AllWoken("toSend") => NoSenderSleepsOn
  <2>. SUFFICES ASSUME CallInv, AllWoken("toSend"), k.waiting["toSend"] # << >>,
                       q.rxLock <= LockedUnmodified
                PROVE  Cardinality(WillLook({"send"})) >= Length - q.count
    BY DEF NoSenderSleepsOn
  <2>1. /\ q.count \in Int /\ Length \in Int /\ q.rxLock \in Unlocked .. MaxLocked
        /\ Length - q.count \in Int
    BY LeftIs DEF CallInv, IInv, Typed, Queues
  <2>2. Left("toSend") = Length - q.count
    BY <2>1, QueueAssumption DEF Left, Unlocked, LockedUnmodified
  <2>3. Cardinality(Woken("toSend")) >= Length - q.count
    BY <2>2 DEF AllWoken, Enough
  <2>4. Cardinality(WillLook(Askers("toSend"))) >= Length - q.count
    BY <2>1, <2>3, WokenWillLook DEF CallInv
  <2>. QED
    BY <2>4 DEF Askers
<1>2. QueueInit => CallInv /\ PlaceOk /\ AllWoken("toSend")
  BY InitSleeps
<1>3. CallInv /\ PlaceOk /\ AllWoken("toSend") /\ [QueueNext]_vars
        => (CallInv /\ PlaceOk /\ AllWoken("toSend"))'
  BY NextSleeps
<1>. QED
  BY <1>1, <1>2, <1>3, PTL DEF QueueSpec
=============================================================================
