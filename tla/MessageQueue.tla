----------------------------- MODULE MessageQueue -----------------------------
(***************************************************************************)
(* Blocking sends and receives on a queue (Source/queue.c) by the tasks of *)
(* the scheduler and by interrupt handlers.  Of the messages only their    *)
(* number is kept.                                                         *)
(*                                                                         *)
(* A call that finds the queue full or empty suspends the scheduler, locks *)
(* the queue, looks at its timeout and at the queue again and only then    *)
(* goes to sleep.  Interrupts may come between any two of these steps: on  *)
(* a locked queue they count what they did, and prvUnlockQueue wakes the   *)
(* tasks they would have woken.                                            *)
(***************************************************************************)
EXTENDS TaskScheduler

CONSTANTS
    Length,         \* uxLength
    MaxLocked       \* bound: calls of interrupts that find the queue locked

ASSUME QueueAssumption ==
    /\ Length \in Nat \ {0} /\ MaxLocked \in Nat
    /\ {"toSend", "toReceive"} \subseteq EventList

VARIABLE q          \* uxMessagesWaiting, xTxLock and xRxLock

vars == << kernelVars, q >>

Unlocked == -1                          \* queueUNLOCKED
LockedUnmodified == 0                   \* queueLOCKED_UNMODIFIED

-----------------------------------------------------------------------------
(* The places where a call can be, and what it waits for.                  *)

WaitsOn(op) == IF op = "send" THEN "toSend" ELSE "toReceive"

MustWait(op) == q.count = IF op = "send" THEN Length ELSE 0

\* One task that waits on e becomes ready, if there is one.
WakeOne(s, e) ==
    IF s.waiting[e] = << >> THEN [data |-> s, switch |-> FALSE]
    ELSE RemoveFromEventList(s, e)

\* ... and the running task yields to it at once, if it has to.
WakeAndYield(e) == LET r == WakeOne(k, e) IN SwitchIf(r.switch, r.data)

\* What the call does to the queue when it need not wait.
Serve(op) ==
    /\ q' = [q EXCEPT !.count = CASE op = "send" -> @ + 1
                                  [] op = "receive" -> @ - 1
                                  [] OTHER -> @]
    /\ WakeAndYield(IF op = "receive" THEN "toSend" ELSE "toReceive")

\* The critical section at the head of the loop.
Try(t, c) ==
    \/ /\ ~MustWait(c.op)
       /\ Serve(c.op)
       /\ GoTo(t, "app", c)
    \/ /\ MustWait(c.op)
       /\ IF c.wait = 0 THEN GoTo(t, "app", c)
          ELSE IF c.set THEN GoTo(t, "suspend", c)
          ELSE GoToDue(t, "suspend",
                       [c EXCEPT !.set = TRUE, !.entering = k.tick, !.over = k.overflows],
                       c.wait)
       /\ UNCHANGED << cur, k, q >>

\* xQueueGenericSend, xQueueGenericReceive with and without xJustPeeking
StartCall(t, op, wait) ==
    /\ Calls(t, op)
    /\ Try(t, [NoCall EXCEPT !.op = op, !.wait = wait])
    /\ UNCHANGED suspended

Retry(t) == Running(t, "try") /\ Try(t, call[t]) /\ UNCHANGED suspended

Suspend(t) ==
    /\ Running(t, "suspend")
    /\ SuspendAll
    /\ GoTo(t, "lock", call[t])
    /\ UNCHANGED q

Lock(t) ==
    /\ Running(t, "lock")
    /\ q' = [q EXCEPT !.txLock = Max({@, LockedUnmodified}),
                      !.rxLock = Max({@, LockedUnmodified})]
    /\ GoTo(t, "check", call[t])
    /\ UNCHANGED << cur, suspended, k >>

\* Mutant: a call that gives up leaves the queue locked.
CheckKeepsLock(t) ==
    LET r == CheckForTimeOut(k, call[t]) IN
    /\ Running(t, "check")
    /\ IF r.expired
       THEN GoTo(t, "resume", [r.call EXCEPT !.after = "expired", !.force = FALSE])
       ELSE GoTo(t, "full", r.call)
    /\ UNCHANGED << cur, suspended, k, q >>

Check(t) ==
    LET r == CheckForTimeOut(k, call[t]) IN
    /\ Running(t, "check")
    /\ IF r.expired
       THEN GoTo(t, "unlockTx", [r.call EXCEPT !.after = "expired", !.force = FALSE])
       ELSE GoTo(t, "full", r.call)
    /\ UNCHANGED << cur, suspended, k, q >>

\* Mutant: the queue is not looked at again.
LookAgainNot(t) ==
    /\ Running(t, "full")
    /\ GoTo(t, "place", call[t])
    /\ UNCHANGED << cur, suspended, k, q >>

\* prvIsQueueFull, prvIsQueueEmpty
LookAgain(t) ==
    /\ Running(t, "full")
    /\ IF MustWait(call[t].op)
       THEN GoTo(t, "place", call[t])
       ELSE GoTo(t, "unlockTx", [call[t] EXCEPT !.after = "try", !.force = FALSE])
    /\ UNCHANGED << cur, suspended, k, q >>

Place(t) ==
    /\ Running(t, "place")
    /\ Keep(PlaceOnEventList(k, WaitsOn(call[t].op), call[t].wait))
    /\ GoTo(t, "unlockTx", [call[t] EXCEPT !.after = "try", !.force = TRUE])
    /\ UNCHANGED << suspended, q >>

\* One waiting task for every message the interrupts moved; what switch
\* returns is left to vTaskMissedYield.
WakeMany(s, e, n) ==
    LET wakes == Min({n, Len(s.waiting[e])})
        after[m \in 0 .. wakes] ==
            IF m = 0 THEN s ELSE WakeOne(after[m - 1], e).data
    IN after[wakes]

UnlockTx(t) ==
    /\ Running(t, "unlockTx")
    /\ Keep(WakeMany(k, "toReceive", q.txLock))
    /\ q' = [q EXCEPT !.txLock = Unlocked]
    /\ GoTo(t, "unlockRx", call[t])
    /\ UNCHANGED suspended

\* Mutant: the senders that the interrupts made room for are not woken.
UnlockRxWakesNone(t) ==
    /\ Running(t, "unlockRx")
    /\ q' = [q EXCEPT !.rxLock = Unlocked]
    /\ GoTo(t, "resume", call[t])
    /\ UNCHANGED << cur, suspended, k >>

UnlockRx(t) ==
    /\ Running(t, "unlockRx")
    /\ Keep(WakeMany(k, "toSend", q.rxLock))
    /\ q' = [q EXCEPT !.rxLock = Unlocked]
    /\ GoTo(t, "resume", call[t])
    /\ UNCHANGED suspended

\* xTaskResumeAll and the yield are the scheduler's; a timeout ends here.
Expire(t) ==
    /\ Running(t, "expired")
    /\ GoTo(t, "app", NoCall)
    /\ UNCHANGED << cur, suspended, k, q >>

\* xQueueGenericReset
Reset(t) ==
    /\ Calls(t, "reset")
    /\ WakeAndYield("toSend")
    /\ q' = [count |-> 0, txLock |-> Unlocked, rxLock |-> Unlocked]
    /\ Stay /\ UNCHANGED suspended

-----------------------------------------------------------------------------
(* Interrupt handlers.                                                     *)

\* Mutant: a full queue takes another message.
SendFromISRAnyway ==
    /\ q.txLock < MaxLocked
    /\ IF q.txLock = Unlocked
       THEN /\ Keep(WakeOne(k, "toReceive").data)
            /\ q' = [q EXCEPT !.count = @ + 1]
       ELSE /\ q' = [q EXCEPT !.count = @ + 1, !.txLock = @ + 1]
            /\ UNCHANGED << cur, k >>
    /\ Stay /\ UNCHANGED suspended

\* The event list is left alone while the queue is locked.
SendFromISR ==
    /\ q.count < Length /\ q.txLock < MaxLocked
    /\ IF q.txLock = Unlocked
       THEN /\ Keep(WakeOne(k, "toReceive").data)
            /\ q' = [q EXCEPT !.count = @ + 1]
       ELSE /\ q' = [q EXCEPT !.count = @ + 1, !.txLock = @ + 1]
            /\ UNCHANGED << cur, k >>
    /\ Stay /\ UNCHANGED suspended

ReceiveFromISR ==
    /\ q.count > 0 /\ q.rxLock < MaxLocked
    /\ IF q.rxLock = Unlocked
       THEN /\ Keep(WakeOne(k, "toSend").data)
            /\ q' = [q EXCEPT !.count = @ - 1]
       ELSE /\ q' = [q EXCEPT !.count = @ - 1, !.rxLock = @ + 1]
            /\ UNCHANGED << cur, k >>
    /\ Stay /\ UNCHANGED suspended

-----------------------------------------------------------------------------
QueueInit ==
    /\ KernelInit
    /\ q = [count |-> 0, txLock |-> Unlocked, rxLock |-> Unlocked]

QueueStep(t) ==
    \/ Retry(t) \/ Suspend(t) \/ Lock(t) \/ Check(t) \/ LookAgain(t) \/ Place(t)
    \/ UnlockTx(t) \/ UnlockRx(t) \/ Expire(t)

QueueNext ==
    \/ KernelNext /\ UNCHANGED q
    \/ \E t \in Task :
        \/ QueueStep(t)
        \/ Reset(t)
        \/ \E op \in {"send", "receive", "peek"}, wait \in Waits[t] : StartCall(t, op, wait)
    \/ SendFromISR
    \/ ReceiveFromISR

QueueSpec == QueueInit /\ [][QueueNext]_vars

-----------------------------------------------------------------------------
(* Properties.                                                             *)

QueueTypeOK ==
    /\ q.count \in 0 .. Length
    /\ q.txLock \in Unlocked .. MaxLocked /\ q.rxLock \in Unlocked .. MaxLocked

\* The places of a call between vTaskSuspendAll and xTaskResumeAll, and the
\* ones where it has locked the queue.
HeldPlaces == {"delay", "until", "resume", "held", "release", "lock",
               "check", "full", "place", "unlockTx", "unlockRx"}
TxLockedPlaces == {"check", "full", "place", "unlockTx"}
RxLockedPlaces == TxLockedPlaces \cup {"unlockRx"}

\* The scheduler is held by one task, the current one, from the vTaskSuspendAll
\* of its call to the xTaskResumeAll, and only such a task has the queue
\* locked, whatever other tasks and the interrupts do meanwhile: it may place
\* itself on an event list without a critical section (vTaskPlaceOnEventList
\* must be called with "THE SCHEDULER SUSPENDED AND THE QUEUE BEING ACCESSED
\* LOCKED").
OneTaskHoldsScheduler ==
    /\ \A t \in Task : pc[t] \in HeldPlaces => cur = t /\ suspended > 0
    /\ suspended > 0 => cur \in Task /\ pc[cur] \in HeldPlaces
    /\ q.txLock # Unlocked <=> \E t \in Task : pc[t] \in TxLockedPlaces
    /\ q.rxLock # Unlocked <=> \E t \in Task : pc[t] \in RxLockedPlaces

\* Tasks that will look at the queue again before they sleep: they are ready,
\* in a call for op, and past the last look that could send them to sleep.
WillLook(ops) ==
    {t \in Task : /\ call[t].op \in ops /\ t \notin Delayed(k)
                  /\ pc[t] \in {"suspend", "lock", "check", "full", "try", "yield", "resume",
                                "unlockTx", "unlockRx"}
                  /\ call[t].after # "expired"}
    \cup {t \in Range(k.pendingReady) : call[t].op \in ops}

\* No wake-up is lost: while tasks wait to receive and messages lie in the
\* unlocked queue, there is for each of these messages a task that has been
\* woken and will look.  (The interrupts of a locked queue leave the event
\* lists alone, prvUnlockQueue catches up.)
NoReceiverSleepsOn ==
    k.waiting["toReceive"] # << >> /\ q.txLock <= LockedUnmodified =>
        Cardinality(WillLook({"receive", "peek"})) >= q.count

NoSenderSleepsOn ==
    k.waiting["toSend"] # << >> /\ q.rxLock <= LockedUnmodified =>
        Cardinality(WillLook({"send"})) >= Length - q.count

\* A call gives up only when the time it asked for is over: neither a wake-up
\* without a message nor a wrap of the tick count ends it early.
NoEarlyTimeout ==
    \A t \in Task :
        pc[t] = "expired" \/ (call[t].set /\ call[t].wait = 0) => due[t] <= 0

\* A waiting call sleeps no longer than it asked for (xTaskCheckForTimeOut
\* adjusts the block time "for time remaining").
CallsSleepAsLongAsAsked ==
    \A t \in Delayed(k) :
        call[t].op \in {"send", "receive", "peek"} => TicksToWake(t) = due[t] + k.pended
=============================================================================
