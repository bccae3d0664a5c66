---------------------------- MODULE TaskScheduler ----------------------------
(***************************************************************************)
(* The FreeRTOS V8.2.2 scheduler of the RI5CY port, as FreeRTOSConfig.h    *)
(* configures it (Source/tasks.c): preemption and time slicing on, 16-bit  *)
(* ticks, delays and task deletion, no suspension of single tasks.         *)
(*                                                                         *)
(* A step is the code between two places where an interrupt can be taken:  *)
(* a critical section, or a stretch that runs under vTaskSuspendAll and    *)
(* that interrupts share no data with.  Only the current task takes steps  *)
(* of its own; the tick interrupt comes between any two of them.           *)
(***************************************************************************)
EXTENDS TaskLists

CONSTANTS
    Task,           \* the task control blocks the heap has room for
    Idle,           \* the one of the idle task
    Startup,        \* the tasks main creates before it starts the scheduler
    Priority,       \* uxPriority, 0 .. configMAX_PRIORITIES - 1
    EventList,      \* the lists a task can wait on
    Program,        \* which calls the code of each task makes
    Waits,          \* the block times its calls ask for
    TickSpan,       \* number of values of TickType_t
    OverflowSpan,   \* number of values of xNumOfOverflows
    PendedSpan,     \* number of values of uxPendedTicks
    MaxPended       \* bound: ticks that arrive during one suspension

Op == {"yield", "delay", "until", "suspend", "create", "delete", "exit",
       "send", "receive", "peek", "reset"}

MaxDelay == TickSpan - 1                            \* portMAX_DELAY

ASSUME TaskAssumption ==
    /\ IsFiniteSet(Task)
    /\ Idle \in Task /\ Startup \subseteq Task \ {Idle} /\ End \notin Task
    /\ Priority \in [Task -> Nat] /\ Priority[Idle] = 0
    /\ Program \in [Task -> SUBSET Op] /\ Program[Idle] = {}
ASSUME SpanAssumption ==
    /\ TickSpan \in Nat \ {0, 1} /\ Waits \in [Task -> SUBSET (0 .. MaxDelay)]
    /\ OverflowSpan \in Nat \ {0} /\ PendedSpan \in Nat \ {0} /\ MaxPended \in Nat
\* The history variable due keeps one moment for a task: a periodic task makes
\* no other call that has one.
ASSUME ProgramAssumption ==
    \A t \in Task : "until" \in Program[t] =>
        Program[t] \cap {"delay", "send", "receive", "peek"} = {}

VARIABLES
    cur,        \* pxCurrentTCB
    suspended,  \* uxSchedulerSuspended
    k,          \* the lists, the ticks and xYieldPending
    pc,         \* where each task is in the call it is making
    call,       \* the arguments and locals of that call
    last,       \* pxPreviousWakeTime of a periodic task
    due         \* history: tick interrupts still to come until the moment asked for

kernelVars == << cur, suspended, k, pc, call, last, due >>

Priorities == 0 .. Max({Priority[t] : t \in Task})

-----------------------------------------------------------------------------
(* Functions on the kernel's data.                                         *)

IsReady(s, t) == t \in Range(s.ready[Priority[t]])
Delayed(s)    == Range(s.delayed) \cup Range(s.overflow)

\* prvAddTaskToReadyList, for the tasks of a sequence one after the other.
AddTasksToReadyLists(s, tasks) ==
    LET of(p) == ListRemove(tasks, {t \in Task : Priority[t] # p}) IN
    [s EXCEPT !.top = Max({@} \cup {Priority[t] : t \in Range(tasks)}),
              !.ready = [p \in Priorities |-> RingInsertAllEnd(@[p], of(p))]]

\* Mutant: a sleeper of the next round of the tick count is not found.
RemoveGenericItemsDelayed(s, tasks) ==
    [s EXCEPT !.wakeAt   = [t \in Task |-> IF t \in tasks THEN 0 ELSE @[t]],
              !.ready    = [p \in Priorities |-> ListRemove(@[p], tasks)],
              !.delayed  = ListRemove(@, tasks)]

\* uxListRemove of xGenericListItem: from whichever list holds it.  The value
\* of the item is read in the delayed lists only, and forgotten with them.
RemoveGenericItems(s, tasks) ==
    [s EXCEPT !.wakeAt   = [t \in Task |-> IF t \in tasks THEN 0 ELSE @[t]],
              !.ready    = [p \in Priorities |-> ListRemove(@[p], tasks)],
              !.delayed  = ListRemove(@, tasks),
              !.overflow = ListRemove(@, tasks)]

\* uxListRemove of xEventListItem.
RemoveEventItems(s, tasks) ==
    [s EXCEPT !.pendingReady = ListRemove(@, tasks),
              !.waiting      = [e \in EventList |-> ListRemove(@[e], tasks)]]

\* The tasks of a sequence leave the Blocked state.
Unblock(s, tasks) ==
    AddTasksToReadyLists(
        RemoveEventItems(RemoveGenericItems(s, Range(tasks)), Range(tasks)), tasks)

ResetNextTaskUnblockTime(s) ==
    [s EXCEPT !.nextUnblock =
        IF s.delayed = << >> THEN MaxDelay ELSE s.wakeAt[Head(s.delayed)]]

\* Mutant: the counter of overflows is wider than its type.
SwitchDelayedListsWide(s) ==
    ResetNextTaskUnblockTime(
        [s EXCEPT !.delayed = s.overflow, !.overflow = s.delayed,
                  !.overflows = @ + 1])

SwitchDelayedLists(s) ==
    ResetNextTaskUnblockTime(
        [s EXCEPT !.delayed = s.overflow, !.overflow = s.delayed,
                  !.overflows = (@ + 1) % OverflowSpan])

\* Mutant: an earlier wake time does not become the next one.
AddCurrentTaskToDelayedListLate(s, wake) ==
    LET r == [RemoveGenericItems(s, {cur}) EXCEPT !.wakeAt[cur] = wake] IN
    IF wake < s.tick
    THEN [r EXCEPT !.overflow = ListInsert(@, cur, r.wakeAt)]
    ELSE [r EXCEPT !.delayed  = ListInsert(@, cur, r.wakeAt)]

AddCurrentTaskToDelayedList(s, wake) ==
    LET r == [RemoveGenericItems(s, {cur}) EXCEPT !.wakeAt[cur] = wake] IN
    IF wake < s.tick
    THEN [r EXCEPT !.overflow = ListInsert(@, cur, r.wakeAt)]
    ELSE [r EXCEPT !.delayed  = ListInsert(@, cur, r.wakeAt),
                   !.nextUnblock = Min({@, wake})]

\* Mutant: a task wakes one tick after its time.
ExpiredStrictly(s) ==
    LET later == {n \in DOMAIN s.delayed : s.tick <= s.wakeAt[s.delayed[n]]} IN
    IF later = {} THEN s.delayed ELSE SubSeq(s.delayed, 1, Min(later) - 1)

\* The tasks at the head of the delayed list whose time has come.
Expired(s) ==
    LET later == {n \in DOMAIN s.delayed : s.tick < s.wakeAt[s.delayed[n]]} IN
    IF later = {} THEN s.delayed ELSE SubSeq(s.delayed, 1, Min(later) - 1)

\* Mutants: no time slicing; no preemption by a task that wakes.
IncrementTickNoSlice(s) ==
    LET r == [s EXCEPT !.tick = (@ + 1) % TickSpan]
        w == IF r.tick = 0 THEN SwitchDelayedLists(r) ELSE r
        woken == IF w.tick < w.nextUnblock THEN << >> ELSE Expired(w)
        u == IF w.tick < w.nextUnblock THEN w
             ELSE ResetNextTaskUnblockTime(Unblock(w, woken))
    IN [data   |-> u,
        switch |-> \/ \E t \in Range(woken) : Priority[t] >= Priority[cur]
                   \/ u.yieldPending]

IncrementTickNoPreempt(s) ==
    LET r == [s EXCEPT !.tick = (@ + 1) % TickSpan]
        w == IF r.tick = 0 THEN SwitchDelayedLists(r) ELSE r
        u == IF w.tick < w.nextUnblock THEN w
             ELSE ResetNextTaskUnblockTime(Unblock(w, Expired(w)))
    IN [data   |-> u,
        switch |-> \/ Cardinality(RingItems(u.ready[Priority[cur]])) > 1
                   \/ u.yieldPending]

\* xTaskIncrementTick while the scheduler runs: the new data, and whether the
\* tick asks for a context switch.
IncrementTick(s) ==
    LET r == [s EXCEPT !.tick = (@ + 1) % TickSpan]
        w == IF r.tick = 0 THEN SwitchDelayedLists(r) ELSE r
        woken == IF w.tick < w.nextUnblock THEN << >> ELSE Expired(w)
        u == IF w.tick < w.nextUnblock THEN w
             ELSE ResetNextTaskUnblockTime(Unblock(w, woken))
    IN [data   |-> u,
        switch |-> \/ \E t \in Range(woken) : Priority[t] >= Priority[cur]
                   \/ Cardinality(RingItems(u.ready[Priority[cur]])) > 1
                   \/ u.yieldPending]

\* Mutant: the pended ticks are forgotten.
CatchUpNoTicks(s) ==
    [Unblock(s, s.pendingReady) EXCEPT !.pended = 0, !.yieldPending =
        @ \/ \E t \in Range(s.pendingReady) : Priority[t] >= Priority[cur]]

\* What xTaskResumeAll does as the last suspension ends: the pending tasks
\* first, then the pended ticks.
CatchUp(s) ==
    LET moved == [Unblock(s, s.pendingReady) EXCEPT !.yieldPending =
                    @ \/ \E t \in Range(s.pendingReady) : Priority[t] >= Priority[cur]]
        after[n \in 0 .. s.pended] ==
            IF n = 0 THEN moved
            ELSE LET i == IncrementTick(after[n - 1])
                 IN [i.data EXCEPT !.yieldPending = @ \/ i.switch]
    IN [after[s.pended] EXCEPT !.pended = 0]

PlaceOnEventList(s, e, wait) ==
    LET order == [t \in Task |-> -Priority[t]] IN
    AddCurrentTaskToDelayedList(
        [s EXCEPT !.waiting[e] = ListInsert(@, cur, order)],
        (s.tick + wait) % TickSpan)

\* The task that has waited on e with the highest priority becomes ready, or
\* is kept aside while the scheduler is suspended.
RemoveFromEventList(s, e) ==
    LET t == Head(s.waiting[e])
        r == RemoveEventItems(s, {t})
        w == IF suspended = 0
             THEN AddTasksToReadyLists(RemoveGenericItems(r, {t}), << t >>)
             ELSE [r EXCEPT !.pendingReady = Append(@, t)]
        higher == Priority[t] > Priority[cur]
    IN [data |-> [w EXCEPT !.yieldPending = @ \/ higher], switch |-> higher]

\* Mutant: the time is over one tick early.
CheckForTimeOutEarly(s, c) ==
    LET elapsed == s.tick - c.entering IN
    IF \/ s.overflows # c.over /\ s.tick >= c.entering
       \/ elapsed + 1 >= c.wait
    THEN [expired |-> TRUE, call |-> c]
    ELSE [expired |-> FALSE,
          call |-> [c EXCEPT !.wait = (@ - elapsed) % TickSpan,
                             !.entering = s.tick, !.over = s.overflows]]

\* The comparison is made on int: on this machine a TickType_t is promoted,
\* and the difference of two ticks can be negative.
CheckForTimeOut(s, c) ==
    LET elapsed == s.tick - c.entering IN
    IF \/ s.overflows # c.over /\ s.tick >= c.entering
       \/ elapsed >= c.wait
    THEN [expired |-> TRUE, call |-> c]
    ELSE [expired |-> FALSE,
          call |-> [c EXCEPT !.wait = (@ - elapsed) % TickSpan,
                             !.entering = s.tick, !.over = s.overflows]]

-----------------------------------------------------------------------------
(* Changes of the current task.                                            *)

\* The highest priority that has a ready task, from uxTopReadyPriority down.
TopReady(s) == Max({p \in Priorities : p <= s.top /\ RingItems(s.ready[p]) # {}})

SwitchContext(s) ==
    IF suspended > 0
    THEN k' = [s EXCEPT !.yieldPending = TRUE] /\ UNCHANGED cur
    ELSE LET p == TopReady(s)
             ring == RingNextOwner(s.ready[p])
         IN /\ k'   = [s EXCEPT !.yieldPending = FALSE, !.top = p, !.ready[p] = ring]
            /\ cur' = Last(ring)

Keep(s) == k' = s /\ UNCHANGED cur

SwitchIf(switch, s) == IF switch THEN SwitchContext(s) ELSE Keep(s)

SuspendAll == suspended' = suspended + 1 /\ UNCHANGED << cur, k >>

\* xTaskResumeAll, which tells whether it has yielded.  The yield looks at
\* the suspension that is just over.
ResumeAll(yielded) ==
    /\ suspended' = suspended - 1
    /\ IF suspended > 1 THEN ~yielded /\ UNCHANGED << cur, k >>
       ELSE LET s == CatchUp(k)
                p == TopReady(s)
                ring == RingNextOwner(s.ready[p])
            IN /\ yielded = s.yieldPending
               /\ IF yielded
                  THEN /\ k'   = [s EXCEPT !.yieldPending = FALSE, !.top = p, !.ready[p] = ring]
                       /\ cur' = Last(ring)
                  ELSE Keep(s)

-----------------------------------------------------------------------------
(* The steps of a task.                                                    *)

NoCall == [op |-> "none", wait |-> 0, set |-> FALSE, entering |-> 0, over |-> 0,
           after |-> "app", force |-> FALSE]

Running(t, at) == cur = t /\ pc[t] = at

\* The application makes a call with the scheduler running.
Calls(t, op) == Running(t, "app") /\ suspended = 0 /\ op \in Program[t]

Periodic(t) == "until" \in Program[t]

\* Move on to another place of call c, whose moment is d ticks away.  A call
\* that is over leaves nothing, but the task may sleep in a delay it has left.
GoToDue(t, at, c, d) ==
    LET over == at = "app" /\ c.op \notin {"delay", "until"} IN
    /\ pc'   = [pc EXCEPT ![t] = at]
    /\ call' = [call EXCEPT ![t] = IF over THEN NoCall ELSE c]
    /\ due'  = [due EXCEPT ![t] = IF over /\ ~Periodic(t) THEN 0 ELSE d]
    /\ UNCHANGED last

GoTo(t, at, c) == GoToDue(t, at, c, due[t])

Stay == UNCHANGED << pc, call, last, due >>

Yield(t) ==
    /\ Calls(t, "yield")
    /\ SwitchContext(k)
    /\ Stay /\ UNCHANGED suspended

Delay(t, wait) ==
    /\ Calls(t, "delay")
    /\ IF wait = 0
       THEN SwitchContext(k) /\ Stay /\ UNCHANGED suspended
       ELSE /\ SuspendAll
            /\ GoTo(t, "delay", [NoCall EXCEPT !.op = "delay", !.wait = wait,
                                               !.force = TRUE])

DelayPlace(t) ==
    /\ Running(t, "delay")
    /\ Keep(AddCurrentTaskToDelayedList(k, (k.tick + call[t].wait) % TickSpan))
    /\ GoToDue(t, "resume", [call[t] EXCEPT !.wait = 0], call[t].wait - k.pended)
    /\ UNCHANGED suspended

\* pxPreviousWakeTime = xTaskGetTickCount(), as a periodic task starts.
Resync(t) ==
    /\ Calls(t, "until")
    /\ last' = [last EXCEPT ![t] = k.tick]
    /\ due'  = [due EXCEPT ![t] = 0]
    /\ UNCHANGED << cur, suspended, k, pc, call >>

\* A periodic task is not late by a whole cycle of the tick count.
DelayUntil(t, wait) ==
    /\ Calls(t, "until") /\ wait > 0 /\ due[t] > -TickSpan
    /\ SuspendAll
    /\ GoTo(t, "until", [NoCall EXCEPT !.op = "until", !.wait = wait, !.force = TRUE])

UntilPlace(t) ==
    LET wake  == (last[t] + call[t].wait) % TickSpan
        sleep == IF k.tick < last[t] THEN wake < last[t] /\ wake > k.tick
                                     ELSE wake < last[t] \/ wake > k.tick
    IN /\ Running(t, "until")
       /\ Keep(IF sleep THEN AddCurrentTaskToDelayedList(k, wake) ELSE k)
       /\ last' = [last EXCEPT ![t] = wake]
       /\ pc'   = [pc EXCEPT ![t] = "resume"]
       /\ due'  = [due EXCEPT ![t] = @ + call[t].wait]
       /\ UNCHANGED << suspended, call >>

\* xTaskResumeAll at the end of a call; it may be followed by a yield.
Resume(t) ==
    /\ Running(t, "resume")
    /\ \E yielded \in BOOLEAN :
        /\ ResumeAll(yielded)
        /\ GoTo(t, IF call[t].force /\ ~yielded THEN "yield" ELSE call[t].after, call[t])

\* portYIELD_WITHIN_API at the end of a call.
YieldWithinApi(t) ==
    /\ Running(t, "yield")
    /\ SwitchContext(k)
    /\ GoTo(t, call[t].after, call[t])
    /\ UNCHANGED suspended

\* The application holds the scheduler, at most twice over, and lets it go.
AppSuspendAll(t) ==
    /\ Calls(t, "suspend") \/ (Running(t, "held") /\ suspended = 1)
    /\ SuspendAll
    /\ GoTo(t, "held", NoCall)

AppResumeAll(t) ==
    /\ Running(t, "held") \/ Running(t, "release")
    /\ \E yielded \in BOOLEAN : ResumeAll(yielded)
    /\ GoTo(t, IF suspended = 1 THEN "app" ELSE "release", NoCall)

\* xTaskCreate, from the moment both allocations have succeeded.  Each of them
\* (pvPortMalloc of heap_1) holds the scheduler for a few statements, which is
\* left out; a failed one leaves the kernel's data as they are.
Create(t, u) ==
    /\ Calls(t, "create") /\ pc[u] = "new"
    /\ Keep(AddTasksToReadyLists(k, << u >>))
    /\ pc' = [pc EXCEPT ![u] = "app",
                        ![t] = IF Priority[t] < Priority[u] THEN "yield" ELSE "app"]
    /\ UNCHANGED << suspended, call, last, due >>

\* A task that deletes itself gives up the processor and never gets it back;
\* one that deletes another then looks for the next time to unblock.
Delete(t, u) ==
    /\ Calls(t, IF u = t THEN "exit" ELSE "delete")
    /\ u # Idle /\ pc[u] \notin {"new", "gone"} /\ u \notin Range(k.terminated)
    /\ Keep([RemoveEventItems(RemoveGenericItems(k, {u}), {u})
                EXCEPT !.terminated = Append(@, u)])
    /\ pc' = [pc EXCEPT ![u] = "app", ![t] = IF u = t THEN "yield" ELSE "reset"]
    /\ call' = [call EXCEPT ![u] = NoCall]
    /\ UNCHANGED << suspended, last, due >>

DeleteReset(t) ==
    /\ Running(t, "reset")
    /\ Keep(ResetNextTaskUnblockTime(k))
    /\ GoTo(t, "app", NoCall)
    /\ UNCHANGED suspended

\* The idle task frees one deleted task after another, then shares its
\* priority with the other tasks of it.
IdleSuspendAll ==
    /\ Running(Idle, "app") /\ k.terminated # << >>
    /\ SuspendAll
    /\ GoTo(Idle, "resume", [NoCall EXCEPT !.after = "reap"])

IdleReap ==
    /\ Running(Idle, "reap")
    /\ Keep([k EXCEPT !.terminated = Tail(@)])
    /\ pc' = [pc EXCEPT ![Idle] = "app", ![Head(k.terminated)] = "gone"]
    /\ call' = [call EXCEPT ![Idle] = NoCall]
    /\ UNCHANGED << suspended, last, due >>

\* The list is read without a critical section; reading it and yielding are
\* one step here.  A tick in between may leave the list shorter than was read,
\* and the yield then chooses the idle task again or one that may run.
IdleYield ==
    /\ Running(Idle, "app") /\ k.terminated = << >>
    /\ Cardinality(RingItems(k.ready[0])) > 1
    /\ SwitchContext(k)
    /\ Stay /\ UNCHANGED suspended

-----------------------------------------------------------------------------
(* The timer interrupt (vPortYieldFromTick).                               *)

\* The clock of a task runs while it sleeps or is in a call, and always if it
\* is periodic.
Timed(t) == /\ pc[t] \notin {"new", "gone"}
            /\ pc[t] # "app" \/ Periodic(t) \/ t \in Delayed(k)

\* How late a task may be before the model stops counting.
Floor(t) == IF Periodic(t) THEN -TickSpan - MaxPended ELSE -MaxPended - 1

Tick ==
    /\ IF suspended > 0
       THEN /\ k.pended < MaxPended
            /\ SwitchIf(k.yieldPending, [k EXCEPT !.pended = (@ + 1) % PendedSpan])
       ELSE LET r == IncrementTick(k) IN SwitchIf(r.switch, r.data)
    /\ due' = [t \in Task |-> IF Timed(t) THEN Max({due[t] - 1, Floor(t)}) ELSE due[t]]
    /\ UNCHANGED << suspended, pc, call, last >>

-----------------------------------------------------------------------------
(* main creates the tasks in any order, vTaskStartScheduler the idle task; *)
(* of the tasks of the highest priority the last one runs first.  A        *)
(* periodic task has no wake time to go by before it reads the tick count. *)

Started(order) ==
    AddTasksToReadyLists(
        [ready |-> [p \in Priorities |-> EmptyRing], top |-> 0,
         delayed |-> << >>, overflow |-> << >>, wakeAt |-> [t \in Task |-> 0],
         nextUnblock |-> MaxDelay, pendingReady |-> << >>,
         waiting |-> [e \in EventList |-> << >>], terminated |-> << >>,
         tick |-> 0, overflows |-> 0, pended |-> 0, yieldPending |-> FALSE],
        order)

KernelInit ==
    /\ \E order \in SetToSeqs(Startup) :
        LET created == Append(order, Idle)
            highest == {n \in DOMAIN created : \A m \in DOMAIN created :
                            Priority[created[m]] <= Priority[created[n]]}
        IN k = Started(created) /\ cur = created[Max(highest)]
    /\ suspended = 0
    /\ pc   = [t \in Task |-> IF t \in Startup \cup {Idle} THEN "app" ELSE "new"]
    /\ call = [t \in Task |-> NoCall]
    /\ last = [t \in Task |-> 0]
    /\ due  = [t \in Task |-> IF Periodic(t) THEN Floor(t) ELSE 0]

\* What a task does inside the kernel, once it has made a call.
KernelStep(t) ==
    \/ DelayPlace(t) \/ UntilPlace(t) \/ Resume(t) \/ YieldWithinApi(t)
    \/ AppResumeAll(t) \/ DeleteReset(t) \/ (t = Idle /\ IdleReap)

AppStep(t) ==
    \/ Yield(t) \/ Resync(t) \/ AppSuspendAll(t)
    \/ \E wait \in Waits[t] : Delay(t, wait) \/ DelayUntil(t, wait)
    \/ \E u \in Task : Create(t, u) \/ Delete(t, u)

KernelNext ==
    \/ Tick
    \/ IdleSuspendAll
    \/ IdleYield
    \/ \E t \in Task : KernelStep(t) \/ AppStep(t)

KernelSpec == KernelInit /\ [][KernelNext]_kernelVars

\* Ticks keep coming, and a task that is given the processor again and again
\* gets on with its call: a tick is some 1450 cycles, a step a few dozen.
\* (Weak fairness of Tick and strong fairness of the steps, spelled out with
\* the conditions under which they are enabled.)
TickComes == suspended > 0 => k.pended < MaxPended
InKernel(t) == cur = t /\ pc[t] # "app"

KernelFairness ==
    /\ <>[]TickComes => []<><<Tick>>_kernelVars
    /\ \A t \in Task : []<>InKernel(t) => []<><<KernelStep(t)>>_kernelVars

FairKernelSpec == KernelSpec /\ KernelFairness

-----------------------------------------------------------------------------
(* Properties.                                                             *)

Live == {t \in Task : pc[t] \notin {"new", "gone"} /\ t \notin Range(k.terminated)}

\* Every variable keeps its type, and the current task has a control block.
KernelTypeOK ==
    /\ k.tick \in 0 .. MaxDelay /\ k.nextUnblock \in 0 .. MaxDelay
    /\ k.overflows \in 0 .. OverflowSpan - 1
    /\ k.pended \in 0 .. PendedSpan - 1 /\ suspended \in 0 .. 2
    /\ cur \in Task /\ k.top \in Priorities /\ k.yieldPending \in BOOLEAN
    /\ k.wakeAt \in [Task -> 0 .. MaxDelay]
    /\ \A p \in Priorities : RingItems(k.ready[p]) \subseteq Task
    /\ last \in [Task -> 0 .. MaxDelay]
    /\ \A t \in Task : due[t] \in Floor(t) .. MaxDelay

\* A task that exists is in exactly one list of its state, at the place that
\* its priority or its wake time gives it, whatever the order of its calls,
\* the ticks and the deletions; one that is deleted is in none but the list
\* of the idle task (uxListRemove and vListInsert never see a stale item).
TasksAreInOneList ==
    LET items(t) == Cardinality({p \in Priorities : t \in Range(k.ready[p])})
                    + Cardinality({i \in DOMAIN k.delayed : k.delayed[i] = t})
                    + Cardinality({i \in DOMAIN k.overflow : k.overflow[i] = t})
        events(t) == Cardinality({i \in DOMAIN k.pendingReady : k.pendingReady[i] = t})
                     + Cardinality({e \in EventList : t \in Range(k.waiting[e])})
    IN \A t \in Task :
        /\ items(t) = IF t \in Live THEN 1 ELSE 0
        /\ t \in Live => IsReady(k, t) \/ t \in Delayed(k)
        /\ events(t) <= 1
        /\ events(t) = 1 => t \in Delayed(k)

\* The delayed lists are sorted, xNextTaskUnblockTime never lies after the
\* first wake time, and the list the tick count leaves behind when it wraps
\* is empty ("The delayed tasks list should be empty when the lists are
\* switched"): no sleeper can be passed over.
NoSleeperIsPassedOver ==
    /\ \A s \in {k.delayed, k.overflow} : \A i \in 1 .. Len(s) - 1 :
            k.wakeAt[s[i]] <= k.wakeAt[s[i + 1]]
    /\ k.delayed # << >> => /\ k.nextUnblock <= k.wakeAt[Head(k.delayed)]
                            /\ k.wakeAt[Head(k.delayed)] >= k.tick
    /\ \A t \in Range(k.overflow) : k.wakeAt[t] < k.tick

\* The running task is never one of lower priority than a ready task, unless
\* a switch is already on order: the scheduler is held, a yield is pending or
\* the running task is about to yield (a preemptive, priority scheduler).
NoHigherTaskIsKeptWaiting ==
    \A t \in Task : IsReady(k, t) /\ Priority[t] > Priority[cur] =>
        suspended > 0 \/ k.yieldPending \/ pc[cur] \in {"yield", "resume"}

\* A sleeping task wakes at the tick it asked for, neither earlier nor later,
\* across wraps of the tick count and ticks that were pended while the
\* scheduler was held (xTaskResumeAll unwinds them "so that any delayed tasks
\* are resumed at the correct time").
TicksToWake(t) == IF t \in Range(k.delayed) THEN k.wakeAt[t] - k.tick
                                            ELSE k.wakeAt[t] + TickSpan - k.tick

SleepersWakeOnTime ==
    \A t \in Delayed(k) :
        call[t].op \in {"delay", "until"} => TicksToWake(t) = due[t] + k.pended

\* A ready task that no other task of higher priority keeps from the
\* processor gets it: the cursor of its ready list comes round to it.
FirstInLine(t) ==
    IsReady(k, t) /\ \A u \in Task : IsReady(k, u) => Priority[u] <= Priority[t]

ReadyTasksRun ==
    \A t \in Task : FirstInLine(t) ~> (cur = t \/ ~FirstInLine(t))

\* A task that sleeps wakes, unless it is deleted first.
SleepersWake == \A t \in Task : t \in Delayed(k) ~> t \notin Delayed(k)
=============================================================================
