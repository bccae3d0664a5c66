# A formal model of PULPino with DIFT

This directory holds TLA+ modules that model parts of this repository, TLC
configurations that model-check them on small instances, and proofs of their
most important invariants for every instance, checked by TLAPS. The repository
is the PULPino system on chip with a dynamic information flow tracking (DIFT)
extension of its RI5CY core, together with the software that runs on it: an
Arduino library, a FreeRTOS port, a system library and demonstration programs.
The core's own files are a submodule; what the repository holds of it is
`src/riscv.patch`, which replaces or adds whole files (the load/store unit, the
units of the DIFT) and changes hunks of others.

The definitions are translated from the source. `PROJECT.json` names, for each
of them, the file and the lines it stands for; the comment above a property says
which behaviour of the code it is about.

1. [Components](#1-components)
2. [Plan](#2-plan)
3. [Modules and code](#3-modules-and-code)
4. [Runs](#4-runs)
5. [Disagreements between the code and what is said of it](#5-disagreements)
6. [What is proved](#6-what-is-proved)
7. [What is not modelled](#7-what-is-not-modelled)

## 1. Components

| component | state | operations | works with |
|---|---|---|---|
| `generic_fifo.sv` | controller EMPTY/MIDDLE/FULL, two pointers, registers | push and pop, both in one clock | peripherals, over a valid/grant handshake |
| load/store unit (`load_store_unit.sv`, in the patch as `.bak` copy and hunks) | four-state controller, the granted access, `rdata_q`; the same for tags | request, grant, answer, second part of a misaligned access | EX and WB stages, `core_region` |
| `core_region.sv`, data side | response register, data RAM, tag RAM, their output registers | demultiplex to RAM or AXI, arbitrate with the other master | load/store unit, AXI |
| DIFT units | none: combinational in TPR and TCR | look up a policy, propagate a tag, check it | ID, EX, WB |
| DIFT pipeline | tag half of ID/EX, EX/WB, tag register file, THR | forward, latch, write back, refuse an instruction | decoder, controller, CSR file |
| FreeRTOS scheduler (`tasks.c`, `list.c`) | ready, delayed, pending and event lists, tick count, next time to unblock, suspension count | tick, switch, delay, suspend/resume, create, delete | every kernel service, tick interrupt |
| FreeRTOS queues (`queue.c`) | number of messages, two lock counters, two event lists | send, receive, peek, reset; send and receive from interrupts | scheduler, interrupt handlers |
| Arduino two-wire driver (`twi.c`) | `twi_state`, buffer and index, error, flags | read, write, interrupt handler, stop | I2C controller, bus |
| Arduino time base, pin interrupts, serial port | a counter, handler tables, a peeked byte | `micros`, `delay`, `attachInterrupt`, `read` | their interrupts |
| system library | none | access peripheral registers, poll | peripherals |
| instruction side, `random_stalls`, AXI/APB wrappers, SoC top, reset and clocks | registers of the wrapped IPs | wiring | core, submodule IPs |
| toolchain changes, test bench, scripts | none at run time | - | - |

What makes these parts correct, and hard:

* *Hardware.* Everything happens at once on a clock edge; handshakes may be
  delayed at either end for any number of cycles. A FIFO must hand out each word
  once and in order. An answer of memory must reach the access it belongs to,
  although two memories answer and a misaligned load is two accesses. A store
  must write its bytes only. The tag of a value must follow it through
  forwarding paths that were made for data, past instructions that are killed
  or refused, and into a memory that other masters also use.
* *Kernel.* An interrupt may come between any two steps of a task, save in a
  critical section, and may make any task ready. No sleeper may be missed, nor
  wake early or late, when the tick count wraps; no wake-up of a queue may fall
  between a look at the queue and going to sleep; the task of the highest
  priority must run.
* *Driver.* The caller and the interrupt handler share variables without
  locks, the caller polls without a timeout, the device may refuse and another
  master may win the bus. Results must tell what happened on the bus, and each
  caller must get one.

The hazards, each at its line with the properties that cover it, are listed in
`PROJECT.json` under "hazards".

## 2. Plan

The order was: (1) the FIFO, as a small contract with a refinement; (2) the data
side of the core, where two state machines and two memories meet; (3) the DIFT
units and their pipeline; (4) the kernel's scheduler and, on top of it, the
queues; (5) the two-wire driver. All five are done. What would come next:

* misaligned accesses and CSR writes in `TagPipeline`;
* priorities that change and notifications in `TaskScheduler`, event groups on
  top of it, if an application of the repository comes to use them;
* `micros()` against its compare interrupt, and the pin interrupts.

## 3. Modules and code

```
BoundedFifo <--refines-- GenericFifo <-- GenericFifoProofs

LsuAlign <-- LoadStoreUnit <--\
    ^                          CoreRegion <-- MCCoreRegion
    \------- DataRam <--------/        ^----- CoreRegionProofs <-- CoreRegionLoadProofs

TagUnits <-- TagPipeline <-- TagPrograms <-- MCTagPipeline
                                  ^--------- TagPipelineProofs

TaskLists <-- TaskScheduler <-- MCTaskScheduler
                    ^   ^------ TaskListProofs <-- TaskSchedulerProofs
                    ^---------- MessageQueue <-- MCMessageQueue
                                      ^--------- MessageQueueProofs
TwoWire <-- TwoWireProofs
```

An arrow points to the module that is extended; `MessageQueueProofs` extends
`TaskSchedulerProofs` as well. Operators whose comment begins
with "Mutant" are the definitions above or below them with a plausible bug; no
specification uses them. They show that the property they are listed with in
`PROJECT.json` does fail when the code is changed so.

### generic_fifo: `GenericFifo`, `BoundedFifo`

A step is a rising edge of `clk`. The eight branches of the next-state block are
eight actions, `Clock` conjoins them with the two handshakes. Increments keep
the width of the pointer registers (`Truncate`). `put` and `got` observe the
handshakes. `BoundedFifo` is what users rely on: a queue of at most `Depth`
words; `FifoContract` maps the registers between the pointers to it. The clock
gate of the registers is not a separate state, since it is open in every cycle
in which a word can be stored.

### Data side: `LsuAlign`, `LoadStoreUnit`, `DataRam`, `CoreRegion`

`LsuAlign` is the combinational part (byte enables, rotation, assembly and sign
extension, and their tag counterparts) with a byte-wise reference definition for
each. `LoadStoreUnit` is the controller and the registers: the branches of the
case statement are `TakeGrant`, `TakeAnswer`, `AnswerInStall`, `LeaveStall` and
`StayPut`. `DataRam` is `ram_mux` in front of the data RAM and of the tag RAM.
`CoreRegion` connects them with the demultiplexer and the response register, an
EX stage that offers accesses in any order, a WB stage, another master and
peripherals behind AXI (external: they grant and answer when they like, one
access at a time). `first`, `want`, `goldMem` and `goldTags` are history
variables that no action reads: they are what byte-wise memory would hold.
An access that crosses the border of the RAM is left out (an assumption on
`Access`), because the response register would have to listen to both memories.

Where the unit's text is. The file that is built, `load_store_unit.sv`, appears
in the patch as hunks (`riscv.patch:21207` to 21585): they show what the DIFT
adds, the tag half, and three lines of context around it. The logic between the
hunks has one text in the repository, the copy `load_store_unit.sv.bak` that the
patch adds whole (from `riscv.patch:21586` on). `PROJECT.json` therefore maps the
byte enables, the rotation, the extension and the controller to lines 21703 to
22192 of that copy, and the tag half to the hunks.

### DIFT: `TagUnits`, `TagPipeline`

`TagUnits` is the policy lookup and the propagation and check units as
operators over a decoded instruction. `TagPipeline` is a clock edge of ID, EX
and WB with the tags: `ReadTag` is the forwarding multiplexer, `Latch` and
`StepTags` the tag half of ID/EX, `ExException`, `LoadException` and `Illegal`
the refusal of an instruction, `WriteTags` the register file with its two
ports, `StepThr` the hierarchy register. The program is a set of instructions
that come in any order except for the pairs `MayFollow` leaves out (section 5).
`TagPrograms` says which programs and policies keep off the disagreements of
section 5, one definition for each; `MCTagPipeline` has TLC evaluate that both
programs of the runs do.
Branch outcomes, fetch, grants and answers are chosen in the step. The load
stall of the core's controller is external. `gold` and `blame` are history:
the tags and levels that the policies give in program order, and whether the
policies refuse the instruction in EX or WB.

### Kernel: `TaskLists`, `TaskScheduler`, `MessageQueue`

`TaskLists` is `list.c` twice: as the ring with a cursor for ready lists (the
end marker is a member of it, because new items go before the cursor and the
cursor may stand on the marker), as a sorted sequence for the others.

`TaskScheduler` keeps the kernel's data in the record `k` (lists, ticks, yield
pending) next to `cur`, `suspended` and one program counter per task. A step is
what the code does between two places where an interrupt can be taken: a
critical section, or a stretch under `vTaskSuspendAll` that shares nothing with
interrupts. Critical sections of this port do not nest (`portmacro.h` defines
them as `int_disable`/`int_enable`), so what follows an inner one is a step of
its own. Only the current task has steps; `Tick` is the timer interrupt and
comes between any two. A call is a chain of steps: `Delay` suspends, then
`DelayPlace` leaves the ready list, then `Resume` unwinds pended ticks and
yields; `YieldWithinApi` is the yield that follows if `xTaskResumeAll` has not
already done so. `IncrementTick`, `CatchUp` and `ResumeAll` model the tick and
`xTaskResumeAll` whole, with every list they touch. `configMAX_PRIORITIES` is
the range of the constant `Priority`. Deletion leaves a task to the idle task,
which frees it (`IdleReap`); `heap_1` frees nothing, so a control block is
never used twice ("gone").

`MessageQueue` adds the queue: the head of the loop (`Try`), the suspension, the
lock, the timeout (`Check`), the second look (`LookAgain`), going to sleep
(`Place`) and the two halves of `prvUnlockQueue` are separate steps, and
`SendFromISR` and `ReceiveFromISR` come between any two. Interrupt handlers of
this port request a switch by `xYieldPending` alone, which the next tick takes.
Of a message only its presence is kept. `due` is history: how many tick
interrupts are left until the moment a call asked for. It runs on until the task
is awake, also while the call itself is over (a task that yielded in
`xTaskResumeAll` is past its call and asleep), so `SleepersWakeOnTime` speaks of
every sleeper. A periodic task (one that calls `vTaskDelayUntil`) has no
moment before it first reads the tick count (`Resync`). As the one history
variable keeps one moment for a task, `ProgramAssumption` keeps periodic tasks
from other calls with a timeout; this is a limit of the bookkeeping, the kernel
has none. `ListRemove` and the other folds over lists are recursive functions
on the length of the list, so that they can be reasoned about.

### Two-wire driver: `TwoWire`

A step of the caller is a statement that touches what it shares with the handler
or the controller; `ISR_I2C` is one step, since it runs with interrupts off, and
a pending interrupt goes first. The controller is outside the repository: it is
taken from its registers as `twi.c` uses them, and raises its flag whenever a
command is over. `late` is history: a command of this transfer was over before
the caller had set `twi_state` and `Address_ACK`, which the code only sets after
the command (the hazard at `twi.c:169`); a byte on the bus takes thousands of
cycles, the two statements a few, unless another interrupt comes between them.
Properties that need the caller to be in time say so. `result` is what the last
call returned, by kind: a read, a write that waited, a write that did not wait
("unwaited": it reads `twi_error` as soon as its command is out), or a call that
was refused at its head, with the code 1 or 4. A NACK that the controller
sends for a byte it reads is not represented: the driver never asks for one.

## 4. Runs

Distinct states in parentheses. Every run that passes explores its whole state
space.

| run | what it asks | instance |
|---|---|---|
| `generic_fifo` (1,024) | is each cycle of the FIFO one of a bounded queue, and do controller and pointers agree? | 4 registers, 2 words: pointers wrap past each other in every phase |
| `core_region_data` (236,072) | do loads return, and stores write, their bytes? | every type and offset, misaligned pairs, both extensions; bytes 0 or 255; 2 RAM words |
| `core_region_shared` (9,572) | the same with AXI and another master in between; is every request granted and every misaligned load completed? | RAM and AXI back to back, another master that writes one word and reads the other |
| `core_region_tags` (112,047) | do loads see, and do stores leave, the right tags, also when EX stalls at any moment? | aligned accesses to the even word, p.spsw, an AXI store between them |
| `tag_pipeline_tags` (86,677) | are tags and levels those of program order? | 2 registers, all classes but comparisons, a policy with all four modes |
| `tag_pipeline_checks` (16,930) | is an instruction refused if and only if its own operands are? | 2 registers, checked classes, an instruction may be refused in EX or WB |
| `scheduler` (45,417) | do lists stay consistent, sleepers wake on time, priorities hold and ready tasks run? | 4 tasks on 3 priorities, 3 tick values, 1 pended tick |
| `message_queue` (830,712) | is a wake-up ever lost, is the scheduler held by one task, does a call give up early? | 3 tasks, a queue of 1, 2 tick values, 1 call of an interrupt on a locked queue |
| `two_wire` (181,655) | do results tell what happened on the bus, and do waiting callers return? | a buffer of 2, lengths 0 to 3 |
| `tags_shared`, `queue_timeout`, `repeated_start` | violations, see section 5 | |

*Why the bounds are enough.* The FIFO's behaviour depends on the distance of
its pointers and on the wrap, which four registers show in full; the proof
covers every power of two. The data side works on one access at a time and
remembers one before it; two adjacent words are all a misaligned access can
touch. In the pipeline an instruction meets at most the two in front of it;
two registers distinguish "mine" from "another". Three tick values let a
sleeper wait in either delayed list across a wrap, with another task asleep at
the same time; a third value of the tick count also keeps "now" apart from
"just over". `MaxPended` limits a suspension to one tick: two in a row only
repeat `IncrementTick` on its own result. A queue of one place is empty and
full in turn at each call, which is where calls wait; `MaxLocked` bounds how
many calls of interrupts a locked queue counts. `Floor` in `TaskScheduler` only
stops the history variable from counting for ever. Lengths up to 3 with a buffer
of 2 are: nothing to send, one byte, several bytes, too many.

`message_queue` runs with two tick values, so `NoEarlyTimeout` sees blocks of
one tick; the run `queue_timeout` has four.

*Fairness.* `CoreRegion`: the other master leaves cycles free, AXI grants and
answers; nothing is assumed of the core. `TaskScheduler`: ticks come (a tick is
1,450 cycles and a step some tens: `configTICK_RATE_HZ` is 100000 cut to
16 bits, 34464, at 50 MHz), and a task that is given the processor again and
again gets on with the call it is in; application code need not get anywhere.
It is spelled out with the conditions under which the actions are enabled
instead of `WF_`/`SF_`, which keeps TLC's graph small. `TwoWire`: the caller and
the controller get on, interrupts are taken, other masters leave the bus, and a
caller that polls a bus that is free again and again finds it so in the end.

*Deadlock* is checked except in the two runs of `TwoWire`, where a caller that
polls a bus its own repeated start holds really has no step left that changes
anything (section 5).

<a id="5-disagreements"></a>
## 5. Disagreements between the code and what is said of it

### With a run

* **`tags_shared`** (`core_region.sv:257`). The write enable and the tag go from
  the core to the tag RAM past `ram_mux`, while address and byte enables come
  from the selected port. A `p.spsw` that waits for the RAM tags the word the
  other master is accessing. The write data is commented "M[RS1+offset]:
  destination tag" (`src/riscv.patch:19593`).
* **`queue_timeout`** (`tasks.c:2621`). `TickType_t` has 16 bits and is promoted
  to `int`. After a wrap of the tick count the elapsed time is negative: it is
  always less than the block time, and the subtraction that should shorten the
  block time lengthens it. A call that looks again after a wrap may sleep longer
  than was asked for. The comment says "Not a genuine timeout. Adjust parameters
  for time remaining." (`tasks.c:2623`). With 32-bit ticks, where there is no
  promotion, it would hold.
* **`repeated_start`** (`twi.c:222`, and `twi.c:132`). After a transfer without
  a STOP the bus stays busy, held by this master. The next call polls
  `I2C_STATUS_BUSY` before it looks at `twi_inRepStart`, and polls for ever.
  `Wire.cpp:146` says that `endTransmission(false)` "allows a sketch to perform a
  repeated start". `Wire.cpp:149` warns that the bus may be left hung if
  `endTransmission(true)` is never called; here no later call gets as far as
  that, `endTransmission(true)` included.

### Without a run

Met while modelling; each is outside what the passing runs explore, and the
place where it is left out is named.

* **FIFO depths that are not a power of two** (`generic_fifo.sv:116`). The push
  taken in EMPTY increments the pointer without the wrap test that MIDDLE has, so
  the pointer leaves the array and an accepted word is dropped.
  `parameter_check` refuses only `DATA_DEPTH < 1`. (Theorems assume
  `FullWidth`, and the run has four registers.)
* **Tags of odd words** (`src/riscv.patch:21299`). The offset for the tags is
  `addr[2:0]`, so in a word with address bit 2 set a byte or halfword is looked
  up at bits 4 to 7 of a tag word that has bits 0 to 3. (`TagAccess` has even
  words.) The tag of the first word of a misaligned load is kept as one bit, so
  the second part cannot use it. (`TagAccess` has aligned accesses.) After an
  answer of a peripheral the tag register is shown, which is another load's.
  (`TagAccess` loads from the RAM only.)
* **Multiplies** (`src/riscv.patch:20618`). The tag half of ID/EX is loaded only
  if `~mult_en`: a multiply propagates with the control and operands of the
  instruction before it. (`TagProgram` has no "mul"; `StepTags` models it.)
* **Forwarding a load** (`src/riscv.patch:20158`). An operand that is still in WB
  is given the tag that memory returned, while the register file is given the
  one that the policy computes. They differ under any load policy but OR of the
  source alone. (`MixedTPR` keeps that policy for loads.)
* **Forwarding under the mode OLD** (`src/riscv.patch:20157`). The multiplexer is
  set by the data hazard, and EX forwards its tag also when the mode keeps it
  from being written (`rf_enable_tag` at line 19585 gates the write only): the
  next instruction takes the register for unmarked, the ones after it see the
  old tag. (In `CheckProgram` the operation under OLD has no destination.)
* **A misaligned load held up in EX** (`src/riscv.patch:21935`). When the answer
  of the second part comes while another unit stalls EX, `rdata_q` takes the raw
  word of memory, where outside the stall it takes the assembled one; the half
  from the first part is lost. (The runs that stall EX have aligned loads.)
* **Load checks before the answer** (`src/riscv.patch:21103`). `load_check` is
  combinational: until memory answers it looks at the tag of the load before, so
  an allowed load that has to wait may be refused. (`MixedTCR` checks the
  address of loads, not their data.)
* **p.set and p.hmark are not forwarded** (`src/riscv.patch:1054`). They write no
  data register, so hazard detection does not see them and the next instruction
  reads the old tag. (`ReadsTheMark` is left out of `MayFollow`.)
* **The shadow of a branch or of a refused instruction.** The tag half of ID/EX
  does not look at `instr_valid`: a `p.set`, `p.hmark`, `p.hset` or `jal` that is
  killed still marks a register or sets or applies a level. (`ShadowOfBranch` is
  left out of `MayFollow`, and `CheckProgram` has none of these.)
* **Refused transfers and the stale STOP interrupt** (`twi.c:241`). `twi_stop`
  turns the interrupt off, so the completion of the STOP stays pending and is
  taken when the next call turns the interrupt on, before its command. If the
  device refused the last transfer, the status still says so: the handler stops
  again and turns the interrupt off, and the call polls for ever. The comment at
  `twi.c:260` says of the place where `twi_state` is set that it keeps the
  previous interrupt from acting. (`WaitingCallsReturn` starts from a caller
  whose interrupt is on.)
* **The number that a refused read returns** (`twi.c:123` and 128). The output of
  `twi_readFrom` is the "number of bytes read" (`twi.c:115`), but a read that is
  too long returns 1 and one that finds the driver busy returns 4, the codes of
  `twi_writeTo`; `Wire.cpp:99` takes the result for a count and makes so many
  bytes of `rxBuffer` available. (The model has both codes, as results of the
  kind "refused"; `ReadsReturnWhatWasSent` speaks of reads that were accepted.)
* **The wake-up of a deleted task.** A receiver that has been woken for a message
  and is deleted before it looks takes the wake-up with it; another receiver
  sleeps on. (The programs of `MCMessageQueue` delete nobody.) A reset of a queue
  wakes one sender however many wait. (`Length` is 1.)
* **Wraps of small counters.** `xNumOfOverflows` and `uxPendedTicks` have 8 bits:
  a call that sleeps past 256 wraps, or a suspension of 256 ticks, is not
  noticed. (`OverflowSpan` and `PendedSpan` are the widths.)

## 6. What is proved

Each theorem holds for every value of the constants that the named assumptions
admit.

**`GenericFifoProofs`** (assumption `FullWidth`: the depth is a power of two, or
rather the pointer's span is the depth). `FifoTypeCorrect`,
`FifoStateMatchesPointers` and `FifoImplementsQueue`. The first two come from
`IInv`, types and agreement of pointers and controller together: neither is
inductive alone, because the neighbour test only says "empty" or "full" rightly
if the pointers were in range. For the refinement, `InvariantShapesContents`
gives the length and the elements of the mapped queue, `ContentsAfterClock` what
each of the eight branches does to it, and `ClockIsCycle` puts them together: a
step of the FIFO is a step of `BoundedFifo`, never only a stutter.

**`CoreRegionProofs`** (the assumptions of the modules). `CoreAnswersAwaited`:
one access is under way, in the memory the response register listens to, if and
only if the controller waits. `CoreStoresWriteTheirBytes`: memory equals
byte-wise memory. Both come from one invariant, which joins them with the types
of four registers and with `PartsInOrder`: an access that was granted while EX
stalled is still in EX, and a second part in EX is at the word after the one its
first part was granted at (`first`). Without it a second part could write
anywhere. The arithmetic of the lanes is in the lemmas `RotatedByte` and
`MergeIsStore`. `CoreTypeCorrect` needs that every register stays in range
through extension and lane writes.

**`CoreRegionLoadProofs`**. What a load returns. `LoadsReturnMemory` is about WB
alone; the invariant has to say where the two halves of the value are in the
meantime: `FirstWordKept`, that the first word is at the output of the memory
that is about to answer, or in `rdata_q`, as long as the second part is in EX;
`ResultKept`, that the answer, or `rdata_q` after an answer in a stall, gives what
is wanted. A clock edge is packaged once as `Cycle` (`ClockIsCycle`); the lemmas
on `Cycle` then deal with a grant, an answer or nothing. `ExtendIsLoad` shows for
any words, offset, type and extension that the unit's assembly is the byte-wise
reference. Hypotheses: `NoStalledPairs` for the data (no misaligned load while
something other than the memory can stall EX); for the tags `LoadsInReach`
(loads inside one word of the RAM, whole words or words with address bit 2
clear), whatever the stores are; for `CoreTagsFollowStores` no other master.
Section 5 shows for each what happens without it. The three runs of
`CoreRegion` meet the first, the tag run the other two.

**`TagPipelineProofs`**. `TagPipelineTypeCorrect` for every program and policy.
The others assume `CarefulProgram`, five conditions on program and policies that
each stand for a disagreement of section 5, and `MarksUndisturbed`, which is
assumed of the run: no exception while a `p.set`, `p.hmark`, `p.hset` or `jal` is
in ID or an instruction waits behind a mark. `MarksStayUndisturbed` gives it for
programs without marks, whatever the checks, and for policies without checks;
`CarefulProgramsFollowPolicy` is the result without any assumption on runs.
Programs of any length with any number of registers are covered, with every order
of stalls, late answers, taken branches and refusals.

The invariant for the tags (`TagInv`) says besides `TagsFollowProgram` that the
two halves of ID/EX belong together (`HalvesAgree`), what stands behind a mark in
EX (`InOrder`), and what keeps the repetitions harmless that come from the tag
half ignoring `instr_valid`: a word left behind in ID has been executed
(`ThrDone`, `MarkDone`) and a register set that is repeated into a bubble is in
the register file already (`MarkWritten`). `ForwardingIsRight` is the heart: what
the multiplexers select for an operand that may be read is what the register
will hold when EX and WB are done. `WritesLand` and `WaitKeepsTags` follow the
write ports over an edge, `ExecutedGivesTags` and `BubbleKeepsTags` what enters
EX. For the checks `JudgeInv` adds the verdicts on the loads in EX and WB
(`ExLoadJudged`, `WbLoadJudged`).

**`TaskListProofs`, `TaskSchedulerProofs`** (assumptions of `TaskScheduler`). Any
number of tasks, priorities and programs, any tick width, any order of calls,
ticks, creations and deletions.

`TaskListProofs` says what each operator does to the lists. The recursive
functions are reasoned about by the least counterexample (`NatMin`,
`SetInduction`): `ListRemovePicks` gives the places of the list that survive a
removal, in order, and everything else about `uxListRemove` follows
(`ListRemoveIs`: what is left has no repetition and is sorted if the list was).
`ListInsertIs` is the same of `vListInsert`, the lemmas on rings of the ready
lists. On top of them come the kernel's macros and calls, each with what it
keeps of `GenericOk` (a task is in one ready or delayed list at most),
`TopOk` (`uxTopReadyPriority` is not below a ready task), `Sorted` and
`InTime` (wake times of the list in use are still to come, those of the overflow
list come after the wrap, `xNextTaskUnblockTime` is not late). The tick is a loop
over the tasks that are due and, on a wrap, an exchange of the lists; `CatchUp`
repeats it for every pended tick.

`TaskSchedulerProofs` has two inductive invariants. `StructInv` joins those four
with `PlacedOk` (exactly the tasks that exist are in a list), `PlacesOk` (only
the current task is inside a suspension, and the nesting is what its place
says), `CurOk` (the current task is ready unless it put itself to sleep and is
about to yield), `IdleOk` (the idle task is always ready, so a switch always finds
a task; the deleted ones wait for it, each once) and `HighOk`. No two of them
stand alone: a switch finds a ready task because idle is one, a task moves to
its ready list once because it was in one list before, and `DelayPlace` may take
`cur` out of the ready list because `cur` is in it, which is known from the
places. `KernelStructure` gives `SleepersInOrder`, `HigherTasksRun` and
`OneListEach` without further hypothesis. They are theorems about `KernelSpec`,
whose tasks call what `tasks.c` offers; queues are a system of their own
(`QueueSpec`).

`TimeInv` says when sleepers wake: the ticks to the wake time in the list are the
ticks to the moment asked for, those pended included; a periodic task that is
awake is past its moment; and `*pxPreviousWakeTime` equals that moment modulo the
tick width, which makes the comparisons of `vTaskDelayUntil` right on both sides
of a wrap. `KernelTime`, `DelaysEndOnTime` and `KernelTypes` assume
`PendedTicksFit`: no suspension of the scheduler outlasts the counter of pended
ticks. The code does not ensure it: `uxPendedTicks` has eight bits, and 256 ticks
of suspension are forgotten (a hazard of `PROJECT.json`); with it, every other
combination of wraps, pended ticks and preemption is covered. The instance of
the run meets it.

**`MessageQueueProofs`** (assumptions of `TaskScheduler` and `MessageQueue`).
`OneTaskHoldsSchedulerThm` and `QueueTypeOKThm`, for any number of tasks, any
programs and priorities, and any tick width and queue length. The invariant
`IInv` has three parts. `Typed` adds to `QueueTypeOK` the program counters, the
calls' places of return and the range of the suspension count; the lists of
tasks are left untyped, since nothing here depends on them. `HeldTwice` says
that a count of two belongs to a task that nests its suspension ("held"), which
is what makes the end of a call let go of the scheduler. `OneTaskHoldsScheduler`
itself is not inductive: a task that returns from `Resume` to a place it should
not be at would break it. The proof turns on one fact about switches,
`SwitchUnderSuspension`: while the scheduler is held `cur` does not change.
Every action is then one of four kinds, with one lemma each: outside
(`MoveFree`), taking the scheduler (`MoveTake`), keeping it (`MoveKeep`), leaving
it (`MoveLeave`).

`NoEarlyTimeoutThm` has no hypothesis beyond the assumptions: it covers every
wrap of the tick count and of its overflows, and pended ticks that are lost. Its
invariant `TimeoutInv` says what the two numbers of a `TimeOut_t` are evidence of
(`Elapses`: at least the difference of the tick counts has gone by, and a whole
round more if the tick count is behind or the overflows differ), and that a call
with a timeout has spent its time, or what is left of its block time is not less
than the ticks to the moment it asked for (`OnTime`). `CheckIsOnTime` is where the
negative elapsed time of `queue_timeout` comes in: it only ever makes a call wait
longer. That a loop of the kernel leaves the clock alone or moves it by so many
ticks needs no more of the lists than that an event list is a sequence, so this
proof does without a structural invariant.

`NoReceiverSleepsOnThm` and `NoSenderSleepsOnThm` say that no wake-up is lost, for
any number of tasks and interrupts, any priorities, timeouts and programs within
the hypotheses below. As they stand the two properties are not inductive, for
they say nothing while the queue is locked, and tasks that are "awake" may be on
their way to sleep. The invariant, one for each event list `e`, has three parts.

* `CallInv` joins the two invariants above with `ListInv`, which relates the
  lists to the calls: the kernel's lists are consistent (`ListsOk`, from
  `TaskListProofs`); a task that runs without being ready is on its way to a
  yield (`RunningOk`); whoever waits on an event list called for it and will go
  round the loop again (`WaitersOk`); tasks not created or deleted are in no list
  (`AbsentOk`); the idle task is always ready (`RestOk`).
* `AllWoken(e)`: while tasks wait on `e`, at least `Left(e)` tasks are `Woken(e)`:
  awake, or kept in `xPendingReadyList`, and at a place from which they look at
  the queue again. `Left(e)` is what lies in the queue for them, without what
  interrupts moved while the queue was locked: that is `prvUnlockQueue`'s to wake.
* `PlaceOk`: a task between its last look at the queue and
  `vTaskPlaceOnEventList` finds nothing left when it gets there. What interrupts
  move in between is counted by the lock, so `Left` stays at most zero.

Every step is one of three kinds. A step that wakes tasks, or none
(`Wakes(k', k, W)`, with lemmas for the tick, for the loops of `xTaskResumeAll` and
`prvUnlockQueue` and for the switch), keeps the lists (`WakingKeepsLists`) and
adds `W` to the tasks that are awake (`WakingKeepsEnough`); `WokeStep` sets that
against what the step adds to or takes from the queue. In a step that puts the
running task to sleep (`Rests`) either `PlaceOk` applies or the task was not among
those that count. The last kind creates, ends or frees a task that is in no call.

The hypotheses exclude what is not true of the code (both have counterexamples
with three tasks besides the idle task). `NobodyIsDeleted`: no task deletes
another, for a deleted task takes its wake-up with it. `OneIsEnough`, for the
senders only: the queue has one place, or no task resets it, for a reset wakes one
sender only (`queue.c:282`). A task may still delete itself. The instance of the
run meets both.

**`TwoWireProofs`** (assumption `LengthAssumption`: the buffer holds at least one
byte). `WritesReportTheTruthThm`, `ReadsReturnWhatWasSentThm` and
`BufferBoundsThm`, for every size of the buffer, every length and every order in
which callers, interrupts, the device and other masters get their turn. The
invariant `IInv` says what the results rest on while a transfer is under way:
which commands the controller can be at work on at each place of the caller
(`CommandsInOrder`: a command still running has no interrupt pending, a stale
one can only be met before `twi_state` is set), how far the device has come
(`WriteInOrder`: the bytes handed over are taken except the last, and the last
too once its interrupt is there; `ReadInOrder`), that what a caller in its
polling loop will return is true already (`WriteIsTrue`, `ReadIsTrue`), and how
many bytes the controller can have read when the caller was too late
(`ReadsInBounds`: at most one more than were stored, which keeps the
data in range). A result stays true for as long as it is the last one
(`ResultStands`); a write that did not wait is held to the errors it reports,
since without an error nothing is known of its transfer yet. Whatever ends a
transfer (the last byte, a refusal, a lost
arbitration) does so by one lemma, `EndKeepsIInv`; the other actions have a
lemma each.

**Only model-checked**: every safety invariant and action property of the passing
runs is proved. Liveness (`RequestsAreGranted`, `MisalignedLoadsComplete`, `ReadyTasksRun`,
`SleepersWake`, `WaitingCallsReturn`) is out of the prover's reach, which has
neither fairness nor `ENABLED`. The library's induction theorems cannot be used
either, as they take an operator as a parameter; where a proof needs induction,
over the length of a list or the pended ticks, it argues with the least
counterexample instead.

## 7. What is not modelled

* **The core outside the patch** (fetch, controller, decoder, ALU, CSR file,
  debug unit), **the peripherals and the AXI interconnect**: submodules that are
  not in the repository. What the modelled parts need of them is marked external.
* **The instruction side, `random_stalls`, reset and clock cells, RAM macros,
  wrappers, SoC top**: wiring, or behaviour whose other half is a submodule.
* **In the DIFT**: PULP vector opcodes, post-increment accesses, `p.hmem`, the
  tag of the PC, misaligned accesses in the pipeline, writes to TPR, TCR and THR,
  hardware loops, the level bits of register tags (no unit reads them). The half
  of `load_check` that compares levels (`exception_o_h`,
  `riscv.patch:21120` to 21138) is left out with them: the level of loaded data
  would come from `data_rdata_i_tag[5:4]`, and `core_region.sv` connects the
  lower four bits only.
* **In FreeRTOS**: notifications, mutexes and priorities that change, the
  contents and positions of a queue, overwrite, queue sets, the saving of
  registers in `port.c`. Software timers, co-routines and event groups are not
  in the application's build; `vTaskSuspend` is configured away. `Create` leaves
  out what happens inside `pvPortMalloc` (`heap_1.c`): the suspension of the
  scheduler around each of the two allocations of `xTaskCreate` (a tick that
  falls into it is pended and made up for at its end, with the yield the tick
  itself would have made) and the allocation that fails, after which nothing of
  the kernel's data has changed. `vPortFree` of `heap_1` does nothing.
* **In the Arduino library**: the slave part of `twi.c`, which the interrupt
  handler never reaches, `Wire.cpp`, time base, pin interrupts, serial port,
  SPI, strings. The hazards seen in them are listed without a property.
* **System, string and benchmark libraries, start-up code, boot code,
  applications, tests, test bench, FPGA flow and scripts**: no state of their
  own, or no state that outlives a call.
* **The toolchain** (`src/riscy-toolchain`): copies of GCC and binutils files
  with the encodings of the added instructions. They are by far the largest
  body of C in the repository (some 140,000 lines), upstream code for the most
  part and without bearing on how the system behaves at run time; the hardware,
  which is SystemVerilog and a patch, is much smaller. A share of modelled lines
  taken over the C files is therefore small and says little about the system.
