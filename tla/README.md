# TLA+ models of the OSEK and JSP kernels and the ETrobo 2011 program

The repository holds the program of a two-wheeled LEGO NXT robot for the ETrobo contest of
2011 (`src/nxtOSEK/etrobo2011`) and the platform it is built on: two RTOS kernels ported to
the NXT, of which a program takes one (`toppers_osek`, `toppers_jsp`), the ECRobot device
layer (`ecrobot`) and the low-level drivers of leJOS NXJ. This directory models the parts
whose correctness depends on the order in which tasks, interrupt handlers and callbacks run:
both kernels, the sleep functions built on the first, the tasks of the robot, and the state
machines that drive it over its courses.

## 1. The system

| component | state | operations | interacts with |
|---|---|---|---|
| OSEK kernel: tasks, resources, events, dispatcher (`kernel/task.c`, `task_manage.c`, `resource.c`, `event.c`, `cpu_support.S`) | task control blocks, ready queues with a bit map, `nextpri`, `schedtsk`, `runtsk`, resource control blocks, saved contexts | `ActivateTask`, `TerminateTask`, `ChainTask`, `Schedule`, `GetResource`, `ReleaseResource`, `SetEvent`, `ClearEvent`, `WaitEvent`, dispatch, idle loop, interrupt entry and exit | called by every task and handler |
| OSEK kernel: counters and alarms (`kernel/alarm.c`) | counter value, alarm queue ordered by expiry, expiry value and cycle per alarm | `SetRelAlarm`, `SetAbsAlarm`, `CancelAlarm`, `SignalCounter` | `SignalCounter` unlocks the CPU around each alarm callback (`SetEvent`, `ActivateTask`) |
| OSEK kernel: interrupt suspension (`kernel/interrupt.c`) | nesting counts, `saved_callevel`, `saved_ipl` | Suspend/Resume of all and of OS interrupts, Disable/EnableAllInterrupts | changes `callevel`, which every service tests |
| NXT interrupt wrappers and timer (`irq.s`, `hw_sys_timer.c`) | controller levels, saved contexts | category-2 entry and exit, the 1 ms tick | calls `user_1ms_isr_type2` |
| ECRobot sleep functions (`ecrobot/c/rtoscalls.c`, `c++/device/I2c.cpp`) | slots of sleeping tasks, a task and a flag per I2C port | `Sleep`, `SleepI2C`, `SleeperMonitor` | waits for and sets events of the kernel |
| ETrobo tasks (`etrobo2011/main.cpp`, `main.oil`) | five flags shared without a lock, locals of the tasks | five periodic tasks, the starter, the 1 ms handler | alarms, events, `SleepI2C` through the sonar |
| ETrobo course and drivers (`InCourse.cpp`, `OutCourse.cpp`, `*Driver.cpp`, `SitDownSkill.cpp`) | the section of the course, and of its driver a sub-state, a timer, counters and flags | one step per call of `drive()`; `TaskSonar` measures for the sumo driver | read the detectors and `Gps`, set `gDoSonar`, `gDoMaimai` |
| ETrobo control, position, history, detectors, skills | controller terms, position, a ring buffer of samples | one update per period | called by the tasks and drivers |
| JSP kernel: tasks (`task.c`, `task_manage.c`, `task_sync.c`, `task_except.c`, `sys_manage.c`, `armv4/cpu_support.S`) | task control blocks, ready queues, `schedtsk`, `runtsk`, dispatch and exception flags | activation, termination, priorities, sleep, suspension, exceptions, dispatch | called by tasks and handlers |
| JSP kernel: objects (`semaphore.c`, `eventflag.c`, `dataqueue.c`, `mailbox.c`, `mempfix.c`, `wait.c`) | what the object holds, and one or two queues of waiting tasks | give, take, poll and take with a timeout | `wait.c` links a waiting task to a queue and to a time event |
| JSP kernel: time (`time_event.c`, `cyclic.c`) | a heap of event times that wrap, system time | `tmevtb_enqueue`, `tmevtb_dequeue`, `isig_tim` | timeouts end waits, cyclic handlers call services |
| ECRobot device APIs, BIOS, flash loader | connection states, upload state | polling, upload | hardware |
| leJOS drivers, old C++ library, generators, samples | | | vendored, superseded or examples |

`PROJECT.json` lists every component with its sources and status.

**What is hard in it.** There is one processor and no memory protection; everything that goes
wrong is an order of events. An interrupt can make a better task ready at any instruction
outside a locked section, and whether the processor changes hands is decided later, from a
`callevel` saved at entry. `nextpri`, `schedtsk`, the bit map and the last pointers of the
lists are caches. Resources change priorities while activations arrive. `SignalCounter` walks a
queue that the callbacks it calls change. `Sleep` takes a slot of a shared array in two steps,
without a lock. The robot's tasks share flags and are kept apart only by their equal
priorities. A driver of the course waits a fixed number of calls for what another task or the
robot has to finish, and believes flags and histories that others fill. In the JSP kernel a
wait may end by delivery, timeout, release or termination, and whichever comes first has to
take the task out of two data structures, one of which lies on its stack. Each hazard is in
`PROJECT.json`, at its line, with the properties that would catch it.

**What makes each component correct.**

* scheduler: the queues hold the ready tasks once each at their priority, the bit map and
  `nextpri` are exact, `schedtsk` is the best; the processor runs `schedtsk`; it changes hands
  only to a strictly better task; equals are served in order of arrival.
* tasks and events: no recorded activation is lost, no task waits for an event that is set.
* resources: taken as a stack per task, exclusive without any test in the code of the tasks.
* alarms: each behaves like a timer of its own.
* suspension: no service inside a section, all of them outside.
* sleep functions: whoever sleeps is woken.
* JSP kernel: the first ready task runs; a task is in the queue and the heap that its state
  says, no longer and no shorter; nobody waits for what is there; data arrive in order, a
  block has one owner; a timer goes off at its time; exceptions are taken.
* course: the robot rolls on its tail only when it sits; light, collisions and sonar are
  believed once, and only when they are fresh.
* robot: the balance loop runs again and again, flags are not torn, the starter starts it.

## 2. The modules

```
SchedulerQueues <= implemented by = OsekReadyList -> OsekBitmap
      |
  OsekSched                                                         (operators of task.c)
      |
  OsekKernel                                                        (services, dispatcher, interrupts)
      |  \
      |   OsekInterrupt                                             (Suspend and Resume)
      |   OsekKernelMC <- OsekPrecedence => implements PriorityOrder
      |                         ^--- OsekKernelProofs -> OsekBitmap
      |
  Sleeper <- SleeperMC                                              (Sleep, SleepI2C, SleeperMonitor)
      |
  RoboTasks <- RoboTasksMC     with an instance of OsekAlarm

OsekProgramProofs -> OsekInterrupt, SleeperMC, RoboTasks, OsekKernelProofs

OsekAlarm <- OsekAlarmMC => implements AlarmTimers
      ^----- OsekAlarmProofs <- QueueLemmas

SitDownSkill <- Course <- InCourse, OutCourse <- RoboCourse <- CourseProofs

JspTime <- JspTask <- JspWait <- JspServices <- JspObjects <- JspKernel   (operators of the kernel's
                                                               ^   ^       functions, then its actions)
QueueLemmas <- JspQueueProofs <- JspKernelProofs <- JspObjectProofs
                       |                                       |   |
                       +---------------------------------------+   JspKernelMC => implements JspTimers
```

| module | models | how its state and actions correspond to the code |
|---|---|---|
| `OsekSched` | `task.c` | The record `rdy` has `ready_queue` (a sequence for each list), `ready_primap` (a set), `nextpri` and `schedtsk`. `InsertFirst`, `InsertLast`, `MakeRunnable`, `SearchSchedtsk`, `Preempt` are the functions of `task.c`; they run with the CPU locked, several in one service, so they are operators and not actions. |
| `OsekReadyList`, `OsekBitmap`, `SchedulerQueues` | the same functions as they are stored | Lists linked through `tcb_next` whose last pointer is stale while a list is empty, a 16-bit map and the table of `bitmap_search`. Refinement of `SchedulerQueues`, which runs the operators of `OsekSched`. |
| `OsekKernel` | `task_manage.c`, `resource.c`, `event.c`, `task_initialize`, `StartOS`, `cpu_support.S`, `irq.s` | Variables have the names of the control block fields. A service is one action, because it runs between `lock_cpu` and `unlock_cpu`; an interrupt may arrive between any two actions. `Dispatch` leaves the continuation the code leaves in `tcxb_pc`; `isrstk` is the context that nested wrappers save. A service that fails a check changes nothing and is a stuttering step. |
| `PriorityOrder`, `OsekPrecedence` | the promise of the scheduler | One list of the runnable tasks in order of precedence; the mapping is `schedtsk` followed by the queues from the highest priority down. |
| `OsekInterrupt` | `interrupt.c` | `SuspendAllInterrupts`, `SuspendOSInterrupts` and their counterparts, each one step, over all the steps of the kernel. `set_ipl` does nothing on this port. |
| `OsekAlarm`, `AlarmTimers` | `alarm.c` | `SignalCounter` is cut where it unlocks the CPU: one step to the first callback, one from the return of each callback to the next. Tick values wrap as in `add_tick` and `diff_tick`. `AlarmTimers` is the promise: independent countdown timers. |
| `Sleeper`, `SleeperMC` | `rtoscalls.c`, `I2c::receive` | Every read and write of the shared arrays is a step, at a program counter per task; the monitor is the handler of interrupt 1. |
| `RoboTasks`, `RoboTasksMC` | `main.cpp`, `main.oil` | A loop body is cut into steps where another task's write of a shared flag may fall. What a driver, a sensor or the logger computes is a choice from the values it can write. |
| `SitDownSkill`, `Course`, `InCourse`, `OutCourse` | `SitDownSkill.cpp`, `InCourse.cpp`, `OutCourse.cpp` and the drivers of the gate, the stairway, the seesaw, the sumo ring and the garage | The record `drive` has the fields of the driver under way: `sub` is its sub-state, the others have their names. One step is one call of `drive()`, 4 ms of `TaskDrive`. Where the robot is and what a detector sees is a choice, within what its motion allows from one call to the next. In the out course `TaskSonar` runs beside it, with its alarm and a measurement that takes its time. |
| `RoboCourse` | `Course::drive`, `main.cpp` | One course or the other, and the properties of both. |
| `JspTime`, `JspTask`, `JspWait`, `JspServices`, `JspObjects` | `time_event.c`; `task.c`, `cpu_support.S`; `wait.c`; `task_manage.c`, `task_sync.c`, `task_except.c`, `sys_manage.c`, `cyclic.c`; the files of the objects | Each function of the code is an operator from the record of the kernel's state to the next one, with the name of the function; a service calls several with the CPU locked. `tcb[t].tstat` is the set of the `TS_` bits. The heap is an array indexed from 1, with the place of each event in its block, as in the code. |
| `JspKernel` | the kernel and its callers | One action per service and context, whose guard has the checks of the `CHECK_` macros. A service that fails is a stuttering step. Handlers and ticks come when the CPU is unlocked; `isig_tim` is a step for each handler it calls, since it unlocks the CPU around them. |
| `JspTimers` | the promise of the time events | Independent timers that count milliseconds. |
| `OsekKernelProofs`, `OsekProgramProofs`, `OsekAlarmProofs`, `CourseProofs`, `JspQueueProofs`, `JspKernelProofs`, `JspObjectProofs` | | theorems, section 5; `QueueLemmas` has the facts about sequences they share |

Operators marked `fault` are plausible errors of the operator they stand beside. No
specification uses them; they are there to show that a property can fail.

## 3. What is checked

TLC checks twelve instances. With two workers `JspKernel` takes between three and four minutes
and the others up to two.

| run | instance | shows |
|---|---|---|
| `OsekKernel` | 4 tasks on 3 priorities: one with an internal resource, one non-preemptive, two that record one activation, one extended that waits for an event; two resources with different ceilings; two interrupt levels that nest | types; `RunningIsScheduled`, `SchedulerConsistent`, `NoLostActivation`, `StartedTasksLead`, `ResourcesStacked`, `MutualExclusion`, `PreemptedOnlyByBetter`, `NoLostWakeup`, the refinement `ImplementsPriorityOrder`, and under fairness `BestTaskRuns` |
| `OsekReadyList` | 3 tasks on priorities 1, 5 and 9, in different nibbles of the map | `ImplementsQueues` |
| `OsekAlarm` | 3 alarms, one periodic and one single from the start, MAXALLOWEDVALUE 2 (the counter runs over 0..5) | types, `QueueAhead`, `SignalCounterEnds`, the refinement `ImplementsTimers` |
| `OsekSuspend` | 2 tasks, 1 interrupt, both kinds of section nested twice | `SuspendedSection` |
| `OsekOsGap` | as above, OS sections only | **violation** of `RunningIsScheduled` |
| `SleeperSamples` | 2 sleeping tasks and a sensor reader of equal priority, 2 slots | `SlotsOwned`, `SleepersWake`, `ReadersWake` |
| `SleeperPreempted` | 2 sleeping tasks of different priority | **violation** of `SleepersWake` |
| `RoboTasks` | all five tasks with their alarms; Maimai and Gps every second tick | `SharedMemoryTurns`, `SonarForgets`, and `KeepsDriving`: once started, the balance step comes again and again |
| `RoboStart` | Drive, Logger | **violation** of `RemoteStart` |
| `RoboLamp` | Drive, Maimai | **violation** of `LampAsRecorded` |
| `RoboCourse` | every section of both courses from its start, with the waits and periods of the code | `SeatedBeforeTripod`, `CountsFreshDetections`, `LightSettled`, `OneStepPerCollision` |
| `JspKernel` | 3 tasks on 2 priorities with handlers and ticks, in thirteen configurations (below) | `RunsFirstReadyTask`, `WaitQueuesMatchStates`, `NoneWaitsForWhatIsThere`, `EventsMatchWaits`, `ExceptionsAreTaken`, `ArrivesInOrder`, `BlocksHaveOneOwner`, and the refinement `GoesOffInTime` |

**Why the bounds are enough.** The functions of the scheduler compare two priorities at a time
and touch the two ends of a queue, so three tasks of which two are equal, and a third task
above or between, bring out every branch; a fourth is there for a chain of preemptions through
the internal resource, the non-preemptive task and a resource ceiling. Recorded activations
need `tinib_maxact` 1 to be at the limit and above zero. Two interrupt levels give a handler
that interrupts a handler. Two resources give both orders of nesting and of ceilings. Three
alarms give an insertion at the front, in the middle and at the end of the queue; a counter
of six values wraps within the longest delay. Two slots give the race for a slot and the
second slot. `RoboTasks` has all five tasks; `RoboStart` and `RoboLamp` have the two that the
finding is about. `RoboCourse` has the numbers of the code. Every section is a start, from the state
that entering it establishes, as if the robot were put down there: a driver keeps nothing of the
section before. No run has a state constraint; the
histories that count are capped where the property no longer tells the values apart.

The configurations of `JspKernel` (module `JspKernelMC`) are programs, each with the services
that interact: `Scheduling`, `Exceptions`, `Sleeping`, `Semaphore`, `EventFlag`, `ClearingFlag`,
`DataQueue`, `Rendezvous` (a data queue with no buffer), `ForcedQueue`, `Mailbox`,
`PriorityMailbox`, `MemoryPool` and `Handlers`. They are initial states of one run. Two waiting
tasks and the one that serves them bring out each order in a queue; a third timeout value
comes between two others. Six cyclic handlers make a heap of three levels, in which the
last event may have to move up when it replaces one deleted from the middle. Times have 3 bits
(`EVTTIM_BITS`), so that they wrap again and again; 32 in the code. A program sends three or
four items. Exception routines nest at most twice (`MaxTexNest`). Deadlock is not checked in
this run: tasks may all wait for ever, and a program that has sent its items and has no timer
stops.

**Abstractions that matter when reading a counterexample.** Timer periods are one or two ticks
instead of 4, 10, 60 and 100: the phases of the tasks are then arbitrary. The duration of a tick
against the work of a task is open. A press of the starter is held until the robot goes. The
first loop of `SleeperMonitor` tests the ports in any order, and a port that becomes free while
it runs may still be served in the same tick. `U32_MAX` in `Sleep` is never counted down: at
1 kHz that takes 49 days. `SuspendOSInterrupts` and the other three are one step each.

**Fairness.** `OsekKernel`: start-up ends, an interrupt handler that has nothing nested in it
returns, and the idle loop gets to its test of `schedtsk` in spite of interrupts (strong
fairness: the interrupts take it away again and again). Tasks get no fairness: they may run
for ever. `OsekAlarm`: callbacks return. `Sleeper`: the tick comes and its handler ends, the
I2C driver ends a transaction, and a task that has the processor again and again gets on with
its program. `RoboTasks` adds that `WaitEvent` follows the adjacent `ClearEvent` without a
tick between them at least now and then. That a task waits in the end is what gives the
processor to its equals, there being no time slices. With Gps and Maimai, both of higher
priority than Drive, a timer that ticks without regard to their execution times can starve
Drive. `RoboTasks` assumes (constant `OnTimes`) that these two, some hundred microseconds of
arithmetic every 4 ms (Gps) and one sensor value every 10 ms (Maimai), and one of Sonar and
Logger, end their work before the next tick. Drive itself and the other one of the two may be as late as they like.
`RoboCourse` and `JspKernel` check safety and assume no fairness.

## 4. Where code and comments disagree

* `OsekOsGap`: `task.h:101` says `schedtsk` equals `runtsk` while a task runs, and `preempt`
  asserts it (`task.c:300`). `SuspendOSInterrupts` sets `callevel` to `TCL_NULL` but, because
  `set_ipl` is empty on this port, lets category-2 interrupts in. One that activates a better
  task does not dispatch on return, and nothing dispatches at the end of the section.
* `SleeperPreempted`: `rtoscalls.c:123` promises that the monitor wakes the task that sleeps.
  The test and the setting of `isTaskSleeping[i]` (lines 112, 120) are two steps: a preempting
  task takes the same slot and one of the two is never woken. Equal priorities, as in the
  samples, exclude it (`SleeperSamples`).
* `RoboStart`: if the tick falls between `SetRelAlarm` and `WaitEvent` of TaskLogger
  (`main.cpp:321`), the logger does not wait but spins for `gTouchStarter`, at the priority of
  the only task that can set it.
* `RoboLamp`: `main.cpp:252` lights the lamp without recording it in `is_light_on`; the next
  sample of the Maimai method is stored as the one without light.

Four more are not runs. One is the exception that `OneStepPerCollision` makes, without which
TLC finds it. `BEFORELINETRACE` is to follow the line without the wall detector first, because that
may say yes while the robot shakes (`StairwayDriver.cpp:75`). A robot that rolls back from the
second step (211-214) comes there with x below 4100: line 70 clears `mDoDetectWall`, line 78
sets it again in the same call, and line 85 asks a few calls after the collision of that step. It
can count again as the foot of the stairs, and the coordinates are then overwritten with those
of the foot (91-92).

Of the other three nothing in the repository says otherwise, or no configuration of it shows
them. `interrupt_initialize` (`interrupt.c:103`) assigns `ISRID_NULL` to its local `isrid`
instead of `runisr`; nothing that the robot uses reads `runisr` outside a handler. With
TICKSPERBASE above 1 an alarm set by a callback can be queued behind a later one
(`alarm.c:134`); every `.oil` file of the repository has 1, which the runs use.
`ETsumoDriver::drive` always returns 0 (`ETsumoDriver.cpp:507`), so that `OutCourse` never comes
to the garage: the model has this as it is.

## 5. What is proved

The theorems hold for every number of tasks, priorities, resources, events and interrupts.
They assume `TaskTable` (module `OsekSched`) and `KernelTable` (`OsekKernel`): what the system
generator puts into `kernel_cfg.c`, namely at most 254 tasks and 16 priorities, an execution
priority not below the initial one, and limits of activations that fit a byte.

**The operators.** These are in `OsekKernelProofs`:

* `SearchFacts`, `MakeRunnableFacts`, `PreemptFacts`: each function of `task.c` keeps queues,
  bit map and `nextpri` exact, leaves the best task in `schedtsk`, and moves no task but those
  it should.
* `ListsImplementQueues`: `OsekReadyList` implements `SchedulerQueues` (`ImplementsQueues`). `Chained`
  says of a list, without recursion, that its links hold a given sequence and, where that is not
  empty, its last pointer the last task; the recursion of `Walk` is followed once, to show that
  it then returns this sequence. The invariant, `ListsSound`, is that the lists and the map stand
  (`StandsFor`) for scheduler data that are `Consistent`, the notion of the theorems above.
  Each function that changes the links changes them to those of the sequence that `OsekSched`
  has after the same function.
* `SearchIsHighest`: `bitmap_search` returns the highest 1 bit of every 16-bit map that is not
  empty.

**The OSEK kernel.** Each theorem is about `Spec` of `OsekKernel`, in the module
`OsekKernelProofs`.

| theorem | shows in every execution |
|---|---|
| `ActivationsKept` | `NoLostActivation` |
| `RunningScheduled`, `SchedulerExact`, `WakeupsKept` | `RunningIsScheduled`, `SchedulerConsistent`, `NoLostWakeup` |
| `StacksKept`, `TypesKept` | `ResourcesStacked`, `TypeOK` |
| `PrecedenceKept`, `CeilingExcludes`, `PreemptedForBetter` | `StartedTasksLead`, `MutualExclusion`, `PreemptedOnlyByBetter` |
| `PriorityOrderImplemented` | the refinement `ImplementsPriorityOrder` |

So every property that the run `OsekKernel` checks is also proved, except the liveness
`BestTaskRuns`. The invariants, each of which needs those before it:

1. `NoLostActivation` with the types of `tcb_tstat` and `tcb_actcnt`, which the steps that
   count need.
2. `DispatchInv`. `SchedulerConsistent` alone is not kept: the dispatcher gives a task its
   execution priority, which keeps it the best only if it was at its initial priority before.
   That is `FreshAtInitial`: an active task that is to take its execution priority
   (continuation `activate_r`, or back to `Schedule` or `WaitEvent`) has its initial priority
   until then. `Context` says that only the outermost handler may return to a task, and that
   this task is then `runtsk`; without it the dispatch in `int_from_int` would be for no task.
   `Booting` says that nothing runs, and the tasks not yet reached are dormant, before
   `StartOS`. The lemmas `ScheduledLeaves`, `TaskArrives` and `ScheduledYields` carry the
   operators of `task.c` over to all runnable tasks, and `AfterDispatch` closes every service
   that ends in the dispatcher.
3. `ResourceInv`: `ResourcesStacked` needs that a task that holds a resource is runnable and
   was set aside in a service or behind an interrupt (`Started`), which needs in turn that a
   handler does not end the task it interrupted (`RunnerActive`). Mutual exclusion is not
   part of it: that a resource is held once follows from the test of `rescb_prevpri`.
4. `LeadInv`: `StartedTasksLead` with `AboveInitial` (no active task is below its initial
   priority, now or after it gives back what it holds) and `WaitingFresh` (a task that waits
   will take its execution priority). `Leads` states it for any scheduler data, so that there
   is one lemma for each function of `task.c` (`LeadsSearch`, `LeadsArrive`, `LeadsYield`).
5. `NestedPriorities`, for the refinement alone: `tcb_curpri` and the priorities kept in
   `rescb_prevpri` are those of the tables, and each priority a task goes back to is not above
   the one it had before. Without it `ReleaseResource` could be a task that moves itself up.

`CeilingExcludes` is the point of the priority ceiling: suppose the running task may take a
resource that another task holds. The holder was set aside (3), its priority is at least the
ceiling (3), the ceiling is at least the initial priority of the running task, but that is
above the priority of the holder (4).

`PriorityOrderImplemented`: the kernel implements the abstract `PriorityOrder`, with the
mapping of `OsekPrecedence`, for every table. `Line` is that mapping for any scheduler data, so
that the proof goes by functions again: `search_schedtsk` drops the head of the line
(`LineLeaves`), `make_runnable` inserts behind the equals (`LineArrives`), `preempt` before them
(`LineYields`), and where a service finds no better task and does not call `preempt`, the head
stands there already (`LineStays`). Under them lie the facts about the join of the queues:
`queuesFrom` has the values its recursion says (`FlatExists`; the induction over the priorities
is `UpFrom`, by the well-foundedness of the numbers), and a change of one queue is a change in
one place of the order, between the better and the worse tasks (`OrderSplits`, `StandsBehind`,
`StandsBefore`). Each service is then one step of `PriorityOrder`, or none (`NextOrders`); the
longest is `ChainTask`, whose head leaves, comes again and is followed by another task. `pri` is
the priority before the dispatcher has given the head its execution priority, which is the
second half of `Settle`. `NestedPriorities` was checked over all states of the run `OsekKernel`
before it was proved.

**Suspended sections.** `SectionsRefuse` (`OsekProgramProofs`): `IntrSpec` implies
`[]SuspendedSection`, for every depth of sections and handlers: a task can call services exactly
outside its sections. A handler that interrupts it there has a level of its own. The code has one
`saved_callevel` for all of them, so the property alone is not inductive: what `callevel` comes
back to when a handler returns depends on the sections of everything below it. `SectionInv`
speaks of frames, frame 0 the task or idle loop and frame k the k-th nested handler:
the counts never fall from a frame to the next (`CountsGrow`), and only the frame in which they
left zero runs at `TCL_NULL`, and `saved_callevel` is the level of that frame (`LevelsKnown`).

**Programs without locks.** `Sleep` and the tasks of the robot share arrays and flags that no
resource protects. `EqualsTakeTurns` (`OsekProgramProofs`) is what they rely on: of the tasks of
one initial priority at most one is `Started`, that is, has run since it was activated or last
waited. It follows from `StartedTasksLead` and `AboveInitial` of the kernel without a word about
resources: two such tasks that were set aside would each be first of its queue and not below
the other, so first of the same queue.

* `RoboUsesKernel` shows that each step of `RoboTasks` is a step of `OsekKernel` or leaves it
  alone, so that the invariant of the kernel holds; then `TurnsKept` (`SharedMemoryTurns`) is
  `EqualsTakeTurns` for the three tasks. It assumes `SharedAtOnePriority`, that they have one
  priority, as in `main.oil`, and nothing about periods, flags or the other tasks.
* `SlotsKept` (`SlotsOwned`) assumes `SleepersAtOnePriority`; without it the property is false
  (run `SleeperPreempted`). `SlotInv` adds to it what a task knows from its look at the flag to
  its write of it: it is `Started`, so no task of its priority looks at the same time, and the
  slot is still free; and that a task that waits in `Sleep` waits for `EventSleep` alone, so its
  slot is in use until the monitor sets this event. `Undisturbed` says what a step of the
  kernel does to a task that does not call it: it remains `Started`, keeps its events and does
  not begin to wait.

**Alarms.** `AlarmTypesKept` (types, and that no alarm is queued twice), `QueueKept` and `TimersImplemented` (`OsekAlarmProofs`) are about
`Spec` of `OsekAlarm` for every number of alarms and every MAXALLOWEDVALUE. The last two assume
`TickByTick`: TICKSPERBASE is 1 and no alarm is set at start-up to expire at once. Both hold in
every `.oil` file of the repository; without the first an alarm set by a callback may be queued
behind a later one (section 4), without the second it is the queue of `alarm_initialize` that
is out of order. The invariant, `AheadInv`, says that the queue is ordered by
the ticks left (`diff_tick` from the present value, across the wrap); that none has 0 ticks
left unless `SignalCounter` is under way, so that between two callbacks the due alarms are
at the front; and that a periodic alarm whose callback runs, which is in no queue, has the present
value, from which its cycle counts on. `TimersImplemented` maps each alarm to a countdown
timer of its own and shows of each step that it is a step of those timers or a stutter; so no
alarm delays, loses or repeats another one, whatever the callbacks set and cancel.

**Time events of the JSP kernel.** `InsertHeaped`, `DeleteHeaped`, `RootFirst` and `TickHeaped`
(`JspQueueProofs`) are about the functions of `time_event.c`, for every number of events and
every width of the times. `tmevt_up` and `tmevt_down` are recursive functions: they move the nodes
on a path; what they do to a heap of any size is an induction over data. Here it is a choice of
the least number (`LeastNumber` in `QueueLemmas`): if the claim failed for some step of the
path there would be a first one, and before it the claim holds. `Filled` describes the heap
with a hole: order up, order down and across the hole, which is what each step keeps.
Times are compared by their distance to `current_time` (`Due`), so that the wrap is met once, in
the lemmas about words (`ShortMod`, `TickShift`, `Further`).

**The JSP kernel.** The theorems assume `ConfigurationTable` (`JspKernel`), the values that
the configurator accepts, and hold for every number of tasks, priorities and cyclic handlers.

| theorem | shows in every execution of `Spec` |
|---|---|
| `CoreKept` | the invariant `Core` |
| `RunsFirst` | `RunsFirstReadyTask` |
| `WaitQueuesMatch` | `WaitQueuesMatchStates` |
| `EventsMatch` | `EventsMatchWaits` |
| `ExceptionsTaken` | `ExceptionsAreTaken` |
| `TimersKept` | the refinement `GoesOffInTime` |
| `FineKept` | the invariant `Fine` of the object, with `Core` |
| `NoneWaits` | `NoneWaitsForWhatIsThere` |
| `ArrivesInTurn` | `ArrivesInOrder` |
| `BlocksOwnedOnce` | `BlocksHaveOneOwner` |

None of the properties of `Core` is inductive by itself, and they need one another: a timeout
takes the task out of a wait queue only if the bits of its state say which one, these are right
only if a release took the time event out of the heap, and `schedtsk` is right only if both
made the task ready once. `Core` is `Sound` and `Control`. `Sound` names the sets of ready
tasks and of those in the first and in the second wait queue, and says that `Sched` (ready
queues, map, `schedtsk`), `Waits` (the wait queues, by priority if so configured) and `Events`
(the heap) hold exactly these, and of each task (`TaskFits`) that the bits of its state are one
of the nine combinations `Legal` has, and agree with the sets and with its node in the heap.
`Control` says which task runs: `schedtsk`, with no exception to take, unless dispatching is
disabled, a handler has asked for a dispatch, or nothing runs.

The proof goes by functions, as the code does (`JspQueueProofs`, `JspKernelProofs`): in the
middle of a service one task is out of step, taken from the queues but still with its old bits,
or the other way round. `Mid` is `Sound` but for that task, and there is a lemma for each
function from `Mid` to `Mid` or to `Sound`. `JspKernelProofs` adds who runs: a
service may change `schedtsk` only with `ret` or `reqflg` set (`Asks`), which every end of a
service, of a handler and of a tick evaluates. `task_initialize` and `cyclic_initialize` go
through their tables; that the state at each entry is sound is again an argument by the least
entry that fails. TLC has checked `Core` over all the states of the run `JspKernel` before it
was proved.

`TimersKept` maps the heap to timers that know no clock (`JspTimers`): a timer runs for each
event in the heap, with the distance of its time from `current_time` left (`Tells`). `Core`
says which events those are, but nothing of the times in them, so there is a second round over
all services: each leaves the heap alone (`Timeless`), or takes out the event of one task
(`Frees`), or, outside of ticks only, puts in that of the caller at `next_time` and the timeout
(`Arms`). That a handler's next call comes a period after the last, not after the tick that was
late with it, needs the invariant `Punctual`: `evttim` is the time of its event. A distance grows by the
timeout or the period only if that does not carry it past the range of a word (`Further`), which
is what the limits of `TIC_NUME` and `TMAX_RELTIM`, half of the range each, are for.

`Fine` (`JspObjectProofs`) says what the object of a configuration holds, one predicate for
each kind: a semaphore with waiting tasks has count 0, no waiting task's pattern is met, a data
queue lets a task wait to receive only while it is empty and nobody waits to send, and to send
only while it is full, a mailbox or a pool with waiting tasks is empty. For a data queue and a
mailbox in order of arrival it adds that the items received, those inside, those in the hands
of the senders that wait and those still to be sent follow each other in this order (`Line`);
for a pool that the blocks are shared out between the free list and the tasks (`Owned`). It
rests on `Core`: the first of a wait queue is a task that waits there, with the data its
service left. Most steps do not touch the object. They end waits by timeout, release,
termination or a change of priority, and need one fact only: the queues lose some tasks that
are not left in them, or change their order if they are by priority (`Slims`, `Thins`), which
preserves `Fine` for every kind (`FineSlims`). The services of the objects are proved one by
one. `Fine`, too, was checked over all states of the run `JspKernel` before it was proved.

**The course.** `SeatedFirst`, `LightKept`, `CollisionsKept` and `DetectionsFresh`
(`CourseProofs`) show `SeatedBeforeTripod`, `LightSettled`, `OneStepPerCollision` and
`CountsFreshDetections` in every execution of `RoboCourse`, for all lengths of the waits and
periods that satisfy `SkillCounts`, `GateCounts`, `WaitsLongEnough` and `SonarTimes`: the skill
is over before the gate driver's wait, the drivers wait at least as long as lamp and history
take to settle, the sumo driver looks less often than the sonar measures and every move lasts
longer than the period of the sonar. The numbers of the code
satisfy them, as TLC evaluates in `RoboCourse`. `CourseInv` ties the counter of each sub-state
to what it stands for: the timer of the gate driver to the progress of the skill (`Progress`),
the timers of the others to the calls since the lamp was switched and since the last
collision. Its part `FootInv` is about the foot of the seesaw and of the stairs, where a collision
may be in the history only after rolling back, the exception that `OneStepPerCollision` makes
(section 4). So the theorems say what a change of one of these numbers has to keep.

`DetectionsFresh` needs an invariant of its own, `SonarInv`, because `gSonarIsDetected` stays
set between two measurements. It says what each sub-state may rely on (`Held`). While the robot
only moves, the sonar is off, and either it is quiet, with nothing measured and the flag
cleared, or the calls until its alarm and the calls since the move began make at most one
period; so it is quiet when the move is over. While the driver searches or scans, a
detection that was counted already is one whose successor is still on its way: the alarm comes
within a period of the look, and the measurement ends within `MaxDelay`. The calls since the
look are the remainder of `mTimeCounter` by `SampleEvery` (`Age`), also where the model folds the
counter back, which is what the lemmas about remainders are for. `SonarInv` was checked over all
states of the run `RoboCourse` before it was proved.

**Only model-checked.** Every invariant and every action property that the passing runs check
is proved, and so are the refinements `ImplementsTimers`, `ImplementsPriorityOrder`,
`GoesOffInTime` and `ImplementsQueues`. Left to TLC is what is out of the prover's reach, liveness
under fairness and ENABLED: `BestTaskRuns`, `SignalCounterEnds`, `SleepersWake`, `ReadersWake`,
`KeepsDriving` and `SonarForgets`.

## 6. What is not modelled, and the plan

Not modelled, and why:

* OSEK kernel: hooks and `ShutdownOS` (switched off in every `.oil` file); resources taken by
  interrupt handlers (no `.oil` file gives one to an ISR); `DisableAllInterrupts`, inside which
  OSEK allows no service; the in-service levels of the interrupt controller, about which the
  source says only when it writes AIC_EOICR.
* JSP kernel: `set_tim`, `get_tim` and `vxget_tim`, the services that only report (`ref_`,
  `sns_`), `iloc_cpu`, `iunl_cpu`, CPU exceptions, the system log and the serial driver
  (`systask/`).
* robot: the control laws, dead reckoning and the thresholds of the detectors, which compute
  with floating-point numbers; what they decide is a choice in the models of the drivers.
* ECRobot device API, BIOS and flash loader: layers over a Bluetooth chip, a USB controller
  and a flash controller whose behaviour is not in the repository.
* leJOS drivers, vendored, apart from the busy flag of an I2C port; the old C++ library,
  superseded; the OSEK generator, a binary; the configurator and the device manager of the
  JSP distribution, which run on a PC; samples and generated documents.

The last group, with headers of registers and of graphics libraries, makes up most of the
lines of the repository. The models stand for most of the two kernels and of the robot's
state machines, a small share of all lines.

Next, in this order:

1. Model: the serial driver of the JSP kernel over two semaphores and a ring buffer; the ring
   buffer of `History.cpp` against a bounded sequence; the connection states of Bluetooth and
   USB.
